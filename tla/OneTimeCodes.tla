---------------------------- MODULE OneTimeCodes ----------------------------
(***************************************************************************)
(* One-time codes (internal/store: otp_store, phone_change_store,          *)
(* dispatcher_otp_action_store, and the handlers that send and verify).    *)
(*                                                                         *)
(* A key is what Redis keeps a code under: the phone of a driver, of a     *)
(* dispatcher or of a company user (OTPStore under three prefixes), or the *)
(* id of a ticket, made for one change of phone or reset of a password.    *)
(* Every Redis command is one atomic step. A handler issues several and    *)
(* ignores many of their errors, so it compares, counts and deletes on     *)
(* what it has read before.                                                *)
(***************************************************************************)
EXTENDS Naturals

CONSTANTS
  Key,
  MaxCode,     \* bound: the codes sent for one key
  MaxAttempts, \* OTP_MAX_ATTEMPTS
  SendLimit,   \* OTP_SEND_LIMIT_PER_PHONE_PER_HOUR
  IpLimit,     \* OTP_SEND_LIMIT_PER_IP_PER_HOUR, for the one client address
  TryLimit,    \* OTP_VERIFY_ATTEMPTS_PER_PHONE
  Request,     \* handlers that can be in flight at the same time
  MaxFaults,   \* bound: crashes and failing Redis commands in one behaviour
  Null

ASSUME CodeAssumption ==
  /\ {MaxAttempts, SendLimit, IpLimit, TryLimit} \subseteq Nat \ {0}
  /\ MaxCode \in Nat /\ MaxFaults \in Nat
  /\ Null \notin Key

PhoneKind  == {"driver", "dispatcher", "company_user"}
TicketKind == {"phone_change", "disp_reset", "disp_phone"}

\* Counters of OTPStore. Drivers and dispatchers share the counter of the
\* address, company users have one of their own.
Counter ==
  ({"send", "try"} \X Key) \cup ({"ip"} \X {"shared", "company_"})

VARIABLES
  kind,     \* which store a key belongs to
  codes,    \* how many codes have been made for it; code n is the n-th
  rec,      \* the hash under the key
  cooldown, \* keys with otp:cooldown
  count,    \* rate counters
  req,      \* handlers in flight
  spent,    \* history: <<k, n>> when code n has left the record of k
  wrong,    \* history: wrong guesses evaluated since the record was saved
  uncounted, \* history: keys on which guesses overlapped, met the limit or
             \* a failure since the record was saved
  faults    \* crashes and failed commands so far

history == <<spent, wrong, uncounted>>
vars == <<kind, codes, rec, cooldown, count, req, history, faults>>

-----------------------------------------------------------------------------
None == 0
Code == 1 .. MaxCode

\* A hash with no field "hash" is left when only "attempts" has been written.
Record ==
  [here: BOOLEAN, hash: Code \cup {None}, attempts: 0 .. MaxAttempts,
   ttl: BOOLEAN]
NoRecord == [here |-> FALSE, hash |-> None, attempts |-> 0, ttl |-> FALSE]
Fresh(n) == [here |-> TRUE, hash |-> n, attempts |-> 0, ttl |-> TRUE]

\* INCR counts on above the limit; all above it is one value here.
Limit(c) ==
  CASE c[1] = "send" -> SendLimit
    [] c[1] = "ip"   -> IpLimit
    [] c[1] = "try"  -> TryLimit

Step ==
  {"idle", "check", "send.incr", "send.expire", "ip.incr", "ip.expire",
   "save", "try.incr", "try.expire", "write", "consume"}

Handler ==
  [step: Step, key: Key \cup {Null},
   code: Code \cup {None},   \* the code to save, or the one it has read
   seen: 0 .. MaxAttempts]   \* the attempts it has read
Idle == [step |-> "idle", key |-> Null, code |-> None, seen |-> 0]

Begin(r, h) == req[r] = Idle /\ req' = [req EXCEPT ![r] = h]
At(r, s)    == req[r].step = s
Goto(r, s)  == req' = [req EXCEPT ![r].step = s]
Return(r)   == req' = [req EXCEPT ![r] = Idle]

\* A Redis command, or the handler itself, fails while it is about key k.
Slip(k) ==
  /\ faults < MaxFaults /\ faults' = faults + 1
  /\ uncounted' = uncounted \cup {k}
NoSlip == UNCHANGED <<faults, uncounted>>

Verifying(r) == req[r].step \in {"try.incr", "try.expire", "write", "consume"}

\* The record of k becomes new, and history keeps the code that left it.
Put(k, new) ==
  /\ rec' = [rec EXCEPT ![k] = new]
  /\ spent' = IF rec[k].hash \in {None, new.hash} THEN spent
              ELSE spent \cup {<<k, rec[k].hash>>}

TypeOK ==
  /\ kind \in [Key -> PhoneKind \cup TicketKind]
  /\ codes \in [Key -> 0 .. MaxCode]
  /\ rec \in [Key -> Record]
  /\ cooldown \subseteq Key
  /\ \A c \in Counter :
       count[c] \in [n: 0 .. Limit(c) + 1, ttl: BOOLEAN]
  /\ req \in [Request -> Handler]
  /\ spent \subseteq Key \X Code
  /\ wrong \in [Key -> 0 .. MaxAttempts + 1]
  /\ uncounted \subseteq Key
  /\ faults \in 0 .. MaxFaults

Init ==
  /\ kind \in [Key -> PhoneKind \cup TicketKind]
  /\ codes = [k \in Key |-> 0]
  /\ rec = [k \in Key |-> NoRecord]
  /\ cooldown = {}
  /\ count = [c \in Counter |-> [n |-> 0, ttl |-> FALSE]]
  /\ req = [r \in Request |-> Idle]
  /\ spent = {} /\ wrong = [k \in Key |-> 0] /\ uncounted = {}
  /\ faults = 0

-----------------------------------------------------------------------------
(* Sending a code *)

\* The message goes out first: whether it may be sent is asked afterwards.
Send(r, k) ==
  /\ codes[k] < MaxCode
  /\ codes' = [codes EXCEPT ![k] = @ + 1]
  /\ Begin(r, [step |-> "check", key |-> k, code |-> codes[k] + 1,
               seen |-> 0])
  /\ UNCHANGED <<kind, rec, cooldown, count, history, faults>>

SendOTP(r, k)            == kind[k] = "driver" /\ Send(r, k)
DispatcherSendOTP(r, k)  == kind[k] = "dispatcher" /\ Send(r, k)
CompanyUserSendOTP(r, k) == kind[k] = "company_user" /\ Send(r, k)

\* SaveOTP: EXISTS; an error counts as no cooldown.
CheckCooldown(r) ==
  LET k == req[r].key IN
  /\ At(r, "check")
  /\ \/ /\ IF k \in cooldown THEN Return(r) ELSE Goto(r, "send.incr")
        /\ NoSlip
     \/ Goto(r, "send.incr") /\ Slip(k)
  /\ UNCHANGED <<kind, codes, rec, cooldown, count, spent, wrong>>

\* INCR of counter c. The first one sets the expiry by a command of its own.
Incr(r, c, expire, next) ==
  LET n == IF count[c].n > Limit(c) THEN count[c].n ELSE count[c].n + 1 IN
  /\ count' = [count EXCEPT ![c].n = n]
  /\ IF n > Limit(c) THEN Return(r)
     ELSE Goto(r, IF n = 1 THEN expire ELSE next)

\* Fault: the expiry is set by the last call that is allowed, not the first.
ExpiryAtLimit(r, c, next) ==
  /\ count' = [count EXCEPT ![c].ttl = (count[c].n >= Limit(c))]
  /\ NoSlip
  /\ Goto(r, next)

\* EXPIRE of counter c, its error ignored
Expiry(r, c, next) ==
  /\ \/ count' = [count EXCEPT ![c].ttl = TRUE] /\ NoSlip
     \/ count' = count /\ Slip(req[r].key)
  /\ Goto(r, next)

CountSend(r) ==
  /\ At(r, "send.incr")
  /\ Incr(r, <<"send", req[r].key>>, "send.expire", "ip.incr")
  /\ UNCHANGED <<kind, codes, rec, cooldown, history, faults>>

ExpireSends(r) ==
  /\ At(r, "send.expire")
  /\ Expiry(r, <<"send", req[r].key>>, "ip.incr")
  /\ UNCHANGED <<kind, codes, rec, cooldown, spent, wrong>>

IpCounter(k) ==
  <<"ip", IF kind[k] = "company_user" THEN "company_" ELSE "shared">>

CountIp(r) ==
  /\ At(r, "ip.incr")
  /\ Incr(r, IpCounter(req[r].key), "ip.expire", "save")
  /\ UNCHANGED <<kind, codes, rec, cooldown, history, faults>>

ExpireIp(r) ==
  /\ At(r, "ip.expire")
  /\ Expiry(r, IpCounter(req[r].key), "save")
  /\ UNCHANGED <<kind, codes, rec, cooldown, spent, wrong>>

\* MULTI: HSET, EXPIRE and the cooldown
Save(r) ==
  LET k == req[r].key IN
  /\ At(r, "save")
  /\ Put(k, Fresh(req[r].code))
  /\ cooldown' = cooldown \cup {k}
  /\ wrong' = [wrong EXCEPT ![k] = 0]
  /\ uncounted' = uncounted \ {k}
  /\ Return(r)
  /\ UNCHANGED <<kind, codes, count, faults>>

\* A ticket has a new random id, and its code is sent before it is stored.
Create(k) ==
  /\ codes[k] = 0 /\ MaxCode > 0
  /\ codes' = [codes EXCEPT ![k] = 1]
  /\ Put(k, Fresh(1))
  /\ UNCHANGED <<kind, cooldown, count, req, wrong, uncounted, faults>>

PhoneChangeCreate(k) == kind[k] = "phone_change" /\ Create(k)
ActionCreate(k)      == kind[k] \in {"disp_reset", "disp_phone"} /\ Create(k)
ResetPasswordRequest(k) == kind[k] = "disp_reset" /\ ActionCreate(k)
DispatcherPhoneChangeRequest(k) == kind[k] = "disp_phone" /\ ActionCreate(k)

-----------------------------------------------------------------------------
(* Verifying a code. A guess is a code that was made for the key, or None   *)
(* for any other sequence of digits.                                        *)

Overlapping(k) == \E q \in Request : req[q].key = k /\ Verifying(q)

\* Fault: > for >= in the comparison of the attempts.
VerifyOneMore(r, k, guess, counting) ==
  LET right == rec[k].hash # None /\ guess = rec[k].hash IN
  /\ rec[k].here /\ rec[k].attempts <= MaxAttempts
  /\ guess \in 0 .. codes[k]
  /\ Begin(r, [step |-> IF right THEN "consume" ELSE counting, key |-> k,
               code |-> rec[k].hash, seen |-> rec[k].attempts])
  /\ wrong' = IF right \/ wrong[k] > MaxAttempts THEN wrong
              ELSE [wrong EXCEPT ![k] = @ + 1]
  /\ uncounted' = IF Overlapping(k) THEN uncounted \cup {k} ELSE uncounted
  /\ UNCHANGED <<kind, codes, rec, cooldown, count, spent, faults>>

\* HGETALL and the comparison with what it returns. Nothing happens when
\* there is no record or its attempts are used up. A wrong guess goes on to
\* be counted, at the step where its store counts it.
Verify(r, k, guess, counting) ==
  LET right == rec[k].hash # None /\ guess = rec[k].hash IN
  /\ rec[k].here /\ rec[k].attempts < MaxAttempts
  /\ guess \in 0 .. codes[k]
  /\ Begin(r, [step |-> IF right THEN "consume" ELSE counting, key |-> k,
               code |-> rec[k].hash, seen |-> rec[k].attempts])
  /\ wrong' = IF right \/ wrong[k] > MaxAttempts THEN wrong
              ELSE [wrong EXCEPT ![k] = @ + 1]
  /\ uncounted' = IF Overlapping(k) THEN uncounted \cup {k} ELSE uncounted
  /\ UNCHANGED <<kind, codes, rec, cooldown, count, spent, faults>>

VerifyOTP(r, k, guess) ==
  kind[k] = "driver" /\ Verify(r, k, guess, "try.incr")
DispatcherVerifyOTP(r, k, guess) ==
  kind[k] = "dispatcher" /\ Verify(r, k, guess, "try.incr")
CompanyUserVerifyOTP(r, k, guess) ==
  kind[k] = "company_user" /\ Verify(r, k, guess, "try.incr")
PhoneChangeVerify(r, k, guess) ==
  kind[k] = "phone_change" /\ Verify(r, k, guess, "write")
ActionVerify(r, k, guess) ==
  kind[k] \in {"disp_reset", "disp_phone"} /\ Verify(r, k, guess, "write")
ResetPasswordConfirm(r, k, guess) ==
  kind[k] = "disp_reset" /\ ActionVerify(r, k, guess)
DispatcherPhoneChangeVerify(r, k, guess) ==
  kind[k] = "disp_phone" /\ ActionVerify(r, k, guess)

\* Above the limit the handler returns before it counts on the record.
CountTry(r) ==
  LET k == req[r].key IN
  /\ At(r, "try.incr")
  /\ Incr(r, <<"try", k>>, "try.expire", "write")
  /\ uncounted' = IF count[<<"try", k>>].n >= TryLimit
                  THEN uncounted \cup {k} ELSE uncounted
  /\ UNCHANGED <<kind, codes, rec, cooldown, spent, wrong, faults>>

ExpireTries(r) ==
  /\ At(r, "try.expire")
  /\ Expiry(r, <<"try", req[r].key>>, "write")
  /\ UNCHANGED <<kind, codes, rec, cooldown, spent, wrong>>

\* Fault: the whole record is written back as it was read.
WriteRecordBack(r) ==
  LET k == req[r].key IN
  /\ At(r, "write")
  /\ Put(k, [here |-> TRUE, hash |-> req[r].code,
             attempts |-> req[r].seen + 1, ttl |-> TRUE])
  /\ NoSlip
  /\ Return(r)
  /\ UNCHANGED <<kind, codes, cooldown, count, wrong>>

\* Fault: the count that was read is written, not the next one.
WriteSeen(r) ==
  LET k == req[r].key IN
  /\ At(r, "write")
  /\ Put(k, [rec[k] EXCEPT !.here = TRUE, !.attempts = req[r].seen])
  /\ NoSlip
  /\ Return(r)
  /\ UNCHANGED <<kind, codes, cooldown, count, wrong>>

\* HSET of one field, on whatever is under the key by now; an error is
\* ignored. A record that has gone comes back with this field alone.
WriteAttempts(r) ==
  LET k == req[r].key IN
  /\ At(r, "write")
  /\ \/ /\ Put(k, [rec[k] EXCEPT !.here = TRUE,
                                  !.attempts = req[r].seen + 1])
        /\ NoSlip
     \/ UNCHANGED <<rec, spent>> /\ Slip(k)
  /\ Return(r)
  /\ UNCHANGED <<kind, codes, cooldown, count, wrong>>

\* DEL, whatever is under the key by now; the caller succeeds even if it
\* fails, and goes on to log in, to register or to change its account.
Consume(r) ==
  LET k == req[r].key IN
  /\ At(r, "consume")
  /\ \/ Put(k, NoRecord) /\ NoSlip
     \/ UNCHANGED <<rec, spent>> /\ Slip(k)
  /\ Return(r)
  /\ UNCHANGED <<kind, codes, cooldown, count, wrong>>

-----------------------------------------------------------------------------
(* Time and failure *)

ExpireCode(k) ==
  /\ rec[k].ttl
  /\ Put(k, NoRecord)
  /\ UNCHANGED <<kind, codes, cooldown, count, req, wrong, uncounted, faults>>

ExpireCooldown(k) ==
  /\ k \in cooldown
  /\ cooldown' = cooldown \ {k}
  /\ UNCHANGED <<kind, codes, rec, count, req, history, faults>>

ExpireCounter(c) ==
  /\ count[c].ttl
  /\ count' = [count EXCEPT ![c] = [n |-> 0, ttl |-> FALSE]]
  /\ UNCHANGED <<kind, codes, rec, cooldown, req, history, faults>>

Fail(r) ==
  /\ req[r] # Idle
  /\ Slip(req[r].key)
  /\ Return(r)
  /\ UNCHANGED <<kind, codes, rec, cooldown, count, spent, wrong>>

Start(r) ==
  \E k \in Key :
    \/ SendOTP(r, k) \/ DispatcherSendOTP(r, k) \/ CompanyUserSendOTP(r, k)
    \/ \E guess \in 0 .. MaxCode :
         \/ VerifyOTP(r, k, guess) \/ DispatcherVerifyOTP(r, k, guess)
         \/ CompanyUserVerifyOTP(r, k, guess)
         \/ PhoneChangeVerify(r, k, guess)
         \/ ResetPasswordConfirm(r, k, guess)
         \/ DispatcherPhoneChangeVerify(r, k, guess)

Advance(r) ==
  \/ CheckCooldown(r) \/ CountSend(r) \/ ExpireSends(r) \/ CountIp(r)
  \/ ExpireIp(r) \/ Save(r)
  \/ CountTry(r) \/ ExpireTries(r) \/ WriteAttempts(r) \/ Consume(r)

Next ==
  \/ \E k \in Key :
       \/ PhoneChangeCreate(k) \/ ResetPasswordRequest(k)
       \/ DispatcherPhoneChangeRequest(k)
  \/ \E k \in Key : ExpireCode(k) \/ ExpireCooldown(k)
  \/ \E c \in Counter : ExpireCounter(c)
  \/ \E r \in Request : Start(r) \/ Advance(r) \/ Fail(r)

Spec == Init /\ [][Next]_vars
-----------------------------------------------------------------------------
(* Properties *)

\* A code that was used, replaced or has expired never comes back, although a
\* slower verification still writes to the record: whoever starts later with
\* that code is refused. A late HSET brings a record back that nothing will
\* ever expire, but no code: what holds a code always has its expiry.
SpentStaysSpent ==
  \A k \in Key :
    /\ <<k, rec[k].hash>> \notin spent
    /\ rec[k].hash # None => rec[k].ttl

\* Attempts are read, compared and written back. Where no two guesses of a
\* key overlap, none fails midway and the limit per number is not met, no
\* code outlives MaxAttempts wrong guesses: also not when the record expires
\* or is replaced by a new code between the read and the write.
GuessesCounted ==
  \A k \in Key \ uncounted : wrong[k] <= MaxAttempts

\* INCR and EXPIRE are two commands. Without a failure between them every
\* counter in use has its expiry or a handler that is about to set it.
CountersExpire ==
  faults = 0 => \A c \in Counter : count[c].n > 0 =>
    \/ count[c].ttl
    \/ \E r \in Request :
         \/ At(r, "send.expire") /\ c = <<"send", req[r].key>>
         \/ At(r, "ip.expire") /\ c = IpCounter(req[r].key)
         \/ At(r, "try.expire") /\ c = <<"try", req[r].key>>
=============================================================================
