--------------------------- MODULE ServicesProofs ---------------------------
(***************************************************************************)
(* Theorems about OneTimeCodes and ChatMessages, for any keys, limits,     *)
(* numbers of codes and faults, writers and messages, and any number of    *)
(* concurrent handlers; and about the service that runs them beside        *)
(* Invitations and CargoDesk, whose theorems it takes over.                *)
(***************************************************************************)
EXTENDS MCServices, FiniteSetTheorems, TLAPS

\* A handler that has sent a code and has not stored it yet, and one that has
\* judged a guess to be wrong and has not written its count yet.
Sending(r) ==
  req[r].step \in {"check", "send.incr", "send.expire", "ip.incr",
                   "ip.expire", "save"}
Counting(r) == req[r].step \in {"try.incr", "try.expire", "write"}

\* The code in a record was made for its key, has not left it before and
\* expires.
KeyInv(k) ==
  /\ rec[k].hash \in 0 .. codes[k]
  /\ rec[k].hash # None => rec[k].ttl
  /\ <<k, rec[k].hash>> \notin spent
  /\ \A n \in Code : <<k, n>> \in spent => n <= codes[k]
  /\ codes[k] = 0 => ~rec[k].here /\ wrong[k] = 0

\* A code that is about to be stored has not been in the record yet.
HandlerInv(r) ==
  LET h == req[r] IN
  /\ h.step = "idle" => h = Idle
  /\ h.step # "idle" => h.key \in Key /\ codes[h.key] > 0
  /\ Sending(r) =>
       /\ h.code \in 1 .. codes[h.key]
       /\ h.code # rec[h.key].hash /\ <<h.key, h.code>> \notin spent
  /\ Counting(r) => h.seen < MaxAttempts

Apart(q, r) ==
  q # r /\ Sending(q) /\ Sending(r) /\ req[q].key = req[r].key =>
    req[q].code # req[r].code

\* Unless the exceptions apply to it, a key has one guess in flight at a
\* time, and what the wrong ones have counted, or are about to, is what
\* happened.
About(r, k) == req[r].key = k
GuessInv(k) ==
  /\ wrong[k] <= MaxAttempts
  /\ wrong[k] > 0 =>
       \A q, r \in Request :
         Verifying(q) /\ About(q, k) /\ Verifying(r) /\ About(r, k) => q = r
  /\ \A r \in Request : Counting(r) /\ About(r, k) => wrong[k] <= req[r].seen + 1
  /\ rec[k].here /\ (\A r \in Request : ~(Counting(r) /\ About(r, k))) =>
       wrong[k] <= rec[k].attempts

Inv ==
  /\ TypeOK
  /\ count \in [Counter -> [n: Nat, ttl: BOOLEAN]]
  /\ \A k \in Key : KeyInv(k)
  /\ \A r \in Request : HandlerInv(r)
  /\ \A q, r \in Request : Apart(q, r)
  /\ \A k \in Key \ uncounted : GuessInv(k)

-----------------------------------------------------------------------------
(* Counters *)

LEMMA Numbers ==
  /\ MaxAttempts \in Nat \ {0} /\ SendLimit \in Nat \ {0}
  /\ IpLimit \in Nat \ {0} /\ TryLimit \in Nat \ {0}
  /\ MaxCode \in Nat /\ MaxFaults \in Nat /\ Null \notin Key
BY CodeAssumption

LEMMA Limits ==
  /\ \A k \in Key : <<"send", k>> \in Counter /\ <<"try", k>> \in Counter
  /\ \A k \in Key : Limit(<<"try", k>>) = TryLimit
  /\ \A c \in Counter : Limit(c) \in Nat \ {0}
<1>1. \A k \in Key : <<"send", k>> \in Counter /\ <<"try", k>> \in Counter
  BY DEF Counter
<1>2. \A k \in Key : Limit(<<"try", k>>) = TryLimit
  BY DEF Limit
<1>3. ASSUME NEW c \in Counter PROVE Limit(c) \in Nat \ {0}
  <2>1. c[1] \in {"send", "try", "ip"}
    BY DEF Counter
  <2>. QED
    BY <2>1, Numbers DEF Limit
<1>. QED
  BY <1>1, <1>2, <1>3

LEMMA IpCounterIn == \A k \in Key : IpCounter(k) \in Counter
BY DEF IpCounter, Counter

LEMMA InvInit == Init => Inv
<1>. SUFFICES ASSUME Init PROVE Inv
  OBVIOUS
<1>1. \A c \in Counter : count[c] \in [n: 0 .. Limit(c) + 1, ttl: BOOLEAN]
  BY Limits DEF Init
<1>2. TypeOK
  BY <1>1, Numbers
  DEF Init, TypeOK, Record, NoRecord, Handler, Idle, Step, Code, None
<1>3. count \in [Counter -> [n: Nat, ttl: BOOLEAN]]
  BY DEF Init
<1>4. \A r \in Request : req[r] = Idle /\ req[r].step = "idle"
  BY DEF Init, Idle
<1>5. ASSUME NEW k \in Key PROVE KeyInv(k) /\ GuessInv(k)
  <2>1. /\ ~rec[k].here /\ rec[k].hash = None /\ wrong[k] = 0
        /\ codes[k] = 0 /\ spent = {}
    BY DEF Init, NoRecord
  <2>2. KeyInv(k)
    BY <2>1 DEF KeyInv, None
  <2>3. GuessInv(k)
    BY <1>4, <2>1, Numbers DEF GuessInv, Counting
  <2>. QED
    BY <2>2, <2>3
<1>. QED
  BY <1>2, <1>3, <1>4, <1>5
  DEF Inv, HandlerInv, Apart, Sending, Counting

-----------------------------------------------------------------------------
(* Types *)

\* A handler that runs a command has a key.
LEMMA Acting ==
  ASSUME Inv, NEW r \in Request, Advance(r) \/ Fail(r)
  PROVE  /\ req[r] \in Handler /\ req[r].step # "idle"
         /\ req[r].key \in Key /\ codes[req[r].key] > 0
<1>1. req[r] \in Handler /\ HandlerInv(r)
  BY DEF Inv, TypeOK
<1>2. req[r].step # "idle"
  <2>1. CASE Advance(r)
    BY <2>1 DEF Advance, CheckCooldown, CountSend, ExpireSends, CountIp,
       ExpireIp, Save, CountTry, ExpireTries, WriteAttempts, Consume, At
  <2>2. CASE Fail(r)
    BY <1>1, <2>2 DEF Fail, HandlerInv
  <2>. QED
    BY <2>1, <2>2
<1>. QED
  BY <1>1, <1>2 DEF HandlerInv

\* What Put leaves, for whichever record it writes
LEMMA PutType ==
  ASSUME Inv, NEW k \in Key, NEW new \in Record, Put(k, new)
  PROVE  /\ rec' \in [Key -> Record] /\ spent' \subseteq Key \X Code
         /\ rec' = [rec EXCEPT ![k] = new]
         /\ rec'[k] = new /\ \A j \in Key \ {k} : rec'[j] = rec[j]
         /\ spent \subseteq spent'
         /\ rec[k].hash \notin {None, new.hash} =>
              spent' = spent \cup {<<k, rec[k].hash>>}
         /\ rec[k].hash \in {None, new.hash} => spent' = spent
<1>1. rec \in [Key -> Record] /\ spent \subseteq Key \X Code
  BY DEF Inv, TypeOK
<1>2. rec' = [rec EXCEPT ![k] = new]
  BY DEF Put
<1>3. rec[k].hash # None => rec[k].hash \in Code
  BY <1>1 DEF Record
<1>. QED
  BY <1>1, <1>2, <1>3 DEF Put

LEMMA NoRecordType == NoRecord \in Record
BY Numbers DEF NoRecord, Record, None

\* Slip and NoSlip keep their types and forget no exception.
LEMMA SlipType ==
  ASSUME Inv, NEW k \in Key, Slip(k) \/ NoSlip
  PROVE  /\ faults' \in 0 .. MaxFaults /\ uncounted' \subseteq Key
         /\ uncounted \subseteq uncounted'
         /\ faults' >= faults
BY Numbers DEF Inv, TypeOK, Slip, NoSlip

\* INCR and EXPIRE of a counter
LEMMA CountType ==
  ASSUME Inv, NEW c \in Counter, NEW n \in 0 .. Limit(c) + 1, NEW t \in BOOLEAN,
         \/ count' = count
         \/ count' = [count EXCEPT ![c].n = n]
         \/ count' = [count EXCEPT ![c].ttl = t]
         \/ count' = [count EXCEPT ![c] = [n |-> n, ttl |-> t]]
  PROVE  /\ \A d \in Counter :
              count'[d] \in [n: 0 .. Limit(d) + 1, ttl: BOOLEAN]
         /\ count' \in [Counter -> [n: Nat, ttl: BOOLEAN]]
<1>1. count \in [Counter -> [n: Nat, ttl: BOOLEAN]] /\ TypeOK
  BY DEF Inv
<1>2. n \in Nat /\ \A d \in Counter : Limit(d) \in Nat \ {0}
  BY Limits
<1>3. count' \in [Counter -> [n: Nat, ttl: BOOLEAN]]
  BY <1>1, <1>2
<1>4. \A d \in Counter : count[d] \in [n: 0 .. Limit(d) + 1, ttl: BOOLEAN]
  BY <1>1 DEF TypeOK
<1>5. ASSUME NEW d \in Counter
      PROVE  count'[d] \in [n: 0 .. Limit(d) + 1, ttl: BOOLEAN]
  <2>1. CASE d # c
    BY <1>1, <1>4, <2>1
  <2>2. CASE d = c
    <3>1. count[c] \in [n: 0 .. Limit(c) + 1, ttl: BOOLEAN]
      BY <1>4
    <3>. QED
      BY <1>1, <2>2, <3>1
  <2>. QED
    BY <2>1, <2>2
<1>. QED
  BY <1>3, <1>5

LEMMA IncrType ==
  ASSUME Inv, NEW c \in Counter, NEW r \in Request,
         NEW expire \in Step, NEW next \in Step, Incr(r, c, expire, next)
  PROVE  /\ \A d \in Counter :
              count'[d] \in [n: 0 .. Limit(d) + 1, ttl: BOOLEAN]
         /\ count' \in [Counter -> [n: Nat, ttl: BOOLEAN]]
         /\ \/ Return(r) /\ count[c].n >= Limit(c)
            \/ Goto(r, expire) \/ Goto(r, next)
<1>. DEFINE n == IF count[c].n > Limit(c) THEN count[c].n ELSE count[c].n + 1
<1>1. Limit(c) \in Nat \ {0} /\ count[c].n \in 0 .. Limit(c) + 1
  BY Limits DEF Inv, TypeOK
<1>2. n \in 0 .. Limit(c) + 1 /\ (n > Limit(c) => count[c].n >= Limit(c))
  BY <1>1
<1>3. count' = [count EXCEPT ![c].n = n]
  BY DEF Incr
<1>4. \/ Return(r) /\ n > Limit(c)
      \/ Goto(r, expire) \/ Goto(r, next)
  BY DEF Incr
<1>. HIDE DEF n
<1>. QED
  BY <1>2, <1>3, <1>4, CountType

-----------------------------------------------------------------------------
(* Steps of two shapes *)

\* What is said of k's guesses stands when none begins or ends.
LEMMA GuessFrame ==
  ASSUME NEW k \in Key, GuessInv(k), rec'[k] = rec[k], wrong'[k] = wrong[k],
         \A r \in Request :
           /\ Verifying(r)' /\ About(r, k)' => Verifying(r) /\ About(r, k)
           /\ Counting(r)' /\ About(r, k)' =>
                Counting(r) /\ About(r, k) /\ req'[r].seen = req[r].seen
           /\ Counting(r) /\ About(r, k) => Counting(r)' /\ About(r, k)'
  PROVE  GuessInv(k)'
<1>1. ASSUME wrong'[k] > 0, NEW q \in Request, NEW r \in Request,
             Verifying(q)', About(q, k)', Verifying(r)', About(r, k)'
      PROVE  q = r
  <2>1. Verifying(q) /\ About(q, k) /\ Verifying(r) /\ About(r, k)
    BY <1>1
  <2>. QED
    BY <1>1, <2>1 DEF GuessInv
<1>2. \A r \in Request :
        Counting(r)' /\ About(r, k)' => wrong'[k] <= req'[r].seen + 1
  BY DEF GuessInv
<1>3. rec'[k].here /\ (\A r \in Request : ~(Counting(r)' /\ About(r, k)')) =>
        wrong'[k] <= rec'[k].attempts
  BY DEF GuessInv
<1>4. wrong'[k] <= MaxAttempts
  BY DEF GuessInv
<1>. QED
  BY <1>1, <1>2, <1>3, <1>4 DEF GuessInv

\* A handler goes on with what it has, or returns without a guess of its own
\* that is still to be counted. No record changes.
LEMMA MoveStep ==
  ASSUME Inv, NEW r \in Request, req[r].step # "idle", NEW h \in Handler,
         UNCHANGED <<kind, codes, rec, cooldown, spent, wrong>>,
         \A c \in Counter :
           count'[c] \in [n: 0 .. Limit(c) + 1, ttl: BOOLEAN],
         count' \in [Counter -> [n: Nat, ttl: BOOLEAN]],
         faults' \in 0 .. MaxFaults, uncounted' \subseteq Key,
         uncounted \subseteq uncounted',
         req' = [req EXCEPT ![r] = h],
         \/ h = Idle /\ (Counting(r) => req[r].key \in uncounted')
         \/ /\ h.key = req[r].key /\ h.code = req[r].code
            /\ h.seen = req[r].seen
            /\ \/ Sending(r) /\ h.step \in {"check", "send.incr", "send.expire",
                                            "ip.incr", "ip.expire", "save"}
               \/ Counting(r) /\ h.step \in {"try.incr", "try.expire", "write"}
  PROVE  Inv'
<1>1. /\ TypeOK /\ req \in [Request -> Handler]
      /\ \A q \in Request : HandlerInv(q)
  BY DEF Inv, TypeOK
<1>2. TypeOK'
  BY <1>1 DEF TypeOK
<1>3. req'[r] = h /\ \A q \in Request \ {r} : req'[q] = req[q]
  BY <1>1
<1>4. CASE h = Idle
  <2>1. req'[r].step = "idle" /\ req'[r] = Idle
    BY <1>3, <1>4 DEF Idle
  <2>2. \A q \in Request : HandlerInv(q)'
    BY <1>1, <1>3, <2>1 DEF HandlerInv, Sending, Counting
  <2>3. \A p, q \in Request : Apart(p, q)'
    BY <1>3, <2>1 DEF Inv, Apart, Sending
  <2>4. \A k \in Key : KeyInv(k)'
    BY DEF Inv, KeyInv
  <2>5. ASSUME NEW k \in Key \ uncounted' PROVE GuessInv(k)'
    <3>1. GuessInv(k) /\ ~(Counting(r) /\ About(r, k))
      BY <1>3, <1>4 DEF Inv, About, Idle
    <3>2. \A q \in Request : /\ Verifying(q)' => Verifying(q) /\ req'[q] = req[q]
                             /\ Counting(q)' => Counting(q) /\ req'[q] = req[q]
      BY <1>3, <2>1 DEF Verifying, Counting
    <3>3. \A q \in Request : Counting(q) /\ About(q, k) =>
                             Counting(q)' /\ About(q, k)'
      BY <1>3, <3>1 DEF Counting, About
    <3>. QED
      BY <3>1, <3>2, <3>3, GuessFrame DEF About
  <2>. QED
    BY <1>2, <2>2, <2>3, <2>4, <2>5 DEF Inv
<1>5. CASE /\ h.key = req[r].key /\ h.code = req[r].code
           /\ h.seen = req[r].seen
           /\ \/ Sending(r) /\ h.step \in {"check", "send.incr", "send.expire",
                                           "ip.incr", "ip.expire", "save"}
              \/ Counting(r) /\ h.step \in {"try.incr", "try.expire", "write"}
  <2>1. \A q \in Request :
          /\ req'[q].key = req[q].key /\ req'[q].code = req[q].code
          /\ req'[q].seen = req[q].seen
          /\ Sending(q)' <=> Sending(q)
          /\ Counting(q)' <=> Counting(q)
          /\ Verifying(q)' <=> Verifying(q)
          /\ req'[q].step = "idle" <=> req[q].step = "idle"
          /\ req'[q].step = "idle" => req'[q] = req[q]
    BY <1>3, <1>5 DEF Sending, Counting, Verifying
  <2>2. \A q \in Request : HandlerInv(q)'
    BY <1>1, <2>1 DEF HandlerInv
  <2>3. \A p, q \in Request : Apart(p, q)'
    BY <2>1 DEF Inv, Apart
  <2>4. \A k \in Key : KeyInv(k)'
    BY DEF Inv, KeyInv
  <2>5. ASSUME NEW k \in Key \ uncounted' PROVE GuessInv(k)'
    BY <2>1 DEF Inv, GuessInv, About
  <2>. QED
    BY <1>2, <2>2, <2>3, <2>4, <2>5 DEF Inv
<1>. QED
  BY <1>4, <1>5

\* The record of k is written or goes away; a handler of k may return.
LEMMA RecordStep ==
  ASSUME Inv, NEW k \in Key, NEW new \in Record, Put(k, new),
         TypeOK', count' = count,
         \A j \in Key : codes[j] <= codes'[j] /\ (j # k => codes'[j] = codes[j]),
         new.hash \in 0 .. codes'[k], new.hash # None => new.ttl,
         <<k, new.hash>> \notin spent,
         codes'[k] = 0 => ~new.here /\ wrong'[k] = 0,
         \A j \in Key \ {k} : wrong'[j] = wrong[j],
         \A j \in Key \ {k} : j \in uncounted' <=> j \in uncounted,
         \A r \in Request :
           \/ req'[r] = req[r]
           \/ req'[r] = Idle /\ req[r].key = k,
         \A r \in Request :
           Sending(r)' /\ req[r].key = k => req[r].code # new.hash,
         k \notin uncounted' => GuessInv(k)'
  PROVE  Inv'
<1>1. /\ rec'[k] = new /\ \A j \in Key \ {k} : rec'[j] = rec[j]
      /\ spent \subseteq spent' /\ rec \in [Key -> Record]
      /\ \A j \in Key : \A n : <<j, n>> \in spent' \ spent =>
           j = k /\ n = rec[k].hash /\ n # new.hash
  BY PutType DEF Inv, TypeOK
<1>2. \A r \in Request : req'[r].step # "idle" => req'[r] = req[r]
  BY DEF Idle
<1>3. \A r \in Request : req'[r].step = "idle" => req'[r] = Idle
  BY DEF Inv, HandlerInv
<1>4. codes \in [Key -> 0 .. MaxCode] /\ codes' \in [Key -> 0 .. MaxCode]
  BY DEF Inv, TypeOK
<1>5. ASSUME NEW j \in Key PROVE KeyInv(j)'
  <2>1. KeyInv(j)
    BY DEF Inv
  <2>2. \A n \in Code : <<j, n>> \in spent' => n <= codes'[j]
    <3>1. rec[k].hash \in 0 .. codes[k]
      BY DEF Inv, KeyInv
    <3>. QED
      BY <1>1, <1>4, <2>1, <3>1, Numbers DEF KeyInv, Code
  <2>3. CASE j = k
    <3>1. <<k, new.hash>> \notin spent'
      BY <1>1
    <3>. QED
      BY <1>1, <2>2, <2>3, <3>1 DEF KeyInv
  <2>4. CASE j # k
    <3>1. <<j, rec[j].hash>> \notin spent'
      BY <1>1, <2>1, <2>4 DEF KeyInv
    <3>. QED
      BY <1>1, <2>1, <2>2, <2>4, <3>1 DEF KeyInv
  <2>. QED
    BY <2>3, <2>4
<1>6. ASSUME NEW r \in Request PROVE HandlerInv(r)'
  <2>1. HandlerInv(r)
    BY DEF Inv
  <2>2. CASE req'[r].step = "idle"
    BY <1>3, <2>2 DEF HandlerInv, Sending, Counting
  <2>3. CASE req'[r].step # "idle"
    <3>1. req'[r] = req[r] /\ req[r].key \in Key /\ codes[req[r].key] > 0
      BY <1>2, <2>1, <2>3 DEF HandlerInv
    <3>2. codes'[req[r].key] \in Nat /\ codes'[req[r].key] >= codes[req[r].key]
      BY <1>4, <3>1
    <3>3. Counting(r)' => req'[r].seen < MaxAttempts
      BY <2>1, <3>1 DEF HandlerInv, Counting
    <3>4. ASSUME Sending(r)'
          PROVE  /\ req[r].code \in 1 .. codes'[req[r].key]
                 /\ req[r].code # rec'[req[r].key].hash
                 /\ <<req[r].key, req[r].code>> \notin spent'
      <4>1. /\ req[r].code \in 1 .. codes[req[r].key]
            /\ req[r].code # rec[req[r].key].hash
            /\ <<req[r].key, req[r].code>> \notin spent
        BY <2>1, <3>1, <3>4 DEF HandlerInv, Sending
      <4>2. req[r].code \in 1 .. codes'[req[r].key]
        BY <1>4, <3>1, <3>2, <4>1
      <4>. QED
        BY <1>1, <3>1, <3>4, <4>1, <4>2
    <3>5. codes'[req[r].key] > 0
      BY <1>4, <3>1, <3>2
    <3>. QED
      BY <2>3, <3>1, <3>3, <3>4, <3>5 DEF HandlerInv
  <2>. QED
    BY <2>2, <2>3
<1>7. \A q, r \in Request : Apart(q, r)'
  <2>1. \A r \in Request : Sending(r)' => Sending(r) /\ req'[r] = req[r]
    BY <1>2 DEF Sending
  <2>. QED
    BY <2>1 DEF Inv, Apart
<1>8. ASSUME NEW j \in Key \ uncounted', j # k PROVE GuessInv(j)'
  <2>1. GuessInv(j) /\ rec'[j] = rec[j] /\ wrong'[j] = wrong[j]
    BY <1>1, <1>8 DEF Inv
  <2>2. \A r \in Request :
          /\ Verifying(r)' => Verifying(r) /\ req'[r] = req[r]
          /\ Counting(r)' => Counting(r) /\ req'[r] = req[r]
    BY <1>2 DEF Verifying, Counting
  <2>3. \A r \in Request : Counting(r) /\ About(r, j) =>
                           Counting(r)' /\ About(r, j)'
    BY <1>8 DEF Counting, About
  <2>. QED
    BY <2>1, <2>2, <2>3, GuessFrame DEF About
<1>. QED
  BY <1>5, <1>6, <1>7, <1>8 DEF Inv

-----------------------------------------------------------------------------
(* The steps of a handler *)

\* Return and Goto in the form of MoveStep
LEMMA ReturnStep ==
  ASSUME Inv, NEW r \in Request, req[r].step # "idle", Return(r),
         UNCHANGED <<kind, codes, rec, cooldown, spent, wrong>>,
         \A c \in Counter :
           count'[c] \in [n: 0 .. Limit(c) + 1, ttl: BOOLEAN],
         count' \in [Counter -> [n: Nat, ttl: BOOLEAN]],
         faults' \in 0 .. MaxFaults, uncounted' \subseteq Key,
         uncounted \subseteq uncounted',
         Counting(r) => req[r].key \in uncounted'
  PROVE  Inv'
<1>1. Idle \in Handler
  BY Numbers DEF Idle, Handler, Step, None
<1>2. req' = [req EXCEPT ![r] = Idle]
  BY DEF Return
<1>. QED
  BY <1>1, <1>2, MoveStep

LEMMA GotoStep ==
  ASSUME Inv, NEW r \in Request, NEW s \in Step, Goto(r, s),
         UNCHANGED <<kind, codes, rec, cooldown, spent, wrong>>,
         \A c \in Counter :
           count'[c] \in [n: 0 .. Limit(c) + 1, ttl: BOOLEAN],
         count' \in [Counter -> [n: Nat, ttl: BOOLEAN]],
         faults' \in 0 .. MaxFaults, uncounted' \subseteq Key,
         uncounted \subseteq uncounted',
         \/ Sending(r) /\ s \in {"check", "send.incr", "send.expire", "ip.incr",
                                "ip.expire", "save"}
         \/ Counting(r) /\ s \in {"try.incr", "try.expire", "write"}
  PROVE  Inv'
<1>. DEFINE h == [req[r] EXCEPT !.step = s]
<1>1. req[r] \in Handler /\ req \in [Request -> Handler]
  BY DEF Inv, TypeOK
<1>2. /\ h \in Handler /\ h.key = req[r].key /\ h.code = req[r].code
      /\ h.seen = req[r].seen /\ h.step = s
  BY <1>1 DEF Handler
<1>3. req' = [req EXCEPT ![r] = h]
  BY <1>1 DEF Goto
<1>4. req[r].step # "idle"
  BY DEF Sending, Counting
<1>. HIDE DEF h
<1>. QED
  BY <1>2, <1>3, <1>4, MoveStep

\* Counters stand.
LEMMA SameCount ==
  ASSUME Inv, count' = count
  PROVE  /\ \A c \in Counter :
              count'[c] \in [n: 0 .. Limit(c) + 1, ttl: BOOLEAN]
         /\ count' \in [Counter -> [n: Nat, ttl: BOOLEAN]]
BY DEF Inv, TypeOK

LEMMA CheckCooldownStep ==
  ASSUME Inv, NEW r \in Request, CheckCooldown(r)
  PROVE  Inv'
<1>. DEFINE k == req[r].key
<1>1. k \in Key /\ req[r].step = "check"
  BY Acting DEF Advance, CheckCooldown, At
<1>2. /\ Slip(k) \/ NoSlip
      /\ UNCHANGED <<kind, codes, rec, cooldown, count, spent, wrong>>
      /\ Return(r) \/ Goto(r, "send.incr")
  BY DEF CheckCooldown
<1>3. Sending(r) /\ ~Counting(r) /\ "send.incr" \in Step
  BY <1>1 DEF Sending, Counting, Step
<1>4. /\ faults' \in 0 .. MaxFaults /\ uncounted' \subseteq Key
      /\ uncounted \subseteq uncounted'
  BY <1>1, <1>2, SlipType
<1>. QED
  BY <1>1, <1>2, <1>3, <1>4, SameCount, ReturnStep, GotoStep

\* INCR: a handler that is turned away has met a limit.
LEMMA IncrStep ==
  ASSUME Inv, NEW r \in Request, req[r].step # "idle",
         NEW c \in Counter, NEW expire \in Step, NEW next \in Step,
         Incr(r, c, expire, next),
         UNCHANGED <<kind, codes, rec, cooldown, spent, wrong, faults>>,
         uncounted' \subseteq Key, uncounted \subseteq uncounted',
         Counting(r) /\ count[c].n >= Limit(c) => req[r].key \in uncounted',
         \/ Sending(r) /\ {expire, next} \subseteq
              {"send.incr", "send.expire", "ip.incr", "ip.expire", "save"}
         \/ Counting(r) /\ {expire, next} \subseteq {"try.expire", "write"}
  PROVE  Inv'
<1>1. /\ \A d \in Counter :
           count'[d] \in [n: 0 .. Limit(d) + 1, ttl: BOOLEAN]
      /\ count' \in [Counter -> [n: Nat, ttl: BOOLEAN]]
      /\ \/ Return(r) /\ count[c].n >= Limit(c)
         \/ Goto(r, expire) \/ Goto(r, next)
  BY IncrType
<1>2. faults' \in 0 .. MaxFaults
  BY DEF Inv, TypeOK
<1>. QED
  BY <1>1, <1>2, ReturnStep, GotoStep

LEMMA CountSendStep ==
  ASSUME Inv, NEW r \in Request, CountSend(r)
  PROVE  Inv'
<1>1. req[r].key \in Key /\ req[r].step = "send.incr"
  BY Acting DEF Advance, CountSend, At
<1>2. /\ Incr(r, <<"send", req[r].key>>, "send.expire", "ip.incr")
      /\ UNCHANGED <<kind, codes, rec, cooldown, spent, wrong, uncounted, faults>>
  BY DEF CountSend, history
<1>3. Sending(r) /\ ~Counting(r) /\ {"send.expire", "ip.incr"} \subseteq Step
  BY <1>1 DEF Sending, Counting, Step
<1>4. <<"send", req[r].key>> \in Counter /\ uncounted \subseteq Key
  BY <1>1, Limits DEF Inv, TypeOK
<1>. QED
  BY <1>1, <1>2, <1>3, <1>4, IncrStep

LEMMA CountIpStep ==
  ASSUME Inv, NEW r \in Request, CountIp(r)
  PROVE  Inv'
<1>1. req[r].key \in Key /\ req[r].step = "ip.incr"
  BY Acting DEF Advance, CountIp, At
<1>2. /\ Incr(r, IpCounter(req[r].key), "ip.expire", "save")
      /\ UNCHANGED <<kind, codes, rec, cooldown, spent, wrong, uncounted, faults>>
  BY DEF CountIp, history
<1>3. Sending(r) /\ ~Counting(r) /\ {"ip.expire", "save"} \subseteq Step
  BY <1>1 DEF Sending, Counting, Step
<1>4. IpCounter(req[r].key) \in Counter /\ uncounted \subseteq Key
  BY <1>1, IpCounterIn DEF Inv, TypeOK
<1>. QED
  BY <1>1, <1>2, <1>3, <1>4, IncrStep

LEMMA CountTryStep ==
  ASSUME Inv, NEW r \in Request, CountTry(r)
  PROVE  Inv'
<1>. DEFINE k == req[r].key
            c == <<"try", k>>
<1>1. k \in Key /\ req[r].step = "try.incr"
  BY Acting DEF Advance, CountTry, At
<1>2. /\ Incr(r, c, "try.expire", "write")
      /\ UNCHANGED <<kind, codes, rec, cooldown, spent, wrong, faults>>
      /\ uncounted' = IF count[c].n >= TryLimit
                      THEN uncounted \cup {k} ELSE uncounted
  BY DEF CountTry
<1>3. Counting(r) /\ {"try.expire", "write"} \subseteq Step
  BY <1>1 DEF Counting, Step
<1>4. c \in Counter /\ Limit(c) = TryLimit /\ uncounted \subseteq Key
  BY <1>1, Limits DEF Inv, TypeOK
<1>5. /\ uncounted' \subseteq Key /\ uncounted \subseteq uncounted'
      /\ count[c].n >= Limit(c) => k \in uncounted'
  BY <1>1, <1>2, <1>4
<1>. QED
  BY <1>1, <1>2, <1>3, <1>4, <1>5, IncrStep

\* EXPIRE, and whether it fails
LEMMA ExpiryStep ==
  ASSUME Inv, NEW r \in Request, req[r].key \in Key,
         NEW c \in Counter, NEW next \in Step, Expiry(r, c, next),
         UNCHANGED <<kind, codes, rec, cooldown, spent, wrong>>,
         \/ Sending(r) /\ next \in {"ip.incr", "save"}
         \/ Counting(r) /\ next = "write"
  PROVE  Inv'
<1>1. /\ \/ count' = [count EXCEPT ![c].ttl = TRUE] /\ NoSlip
         \/ count' = count /\ Slip(req[r].key)
      /\ Goto(r, next)
  BY DEF Expiry
<1>2. /\ faults' \in 0 .. MaxFaults /\ uncounted' \subseteq Key
      /\ uncounted \subseteq uncounted'
  BY <1>1, SlipType
<1>3. 0 \in 0 .. Limit(c) + 1
  BY Limits
<1>4. /\ \A d \in Counter :
           count'[d] \in [n: 0 .. Limit(d) + 1, ttl: BOOLEAN]
      /\ count' \in [Counter -> [n: Nat, ttl: BOOLEAN]]
  BY <1>1, <1>3, CountType
<1>. QED
  BY <1>1, <1>2, <1>4, GotoStep

LEMMA ExpirySteps ==
  ASSUME Inv, NEW r \in Request, ExpireSends(r) \/ ExpireIp(r) \/ ExpireTries(r)
  PROVE  Inv'
<1>1. req[r].key \in Key
  BY Acting DEF Advance
<1>2. {"ip.incr", "save", "write"} \subseteq Step
  BY DEF Step
<1>3. /\ <<"send", req[r].key>> \in Counter /\ <<"try", req[r].key>> \in Counter
      /\ IpCounter(req[r].key) \in Counter
  BY <1>1, Limits, IpCounterIn
<1>4. CASE ExpireSends(r)
  <2>1. Sending(r)
    BY <1>4 DEF ExpireSends, At, Sending
  <2>. QED
    BY <1>1, <1>2, <1>3, <1>4, <2>1, ExpiryStep DEF ExpireSends
<1>5. CASE ExpireIp(r)
  <2>1. Sending(r)
    BY <1>5 DEF ExpireIp, At, Sending
  <2>. QED
    BY <1>1, <1>2, <1>3, <1>5, <2>1, ExpiryStep DEF ExpireIp
<1>6. CASE ExpireTries(r)
  <2>1. Counting(r)
    BY <1>6 DEF ExpireTries, At, Counting
  <2>. QED
    BY <1>1, <1>2, <1>3, <1>6, <2>1, ExpiryStep DEF ExpireTries
<1>. QED
  BY <1>4, <1>5, <1>6

LEMMA FailStep ==
  ASSUME Inv, NEW r \in Request, Fail(r)
  PROVE  Inv'
<1>1. req[r].key \in Key /\ req[r].step # "idle"
  BY Acting
<1>2. /\ Slip(req[r].key) /\ Return(r)
      /\ UNCHANGED <<kind, codes, rec, cooldown, count, spent, wrong>>
  BY DEF Fail
<1>3. /\ faults' \in 0 .. MaxFaults /\ uncounted' \subseteq Key
      /\ uncounted \subseteq uncounted' /\ req[r].key \in uncounted'
  BY <1>1, <1>2, SlipType DEF Slip
<1>. QED
  BY <1>1, <1>2, <1>3, SameCount, ReturnStep

-----------------------------------------------------------------------------
(* The steps that write a record *)

LEMMA RecordType ==
  ASSUME Inv, NEW k \in Key, NEW new \in Record, Put(k, new), UNCHANGED kind,
         codes' \in [Key -> 0 .. MaxCode], cooldown' \subseteq Key,
         count' = count, req' \in [Request -> Handler],
         wrong' \in [Key -> 0 .. MaxAttempts + 1], uncounted' \subseteq Key,
         faults' \in 0 .. MaxFaults
  PROVE  TypeOK'
<1>1. rec' \in [Key -> Record] /\ spent' \subseteq Key \X Code
  BY PutType
<1>. QED
  BY <1>1 DEF Inv, TypeOK

LEMMA Returned ==
  ASSUME Inv, NEW r \in Request, Return(r)
  PROVE  /\ req' \in [Request -> Handler] /\ req'[r] = Idle
         /\ req'[r].step = "idle"
         /\ \A q \in Request \ {r} : req'[q] = req[q]
<1>1. Idle \in Handler /\ Idle.step = "idle"
  BY Numbers DEF Idle, Handler, Step, None
<1>2. req \in [Request -> Handler]
  BY DEF Inv, TypeOK
<1>. QED
  BY <1>1, <1>2 DEF Return

LEMMA SaveStep ==
  ASSUME Inv, NEW r \in Request, Save(r)
  PROVE  Inv'
<1>. DEFINE n == req[r].code
<1>0. req[r].key \in Key /\ req[r].step = "save" /\ codes[req[r].key] > 0
  BY Acting DEF Advance, Save, At
<1>. PICK k \in Key : req[r].key = k
  BY <1>0
<1>1. /\ k \in Key /\ req[r].step = "save" /\ codes[k] > 0
      /\ req[r].key = k /\ req[r].code = n
  BY <1>0
<1>2. /\ Put(k, Fresh(n)) /\ cooldown' = cooldown \cup {k}
      /\ wrong' = [wrong EXCEPT ![k] = 0] /\ uncounted' = uncounted \ {k}
      /\ Return(r) /\ UNCHANGED <<kind, codes, count, faults>>
  BY DEF Save
<1>. HIDE DEF n
<1>3. n \in 1 .. codes[k] /\ <<k, n>> \notin spent /\ codes[k] \in 0 .. MaxCode
  BY <1>1 DEF Inv, TypeOK, HandlerInv, Sending
<1>4. /\ Fresh(n) \in Record /\ Fresh(n).hash = n /\ Fresh(n).ttl
      /\ Fresh(n).attempts = 0
  BY <1>3, Numbers DEF Fresh, Record, Code, None
<1>5. /\ req' \in [Request -> Handler] /\ req'[r] = Idle
      /\ req'[r].step = "idle"
      /\ \A q \in Request \ {r} : req'[q] = req[q]
  BY <1>2, Returned
<1>6. /\ wrong \in [Key -> 0 .. MaxAttempts + 1] /\ uncounted \subseteq Key
      /\ cooldown \subseteq Key /\ codes \in [Key -> 0 .. MaxCode]
      /\ faults \in 0 .. MaxFaults
  BY DEF Inv, TypeOK
<1>7. /\ wrong' \in [Key -> 0 .. MaxAttempts + 1] /\ wrong'[k] = 0
      /\ \A j \in Key \ {k} : wrong'[j] = wrong[j]
  BY <1>1, <1>2, <1>6, Numbers
<1>8. TypeOK'
  BY <1>1, <1>2, <1>4, <1>5, <1>6, <1>7, RecordType
<1>9. \A q \in Request : Sending(q)' /\ req[q].key = k => req[q].code # n
  <2>1. Sending(r)
    BY <1>1 DEF Sending
  <2>2. ASSUME NEW q \in Request, Sending(q)', req[q].key = k
        PROVE  req[q].code # n
    <3>1. q # r
      BY <1>5, <2>2 DEF Sending
    <3>2. Sending(q)
      BY <1>5, <2>2, <3>1 DEF Sending
    <3>. QED
      BY <1>1, <2>1, <2>2, <3>1, <3>2 DEF Inv, Apart
  <2>. QED
    BY <2>2
<1>10. GuessInv(k)'
  <2>1. rec'[k] = Fresh(n)
    BY <1>1, <1>2, <1>4, PutType
  <2>2. \A q \in Request : 0 <= req'[q].seen + 1
    BY <1>5, Numbers DEF Handler
  <2>3. rec'[k].attempts = 0 /\ wrong'[k] = 0 /\ 0 <= MaxAttempts
    BY <1>4, <1>7, <2>1, Numbers
  <2>. QED
    BY <2>2, <2>3 DEF GuessInv
<1>11. \A q \in Request :
         req'[q] = req[q] \/ (req'[q] = Idle /\ req[q].key = k)
  BY <1>5
<1>12. /\ \A j \in Key \ {k} : (j \in uncounted' <=> j \in uncounted)
       /\ \A j \in Key : codes[j] <= codes'[j] /\ (j # k => codes'[j] = codes[j])
  BY <1>2, <1>6
<1>13. n \in 0 .. codes'[k] /\ codes'[k] # 0
  BY <1>2, <1>3
<1>. QED
  BY <1>1, <1>2, <1>3, <1>4, <1>7, <1>8, <1>9, <1>10, <1>11, <1>12, <1>13,
     RecordStep

LEMMA CreateStep ==
  ASSUME Inv, NEW k \in Key, Create(k)
  PROVE  Inv'
<1>1. /\ codes[k] = 0 /\ MaxCode > 0 /\ codes' = [codes EXCEPT ![k] = 1]
      /\ Put(k, Fresh(1))
      /\ UNCHANGED <<kind, cooldown, count, req, wrong, uncounted, faults>>
  BY DEF Create
<1>2. /\ codes \in [Key -> 0 .. MaxCode] /\ KeyInv(k)
      /\ req \in [Request -> Handler] /\ cooldown \subseteq Key
      /\ wrong \in [Key -> 0 .. MaxAttempts + 1] /\ uncounted \subseteq Key
      /\ faults \in 0 .. MaxFaults
  BY DEF Inv, TypeOK
<1>3. /\ Fresh(1) \in Record /\ Fresh(1).hash = 1 /\ Fresh(1).ttl
      /\ Fresh(1).attempts = 0
  BY <1>1, Numbers DEF Fresh, Record, Code, None
<1>4. /\ codes' \in [Key -> 0 .. MaxCode] /\ codes'[k] = 1
      /\ \A j \in Key : codes[j] <= codes'[j] /\ (j # k => codes'[j] = codes[j])
  BY <1>1, <1>2, Numbers
<1>5. TypeOK'
  BY <1>1, <1>2, <1>3, <1>4, RecordType
<1>6. <<k, 1>> \notin spent
  <2>1. 1 \in Code /\ codes[k] = 0
    BY <1>1, Numbers DEF Code
  <2>. QED
    BY <1>2, <2>1 DEF KeyInv
<1>7. ASSUME NEW r \in Request, req[r].key = k PROVE req[r].step = "idle"
  <2>1. HandlerInv(r) /\ ~(codes[k] > 0)
    BY <1>1 DEF Inv
  <2>. QED
    BY <1>7, <2>1 DEF HandlerInv
<1>8. \A r \in Request : Sending(r)' /\ req[r].key = k => req[r].code # 1
  BY <1>1, <1>7 DEF Sending
<1>9. GuessInv(k)'
  <2>1. rec'[k] = Fresh(1) /\ wrong'[k] = 0
    BY <1>1, <1>2, <1>3, PutType DEF KeyInv
  <2>2. \A q \in Request : 0 <= req'[q].seen + 1
    BY <1>1, <1>2, Numbers DEF Handler
  <2>3. rec'[k].attempts = 0 /\ 0 <= MaxAttempts
    BY <1>3, <2>1, Numbers
  <2>. QED
    BY <2>1, <2>2, <2>3 DEF GuessInv
<1>. QED
  BY <1>1, <1>3, <1>4, <1>5, <1>6, <1>8, <1>9, RecordStep

\* HSET: a count that is written is above all the wrong guesses it stands for.
LEMMA WriteAttemptsStep ==
  ASSUME Inv, NEW r \in Request, WriteAttempts(r)
  PROVE  Inv'
<1>0. /\ req[r].key \in Key /\ req[r].step = "write"
      /\ codes[req[r].key] > 0 /\ req[r] \in Handler
  BY Acting DEF Advance, WriteAttempts, At
<1>. PICK k \in Key : req[r].key = k
  BY <1>0
<1>. DEFINE new == [rec[k] EXCEPT !.here = TRUE, !.attempts = req[r].seen + 1]
<1>1. /\ k \in Key /\ req[r].step = "write" /\ codes[k] > 0
      /\ req[r] \in Handler /\ req[r].key = k
  BY <1>0
<1>2. /\ \/ Put(k, new) /\ NoSlip
         \/ UNCHANGED <<rec, spent>> /\ Slip(k)
      /\ Return(r) /\ UNCHANGED <<kind, codes, cooldown, count, wrong>>
  BY DEF WriteAttempts
<1>3. Counting(r) /\ req[r].seen < MaxAttempts /\ req[r].seen \in 0 .. MaxAttempts
  BY <1>1 DEF Inv, HandlerInv, Counting, Handler
<1>4. /\ faults' \in 0 .. MaxFaults /\ uncounted' \subseteq Key
      /\ uncounted \subseteq uncounted'
  BY <1>1, <1>2, SlipType
<1>5. CASE UNCHANGED <<rec, spent>> /\ Slip(k)
  <2>1. k \in uncounted'
    BY <1>5 DEF Slip
  <2>2. /\ \A c \in Counter :
              count'[c] \in [n: 0 .. Limit(c) + 1, ttl: BOOLEAN]
        /\ count' \in [Counter -> [n: Nat, ttl: BOOLEAN]]
    BY <1>2, SameCount
  <2>. QED
    BY <1>1, <1>2, <1>4, <1>5, <2>1, <2>2, ReturnStep
<1>6. CASE Put(k, new) /\ NoSlip
  <2>1. /\ rec[k] \in Record /\ KeyInv(k) /\ codes \in [Key -> 0 .. MaxCode]
        /\ cooldown \subseteq Key
        /\ wrong \in [Key -> 0 .. MaxAttempts + 1]
    BY <1>1 DEF Inv, TypeOK
  <2>2. /\ new \in Record /\ new.hash = rec[k].hash /\ new.ttl = rec[k].ttl
        /\ new.here /\ new.attempts = req[r].seen + 1
    <3>1. req[r].seen + 1 \in 0 .. MaxAttempts
      BY <1>3, Numbers
    <3>. QED
      BY <2>1, <3>1 DEF Record
  <2>3. /\ req' \in [Request -> Handler] /\ req'[r] = Idle
        /\ req'[r].step = "idle"
        /\ \A q \in Request \ {r} : req'[q] = req[q]
    BY <1>2, Returned
  <2>4. rec'[k] = new
    BY <1>1, <1>6, <2>2, PutType
  <2>. HIDE DEF new
  <2>5. TypeOK'
    BY <1>1, <1>2, <1>4, <1>6, <2>1, <2>2, <2>3, RecordType
  <2>6. \A q \in Request : Sending(q)' /\ req[q].key = k => req[q].code # new.hash
    <3>1. ASSUME NEW q \in Request, Sending(q)', req[q].key = k
          PROVE  req[q].code # rec[k].hash
      <4>1. Sending(q)
        BY <2>3, <3>1 DEF Sending
      <4>. QED
        BY <3>1, <4>1 DEF Inv, HandlerInv
    <3>. QED
      BY <2>2, <3>1
  <2>7. ASSUME k \notin uncounted' PROVE GuessInv(k)'
    <3>1. GuessInv(k) /\ wrong'[k] = wrong[k]
      BY <1>1, <1>2, <1>6, <2>7 DEF Inv, NoSlip
    <3>2. About(r, k) /\ Verifying(r) /\ wrong[k] <= req[r].seen + 1
      BY <1>3, <3>1 DEF About, Counting, Verifying, GuessInv
    <3>3. \A q \in Request :
            /\ Verifying(q)' => q # r /\ Verifying(q) /\ req'[q] = req[q]
            /\ Counting(q)' => q # r /\ Counting(q) /\ req'[q] = req[q]
      BY <2>3 DEF Verifying, Counting
    <3>4. \A p, q \in Request :
            wrong'[k] > 0 /\ Verifying(p)' /\ About(p, k)'
              /\ Verifying(q)' /\ About(q, k)' => p = q
      BY <3>1, <3>3 DEF GuessInv, About
    <3>5. \A q \in Request :
            Counting(q)' /\ About(q, k)' => wrong'[k] <= req'[q].seen + 1
      BY <3>1, <3>3 DEF GuessInv, About
    <3>. QED
      BY <2>2, <2>4, <3>1, <3>2, <3>4, <3>5 DEF GuessInv
  <2>8. \A q \in Request :
          req'[q] = req[q] \/ (req'[q] = Idle /\ req[q].key = k)
    BY <2>3
  <2>9. /\ \A j \in Key \ {k} : wrong'[j] = wrong[j] /\
             (j \in uncounted' <=> j \in uncounted)
        /\ \A j \in Key : codes[j] <= codes'[j] /\ codes'[j] = codes[j]
        /\ codes'[k] = codes[k]
    BY <1>2, <1>6, <2>1 DEF NoSlip
  <2>10. /\ new.hash \in 0 .. codes'[k] /\ (new.hash # None => new.ttl)
         /\ <<k, new.hash>> \notin spent /\ codes'[k] # 0
    BY <1>1, <2>1, <2>2, <2>9 DEF KeyInv
  <2>. QED
    BY <1>1, <1>2, <1>6, <2>2, <2>5, <2>6, <2>7, <2>8, <2>9, <2>10, RecordStep
<1>. QED
  BY <1>2, <1>5, <1>6

\* The record goes away: used by a handler, or expired.
LEMMA RemovalStep ==
  ASSUME Inv, NEW k \in Key, Put(k, NoRecord),
         UNCHANGED <<kind, codes, cooldown, count, wrong, uncounted>>,
         faults' \in 0 .. MaxFaults, req' \in [Request -> Handler],
         \A q \in Request :
           \/ req'[q] = req[q]
           \/ req'[q] = Idle /\ req[q].key = k /\ ~Counting(q)
  PROVE  Inv'
<1>1. /\ KeyInv(k) /\ codes \in [Key -> 0 .. MaxCode] /\ cooldown \subseteq Key
      /\ wrong \in [Key -> 0 .. MaxAttempts + 1] /\ uncounted \subseteq Key
      /\ spent \subseteq Key \X Code
  BY DEF Inv, TypeOK
<1>2. /\ NoRecord \in Record /\ NoRecord.hash = None /\ ~NoRecord.here
  BY NoRecordType DEF NoRecord
<1>3. TypeOK'
  BY <1>1, <1>2, RecordType
<1>4. <<k, NoRecord.hash>> \notin spent
  BY <1>1, <1>2, Numbers DEF None, Code
<1>5. ASSUME NEW q \in Request, Sending(q)', req[q].key = k
      PROVE  req[q].code # NoRecord.hash
  <2>1. Sending(q) /\ HandlerInv(q)
    BY <1>5 DEF Inv, Sending, Idle
  <2>2. req[q].code \in 1 .. codes[k] /\ codes[k] \in Nat
    BY <1>1, <1>5, <2>1 DEF HandlerInv
  <2>. QED
    BY <1>2, <2>2 DEF None
<1>6. ASSUME k \notin uncounted' PROVE GuessInv(k)'
  <2>1. GuessInv(k) /\ wrong'[k] = wrong[k] /\ ~rec'[k].here
    BY <1>2, <1>6, PutType DEF Inv
  <2>2. \A q \in Request :
          /\ Verifying(q)' => Verifying(q) /\ req'[q] = req[q]
          /\ Counting(q)' => Counting(q) /\ req'[q] = req[q]
    BY DEF Verifying, Counting, Idle
  <2>3. \A p, q \in Request :
          wrong'[k] > 0 /\ Verifying(p)' /\ About(p, k)'
            /\ Verifying(q)' /\ About(q, k)' => p = q
    BY <2>1, <2>2 DEF GuessInv, About
  <2>4. \A q \in Request :
          Counting(q)' /\ About(q, k)' => wrong'[k] <= req'[q].seen + 1
    BY <2>1, <2>2 DEF GuessInv, About
  <2>. QED
    BY <2>1, <2>3, <2>4 DEF GuessInv
<1>7. /\ NoRecord.hash \in 0 .. codes'[k]
      /\ codes'[k] = 0 => ~NoRecord.here /\ wrong'[k] = 0
  BY <1>1, <1>2 DEF KeyInv, None
<1>8. \A q \in Request :
        req'[q] = req[q] \/ (req'[q] = Idle /\ req[q].key = k)
  OBVIOUS
<1>9. \A j \in Key : codes[j] <= codes'[j] /\ codes'[j] = codes[j]
  BY <1>1
<1>. QED
  BY <1>2, <1>3, <1>4, <1>5, <1>6, <1>7, <1>8, <1>9, RecordStep

LEMMA ConsumeStep ==
  ASSUME Inv, NEW r \in Request, Consume(r)
  PROVE  Inv'
<1>1. req[r].key \in Key /\ req[r].step = "consume"
  BY Acting DEF Advance, Consume, At
<1>. PICK k \in Key : req[r].key = k
  BY <1>1
<1>2. /\ \/ Put(k, NoRecord) /\ NoSlip
         \/ UNCHANGED <<rec, spent>> /\ Slip(k)
      /\ Return(r) /\ UNCHANGED <<kind, codes, cooldown, count, wrong>>
  BY DEF Consume
<1>3. /\ faults' \in 0 .. MaxFaults /\ uncounted' \subseteq Key
      /\ uncounted \subseteq uncounted'
  BY <1>2, SlipType
<1>4. ~Counting(r)
  BY <1>1 DEF Counting
<1>5. CASE UNCHANGED <<rec, spent>> /\ Slip(k)
  <2>1. /\ \A c \in Counter :
              count'[c] \in [n: 0 .. Limit(c) + 1, ttl: BOOLEAN]
        /\ count' \in [Counter -> [n: Nat, ttl: BOOLEAN]]
    BY <1>2, SameCount
  <2>. QED
    BY <1>1, <1>2, <1>3, <1>4, <1>5, <2>1, ReturnStep
<1>6. CASE Put(k, NoRecord) /\ NoSlip
  <2>1. /\ req' \in [Request -> Handler] /\ req'[r] = Idle
        /\ \A q \in Request \ {r} : req'[q] = req[q]
    BY <1>2, Returned
  <2>2. \A q \in Request :
          \/ req'[q] = req[q]
          \/ req'[q] = Idle /\ req[q].key = k /\ ~Counting(q)
    BY <1>4, <2>1
  <2>. QED
    BY <1>2, <1>3, <1>6, <2>1, <2>2, RemovalStep DEF NoSlip
<1>. QED
  BY <1>2, <1>5, <1>6

LEMMA TimeStep ==
  ASSUME Inv,
         \/ \E k \in Key : ExpireCode(k) \/ ExpireCooldown(k)
         \/ \E c \in Counter : ExpireCounter(c)
  PROVE  Inv'
<1>1. /\ req \in [Request -> Handler] /\ faults \in 0 .. MaxFaults
      /\ cooldown \subseteq Key /\ TypeOK
  BY DEF Inv, TypeOK
<1>2. ASSUME NEW k \in Key, ExpireCode(k) PROVE Inv'
  <2>1. /\ Put(k, NoRecord)
        /\ UNCHANGED <<kind, codes, cooldown, count, req, wrong, uncounted, faults>>
    BY <1>2 DEF ExpireCode
  <2>. QED
    BY <1>1, <2>1, RemovalStep
<1>3. ASSUME NEW k \in Key, ExpireCooldown(k) PROVE Inv'
  <2>1. /\ UNCHANGED <<kind, codes, rec, count, req, spent, wrong, uncounted,
                       faults>>
        /\ cooldown' \subseteq Key
    BY <1>1, <1>3 DEF ExpireCooldown, history
  <2>2. TypeOK'
    BY <1>1, <2>1 DEF TypeOK
  <2>. QED
    BY <2>1, <2>2
    DEF Inv, KeyInv, HandlerInv, Apart, GuessInv, About, Sending, Counting,
        Verifying
<1>4. ASSUME NEW c \in Counter, ExpireCounter(c) PROVE Inv'
  <2>1. /\ UNCHANGED <<kind, codes, rec, cooldown, req, spent, wrong, uncounted,
                       faults>>
        /\ count' = [count EXCEPT ![c] = [n |-> 0, ttl |-> FALSE]]
    BY <1>4 DEF ExpireCounter, history
  <2>2. 0 \in 0 .. Limit(c) + 1
    BY Limits
  <2>3. /\ \A d \in Counter :
             count'[d] \in [n: 0 .. Limit(d) + 1, ttl: BOOLEAN]
        /\ count' \in [Counter -> [n: Nat, ttl: BOOLEAN]]
    BY <2>1, <2>2, CountType
  <2>4. TypeOK'
    BY <1>1, <2>1, <2>3 DEF TypeOK
  <2>. QED
    BY <2>1, <2>3, <2>4
    DEF Inv, KeyInv, HandlerInv, Apart, GuessInv, About, Sending, Counting,
        Verifying
<1>. QED
  BY <1>2, <1>3, <1>4

-----------------------------------------------------------------------------
(* The steps that start a handler *)

LEMMA SendStep ==
  ASSUME Inv, NEW r \in Request, NEW k \in Key, Send(r, k)
  PROVE  Inv'
<1>. DEFINE n == codes[k] + 1
            h == [step |-> "check", key |-> k, code |-> n, seen |-> 0]
<1>1. /\ codes[k] < MaxCode /\ codes' = [codes EXCEPT ![k] = @ + 1]
      /\ req[r] = Idle /\ req' = [req EXCEPT ![r] = h]
      /\ UNCHANGED <<kind, rec, cooldown, count, spent, wrong, uncounted, faults>>
  BY DEF Send, Begin, history
<1>2. /\ codes \in [Key -> 0 .. MaxCode] /\ req \in [Request -> Handler]
      /\ TypeOK
  BY DEF Inv, TypeOK
<1>3. /\ n \in 1 .. MaxCode /\ codes' \in [Key -> 0 .. MaxCode]
      /\ codes'[k] = n
      /\ \A j \in Key : codes[j] <= codes'[j] /\ (j # k => codes'[j] = codes[j])
  BY <1>1, <1>2, Numbers
<1>. HIDE DEF n
<1>4. /\ h \in Handler /\ h.step = "check" /\ h.key = k /\ h.code = n
      /\ h # Idle
  <2>1. "check" \in Step /\ n \in Code /\ 0 \in 0 .. MaxAttempts
    BY <1>3, Numbers DEF Step, Code
  <2>2. h # Idle
    BY DEF Idle
  <2>. QED
    BY <2>1, <2>2 DEF Handler
<1>. HIDE DEF h
<1>5. /\ req' \in [Request -> Handler] /\ req'[r] = h
      /\ \A q \in Request \ {r} : req'[q] = req[q]
  BY <1>1, <1>2, <1>4
<1>6. TypeOK'
  BY <1>1, <1>2, <1>3, <1>5 DEF TypeOK
<1>7. ASSUME NEW j \in Key PROVE KeyInv(j)'
  <2>1. KeyInv(j) /\ codes[j] \in Nat /\ codes'[j] \in Nat /\ codes[j] <= codes'[j]
    BY <1>2, <1>3 DEF Inv
  <2>2. UNCHANGED <<rec, spent, wrong>>
    BY <1>1
  <2>3. \A m \in Code : <<j, m>> \in spent' => m <= codes'[j]
    BY <2>1, <2>2, Numbers DEF KeyInv, Code
  <2>. QED
    BY <2>1, <2>2, <2>3 DEF KeyInv
<1>8. n # rec[k].hash /\ <<k, n>> \notin spent
  <2>1. KeyInv(k) /\ codes[k] \in Nat /\ n = codes[k] + 1 /\ n \in Code
    BY <1>2, <1>3 DEF Inv, n, Code
  <2>. QED
    BY <2>1 DEF KeyInv
<1>9. ASSUME NEW q \in Request PROVE HandlerInv(q)'
  <2>1. CASE q = r
    BY <1>1, <1>3, <1>4, <1>5, <1>8, <2>1 DEF HandlerInv, Sending, Counting
  <2>2. CASE q # r
    <3>1. req'[q] = req[q] /\ HandlerInv(q) /\ UNCHANGED <<rec, spent>>
      BY <1>1, <1>5, <2>2 DEF Inv
    <3>2. req[q].step # "idle" =>
            /\ codes[req[q].key] \in Nat /\ codes'[req[q].key] \in Nat
            /\ codes[req[q].key] <= codes'[req[q].key]
      BY <1>2, <1>3, <3>1 DEF HandlerInv
    <3>3. Sending(q) => req[q].step # "idle"
      BY DEF Sending
    <3>. QED
      BY <3>1, <3>2, <3>3 DEF HandlerInv, Sending, Counting
  <2>. QED
    BY <2>1, <2>2
<1>10. ASSUME NEW q \in Request \ {r}, Sending(q)', req'[q].key = k
       PROVE  req'[q].code # n
  <2>1. HandlerInv(q) /\ Sending(q) /\ req'[q] = req[q] /\ codes[k] \in Nat
    BY <1>2, <1>5, <1>10 DEF Inv, Sending
  <2>2. req[q].code \in 1 .. codes[k]
    BY <1>10, <2>1 DEF HandlerInv
  <2>. QED
    BY <2>1, <2>2 DEF n
<1>11. ASSUME NEW p \in Request, NEW q \in Request PROVE Apart(p, q)'
  <2>1. CASE p # r /\ q # r
    BY <1>5, <2>1 DEF Inv, Apart, Sending
  <2>2. CASE p = r \/ q = r
    BY <1>4, <1>5, <1>10, <2>2 DEF Apart
  <2>. QED
    BY <2>1, <2>2
<1>12. ASSUME NEW j \in Key \ uncounted' PROVE GuessInv(j)'
  <2>1. GuessInv(j) /\ UNCHANGED <<rec, wrong>>
    BY <1>1 DEF Inv
  <2>2. \A q \in Request : /\ Verifying(q)' => Verifying(q) /\ req'[q] = req[q]
                           /\ Counting(q)' => Counting(q) /\ req'[q] = req[q]
    BY <1>4, <1>5 DEF Verifying, Counting
  <2>3. \A q \in Request : Counting(q) => Counting(q)' /\ req'[q] = req[q]
    BY <1>1, <1>5 DEF Counting, Idle
  <2>. QED
    BY <2>1, <2>2, <2>3, GuessFrame DEF About
<1>13. count' \in [Counter -> [n: Nat, ttl: BOOLEAN]]
  BY <1>1 DEF Inv
<1>. QED
  BY <1>6, <1>7, <1>9, <1>11, <1>12, <1>13 DEF Inv

\* A guess that does not overlap with another is judged on a count that
\* covers every wrong guess before it.
LEMMA VerifyStep ==
  ASSUME Inv, NEW r \in Request, NEW k \in Key, NEW guess,
         NEW counting \in {"try.incr", "write"}, Verify(r, k, guess, counting)
  PROVE  Inv'
<1>. DEFINE right == rec[k].hash # None /\ guess = rec[k].hash
            n == rec[k].attempts
            h == [step |-> IF right THEN "consume" ELSE counting, key |-> k,
                  code |-> rec[k].hash, seen |-> n]
<1>1. /\ rec[k].here /\ n < MaxAttempts
      /\ req[r] = Idle /\ req' = [req EXCEPT ![r] = h]
      /\ wrong' = IF right \/ wrong[k] > MaxAttempts THEN wrong
                  ELSE [wrong EXCEPT ![k] = @ + 1]
      /\ uncounted' = IF Overlapping(k) THEN uncounted \cup {k} ELSE uncounted
      /\ UNCHANGED <<kind, codes, rec, cooldown, count, spent, faults>>
  BY DEF Verify, Begin
<1>2. /\ TypeOK /\ req \in [Request -> Handler] /\ rec[k] \in Record
      /\ n \in 0 .. MaxAttempts /\ KeyInv(k) /\ codes \in [Key -> 0 .. MaxCode]
      /\ wrong \in [Key -> 0 .. MaxAttempts + 1]
  BY DEF Inv, TypeOK, Record
<1>3. codes[k] > 0
  BY <1>1, <1>2 DEF KeyInv
<1>4. /\ h \in Handler /\ h.key = k /\ h.seen = n
      /\ h.step \in {"consume", "try.incr", "write"}
  <2>1. (IF right THEN "consume" ELSE counting) \in {"consume", "try.incr", "write"}
    OBVIOUS
  <2>2. rec[k].hash \in Code \cup {None}
    BY <1>2 DEF Record
  <2>. HIDE DEF right
  <2>. QED
    BY <1>2, <2>1, <2>2 DEF Handler, Step
<1>5. /\ wrong' \in [Key -> 0 .. MaxAttempts + 1]
      /\ \A j \in Key \ {k} : wrong'[j] = wrong[j]
      /\ wrong'[k] \in {wrong[k], wrong[k] + 1}
  BY <1>1, <1>2, Numbers
<1>6. /\ uncounted' \subseteq Key /\ uncounted \subseteq uncounted'
      /\ uncounted' \subseteq uncounted \cup {k}
      /\ k \notin uncounted' => ~Overlapping(k)
  BY <1>1, <1>2 DEF TypeOK
<1>. HIDE DEF right, h
<1>7. /\ req' \in [Request -> Handler] /\ req'[r] = h
      /\ \A q \in Request \ {r} : req'[q] = req[q]
  BY <1>1, <1>2, <1>4
<1>8. TypeOK'
  BY <1>1, <1>2, <1>5, <1>6, <1>7 DEF TypeOK
<1>9. ASSUME NEW j \in Key PROVE KeyInv(j)'
  <2>1. KeyInv(j) /\ UNCHANGED <<codes, rec, spent>>
    BY <1>1 DEF Inv
  <2>2. codes[j] = 0 => wrong'[j] = wrong[j]
    BY <1>3, <1>5
  <2>. QED
    BY <2>1, <2>2 DEF KeyInv
<1>10. ASSUME NEW q \in Request PROVE HandlerInv(q)'
  <2>1. CASE q = r
    BY <1>1, <1>3, <1>4, <1>7, <2>1 DEF HandlerInv, Sending, Counting
  <2>2. CASE q # r
    BY <1>1, <1>7, <2>2 DEF Inv, HandlerInv, Sending, Counting
  <2>. QED
    BY <2>1, <2>2
<1>11. ~Sending(r)' /\ \A q \in Request \ {r} : Sending(q)' <=> Sending(q)
  BY <1>4, <1>7 DEF Sending
<1>12. \A p, q \in Request : Apart(p, q)'
  BY <1>7, <1>11 DEF Inv, Apart
<1>13. ASSUME NEW j \in Key \ uncounted', j # k PROVE GuessInv(j)'
  <2>1. GuessInv(j) /\ rec'[j] = rec[j] /\ wrong'[j] = wrong[j]
    BY <1>1, <1>5, <1>6, <1>13 DEF Inv
  <2>2. ~About(r, j)'
    BY <1>4, <1>7, <1>13 DEF About
  <2>3. \A q \in Request :
          /\ Verifying(q)' /\ About(q, j)' => Verifying(q) /\ req'[q] = req[q]
          /\ Counting(q)' /\ About(q, j)' => Counting(q) /\ req'[q] = req[q]
    BY <1>7, <2>2 DEF Verifying, Counting
  <2>4. \A q \in Request : Counting(q) => Counting(q)' /\ req'[q] = req[q]
    BY <1>1, <1>7 DEF Counting, Idle
  <2>. QED
    BY <2>1, <2>3, <2>4, GuessFrame DEF About
<1>14. ASSUME k \notin uncounted' PROVE GuessInv(k)'
  <2>1. GuessInv(k) /\ rec'[k] = rec[k]
    BY <1>1, <1>6, <1>14 DEF Inv
  <2>2. \A q \in Request : ~(Verifying(q) /\ About(q, k))
    BY <1>6, <1>14 DEF Overlapping, About
  <2>3. \A q \in Request : ~(Counting(q) /\ About(q, k))
    BY <2>2 DEF Counting, Verifying
  <2>4. wrong[k] <= n
    BY <1>1, <2>1, <2>3 DEF GuessInv
  <2>5. wrong'[k] <= n + 1 /\ wrong'[k] <= MaxAttempts
    BY <1>1, <1>2, <1>5, <2>4, Numbers
  <2>6. \A q \in Request : (Verifying(q)' \/ Counting(q)') /\ About(q, k)' => q = r
    BY <1>7, <2>2, <2>3 DEF Verifying, Counting, About
  <2>7. \A q \in Request :
          Counting(q)' /\ About(q, k)' => wrong'[k] <= req'[q].seen + 1
    BY <1>4, <1>7, <2>5, <2>6
  <2>8. ASSUME \A q \in Request : ~(Counting(q)' /\ About(q, k)')
        PROVE  wrong'[k] <= rec'[k].attempts
    <3>1. ~Counting(r)'
      BY <1>4, <1>7, <2>8 DEF About
    <3>2. h.step = "consume"
      BY <1>4, <1>7, <3>1 DEF Counting
    <3>3. right
      BY <3>2 DEF h
    <3>. QED
      BY <1>1, <2>1, <2>4, <3>3
  <2>. QED
    BY <2>5, <2>6, <2>7, <2>8 DEF GuessInv
<1>15. count' \in [Counter -> [n: Nat, ttl: BOOLEAN]]
  BY <1>1 DEF Inv
<1>. QED
  BY <1>8, <1>9, <1>10, <1>12, <1>13, <1>14, <1>15 DEF Inv

\* Every handler starts as one of these.
LEMMA Starts ==
  ASSUME NEW r \in Request, Start(r)
  PROVE  \E k \in Key :
           \/ Send(r, k)
           \/ \E guess \in 0 .. MaxCode, counting \in {"try.incr", "write"} :
                Verify(r, k, guess, counting)
BY DEF Start, SendOTP, DispatcherSendOTP, CompanyUserSendOTP, VerifyOTP,
   DispatcherVerifyOTP, CompanyUserVerifyOTP, PhoneChangeVerify,
   ResetPasswordConfirm, DispatcherPhoneChangeVerify, ActionVerify

LEMMA Creates ==
  ASSUME NEW k \in Key,
         \/ PhoneChangeCreate(k) \/ ResetPasswordRequest(k)
         \/ DispatcherPhoneChangeRequest(k)
  PROVE  Create(k)
BY DEF PhoneChangeCreate, ResetPasswordRequest, DispatcherPhoneChangeRequest,
   ActionCreate

LEMMA AdvanceStep ==
  ASSUME Inv, NEW r \in Request, Advance(r)
  PROVE  Inv'
BY CheckCooldownStep, CountSendStep, CountIpStep, CountTryStep, ExpirySteps,
   SaveStep, WriteAttemptsStep, ConsumeStep DEF Advance

LEMMA InvNext == Inv /\ [Next]_vars => Inv'
<1>. SUFFICES ASSUME Inv, [Next]_vars PROVE Inv'
  OBVIOUS
<1>1. ASSUME NEW r \in Request, Start(r) PROVE Inv'
  BY <1>1, Starts, SendStep, VerifyStep
<1>2. ASSUME NEW k \in Key,
             \/ PhoneChangeCreate(k) \/ ResetPasswordRequest(k)
             \/ DispatcherPhoneChangeRequest(k)
      PROVE  Inv'
  BY <1>2, Creates, CreateStep
<1>3. CASE UNCHANGED vars
  <2>1. TypeOK'
    BY <1>3 DEF Inv, TypeOK, vars, history
  <2>. QED
    BY <1>3, <2>1
    DEF Inv, KeyInv, HandlerInv, Apart, GuessInv, About, Sending, Counting,
        Verifying, vars, history
<1>. QED
  BY <1>1, <1>2, <1>3, TimeStep, AdvanceStep, FailStep DEF Next

THEOREM Invariant == Spec => []Inv
<1>. QED
  BY InvInit, InvNext, PTL DEF Spec

-----------------------------------------------------------------------------
(* What follows *)

\* Every state has the types declared: the counters stay within one of their
\* limits, and a record counts no more attempts than are allowed.
THEOREM TypeCorrect == Spec => []TypeOK
<1>1. Inv => TypeOK
  BY DEF Inv
<1>. QED
  BY <1>1, Invariant, PTL

\* A code that was used, replaced or has expired never comes back to the
\* record of its key, and a record with a code expires.
THEOREM Spent == Spec => []SpentStaysSpent
<1>1. Inv => SpentStaysSpent
  BY DEF Inv, KeyInv, SpentStaysSpent
<1>. QED
  BY <1>1, Invariant, PTL

\* No code outlives MaxAttempts wrong guesses where guesses do not overlap,
\* no limit is met and nothing fails midway.
THEOREM Counted == Spec => []GuessesCounted
<1>1. Inv => GuessesCounted
  BY DEF Inv, GuessInv, GuessesCounted
<1>. QED
  BY <1>1, Invariant, PTL

-----------------------------------------------------------------------------
(* Expiry of the counters *)

\* Handler r is about to set the expiry of counter c.
Settles(r, c) ==
  \/ At(r, "send.expire") /\ c = <<"send", req[r].key>>
  \/ At(r, "ip.expire") /\ c = IpCounter(req[r].key)
  \/ At(r, "try.expire") /\ c = <<"try", req[r].key>>

Expires(c) ==
  count[c].n > 0 => count[c].ttl \/ \E r \in Request : Settles(r, c)

\* A counter that stands, with the handlers that settle it
LEMMA ExpiresFrame ==
  ASSUME NEW c \in Counter, Expires(c), count'[c] = count[c], kind' = kind,
         \A r \in Request : Settles(r, c) => req'[r] = req[r]
  PROVE  Expires(c)'
<1>1. ASSUME NEW r \in Request, Settles(r, c) PROVE Settles(r, c)'
  BY <1>1 DEF Settles, At, IpCounter
<1>. QED
  BY <1>1 DEF Expires

LEMMA OthersStay ==
  ASSUME Inv, NEW r \in Request,
         \/ Return(r) \/ \E s \in Step : Goto(r, s)
  PROVE  \A q \in Request \ {r} : req'[q] = req[q]
BY DEF Inv, TypeOK, Return, Goto

LEMMA IncrExpires ==
  ASSUME Inv, NEW r \in Request, NEW d \in Counter, NEW c \in Counter,
         NEW expire \in Step, NEW next \in Step, Incr(r, d, expire, next),
         ~\E x \in Counter : Settles(r, x),
         kind' = kind, Expires(c),
         req'[r].step = expire /\ req'[r].key = req[r].key => Settles(r, d)'
  PROVE  Expires(c)'
<1>1. /\ count \in [Counter -> [n: Nat, ttl: BOOLEAN]]
      /\ req \in [Request -> Handler] /\ Limit(d) \in Nat \ {0}
  BY Limits DEF Inv, TypeOK
<1>2. \A q \in Request \ {r} : req'[q] = req[q]
  BY OthersStay DEF Incr
<1>3. CASE c # d
  BY <1>1, <1>2, <1>3, ExpiresFrame DEF Incr
<1>4. CASE c = d /\ count[c].n > 0
  <2>1. count'[c].ttl = count[c].ttl
    BY <1>1, <1>4 DEF Incr
  <2>2. ASSUME NEW q \in Request, Settles(q, c) PROVE Settles(q, c)'
    BY <1>2, <2>2 DEF Settles, At, IpCounter
  <2>. QED
    BY <1>4, <2>1, <2>2 DEF Expires
<1>5. CASE c = d /\ ~(count[c].n > 0)
  <2>1. count[d].n = 0
    BY <1>1, <1>5
  <2>2. Goto(r, expire)
    BY <1>1, <2>1 DEF Incr
  <2>3. req'[r].step = expire /\ req'[r].key = req[r].key
    BY <1>1, <2>2 DEF Goto, Handler
  <2>. QED
    BY <1>5, <2>3 DEF Expires
<1>. QED
  BY <1>3, <1>4, <1>5

LEMMA ExpiryExpires ==
  ASSUME Inv, NEW r \in Request, NEW d \in Counter, NEW c \in Counter,
         NEW next \in Step, Expiry(r, d, next), faults' = 0, kind' = kind,
         \A x \in Counter : Settles(r, x) => x = d,
         Expires(c)
  PROVE  Expires(c)'
<1>1. /\ count \in [Counter -> [n: Nat, ttl: BOOLEAN]] /\ faults \in Nat
  BY Numbers DEF Inv, TypeOK
<1>2. count' = [count EXCEPT ![d].ttl = TRUE]
  BY <1>1 DEF Expiry, Slip
<1>3. \A q \in Request \ {r} : req'[q] = req[q]
  BY OthersStay DEF Expiry
<1>4. CASE c = d
  BY <1>1, <1>2, <1>4 DEF Expires
<1>5. CASE c # d
  <2>1. \A q \in Request : Settles(q, c) => req'[q] = req[q]
    BY <1>3, <1>5
  <2>. QED
    BY <1>1, <1>2, <1>5, <2>1, ExpiresFrame
<1>. QED
  BY <1>4, <1>5

LEMMA ExpiresNext ==
  ASSUME Inv, [Next]_vars, faults' = 0, NEW c \in Counter, Expires(c)
  PROVE  Expires(c)'
<1>1. /\ req \in [Request -> Handler] /\ faults \in Nat
      /\ count \in [Counter -> [n: Nat, ttl: BOOLEAN]]
  BY Numbers DEF Inv, TypeOK
<1>2. ASSUME NEW r \in Request, Start(r) PROVE Expires(c)'
  <2>1. \A q \in Request : Settles(q, c) => req'[q] = req[q]
    BY <1>1, <1>2, Starts DEF Send, Verify, Begin, Settles, At, Idle
  <2>2. UNCHANGED <<kind, count>>
    BY <1>2, Starts DEF Send, Verify
  <2>. QED
    BY <2>1, <2>2, ExpiresFrame
<1>3. ASSUME NEW r \in Request, Advance(r) PROVE Expires(c)'
  <2>1. req[r].key \in Key
    BY <1>3, Acting
  <2>. PICK k \in Key : req[r].key = k
    BY <2>1
  <2>2. /\ <<"send", k>> \in Counter /\ <<"try", k>> \in Counter
        /\ IpCounter(k) \in Counter
    BY Limits, IpCounterIn
  <2>. PICK ip \in Counter : ip = IpCounter(k)
    BY <2>2
  <2>3. {"send.expire", "ip.incr", "ip.expire", "save", "try.expire", "write"}
          \subseteq Step
    BY DEF Step
  <2>4. CASE CheckCooldown(r) \/ Save(r) \/ WriteAttempts(r) \/ Consume(r)
    <3>1. UNCHANGED <<kind, count>>
      BY <2>4 DEF CheckCooldown, Save, WriteAttempts, Consume
    <3>2. ~Settles(r, c)
      BY <2>4 DEF CheckCooldown, Save, WriteAttempts, Consume, At, Settles
    <3>3. Return(r) \/ \E s \in Step : Goto(r, s)
      BY <2>4 DEF CheckCooldown, Save, WriteAttempts, Consume, Step
    <3>. QED
      BY <3>1, <3>2, <3>3, OthersStay, ExpiresFrame
  <2>5. CASE CountSend(r)
    <3>1. kind' = kind /\ Incr(r, <<"send", k>>, "send.expire", "ip.incr")
      BY <2>5 DEF CountSend
    <3>2. /\ ~\E x \in Counter : Settles(r, x)
          /\ req'[r].step = "send.expire" /\ req'[r].key = req[r].key =>
               Settles(r, <<"send", k>>)'
      BY <2>5 DEF CountSend, At, Settles
    <3>. QED
      BY <2>2, <2>3, <3>1, <3>2, IncrExpires
  <2>6. CASE CountIp(r)
    <3>1. kind' = kind /\ Incr(r, ip, "ip.expire", "save")
      BY <2>6 DEF CountIp
    <3>2. /\ ~\E x \in Counter : Settles(r, x)
          /\ req'[r].step = "ip.expire" /\ req'[r].key = req[r].key =>
               Settles(r, ip)'
      BY <2>6, <3>1 DEF CountIp, At, Settles, IpCounter
    <3>. QED
      BY <2>2, <2>3, <3>1, <3>2, IncrExpires
  <2>7. CASE CountTry(r)
    <3>1. kind' = kind /\ Incr(r, <<"try", k>>, "try.expire", "write")
      BY <2>7 DEF CountTry
    <3>2. /\ ~\E x \in Counter : Settles(r, x)
          /\ req'[r].step = "try.expire" /\ req'[r].key = req[r].key =>
               Settles(r, <<"try", k>>)'
      BY <2>7 DEF CountTry, At, Settles
    <3>. QED
      BY <2>2, <2>3, <3>1, <3>2, IncrExpires
  <2>8. CASE ExpireSends(r)
    <3>1. kind' = kind /\ Expiry(r, <<"send", k>>, "ip.incr")
      BY <2>8 DEF ExpireSends
    <3>2. \A x \in Counter : Settles(r, x) => x = <<"send", k>>
      BY <2>8 DEF ExpireSends, At, Settles
    <3>. QED
      BY <2>2, <2>3, <3>1, <3>2, ExpiryExpires
  <2>9. CASE ExpireIp(r)
    <3>1. kind' = kind /\ Expiry(r, ip, "save")
      BY <2>9 DEF ExpireIp
    <3>2. \A x \in Counter : Settles(r, x) => x = ip
      BY <2>9 DEF ExpireIp, At, Settles
    <3>. QED
      BY <2>2, <2>3, <3>1, <3>2, ExpiryExpires
  <2>10. CASE ExpireTries(r)
    <3>1. kind' = kind /\ Expiry(r, <<"try", k>>, "write")
      BY <2>10 DEF ExpireTries
    <3>2. \A x \in Counter : Settles(r, x) => x = <<"try", k>>
      BY <2>10 DEF ExpireTries, At, Settles
    <3>. QED
      BY <2>2, <2>3, <3>1, <3>2, ExpiryExpires
  <2>. QED
    BY <1>3, <2>4, <2>5, <2>6, <2>7, <2>8, <2>9, <2>10 DEF Advance
<1>4. ASSUME NEW r \in Request, Fail(r) PROVE FALSE
  BY <1>1, <1>4 DEF Fail, Slip
<1>5. ASSUME NEW d \in Counter, ExpireCounter(d) PROVE Expires(c)'
  <2>1. /\ count' = [count EXCEPT ![d] = [n |-> 0, ttl |-> FALSE]]
        /\ UNCHANGED <<kind, req>>
    BY <1>5 DEF ExpireCounter
  <2>2. CASE c = d
    BY <1>1, <2>1, <2>2 DEF Expires
  <2>3. CASE c # d
    BY <1>1, <2>1, <2>3, ExpiresFrame
  <2>. QED
    BY <2>2, <2>3
<1>6. ASSUME UNCHANGED <<kind, count, req>> PROVE Expires(c)'
  BY <1>6, ExpiresFrame
<1>7. ASSUME NEW k \in Key,
             \/ PhoneChangeCreate(k) \/ ResetPasswordRequest(k)
             \/ DispatcherPhoneChangeRequest(k)
             \/ ExpireCode(k) \/ ExpireCooldown(k)
      PROVE  UNCHANGED <<kind, count, req>>
  BY <1>7, Creates DEF Create, ExpireCode, ExpireCooldown
<1>8. CASE UNCHANGED vars
  BY <1>6, <1>8 DEF vars
<1>. QED
  BY <1>2, <1>3, <1>4, <1>5, <1>6, <1>7, <1>8 DEF Next

LEMMA FaultsGrow == [Next]_vars => faults' \in {faults, faults + 1}
<1>. SUFFICES ASSUME [Next]_vars PROVE faults' \in {faults, faults + 1}
  OBVIOUS
<1>1. ASSUME NEW r \in Request, Start(r) PROVE faults' = faults
  BY <1>1, Starts DEF Send, Verify
<1>2. ASSUME NEW r \in Request, Advance(r) \/ Fail(r)
      PROVE  faults' \in {faults, faults + 1}
  BY <1>2 DEF Advance, CheckCooldown, CountSend, ExpireSends, CountIp, ExpireIp,
     Save, CountTry, ExpireTries, WriteAttempts, Consume, Fail, Expiry, Slip,
     NoSlip
<1>3. ASSUME NEW k \in Key,
             \/ PhoneChangeCreate(k) \/ ResetPasswordRequest(k)
             \/ DispatcherPhoneChangeRequest(k)
             \/ ExpireCode(k) \/ ExpireCooldown(k)
      PROVE  faults' = faults
  BY <1>3, Creates DEF Create, ExpireCode, ExpireCooldown
<1>4. ASSUME NEW c \in Counter, ExpireCounter(c) PROVE faults' = faults
  BY <1>4 DEF ExpireCounter
<1>. QED
  BY <1>1, <1>2, <1>3, <1>4 DEF Next, vars

\* Every rate counter in use has its expiry, or a handler on its way to set
\* it, unless something failed.
THEOREM Expiring == Spec => []CountersExpire
<1>. DEFINE J == faults = 0 => \A c \in Counter : Expires(c)
<1>1. Init => J
  BY DEF Init, Expires
<1>2. Inv /\ [Next]_vars /\ J => J'
  <2>. SUFFICES ASSUME Inv, [Next]_vars, J, faults' = 0,
                       NEW c \in Counter
                PROVE  Expires(c)'
    OBVIOUS
  <2>1. faults = 0
    BY FaultsGrow, Numbers DEF Inv, TypeOK
  <2>. QED
    BY <2>1, ExpiresNext
<1>3. J => CountersExpire
  BY DEF Expires, Settles, CountersExpire
<1>. HIDE DEF J
<1>. QED
  BY <1>1, <1>2, <1>3, Invariant, PTL DEF Spec

-----------------------------------------------------------------------------
(* ChatMessages: paging through a conversation *)

\* What can have been listed: committed, deleted since or not
Committed == {m \in M!Message : messages[m].state \in {"stored", "deleted"}}

\* m shares its time with the end of a page that the reader got; or it is
\* still ahead of him.
Passed(r, m) == \E c \in r.cursors : M!Created(m) = M!Created(c)
Ahead(r, m)  == r.cursor = M!None \/ M!Created(m) < M!Created(r.cursor)

\* What a reader r who began with the messages t has got so far
Reads(r, t) ==
  /\ t \cup r.listed \subseteq Committed
  /\ r.cursors \subseteq r.listed
  /\ r.cursor = M!None => r.listed = {}
  /\ r.cursor # M!None =>
       /\ r.cursor \in r.cursors
       /\ \A m \in r.listed : M!Created(m) >= M!Created(r.cursor)
  /\ Cardinality(r.listed) = r.count
  /\ r.who \notin Dispatcher => r.listed = {}
  /\ r.who \in Dispatcher =>
       \A m \in (t \cap M!Stored) \ r.listed :
         \/ Passed(r, m)
         \/ r.step # "done" /\ Ahead(r, m)

MessagesInv == M!MessagesAssumption /\ M!TypeOK /\ Reads(reader, there)

\* The instance counts as its module does.
LEMMA SameCardinality == \A S : M!Cardinality(S) = Cardinality(S)
BY Zenon DEF M!Cardinality, Cardinality

LEMMA MessageFacts ==
  ASSUME M!MessagesAssumption
  PROVE  /\ M!None \notin M!Message
         /\ \A S \in SUBSET M!Message :
              IsFiniteSet(S) /\ Cardinality(S) \in Nat
<1>1. IsFiniteSet(M!Message)
  BY FS_Interval DEF M!Message, M!MessagesAssumption
<1>2. M!None \notin M!Message
  BY DEF M!Message, M!None, M!MessagesAssumption
<1>. QED
  BY <1>1, <1>2, FS_Subset, FS_CardinalityType

\* A message that is committed keeps its time, does not go, and does not come
\* back once it is deleted.
Kept ==
  \A m \in Committed :
    /\ m \in Committed' /\ M!Created(m)' = M!Created(m)
    /\ m \in M!Stored' => m \in M!Stored

\* Writers disturb no reader.
LEMMA WriteStep ==
  ASSUME MessagesInv, UNCHANGED <<reader, there>>, Kept,
         messages' \in [M!Message -> M!Row], now' \in 0 .. MaxTime
  PROVE  MessagesInv'
<1>1. M!MessagesAssumption' /\ M!TypeOK'
  BY DEF MessagesInv, M!MessagesAssumption, M!TypeOK
<1>2. \A m \in there \cup reader.listed :
        m \in Committed' /\ M!Created(m)' = M!Created(m)
  BY DEF MessagesInv, Reads, Kept
<1>3. \A c \in reader.cursors : M!Created(c)' = M!Created(c)
  BY <1>2 DEF MessagesInv, Reads
<1>4. reader.cursor # M!None =>
        M!Created(reader.cursor)' = M!Created(reader.cursor)
  BY <1>3 DEF MessagesInv, Reads
<1>5. \A m \in (there' \cap M!Stored') \ reader'.listed :
        /\ m \in (there \cap M!Stored) \ reader.listed
        /\ Passed(reader, m) => Passed(reader, m)'
        /\ Ahead(reader, m) => Ahead(reader, m)'
  <2>. TAKE m \in (there' \cap M!Stored') \ reader'.listed
  <2>1. m \in M!Stored /\ M!Created(m)' = M!Created(m)
    BY <1>2 DEF MessagesInv, Reads, Kept
  <2>. QED
    BY <1>3, <1>4, <2>1 DEF Passed, Ahead
<1>6. Reads(reader, there)'
  BY <1>2, <1>4, <1>5 DEF MessagesInv, Reads
<1>. QED
  BY <1>1, <1>6 DEF MessagesInv

\* One row is written.
LEMMA RowStep ==
  ASSUME MessagesInv, NEW m \in M!Message, NEW written \in M!Row,
         messages' = [messages EXCEPT ![m] = written],
         UNCHANGED <<now, reader, there>>,
         m \in Committed =>
           /\ written.created = messages[m].created
           /\ written.state \in {messages[m].state, "deleted"}
  PROVE  MessagesInv'
<1>1. /\ messages' \in [M!Message -> M!Row]
      /\ messages'[m] = written
      /\ \A n \in M!Message \ {m} : messages'[n] = messages[n]
  BY DEF MessagesInv, M!TypeOK
<1>2. Kept
  BY <1>1 DEF Kept, Committed, M!Stored, M!Created
<1>. QED
  BY <1>1, <1>2, WriteStep DEF MessagesInv, M!TypeOK

LEMMA WriterInv ==
  ASSUME MessagesInv, NEW m \in M!Message, NEW p \in Dispatcher \cup Driver,
         \/ M!CreateMessage(m, p) \/ M!Commit(m)
         \/ M!EditMessage(m, p) \/ M!DeleteMessage(m, p)
  PROVE  MessagesInv'
<1>1. messages[m] \in M!Row /\ now \in 0 .. MaxTime
  BY DEF MessagesInv, M!TypeOK
<1>2. CASE M!CreateMessage(m, p)
  BY <1>1, <1>2, RowStep DEF M!CreateMessage, M!Row, Committed
<1>3. CASE M!Commit(m)
  <2>1. [messages[m] EXCEPT !.state = "stored"] \in M!Row
    BY <1>1 DEF M!Row
  <2>. QED
    BY <1>3, <2>1, RowStep DEF M!Commit, Committed, MessagesInv, M!TypeOK
<1>4. CASE M!EditMessage(m, p)
  <2>. DEFINE written == [messages[m] EXCEPT !.edited = TRUE]
  <2>1. /\ written \in M!Row /\ written.created = messages[m].created
        /\ written.state = messages[m].state
    BY <1>1 DEF M!Row
  <2>. QED
    BY <1>4, <2>1, RowStep DEF M!EditMessage
<1>5. CASE M!DeleteMessage(m, p)
  <2>. DEFINE written == [messages[m] EXCEPT !.state = "deleted"]
  <2>1. /\ written \in M!Row /\ written.created = messages[m].created
        /\ written.state = "deleted"
    BY <1>1 DEF M!Row
  <2>. QED
    BY <1>5, <2>1, RowStep DEF M!DeleteMessage
<1>. QED
  BY <1>2, <1>3, <1>4, <1>5

LEMMA TickInv ==
  ASSUME MessagesInv, M!Tick
  PROVE  MessagesInv'
<1>1. messages' \in [M!Message -> M!Row] /\ now' \in 0 .. MaxTime
  BY DEF M!Tick, MessagesInv, M!TypeOK, M!MessagesAssumption
<1>2. Kept
  BY DEF M!Tick, Kept, Committed, M!Stored, M!Created
<1>. QED
  BY <1>1, <1>2, WriteStep DEF M!Tick

\* A page holds what is newest of what the reader may see after his cursor;
\* an empty one says that nothing is left.
LEMMA PageFacts ==
  ASSUME MessagesInv, NEW p, NEW c, NEW page \in M!Pages(p, c)
  PROVE  /\ page \subseteq M!Stored
         /\ p \notin Dispatcher => page = {}
         /\ \A m \in page : M!AfterCursor(m, c)
         /\ p \in Dispatcher =>
              \A m \in M!Stored \ page : M!AfterCursor(m, c) =>
                page # {} /\ \A n \in page : M!Created(n) >= M!Created(m)
<1>. DEFINE found == {m \in M!Stored : p \in Dispatcher /\ M!AfterCursor(m, c)}
<1>1. /\ page \subseteq found
      /\ Cardinality(page) = IF Cardinality(found) < PageLimit
                             THEN Cardinality(found) ELSE PageLimit
      /\ \A m \in page, n \in found \ page : M!Created(m) >= M!Created(n)
  BY SameCardinality, Zenon DEF M!Pages
<1>2. found \subseteq M!Message /\ page \subseteq M!Message
  BY <1>1 DEF M!Stored
<1>3. /\ IsFiniteSet(found) /\ IsFiniteSet(page)
      /\ Cardinality(found) \in Nat
  BY <1>2, MessageFacts DEF MessagesInv
<1>4. page = {} => found = {}
  <2>. HAVE page = {}
  <2>1. Cardinality(page) = 0 /\ PageLimit \in Nat \ {0}
    BY FS_EmptySet DEF MessagesInv, M!MessagesAssumption
  <2>2. Cardinality(found) = 0
    BY <1>1, <1>3, <2>1
  <2>. QED
    BY <1>3, <2>2, FS_EmptySet
<1>. QED
  BY <1>1, <1>4

\* The next page, or the end
LEMMA ListStep ==
  ASSUME MessagesInv, UNCHANGED <<messages, now>>,
         there' \subseteq M!Message,
         NEW r \in M!Reader, r.step = "paging", Reads(r, there'),
         M!ListMessages(r.who, r)
  PROVE  MessagesInv'
<1>1. PICK page \in M!Pages(r.who, r.cursor) :
        IF page = {} THEN reader' = [r EXCEPT !.step = "done"]
        ELSE \E last \in page :
               /\ \A m \in page : M!Created(last) <= M!Created(m)
               /\ reader' = [r EXCEPT !.cursor = last,
                                      !.cursors = @ \cup {last},
                                      !.listed = @ \cup page,
                                      !.count = @ + Cardinality(page)]
  BY SameCardinality, Zenon DEF M!ListMessages
<1>2. M!Stored' = M!Stored /\ Committed' = Committed
  BY DEF M!Stored, Committed
<1>3. \A m \in M!Message : M!Created(m)' = M!Created(m) /\ M!Created(m) \in Nat
  BY DEF M!Created, MessagesInv, M!TypeOK, M!Row
<1>4. M!Stored \subseteq Committed /\ Committed \subseteq M!Message
  BY DEF M!Stored, Committed
<1>5. M!None \notin M!Message
  BY MessageFacts DEF MessagesInv
<1>6. M!MessagesAssumption'
  BY DEF MessagesInv, M!MessagesAssumption
<1>7. CASE page = {}
  <2>1. reader' = [r EXCEPT !.step = "done"]
    BY <1>1, <1>7
  <2>2. /\ reader' \in M!Reader /\ reader'.step = "done"
        /\ reader'.who = r.who /\ reader'.cursor = r.cursor
        /\ reader'.cursors = r.cursors /\ reader'.listed = r.listed
        /\ reader'.count = r.count
    BY <2>1 DEF M!Reader
  <2>3. ASSUME r.who \in Dispatcher,
               NEW m \in (there' \cap M!Stored) \ r.listed
        PROVE  Passed(r, m)
    <3>1. ~M!AfterCursor(m, r.cursor)
      BY <1>7, <2>3, PageFacts
    <3>. QED
      BY <2>3, <3>1 DEF Reads, M!AfterCursor, Ahead
  <2>4. Reads(reader', there')
    BY <2>2, <2>3 DEF Reads, Passed
  <2>. QED
    BY <1>2, <1>6, <2>2, <2>4
       DEF MessagesInv, M!TypeOK, Reads, Passed, Ahead, M!Created
<1>8. CASE page # {}
  <2>1. PICK last \in page :
          /\ \A m \in page : M!Created(last) <= M!Created(m)
          /\ reader' = [r EXCEPT !.cursor = last, !.cursors = @ \cup {last},
                                 !.listed = @ \cup page,
                                 !.count = @ + Cardinality(page)]
    BY <1>1, <1>8
  <2>2. /\ page \subseteq M!Stored /\ page \subseteq M!Message
        /\ r.who \in Dispatcher
        /\ \A m \in page : M!AfterCursor(m, r.cursor)
        /\ \A m \in M!Stored \ page : M!AfterCursor(m, r.cursor) =>
             M!Created(last) >= M!Created(m)
    BY <1>4, <1>8, PageFacts
  <2>3. Cardinality(page) \in Nat
    BY <2>2, MessageFacts DEF MessagesInv
  <2>4. /\ reader'.who = r.who /\ reader'.step = "paging"
        /\ reader'.cursor = last /\ reader'.cursors = r.cursors \cup {last}
        /\ reader'.listed = r.listed \cup page
        /\ reader'.count = r.count + Cardinality(page)
    BY <2>1 DEF M!Reader
  <2>5. reader' \in M!Reader
    <3>1. /\ r.who \in Dispatcher \cup Driver \cup {Null}
          /\ r.cursors \cup {last} \in SUBSET M!Message
          /\ last \in M!Message \cup {M!None}
          /\ r.listed \cup page \in SUBSET M!Message
          /\ r.count + Cardinality(page) \in Nat
      BY <2>2, <2>3 DEF M!Reader
    <3>2. reader' = [who |-> r.who, step |-> "paging",
                     cursors |-> r.cursors \cup {last}, cursor |-> last,
                     listed |-> r.listed \cup page,
                     count |-> r.count + Cardinality(page)]
      BY <2>1 DEF M!Reader
    <3>. QED
      BY <3>1, <3>2 DEF M!Reader
  <2>6. r.cursor # M!None =>
          /\ r.cursor \in M!Message
          /\ \A m \in page : M!Created(m) < M!Created(r.cursor)
    BY <2>2 DEF M!AfterCursor, M!Reader
  <2>7. r.listed \cap page = {}
    BY <1>3, <2>2, <2>6 DEF Reads
  <2>8. Cardinality(r.listed \cup page) = r.count + Cardinality(page)
    <3>1. IsFiniteSet(r.listed) /\ IsFiniteSet(page)
      BY <2>2, MessageFacts DEF MessagesInv, M!Reader
    <3>2. Cardinality(r.listed \cup page)
            = Cardinality(r.listed) + Cardinality(page)
                - Cardinality(r.listed \cap page)
      BY <3>1, FS_Union
    <3>. QED
      <4>1. Cardinality(r.listed \cap page) = 0
        BY <2>7, FS_EmptySet, Zenon
      <4>2. r.count \in Nat /\ Cardinality(r.listed) = r.count
        BY DEF Reads, M!Reader
      <4>. QED
        BY <2>3, <3>2, <4>1, <4>2
  <2>9. \A m \in r.listed \cup page : M!Created(m) >= M!Created(last)
    BY <1>3, <1>4, <2>1, <2>2, <2>6 DEF Reads
  <2>10. ASSUME NEW m \in (there' \cap M!Stored) \ (r.listed \cup page)
         PROVE  Passed(reader', m) \/ M!Created(m) < M!Created(last)
    <3>1. CASE M!AfterCursor(m, r.cursor)
      BY <1>3, <1>4, <2>2, <2>4, <2>10, <3>1 DEF Passed
    <3>2. CASE ~M!AfterCursor(m, r.cursor)
      BY <2>2, <2>4, <2>10, <3>2 DEF Reads, Passed, Ahead, M!AfterCursor
    <3>. QED
      BY <3>1, <3>2
  <2>11. Reads(reader', there')
    BY <1>4, <1>5, <2>2, <2>4, <2>8, <2>9, <2>10 DEF Reads, Ahead
  <2>. QED
    BY <1>2, <1>6, <2>5, <2>11
       DEF MessagesInv, M!TypeOK, Reads, Passed, Ahead, M!Created
<1>. QED
  BY <1>7, <1>8

LEMMA OpenInv ==
  ASSUME MessagesInv, NEW p \in Dispatcher \cup Driver, M!Open(p)
  PROVE  MessagesInv'
<1>. DEFINE r == [M!NoReader EXCEPT !.who = p, !.step = "paging"]
<1>1. /\ r \in M!Reader /\ r.who = p /\ r.step = "paging" /\ r.cursor = M!None
      /\ r.cursors = {} /\ r.listed = {} /\ r.count = 0
  BY DEF M!NoReader, M!Reader
<1>2. there' = M!Stored /\ M!Stored \subseteq Committed
  BY DEF M!Open, M!Stored, Committed
<1>3. Reads(r, there')
  BY <1>1, <1>2, FS_EmptySet DEF Reads, Ahead
<1>. QED
  BY <1>1, <1>2, <1>3, ListStep DEF M!Open, M!Stored

LEMMA NextPageInv ==
  ASSUME MessagesInv, M!NextPage
  PROVE  MessagesInv'
BY ListStep DEF M!NextPage, MessagesInv, M!TypeOK

LEMMA MessagesNext ==
  ASSUME MessagesInv, [M!Next]_(M!vars)
  PROVE  MessagesInv'
<1>1. CASE UNCHANGED M!vars
  <2>1. Kept
    BY <1>1 DEF M!vars, Kept, Committed, M!Stored, M!Created
  <2>. QED
    BY <1>1, <2>1, WriteStep DEF M!vars, MessagesInv, M!TypeOK
<1>2. ASSUME NEW m \in M!Message, M!Commit(m)
      PROVE  MessagesInv'
  <2>1. [messages[m] EXCEPT !.state = "stored"] \in M!Row
    BY DEF M!Row, MessagesInv, M!TypeOK
  <2>. QED
    BY <1>2, <2>1, RowStep DEF M!Commit, Committed, MessagesInv, M!TypeOK
<1>. QED
  BY <1>1, <1>2, WriterInv, TickInv, OpenInv, NextPageInv DEF M!Next

LEMMA MessagesInit == M!MessagesAssumption /\ M!Init => MessagesInv
<1>. SUFFICES ASSUME M!MessagesAssumption, M!Init PROVE MessagesInv
  OBVIOUS
<1>1. M!TypeOK
  BY DEF M!Init, M!TypeOK, M!NoRow, M!Row, M!NoReader, M!Reader,
         M!MessagesAssumption
<1>2. Reads(reader, there)
  BY FS_EmptySet DEF M!Init, M!NoReader, Reads
<1>. QED
  BY <1>1, <1>2 DEF MessagesInv

\* What a reader has got, and what is still ahead of him.
THEOREM MessagesHold == M!MessagesAssumption /\ M!Spec => []MessagesInv
<1>1. M!MessagesAssumption /\ M!Init => MessagesInv
  BY MessagesInit
<1>2. MessagesInv /\ [M!Next]_(M!vars) => MessagesInv'
  BY MessagesNext
<1>. QED
  BY <1>1, <1>2, PTL DEF M!Spec

\* Paging misses and repeats nothing, but for messages of one time.
THEOREM Complete == M!MessagesAssumption /\ M!Spec => []M!PagesComplete
<1>1. MessagesInv => M!PagesComplete
  BY SameCardinality DEF MessagesInv, Reads, Passed, M!PagesComplete
<1>. QED
  BY <1>1, MessagesHold, PTL

-----------------------------------------------------------------------------
(* The components side by side: a step of the service is a step of one       *)
(* component and changes nothing of the others.                              *)

LEMMA CodesApart == ServiceSpec => Spec
<1>1. ServiceInit => Init
  BY DEF ServiceInit
<1>2. [ServiceNext]_ServiceVars => [Next]_vars
  BY DEF ServiceNext, ServiceVars, Turn
<1>. QED
  BY <1>1, <1>2, PTL DEF ServiceSpec, Spec

LEMMA InvitationsApart == ServiceSpec => I!Spec
<1>1. ServiceInit => I!Init
  BY DEF ServiceInit
<1>2. [ServiceNext]_ServiceVars => [I!Next]_(I!vars)
  BY DEF ServiceNext, ServiceVars, invVars, I!vars, I!history, Turn
<1>. QED
  BY <1>1, <1>2, PTL DEF ServiceSpec, I!Spec

LEMMA DeskApart == ServiceSpec => D!Spec
<1>1. ServiceInit => D!Init
  BY DEF ServiceInit
<1>2. [ServiceNext]_ServiceVars => [D!Next]_(D!vars)
  BY DEF ServiceNext, ServiceVars, deskVars, D!vars, D!history, Turn
<1>. QED
  BY <1>1, <1>2, PTL DEF ServiceSpec, D!Spec

LEMMA MessagesApart == ServiceSpec => M!Spec
<1>1. ServiceInit => M!Init
  BY DEF ServiceInit
<1>2. [ServiceNext]_ServiceVars => [M!Next]_(M!vars)
  BY DEF ServiceNext, ServiceVars, messageVars, M!vars, Turn
<1>. QED
  BY <1>1, <1>2, PTL DEF ServiceSpec, M!Spec

-----------------------------------------------------------------------------
(* What the service keeps *)

\* The codes of the service are those of OneTimeCodes: none that was used,
\* replaced or has expired comes back, wrong guesses are counted, and the
\* counters expire.
THEOREM CodesServed ==
  ServiceSpec => [](SpentStaysSpent /\ GuessesCounted /\ CountersExpire)
BY CodesApart, Spent, Counted, Expiring, PTL

\* Nobody is tied to a dispatcher, a driver or a company, and nobody's vehicle
\* is written, without the word of both.
THEOREM ConsentServed == ServiceSpec => []Consent
<1>1. I!TypeOK /\ I!Consent => Consent
  BY DEF Consent
<1>. QED
  BY <1>1, InvitationConstants, InvitationsApart, I!TypeCorrect, I!Agreed, PTL

\* An invitation that no two handlers held at once and none failed on is
\* carried out or closed at most once.
THEOREM AnsweredOnce == ServiceSpec => []InvitationOnce
<1>1. I!InvitationOnce => InvitationOnce
  BY DEF InvitationOnce
<1>. QED
  BY <1>1, InvitationConstants, InvitationsApart, I!Once, PTL

\* Creations of cargo that do not overlap keep to the dispatcher's limit.
THEOREM LimitServed == ServiceSpec => []LimitKept
<1>1. D!TypeOK /\ D!LimitKept => LimitKept
  BY DEF LimitKept
<1>. QED
  BY <1>1, DeskConstants, DeskApart, D!TypeCorrect, D!Limited, PTL

\* An assigned cargo keeps route and payment, unless an edit had passed its
\* look at the status before the assignment.
THEOREM TermsServed == ServiceSpec => []TermsKept
<1>1. D!TermsKept => TermsKept
  BY DEF TermsKept
<1>. QED
  BY <1>1, DeskConstants, DeskApart, D!Settled, PTL

\* An edit that waits for a second connection waits for one that is not
\* waiting itself, until the edits have taken the whole pool.
THEOREM PoolServed == ServiceSpec => []PoolDrains
<1>1. D!PoolDrains => PoolDrains
  BY DEF PoolDrains
<1>. QED
  BY <1>1, DeskConstants, DeskApart, D!Drains, PTL

\* Paging through a conversation misses and repeats nothing, but for messages
\* of the same microsecond.
THEOREM PagesServed == ServiceSpec => []PagesComplete
<1>1. MessagesInv /\ M!PagesComplete => PagesComplete
  BY DEF MessagesInv, PagesComplete
<1>. QED
  BY <1>1, MessagesConstants, MessagesApart, MessagesHold, Complete, PTL
=============================================================================
