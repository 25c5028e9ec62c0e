-------------------------- MODULE KeyedCallsProofs --------------------------
(***************************************************************************)
(* What KeyedCalls promises holds for any number of calls, keys and bodies,*)
(* whichever service runs them.                                            *)
(***************************************************************************)
EXTENDS KeyedCalls, TLAPS

USE KeysAssumption

(* What a call is about to answer with is still there; only a call that     *)
(* committed has an effect, and it neither failed nor was refused, unless   *)
(* it is an upload whose answer went wrong afterwards.                      *)
ReadsAreCurrent ==
  \A c \in Call : step[c] = "reply" => seen[c] \in {None, receipt[KeyOf(c)]}

EffectsAreCommitted ==
  \A c \in Call :
    /\ step[c] # "done" => answer[c].kind = "none"
    /\ (\E e \in effects : e.by = c) =>
         /\ step[c] \in {"reply", "done"} /\ answer[c].kind # "FAILED"
         /\ answer[c].kind = "REFUSED" => UploadsFile(request[c])

(* Only commands are asked about or closed.                                 *)
OnlyCommandsClose ==
  /\ \A c \in Call : request[c].want = "RUN" \/ Service[KeyOf(c)] = "COMMAND"
  /\ \A k \in Key : receipt[k] # None /\ ~Applied(receipt[k]) => Service[k] = "COMMAND"

KeyInvariant ==
  /\ TypeOK /\ OneEffect /\ AnswersHold
  /\ ReadsAreCurrent /\ EffectsAreCommitted /\ OnlyCommandsClose

-----------------------------------------------------------------------------
LEMMA InitInvariant == Init => KeyInvariant
<1> SUFFICES ASSUME Init PROVE KeyInvariant
  OBVIOUS
<1>1. TypeOK
  <2>1. request \in [Call -> Request]
    BY DEF Init
  <2>2. QED
    BY <2>1 DEF Init, TypeOK, Told, InTransaction, Locks, LockOf
<1>2. OneEffect /\ OnlyCommandsClose
  BY DEF Init, OneEffect, OnlyCommandsClose, Applied, AboutACommand, KeyOf
<1>3. AnswersHold /\ ReadsAreCurrent /\ EffectsAreCommitted
  BY DEF Init, AnswersHold, Truthful, ReadsAreCurrent, EffectsAreCommitted, Told
<1>4. QED
  BY <1>1, <1>2, <1>3 DEF KeyInvariant

-----------------------------------------------------------------------------
(* A step that keeps receipts and effects, as all do but the commit.        *)
Quiet(c) ==
  \/ Start(c) \/ Look(c) \/ Lock(c) \/ Check(c) \/ Collide(c) \/ CollideElsewhere(c)
  \/ Again(c) \/ Refuse(c) \/ Forbid(c) \/ Reply(c) \/ FollowUpFails(c) \/ Crash(c)

LEMMA Steps == Next => \E c \in Call : Quiet(c) \/ Write(c)
BY DEF Next, Work, Quiet

LEMMA VerdictType ==
  ASSUME TypeOK, NEW c \in Call
  PROVE  Verdict(c) \in [kind : {"DONE", "CONFLICT", "CLOSED", "ABSENT"}, what : Receipt \cup {None}]
BY DEF TypeOK, Verdict, Replay, CommandReplay, Told

(* The columns keep their types, whatever a call does.                      *)
LEMMA StepColumns ==
  ASSUME TypeOK, NEW c \in Call, Quiet(c) \/ Write(c)
  PROVE  /\ request' \in [Call -> Request]
         /\ step' \in [Call -> {"idle", "look", "lock", "again", "reply", "done"} \cup InTransaction]
         /\ seen' \in [Call -> Receipt \cup {None}]
         /\ receipt' \in [Key -> Receipt \cup {None}]
         /\ effects' \subseteq Effect
         /\ answer' \in [Call -> [kind : {"none", "DONE", "CONFLICT", "CLOSED", "ABSENT",
                                          "REFUSED", "FAILED", "LOST"},
                                  what : Receipt \cup {None}]]
<1> USE DEF TypeOK
<1>0. request[c] \in Request /\ KeyOf(c) \in Key /\ receipt[KeyOf(c)] \in Receipt \cup {None}
  BY DEF KeyOf, Request
<1>1. CASE Start(c)
  BY <1>1 DEF Start, Goto, InTransaction
<1>2. CASE Look(c)
  BY <1>0, <1>2 DEF Look, Goto, Read, InTransaction
<1>3. CASE Lock(c)
  BY <1>3 DEF Lock, Goto, InTransaction
<1>4. CASE Check(c)
  BY <1>0, <1>4 DEF Check, Goto, Read, InTransaction
<1>5. CASE Collide(c) \/ CollideElsewhere(c)
  BY <1>5 DEF Collide, CollideElsewhere, Goto, InTransaction
<1>6. CASE Again(c)
  <2>1. seen' = [seen EXCEPT ![c] = receipt[KeyOf(c)]] /\ UNCHANGED <<request, receipt, effects>>
    BY <1>6 DEF Again, Read
  <2>2. step' \in [Call -> {"idle", "look", "lock", "again", "reply", "done"} \cup InTransaction]
    BY <1>6 DEF Again, Goto, InTransaction
  <2>3. answer' \in [Call -> [kind : {"none", "DONE", "CONFLICT", "CLOSED", "ABSENT",
                                     "REFUSED", "FAILED", "LOST"},
                             what : Receipt \cup {None}]]
    <3>1. Told("FAILED", None) \in [kind : {"FAILED"}, what : Receipt \cup {None}]
      BY DEF Told
    <3>2. QED
      BY <1>6, <3>1 DEF Again
  <2>4. QED
    BY <1>0, <2>1, <2>2, <2>3
<1>7. CASE Refuse(c) \/ Forbid(c) \/ FollowUpFails(c) \/ Crash(c)
  <2>1. /\ step' = [step EXCEPT ![c] = "done"] /\ UNCHANGED <<request, seen, receipt, effects>>
        /\ \E kind \in {"REFUSED", "LOST"} : answer' = [answer EXCEPT ![c] = Told(kind, None)]
    BY <1>7 DEF Refuse, Forbid, FollowUpFails, Crash, Goto
  <2>2. QED
    BY <2>1 DEF InTransaction, Told
<1>8. CASE Reply(c)
  BY <1>8, VerdictType DEF Reply, Goto, InTransaction
<1>9. CASE Write(c)
  <2>1. RowOf(c) \in Receipt /\ EffectOf(KeyOf(c), RowOf(c)) \in Effect
    BY <1>0 DEF RowOf, EffectOf, Receipt, Effect, Request
  <2>2. /\ request' = request /\ answer' = answer /\ step' = [step EXCEPT ![c] = "reply"]
        /\ receipt' = [receipt EXCEPT ![KeyOf(c)] = RowOf(c)]
        /\ seen' = [seen EXCEPT ![c] = RowOf(c)]
        /\ effects' \subseteq effects \cup {EffectOf(KeyOf(c), RowOf(c))}
    BY <1>9 DEF Write, Goto
  <2>3. receipt' \in [Key -> Receipt \cup {None}] /\ seen' \in [Call -> Receipt \cup {None}]
    BY <1>0, <2>1, <2>2
  <2>4. effects' \subseteq Effect /\ request' \in [Call -> Request]
    BY <2>1, <2>2
  <2>5. QED
    BY <2>2, <2>3, <2>4 DEF InTransaction
<1>10. QED
  BY <1>1, <1>2, <1>3, <1>4, <1>5, <1>6, <1>7, <1>8, <1>9 DEF Quiet

(* A lock is held by exactly the calls that are inside their transaction.   *)
LEMMA StepLocks ==
  ASSUME TypeOK, NEW c \in Call, Quiet(c) \/ Write(c)
  PROVE  /\ owner' \in [Locks -> Call \cup {None}]
         /\ \A b \in Call, l \in Locks :
              (owner[l] = b <=> step[b] \in InTransaction /\ l = LockOf(request[b].key))'
<1> USE DEF TypeOK, InTransaction
<1>0. KeyOf(c) \in Key /\ LockOf(KeyOf(c)) \in Locks /\ request' = request
  BY DEF KeyOf, Request, LockOf, Locks, Quiet, Start, Look, Lock, Check, Write, Collide,
         CollideElsewhere, Again, Refuse, Forbid, Reply, FollowUpFails, Crash
<1>1. CASE Lock(c)
  BY <1>0, <1>1 DEF Lock, Goto, KeyOf
<1>2. CASE Release(c) /\ \E s \in {"reply", "again", "done"} : Goto(c, s)
  BY <1>0, <1>2 DEF Release, Goto
<1>3. CASE /\ UNCHANGED owner
           /\ \E s \in {"look", "lock", "reply", "done"} : Goto(c, s)
           /\ step[c] \notin InTransaction
  BY <1>0, <1>3 DEF Goto
<1>4. CASE UNCHANGED owner /\ step[c] = "check" /\ Goto(c, "write")
  BY <1>0, <1>4 DEF Goto
<1>5. Lock(c) \/ (Release(c) /\ \E s \in {"reply", "again", "done"} : Goto(c, s))
        \/ (/\ UNCHANGED owner
            /\ \E s \in {"look", "lock", "reply", "done"} : Goto(c, s)
            /\ step[c] \notin InTransaction)
        \/ (UNCHANGED owner /\ step[c] = "check" /\ Goto(c, "write"))
  <2>1. CASE Start(c)
    BY <2>1 DEF Start
  <2>2. CASE Look(c)
    BY <2>2 DEF Look
  <2>3. CASE Check(c)
    BY <2>3 DEF Check
  <2>4. CASE Collide(c) \/ CollideElsewhere(c) \/ Refuse(c) \/ Forbid(c) \/ Crash(c) \/ Write(c)
    BY <2>4 DEF Collide, CollideElsewhere, Refuse, Forbid, Crash, Write
  <2>5. CASE Again(c) \/ Reply(c) \/ FollowUpFails(c)
    BY <2>5 DEF Again, Reply, FollowUpFails
  <2>6. QED
    BY <2>1, <2>2, <2>3, <2>4, <2>5 DEF Quiet
<1>6. QED
  BY <1>1, <1>2, <1>3, <1>4, <1>5

-----------------------------------------------------------------------------
(* A verdict on the current receipt of a call's key is true.                *)
LEMMA VerdictTrue ==
  ASSUME KeyInvariant, NEW c \in Call, seen[c] \in {None, receipt[KeyOf(c)]}
  PROVE  LET a == Verdict(c)
             q == request[c]
             r == receipt[KeyOf(c)]
         IN  /\ a.kind = "DONE" => /\ Applied(r) /\ a.what = r /\ r.purpose = q.purpose
                                   /\ q.want = "RUN" => r.body = q.body
             /\ a.kind = "CONFLICT" => /\ r # None
                                       /\ \/ r.purpose # q.purpose
                                          \/ Applied(r) /\ q.want = "RUN" /\ r.body # q.body
             /\ a.kind = "CLOSED" => r # None /\ ~Applied(r) /\ r.purpose = q.purpose
<1> DEFINE q == request[c]
           r == receipt[KeyOf(c)]
<1>1. r \in Receipt \cup {None} /\ q \in Request /\ KeyOf(c) \in Key
  BY DEF KeyInvariant, TypeOK, KeyOf, Request
<1>2. CASE seen[c] = None
  BY <1>2 DEF Verdict, Told
<1>3. CASE seen[c] = r /\ r # None
  <2>1. r.state \in {"APPLIED", "CLOSED"} /\ (Applied(r) <=> r.state = "APPLIED")
    BY <1>1, <1>3 DEF Receipt, Applied
  <2>2. CASE Service[KeyOf(c)] = "COMMAND"
    <3>1. Verdict(c) = CommandReplay(r, q)
      BY <1>3, <2>2 DEF Verdict
    <3> HIDE DEF q, r
    <3>2. QED
      BY <1>3, <2>1, <3>1 DEF CommandReplay, Told, q, r
  <2>3. CASE Service[KeyOf(c)] # "COMMAND"
    <3>1. Verdict(c) = Replay(r, q)
      BY <1>3, <2>3 DEF Verdict
    <3>2. Applied(r)
      BY <1>1, <1>3, <2>3 DEF KeyInvariant, OnlyCommandsClose
    <3>3. q.want = "RUN"
      BY <2>3 DEF KeyInvariant, OnlyCommandsClose
    <3>4. QED
      BY <1>3, <3>1, <3>2, <3>3 DEF Replay, Told
  <2>4. QED
    BY <2>2, <2>3
<1>4. QED
  BY <1>2, <1>3

(* Without a commit, the only things that move are the call's own.          *)
LEMMA QuietSteps ==
  ASSUME KeyInvariant, NEW c \in Call, Quiet(c)
  PROVE  OneEffect' /\ AnswersHold' /\ ReadsAreCurrent' /\ EffectsAreCommitted'
           /\ OnlyCommandsClose'
<1> USE DEF KeyInvariant, TypeOK
<1>1. /\ UNCHANGED <<request, receipt, effects>>
      /\ \A b \in Call \ {c} : UNCHANGED <<step[b], seen[b], answer[b]>>
      /\ step[c] # "done"
  BY DEF Quiet, Start, Look, Lock, Check, Collide, CollideElsewhere, Again, Refuse, Forbid, Reply,
         FollowUpFails, Crash, Goto, Read
<1>2. /\ step'[c] = "reply" => seen'[c] = receipt[KeyOf(c)] /\ step[c] # "reply"
      /\ step'[c] # "done" => answer'[c] = answer[c] /\ step[c] # "reply"
      /\ step'[c] = "done" =>
           \/ answer'[c].kind = "LOST"
           \/ answer'[c].kind \in {"REFUSED", "FAILED"} /\ step[c] \in {"look", "check", "write", "again"}
           \/ answer'[c] = Verdict(c) /\ step[c] = "reply"
           \/ answer'[c].kind = "REFUSED" /\ UploadsFile(request[c])
  BY DEF Quiet, Start, Look, Lock, Check, Collide, CollideElsewhere, Again, Refuse, Forbid, Reply,
         FollowUpFails, Crash, Goto, Read, Told
<1>3. OneEffect' /\ OnlyCommandsClose'
  BY <1>1 DEF OneEffect, OnlyCommandsClose, KeyOf
<1>4. ReadsAreCurrent'
  BY <1>1, <1>2 DEF ReadsAreCurrent, KeyOf
<1>5. Verdict(c).kind \in {"DONE", "CONFLICT", "CLOSED", "ABSENT"}
  BY VerdictType
<1>6. EffectsAreCommitted'
  BY <1>1, <1>2, <1>5 DEF EffectsAreCommitted
<1>7. AnswersHold'
  <2>1. ASSUME NEW b \in Call \ {c} PROVE Truthful(b)'
    BY <1>1, <2>1 DEF AnswersHold, Truthful, KeyOf
  <2>2. step'[c] # "done" => answer'[c].kind = "none"
    BY <1>1, <1>2 DEF EffectsAreCommitted
  <2>3. KeyOf(c)' = KeyOf(c)
    BY <1>1 DEF KeyOf
  <2>4. ASSUME answer'[c].kind \in {"none", "LOST"}
        PROVE  Truthful(c)'
    BY <2>4 DEF Truthful
  <2>5. ASSUME answer'[c].kind = "REFUSED" /\ UploadsFile(request[c])
        PROVE  Truthful(c)'
    BY <1>1, <2>5 DEF Truthful
  <2>6. ASSUME answer'[c].kind \in {"REFUSED", "FAILED"} /\ step[c] \in {"look", "check", "write", "again"}
        PROVE  Truthful(c)'
    <3>1. ~(\E e \in effects : e.by = c)
      BY <2>6 DEF EffectsAreCommitted
    <3>2. QED
      BY <1>1, <2>6, <3>1 DEF Truthful
  <2>7. ASSUME answer'[c] = Verdict(c) /\ step[c] = "reply"
        PROVE  Truthful(c)'
    <3>1. seen[c] \in {None, receipt[KeyOf(c)]}
      BY <2>7 DEF ReadsAreCurrent
    <3>2. ~Applied(receipt[KeyOf(c)]) => ~(\E e \in effects : e.key = KeyOf(c))
      BY DEF OneEffect, EffectOf
    <3> HIDE DEF TypeOK, KeyInvariant
    <3>3. QED
      BY KeyInvariant, <1>1, <1>5, <2>3, <2>7, <3>1, <3>2, VerdictTrue DEF Truthful
  <2>8. Truthful(c)'
    BY <1>2, <2>2, <2>4, <2>5, <2>6, <2>7
  <2>9. QED
    BY <2>1, <2>8 DEF AnswersHold
<1>8. QED
  BY <1>3, <1>4, <1>6, <1>7

(* A commit finds its key free, so nobody was told anything that it could   *)
(* make untrue.                                                             *)
LEMMA WriteStep ==
  ASSUME KeyInvariant, NEW c \in Call, Write(c)
  PROVE  OneEffect' /\ AnswersHold' /\ ReadsAreCurrent' /\ EffectsAreCommitted'
           /\ OnlyCommandsClose'
<1> DEFINE k == KeyOf(c)
           r == RowOf(c)
           f == EffectOf(k, r)
<1> USE DEF KeyInvariant, TypeOK
<1>0. k \in Key /\ r \in Receipt /\ r # None /\ r.by = c
  BY DEF KeyOf, Request, Receipt, RowOf
<1>1. /\ step[c] = "write" /\ receipt[k] = None
      /\ UNCHANGED <<request, answer>>
      /\ step' = [step EXCEPT ![c] = "reply"]
      /\ receipt' = [receipt EXCEPT ![k] = r]
      /\ seen' = [seen EXCEPT ![c] = r]
      /\ effects' = effects \cup (IF Applied(r) THEN {f} ELSE {})
  BY DEF Write, Goto
<1>2. f.key = k /\ f.by = c
  BY <1>0 DEF EffectOf
<1>3. \A j \in Key \ {k} : receipt'[j] = receipt[j]
  BY <1>1
<1>4. \A e \in effects' : e \in effects \/ (e.key = k /\ e.by = c)
  BY <1>1, <1>2
<1> HIDE DEF r, f, k
<1>5. OneEffect'
  <2>1. receipt'[k] = r /\ ~Applied(receipt[k])
    BY <1>0, <1>1 DEF Applied
  <2>2. \A j \in Key : j # k => (Applied(receipt'[j]) <=> Applied(receipt[j]))
    BY <1>3
  <2>3. \A j \in Key : j # k => EffectOf(j, receipt'[j]) = EffectOf(j, receipt[j])
    BY <1>3
  <2>4. f = EffectOf(k, receipt'[k])
    BY <2>1 DEF f
  <2>5. ASSUME NEW e
        PROVE  e \in effects' <=> \E j \in Key : Applied(receipt'[j]) /\ e = EffectOf(j, receipt'[j])
    <3>1. e \in effects' <=> e \in effects \/ (Applied(r) /\ e = f)
      BY <1>1
    <3>2. e \in effects <=> \E j \in Key : Applied(receipt[j]) /\ e = EffectOf(j, receipt[j])
      BY DEF OneEffect
    <3> HIDE DEF TypeOK, KeyInvariant
    <3>3. QED
      BY <1>0, <2>1, <2>2, <2>3, <2>4, <3>1, <3>2
  <2>6. effects' = { EffectOf(j, receipt'[j]) : j \in { j \in Key : Applied(receipt'[j]) } }
    BY <2>5
  <2>7. QED
    BY <2>6 DEF OneEffect
<1>6. ReadsAreCurrent'
  <2>1. seen'[c] = receipt'[k] /\ KeyOf(c)' = k
    BY <1>0, <1>1 DEF KeyOf, k
  <2>2. ASSUME NEW b \in Call \ {c}, step'[b] = "reply"
        PROVE  seen'[b] \in {None, receipt'[KeyOf(b)]}
    <3>1. step[b] = "reply" /\ seen'[b] = seen[b] /\ KeyOf(b) \in Key
      BY <1>1, <2>2 DEF KeyOf, Request
    <3>2. seen[b] \in {None, receipt[KeyOf(b)]}
      BY <3>1 DEF ReadsAreCurrent
    <3>3. QED
      BY <1>1, <1>3, <3>1, <3>2
  <2>3. \A b \in Call : KeyOf(b)' = KeyOf(b)
    BY <1>1 DEF KeyOf
  <2>4. QED
    BY <2>1, <2>2, <2>3 DEF ReadsAreCurrent
<1>7. EffectsAreCommitted'
  <2>1. answer[c].kind = "none" /\ step'[c] = "reply" /\ answer' = answer /\ request' = request
    BY <1>1 DEF EffectsAreCommitted
  <2>2. \A b \in Call \ {c} : step'[b] = step[b]
    BY <1>1
  <2>3. QED
    BY <1>4, <2>1, <2>2 DEF EffectsAreCommitted
<1>8. AnswersHold'
  <2>1. ASSUME NEW b \in Call PROVE Truthful(b)'
    <3>1. /\ KeyOf(b) \in Key /\ KeyOf(b)' = KeyOf(b)
          /\ answer'[b] = answer[b] /\ request'[b] = request[b]
      BY <1>1, <2>1 DEF KeyOf, Request
    <3>2. Truthful(b)
      BY <2>1 DEF AnswersHold
    <3>3. answer[b].kind \in {"DONE", "CONFLICT", "CLOSED"} => KeyOf(b) # k
      BY <1>1, <3>2 DEF Truthful, Applied
    <3>4. answer[b].kind \in {"REFUSED", "FAILED"} => b # c
      BY <1>1 DEF EffectsAreCommitted
    <3>5. KeyOf(b) # k => receipt'[KeyOf(b)] = receipt[KeyOf(b)]
      BY <1>3, <3>1
    <3> HIDE DEF TypeOK, KeyInvariant
    <3>6. QED
      BY <1>4, <3>1, <3>2, <3>3, <3>4, <3>5 DEF Truthful
  <2>2. QED
    BY <2>1 DEF AnswersHold
<1>9. OnlyCommandsClose'
  <2>1. Applied(r) \/ Service[k] = "COMMAND"
    <3>1. request[c].want = "RUN" \/ Service[k] = "COMMAND"
      BY DEF OnlyCommandsClose, k
    <3>2. request[c].want = "RUN" => r.state = "APPLIED"
      BY DEF RowOf, r
    <3>3. QED
      BY <1>0, <3>1, <3>2 DEF Applied
  <2>2. ASSUME NEW j \in Key, receipt'[j] # None, ~Applied(receipt'[j])
        PROVE  Service[j] = "COMMAND"
    BY <1>0, <1>1, <1>3, <2>1, <2>2 DEF OnlyCommandsClose
  <2>3. QED
    BY <1>1, <2>2 DEF OnlyCommandsClose, KeyOf
<1>10. QED
  BY <1>5, <1>6, <1>7, <1>8, <1>9

LEMMA StepInvariant == KeyInvariant /\ [Next]_vars => KeyInvariant'
<1> SUFFICES ASSUME KeyInvariant, [Next]_vars PROVE KeyInvariant'
  OBVIOUS
<1>1. CASE UNCHANGED vars
  BY <1>1 DEF vars, KeyInvariant, TypeOK, OneEffect, AnswersHold, Truthful, ReadsAreCurrent,
              EffectsAreCommitted, OnlyCommandsClose, KeyOf
<1>2. CASE Next
  <2>1. PICK c \in Call : Quiet(c) \/ Write(c)
    BY <1>2, Steps
  <2>2. TypeOK'
    BY <2>1, StepColumns, StepLocks DEF KeyInvariant, TypeOK
  <2>3. QED
    BY <2>1, <2>2, QuietSteps, WriteStep DEF KeyInvariant
<1>3. QED
  BY <1>1, <1>2

(* Every reachable state satisfies the invariant.                           *)
THEOREM KeysCorrect == Spec => []KeyInvariant
<1>1. QED
  BY InitInvariant, StepInvariant, PTL DEF Spec

(* Locks are held exactly by the calls inside their transaction, and all    *)
(* columns are well typed.                                                  *)
THEOREM KeyTypesCorrect == Spec => []TypeOK
<1>1. KeyInvariant => TypeOK
  BY DEF KeyInvariant
<1>2. QED
  BY <1>1, KeysCorrect, PTL

(* However many copies of a call there are, a key takes effect once.        *)
THEOREM OneEffectPerKey == Spec => []OneEffect
<1>1. KeyInvariant => OneEffect
  BY DEF KeyInvariant
<1>2. QED
  BY <1>1, KeysCorrect, PTL

(* What a client was told about its key is true and stays true.             *)
THEOREM AnswersStayTrue == Spec => []AnswersHold
<1>1. KeyInvariant => AnswersHold
  BY DEF KeyInvariant
<1>2. QED
  BY <1>1, KeysCorrect, PTL

(* No receipt is replaced or lost, a tombstone included.                    *)
THEOREM ReceiptsArePermanent == Spec => ReceiptsStand
<1>1. KeyInvariant /\ [Next]_vars =>
        [\A k \in Key : receipt[k] # None => receipt'[k] = receipt[k]]_vars
  <2> SUFFICES ASSUME KeyInvariant, Next
               PROVE  \A k \in Key : receipt[k] # None => receipt'[k] = receipt[k]
    OBVIOUS
  <2>1. PICK c \in Call : Quiet(c) \/ Write(c)
    BY Steps
  <2>2. CASE Quiet(c)
    BY <2>2 DEF Quiet, Start, Look, Lock, Check, Collide, CollideElsewhere, Again, Refuse, Forbid, Reply,
                FollowUpFails, Crash
  <2>3. CASE Write(c)
    BY <2>3 DEF Write, KeyInvariant, TypeOK
  <2>4. QED
    BY <2>1, <2>2, <2>3
<1>2. QED
  BY <1>1, KeysCorrect, PTL DEF Spec, ReceiptsStand
=============================================================================
