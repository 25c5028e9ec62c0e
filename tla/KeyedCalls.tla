----------------------------- MODULE KeyedCalls -----------------------------
(***************************************************************************)
(* Calls that carry an Idempotency-Key.  Three services of the backend run *)
(* them, each in its own way; Service says whose a key is:                 *)
(*                                                                         *)
(*   RECORD   IdempotencyService.execute: looks the key up, inserts the    *)
(*            record first and lets its unique index make a copy wait      *)
(*   LEDGER   CreditAccountsService.move: looks the key up, locks the      *)
(*            account and looks it up again                                *)
(*   COMMAND  VerificationService.command and attempt: locks the key and   *)
(*            then looks it up; a client may also ask for the key's state, *)
(*            or close the key so that it can never take effect            *)
(*                                                                         *)
(* What a call does to the rest of the system is one effect, committed in  *)
(* the transaction that leaves the receipt of its key.  A Purpose is the   *)
(* operation together with what it is about (operation and resourceType,   *)
(* movement type, operation and target); a Body is the rest of what the    *)
(* request hash covers.  Only the commands compare the two apart.          *)
(***************************************************************************)
CONSTANTS
  Call,      \* HTTP requests, each sent once; a retry is another call
  Key, Purpose, Body,
  Service,   \* whose key it is
  Offered,   \* what calls with a key may be for: its service's operations
  Upload,    \* the purposes of the command CREATE_UPLOAD
  None

Request == [key : Key, purpose : Purpose, body : Body \cup {None},
            want : {"RUN", "CLOSE", "ASK"}]

(* The row a key leaves.  A tombstone has a purpose as well, but no body.   *)
Receipt == [state : {"APPLIED", "CLOSED"}, by : Call, purpose : Purpose, body : Body \cup {None}]
Effect  == [key : Key, by : Call, purpose : Purpose, body : Body \cup {None}]

ASSUME KeysAssumption ==
  /\ Service \in [Key -> {"RECORD", "LEDGER", "COMMAND"}]
  /\ "ACCOUNT" \notin Key
  /\ Offered \in [Key -> SUBSET Purpose] /\ Upload \subseteq Purpose
  /\ None \notin Call \cup Body \cup Receipt

VARIABLES
  request,  \* what each call asks
  step,     \* where it is
  seen,     \* the receipt it read last
  receipt,  \* the committed record, ledger entry or command of each key
  effects,  \* what committed calls did
  owner,    \* who holds the account's row, a key's index entry or advisory lock
  answer    \* what each call was told

vars == <<request, step, seen, receipt, effects, owner, answer>>

(* Whoever asks what became of a command, or closes its key, sends its      *)
(* operation and target, but no body.                                       *)
AboutACommand(q) ==
  q.want \in {"ASK", "CLOSE"} /\ q.body = None /\ Service[q.key] = "COMMAND"

(* All ledger keys belong to one account.                                   *)
LockOf(k) == IF Service[k] = "LEDGER" THEN "ACCOUNT" ELSE k
Locks     == Key \cup {"ACCOUNT"}

Applied(r) == r # None /\ r.state = "APPLIED"

Told(kind, what) == [kind |-> kind, what |-> what]

InTransaction == {"check", "write"}

TypeOK ==
  /\ request \in [Call -> Request]
  /\ step \in [Call -> {"idle", "look", "lock", "again", "reply", "done"} \cup InTransaction]
  /\ seen \in [Call -> Receipt \cup {None}]
  /\ receipt \in [Key -> Receipt \cup {None}]
  /\ effects \subseteq Effect
  /\ owner \in [Locks -> Call \cup {None}]
  /\ answer \in [Call -> [kind : {"none", "DONE", "CONFLICT", "CLOSED", "ABSENT",
                                  "REFUSED", "FAILED", "LOST"},
                          what : Receipt \cup {None}]]
  /\ \A c \in Call, l \in Locks :
       owner[l] = c <=> step[c] \in InTransaction /\ l = LockOf(request[c].key)

Init ==
  /\ request \in [Call -> { q \in Request :
                           /\ q.purpose \in Offered[q.key]
                           /\ (q.want = "RUN" /\ q.body # None) \/ AboutACommand(q) }]
  /\ step = [c \in Call |-> "idle"]
  /\ seen = [c \in Call |-> None]
  /\ receipt = [k \in Key |-> None]
  /\ effects = {}
  /\ owner = [l \in Locks |-> None]
  /\ answer = [c \in Call |-> Told("none", None)]

-----------------------------------------------------------------------------
KeyOf(c) == request[c].key

Goto(c, s) == step' = [step EXCEPT ![c] = s]

Release(c) == owner' = [l \in Locks |-> IF owner[l] = c THEN None ELSE owner[l]]

Read(c) == seen' = [seen EXCEPT ![c] = receipt[KeyOf(c)]]

Start(c) ==
  /\ step[c] = "idle"
  /\ Goto(c, IF request[c].want = "CLOSE" THEN "lock"
             ELSE IF request[c].want = "RUN" /\ Service[KeyOf(c)] = "COMMAND" THEN "lock"
             ELSE "look")
  /\ UNCHANGED <<request, seen, receipt, effects, owner, answer>>

(* The lookup outside the transaction.                                      *)
Look(c) ==
  /\ step[c] = "look"
  /\ Read(c)
  /\ Goto(c, IF receipt[KeyOf(c)] = None /\ request[c].want = "RUN" THEN "lock" ELSE "reply")
  /\ UNCHANGED <<request, receipt, effects, owner, answer>>

(* A record of the same key that is not committed yet makes the insertion   *)
(* wait, as a row lock or an advisory lock does.                            *)
Lock(c) ==
  /\ step[c] = "lock"
  /\ owner[LockOf(KeyOf(c))] = None
  /\ owner' = [owner EXCEPT ![LockOf(KeyOf(c))] = c]
  /\ Goto(c, IF Service[KeyOf(c)] = "RECORD" THEN "write" ELSE "check")
  /\ UNCHANGED <<request, seen, receipt, effects, answer>>

(* The lookup under the lock.                                               *)
Check(c) ==
  /\ step[c] = "check"
  /\ Read(c)
  /\ \/ receipt[KeyOf(c)] = None /\ Goto(c, "write") /\ UNCHANGED owner
     \/ receipt[KeyOf(c)] # None /\ Goto(c, "reply") /\ Release(c)
  /\ UNCHANGED <<request, receipt, effects, answer>>

(* What a commit leaves under its key: a receipt, or the tombstone of a     *)
(* key that is closed, with operation and target but without hash.          *)
RowOf(c) ==
  [state |-> IF request[c].want = "RUN" THEN "APPLIED" ELSE "CLOSED",
   by |-> c, purpose |-> request[c].purpose, body |-> request[c].body]

EffectOf(k, r) == [key |-> k, by |-> r.by, purpose |-> r.purpose, body |-> r.body]

(* Plausible fault: no unique index on the key.                             *)
WriteUnindexed(c) ==
  LET r == RowOf(c)
  IN  /\ step[c] = "write"
      /\ receipt' = [receipt EXCEPT ![KeyOf(c)] = r]
      /\ seen' = [seen EXCEPT ![c] = r]
      /\ effects' = effects \cup (IF Applied(r) THEN {EffectOf(KeyOf(c), r)} ELSE {})
      /\ Goto(c, "reply") /\ Release(c)
      /\ UNCHANGED <<request, answer>>

(* The effect and its receipt, or the tombstone, are committed together.    *)
Write(c) ==
  LET r == RowOf(c)
  IN  /\ step[c] = "write" /\ receipt[KeyOf(c)] = None
      /\ receipt' = [receipt EXCEPT ![KeyOf(c)] = r]
      /\ seen' = [seen EXCEPT ![c] = r]
      /\ effects' = effects \cup (IF Applied(r) THEN {EffectOf(KeyOf(c), r)} ELSE {})
      /\ Goto(c, "reply") /\ Release(c)
      /\ UNCHANGED <<request, answer>>

(* The unique index turns the copy of a committed record away (P2002); the  *)
(* winner is looked up outside the transaction.                             *)
Collide(c) ==
  /\ step[c] = "write" /\ receipt[KeyOf(c)] # None /\ Service[KeyOf(c)] # "COMMAND"
  /\ Goto(c, "again") /\ Release(c)
  /\ UNCHANGED <<request, seen, receipt, effects, answer>>

(* The operation itself violates a unique index.  The record is rolled back *)
(* with it, and a copy may commit before the winner is looked up.           *)
CollideElsewhere(c) ==
  /\ step[c] = "write" /\ receipt[KeyOf(c)] = None /\ Service[KeyOf(c)] = "RECORD"
  /\ Goto(c, "again") /\ Release(c)
  /\ UNCHANGED <<request, seen, receipt, effects, answer>>

Again(c) ==
  /\ step[c] = "again"
  /\ Read(c)
  /\ \/ receipt[KeyOf(c)] # None /\ Goto(c, "reply") /\ UNCHANGED answer
     \/ /\ receipt[KeyOf(c)] = None /\ Goto(c, "done")
        /\ answer' = [answer EXCEPT ![c] = Told("FAILED", None)]
  /\ UNCHANGED <<request, receipt, effects, owner>>

(* A rule of the operation says no: everything is rolled back and the key   *)
(* stays free.                                                              *)
Refuse(c) ==
  /\ step[c] = "write" /\ request[c].want = "RUN" /\ receipt[KeyOf(c)] = None
  /\ answer' = [answer EXCEPT ![c] = Told("REFUSED", None)]
  /\ Goto(c, "done") /\ Release(c)
  /\ UNCHANGED <<request, seen, receipt, effects>>

(* Commands and attempts ask, before they look the key up, whether the      *)
(* caller may do this at all, and so may turn away a copy of what was done. *)
Forbid(c) ==
  /\ \/ step[c] = "check" /\ Service[KeyOf(c)] = "COMMAND"
     \/ step[c] = "look" /\ request[c].want = "ASK"
  /\ answer' = [answer EXCEPT ![c] = Told("REFUSED", None)]
  /\ Goto(c, "done") /\ Release(c)
  /\ UNCHANGED <<request, seen, receipt, effects>>

(* A record or an entry replays the request it was made for and no other.   *)
Replay(r, q) ==
  IF r.purpose = q.purpose /\ r.body = q.body THEN Told("DONE", r) ELSE Told("CONFLICT", None)

(* A command compares operation and target before it looks whether the key  *)
(* is closed, and the hash after that; so does whoever asks or closes, but  *)
(* without a hash.                                                          *)
CommandReplay(r, q) ==
  IF r.purpose # q.purpose THEN Told("CONFLICT", None)
  ELSE IF r.state = "CLOSED" THEN Told("CLOSED", None)
  ELSE IF q.want = "RUN" /\ r.body # q.body THEN Told("CONFLICT", None)
  ELSE Told("DONE", r)

(* Plausible fault: the key alone is looked up, and neither the purpose nor *)
(* the hash of the request is compared.                                     *)
VerdictUncompared(c) ==
  IF seen[c] = None THEN Told("ABSENT", None)
  ELSE IF Applied(seen[c]) THEN Told("DONE", seen[c])
  ELSE Told("CLOSED", None)

Verdict(c) ==
  IF seen[c] = None THEN Told("ABSENT", None)
  ELSE IF Service[KeyOf(c)] = "COMMAND" THEN CommandReplay(seen[c], request[c])
  ELSE Replay(seen[c], request[c])

Reply(c) ==
  /\ step[c] = "reply"
  /\ answer' = [answer EXCEPT ![c] = Verdict(c)]
  /\ Goto(c, "done")
  /\ UNCHANGED <<request, seen, receipt, effects, owner>>

UploadsFile(q) == q.want = "RUN" /\ q.purpose \in Upload /\ Service[q.key] = "COMMAND"

(* Once its command is committed or replayed, an upload looks at the        *)
(* dossier again and has a URL signed; either may fail, and its answer is   *)
(* then that of a refusal.                                                  *)
FollowUpFails(c) ==
  /\ step[c] = "reply" /\ UploadsFile(request[c]) /\ Verdict(c).kind = "DONE"
  /\ answer' = [answer EXCEPT ![c] = Told("REFUSED", None)]
  /\ Goto(c, "done")
  /\ UNCHANGED <<request, seen, receipt, effects, owner>>

(* Plausible fault: a lock of the session instead of the transaction.       *)
CrashKeepsLock(c) ==
  /\ step[c] \notin {"idle", "done"}
  /\ answer' = [answer EXCEPT ![c] = Told("LOST", None)]
  /\ Goto(c, "done")
  /\ UNCHANGED <<request, seen, receipt, effects, owner>>

(* The process dies, a connection times out or the answer gets lost.        *)
Crash(c) ==
  /\ step[c] \notin {"idle", "done"}
  /\ answer' = [answer EXCEPT ![c] = Told("LOST", None)]
  /\ Goto(c, "done") /\ Release(c)
  /\ UNCHANGED <<request, seen, receipt, effects>>

Work(c) ==
  \/ Look(c) \/ Lock(c) \/ Check(c) \/ Write(c) \/ Collide(c) \/ CollideElsewhere(c)
  \/ Again(c) \/ Refuse(c) \/ Forbid(c) \/ Reply(c) \/ FollowUpFails(c)

Next == \E c \in Call : Start(c) \/ Work(c) \/ Crash(c)

Spec == Init /\ [][Next]_vars

(* A transaction ends and PostgreSQL wakes who waits for it; nobody has to  *)
(* send a call.                                                             *)
FairSpec == Spec /\ \A c \in Call : WF_vars(Work(c))
-----------------------------------------------------------------------------
(* However many copies of a call race, are retried or lose their answers,   *)
(* its key takes effect once, and the receipt is the one of that effect.    *)
OneEffect ==
  effects = { EffectOf(k, receipt[k]) : k \in { k \in Key : Applied(receipt[k]) } }

(* What a call was told agrees with what is on record.                      *)
Truthful(c) ==
  LET a == answer[c]
      q == request[c]
      r == receipt[KeyOf(c)]
  IN  /\ a.kind = "DONE" => /\ Applied(r) /\ a.what = r /\ r.purpose = q.purpose
                            /\ q.want = "RUN" => r.body = q.body
      /\ a.kind = "CONFLICT" => /\ r # None
                                /\ \/ r.purpose # q.purpose
                                   \/ Applied(r) /\ q.want = "RUN" /\ r.body # q.body
      /\ a.kind = "CLOSED" => /\ r # None /\ ~Applied(r) /\ r.purpose = q.purpose
                              /\ ~(\E e \in effects : e.key = KeyOf(c))
      /\ a.kind = "FAILED" \/ (a.kind = "REFUSED" /\ ~UploadsFile(q)) =>
           ~(\E e \in effects : e.by = c)

(* What a client was told stays true: a call that was DONE shows the one    *)
(* effect of its key, which was for its purpose and, if it ran, the same    *)
(* request; a CONFLICT means that another request used the key, or closed   *)
(* it for another purpose; after CLOSED the key never takes effect, so the  *)
(* client may start over with another; a call that failed did nothing, and  *)
(* neither did one that was refused, unless it was an upload.               *)
AnswersHold == \A c \in Call : Truthful(c)

(* A receipt is never replaced or lost, a tombstone included.               *)
ReceiptsStand ==
  [][ \A k \in Key : receipt[k] # None => receipt'[k] = receipt[k] ]_vars

(* Every call that was sent comes to an end, and since a call is sent once, *)
(* from some time on none is under way: no copy waits for ever for another, *)
(* or for one whose process died.                                           *)
CallsEnd == <>[](\A c \in Call : step[c] \in {"idle", "done"})
=============================================================================
