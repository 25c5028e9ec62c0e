------------------------------ MODULE RowLocks ------------------------------
(***************************************************************************)
(* The row locks behind the one-step transactions of DispatchMarket and    *)
(* DispatchSearch: which rows each transaction locks, how strongly and in  *)
(* what order, and whether transactions can come to wait on each other.    *)
(*                                                                         *)
(* A lock script is a sequence of stages, each a set of locks taken one by *)
(* one in any order: SELECT ... FOR UPDATE / FOR SHARE of the services,    *)
(* the FOR NO KEY UPDATE of a plain UPDATE and the FOR KEY SHARE a foreign *)
(* key takes on the row it refers to.  A transaction may end after any     *)
(* lock (an early return or a refusal) and keeps all its locks until then. *)
(***************************************************************************)
EXTENDS Naturals, Sequences, FiniteSets

CONSTANTS
  Session,    \* database connections, each running one transaction at a time
  Dispatch,   \* each with its own DeliveryRequest and IntegrationClient
  Fresh,      \* those of them not opened yet: their request is not accepted
  Provider, Driver, Vehicle, User,
  Fleet,      \* the drivers of each provider
  Operation,  \* bound: the kinds of transaction the sessions run
  None

ASSUME FleetAssumption ==
  /\ Fleet \in [Provider -> SUBSET Driver]
  /\ \A p, q \in Provider : p # q => Fleet[p] \cap Fleet[q] = {}
ASSUME FreshAssumption == Fresh \subseteq Dispatch

VARIABLES
  kind,     \* the transaction a session runs, or that failed last
  todo,     \* the stages it has not finished
  held,     \* the locks it holds
  waiting,  \* the lock it is blocked on, or None
  answer    \* "none", "pending", or "failed": aborted by the database

vars == <<kind, todo, held, waiting, answer>>

-----------------------------------------------------------------------------
(* Locks.  The strength is one of the four row lock modes of PostgreSQL; a  *)
(* skipping lock is one taken with SKIP LOCKED.                             *)
Lock(class, id, mode) == [row |-> <<class, id>>, mode |-> mode, skip |-> FALSE]

Update(class, id)      == Lock(class, id, "UPDATE")
NoKeyUpdate(class, id) == Lock(class, id, "NO KEY UPDATE")
Share(class, id)       == Lock(class, id, "SHARE")
KeyShare(class, id)    == Lock(class, id, "KEY SHARE")
Skipping(lock)         == [lock EXCEPT !.skip = TRUE]

Compatible ==
  { <<"KEY SHARE", "KEY SHARE">>, <<"KEY SHARE", "SHARE">>, <<"SHARE", "KEY SHARE">>,
    <<"SHARE", "SHARE">>,
    <<"KEY SHARE", "NO KEY UPDATE">>, <<"NO KEY UPDATE", "KEY SHARE">> }

Conflict(a, b) == a.row = b.row /\ <<a.mode, b.mode>> \notin Compatible

-----------------------------------------------------------------------------
(* The scripts of the dispatch market.  u is the user that acts, referred   *)
(* to by the rows the transaction writes; an account has its owner's id.    *)
ClaimLocks(d, p, u) ==
  << {Update("Dispatch", d)}, {Update("Account", p)}, {KeyShare("User", u)} >>

ProviderReleaseLocks(d, p, u) ==
  << {Update("Dispatch", d)}, {Update("Account", p)}, {KeyShare("User", u)} >>

TakeLocks(d, r, v, u) ==
  << {Update("Dispatch", d)}, {Update("Driver", r)}, {Update("Profile", r)},
     {Update("Vehicle", v)}, {Share("Policy", "policy")}, {KeyShare("User", u)},
     {Update("Account", r)} >>

DriverReleaseLocks(d, r, u) ==
  << {Update("Dispatch", d)}, {KeyShare("User", u)}, {Update("Account", r)} >>

AssignLocks(d, p, r, v, u) ==
  << {Update("Dispatch", d)}, {Share("Provider", p)}, {Update("Driver", r)},
     {Update("Vehicle", v)}, {Share("Policy", "policy")}, {KeyShare("User", u)} >>

CancelWorkLocks(d, u) == << {Update("Dispatch", d)}, {KeyShare("User", u)} >>

(* The outbox event refers to the integration and the request.              *)
CompleteLocks(d, u) ==
  << {Update("Dispatch", d)}, {KeyShare("User", u)}, {KeyShare("Integration", d)},
     {KeyShare("Request", d)} >>

CancelLocks(d, a, u) ==
  << {Update("Request", d)}, {Update("Dispatch", d)}, {KeyShare("User", u)},
     {Update("Account", a)} >>

CancelFreshLocks(d) == << {Update("Request", d)} >>

(* The authorized acceptance; the plain one starts at the request.          *)
AcceptLocks(d) ==
  << {Share("Integration", d)}, {Update("Request", d)}, {Share("Zone", "zone")},
     { KeyShare("Provider", p) : p \in Provider } >>

(* What is accepted already is only found out below the locks.              *)
AcceptAgainLocks(d) ==
  << {Share("Integration", d)}, {Update("Request", d)}, {Share("Zone", "zone")} >>

(* Plausible fault: the worker waits for the dispatch.                      *)
AdvanceWaits(d) ==
  << {Update("Request", d)}, {Update("Dispatch", d)},
     { KeyShare("Provider", p) : p \in Provider } >>

AdvanceLocks(d) ==
  << {Update("Request", d)}, {Skipping(Update("Dispatch", d))},
     { KeyShare("Provider", p) : p \in Provider } >>

-----------------------------------------------------------------------------
(* The scripts of the parties.                                              *)
ApproveLocks(r, u) == << {NoKeyUpdate("Profile", r)}, {KeyShare("User", u)} >>

EnableLocks(r, u) == << {KeyShare("Driver", r)}, {KeyShare("User", u)} >>

WithdrawLocks(r, u) == << {Update("Profile", r)}, {KeyShare("User", u)} >>

RetireOwnVehicleLocks(r, v) == << {Update("Profile", r)}, {Update("Vehicle", v)} >>

(* Suspending a provider takes its drivers offline.                         *)
TransitionLocks(p) ==
  << {Update("Provider", p)}, { NoKeyUpdate("Driver", r) : r \in Fleet[p] } >>

PairLocks(p, r, v) ==
  << {Share("Provider", p)}, {Update("Driver", r)}, {Update("Vehicle", v)},
     {Share("Policy", "policy")} >>

UpdateDriverLocks(r) == << {Update("Driver", r)} >>

UpdateVehicleLocks(v) == << {Update("Vehicle", v)} >>

AvailabilityLocks(p, r) == << {Share("Provider", p)}, {Update("Driver", r)} >>

MoveLocks(a, u) == << {Update("Account", a)}, {KeyShare("User", u)} >>

RotateCredentialLocks(d) == << {Update("Integration", d)} >>

SwitchZoneLocks == << {Update("Zone", "zone")} >>

SetPolicyLocks(u) == << {Update("Policy", "policy")}, {KeyShare("User", u)} >>

CreateDriverLocks(p, u) == << {Update("Provider", p)}, {Update("User", u)} >>

(* Adding a member: the user is locked, and the membership refers to the    *)
(* provider.                                                                *)
AddMemberLocks(p, u) == << {Update("User", u)}, {KeyShare("Provider", p)} >>

(* Inviting an address whose account was never activated.  Only a DRIVER    *)
(* invitation consumes capacity, so only it locks the provider first; any   *)
(* invitation refers to its provider.                                       *)
InviteDriverLocks(p, u) == << {Update("Provider", p)}, {Update("User", u)} >>

InviteAdminLocks(p, u) == << {Update("User", u)}, {KeyShare("Provider", p)} >>

-----------------------------------------------------------------------------
Txs(name, scripts) == { [kind |-> name, script |-> s] : s \in scripts }

Opened == Dispatch \ Fresh   (* a dispatch can be locked once it is committed *)

Tx ==
  UNION {
    Txs("Claim",    { ClaimLocks(d, p, u) : d \in Opened, p \in Provider, u \in User }),
    Txs("ProviderRelease",
        { ProviderReleaseLocks(d, p, u) : d \in Opened, p \in Provider, u \in User }),
    Txs("Take",     { TakeLocks(d, r, v, u) :
                        d \in Opened, r \in Driver, v \in Vehicle, u \in User }),
    Txs("DriverRelease",
        { DriverReleaseLocks(d, r, u) : d \in Opened, r \in Driver, u \in User }),
    Txs("Assign",   UNION { { AssignLocks(d, p, r, v, u) :
                        d \in Opened, r \in Fleet[p], v \in Vehicle, u \in User } :
                        p \in Provider }),
    Txs("CancelWork", { CancelWorkLocks(d, u) : d \in Opened, u \in User }),
    Txs("Complete", { CompleteLocks(d, u) : d \in Opened, u \in User }),
    Txs("Cancel",   { CancelLocks(d, a, u) :
                        d \in Opened, a \in Provider \cup Driver, u \in User }),
    Txs("CancelFresh", { CancelFreshLocks(d) : d \in Fresh }),
    Txs("Accept",   { AcceptLocks(d) : d \in Fresh }
                    \cup { AcceptAgainLocks(d) : d \in Opened }),
    Txs("Advance",  { AdvanceLocks(d) : d \in Opened }),
    Txs("Approve",  { ApproveLocks(r, u) : r \in Driver, u \in User }
                    \cup { EnableLocks(r, u) : r \in Driver, u \in User }),
    Txs("Withdraw", { WithdrawLocks(r, u) : r \in Driver, u \in User }),
    Txs("RetireOwnVehicle",
        { RetireOwnVehicleLocks(r, v) : r \in Driver, v \in Vehicle }),
    Txs("Transition", { TransitionLocks(p) : p \in Provider }),
    Txs("Pair",     UNION { { PairLocks(p, r, v) : r \in Fleet[p], v \in Vehicle } :
                        p \in Provider }),
    Txs("UpdateDriver",  { UpdateDriverLocks(r) : r \in Driver }),
    Txs("UpdateVehicle", { UpdateVehicleLocks(v) : v \in Vehicle }),
    Txs("Availability", UNION { { AvailabilityLocks(p, r) : r \in Fleet[p] } :
                        p \in Provider }),
    Txs("Move",     { MoveLocks(a, u) : a \in Provider \cup Driver, u \in User }),
    Txs("RotateCredential", { RotateCredentialLocks(d) : d \in Dispatch }),
    Txs("SwitchZone", {SwitchZoneLocks}),
    Txs("SetPolicy", { SetPolicyLocks(u) : u \in User }),
    Txs("CreateDriver", { CreateDriverLocks(p, u) : p \in Provider, u \in User }),
    Txs("AddMember",    { AddMemberLocks(p, u) : p \in Provider, u \in User }),
    Txs("InviteDriver", { InviteDriverLocks(p, u) : p \in Provider, u \in User }),
    Txs("InviteAdmin",  { InviteAdminLocks(p, u) : p \in Provider, u \in User }) }

Running == { t \in Tx : t.kind \in Operation }
Kind    == { t.kind : t \in Tx }

-----------------------------------------------------------------------------
(* The locks that occur in the scripts.                                     *)
AnyLock == UNION { UNION { t.script[i] : i \in 1 .. Len(t.script) } : t \in Tx }

TypeOK ==
  /\ kind \in [Session -> Kind \cup {None}]
  /\ todo \in [Session -> Seq(SUBSET AnyLock)]
  /\ held \in [Session -> SUBSET AnyLock]
  /\ waiting \in [Session -> AnyLock \cup {None}]
  /\ answer \in [Session -> {"none", "pending", "failed"}]
  /\ \A s \in Session :
       /\ waiting[s] # None => /\ answer[s] = "pending" /\ todo[s] # <<>>
                               /\ waiting[s] \in Head(todo[s])
       /\ answer[s] # "pending" => held[s] = {} /\ todo[s] = <<>>

Init ==
  /\ kind = [s \in Session |-> None]
  /\ todo = [s \in Session |-> <<>>]
  /\ held = [s \in Session |-> {}]
  /\ waiting = [s \in Session |-> None]
  /\ answer = [s \in Session |-> "none"]

Begin(s, t) ==
  /\ answer[s] # "pending"
  /\ kind' = [kind EXCEPT ![s] = t.kind]
  /\ todo' = [todo EXCEPT ![s] = t.script]
  /\ answer' = [answer EXCEPT ![s] = "pending"]
  /\ UNCHANGED <<held, waiting>>

Free(s, lock) == \A t \in Session \ {s} : \A h \in held[t] : ~Conflict(h, lock)

Obtain(s, lock) ==
  /\ held' = [held EXCEPT ![s] = @ \cup {lock}]
  /\ todo' = [todo EXCEPT ![s] = IF Head(@) = {lock} THEN Tail(@)
                                 ELSE <<Head(@) \ {lock}>> \o Tail(@)]
  /\ UNCHANGED <<kind, answer>>

Acquire(s, lock) ==
  /\ waiting[s] = None /\ Free(s, lock)
  /\ Obtain(s, lock)
  /\ UNCHANGED waiting

Block(s, lock) ==
  /\ waiting[s] = None /\ ~Free(s, lock) /\ ~lock.skip
  /\ waiting' = [waiting EXCEPT ![s] = lock]
  /\ UNCHANGED <<kind, todo, held, answer>>

Wake(s) ==
  /\ waiting[s] # None /\ Free(s, waiting[s])
  /\ Obtain(s, waiting[s])
  /\ waiting' = [waiting EXCEPT ![s] = None]

End(s, how) ==
  /\ answer' = [answer EXCEPT ![s] = how]
  /\ held' = [held EXCEPT ![s] = {}]
  /\ todo' = [todo EXCEPT ![s] = <<>>]
  /\ waiting' = [waiting EXCEPT ![s] = None]
  /\ kind' = [kind EXCEPT ![s] = IF how = "failed" THEN @ ELSE None]

(* Commit, an early return or a refusal: an answer the API documents.       *)
Finish(s) ==
  /\ answer[s] = "pending" /\ waiting[s] = None
  /\ End(s, "none")

WaitsFor(s, t) == waiting[s] # None /\ \E h \in held[t] : s # t /\ Conflict(h, waiting[s])

(* A smallest set of sessions that only wait for one another.               *)
Stuck(S)    == S # {} /\ \A s \in S : \E t \in S : WaitsFor(s, t)
Deadlock(S) == Stuck(S) /\ \A R \in SUBSET S : Stuck(R) => R = S

(* PostgreSQL aborts one session of a deadlock (SQLSTATE 40P01).  Only the  *)
(* authorized acceptance maps that error, to 503; of the others' the        *)
(* exception filter makes a 500.                                            *)
Victim(s) ==
  /\ \E S \in SUBSET Session : s \in S /\ Deadlock(S)
  /\ End(s, "failed")

Next ==
  \E s \in Session :
    \/ \E t \in Running : Begin(s, t)
    \/ todo[s] # <<>> /\ \E lock \in Head(todo[s]) : Acquire(s, lock) \/ Block(s, lock)
    \/ Wake(s) \/ Finish(s) \/ Victim(s)

Spec == Init /\ [][Next]_vars
-----------------------------------------------------------------------------
(* Services, foreign keys and triggers together follow one order            *)
(* (integration, request, zone, dispatch, provider, driver, profile,        *)
(* vehicle, policy, user, account), with two exceptions.  A completion      *)
(* meets a cancellation of its delivery; adding or inviting an              *)
(* administrator reaches the user before the provider, as registering a     *)
(* driver does not.  Every deadlock is one of the two: claims, takes,       *)
(* search rounds and assignments never wait in a circle for one another or  *)
(* for a completion, so cancelling or searching never costs them their      *)
(* answer.                                                                  *)
OnlyKnownDeadlocks ==
  \A S \in SUBSET Session :
    Deadlock(S) => \/ \A s \in S : kind[s] \in {"Complete", "Cancel"}
                   \/ \E s \in S : kind[s] \in {"AddMember", "InviteAdmin"}

(* delivery-completion.ts: a race lost by a completion "must reach the      *)
(* client as a 409, never as a 500".                                        *)
CompletionNeverFails == \A s \in Session : kind[s] = "Complete" => answer[s] # "failed"
-----------------------------------------------------------------------------
(***************************************************************************)
(* What OnlyKnownDeadlocks needs to be inductive.                          *)
(***************************************************************************)

(* Session s runs t and is at stage n: it holds the stages before it and    *)
(* the part of stage n it no longer asks for, and nothing else.             *)
At(s, t, n) ==
  /\ kind[s] = t.kind
  /\ Len(todo[s]) = Len(t.script) + 1 - n
  /\ \A i \in 1 .. Len(todo[s]) :
       /\ todo[s][i] \subseteq t.script[n + i - 1]
       /\ i > 1 => todo[s][i] = t.script[n + i - 1]
  /\ \A i \in 1 .. Len(t.script) :
       /\ i < n => t.script[i] \subseteq held[s]
       /\ i = n => t.script[i] \ Head(todo[s]) \subseteq held[s]
  /\ \A h \in held[s] : \E i \in 1 .. Len(t.script) :
       /\ i <= n /\ h \in t.script[i]
       /\ i = n => h \notin Head(todo[s])

FollowsScript ==
  \A s \in Session : answer[s] = "pending" =>
    \E t \in Tx : \E n \in 1 .. Len(t.script) + 1 : At(s, t, n)

(* Two sessions never hold conflicting locks.                               *)
LocksExclude ==
  \A s, t \in Session : s # t =>
    \A g \in held[s], h \in held[t] : ~Conflict(g, h)

(* A lock taken with SKIP LOCKED is never waited for.                       *)
SkipsDoNotWait == \A s \in Session : waiting[s] # None => ~waiting[s].skip

LockInvariant == TypeOK /\ FollowsScript /\ LocksExclude /\ SkipsDoNotWait
=============================================================================
