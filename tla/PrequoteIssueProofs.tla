------------------------- MODULE PrequoteIssueProofs -------------------------
(***************************************************************************)
(* The safety properties of PrequoteIssue, for any number of calls, keys,  *)
(* plans and attempts, any limits and any times the assumption allows.     *)
(*                                                                         *)
(* The invariant has three arguments in it.  Leases: no two calls hold the *)
(* same version of an execution.  Time: from the check of its budget to    *)
(* the end of its routing a call is covered by its lease.  Slots: whatever *)
(* counts against a limit was counted when it was admitted.                *)
(***************************************************************************)
EXTENDS PrequoteIssue, FiniteSetTheorems, TLAPS

USE IssueAssumption

Holding == {"configure", "start", "budget", "ready", "routing", "publish", "commit", "fail"}

Paying == {"budget", "ready", "routing", "publish", "commit"}

(* A lease is a version of the key's execution that nobody else has.        *)
LeasesDiffer ==
  /\ \A c \in Call : /\ lease[c] <= execution[key[c]].version
                     /\ step[c] \in Holding => lease[c] > 0
  /\ \A c, d \in Call :
       key[c] = key[d] /\ lease[c] = lease[d] /\ lease[c] > 0 => c = d

(* While a call publishes nobody takes its lease or changes its plan.       *)
CommitsHold ==
  \A c \in Call : step[c] = "commit" =>
    /\ execution[key[c]].state = "PROCESSING"
    /\ execution[key[c]].version = lease[c]
    /\ priced[c] = plan

(* A prequote exists exactly when its execution succeeded.                  *)
IssuedIsSucceeded ==
  \A k \in Key : prequote[k] # None <=> execution[k].state = "SUCCEEDED"

(* What was answered is on record.                                          *)
AnswersAreRecorded ==
  \A c \in Call :
    /\ answer[c] = "DONE" => execution[key[c]].state = "SUCCEEDED"
    /\ answer[c] = "FAILED" => execution[key[c]].state = "FAILED"

(* Permits are not from the future, and are started before routing.         *)
PermitsArePaid ==
  \A c \in Call : /\ permit[c].since <= now
                  /\ step[c] \in Paying => Started(permit[c])

(* The budget that was checked is still covered by the lease.               *)
BudgetIsCovered ==
  \A c \in Call :
    step[c] \in {"ready", "routing"} /\ now < permit[c].since + Budget =>
      /\ execution[key[c]].state = "PROCESSING"
      /\ execution[key[c]].version = lease[c]
      /\ permit[c].since + Budget <= execution[key[c]].until

RoutingEnds ==
  \A c \in Call : step[c] = "routing" => now < permit[c].since + StartBy + RouteTime

(* No more permits count than the limits allow.                             *)
SlotsAreLimited ==
  /\ Cardinality(Counted(ProtectTime)) <= Concurrent
  /\ Cardinality(Counted(Window)) <= PerWindow

IssueInvariant ==
  /\ TypeOK
  /\ LeasesDiffer
  /\ CommitsHold
  /\ IssuedIsSucceeded
  /\ AnswersAreRecorded
  /\ PermitsArePaid
  /\ BudgetIsCovered
  /\ RoutingEnds
  /\ SlotsAreLimited

-----------------------------------------------------------------------------
(* The variables keep their types.                                          *)
LEMMA TypesStay == TypeOK /\ [Next]_vars => TypeOK'
<1> SUFFICES ASSUME TypeOK, [Next]_vars PROVE TypeOK'
  OBVIOUS
<1> USE DEF TypeOK, Exec, Go, Goto, Tell
<1>a. \A e \in Execution : Known(e) \in {"DONE", "FAILED", "LATER", "AVAILABLE", "EXHAUSTED"}
  BY DEF Known
<1>b. \A p \in Permit : Closed(p) \in Permit
  BY DEF Permit, Closed
<1>1. ASSUME NEW c \in Call, Inspect(c) PROVE TypeOK'
  BY <1>1, <1>a DEF Inspect
<1>2. ASSUME NEW c \in Call, Admit(c) PROVE TypeOK'
  <2>1. [state |-> "RESERVED", since |-> now] \in Permit
    BY DEF Permit
  <2>2. permit' \in [Call -> Permit]
    BY <1>2, <1>b, <2>1 DEF Admit
  <2> QED
    BY <1>2, <2>2 DEF Admit
<1>3. ASSUME NEW c \in Call, Reserve(c) PROVE TypeOK'
  <2> DEFINE e == execution[key[c]]
  <2>1. e \in Execution
    OBVIOUS
  <2>2. CASE Known(e) = "AVAILABLE"
    <3>1. e.attempts + 1 \in 0..MaxAttempts
      BY <2>1, <2>2 DEF Known, Execution
    <3>2. [state |-> "PROCESSING", version |-> e.version + 1, attempts |-> e.attempts + 1,
           until |-> now + LeaseTime] \in Execution /\ e.version + 1 \in Nat
      BY <2>1, <3>1 DEF Execution
    <3> QED
      BY <1>3, <2>2, <3>2 DEF Reserve
  <2>3. CASE Known(e) = "EXHAUSTED"
    <3>1. [state |-> "FAILED", version |-> e.version, attempts |-> e.attempts,
           until |-> e.until] \in Execution
      BY <2>1 DEF Execution
    <3> QED
      BY <1>3, <2>3, <3>1 DEF Reserve
  <2>4. CASE Known(e) \in {"DONE", "FAILED", "LATER"}
    BY <1>3, <2>4 DEF Reserve
  <2> QED
    BY <1>a, <2>1, <2>2, <2>3, <2>4
<1>4. ASSUME NEW c \in Call, Throw(c) PROVE TypeOK'
  BY <1>4 DEF Throw
<1>5. ASSUME NEW c \in Call, Configure(c) PROVE TypeOK'
  BY <1>5 DEF Configure
<1>6. ASSUME NEW c \in Call, StartPermit(c) PROVE TypeOK'
  <2>1. [state |-> "STARTED", since |-> now] \in Permit
    BY DEF Permit
  <2> QED
    BY <1>6, <2>1 DEF StartPermit
<1>7. ASSUME NEW c \in Call, RequireBudget(c) PROVE TypeOK'
  BY <1>7 DEF RequireBudget
<1>8. ASSUME NEW c \in Call, StartRouting(c) PROVE TypeOK'
  BY <1>8 DEF StartRouting
<1>9. ASSUME NEW c \in Call, Route(c) PROVE TypeOK'
  BY <1>9 DEF Route
<1>10. ASSUME NEW c \in Call, Publish(c) PROVE TypeOK'
  BY <1>10 DEF Publish
<1>11. ASSUME NEW c \in Call, Commit(c) PROVE TypeOK'
  <2>1. [state |-> "SUCCEEDED", version |-> lease[c], attempts |-> execution[key[c]].attempts,
         until |-> execution[key[c]].until] \in Execution
    BY DEF Execution
  <2> QED
    BY <1>11, <2>1 DEF Commit
<1>12. ASSUME NEW c \in Call, NEW b \in BOOLEAN, Fail(c, b) PROVE TypeOK'
  <2>1. \A s \in {"RETRYABLE_FAILED", "FAILED"} :
          [state |-> s, version |-> lease[c], attempts |-> execution[key[c]].attempts,
           until |-> execution[key[c]].until] \in Execution
    BY DEF Execution
  <2> QED
    BY <1>12, <2>1 DEF Fail
<1>13. ASSUME NEW c \in Call, Verify(c) PROVE TypeOK'
  BY <1>13, <1>a DEF Verify
<1>14. ASSUME NEW c \in Call, Finish(c) PROVE TypeOK'
  BY <1>14, <1>b DEF Finish
<1>15. ASSUME NEW c \in Call, Crash(c) PROVE TypeOK'
  BY <1>15 DEF Crash
<1>16. ASSUME NEW p \in Plan, ChangePlan(p) PROVE TypeOK'
  BY <1>16 DEF ChangePlan, memory
<1>17. CASE Tick
  BY <1>17 DEF Tick, memory
<1>18. CASE UNCHANGED vars
  BY <1>18 DEF vars
<1> QED
  BY <1>1, <1>2, <1>3, <1>4, <1>5, <1>6, <1>7, <1>8, <1>9, <1>10, <1>11, <1>12, <1>13,
     <1>14, <1>15, <1>16, <1>17, <1>18, Zenon DEF Next, Work

(* What a call does to others: nothing but to the record of its key.        *)
Others(x) ==
  /\ \A c \in Call \ {x} : /\ step'[c] = step[c] /\ lease'[c] = lease[c]
                           /\ answer'[c] = answer[c] /\ priced'[c] = priced[c]
  /\ \A k \in Key \ {key[x]} : execution'[k] = execution[k]
  /\ now' = now /\ plan' = plan /\ key' = key /\ permit' = permit

Drops(x) == lease'[x] = 0 /\ step'[x] \in {"finish", "verify"}

(* reserve() takes the lease, or records that there are no attempts left,   *)
(* or finds what is on record.                                              *)
LEMMA ReserveEffect ==
  ASSUME TypeOK, NEW x \in Call, Reserve(x)
  PROVE  /\ Others(x) /\ prequote' = prequote /\ ~Locked(key[x])
         /\ LET e == execution[key[x]]
                f == execution'[key[x]]
            IN  \/ /\ e.state \notin {"SUCCEEDED", "FAILED"} /\ ~Live(e)
                   /\ f.state = "PROCESSING" /\ f.version = e.version + 1
                   /\ lease'[x] = e.version + 1 /\ step'[x] = "configure"
                   /\ answer'[x] = answer[x]
                \/ /\ e.state \notin {"SUCCEEDED", "FAILED"} /\ ~Live(e)
                   /\ f.state = "FAILED" /\ f.version = e.version
                   /\ Drops(x) /\ answer'[x] = "FAILED"
                \/ /\ f = e /\ Drops(x)
                   /\ answer'[x] = "DONE" => e.state = "SUCCEEDED"
                   /\ answer'[x] = "FAILED" => e.state = "FAILED"
<1> USE DEF TypeOK, Exec, Goto, Tell
<1>1. Others(x) /\ prequote' = prequote /\ ~Locked(key[x])
  BY DEF Reserve, Others
<1> DEFINE e == execution[key[x]]
<1>2. e \in Execution
  OBVIOUS
<1>3. CASE Known(e) = "AVAILABLE"
  <2>1. e.state \notin {"SUCCEEDED", "FAILED"} /\ ~Live(e)
    BY <1>2, <1>3 DEF Known
  <2> QED
    BY <1>1, <1>3, <2>1 DEF Reserve
<1>4. CASE Known(e) = "EXHAUSTED"
  <2>1. e.state \notin {"SUCCEEDED", "FAILED"} /\ ~Live(e)
    BY <1>2, <1>4 DEF Known
  <2> QED
    BY <1>1, <1>4, <2>1 DEF Reserve, Drops
<1>5. CASE Known(e) \in {"DONE", "FAILED", "LATER"}
  <2>1. /\ Known(e) = "DONE" => e.state = "SUCCEEDED"
        /\ Known(e) = "FAILED" => e.state = "FAILED"
    BY <1>2, <1>5 DEF Known
  <2> QED
    BY <1>1, <1>5, <2>1 DEF Reserve, Drops
<1> QED
  BY <1>2, <1>3, <1>4, <1>5 DEF Known

(* fail() records the failure of a call that still has its lease.           *)
LEMMA FailEffect ==
  ASSUME TypeOK, NEW x \in Call, NEW b \in BOOLEAN, Fail(x, b)
  PROVE  /\ Others(x) /\ prequote' = prequote /\ ~Locked(key[x]) /\ step[x] = "fail"
         /\ LET e == execution[key[x]]
                f == execution'[key[x]]
            IN  \/ /\ e.state = "PROCESSING" /\ e.version = lease[x] /\ f.version = e.version
                   /\ f.state \in {"RETRYABLE_FAILED", "FAILED"}
                   /\ Drops(x) /\ answer'[x] \in {f.state, "LATER"}
                \/ f = e /\ lease'[x] = lease[x] /\ answer'[x] = answer[x] /\ step'[x] = "verify"
<1> USE DEF TypeOK, Exec, Go, Goto, Tell
<1>1. Others(x) /\ prequote' = prequote /\ ~Locked(key[x]) /\ step[x] = "fail"
  BY DEF Fail, Others
<1>2. CASE Owned(x)
  <2> DEFINE s == IF b /\ execution[key[x]].attempts < MaxAttempts
                  THEN "RETRYABLE_FAILED" ELSE "FAILED"
  <2>1. execution' = [execution EXCEPT ![key[x]] =
          [state |-> s, version |-> lease[x], attempts |-> execution[key[x]].attempts,
           until |-> execution[key[x]].until]]
    BY <1>2 DEF Fail
  <2>2. Tell(x, IF s = "FAILED" THEN "FAILED" ELSE "LATER", "finish")
    BY <1>2 DEF Fail
  <2>3. execution'[key[x]].state = s /\ execution'[key[x]].version = lease[x]
    BY <2>1
  <2> QED
    BY <1>1, <1>2, <2>2, <2>3 DEF Owned, Live, Drops
<1>3. CASE ~Owned(x)
  BY <1>1, <1>3 DEF Fail
<1> QED
  BY <1>2, <1>3

(* Most steps touch no execution and give nobody a lease.                   *)
Quiet ==
  /\ execution' = execution /\ key' = key
  /\ \A c \in Call : /\ lease'[c] \in {lease[c], 0}
                     /\ step'[c] \in Holding => step[c] \in Holding /\ lease'[c] = lease[c]

(* No two calls ever hold the same version of an execution.                 *)
LEMMA LeasesStay ==
  ASSUME TypeOK, LeasesDiffer, CommitsHold, [Next]_vars PROVE LeasesDiffer'
<1>q. Quiet => LeasesDiffer'
  BY DEF Quiet, LeasesDiffer, TypeOK, Execution
<1>1. ASSUME NEW x \in Call, Inspect(x) PROVE LeasesDiffer'
  BY <1>1, <1>q DEF Quiet, TypeOK, Holding, Go, Goto, Tell, memory, Inspect
<1>2. ASSUME NEW x \in Call, Admit(x) PROVE LeasesDiffer'
  BY <1>2, <1>q DEF Quiet, TypeOK, Holding, Go, Goto, Tell, memory, Admit
<1>3. ASSUME NEW x \in Call, Reserve(x) PROVE LeasesDiffer'
  <2> DEFINE e == execution[key[x]]
             f == execution'[key[x]]
  <2>1. /\ Others(x) /\ f.version \in {e.version, e.version + 1}
        /\ (f.version = e.version + 1 /\ lease'[x] = f.version)
             \/ (f.version = e.version /\ lease'[x] = 0 /\ step'[x] \notin Holding)
    BY <1>3, ReserveEffect DEF Drops, Holding
  <2>0. TypeOK'
    BY TypesStay
  <2>2. \A c \in Call :
          /\ lease[c] \in Nat /\ execution[key[c]].version \in Nat /\ key[c] \in Key
          /\ lease'[c] \in Nat /\ execution'[key[c]].version \in Nat /\ key'[c] = key[c]
    BY <2>1, <2>0 DEF TypeOK, Execution, Others
  <2>3. \A c \in Call \ {x} : lease'[c] <= execution[key[c]].version
                             /\ execution[key[c]].version <= execution'[key[c]].version
    BY <2>1, <2>2 DEF Others, LeasesDiffer
  <2>4. \A c \in Call : lease'[c] <= execution'[key[c]].version
    BY <2>1, <2>2, <2>3
  <2>5. \A c \in Call \ {x} : key[c] = key[x] /\ lease'[x] > 0 => lease'[c] < lease'[x]
    BY <2>1, <2>2, <2>3
  <2>6. \A c \in Call : step'[c] \in Holding => lease'[c] > 0
    BY <2>1, <2>2 DEF Others, LeasesDiffer
  <2> QED
    BY <2>1, <2>2, <2>4, <2>5, <2>6 DEF Others, LeasesDiffer
<1>4. ASSUME NEW x \in Call, Throw(x) PROVE LeasesDiffer'
  BY <1>4, <1>q DEF Quiet, TypeOK, Holding, Go, Goto, Tell, memory, Throw
<1>5. ASSUME NEW x \in Call, Configure(x) PROVE LeasesDiffer'
  BY <1>5, <1>q DEF Quiet, TypeOK, Holding, Go, Goto, Tell, memory, Configure
<1>6. ASSUME NEW x \in Call, StartPermit(x) PROVE LeasesDiffer'
  BY <1>6, <1>q DEF Quiet, TypeOK, Holding, Go, Goto, Tell, memory, StartPermit
<1>7. ASSUME NEW x \in Call, RequireBudget(x) PROVE LeasesDiffer'
  BY <1>7, <1>q DEF Quiet, TypeOK, Holding, Go, Goto, Tell, memory, RequireBudget
<1>8. ASSUME NEW x \in Call, StartRouting(x) PROVE LeasesDiffer'
  BY <1>8, <1>q DEF Quiet, TypeOK, Holding, Go, Goto, Tell, memory, StartRouting
<1>9. ASSUME NEW x \in Call, Route(x) PROVE LeasesDiffer'
  BY <1>9, <1>q DEF Quiet, TypeOK, Holding, Go, Goto, Tell, memory, Route
<1>10. ASSUME NEW x \in Call, Publish(x) PROVE LeasesDiffer'
  BY <1>10, <1>q DEF Quiet, TypeOK, Holding, Go, Goto, Tell, memory, Publish
<1>11. ASSUME NEW x \in Call, Commit(x) PROVE LeasesDiffer'
  <2>1. /\ lease'[x] \in {lease[x], 0} /\ step[x] = "commit"
        /\ step'[x] = "fail" => lease'[x] = lease[x]
        /\ step'[x] \in {"finish", "fail"} /\ key' = key
        /\ \A c \in Call \ {x} : step'[c] = step[c] /\ lease'[c] = lease[c]
        /\ \A k \in Key : execution'[k].version = execution[k].version
    BY <1>11 DEF Commit, CommitsHold, TypeOK, Go, Goto, Tell, Exec
  <2>2. \A c \in Call :
          /\ lease'[c] \in {lease[c], 0} /\ lease[c] \in Nat
          /\ execution'[key[c]].version = execution[key[c]].version
          /\ execution[key[c]].version \in Nat
          /\ step'[c] \in Holding => step[c] \in Holding /\ lease'[c] = lease[c]
    BY <2>1 DEF TypeOK, Execution, Holding
  <2> QED
    BY <2>1, <2>2 DEF LeasesDiffer
<1>12. ASSUME NEW x \in Call, NEW b \in BOOLEAN, Fail(x, b) PROVE LeasesDiffer'
  <2>1. /\ Others(x) /\ step'[x] \notin Holding /\ lease'[x] \in {lease[x], 0}
        /\ execution'[key[x]].version = execution[key[x]].version
    BY <1>12, FailEffect DEF Drops, Holding
  <2>2. \A c \in Call : lease'[c] \in {lease[c], 0} /\ lease[c] \in Nat
                       /\ execution'[key[c]].version = execution[key[c]].version
                       /\ execution[key[c]].version \in Nat
    BY <2>1 DEF Others, TypeOK, Execution
  <2> QED
    BY <2>1, <2>2 DEF Others, LeasesDiffer
<1>13. ASSUME NEW x \in Call, Verify(x) PROVE LeasesDiffer'
  BY <1>13, <1>q DEF Quiet, TypeOK, Holding, Go, Goto, Tell, memory, Verify
<1>14. ASSUME NEW x \in Call, Finish(x) PROVE LeasesDiffer'
  BY <1>14, <1>q DEF Quiet, TypeOK, Holding, Go, Goto, Tell, memory, Finish
<1>15. ASSUME NEW x \in Call, Crash(x) PROVE LeasesDiffer'
  BY <1>15, <1>q DEF Quiet, TypeOK, Holding, Go, Goto, Tell, memory, Crash
<1>16. ASSUME NEW q \in Plan, ChangePlan(q) PROVE LeasesDiffer'
  BY <1>16, <1>q DEF Quiet, TypeOK, Holding, Go, Goto, Tell, memory, ChangePlan
<1>17. CASE Tick
  BY <1>17, <1>q DEF Quiet, TypeOK, Holding, Go, Goto, Tell, memory, Tick
<1>18. CASE UNCHANGED vars
  BY <1>18, <1>q DEF Quiet, vars
<1> QED
  BY <1>1, <1>2, <1>3, <1>4, <1>5, <1>6, <1>7, <1>8, <1>9, <1>10, <1>11,
     <1>12, <1>13, <1>14, <1>15, <1>16, <1>17, <1>18, Zenon DEF Next, Work

(* While a call publishes, its key and its plan stay as they are.           *)
LEMMA CommitsStay ==
  ASSUME TypeOK, LeasesDiffer, CommitsHold, [Next]_vars PROVE CommitsHold'
<1> USE DEF TypeOK, Execution, Permit, Exec, Go, Goto, Tell, memory, CommitsHold
<1>1. ASSUME NEW x \in Call, Inspect(x) PROVE CommitsHold'
  BY <1>1 DEF Inspect
<1>2. ASSUME NEW x \in Call, Admit(x) PROVE CommitsHold'
  BY <1>2 DEF Admit
<1>3. ASSUME NEW x \in Call, Reserve(x) PROVE CommitsHold'
  <2>1. /\ Others(x) /\ step'[x] # "commit"
        /\ \A c \in Call : step[c] = "commit" => key[c] # key[x]
    BY <1>3, ReserveEffect DEF Drops, Locked
  <2>2. \A c \in Call : step'[c] = "commit" =>
          /\ c # x /\ step[c] = "commit" /\ lease'[c] = lease[c] /\ priced'[c] = priced[c]
          /\ execution'[key[c]] = execution[key[c]]
    BY <2>1 DEF Others
  <2> QED
    BY <2>1, <2>2 DEF Others
<1>4. ASSUME NEW x \in Call, Throw(x) PROVE CommitsHold'
  BY <1>4 DEF Throw
<1>5. ASSUME NEW x \in Call, Configure(x) PROVE CommitsHold'
  BY <1>5 DEF Configure
<1>6. ASSUME NEW x \in Call, StartPermit(x) PROVE CommitsHold'
  BY <1>6 DEF StartPermit
<1>7. ASSUME NEW x \in Call, RequireBudget(x) PROVE CommitsHold'
  BY <1>7 DEF RequireBudget
<1>8. ASSUME NEW x \in Call, StartRouting(x) PROVE CommitsHold'
  BY <1>8 DEF StartRouting
<1>9. ASSUME NEW x \in Call, Route(x) PROVE CommitsHold'
  BY <1>9 DEF Route
<1>10. ASSUME NEW x \in Call, Publish(x) PROVE CommitsHold'
  BY <1>10 DEF Publish, Owned, Live
<1>11. ASSUME NEW x \in Call, Commit(x) PROVE CommitsHold'
  BY <1>11 DEF Commit, LeasesDiffer, Holding
<1>12. ASSUME NEW x \in Call, NEW b \in BOOLEAN, Fail(x, b) PROVE CommitsHold'
  BY <1>12, FailEffect DEF Others, Drops, Locked
<1>13. ASSUME NEW x \in Call, Verify(x) PROVE CommitsHold'
  BY <1>13 DEF Verify
<1>14. ASSUME NEW x \in Call, Finish(x) PROVE CommitsHold'
  BY <1>14 DEF Finish
<1>15. ASSUME NEW x \in Call, Crash(x) PROVE CommitsHold'
  BY <1>15 DEF Crash
<1>16. ASSUME NEW q \in Plan, ChangePlan(q) PROVE CommitsHold'
  BY <1>16 DEF ChangePlan
<1>17. CASE Tick
  BY <1>17 DEF Tick
<1>18. CASE UNCHANGED vars
  BY <1>18 DEF vars
<1> HIDE DEF TypeOK, Execution, Permit, Exec, Go, Goto, Tell, memory, CommitsHold
<1> QED
  BY <1>1, <1>2, <1>3, <1>4, <1>5, <1>6, <1>7, <1>8, <1>9, <1>10, <1>11,
     <1>12, <1>13, <1>14, <1>15, <1>16, <1>17, <1>18, Zenon DEF Next, Work

(* Prequotes and successes come together, and stay.                         *)
LEMMA IssuedStays ==
  ASSUME TypeOK, CommitsHold, IssuedIsSucceeded, [Next]_vars PROVE IssuedIsSucceeded'
<1> USE DEF TypeOK, Execution, Permit, Exec, Go, Goto, Tell, memory, IssuedIsSucceeded
<1>1. ASSUME NEW x \in Call, Inspect(x) PROVE IssuedIsSucceeded'
  BY <1>1 DEF Inspect
<1>2. ASSUME NEW x \in Call, Admit(x) PROVE IssuedIsSucceeded'
  BY <1>2 DEF Admit
<1>3. ASSUME NEW x \in Call, Reserve(x) PROVE IssuedIsSucceeded'
  <2>1. /\ Others(x) /\ prequote' = prequote
        /\ execution'[key[x]].state = "SUCCEEDED" <=> execution[key[x]].state = "SUCCEEDED"
    BY <1>3, ReserveEffect
  <2>2. \A k \in Key :
          execution'[k].state = "SUCCEEDED" <=> execution[k].state = "SUCCEEDED"
    BY <2>1 DEF Others
  <2> QED
    BY <2>1, <2>2
<1>4. ASSUME NEW x \in Call, Throw(x) PROVE IssuedIsSucceeded'
  BY <1>4 DEF Throw
<1>5. ASSUME NEW x \in Call, Configure(x) PROVE IssuedIsSucceeded'
  BY <1>5 DEF Configure
<1>6. ASSUME NEW x \in Call, StartPermit(x) PROVE IssuedIsSucceeded'
  BY <1>6 DEF StartPermit
<1>7. ASSUME NEW x \in Call, RequireBudget(x) PROVE IssuedIsSucceeded'
  BY <1>7 DEF RequireBudget
<1>8. ASSUME NEW x \in Call, StartRouting(x) PROVE IssuedIsSucceeded'
  BY <1>8 DEF StartRouting
<1>9. ASSUME NEW x \in Call, Route(x) PROVE IssuedIsSucceeded'
  BY <1>9 DEF Route
<1>10. ASSUME NEW x \in Call, Publish(x) PROVE IssuedIsSucceeded'
  BY <1>10 DEF Publish
<1>11. ASSUME NEW x \in Call, Commit(x) PROVE IssuedIsSucceeded'
  BY <1>11 DEF Commit, CommitsHold
<1>12. ASSUME NEW x \in Call, NEW b \in BOOLEAN, Fail(x, b) PROVE IssuedIsSucceeded'
  <2>1. /\ Others(x) /\ prequote' = prequote
        /\ execution[key[x]].state # execution'[key[x]].state =>
             execution[key[x]].state = "PROCESSING" /\ execution'[key[x]].state # "SUCCEEDED"
    BY <1>12, FailEffect
  <2>2. \A k \in Key :
          execution'[k].state = "SUCCEEDED" <=> execution[k].state = "SUCCEEDED"
    BY <2>1 DEF Others
  <2> QED
    BY <2>1, <2>2
<1>13. ASSUME NEW x \in Call, Verify(x) PROVE IssuedIsSucceeded'
  BY <1>13 DEF Verify
<1>14. ASSUME NEW x \in Call, Finish(x) PROVE IssuedIsSucceeded'
  BY <1>14 DEF Finish
<1>15. ASSUME NEW x \in Call, Crash(x) PROVE IssuedIsSucceeded'
  BY <1>15 DEF Crash
<1>16. ASSUME NEW q \in Plan, ChangePlan(q) PROVE IssuedIsSucceeded'
  BY <1>16 DEF ChangePlan
<1>17. CASE Tick
  BY <1>17 DEF Tick
<1>18. CASE UNCHANGED vars
  BY <1>18 DEF vars
<1> HIDE DEF TypeOK, Execution, Permit, Exec, Go, Goto, Tell, memory, IssuedIsSucceeded
<1> QED
  BY <1>1, <1>2, <1>3, <1>4, <1>5, <1>6, <1>7, <1>8, <1>9, <1>10, <1>11,
     <1>12, <1>13, <1>14, <1>15, <1>16, <1>17, <1>18, Zenon DEF Next, Work

(* What was answered stays on record.                                       *)
LEMMA AnswersStay ==
  ASSUME TypeOK, CommitsHold, AnswersAreRecorded, [Next]_vars PROVE AnswersAreRecorded'
<1> USE DEF TypeOK, Execution, Permit, Exec, Go, Goto, Tell, memory, AnswersAreRecorded
<1>1. ASSUME NEW x \in Call, Inspect(x) PROVE AnswersAreRecorded'
  BY <1>1 DEF Inspect, Known
<1>2. ASSUME NEW x \in Call, Admit(x) PROVE AnswersAreRecorded'
  BY <1>2 DEF Admit
<1>3. ASSUME NEW x \in Call, Reserve(x) PROVE AnswersAreRecorded'
  BY <1>3, ReserveEffect DEF Others, Drops
<1>4. ASSUME NEW x \in Call, Throw(x) PROVE AnswersAreRecorded'
  BY <1>4 DEF Throw
<1>5. ASSUME NEW x \in Call, Configure(x) PROVE AnswersAreRecorded'
  BY <1>5 DEF Configure
<1>6. ASSUME NEW x \in Call, StartPermit(x) PROVE AnswersAreRecorded'
  BY <1>6 DEF StartPermit
<1>7. ASSUME NEW x \in Call, RequireBudget(x) PROVE AnswersAreRecorded'
  BY <1>7 DEF RequireBudget
<1>8. ASSUME NEW x \in Call, StartRouting(x) PROVE AnswersAreRecorded'
  BY <1>8 DEF StartRouting
<1>9. ASSUME NEW x \in Call, Route(x) PROVE AnswersAreRecorded'
  BY <1>9 DEF Route
<1>10. ASSUME NEW x \in Call, Publish(x) PROVE AnswersAreRecorded'
  BY <1>10 DEF Publish
<1>11. ASSUME NEW x \in Call, Commit(x) PROVE AnswersAreRecorded'
  BY <1>11 DEF Commit, CommitsHold
<1>12. ASSUME NEW x \in Call, NEW b \in BOOLEAN, Fail(x, b) PROVE AnswersAreRecorded'
  <2> DEFINE e == execution[key[x]]
             f == execution'[key[x]]
  <2>1. /\ Others(x)
        /\ \/ e.state = "PROCESSING" /\ answer'[x] \in {f.state, "LATER"} /\ f.state # "DONE"
           \/ f = e /\ answer'[x] = answer[x]
    BY <1>12, FailEffect
  <2>2. \A c \in Call \ {x} :
          /\ answer'[c] = answer[c] /\ key'[c] = key[c]
          /\ execution'[key[c]].state # execution[key[c]].state =>
               execution[key[c]].state = "PROCESSING"
    BY <2>1 DEF Others
  <2> HIDE DEF Execution, Permit, Exec, Go, Goto, Tell, memory
  <2> QED
    BY <2>1, <2>2 DEF Others
<1>13. ASSUME NEW x \in Call, Verify(x) PROVE AnswersAreRecorded'
  BY <1>13 DEF Verify, Known
<1>14. ASSUME NEW x \in Call, Finish(x) PROVE AnswersAreRecorded'
  BY <1>14 DEF Finish
<1>15. ASSUME NEW x \in Call, Crash(x) PROVE AnswersAreRecorded'
  BY <1>15 DEF Crash
<1>16. ASSUME NEW q \in Plan, ChangePlan(q) PROVE AnswersAreRecorded'
  BY <1>16 DEF ChangePlan
<1>17. CASE Tick
  BY <1>17 DEF Tick
<1>18. CASE UNCHANGED vars
  BY <1>18 DEF vars
<1> HIDE DEF TypeOK, Execution, Permit, Exec, Go, Goto, Tell, memory, AnswersAreRecorded
<1> QED
  BY <1>1, <1>2, <1>3, <1>4, <1>5, <1>6, <1>7, <1>8, <1>9, <1>10, <1>11,
     <1>12, <1>13, <1>14, <1>15, <1>16, <1>17, <1>18, Zenon DEF Next, Work

(* Permits are started before routing, and never lose their start.          *)
LEMMA PermitsStay ==
  ASSUME TypeOK, PermitsArePaid, [Next]_vars PROVE PermitsArePaid'
<1> USE DEF TypeOK, Execution, Permit, Exec, Go, Goto, Tell, memory, PermitsArePaid, Paying
<1>1. ASSUME NEW x \in Call, Inspect(x) PROVE PermitsArePaid'
  BY <1>1 DEF Inspect
<1>2. ASSUME NEW x \in Call, Admit(x) PROVE PermitsArePaid'
  BY <1>2 DEF Admit, Closed, Started
<1>3. ASSUME NEW x \in Call, Reserve(x) PROVE PermitsArePaid'
  BY <1>3 DEF Reserve
<1>4. ASSUME NEW x \in Call, Throw(x) PROVE PermitsArePaid'
  BY <1>4 DEF Throw
<1>5. ASSUME NEW x \in Call, Configure(x) PROVE PermitsArePaid'
  BY <1>5 DEF Configure
<1>6. ASSUME NEW x \in Call, StartPermit(x) PROVE PermitsArePaid'
  BY <1>6 DEF StartPermit, Started
<1>7. ASSUME NEW x \in Call, RequireBudget(x) PROVE PermitsArePaid'
  BY <1>7 DEF RequireBudget
<1>8. ASSUME NEW x \in Call, StartRouting(x) PROVE PermitsArePaid'
  BY <1>8 DEF StartRouting
<1>9. ASSUME NEW x \in Call, Route(x) PROVE PermitsArePaid'
  BY <1>9 DEF Route
<1>10. ASSUME NEW x \in Call, Publish(x) PROVE PermitsArePaid'
  BY <1>10 DEF Publish
<1>11. ASSUME NEW x \in Call, Commit(x) PROVE PermitsArePaid'
  BY <1>11 DEF Commit
<1>12. ASSUME NEW x \in Call, NEW b \in BOOLEAN, Fail(x, b) PROVE PermitsArePaid'
  BY <1>12 DEF Fail
<1>13. ASSUME NEW x \in Call, Verify(x) PROVE PermitsArePaid'
  BY <1>13 DEF Verify
<1>14. ASSUME NEW x \in Call, Finish(x) PROVE PermitsArePaid'
  BY <1>14 DEF Finish, Closed, Started
<1>15. ASSUME NEW x \in Call, Crash(x) PROVE PermitsArePaid'
  BY <1>15 DEF Crash
<1>16. ASSUME NEW q \in Plan, ChangePlan(q) PROVE PermitsArePaid'
  BY <1>16 DEF ChangePlan
<1>17. CASE Tick
  BY <1>17 DEF Tick
<1>18. CASE UNCHANGED vars
  BY <1>18 DEF vars
<1> HIDE DEF TypeOK, Execution, Permit, Exec, Go, Goto, Tell, memory, PermitsArePaid, Paying
<1> QED
  BY <1>1, <1>2, <1>3, <1>4, <1>5, <1>6, <1>7, <1>8, <1>9, <1>10, <1>11,
     <1>12, <1>13, <1>14, <1>15, <1>16, <1>17, <1>18, Zenon DEF Next, Work

(* Nobody takes over a lease within the budget that was checked.            *)
LEMMA BudgetStays ==
  ASSUME TypeOK, LeasesDiffer, CommitsHold, PermitsArePaid, BudgetIsCovered, [Next]_vars PROVE BudgetIsCovered'
<1> USE DEF TypeOK, Execution, Permit, Exec, Go, Goto, Tell, memory, BudgetIsCovered
<1>1. ASSUME NEW x \in Call, Inspect(x) PROVE BudgetIsCovered'
  BY <1>1 DEF Inspect
<1>2. ASSUME NEW x \in Call, Admit(x) PROVE BudgetIsCovered'
  BY <1>2 DEF Admit, Closed, Started, PermitsArePaid, Paying
<1>3. ASSUME NEW x \in Call, Reserve(x) PROVE BudgetIsCovered'
  BY <1>3, ReserveEffect DEF Others, Drops, Live
<1>4. ASSUME NEW x \in Call, Throw(x) PROVE BudgetIsCovered'
  BY <1>4 DEF Throw
<1>5. ASSUME NEW x \in Call, Configure(x) PROVE BudgetIsCovered'
  BY <1>5 DEF Configure
<1>6. ASSUME NEW x \in Call, StartPermit(x) PROVE BudgetIsCovered'
  BY <1>6 DEF StartPermit
<1>7. ASSUME NEW x \in Call, RequireBudget(x) PROVE BudgetIsCovered'
  BY <1>7 DEF RequireBudget, Owned, Live, PermitsArePaid
<1>8. ASSUME NEW x \in Call, StartRouting(x) PROVE BudgetIsCovered'
  BY <1>8 DEF StartRouting
<1>9. ASSUME NEW x \in Call, Route(x) PROVE BudgetIsCovered'
  BY <1>9 DEF Route
<1>10. ASSUME NEW x \in Call, Publish(x) PROVE BudgetIsCovered'
  BY <1>10 DEF Publish
<1>11. ASSUME NEW x \in Call, Commit(x) PROVE BudgetIsCovered'
  <2>1. /\ step[x] = "commit" /\ step'[x] \in {"finish", "fail"}
        /\ now' = now /\ key' = key /\ permit' = permit
        /\ \A c \in Call \ {x} : step'[c] = step[c] /\ lease'[c] = lease[c]
        /\ \A k \in Key \ {key[x]} : execution'[k] = execution[k]
    BY <1>11 DEF Commit
  <2>2. \A c \in Call \ {x} :
          key[c] = key[x] /\ execution[key[c]].version = lease[c] => step[c] \notin {"ready", "routing"}
    BY <2>1, <1>11 DEF Commit, CommitsHold, LeasesDiffer, Holding
  <2> QED
    BY <2>1, <2>2
<1>12. ASSUME NEW x \in Call, NEW b \in BOOLEAN, Fail(x, b) PROVE BudgetIsCovered'
  <2>1. /\ step[x] = "fail" /\ step'[x] \in {"finish", "verify"} /\ Others(x)
        /\ \/ execution[key[x]].version = lease[x]
           \/ execution'[key[x]] = execution[key[x]]
    BY <1>12, FailEffect DEF Drops
  <2>2. \A c \in Call \ {x} :
          /\ step'[c] = step[c] /\ lease'[c] = lease[c] /\ key[c] \in Key
          /\ step[c] \in {"ready", "routing"} /\ execution[key[c]].version = lease[c] =>
               execution'[key[c]] = execution[key[c]]
    BY <2>1 DEF Others, LeasesDiffer, Holding
  <2> QED
    BY <2>1, <2>2 DEF Others
<1>13. ASSUME NEW x \in Call, Verify(x) PROVE BudgetIsCovered'
  BY <1>13 DEF Verify
<1>14. ASSUME NEW x \in Call, Finish(x) PROVE BudgetIsCovered'
  BY <1>14 DEF Finish, Closed
<1>15. ASSUME NEW x \in Call, Crash(x) PROVE BudgetIsCovered'
  BY <1>15 DEF Crash
<1>16. ASSUME NEW q \in Plan, ChangePlan(q) PROVE BudgetIsCovered'
  BY <1>16 DEF ChangePlan
<1>17. CASE Tick
  BY <1>17 DEF Tick
<1>18. CASE UNCHANGED vars
  BY <1>18 DEF vars
<1> HIDE DEF TypeOK, Execution, Permit, Exec, Go, Goto, Tell, memory, BudgetIsCovered
<1> QED
  BY <1>1, <1>2, <1>3, <1>4, <1>5, <1>6, <1>7, <1>8, <1>9, <1>10, <1>11,
     <1>12, <1>13, <1>14, <1>15, <1>16, <1>17, <1>18, Zenon DEF Next, Work

(* Routing ends in time.                                                    *)
LEMMA RoutingStays ==
  ASSUME TypeOK, PermitsArePaid, RoutingEnds, [Next]_vars PROVE RoutingEnds'
<1> USE DEF TypeOK, Execution, Permit, Exec, Go, Goto, Tell, memory, RoutingEnds
<1>1. ASSUME NEW x \in Call, Inspect(x) PROVE RoutingEnds'
  BY <1>1 DEF Inspect
<1>2. ASSUME NEW x \in Call, Admit(x) PROVE RoutingEnds'
  BY <1>2 DEF Admit, Closed, PermitsArePaid, Paying
<1>3. ASSUME NEW x \in Call, Reserve(x) PROVE RoutingEnds'
  BY <1>3 DEF Reserve
<1>4. ASSUME NEW x \in Call, Throw(x) PROVE RoutingEnds'
  BY <1>4 DEF Throw
<1>5. ASSUME NEW x \in Call, Configure(x) PROVE RoutingEnds'
  BY <1>5 DEF Configure
<1>6. ASSUME NEW x \in Call, StartPermit(x) PROVE RoutingEnds'
  BY <1>6 DEF StartPermit
<1>7. ASSUME NEW x \in Call, RequireBudget(x) PROVE RoutingEnds'
  BY <1>7 DEF RequireBudget
<1>8. ASSUME NEW x \in Call, StartRouting(x) PROVE RoutingEnds'
  BY <1>8 DEF StartRouting
<1>9. ASSUME NEW x \in Call, Route(x) PROVE RoutingEnds'
  BY <1>9 DEF Route
<1>10. ASSUME NEW x \in Call, Publish(x) PROVE RoutingEnds'
  BY <1>10 DEF Publish
<1>11. ASSUME NEW x \in Call, Commit(x) PROVE RoutingEnds'
  BY <1>11 DEF Commit
<1>12. ASSUME NEW x \in Call, NEW b \in BOOLEAN, Fail(x, b) PROVE RoutingEnds'
  BY <1>12 DEF Fail
<1>13. ASSUME NEW x \in Call, Verify(x) PROVE RoutingEnds'
  BY <1>13 DEF Verify
<1>14. ASSUME NEW x \in Call, Finish(x) PROVE RoutingEnds'
  BY <1>14 DEF Finish, Closed
<1>15. ASSUME NEW x \in Call, Crash(x) PROVE RoutingEnds'
  BY <1>15 DEF Crash
<1>16. ASSUME NEW q \in Plan, ChangePlan(q) PROVE RoutingEnds'
  BY <1>16 DEF ChangePlan
<1>17. CASE Tick
  BY <1>17 DEF Tick
<1>18. CASE UNCHANGED vars
  BY <1>18 DEF vars
<1> HIDE DEF TypeOK, Execution, Permit, Exec, Go, Goto, Tell, memory, RoutingEnds
<1> QED
  BY <1>1, <1>2, <1>3, <1>4, <1>5, <1>6, <1>7, <1>8, <1>9, <1>10, <1>11,
     <1>12, <1>13, <1>14, <1>15, <1>16, <1>17, <1>18, Zenon DEF Next, Work

(* Which permits count afterwards: those that did before, or one more, if   *)
(* there was room for it.                                                   *)
Falls(t) == \A d \in Call : Counts(permit[d], t)' => Counts(permit[d], t)

Rises(t, x) == \A d \in Call \ {x} : Counts(permit[d], t)' => Counts(permit[d], t)

LEMMA CountsFall ==
  ASSUME TypeOK, NEW t \in {ProtectTime, Window}, [Next]_vars
  PROVE  Falls(t) \/ \E x \in Call : HasRoom /\ Rises(t, x)
<1> USE DEF TypeOK, Permit, Go, Goto, Tell, memory
<1>1. ASSUME NEW x \in Call, Inspect(x) PROVE Falls(t)
  BY <1>1 DEF Inspect, Falls, Counts, Started
<1>2. ASSUME NEW x \in Call, Admit(x) PROVE Falls(t) \/ (HasRoom /\ Rises(t, x))
  <2>1. \A d \in Call : permit'[d] = Closed(permit[d]) /\ Overdue(permit[d]) =>
          (Counts(permit[d], t)' => Counts(permit[d], t))
    BY <1>2 DEF Admit, Counts, Closed, Started, Overdue
  <2>0. \A d \in Call : permit'[d] = permit[d] =>
          (Counts(permit[d], t)' => Counts(permit[d], t))
    BY <1>2 DEF Admit, Counts, Started
  <2>2. CASE HasRoom
    <3>1. \A d \in Call \ {x} :
            permit'[d] = permit[d]
              \/ (permit'[d] = Closed(permit[d]) /\ Overdue(permit[d]))
      BY <1>2 DEF Admit
    <3> QED
      BY <2>0, <2>1, <2>2, <3>1 DEF Rises
  <2>3. CASE ~HasRoom
    <3>1. \A d \in Call :
            permit'[d] = permit[d]
              \/ (permit'[d] = Closed(permit[d]) /\ Overdue(permit[d]))
      BY <1>2, <2>3 DEF Admit
    <3> QED
      BY <2>0, <2>1, <3>1 DEF Falls
  <2> QED
    BY <2>2, <2>3
<1>3. ASSUME NEW x \in Call, Reserve(x) PROVE Falls(t)
  BY <1>3 DEF Reserve, Falls, Counts, Started
<1>4. ASSUME NEW x \in Call, Throw(x) PROVE Falls(t)
  BY <1>4 DEF Throw, Falls, Counts, Started
<1>5. ASSUME NEW x \in Call, Configure(x) PROVE Falls(t)
  BY <1>5 DEF Configure, Falls, Counts, Started
<1>6. ASSUME NEW x \in Call, StartPermit(x) PROVE Falls(t)
  BY <1>6 DEF StartPermit, Falls, Counts, Started
<1>7. ASSUME NEW x \in Call, RequireBudget(x) PROVE Falls(t)
  BY <1>7 DEF RequireBudget, Falls, Counts, Started
<1>8. ASSUME NEW x \in Call, StartRouting(x) PROVE Falls(t)
  BY <1>8 DEF StartRouting, Falls, Counts, Started
<1>9. ASSUME NEW x \in Call, Route(x) PROVE Falls(t)
  BY <1>9 DEF Route, Falls, Counts, Started
<1>10. ASSUME NEW x \in Call, Publish(x) PROVE Falls(t)
  BY <1>10 DEF Publish, Falls, Counts, Started
<1>11. ASSUME NEW x \in Call, Commit(x) PROVE Falls(t)
  BY <1>11 DEF Commit, Falls, Counts, Started
<1>12. ASSUME NEW x \in Call, NEW b \in BOOLEAN, Fail(x, b) PROVE Falls(t)
  BY <1>12 DEF Fail, Falls, Counts, Started
<1>13. ASSUME NEW x \in Call, Verify(x) PROVE Falls(t)
  BY <1>13 DEF Verify, Falls, Counts, Started
<1>14. ASSUME NEW x \in Call, Finish(x) PROVE Falls(t)
  BY <1>14 DEF Finish, Falls, Counts, Closed, Started
<1>15. ASSUME NEW x \in Call, Crash(x) PROVE Falls(t)
  BY <1>15 DEF Crash, Falls, Counts, Started
<1>16. ASSUME NEW q \in Plan, ChangePlan(q) PROVE Falls(t)
  BY <1>16 DEF ChangePlan, Falls, Counts, Started
<1>17. CASE Tick
  BY <1>17 DEF Tick, Falls, Counts, Started
<1>18. CASE UNCHANGED vars
  BY <1>18 DEF vars, Falls, Counts, Started
<1> HIDE DEF TypeOK, Permit, Go, Goto, Tell, memory
<1> QED
  BY <1>1, <1>2, <1>3, <1>4, <1>5, <1>6, <1>7, <1>8, <1>9, <1>10, <1>11,
     <1>12, <1>13, <1>14, <1>15, <1>16, <1>17, <1>18, Zenon DEF Next, Work

LEMMA SlotsStay ==
  ASSUME TypeOK, SlotsAreLimited, [Next]_vars PROVE SlotsAreLimited'
<1>1. \A t \in {ProtectTime, Window} :
        /\ IsFiniteSet(Counted(t)) /\ Cardinality(Counted(t)) \in Nat
        /\ Cardinality(Counted(t)') \in Nat
  <2> TAKE t \in {ProtectTime, Window}
  <2>1. Counted(t) \subseteq Call /\ Counted(t)' \subseteq Call
    BY DEF Counted
  <2> QED
    BY <2>1, FS_Subset, FS_CardinalityType
<1>2. \A t \in {ProtectTime, Window} : Falls(t) =>
        Cardinality(Counted(t)') <= Cardinality(Counted(t))
  <2> TAKE t \in {ProtectTime, Window}
  <2>1. Falls(t) => Counted(t)' \subseteq Counted(t)
    BY DEF Counted, Falls
  <2> QED
    BY <1>1, <2>1, FS_Subset
<1>3. \A t \in {ProtectTime, Window}, x \in Call : Rises(t, x) =>
        Cardinality(Counted(t)') <= Cardinality(Counted(t)) + 1
  <2> TAKE t \in {ProtectTime, Window}, x \in Call
  <2>1. Rises(t, x) => Counted(t)' \subseteq Counted(t) \cup {x}
    BY DEF Counted, Rises
  <2>2. /\ IsFiniteSet(Counted(t) \cup {x})
        /\ Cardinality(Counted(t) \cup {x}) \in
             {Cardinality(Counted(t)), Cardinality(Counted(t)) + 1}
    BY <1>1, FS_AddElement
  <2>3. Rises(t, x) => Cardinality(Counted(t)') <= Cardinality(Counted(t) \cup {x})
    BY <2>1, <2>2, FS_Subset
  <2> QED
    BY <1>1, <2>2, <2>3
<1>4. \A t \in {ProtectTime, Window} :
        \/ Cardinality(Counted(t)') <= Cardinality(Counted(t))
        \/ HasRoom /\ Cardinality(Counted(t)') <= Cardinality(Counted(t)) + 1
  BY <1>2, <1>3, CountsFall
<1>5. Cardinality(Counted(ProtectTime)') <= Concurrent
  BY <1>1, <1>4 DEF HasRoom, SlotsAreLimited
<1>6. Cardinality(Counted(Window)') <= PerWindow
  BY <1>1, <1>4 DEF HasRoom, SlotsAreLimited
<1> QED
  BY <1>5, <1>6 DEF SlotsAreLimited

-----------------------------------------------------------------------------
LEMMA InvariantHolds == Spec => []IssueInvariant
<1>1. Init => IssueInvariant
  <2> SUFFICES ASSUME Init PROVE IssueInvariant
    OBVIOUS
  <2> USE DEF Init
  <2>1. TypeOK
    BY DEF TypeOK, Execution, Permit
  <2>2. \A t \in {ProtectTime, Window} : Counted(t) = {}
    BY DEF Counted, Counts, Started
  <2>3. SlotsAreLimited
    <3>1. Counted(ProtectTime) = {} /\ Counted(Window) = {}
      BY <2>2
    <3>2. Cardinality({}) = 0
      BY FS_EmptySet
    <3> QED
      BY <3>1, <3>2 DEF SlotsAreLimited
  <2>4. LeasesDiffer /\ CommitsHold /\ PermitsArePaid /\ BudgetIsCovered /\ RoutingEnds
    BY DEF LeasesDiffer, Holding, CommitsHold, PermitsArePaid, Paying, BudgetIsCovered,
           RoutingEnds
  <2>5. IssuedIsSucceeded /\ AnswersAreRecorded
    BY DEF IssuedIsSucceeded, AnswersAreRecorded
  <2> QED
    BY <2>1, <2>3, <2>4, <2>5 DEF IssueInvariant
<1>2. IssueInvariant /\ [Next]_vars => IssueInvariant'
  BY TypesStay, LeasesStay, CommitsStay, IssuedStays, AnswersStay, PermitsStay, BudgetStays,
     RoutingStays, SlotsStay DEF IssueInvariant
<1> QED
  BY <1>1, <1>2, PTL DEF Spec

(* The variables have their types; in particular no execution ever takes    *)
(* more attempts than it may (reserve()).                                   *)
THEOREM IssueTypesCorrect == Spec => []TypeOK
<1>1. IssueInvariant => TypeOK
  BY DEF IssueInvariant
<1> QED
  BY <1>1, InvariantHolds, PTL

(* The routing provider is paid by one call of a key at a time, and no more *)
(* often than the limits of the integration allow.                          *)
THEOREM RoutingIsLimited == Spec => []WithinLimits
<1>1. IssueInvariant => WithinLimits
  <2> SUFFICES ASSUME IssueInvariant PROVE WithinLimits
    OBVIOUS
  <2> USE DEF IssueInvariant
  <2>1. \A c \in Routing : /\ now < permit[c].since + StartBy + RouteTime
                           /\ Started(permit[c]) /\ c \in Call
                           /\ permit[c].since \in Nat /\ now \in Nat
    BY DEF Routing, RoutingEnds, PermitsArePaid, Paying, TypeOK, Permit
  <2>2. \A c \in Routing : execution[key[c]].version = lease[c]
    BY <2>1 DEF Routing, BudgetIsCovered
  <2>3. \A c, d \in Routing : key[c] = key[d] => c = d
    BY <2>2 DEF Routing, LeasesDiffer, Holding
  <2>4. Routing \subseteq Counted(ProtectTime)
    BY <2>1 DEF Counted, Counts
  <2>5. \A t \in {ProtectTime, Window} :
          Counted(t) \subseteq Call /\ IsFiniteSet(Counted(t)) /\ Cardinality(Counted(t)) \in Nat
    BY FS_Subset, FS_CardinalityType DEF Counted
  <2>6. Cardinality(Routing) <= Concurrent
    <3>1. Cardinality(Routing) <= Cardinality(Counted(ProtectTime)) /\ Cardinality(Routing) \in Nat
      BY <2>4, <2>5, FS_Subset, FS_CardinalityType
    <3> QED
      BY <2>5, <3>1 DEF SlotsAreLimited
  <2>7. Cardinality({ c \in Call : Started(permit[c]) /\ now < permit[c].since + Window })
          <= PerWindow
    <3> DEFINE S == { c \in Call : Started(permit[c]) /\ now < permit[c].since + Window }
    <3>1. S \subseteq Counted(Window)
      BY DEF Counted, Counts
    <3>2. Cardinality(S) <= Cardinality(Counted(Window)) /\ Cardinality(S) \in Nat
      BY <2>5, <3>1, FS_Subset, FS_CardinalityType
    <3> HIDE DEF S
    <3> QED
      BY <2>5, <3>2 DEF SlotsAreLimited, S
  <2> QED
    BY <2>3, <2>6, <2>7 DEF WithinLimits
<1> QED
  BY <1>1, InvariantHolds, PTL

(* What a call was told of its key stays true.                              *)
THEOREM AnswersStayTrue == Spec => []AnswersStand
<1>1. IssueInvariant => AnswersStand
  BY DEF IssueInvariant, AnswersAreRecorded, IssuedIsSucceeded, AnswersStand, TypeOK
<1> QED
  BY <1>1, InvariantHolds, PTL

(* A prequote is issued once, at the active plan, under the last lease and  *)
(* a permit that was started.                                               *)
THEOREM PrequotesAreOwned == Spec => IssuedByHolder
<1>1. IssueInvariant /\ [Next]_vars =>
        [ \A k \in Key : prequote'[k] # prequote[k] =>
            /\ prequote[k] = None /\ prequote'[k] = plan
            /\ \E c \in Call :
                 /\ key[c] = k /\ step[c] = "commit" /\ Started(permit[c])
                 /\ execution[k].state = "PROCESSING" /\ execution[k].version = lease[c] ]_vars
  <2> SUFFICES ASSUME IssueInvariant, [Next]_vars, NEW k \in Key, prequote'[k] # prequote[k]
               PROVE  /\ prequote[k] = None /\ prequote'[k] = plan
                      /\ \E c \in Call :
                           /\ key[c] = k /\ step[c] = "commit" /\ Started(permit[c])
                           /\ execution[k].state = "PROCESSING"
                           /\ execution[k].version = lease[c]
    OBVIOUS
  <2>1. \E c \in Call : Commit(c)
    BY DEF Next, Work, vars, Inspect, Admit, Reserve, Throw, Configure, StartPermit,
           RequireBudget, StartRouting, Route, Publish, Fail, Verify, Finish, Crash, ChangePlan,
           Tick
  <2>2. PICK c \in Call : Commit(c)
    BY <2>1
  <2>3. step[c] = "commit" /\ key[c] = k /\ prequote'[k] = priced[c]
    BY <2>2 DEF Commit, IssueInvariant, TypeOK
  <2>4. /\ Started(permit[c]) /\ priced[c] = plan
        /\ execution[k].state = "PROCESSING" /\ execution[k].version = lease[c]
    BY <2>3 DEF IssueInvariant, PermitsArePaid, Paying, CommitsHold
  <2>5. prequote[k] = None
    BY <2>4 DEF IssueInvariant, IssuedIsSucceeded
  <2> QED
    BY <2>3, <2>4, <2>5
<1> QED
  BY <1>1, InvariantHolds, PTL DEF Spec, IssuedByHolder
(* What a step may do to the record of one key.                             *)
Kept(k) ==
  /\ execution[k].state \in {"SUCCEEDED", "FAILED"} =>
       execution'[k] = execution[k] /\ prequote'[k] = prequote[k]
  /\ execution'[k].version >= execution[k].version

LEMMA RecordsKept ==
  ASSUME IssueInvariant, [Next]_vars, NEW k \in Key
  PROVE  Kept(k)
<1>0. TypeOK /\ CommitsHold /\ execution[k].version \in Nat
  BY DEF IssueInvariant, TypeOK, Execution
<1>1. ASSUME UNCHANGED <<execution, prequote>> PROVE Kept(k)
  BY <1>0, <1>1 DEF Kept
<1>2. ASSUME NEW c \in Call, Reserve(c) PROVE Kept(k)
  <2>1. CASE k # key[c]
    <3>1. execution'[k] = execution[k] /\ prequote'[k] = prequote[k]
      BY <1>0, <1>2, <2>1, ReserveEffect DEF Others
    <3> QED
      BY <1>0, <3>1 DEF Kept
  <2>2. CASE k = key[c]
    <3>1. /\ prequote' = prequote
          /\ \/ /\ execution[k].state \notin {"SUCCEEDED", "FAILED"}
                /\ execution'[k].version \in {execution[k].version, execution[k].version + 1}
             \/ execution'[k] = execution[k]
      BY <1>0, <1>2, <2>2, ReserveEffect
    <3> QED
      BY <1>0, <3>1 DEF Kept
  <2> QED
    BY <2>1, <2>2
<1>3. ASSUME NEW c \in Call, NEW b \in BOOLEAN, Fail(c, b) PROVE Kept(k)
  <2>1. CASE k # key[c]
    <3>1. execution'[k] = execution[k] /\ prequote'[k] = prequote[k]
      BY <1>0, <1>3, <2>1, FailEffect DEF Others
    <3> QED
      BY <1>0, <3>1 DEF Kept
  <2>2. CASE k = key[c]
    <3>1. /\ prequote' = prequote
          /\ \/ /\ execution[k].state = "PROCESSING"
                /\ execution'[k].version = execution[k].version
             \/ execution'[k] = execution[k]
      BY <1>0, <1>3, <2>2, FailEffect
    <3> QED
      BY <1>0, <3>1 DEF Kept
  <2> QED
    BY <2>1, <2>2
<1>4. ASSUME NEW c \in Call, Commit(c) PROVE Kept(k)
  <2>1. CASE k # key[c]
    <3>1. execution'[k] = execution[k] /\ prequote'[k] = prequote[k]
      BY <1>0, <1>4, <2>1 DEF Commit, TypeOK
    <3> QED
      BY <1>0, <3>1 DEF Kept
  <2>2. CASE k = key[c]
    <3>1. execution[k].state = "PROCESSING" /\ execution[k].version = lease[c]
      BY <1>0, <1>4, <2>2 DEF Commit, CommitsHold
    <3>2. execution'[k].version = lease[c]
      BY <1>0, <1>4, <2>2 DEF Commit, TypeOK
    <3> QED
      BY <1>0, <3>1, <3>2 DEF Kept
  <2> QED
    BY <2>1, <2>2
<1>5. ASSUME NEW c \in Call, Work(c)
      PROVE  \/ Reserve(c) \/ Commit(c) \/ UNCHANGED <<execution, prequote>>
             \/ \E b \in BOOLEAN : Fail(c, b)
  BY <1>5 DEF Work, Inspect, Admit, Throw, Configure, StartPermit, RequireBudget, StartRouting,
              Route, Publish, Verify, Finish, Crash
<1>6. ASSUME (\E p \in Plan : ChangePlan(p)) \/ Tick \/ UNCHANGED vars
      PROVE  UNCHANGED <<execution, prequote>>
  BY <1>6 DEF ChangePlan, Tick, vars
<1> QED
  BY <1>1, <1>2, <1>3, <1>4, <1>5, <1>6 DEF Next

(* SUCCEEDED and FAILED are final and lease numbers never fall, whoever is  *)
(* late.                                                                    *)
THEOREM EndsAreFinal == Spec => ExecutionsEnd
<1>1. IssueInvariant /\ [Next]_vars => [\A k \in Key : Kept(k)]_vars
  BY RecordsKept
<1> QED
  BY <1>1, InvariantHolds, PTL DEF Spec, ExecutionsEnd, Kept
=============================================================================
