---------------------------- MODULE PrequoteIssue ----------------------------
(***************************************************************************)
(* How a prequote is issued (PrequotesService.create).  Pricing needs a    *)
(* paid call to the routing provider, made while no transaction is open;   *)
(* so that it is made at most once at a time for each Idempotency-Key, and *)
(* no more often than the integration may, a call first gets               *)
(*                                                                         *)
(*   a permit  from DurablePrequoteConsumption: reserved, started just     *)
(*             before routing, counted for a while whatever became of it   *)
(*   a lease   from PrequotePersistenceService: the execution of the key,  *)
(*             fenced by its version, for a number of attempts             *)
(*                                                                         *)
(* Calls may crash anywhere, be slow, or lose the answer of a commit.  All *)
(* calls here are of one integration and send the same conditions for the  *)
(* same key (KeyedCalls has those that do not).  Each transaction is one   *)
(* step, but the one that publishes: time passes before it commits, and    *)
(* inspect(), which locks nothing, may come in between.  All of them read  *)
(* the database's clock.                                                   *)
(***************************************************************************)
EXTENDS Integers, FiniteSets

CONSTANTS
  Call, Key, Plan, None,
  LeaseTime, MaxAttempts,  \* of an execution
  Budget,                  \* what must be left of a lease to start routing
  ReserveTime,             \* until when a permit must be started
  StartBy,                 \* within what time of that routing must begin
  RouteTime,               \* what the timeouts of the routing adapter add up to
  ProtectTime,             \* how long a started permit takes a slot
  Window, PerWindow,       \* calls that may start in a window of time
  Concurrent,              \* slots
  MaxTime                  \* bounds the clock

ASSUME IssueAssumption ==
  /\ LeaseTime \in Nat /\ MaxAttempts \in Nat \ {0} /\ MaxTime \in Nat
  /\ {Budget, ReserveTime, StartBy, RouteTime, ProtectTime} \subseteq Nat
  /\ {Window, PerWindow, Concurrent} \subseteq Nat
  /\ IsFiniteSet(Call) /\ None \notin Plan
  /\ StartBy + RouteTime <= Budget /\ StartBy + RouteTime <= ProtectTime

VARIABLES
  now,
  plan,       \* the active rate plan, with its zone
  execution,  \* of each key: state, version, attempts and end of lease
  prequote,   \* plan of the prequote issued for each key
  permit,     \* of each call: state, and since when it is reserved or started
  step,       \* where each call is
  key,        \* its Idempotency-Key
  lease,      \* the version it holds
  priced,     \* the plan it is pricing by
  answer      \* what it was told

vars   == <<now, plan, execution, prequote, permit, step, key, lease, priced, answer>>
memory == <<lease, priced>>

Execution == [state : {"NONE", "PROCESSING", "RETRYABLE_FAILED", "FAILED", "SUCCEEDED"},
              version : Nat, attempts : 0..MaxAttempts, until : Nat]
(* UNUSED is CANCELLED or EXPIRED, USED is FINISHED or ABANDONED.           *)
Permit == [state : {"NONE", "RESERVED", "STARTED", "UNUSED", "USED"}, since : Nat]

TypeOK ==
  /\ now \in 0..MaxTime
  /\ plan \in Plan
  /\ execution \in [Key -> Execution]
  /\ prequote \in [Key -> Plan \cup {None}]
  /\ permit \in [Call -> Permit]
  /\ step \in [Call -> {"inspect", "admit", "reserve", "configure", "start", "budget", "ready",
                        "routing", "publish", "commit", "fail", "verify", "finish", "done"}]
  /\ key \in [Call -> Key]
  /\ lease \in [Call -> Nat]
  /\ priced \in [Call -> Plan \cup {None}]
  /\ answer \in [Call -> {"NONE", "DONE", "FAILED", "EXHAUSTED", "LATER"}]

Init ==
  /\ now = 0
  /\ plan \in Plan
  /\ execution = [k \in Key |-> [state |-> "NONE", version |-> 0, attempts |-> 0, until |-> 0]]
  /\ prequote = [k \in Key |-> None]
  /\ permit = [c \in Call |-> [state |-> "NONE", since |-> 0]]
  /\ step = [c \in Call |-> "inspect"]
  /\ key \in [Call -> Key]
  /\ lease = [c \in Call |-> 0]
  /\ priced = [c \in Call |-> None]
  /\ answer = [c \in Call |-> "NONE"]

-----------------------------------------------------------------------------
Exec(c) == execution[key[c]]

Goto(c, s) == step' = [step EXCEPT ![c] = s]

(* A call that has its answer forgets lease and price.                      *)
Tell(c, what, s) ==
  /\ Goto(c, s)
  /\ answer' = [answer EXCEPT ![c] = what]
  /\ lease' = [lease EXCEPT ![c] = 0]
  /\ priced' = [priced EXCEPT ![c] = None]

Go(c, s) == Goto(c, s) /\ UNCHANGED <<answer, lease, priced>>

Live(e) == e.state = "PROCESSING" /\ now < e.until

(* What inspect() and reserve() find of a key.  LATER is every answer to    *)
(* try again: here that another call is in progress.                        *)
Known(e) ==
  IF e.state = "SUCCEEDED" THEN "DONE"
  ELSE IF e.state = "FAILED" THEN "FAILED"
  ELSE IF Live(e) THEN "LATER"
  ELSE IF e.attempts < MaxAttempts THEN "AVAILABLE"
  ELSE "EXHAUSTED"

(* The row of the key is locked by a transaction about to publish.          *)
Locked(k) == \E c \in Call : step[c] = "commit" /\ key[c] = k

Owned(c) == Live(Exec(c)) /\ Exec(c).version = lease[c]

Inspect(c) ==
  /\ step[c] = "inspect"
  /\ \/ Known(Exec(c)) = "AVAILABLE" /\ Go(c, "admit")
     \/ Known(Exec(c)) # "AVAILABLE" /\ Tell(c, Known(Exec(c)), "done")
  /\ UNCHANGED <<now, plan, execution, prequote, permit, key>>

-----------------------------------------------------------------------------
Started(p) == p.state \in {"STARTED", "USED"}

(* Whether the permit still counts, when a started one counts for so long.  *)
Counts(p, time) ==
  \/ Started(p) /\ now < p.since + time
  \/ p.state = "RESERVED" /\ now < p.since + ReserveTime

Counted(time) == { c \in Call : Counts(permit[c], time) }

HasRoom ==
  /\ Cardinality(Counted(ProtectTime)) < Concurrent
  /\ Cardinality(Counted(Window)) < PerWindow

Closed(p) ==
  [state |-> IF Started(p) THEN "USED" ELSE "UNUSED",
   since |-> IF Started(p) THEN p.since ELSE 0]

(* Permits whose time is over are closed by whoever asks for one next.      *)
Overdue(p) == p.state \in {"RESERVED", "STARTED"} /\ ~Counts(p, ProtectTime)

Admit(c) ==
  /\ step[c] = "admit"
  /\ permit' = [d \in Call |->
                  IF d = c /\ HasRoom THEN [state |-> "RESERVED", since |-> now]
                  ELSE IF Overdue(permit[d]) THEN Closed(permit[d])
                  ELSE permit[d]]
  /\ \/ HasRoom /\ Go(c, "reserve")
     \/ ~HasRoom /\ Tell(c, "LATER", "done")
  /\ UNCHANGED <<now, plan, execution, prequote, key>>

(* The key's first execution, or the next attempt of one that failed or     *)
(* whose lease ran out.  An execution out of attempts becomes FAILED.       *)
Reserve(c) ==
  LET e == Exec(c)
  IN  /\ step[c] = "reserve" /\ ~Locked(key[c])
      /\ \/ /\ Known(e) = "AVAILABLE"
            /\ execution' = [execution EXCEPT ![key[c]] =
                 [state |-> "PROCESSING", version |-> e.version + 1,
                  attempts |-> e.attempts + 1, until |-> now + LeaseTime]]
            /\ lease' = [lease EXCEPT ![c] = e.version + 1]
            /\ Goto(c, "configure")
            /\ UNCHANGED <<answer, priced>>
         \/ /\ Known(e) = "EXHAUSTED"
            /\ execution' = [execution EXCEPT ![key[c]] =
                 [state |-> "FAILED", version |-> e.version, attempts |-> e.attempts,
                  until |-> e.until]]
            /\ Tell(c, "FAILED", "finish")
         \/ /\ Known(e) \in {"DONE", "FAILED", "LATER"}
            /\ Tell(c, Known(e), "finish")
            /\ UNCHANGED execution
      /\ UNCHANGED <<now, plan, prequote, permit, key>>

-----------------------------------------------------------------------------
(* Anything may throw before the prequote is published: a rule, no plan,    *)
(* the routing provider, a credential revoked meanwhile, the database.      *)
Throw(c) ==
  /\ step[c] \in {"configure", "start", "budget", "ready", "routing", "publish", "commit"}
  /\ Go(c, "fail")
  /\ UNCHANGED <<now, plan, execution, prequote, permit, key>>

Configure(c) ==
  /\ step[c] = "configure"
  /\ priced' = [priced EXCEPT ![c] = plan]
  /\ Goto(c, "start")
  /\ UNCHANGED <<now, plan, execution, prequote, permit, key, lease, answer>>

StartPermit(c) ==
  /\ step[c] = "start"
  /\ permit[c].state = "RESERVED" /\ now < permit[c].since + ReserveTime
  /\ permit' = [permit EXCEPT ![c] = [state |-> "STARTED", since |-> now]]
  /\ Go(c, "budget")
  /\ UNCHANGED <<now, plan, execution, prequote, key>>

(* Plausible fault: any lease that is still held will do.                   *)
RequireLease(c) ==
  /\ step[c] = "budget"
  /\ Owned(c)
  /\ Go(c, "ready")
  /\ UNCHANGED <<now, plan, execution, prequote, permit, key>>

RequireBudget(c) ==
  /\ step[c] = "budget"
  /\ Owned(c) /\ Exec(c).until - now >= Budget
  /\ Go(c, "ready")
  /\ UNCHANGED <<now, plan, execution, prequote, permit, key>>

(* The routing provider is called as soon as the permit is found ready.     *)
StartRouting(c) ==
  /\ step[c] = "ready"
  /\ permit[c].state = "STARTED" /\ now < permit[c].since + StartBy
  /\ Go(c, "routing")
  /\ UNCHANGED <<now, plan, execution, prequote, permit, key>>

Route(c) ==
  /\ step[c] = "routing"
  /\ Go(c, "publish")
  /\ UNCHANGED <<now, plan, execution, prequote, permit, key>>

(* Plausible fault: the prequote is published at the plan it was priced by, *)
(* even if another is active by now.                                        *)
PublishUnrevised(c) ==
  /\ step[c] = "publish" /\ Owned(c)
  /\ Go(c, "commit")
  /\ UNCHANGED <<now, plan, execution, prequote, permit, key>>

(* The key is locked and the plan read again, then the lease.               *)
Publish(c) ==
  /\ step[c] = "publish" /\ Owned(c) /\ plan = priced[c]
  /\ Go(c, "commit")
  /\ UNCHANGED <<now, plan, execution, prequote, permit, key>>

(* If the answer of the commit is lost, the call takes it for a failure.    *)
Commit(c) ==
  /\ step[c] = "commit"
  /\ prequote' = [prequote EXCEPT ![key[c]] = priced[c]]
  /\ execution' = [execution EXCEPT ![key[c]] =
       [state |-> "SUCCEEDED", version |-> lease[c], attempts |-> Exec(c).attempts,
        until |-> Exec(c).until]]
  /\ Tell(c, "DONE", "finish") \/ Go(c, "fail")
  /\ UNCHANGED <<now, plan, permit, key>>

(* Plausible fault: a failure is recorded whoever holds the lease by now.   *)
FailUnfenced(c, retryable) ==
  /\ step[c] = "fail" /\ ~Locked(key[c])
  /\ LET again == retryable /\ Exec(c).attempts < MaxAttempts
     IN  /\ execution' = [execution EXCEPT ![key[c]] =
              [state |-> IF again THEN "RETRYABLE_FAILED" ELSE "FAILED",
               version |-> Exec(c).version, attempts |-> Exec(c).attempts,
               until |-> Exec(c).until]]
         /\ Tell(c, IF again THEN "LATER" ELSE "FAILED", "finish")
  /\ UNCHANGED <<now, plan, prequote, permit, key>>

Fail(c, retryable) ==
  /\ step[c] = "fail" /\ ~Locked(key[c])
  /\ \/ /\ Owned(c)
        /\ LET again == retryable /\ Exec(c).attempts < MaxAttempts
           IN  /\ execution' = [execution EXCEPT ![key[c]] =
                    [state |-> IF again THEN "RETRYABLE_FAILED" ELSE "FAILED",
                     version |-> lease[c], attempts |-> Exec(c).attempts,
                     until |-> Exec(c).until]]
               /\ Tell(c, IF again THEN "LATER" ELSE "FAILED", "finish")
     \/ ~Owned(c) /\ Go(c, "verify") /\ UNCHANGED execution
  /\ UNCHANGED <<now, plan, prequote, permit, key>>

(* The lease is lost: only what is on record can still be answered.         *)
Verify(c) ==
  /\ step[c] = "verify"
  /\ Tell(c, IF Known(Exec(c)) = "AVAILABLE" THEN "LATER" ELSE Known(Exec(c)), "finish")
  /\ UNCHANGED <<now, plan, execution, prequote, permit, key>>

(* A permit that cannot be closed is left to the next admission.            *)
Finish(c) ==
  /\ step[c] = "finish"
  /\ permit' \in { permit, [permit EXCEPT ![c] = Closed(permit[c])] }
  /\ Go(c, "done")
  /\ UNCHANGED <<now, plan, execution, prequote, key>>

(* The process dies; permit and lease are left as they are.                 *)
Crash(c) ==
  /\ step[c] \notin {"inspect", "done"}
  /\ Tell(c, answer[c], "done")
  /\ UNCHANGED <<now, plan, execution, prequote, permit, key>>

(* It waits for whoever has locked the plan to publish by it.               *)
ChangePlan(p) ==
  /\ p # plan /\ \A c \in Call : step[c] # "commit"
  /\ plan' = p
  /\ UNCHANGED <<now, execution, prequote, permit, step, key, memory, answer>>

(* A routing call ends within the timeouts of its adapter.                  *)
Tick ==
  /\ now < MaxTime
  /\ \A c \in Call : step[c] = "routing" => now + 1 < permit[c].since + StartBy + RouteTime
  /\ now' = now + 1
  /\ UNCHANGED <<plan, execution, prequote, permit, step, key, memory, answer>>

Work(c) ==
  \/ Inspect(c) \/ Admit(c) \/ Reserve(c) \/ Throw(c) \/ Configure(c) \/ StartPermit(c)
  \/ RequireBudget(c) \/ StartRouting(c) \/ Route(c) \/ Publish(c)
  \/ Commit(c)
  \/ \E retryable \in BOOLEAN : Fail(c, retryable)
  \/ Verify(c) \/ Finish(c) \/ Crash(c)

Next ==
  \/ \E c \in Call : Work(c)
  \/ \E p \in Plan : ChangePlan(p)
  \/ Tick

Spec == Init /\ [][Next]_vars
-----------------------------------------------------------------------------
Routing == { c \in Call : step[c] = "routing" }

(* The routing provider is never paid for one key by two calls at the same  *)
(* time, though the lease of a slow or dead call is taken over; and never   *)
(* more often for the integration than its limits say, whatever calls that  *)
(* crash, are late or cannot close their permits leave behind.              *)
WithinLimits ==
  /\ \A c, d \in Routing : key[c] = key[d] => c = d
  /\ Cardinality(Routing) <= Concurrent
  /\ Cardinality({ c \in Call : Started(permit[c]) /\ now < permit[c].since + Window })
       <= PerWindow

(* What a call was told stays true: DONE means that the prequote exists,    *)
(* even if the answer of its commit was lost; after FAILED none ever will,  *)
(* though another call may be at work on the key as it is said.  EXHAUSTED  *)
(* promises nothing: inspect() says so of an expired lease without locking  *)
(* it, and a prequote whose transaction is about to commit still appears.   *)
AnswersStand ==
  \A c \in Call :
    /\ answer[c] = "DONE" => prequote[key[c]] # None
    /\ answer[c] = "FAILED" => prequote[key[c]] = None

(* A prequote is issued once for its key, at the price of the plan that is  *)
(* active at that moment, by the call that has the last lease of the key    *)
(* and whose permit was started.                                            *)
IssuedByHolder ==
  [][ \A k \in Key : prequote'[k] # prequote[k] =>
        /\ prequote[k] = None /\ prequote'[k] = plan
        /\ \E c \in Call :
              /\ key[c] = k /\ step[c] = "commit" /\ Started(permit[c])
              /\ execution[k].state = "PROCESSING" /\ execution[k].version = lease[c] ]_vars

(* The end of an execution is its end: SUCCEEDED or FAILED, neither its row *)
(* nor its prequote changes again, whichever calls of the key are late,     *)
(* retry or have yet to hear of it; and leases are never numbered down.     *)
ExecutionsEnd ==
  [][ \A k \in Key :
        /\ execution[k].state \in {"SUCCEEDED", "FAILED"} =>
             execution'[k] = execution[k] /\ prequote'[k] = prequote[k]
        /\ execution'[k].version >= execution[k].version ]_vars
=============================================================================
