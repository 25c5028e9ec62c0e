-------------------------- MODULE WebhookDelivery --------------------------
(***************************************************************************)
(* Reliable delivery of the recorded B2B events to one integration's       *)
(* webhook (src/src/b2b-webhooks).  The outbox is the queue; a row of      *)
(* B2bWebhookDelivery is what is owed for an event, and the rows of        *)
(* B2bWebhookDeliveryAttempt are its history.                              *)
(*                                                                         *)
(* A Poller is one pass of tick() in some process: setInterval starts the  *)
(* next pass without waiting for the one before, so passes of one process  *)
(* overlap as those of two do.  A Request is an administrator's call of    *)
(* deliver().  Each leases in one transaction, talks to the receiver       *)
(* outside any, and records in another; nothing ties the last to the first *)
(* but what the lease returned.                                            *)
(***************************************************************************)
EXTENDS Integers

CONSTANTS
  Event, Poller, Request, None,
  MaxAttempts,   \* MAX_ATTEMPTS, 5 in the code
  Limit          \* bound on the attempts of one event: administrators may go on

Sender == Poller \cup Request
Answer == {"SUCCESS", "RETRYABLE", "TERMINAL"}      \* HttpDisposition
State  == {"PENDING", "DELIVERED", "EXHAUSTED"}

ASSUME SendersAreDistinct == Poller \cap Request = {} /\ None \notin Sender \cup Event
ASSUME BudgetAssumption == MaxAttempts \in Nat \ {0} /\ Limit \in Nat /\ Limit >= MaxAttempts

VARIABLES
  endpoint,   \* B2bWebhookEndpoint: "ABSENT", "DISABLED" or "ENABLED"
  secret,     \* secretCiphertext IS NOT NULL
  recorded,   \* the rows of B2bOutboxEvent
  covered,    \* those with occurredAt >= deliverFrom
  state,      \* B2bWebhookDelivery.state, "UNTRACKED" where there is no row
  count,      \* attemptCount
  due,        \* nextAttemptAt <= now
  lease,      \* who holds it; the code stores the process and never compares it
  lapsed,     \* leaseExpiresAt <= now
  attempts,   \* [number, answer] per event; number 0 stands for NULL
  received,   \* the events the receiver has accepted
  task        \* what each sender is doing

configuration == <<endpoint, secret>>
delivery      == <<state, count, due, lease, lapsed>>
vars == <<configuration, recorded, covered, delivery, attempts, received, task>>

Idle == [event |-> None, saw |-> "UNTRACKED", count |-> 0, stage |-> "IDLE"]

Attempt == [number : 0 .. Limit, answer : Answer]
Task    == [event : Event \cup {None}, saw : State \cup {"UNTRACKED"}, count : 0 .. Limit - 1,
            stage : Answer \cup {"IDLE", "ASKED", "SENT"}]

TypeOK ==
  /\ endpoint \in {"ABSENT", "DISABLED", "ENABLED"}
  /\ secret \in BOOLEAN
  /\ recorded \subseteq Event /\ covered \subseteq recorded
  /\ state \in [Event -> State \cup {"UNTRACKED"}]
  /\ count \in [Event -> 0 .. Limit]
  /\ due \subseteq {e \in Event : state[e] = "PENDING"}
  /\ lease \in [Event -> Sender \cup {None}]
  /\ lapsed \subseteq {e \in Event : lease[e] # None}
  /\ attempts \in [Event -> SUBSET Attempt]
  /\ received \subseteq recorded
  /\ task \in [Sender -> Task]

Init ==
  /\ endpoint = "ABSENT" /\ secret = FALSE
  /\ recorded = {} /\ covered = {}
  /\ state = [e \in Event |-> "UNTRACKED"] /\ count = [e \in Event |-> 0]
  /\ due = {} /\ lease = [e \in Event |-> None] /\ lapsed = {}
  /\ attempts = [e \in Event |-> {}] /\ received = {}
  /\ task = [w \in Sender |-> Idle]

-----------------------------------------------------------------------------
(* What may be asked of a state.                                            *)

Open == endpoint = "ENABLED" /\ secret

Held(e) == lease[e] # None /\ e \notin lapsed

Answered(w) == task[w].stage \in Answer

Numbers(e) == {a.number : a \in attempts[e]} \ {0}

(* Plausible fault: a conflict is read as "already delivered".              *)
NextStateConflictDelivers(answer, made) ==
  IF answer \in {"SUCCESS", "TERMINAL"} THEN "DELIVERED"
  ELSE IF made < MaxAttempts THEN "PENDING" ELSE "EXHAUSTED"

(* Plausible fault: one attempt too many.                                   *)
NextStateOneMore(answer, made) ==
  IF answer = "SUCCESS" THEN "DELIVERED"
  ELSE IF answer = "RETRYABLE" /\ made <= MaxAttempts THEN "PENDING"
  ELSE "EXHAUSTED"

NextState(answer, made) ==
  IF answer = "SUCCESS" THEN "DELIVERED"
  ELSE IF answer = "RETRYABLE" /\ made < MaxAttempts THEN "PENDING"
  ELSE "EXHAUSTED"

(* Plausible fault: no unique index on the ordinal.                         *)
AcceptedUnindexed(w) ==
  LET t == task[w]  e == t.event
      next == NextState(t.stage, t.count + 1)
  IN /\ t.count + 1 >= count[e]
     /\ state[e] = "DELIVERED" => next = "DELIVERED" /\ t.saw = "DELIVERED"
     /\ next = "PENDING"   => state[e] = "PENDING"
     /\ next = "EXHAUSTED" => t.saw # "EXHAUSTED" \/ state[e] = "EXHAUSTED"

(* Plausible fault: nothing is asked of the stamps.                         *)
AcceptedUnstamped(w) == task[w].count + 1 \notin Numbers(task[w].event)

(* Whether the database takes what w is about to record: the unique index   *)
(* on the ordinal, the count that never decreases, a delivered row that is  *)
(* neither reopened nor stamped again, and the CHECK on the two stamps.     *)
(* record() sets exhaustedAt only if the lease had not read one, and clears *)
(* it only on success.                                                      *)
Accepted(w) ==
  LET t == task[w]  e == t.event
      next == NextState(t.stage, t.count + 1)
  IN /\ t.count + 1 \notin Numbers(e)
     /\ t.count + 1 >= count[e]
     /\ state[e] = "DELIVERED" => next = "DELIVERED" /\ t.saw = "DELIVERED"
     /\ next = "PENDING"   => state[e] = "PENDING"
     /\ next = "EXHAUSTED" => t.saw # "EXHAUSTED" \/ state[e] = "EXHAUSTED"

-----------------------------------------------------------------------------
(* The outbox and the endpoint.                                             *)

(* occurredAt is taken before the completion commits, so the endpoint may   *)
(* have been created in between.                                            *)
RecordEvent(e) ==
  /\ e \notin recorded
  /\ recorded' = recorded \cup {e}
  /\ \/ covered' = covered
     \/ endpoint # "ABSENT" /\ covered' = covered \cup {e}
  /\ UNCHANGED <<configuration, delivery, attempts, received, task>>

ConfigureEndpoint ==
  /\ endpoint' \in {"DISABLED", "ENABLED"}
  /\ UNCHANGED <<secret, recorded, covered, delivery, attempts, received, task>>

IssueSecret ==
  /\ endpoint # "ABSENT" /\ secret' = TRUE
  /\ UNCHANGED <<endpoint, recorded, covered, delivery, attempts, received, task>>

-----------------------------------------------------------------------------
(* Leasing.                                                                 *)

Take(w, e) ==
  /\ lease' = [lease EXCEPT ![e] = w]
  /\ lapsed' = lapsed \ {e}

(* Plausible fault: a lease that has lapsed is respected all the same.      *)
LeaseDueUnheld(w, e) ==
  /\ task[w] = Idle /\ Open
  /\ state[e] = "PENDING" /\ e \in due /\ lease[e] = None
  /\ Take(w, e)
  /\ task' = [task EXCEPT ![w] = [event |-> e, saw |-> "PENDING",
                                  count |-> count[e], stage |-> "SENT"]]
  /\ UNCHANGED <<configuration, recorded, covered, state, count, due, attempts, received>>

LeaseDue(w, e) ==
  /\ task[w] = Idle /\ Open
  /\ state[e] = "PENDING" /\ e \in due /\ ~Held(e)
  /\ Take(w, e)
  /\ task' = [task EXCEPT ![w] = [event |-> e, saw |-> "PENDING",
                                  count |-> count[e], stage |-> "SENT"]]
  /\ UNCHANGED <<configuration, recorded, covered, state, count, due, attempts, received>>

(* Only where no due row was found; one another transaction has locked is   *)
(* not found (SKIP LOCKED), so the pass may come here in any case.          *)
LeaseFresh(w, e) ==
  /\ task[w] = Idle /\ Open
  /\ e \in covered /\ state[e] = "UNTRACKED"
  /\ state' = [state EXCEPT ![e] = "PENDING"]
  /\ due' = due \cup {e}
  /\ Take(w, e)
  /\ task' = [task EXCEPT ![w] = [event |-> e, saw |-> "PENDING", count |-> 0, stage |-> "SENT"]]
  /\ UNCHANGED <<configuration, recorded, covered, count, attempts, received>>

(* deliver() reads the event and the endpoint before its transaction.       *)
AskManually(w, e) ==
  /\ task[w] = Idle /\ e \in recorded /\ Open
  /\ task' = [task EXCEPT ![w] = [event |-> e, saw |-> "UNTRACKED",
                                  count |-> 0, stage |-> "ASKED"]]
  /\ UNCHANGED <<configuration, recorded, covered, delivery, attempts, received>>

Busy(w) ==
  /\ task[w].stage = "ASKED" /\ Held(task[w].event)
  /\ task' = [task EXCEPT ![w] = Idle]
  /\ UNCHANGED <<configuration, recorded, covered, delivery, attempts, received>>

LeaseManually(w) ==
  LET e == task[w].event IN
  /\ task[w].stage = "ASKED" /\ ~Held(e) /\ count[e] < Limit
  /\ IF state[e] = "PENDING" THEN Take(w, e) ELSE UNCHANGED <<lease, lapsed>>
  /\ task' = [task EXCEPT ![w] = [event |-> e, saw |-> state[e],
                                  count |-> count[e], stage |-> "SENT"]]
  /\ UNCHANGED <<configuration, recorded, covered, state, count, due, attempts, received>>

-----------------------------------------------------------------------------
(* The request, and what is written about it.                               *)

(* A receiver that answers anything but success, or never answers, may have *)
(* processed the event all the same.                                        *)
Hear(w, answer) ==
  /\ task[w].stage = "SENT"
  /\ task' = [task EXCEPT ![w].stage = answer]
  /\ \/ received' = received \cup {task[w].event}
     \/ answer # "SUCCESS" /\ UNCHANGED received
  /\ UNCHANGED <<configuration, recorded, covered, delivery, attempts>>

Tracked(w) == Answered(w) /\ task[w].saw # "UNTRACKED"

Written(w, number) ==
  attempts' = [attempts EXCEPT ![task[w].event] =
                 @ \cup {[number |-> number, answer |-> task[w].stage]}]

(* Plausible fault: a sender gives up its own lease only.                   *)
RecordKeepsLease(w) ==
  LET t == task[w]  e == t.event  made == t.count + 1 IN
  /\ Tracked(w) /\ Accepted(w)
  /\ Written(w, made)
  /\ state' = [state EXCEPT ![e] = NextState(t.stage, made)]
  /\ count' = [count EXCEPT ![e] = made]
  /\ due'   = due \ {e}
  /\ lease' = [lease EXCEPT ![e] = IF @ = w THEN None ELSE @]
  /\ lapsed' = IF lease[e] = w THEN lapsed \ {e} ELSE lapsed
  /\ task'  = [task EXCEPT ![w] = Idle]
  /\ UNCHANGED <<configuration, recorded, covered, received>>

(* The lease is dropped whoever holds it: the update names only the row.    *)
Record(w) ==
  LET t == task[w]  e == t.event  made == t.count + 1 IN
  /\ Tracked(w) /\ Accepted(w)
  /\ Written(w, made)
  /\ state' = [state EXCEPT ![e] = NextState(t.stage, made)]
  /\ count' = [count EXCEPT ![e] = made]
  /\ due'   = due \ {e}
  /\ lease' = [lease EXCEPT ![e] = None] /\ lapsed' = lapsed \ {e}
  /\ task'  = [task EXCEPT ![w] = Idle]
  /\ UNCHANGED <<configuration, recorded, covered, received>>

(* An event without a row when it was sent: one attempt, without ordinal.   *)
RecordLoose(w) ==
  /\ Answered(w) /\ task[w].saw = "UNTRACKED"
  /\ Written(w, 0)
  /\ task' = [task EXCEPT ![w] = Idle]
  /\ UNCHANGED <<configuration, recorded, covered, delivery, received>>

(* The transaction fails and nothing is left of the attempt: the            *)
(* administrator gets a 500; in a pass the rejection is nobody's to catch.  *)
Refuse(w) ==
  /\ Tracked(w) /\ ~Accepted(w)
  /\ task' = [task EXCEPT ![w] = Idle]
  /\ UNCHANGED <<configuration, recorded, covered, delivery, attempts, received>>

(* A process dies, or its transaction fails for reasons of its own; the     *)
(* receiver may have the event.                                             *)
Crash(w) ==
  /\ task[w] # Idle
  /\ task' = [task EXCEPT ![w] = Idle]
  /\ \/ UNCHANGED received
     \/ task[w].stage = "SENT" /\ received' = received \cup {task[w].event}
  /\ UNCHANGED <<configuration, recorded, covered, delivery, attempts>>

Rescue(e) ==
  /\ state[e] = "EXHAUSTED" /\ count[e] < Limit
  /\ state' = [state EXCEPT ![e] = "PENDING"]
  /\ due' = due \cup {e}
  /\ lease' = [lease EXCEPT ![e] = None] /\ lapsed' = lapsed \ {e}
  /\ UNCHANGED <<configuration, recorded, covered, count, attempts, received, task>>

-----------------------------------------------------------------------------
(* Time.                                                                    *)

Lapse(e) ==
  /\ Held(e) /\ lapsed' = lapsed \cup {e}
  /\ UNCHANGED <<configuration, recorded, covered, state, count, due, lease, attempts, received, task>>

ComeDue(e) ==
  /\ state[e] = "PENDING" /\ e \notin due /\ due' = due \cup {e}
  /\ UNCHANGED <<configuration, recorded, covered, state, count, lease, lapsed, attempts, received, task>>

-----------------------------------------------------------------------------
Finish(w) == Record(w) \/ RecordLoose(w) \/ Refuse(w)

Next ==
  \/ ConfigureEndpoint \/ IssueSecret
  \/ \E e \in Event :
       \/ RecordEvent(e) \/ Rescue(e) \/ Lapse(e) \/ ComeDue(e)
       \/ \E w \in Poller  : LeaseDue(w, e) \/ LeaseFresh(w, e)
       \/ \E w \in Request : AskManually(w, e)
  \/ \E w \in Request : Busy(w) \/ LeaseManually(w)
  \/ \E w \in Sender :
       \/ \E answer \in Answer : Hear(w, answer)
       \/ Finish(w) \/ Crash(w)

Spec == Init /\ [][Next]_vars

(* Time passes.  Polling goes on, and the queues are first come first       *)
(* served (ORDER BY nextAttemptAt, occurredAt), so what is leasable is      *)
(* leased in the end.  A request ends by its timeout; a pass may be lost to *)
(* a crash, but not every pass.  Administrators owe nothing.                *)
Fairness ==
  /\ \A e \in Event :
       /\ WF_vars(Lapse(e)) /\ WF_vars(ComeDue(e))
       /\ SF_vars(\E w \in Poller : LeaseDue(w, e) \/ LeaseFresh(w, e))
  /\ \A w \in Poller :
       /\ SF_vars(\E answer \in Answer : Hear(w, answer))
       /\ SF_vars(Finish(w))

FairSpec == Spec /\ Fairness
-----------------------------------------------------------------------------
(***************************************************************************)
(* Safety.                                                                 *)
(***************************************************************************)
(* However many senders overlap, lapse, crash and are refused, the numbered *)
(* attempts of an event are exactly 1 .. attemptCount, each with one answer:*)
(* no result is overwritten, counted twice or lost after it was counted.    *)
HistoryMatchesCount ==
  \A e \in Event :
    /\ Numbers(e) = 1 .. count[e]
    /\ \A a, b \in attempts[e] : a.number = b.number /\ a.number # 0 => a = b

(* An event is DELIVERED exactly when one of its numbered attempts was      *)
(* accepted, whichever sender made it and whatever the others recorded      *)
(* before or after; and then the receiver really has it.                    *)
DeliveredMeansReceived ==
  \A e \in Event :
    /\ state[e] = "DELIVERED" <=>
         \E a \in attempts[e] : a.number # 0 /\ a.answer = "SUCCESS"
    /\ state[e] = "DELIVERED" => e \in received

(* Whoever still holds the lease when its request ends can record what it   *)
(* heard: a sender is only refused after another took its event over.       *)
LeaseHolderCanRecord ==
  \A w \in Sender :
    Answered(w) /\ lease[task[w].event] = w => Accepted(w)

(* Beyond MAX_ATTEMPTS nothing waits for a backoff: an event is pending only*)
(* because a rescue made it due at once.                                    *)
BudgetKept ==
  \A e \in Event : state[e] = "PENDING" /\ count[e] >= MaxAttempts => e \in due

(* No late or repeated result undoes an ending.  What is DELIVERED stays so,*)
(* what is EXHAUSTED leaves that state only with a success or by a rescue,  *)
(* which records no attempt; and the history only grows.                    *)
EndingsStand ==
  [][ \A e \in Event :
        /\ state[e] = "DELIVERED" => state'[e] = "DELIVERED"
        /\ state[e] = "EXHAUSTED" /\ state'[e] = "PENDING" => attempts'[e] = attempts[e]
        /\ attempts[e] \subseteq attempts'[e] ]_vars

(* Every attempt that counts is accounted for in the step that counts it:   *)
(* it has the next number, and what becomes of the event follows from its   *)
(* answer and that number, whatever the sender had read before it sent.     *)
CountsAreAttempts ==
  [][ \A e \in Event : count'[e] # count[e] =>
        /\ count'[e] = count[e] + 1
        /\ \E answer \in Answer :
             /\ attempts'[e] = attempts[e] \cup {[number |-> count'[e], answer |-> answer]}
             /\ state'[e] = NextState(answer, count'[e]) ]_vars

(***************************************************************************)
(* Liveness.                                                               *)
(***************************************************************************)
Finished(e) == state[e] \in {"DELIVERED", "EXHAUSTED"}

(* With the endpoint enabled and signed for good, every event past the      *)
(* boundary and every event rescued is handed over or given up, whatever    *)
(* crashes, and however administrators and lapsed leases interfere.         *)
HandedOverOrGivenUp ==
  <>[]Open => \A e \in Event : e \in covered /\ ~Finished(e) ~> Finished(e)

(***************************************************************************)
(* What the documentation says, and the code does not do.                  *)
(***************************************************************************)
(* A resend of a DELIVERED event leaves it DELIVERED "with the extra        *)
(* attempt audited" (b2b-webhooks.service.ts:431): what a resend hears can  *)
(* be recorded.                                                             *)
ResendIsAudited ==
  \A w \in Request : Answered(w) /\ task[w].saw = "DELIVERED" => Accepted(w)

(* An event that a rescue put back in the queue.                            *)
Rescued(e) ==
  state[e] = "PENDING"
    /\ \/ count[e] >= MaxAttempts
       \/ [number |-> count[e], answer |-> "TERMINAL"] \in attempts[e]

(* "A rescue buys one more attempt; a handover that fails again returns to  *)
(* EXHAUSTED" (webhook-operations.service.ts:235).                          *)
RescueBuysOneAttempt ==
  [][ \A e \in Event :
        Rescued(e) /\ count'[e] > count[e] => state'[e] # "PENDING" ]_vars
=============================================================================
