----------------------- MODULE WebhookDeliveryProofs -----------------------
(***************************************************************************)
(* Proofs about WebhookDelivery, for any number of events, passes and      *)
(* administrators, any budget and any bound on the attempts made.          *)
(***************************************************************************)
EXTENDS WebhookDelivery, TLAPS

USE SendersAreDistinct, BudgetAssumption

InFlight(w) == task[w].stage = "SENT" \/ Answered(w)

(* What a sender still knows of the event it has sent: the count can only   *)
(* have grown since, and has not while the lease is its own.                *)
TaskKnows(w) ==
  LET t == task[w]  e == t.event IN
  /\ t.stage = "IDLE" => t = Idle
  /\ t.stage # "IDLE" => e \in recorded
  /\ InFlight(w) =>
       /\ t.count <= count[e]
       /\ t.saw = "DELIVERED" => state[e] = "DELIVERED"
       /\ t.saw # "UNTRACKED" => state[e] # "UNTRACKED"
       /\ lease[e] = w => t.saw = "PENDING" /\ t.count = count[e]
  /\ t.stage = "SUCCESS" => e \in received

(* Only recorded events have a row, only work that is owed is leased, an    *)
(* event without a row has no count, and what is owed has room for another  *)
(* attempt.                                                                 *)
RowKnows(e) ==
  /\ state[e] # "UNTRACKED" => e \in recorded
  /\ lease[e] # None => state[e] = "PENDING"
  /\ state[e] = "UNTRACKED" => count[e] = 0
  /\ state[e] = "PENDING" => count[e] < Limit

Known == (\A w \in Sender : TaskKnows(w)) /\ (\A e \in Event : RowKnows(e))

DeliveryInvariant ==
  /\ TypeOK /\ Known
  /\ HistoryMatchesCount /\ DeliveredMeansReceived /\ BudgetKept

-----------------------------------------------------------------------------
LEMMA InitInvariant == Init => DeliveryInvariant
<1> SUFFICES ASSUME Init PROVE DeliveryInvariant
  OBVIOUS
<1>1. TypeOK
  <2>1. Idle \in Task
    BY DEF Idle, Task
  <2>2. task \in [Sender -> Task] /\ count \in [Event -> 0 .. Limit]
    BY <2>1 DEF Init
  <2>3. /\ state \in [Event -> State \cup {"UNTRACKED"}]
        /\ lease \in [Event -> Sender \cup {None}] /\ attempts \in [Event -> SUBSET Attempt]
    BY DEF Init
  <2>4. QED
    BY <2>2, <2>3 DEF Init, TypeOK
<1>2. Known
  BY DEF Init, Known, TaskKnows, RowKnows, InFlight, Answered, Answer, Idle
<1>3. \A e \in Event : attempts[e] = {} /\ Numbers(e) = {} /\ count[e] = 0 /\ state[e] = "UNTRACKED"
  BY DEF Init, Numbers
<1>4. HistoryMatchesCount /\ DeliveredMeansReceived /\ BudgetKept
  <2>1. HistoryMatchesCount
    <3>1. 1 .. 0 = {}
      OBVIOUS
    <3>2. QED
      BY <1>3, <3>1 DEF HistoryMatchesCount
  <2>2. DeliveredMeansReceived /\ BudgetKept
    BY <1>3 DEF DeliveredMeansReceived, BudgetKept
  <2>3. QED
    BY <2>1, <2>2
<1>5. QED
  BY <1>1, <1>2, <1>4 DEF DeliveryInvariant

(* A sender at work holds a recorded event and a well-formed task.          *)
LEMMA TaskType ==
  ASSUME TypeOK, Known, NEW w \in Sender, task[w].stage # "IDLE"
  PROVE  /\ task[w].event \in recorded /\ task[w].event \in Event
         /\ task[w].count \in 0 .. Limit - 1
         /\ task[w].saw \in State \cup {"UNTRACKED"}
  BY DEF TypeOK, Known, TaskKnows, Task

(* The attempt that is recorded is the next one: its number is free, and    *)
(* every lower number is taken.                                             *)
LEMMA RecordsNext ==
  ASSUME DeliveryInvariant, NEW w \in Sender, Tracked(w), Accepted(w)
  PROVE  /\ task[w].event \in Event /\ task[w].event \in recorded
         /\ task[w].stage \in Answer
         /\ task[w].count = count[task[w].event]
         /\ task[w].count \in 0 .. Limit - 1
         /\ state[task[w].event] # "UNTRACKED"
<1> DEFINE e == task[w].event
<1>1. task[w].stage \in Answer /\ task[w].stage # "IDLE" /\ task[w].saw # "UNTRACKED"
  BY DEF Tracked, Answered, Answer
<1>2. e \in Event /\ e \in recorded /\ task[w].count \in 0 .. Limit - 1
  BY <1>1, TaskType DEF DeliveryInvariant
<1>3. task[w].count <= count[e] /\ state[e] # "UNTRACKED"
  BY <1>1, <1>2 DEF DeliveryInvariant, Known, TaskKnows, InFlight, Answered
<1>4. Numbers(e) = 1 .. count[e] /\ count[e] \in 0 .. Limit
  BY <1>2 DEF DeliveryInvariant, TypeOK, HistoryMatchesCount
<1>5. task[w].count + 1 \notin Numbers(e)
  BY DEF Accepted
<1>6. QED
  BY <1>1, <1>2, <1>3, <1>4, <1>5

LEMMA NextStateType ==
  ASSUME NEW answer \in Answer, NEW made \in Int
  PROVE  NextState(answer, made) \in State
  BY DEF NextState, Answer, State

-----------------------------------------------------------------------------
(* Every step keeps the tables well formed.                                 *)
LEMMA StepTypeOK ==
  ASSUME DeliveryInvariant, [Next]_vars PROVE TypeOK'
<1> USE DEF delivery, configuration
<1>1. ASSUME ConfigureEndpoint \/ IssueSecret PROVE TypeOK'
  BY <1>1 DEF DeliveryInvariant, TypeOK, ConfigureEndpoint, IssueSecret
<1>2. ASSUME NEW e \in Event, RecordEvent(e) PROVE TypeOK'
  BY <1>2 DEF DeliveryInvariant, TypeOK, RecordEvent
<1>3. ASSUME NEW e \in Event, Rescue(e) PROVE TypeOK'
  BY <1>3 DEF DeliveryInvariant, TypeOK, Rescue, State
<1>4. ASSUME NEW e \in Event, Lapse(e) \/ ComeDue(e) PROVE TypeOK'
  BY <1>4 DEF DeliveryInvariant, TypeOK, Lapse, ComeDue, Held
<1>5. ASSUME NEW w \in Poller, NEW e \in Event, LeaseDue(w, e) PROVE TypeOK'
  <2>1. w \in Sender /\ w # None /\ count[e] \in 0 .. Limit - 1
    BY <1>5 DEF LeaseDue, DeliveryInvariant, Known, RowKnows, TypeOK, Sender
  <2>2. [event |-> e, saw |-> "PENDING", count |-> count[e], stage |-> "SENT"] \in Task
    BY <2>1 DEF Task, State
  <2>3. task' \in [Sender -> Task]
    BY <1>5, <2>1, <2>2 DEF LeaseDue, DeliveryInvariant, TypeOK
  <2>4. QED
    BY <1>5, <2>1, <2>3 DEF DeliveryInvariant, TypeOK, LeaseDue, Take
<1>6. ASSUME NEW w \in Poller, NEW e \in Event, LeaseFresh(w, e) PROVE TypeOK'
  <2>1. w \in Sender /\ w # None
    BY DEF Sender
  <2>2. [event |-> e, saw |-> "PENDING", count |-> 0, stage |-> "SENT"] \in Task
    BY DEF Task, State
  <2>3. task' \in [Sender -> Task]
    BY <1>6, <2>1, <2>2 DEF LeaseFresh, DeliveryInvariant, TypeOK
  <2>4. QED
    <3>1. state' \in [Event -> State \cup {"UNTRACKED"}] /\ lease' \in [Event -> Sender \cup {None}]
      BY <1>6, <2>1 DEF DeliveryInvariant, TypeOK, LeaseFresh, Take, State
    <3>2. due' \subseteq {x \in Event : state'[x] = "PENDING"}
      BY <1>6 DEF DeliveryInvariant, TypeOK, LeaseFresh
    <3>3. lapsed' \subseteq {x \in Event : lease'[x] # None}
      BY <1>6 DEF DeliveryInvariant, TypeOK, LeaseFresh, Take
    <3>4. QED
      BY <1>6, <2>3, <3>1, <3>2, <3>3 DEF DeliveryInvariant, TypeOK, LeaseFresh, Take
<1>7. ASSUME NEW w \in Request, NEW e \in Event, AskManually(w, e) PROVE TypeOK'
  <2>1. [event |-> e, saw |-> "UNTRACKED", count |-> 0, stage |-> "ASKED"] \in Task
    BY DEF Task
  <2>2. QED
    BY <1>7, <2>1 DEF DeliveryInvariant, TypeOK, AskManually, Sender
<1>8. ASSUME NEW w \in Sender, task' = [task EXCEPT ![w] = Idle]
      PROVE  DeliveryInvariant => task' \in [Sender -> Task]
  BY <1>8 DEF DeliveryInvariant, TypeOK, Idle, Task
<1>9. ASSUME NEW w \in Request, Busy(w) PROVE TypeOK'
  BY <1>8, <1>9 DEF DeliveryInvariant, TypeOK, Busy, Sender
<1>10. ASSUME NEW w \in Request, LeaseManually(w) PROVE TypeOK'
  <2> DEFINE e == task[w].event
  <2>1. w \in Sender /\ w # None /\ task[w].stage # "IDLE"
    BY <1>10 DEF Sender, LeaseManually
  <2>2. e \in Event /\ count[e] \in 0 .. Limit - 1 /\ state[e] \in State \cup {"UNTRACKED"}
    BY <1>10, <2>1, TaskType DEF LeaseManually, DeliveryInvariant, TypeOK
  <2>3. [event |-> e, saw |-> state[e], count |-> count[e], stage |-> "SENT"] \in Task
    BY <2>2 DEF Task
  <2>4. task' \in [Sender -> Task]
    BY <1>10, <2>1, <2>3 DEF LeaseManually, DeliveryInvariant, TypeOK
  <2>5. lease' \in [Event -> Sender \cup {None}] /\ lapsed' \subseteq {x \in Event : lease'[x] # None}
    BY <1>10, <2>1, <2>2 DEF LeaseManually, Take, DeliveryInvariant, TypeOK
  <2>6. QED
    BY <1>10, <2>4, <2>5 DEF DeliveryInvariant, TypeOK, LeaseManually
<1>11. ASSUME NEW w \in Sender, NEW answer \in Answer, Hear(w, answer) PROVE TypeOK'
  <2>1. task[w].event \in recorded
    BY <1>11, TaskType DEF Hear, DeliveryInvariant
  <2>2. task' \in [Sender -> Task]
    BY <1>11 DEF Hear, DeliveryInvariant, TypeOK, Task
  <2>3. QED
    BY <1>11, <2>1, <2>2 DEF DeliveryInvariant, TypeOK, Hear
<1>12. ASSUME NEW w \in Sender, Record(w) PROVE TypeOK'
  <2> DEFINE e == task[w].event  made == task[w].count + 1
  <2>1. e \in Event /\ task[w].stage \in Answer /\ made \in 1 .. Limit
    BY <1>12, RecordsNext DEF Record
  <2>2. NextState(task[w].stage, made) \in State
    BY <2>1, NextStateType
  <2>3. [number |-> made, answer |-> task[w].stage] \in Attempt
    BY <2>1 DEF Attempt
  <2>4. attempts' \in [Event -> SUBSET Attempt]
    BY <1>12, <2>1, <2>3 DEF Record, Written, DeliveryInvariant, TypeOK
  <2>5. task' \in [Sender -> Task]
    BY <1>8, <1>12 DEF Record
  <2>6. QED
    <3>1. /\ state' \in [Event -> State \cup {"UNTRACKED"}] /\ count' \in [Event -> 0 .. Limit]
          /\ lease' \in [Event -> Sender \cup {None}]
      BY <1>12, <2>1, <2>2 DEF DeliveryInvariant, TypeOK, Record
    <3>2. due' \subseteq {x \in Event : state'[x] = "PENDING"}
      BY <1>12, <2>1 DEF DeliveryInvariant, TypeOK, Record
    <3>3. lapsed' \subseteq {x \in Event : lease'[x] # None}
      BY <1>12, <2>1 DEF DeliveryInvariant, TypeOK, Record
    <3>4. QED
      BY <1>12, <2>4, <2>5, <3>1, <3>2, <3>3 DEF DeliveryInvariant, TypeOK, Record
<1>13. ASSUME NEW w \in Sender, RecordLoose(w) PROVE TypeOK'
  <2>1. task[w].event \in Event /\ task[w].stage \in Answer
    BY <1>13, TaskType DEF RecordLoose, Answered, Answer, DeliveryInvariant
  <2>2. [number |-> 0, answer |-> task[w].stage] \in Attempt
    BY <2>1 DEF Attempt
  <2>3. attempts' \in [Event -> SUBSET Attempt]
    BY <1>13, <2>1, <2>2 DEF RecordLoose, Written, DeliveryInvariant, TypeOK
  <2>4. task' \in [Sender -> Task]
    BY <1>8, <1>13 DEF RecordLoose
  <2>5. QED
    BY <1>13, <2>3, <2>4 DEF DeliveryInvariant, TypeOK, RecordLoose
<1>14. ASSUME NEW w \in Sender, Refuse(w) PROVE TypeOK'
  BY <1>8, <1>14 DEF DeliveryInvariant, TypeOK, Refuse
<1>15. ASSUME NEW w \in Sender, Crash(w) PROVE TypeOK'
  <2>1. task[w].stage = "SENT" => task[w].event \in recorded
    BY TaskType DEF DeliveryInvariant
  <2>2. QED
    BY <1>8, <1>15, <2>1 DEF DeliveryInvariant, TypeOK, Crash
<1>16. ASSUME UNCHANGED vars PROVE TypeOK'
  BY <1>16 DEF DeliveryInvariant, TypeOK, vars
<1>17. QED
  BY <1>1, <1>2, <1>3, <1>4, <1>5, <1>6, <1>7, <1>9, <1>10, <1>11, <1>12, <1>13,
     <1>14, <1>15, <1>16 DEF Next, Finish
-----------------------------------------------------------------------------
(* What a sender knows survives the steps of the others: the columns it     *)
(* relies on only move forward, and not at all while it holds the lease.    *)
LEMMA OthersKnow ==
  ASSUME TypeOK, Known, NEW v \in Sender, task'[v] = task[v],
         recorded \subseteq recorded', received \subseteq received',
         \A e \in Event :
           /\ count[e] <= count'[e] /\ count'[e] \in Nat
           /\ state[e] = "DELIVERED" => state'[e] = "DELIVERED"
           /\ state[e] # "UNTRACKED" => state'[e] # "UNTRACKED"
           /\ lease'[e] = v => lease[e] = v /\ count'[e] = count[e]
  PROVE  TaskKnows(v)'
<1> DEFINE e == task[v].event
<1>1. CASE task[v].stage = "IDLE"
  BY <1>1 DEF Known, TaskKnows, InFlight, Answered, Answer, Idle
<1>2. CASE task[v].stage # "IDLE"
  <2>1. e \in Event /\ e \in recorded /\ task[v].count \in Nat /\ count[e] \in Nat
    BY <1>2, TaskType DEF TypeOK
  <2>2. InFlight(v)' <=> InFlight(v)
    BY DEF InFlight, Answered
  <2>3. TaskKnows(v)
    BY DEF Known
  <2>4. InFlight(v) => task[v].count <= count'[e]
    BY <2>1, <2>3 DEF TaskKnows
  <2>5. QED
    BY <1>2, <2>1, <2>2, <2>3, <2>4 DEF TaskKnows
<1>3. QED
  BY <1>1, <1>2

LEMMA StepKnown ==
  ASSUME DeliveryInvariant, [Next]_vars PROVE Known'
<1> USE DEF delivery, configuration
<1>0. /\ TypeOK /\ Known
      /\ \A e \in Event : count[e] \in 0 .. Limit /\ count[e] <= count[e] /\ RowKnows(e)
  BY DEF DeliveryInvariant, TypeOK, Known
<1>1. ASSUME ConfigureEndpoint \/ IssueSecret PROVE Known'
  BY <1>0, <1>1 DEF ConfigureEndpoint, IssueSecret, Known, TaskKnows, RowKnows, InFlight, Answered
<1>2. ASSUME NEW e \in Event, RecordEvent(e) PROVE Known'
  BY <1>0, <1>2 DEF RecordEvent, Known, TaskKnows, RowKnows, InFlight, Answered
<1>3. ASSUME NEW e \in Event, Rescue(e) PROVE Known'
  <2>1. \A x \in Event : RowKnows(x)'
    BY <1>0, <1>3 DEF Rescue, RowKnows, TypeOK
  <2>2. ASSUME NEW v \in Sender PROVE TaskKnows(v)'
    <3>1. v # None
      BY <2>2
    <3>2. QED
      BY <1>0, <1>3, <3>1, OthersKnow DEF Rescue, TypeOK
  <2>3. QED
    BY <2>1, <2>2 DEF Known
<1>4. ASSUME NEW e \in Event, Lapse(e) \/ ComeDue(e) PROVE Known'
  BY <1>0, <1>4 DEF Lapse, ComeDue, Known, TaskKnows, RowKnows, InFlight, Answered
<1>5. ASSUME NEW w \in Poller, NEW e \in Event, LeaseDue(w, e) PROVE Known'
  <2>1. w \in Sender /\ w # None /\ count[e] \in Nat /\ e \in recorded
    BY <1>0, <1>5 DEF Sender, LeaseDue, RowKnows
  <2>2. \A x \in Event : RowKnows(x)'
    BY <1>0, <1>5 DEF LeaseDue, Take, RowKnows, TypeOK
  <2>3. TaskKnows(w)'
    BY <1>0, <1>5, <2>1 DEF LeaseDue, Take, TaskKnows, InFlight, Answered, Answer, TypeOK
  <2>4. ASSUME NEW v \in Sender, v # w PROVE TaskKnows(v)'
    BY <1>0, <1>5, <2>4, OthersKnow DEF LeaseDue, Take, TypeOK
  <2>5. QED
    BY <2>2, <2>3, <2>4 DEF Known
<1>6. ASSUME NEW w \in Poller, NEW e \in Event, LeaseFresh(w, e) PROVE Known'
  <2>1. w \in Sender /\ w # None /\ e \in recorded /\ count[e] = 0
    BY <1>0, <1>6 DEF Sender, LeaseFresh, RowKnows, TypeOK
  <2>2. \A x \in Event : RowKnows(x)'
    BY <1>0, <1>6, <2>1 DEF LeaseFresh, Take, RowKnows, TypeOK
  <2>3. TaskKnows(w)'
    BY <1>0, <1>6, <2>1 DEF LeaseFresh, Take, TaskKnows, InFlight, Answered, Answer, TypeOK
  <2>4. ASSUME NEW v \in Sender, v # w PROVE TaskKnows(v)'
    BY <1>0, <1>6, <2>4, OthersKnow DEF LeaseFresh, Take, TypeOK
  <2>5. QED
    BY <2>2, <2>3, <2>4 DEF Known
<1>7. ASSUME NEW w \in Request, NEW e \in Event, AskManually(w, e) PROVE Known'
  <2>1. w \in Sender
    BY DEF Sender
  <2>2. \A x \in Event : RowKnows(x)'
    BY <1>0, <1>7 DEF AskManually, RowKnows
  <2>3. TaskKnows(w)'
    BY <1>0, <1>7, <2>1 DEF AskManually, TaskKnows, InFlight, Answered, Answer, TypeOK
  <2>4. ASSUME NEW v \in Sender, v # w PROVE TaskKnows(v)'
    BY <1>0, <1>7, <2>4, OthersKnow DEF AskManually, TypeOK
  <2>5. QED
    BY <2>2, <2>3, <2>4 DEF Known
(* A sender that is through has nothing to know.                            *)
<1>8. ASSUME NEW w \in Sender, task' = [task EXCEPT ![w] = Idle] PROVE TaskKnows(w)'
  BY <1>0, <1>8 DEF TaskKnows, InFlight, Answered, Answer, Idle, TypeOK
<1>9. ASSUME NEW w \in Sender, task' = [task EXCEPT ![w] = Idle],
             received \subseteq received', UNCHANGED <<recorded, delivery>>
      PROVE  Known'
  <2>1. \A x \in Event : RowKnows(x)'
    BY <1>0, <1>9 DEF RowKnows
  <2>2. ASSUME NEW v \in Sender, v # w PROVE TaskKnows(v)'
    BY <1>0, <1>9, <2>2, OthersKnow DEF TypeOK
  <2>3. QED
    BY <1>8, <1>9, <2>1, <2>2 DEF Known
<1>10. ASSUME NEW w \in Request, LeaseManually(w) PROVE Known'
  <2> DEFINE e == task[w].event
  <2>1. w \in Sender /\ w # None /\ task[w].stage # "IDLE"
    BY <1>10 DEF Sender, LeaseManually
  <2>2. e \in Event /\ e \in recorded
    BY <1>0, <2>1, TaskType
  <2>3. \A x \in Event : RowKnows(x)'
    BY <1>0, <1>10, <2>2 DEF LeaseManually, Take, RowKnows, TypeOK
  <2>4. lease'[e] = w => state[e] = "PENDING"
    BY <1>0, <1>10, <2>1, <2>2 DEF LeaseManually, RowKnows
  <2>5. TaskKnows(w)'
    BY <1>0, <1>10, <2>1, <2>2, <2>4 DEF LeaseManually, TaskKnows, InFlight, Answered, Answer, TypeOK
  <2>6. ASSUME NEW v \in Sender, v # w PROVE TaskKnows(v)'
    BY <1>0, <1>10, <2>2, <2>6, OthersKnow DEF LeaseManually, Take, TypeOK
  <2>7. QED
    BY <2>3, <2>5, <2>6 DEF Known
<1>11. ASSUME NEW w \in Sender, NEW answer \in Answer, Hear(w, answer) PROVE Known'
  <2>1. \A x \in Event : RowKnows(x)'
    BY <1>0, <1>11 DEF Hear, RowKnows
  <2>2. TaskKnows(w)'
    <3>1. TaskKnows(w) /\ InFlight(w) /\ task[w].stage # "IDLE"
      BY <1>0, <1>11 DEF Known, Hear, InFlight
    <3>2. /\ task'[w].event = task[w].event /\ task'[w].saw = task[w].saw
          /\ task'[w].count = task[w].count /\ task'[w].stage = answer
      BY <1>0, <1>11 DEF Hear, TypeOK, Task
    <3>3. answer # "IDLE" /\ (answer = "SUCCESS" => task[w].event \in received')
      BY <1>11 DEF Hear, Answer
    <3>4. QED
      BY <1>11, <3>1, <3>2, <3>3 DEF Hear, TaskKnows
  <2>3. ASSUME NEW v \in Sender, v # w PROVE TaskKnows(v)'
    BY <1>0, <1>11, <2>3, OthersKnow DEF Hear, TypeOK
  <2>4. QED
    BY <2>1, <2>2, <2>3 DEF Known
<1>12. ASSUME NEW w \in Sender, Record(w) PROVE Known'
  <2> DEFINE e == task[w].event  made == task[w].count + 1
             next == NextState(task[w].stage, made)
  <2>1. /\ e \in Event /\ e \in recorded /\ made = count[e] + 1 /\ made \in 1 .. Limit
        /\ state[e] # "UNTRACKED" /\ task[w].stage \in Answer
    BY <1>12, RecordsNext DEF Record
  <2>2. /\ next \in State
        /\ next = "PENDING" => made < MaxAttempts
        /\ state[e] = "DELIVERED" => next = "DELIVERED"
    BY <1>12, <2>1, NextStateType DEF Record, Accepted, NextState
  <2>3. \A x \in Event : RowKnows(x)'
    BY <1>0, <1>12, <2>1, <2>2 DEF Record, RowKnows, TypeOK, State
  <2>4. ASSUME NEW v \in Sender, v # w PROVE TaskKnows(v)'
    <3>1. \A x \in Event :
            /\ count[x] <= count'[x] /\ count'[x] \in Nat
            /\ state[x] = "DELIVERED" => state'[x] = "DELIVERED"
            /\ state[x] # "UNTRACKED" => state'[x] # "UNTRACKED"
            /\ lease'[x] = v => lease[x] = v /\ count'[x] = count[x]
      BY <1>0, <1>12, <2>1, <2>2, <2>4 DEF Record, TypeOK, State
    <3>2. task'[v] = task[v] /\ recorded' = recorded /\ received' = received
      BY <1>0, <1>12, <2>4 DEF Record, TypeOK
    <3>3. QED
      BY <1>0, <3>1, <3>2, OthersKnow
  <2>5. QED
    BY <1>8, <1>12, <2>3, <2>4 DEF Known, Record
<1>13. ASSUME NEW w \in Sender, Refuse(w) \/ RecordLoose(w) \/ Crash(w) PROVE Known'
  BY <1>9, <1>13 DEF Refuse, RecordLoose, Crash
<1>14. ASSUME NEW w \in Request, Busy(w) PROVE Known'
  BY <1>9, <1>14 DEF Busy, Sender
<1>15. ASSUME UNCHANGED vars PROVE Known'
  BY <1>0, <1>15 DEF vars, Known, TaskKnows, RowKnows, InFlight, Answered
<1>16. QED
  BY <1>1, <1>2, <1>3, <1>4, <1>5, <1>6, <1>7, <1>10, <1>11, <1>12, <1>13, <1>14, <1>15
  DEF Next, Finish
-----------------------------------------------------------------------------
(* Two kinds of step write: record() and everything else.                   *)
LEMMA HistoryStep ==
  ASSUME DeliveryInvariant, [Next]_vars PROVE HistoryMatchesCount'
<1> USE DEF delivery, configuration
<1>0. TypeOK /\ HistoryMatchesCount
  BY DEF DeliveryInvariant
<1>1. ASSUME UNCHANGED <<attempts, count>> PROVE HistoryMatchesCount'
  BY <1>0, <1>1 DEF HistoryMatchesCount, Numbers
<1>2. ASSUME NEW w \in Sender, Record(w) PROVE HistoryMatchesCount'
  <2>1. task[w].event \in Event
    BY <1>2, RecordsNext DEF Record
  <2>2. PICK e \in Event : e = task[w].event
    BY <2>1
  <2>3. PICK made : made = count[e] + 1 /\ made = task[w].count + 1 /\ count[e] \in Nat
    BY <1>0, <1>2, <2>2, RecordsNext DEF Record, TypeOK
  <2>4. PICK new : new.number = made /\ attempts'[e] = attempts[e] \cup {new} /\ count'[e] = made
    <3>1. [number |-> made, answer |-> task[w].stage].number = made
      OBVIOUS
    <3>2. /\ attempts'[e] = attempts[e] \cup {[number |-> made, answer |-> task[w].stage]}
          /\ count'[e] = made
      BY <1>0, <1>2, <2>2, <2>3 DEF Record, Written, TypeOK
    <3>3. QED
      BY <3>1, <3>2
  <2>5. \A a \in attempts[e] : a.number # made
    BY <1>0, <2>3 DEF HistoryMatchesCount, Numbers
  <2>6. \A a, b \in attempts'[e] : a.number = b.number /\ a.number # 0 => a = b
    BY <1>0, <2>3, <2>4, <2>5 DEF HistoryMatchesCount
  <2>7. Numbers(e)' = Numbers(e) \cup {made}
    BY <2>3, <2>4 DEF Numbers
  <2>8. Numbers(e)' = 1 .. count'[e]
    BY <1>0, <2>3, <2>4, <2>7 DEF HistoryMatchesCount
  <2>9. ASSUME NEW x \in Event, x # e
        PROVE  attempts'[x] = attempts[x] /\ count'[x] = count[x]
    BY <1>0, <1>2, <2>2, <2>9 DEF Record, Written, TypeOK
  <2>10. ASSUME NEW x \in Event, x # e
         PROVE  /\ Numbers(x)' = 1 .. count'[x]
                /\ \A a, b \in attempts'[x] : a.number = b.number /\ a.number # 0 => a = b
    BY <1>0, <2>9, <2>10 DEF HistoryMatchesCount, Numbers
  <2>11. ASSUME NEW x \in Event
         PROVE  /\ Numbers(x)' = 1 .. count'[x]
                /\ \A a, b \in attempts'[x] : a.number = b.number /\ a.number # 0 => a = b
    BY <2>6, <2>8, <2>10
  <2>12. QED
    BY <2>11 DEF HistoryMatchesCount
<1>3. ASSUME NEW w \in Sender, RecordLoose(w) PROVE HistoryMatchesCount'
  <2> DEFINE e == task[w].event  new == [number |-> 0, answer |-> task[w].stage]
  <2>1. e \in Event
    BY <1>3, TaskType DEF RecordLoose, Answered, Answer, DeliveryInvariant
  <2>2. ASSUME NEW x \in Event
        PROVE  attempts'[x] = attempts[x] \/ attempts'[x] = attempts[x] \cup {new}
    BY <1>0, <1>3, <2>1 DEF RecordLoose, Written, TypeOK
  <2>3. ASSUME NEW x \in Event PROVE Numbers(x)' = Numbers(x)
    BY <2>2 DEF Numbers
  <2>4. ASSUME NEW x \in Event
        PROVE  \A a, b \in attempts'[x] : a.number = b.number /\ a.number # 0 => a = b
    BY <1>0, <2>2 DEF HistoryMatchesCount
  <2>5. QED
    BY <1>0, <1>3, <2>3, <2>4 DEF HistoryMatchesCount, RecordLoose
<1>4. CASE [\E w \in Sender : Record(w) \/ RecordLoose(w)]_vars
  BY <1>1, <1>2, <1>3, <1>4 DEF vars
<1>5. [Next]_vars => (\E w \in Sender : Record(w) \/ RecordLoose(w)) \/ UNCHANGED <<attempts, count>>
  BY DEF Next, Finish, vars, ConfigureEndpoint, IssueSecret, RecordEvent, Rescue, Lapse, ComeDue,
     LeaseDue, LeaseFresh, AskManually, Busy, LeaseManually, Hear, Refuse, Crash
<1>6. QED
  BY <1>1, <1>4, <1>5

LEMMA DeliveredStep ==
  ASSUME DeliveryInvariant, [Next]_vars PROVE DeliveredMeansReceived'
<1> USE DEF delivery, configuration
<1>0. TypeOK /\ DeliveredMeansReceived
  BY DEF DeliveryInvariant
<1>1. ASSUME attempts' = attempts, received \subseteq received',
             \A e \in Event : state'[e] = "DELIVERED" <=> state[e] = "DELIVERED"
      PROVE  DeliveredMeansReceived'
  BY <1>0, <1>1 DEF DeliveredMeansReceived
<1>2. ASSUME NEW w \in Sender, Record(w) PROVE DeliveredMeansReceived'
  <2> DEFINE e == task[w].event  made == task[w].count + 1
             new == [number |-> made, answer |-> task[w].stage]
             next == NextState(task[w].stage, made)
  <2>1. e \in Event /\ made \in 1 .. Limit /\ task[w].stage \in Answer
    BY <1>2, RecordsNext DEF Record
  <2>2. attempts'[e] = attempts[e] \cup {new} /\ state'[e] = next /\ received' = received
    BY <1>0, <1>2, <2>1 DEF Record, Written, TypeOK
  <2>3. next = "DELIVERED" <=> task[w].stage = "SUCCESS"
    BY <2>1 DEF NextState, Answer
  <2>4. state[e] = "DELIVERED" => next = "DELIVERED"
    BY <1>2 DEF Record, Accepted
  <2>5. task[w].stage = "SUCCESS" => e \in received
    BY DEF DeliveryInvariant, Known, TaskKnows
  <2>6. (\E a \in attempts'[e] : a.number # 0 /\ a.answer = "SUCCESS")
          <=> \/ task[w].stage = "SUCCESS"
              \/ \E a \in attempts[e] : a.number # 0 /\ a.answer = "SUCCESS"
    <3>1. new.number = made /\ made # 0 /\ new.answer = task[w].stage
      BY <2>1
    <3> HIDE DEF new
    <3>2. QED
      BY <2>2, <3>1
  <2>7. ASSUME NEW x \in Event, x # e
        PROVE  attempts'[x] = attempts[x] /\ state'[x] = state[x]
    BY <1>0, <1>2, <2>1, <2>7 DEF Record, Written, TypeOK
  <2>8. QED
    BY <1>0, <2>2, <2>3, <2>4, <2>5, <2>6, <2>7 DEF DeliveredMeansReceived
<1>3. ASSUME NEW w \in Sender, RecordLoose(w) PROVE DeliveredMeansReceived'
  <2> DEFINE e == task[w].event  new == [number |-> 0, answer |-> task[w].stage]
  <2>1. e \in Event
    BY <1>3, TaskType DEF RecordLoose, Answered, Answer, DeliveryInvariant
  <2>2. ASSUME NEW x \in Event
        PROVE  attempts'[x] = attempts[x] \/ attempts'[x] = attempts[x] \cup {new}
    BY <1>0, <1>3, <2>1 DEF RecordLoose, Written, TypeOK
  <2>3. state' = state /\ received' = received
    BY <1>3 DEF RecordLoose
  <2>4. QED
    BY <1>0, <2>2, <2>3 DEF DeliveredMeansReceived
<1>4. ASSUME NEW e \in Event, Rescue(e) PROVE DeliveredMeansReceived'
  BY <1>0, <1>1, <1>4 DEF Rescue, TypeOK
<1>5. ASSUME NEW w \in Poller, NEW e \in Event, LeaseFresh(w, e) PROVE DeliveredMeansReceived'
  BY <1>0, <1>1, <1>5 DEF LeaseFresh, TypeOK
<1>6. \/ \E w \in Sender : Record(w) \/ RecordLoose(w)
      \/ \E e \in Event : Rescue(e) \/ \E w \in Poller : LeaseFresh(w, e)
      \/ UNCHANGED <<attempts, state>> /\ received \subseteq received'
  BY DEF Next, Finish, vars, ConfigureEndpoint, IssueSecret, RecordEvent, Lapse, ComeDue,
     LeaseDue, AskManually, Busy, LeaseManually, Hear, Refuse, Crash
<1>7. QED
  BY <1>1, <1>2, <1>3, <1>4, <1>5, <1>6

LEMMA BudgetStep ==
  ASSUME DeliveryInvariant, [Next]_vars PROVE BudgetKept'
<1> USE DEF delivery, configuration
<1>0. TypeOK /\ BudgetKept
  BY DEF DeliveryInvariant
<1>1. ASSUME due \subseteq due', UNCHANGED <<state, count>> PROVE BudgetKept'
  BY <1>0, <1>1 DEF BudgetKept
<1>2. ASSUME NEW w \in Sender, Record(w) PROVE BudgetKept'
  <2> DEFINE e == task[w].event  made == task[w].count + 1
  <2>1. e \in Event /\ made \in 1 .. Limit
    BY <1>2, RecordsNext DEF Record
  <2>2. /\ state'[e] = NextState(task[w].stage, made) /\ count'[e] = made
        /\ \A x \in Event \ {e} : state'[x] = state[x] /\ count'[x] = count[x] /\ (x \in due => x \in due')
    BY <1>0, <1>2, <2>1 DEF Record, TypeOK
  <2>3. state'[e] = "PENDING" => count'[e] < MaxAttempts
    BY <2>1, <2>2 DEF NextState
  <2>4. QED
    BY <1>0, <2>1, <2>2, <2>3 DEF BudgetKept
<1>3. ASSUME NEW e \in Event, Rescue(e) \/ \E w \in Poller : LeaseFresh(w, e) PROVE BudgetKept'
  BY <1>0, <1>3 DEF Rescue, LeaseFresh, BudgetKept, TypeOK
<1>4. \/ \E w \in Sender : Record(w)
      \/ \E e \in Event : Rescue(e) \/ \E w \in Poller : LeaseFresh(w, e)
      \/ UNCHANGED <<state, count>> /\ due \subseteq due'
  BY DEF Next, Finish, vars, ConfigureEndpoint, IssueSecret, RecordEvent, Lapse, ComeDue,
     LeaseDue, AskManually, Busy, LeaseManually, Hear, RecordLoose, Refuse, Crash
<1>5. QED
  BY <1>1, <1>2, <1>3, <1>4

-----------------------------------------------------------------------------
(* The inductive invariant: tables well formed, senders' knowledge current, *)
(* history, endings and budget in order.                                    *)
THEOREM DeliveryCorrect == Spec => []DeliveryInvariant
<1>1. Init => DeliveryInvariant
  BY InitInvariant
<1>2. DeliveryInvariant /\ [Next]_vars => DeliveryInvariant'
  BY StepTypeOK, StepKnown, HistoryStep, DeliveredStep, BudgetStep DEF DeliveryInvariant
<1>3. QED
  BY <1>1, <1>2, PTL DEF Spec

(* Every column of the delivery, its history and its tasks stays well typed.*)
THEOREM WebhookTypeCorrect == Spec => []TypeOK
<1>1. DeliveryInvariant => TypeOK
  BY DEF DeliveryInvariant
<1>2. QED
  BY <1>1, DeliveryCorrect, PTL

(* With any number of overlapping senders, the numbered attempts are exactly*)
(* those counted: the unique ordinal makes stale results bounce.            *)
THEOREM HistoryIsExact == Spec => []HistoryMatchesCount
<1>1. DeliveryInvariant => HistoryMatchesCount
  BY DEF DeliveryInvariant
<1>2. QED
  BY <1>1, DeliveryCorrect, PTL

(* DELIVERED is recorded for, and only for, what the receiver accepted.     *)
THEOREM DeliveryIsReal == Spec => []DeliveredMeansReceived
<1>1. DeliveryInvariant => DeliveredMeansReceived
  BY DEF DeliveryInvariant
<1>2. QED
  BY <1>1, DeliveryCorrect, PTL

(* Beyond the budget only a rescue makes an event pending.                  *)
THEOREM BudgetHolds == Spec => []BudgetKept
<1>1. DeliveryInvariant => BudgetKept
  BY DEF DeliveryInvariant
<1>2. QED
  BY <1>1, DeliveryCorrect, PTL

(* A sender that still holds the lease is never refused.                    *)
THEOREM HolderRecords == Spec => []LeaseHolderCanRecord
<1>1. DeliveryInvariant => LeaseHolderCanRecord
  <2> SUFFICES ASSUME DeliveryInvariant, NEW w \in Sender,
                      Answered(w), lease[task[w].event] = w
               PROVE  Accepted(w)
    BY DEF LeaseHolderCanRecord
  <2> DEFINE e == task[w].event
  <2>1. e \in Event /\ task[w].count \in Nat /\ w # None
    BY TaskType DEF DeliveryInvariant, Answered, Answer
  <2>2. state[e] = "PENDING" /\ task[w].saw = "PENDING" /\ task[w].count = count[e]
    BY <2>1 DEF DeliveryInvariant, Known, TaskKnows, RowKnows, InFlight
  <2>3. Numbers(e) = 1 .. count[e]
    BY <2>1 DEF DeliveryInvariant, HistoryMatchesCount
  <2>4. task[w].count + 1 \notin Numbers(e) /\ task[w].count + 1 >= count[e]
    BY <2>1, <2>2, <2>3
  <2>5. QED
    BY <2>2, <2>4 DEF Accepted
<1>2. QED
  BY <1>1, DeliveryCorrect, PTL

(* No step undoes an ending or takes an attempt out of the history.         *)
THEOREM EndingsAreFinal == Spec => EndingsStand
<1> DEFINE Stands == \A e \in Event :
        /\ state[e] = "DELIVERED" => state'[e] = "DELIVERED"
        /\ state[e] = "EXHAUSTED" /\ state'[e] = "PENDING" => attempts'[e] = attempts[e]
        /\ attempts[e] \subseteq attempts'[e]
<1>1. TypeOK /\ [Next]_vars => Stands
  <2> USE DEF delivery, configuration
  <2> SUFFICES ASSUME TypeOK, [Next]_vars PROVE Stands
    OBVIOUS
  <2>1. ASSUME NEW w \in Sender, Record(w) PROVE Stands
    <3>1. ASSUME NEW e \in Event, e # task[w].event
          PROVE  state'[e] = state[e] /\ attempts'[e] = attempts[e]
      BY <2>1, <3>1 DEF Record, Written, TypeOK
    <3>2. ASSUME NEW e \in Event, e = task[w].event
          PROVE  /\ state'[e] = NextState(task[w].stage, task[w].count + 1)
                 /\ attempts[e] \subseteq attempts'[e]
      BY <2>1, <3>2 DEF Record, Written, TypeOK
    <3>3. QED
      BY <2>1, <3>1, <3>2 DEF Record, Accepted
  <2>2. ASSUME NEW w \in Sender, RecordLoose(w) PROVE Stands
    BY <2>2 DEF RecordLoose, Written, TypeOK
  <2>3. ASSUME NEW e \in Event, Rescue(e) \/ \E w \in Poller : LeaseFresh(w, e) PROVE Stands
    BY <2>3 DEF Rescue, LeaseFresh, TypeOK
  <2>4. \/ \E w \in Sender : Record(w) \/ RecordLoose(w)
        \/ \E e \in Event : Rescue(e) \/ \E w \in Poller : LeaseFresh(w, e)
        \/ UNCHANGED <<attempts, state>>
    BY DEF Next, Finish, vars, ConfigureEndpoint, IssueSecret, RecordEvent, Lapse, ComeDue,
       LeaseDue, AskManually, Busy, LeaseManually, Hear, Refuse, Crash
  <2>5. CASE UNCHANGED <<attempts, state>>
    BY <2>5
  <2>6. QED
    BY <2>1, <2>2, <2>3, <2>4, <2>5
<1>2. TypeOK /\ [Next]_vars => [Stands]_vars
  BY <1>1
<1>3. QED
  BY <1>2, WebhookTypeCorrect, PTL DEF Spec, EndingsStand
(* An attempt that counts has the next number in every interleaving, and    *)
(* its answer decides the state that is written with it.                    *)
THEOREM AttemptsAreCounted == Spec => CountsAreAttempts
<1> DEFINE Accounted(e) == count'[e] # count[e] =>
        /\ count'[e] = count[e] + 1
        /\ \E answer \in Answer :
             /\ attempts'[e] = attempts[e] \cup {[number |-> count'[e], answer |-> answer]}
             /\ state'[e] = NextState(answer, count'[e])
<1>1. DeliveryInvariant /\ [Next]_vars => [\A e \in Event : Accounted(e)]_vars
  <2> SUFFICES ASSUME DeliveryInvariant, [Next]_vars, NEW e \in Event, count'[e] # count[e]
               PROVE  Accounted(e)
    OBVIOUS
  <2>0. TypeOK
    BY DEF DeliveryInvariant
  <2>1. ASSUME NEW w \in Sender, Record(w) PROVE Accounted(e)
    <3>1. /\ task[w].event \in Event /\ task[w].stage \in Answer
          /\ task[w].count = count[task[w].event]
      BY <2>1, RecordsNext DEF Record
    <3>2. e = task[w].event
      BY <2>0, <2>1, <3>1 DEF Record, TypeOK
    <3>3. count'[e] = count[e] + 1
      BY <2>0, <2>1, <3>1, <3>2 DEF Record, TypeOK
    <3>4. attempts'[e] = attempts[e] \cup {[number |-> count'[e], answer |-> task[w].stage]}
      BY <2>0, <2>1, <3>1, <3>2, <3>3 DEF Record, Written, TypeOK
    <3>5. state'[e] = NextState(task[w].stage, count'[e])
      BY <2>0, <2>1, <3>1, <3>2, <3>3 DEF Record, TypeOK
    <3> QED
      BY <3>1, <3>3, <3>4, <3>5
  <2>2. \/ \E w \in Sender : Record(w)
        \/ UNCHANGED count
    BY DEF Next, Finish, vars, delivery, ConfigureEndpoint, IssueSecret, RecordEvent, Rescue,
       Lapse, ComeDue, LeaseDue, LeaseFresh, AskManually, Busy, LeaseManually, Hear,
       RecordLoose, Refuse, Crash
  <2> QED
    BY <2>1, <2>2
<1> QED
  BY <1>1, DeliveryCorrect, PTL DEF Spec, CountsAreAttempts
=============================================================================
