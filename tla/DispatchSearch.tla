--------------------------- MODULE DispatchSearch ---------------------------
(***************************************************************************)
(* The automatic search for an executor (src/src/dispatch/dispatch-search* *)
(* and migration 20261010000100): one dispatch with searchMaxAttempts > 1  *)
(* whose window is reopened, round after round, by polling workers, while  *)
(* providers and independent drivers win it and give it back and its       *)
(* request may be cancelled.                                               *)
(*                                                                         *)
(* Time is relative: left is expiresAt - dispatch_search_now(), the clock  *)
(* of the database.  A process clock is off by some s in -Skew .. Skew, so *)
(* it sees the window closed when left <= s; below -Skew all clocks agree  *)
(* and left stops.                                                         *)
(***************************************************************************)
EXTENDS Integers

CONSTANTS
  Provider, Driver, Worker, None,
  MaxAttempts,   \* searchMaxAttempts, 5 in the code
  Window,        \* searchWindowSeconds
  Skew           \* bound on the difference between a process and the database clock

Actor == Provider \cup Driver

Stops  == {"SERVICE_UNAVAILABLE", "INTEGRATION_UNAVAILABLE"}
Ended  == {"EXECUTOR_FOUND", "REQUEST_CANCELLED", "EXHAUSTED"}

ASSUME SearchAssumption ==
  /\ Provider \cap Driver = {} /\ None \notin Actor \cup Stops \cup Ended
  /\ MaxAttempts \in Nat \ {0} /\ Window \in Nat \ {0} /\ Skew \in Nat

VARIABLES
  request,     \* DeliveryRequest.status
  status,      \* Dispatch.status, "NONE" before the quote is accepted
  holder,      \* claimedByProviderId / claimedByIndependentDriverId
  left,        \* time to expiresAt on the database clock
  attempt,     \* searchAttempt
  reason,      \* searchStoppedReason
  candidate,   \* DispatchCandidate.status, "NONE" where there is no row
  gaveBack,    \* the drivers with a CANCELLED assignment on the dispatch
  rounds,      \* DispatchSearchRound.providerIds, per attempt
  opening,     \* the eligible providers the acceptance read, None outside it
  eligible,    \* providers ACTIVE with ACTIVE coverage of the zone and type
  integration, \* whether the IntegrationClient is ACTIVE
  zone,        \* whether the ServiceZone is ACTIVE
  worker       \* what each poller holds: "idle", or "due" after its scan

dispatchVars == <<status, holder, candidate, gaveBack>>
searchVars   == <<left, attempt, reason, rounds>>
aroundVars   == <<eligible, integration, zone>>
vars         == <<request, dispatchVars, searchVars, opening, aroundVars, worker>>

Reason == Stops \cup Ended \cup {None}

TypeOK ==
  /\ request \in {"CREATED", "CANCELLED"}
  /\ status \in {"NONE", "OPEN", "CLAIMED", "EXPIRED", "CANCELLED", "DELIVERED"}
  /\ holder \in Actor \cup {None}
  /\ left \in -Skew .. Window
  /\ attempt \in 1 .. MaxAttempts
  /\ reason \in Reason
  /\ candidate \in [Provider -> {"NONE", "OFFERED", "CLAIMED", "RELEASED"}]
  /\ gaveBack \subseteq Driver
  /\ rounds \in [1 .. MaxAttempts -> SUBSET Provider]
  /\ opening \in (SUBSET Provider) \cup {None}
  /\ eligible \subseteq Provider
  /\ integration \in BOOLEAN /\ zone \in BOOLEAN
  /\ worker \in [Worker -> {"idle", "due"}]

Init ==
  /\ request = "CREATED" /\ status = "NONE" /\ holder = None
  /\ left = Window /\ attempt = 1 /\ reason = None
  /\ candidate = [p \in Provider |-> "NONE"] /\ gaveBack = {}
  /\ rounds = [k \in 1 .. MaxAttempts |-> {}]
  /\ opening = None
  /\ eligible = Provider /\ integration = TRUE /\ zone = TRUE
  /\ worker = [w \in Worker |-> "idle"]

-----------------------------------------------------------------------------
Lapsed == left <= 0                        \* on the database clock

RetryPending ==
  status = "OPEN" /\ Lapsed /\ attempt < MaxAttempts /\ reason = None

(* What the worker's query selects.                                         *)
Due == status = "OPEN" /\ reason = None /\ Lapsed

-----------------------------------------------------------------------------
(* The acceptance locks the request, the integration and the zone, stamps   *)
(* the opening with the database clock and reads the eligible providers,    *)
(* whom it does not lock; the trigger that records the first round reads    *)
(* them again when the dispatch is inserted.                                *)
AcceptReads ==
  /\ request = "CREATED" /\ status = "NONE" /\ opening = None
  /\ integration /\ zone
  /\ opening' = eligible /\ left' = Window
  /\ UNCHANGED <<request, dispatchVars, attempt, reason, rounds, aroundVars, worker>>

AcceptFails ==
  /\ opening # None
  /\ opening' = None
  /\ UNCHANGED <<request, dispatchVars, searchVars, aroundVars, worker>>

OpenDispatch ==
  /\ opening # None
  /\ status' = "OPEN"
  /\ candidate' = [p \in Provider |-> IF p \in opening THEN "OFFERED" ELSE "NONE"]
  /\ rounds' = [rounds EXCEPT ![1] = eligible]
  /\ opening' = None
  /\ UNCHANGED <<request, holder, gaveBack, left, attempt, reason, aroundVars, worker>>

Tick ==
  /\ status # "NONE" \/ opening # None
  /\ left > -Skew
  /\ left' = left - 1
  /\ UNCHANGED <<request, dispatchVars, attempt, reason, rounds, opening,
                 aroundVars, worker>>

-----------------------------------------------------------------------------
(* Plausible fault: a window that closed can still be won.                  *)
WinLate(a) ==
  /\ status = "OPEN"
  /\ status' = "CLAIMED" /\ holder' = a
  /\ reason' = IF reason = None THEN "EXECUTOR_FOUND" ELSE reason
  /\ UNCHANGED <<request, gaveBack, left, attempt, rounds, opening, aroundVars, worker>>

(* Claim and take check the window on the database clock, once in the       *)
(* service and again in the trigger.  The first win stops the search.       *)
Win(a) ==
  /\ status = "OPEN" /\ ~Lapsed
  /\ status' = "CLAIMED" /\ holder' = a
  /\ reason' = IF reason = None THEN "EXECUTOR_FOUND" ELSE reason
  /\ UNCHANGED <<request, gaveBack, left, attempt, rounds, opening, aroundVars, worker>>

Claim(p) ==
  /\ candidate[p] = "OFFERED" /\ p \in eligible
  /\ candidate' = [candidate EXCEPT ![p] = "CLAIMED"]
  /\ Win(p)

(* Plausible fault: a driver may take again what it gave back.              *)
TakeAgain(r) == Win(r) /\ UNCHANGED candidate

Take(r) ==
  /\ r \notin gaveBack
  /\ Win(r)
  /\ UNCHANGED candidate

(* A claim or take too late: the expiry is persisted, unless another round  *)
(* is pending.                                                              *)
ArriveLate ==
  /\ status = "OPEN" /\ Lapsed /\ ~RetryPending
  /\ status' = "EXPIRED"
  /\ reason' = IF reason = None THEN "EXHAUSTED" ELSE reason
  /\ UNCHANGED <<request, holder, candidate, gaveBack, left, attempt, rounds,
                 opening, aroundVars, worker>>

(* Plausible fault: a return reopens the dispatch for a window of its own.  *)
ReleaseRenews(a) ==
  /\ status = "CLAIMED" /\ holder = a
  /\ \E s \in -Skew .. Skew :
       IF left <= s THEN status' = "EXPIRED" /\ left' = left
                    ELSE status' = "OPEN" /\ left' = Window
  /\ holder' = None
  /\ candidate' = [p \in Provider |-> IF p = a THEN "RELEASED" ELSE candidate[p]]
  /\ gaveBack' = gaveBack \cup ({a} \cap Driver)
  /\ UNCHANGED <<request, attempt, reason, rounds, opening, aroundVars, worker>>

(* Giving back looks at the process clock, search or not.                   *)
Release(a) ==
  /\ status = "CLAIMED" /\ holder = a
  /\ \E s \in -Skew .. Skew : status' = IF left <= s THEN "EXPIRED" ELSE "OPEN"
  /\ holder' = None
  /\ candidate' = [p \in Provider |-> IF p = a THEN "RELEASED" ELSE candidate[p]]
  /\ gaveBack' = gaveBack \cup ({a} \cap Driver)
  /\ UNCHANGED <<request, searchVars, opening, aroundVars, worker>>

Deliver ==
  /\ status = "CLAIMED"
  /\ status' = "DELIVERED"
  /\ UNCHANGED <<request, holder, candidate, gaveBack, searchVars, opening,
                 aroundVars, worker>>

(* Plausible fault: the cancellation overwrites the reason there was.       *)
CancelOverwrites ==
  /\ request = "CREATED" /\ opening = None
  /\ request' = "CANCELLED"
  /\ status \in {"OPEN", "CLAIMED"}
  /\ status' = "CANCELLED" /\ reason' = "REQUEST_CANCELLED"
  /\ UNCHANGED <<holder, candidate, gaveBack, left, attempt, rounds, opening,
                 aroundVars, worker>>

(* The cancellation does not read the search columns: a round that is still *)
(* pending is closed like any lapsed window.  The trigger sees the request  *)
(* CANCELLED and keeps the first reason there was.                          *)
CancelRequest ==
  /\ request = "CREATED" /\ opening = None
  /\ request' = "CANCELLED"
  /\ \/ /\ status \notin {"OPEN", "CLAIMED"}
        /\ UNCHANGED <<status, reason>>
     \/ /\ status \in {"OPEN", "CLAIMED"}
        /\ \E s \in -Skew .. Skew :
             status' = IF status = "OPEN" /\ left <= s THEN "EXPIRED" ELSE "CANCELLED"
        /\ reason' = IF reason = None THEN "REQUEST_CANCELLED" ELSE reason
  /\ UNCHANGED <<holder, candidate, gaveBack, left, attempt, rounds, opening,
                 aroundVars, worker>>

-----------------------------------------------------------------------------
(* A worker scans without locks, then advances what it found in a           *)
(* transaction that looks again.                                            *)
Scan(w) ==
  /\ worker[w] = "idle" /\ Due
  /\ worker' = [worker EXCEPT ![w] = "due"]
  /\ UNCHANGED <<request, dispatchVars, searchVars, opening, aroundVars>>

Stop == IF ~integration THEN "INTEGRATION_UNAVAILABLE"
        ELSE IF ~zone THEN "SERVICE_UNAVAILABLE" ELSE None

(* Plausible fault: the last round has no end of its own.                   *)
StopOnlyWhenUnavailable ==
  /\ Stop # None
  /\ status' = "EXPIRED" /\ reason' = Stop
  /\ UNCHANGED <<candidate, left, attempt, rounds>>

StopSearch ==
  /\ Stop # None \/ attempt = MaxAttempts
  /\ status' = "EXPIRED"
  /\ reason' = IF Stop # None THEN Stop ELSE "EXHAUSTED"
  /\ UNCHANGED <<candidate, left, attempt, rounds>>

(* Plausible fault: the round is recorded and nobody new is offered it.     *)
NextRoundUnoffered ==
  /\ Stop = None /\ attempt < MaxAttempts
  /\ attempt' = attempt + 1
  /\ left' = Window
  /\ rounds' = [rounds EXCEPT ![attempt + 1] = eligible]
  /\ UNCHANGED <<candidate, status, reason>>

NextRound ==
  /\ Stop = None /\ attempt < MaxAttempts
  /\ attempt' = attempt + 1
  /\ left' = Window
  /\ rounds' = [rounds EXCEPT ![attempt + 1] = eligible]
  /\ candidate' = [p \in Provider |-> IF p \in eligible /\ candidate[p] = "NONE"
                                      THEN "OFFERED" ELSE candidate[p]]
  /\ UNCHANGED <<status, reason>>

(* Plausible fault: the transaction trusts the scan.                        *)
AdvanceUnchecked(w) ==
  /\ worker[w] = "due"
  /\ worker' = [worker EXCEPT ![w] = "idle"]
  /\ status = "OPEN" /\ (StopSearch \/ NextRound)
  /\ UNCHANGED <<request, holder, gaveBack, opening, aroundVars>>

Advance(w) ==
  /\ worker[w] = "due"
  /\ worker' = [worker EXCEPT ![w] = "idle"]
  /\ \/ request = "CREATED" /\ Due /\ (StopSearch \/ NextRound)
     \/ ~(request = "CREATED" /\ Due) /\ UNCHANGED <<status, candidate, searchVars>>
  /\ UNCHANGED <<request, holder, gaveBack, opening, aroundVars>>

(* The row is locked by somebody else (SKIP LOCKED), the transaction fails  *)
(* or the process dies: the next poll starts over.                          *)
Abandon(w) ==
  /\ worker[w] = "due"
  /\ worker' = [worker EXCEPT ![w] = "idle"]
  /\ UNCHANGED <<request, dispatchVars, searchVars, opening, aroundVars>>

-----------------------------------------------------------------------------
(* Around the search: a provider starts or stops being eligible; the        *)
(* integration or the zone, which an acceptance locks, is switched.         *)
SwitchProvider(p) ==
  /\ eligible' = IF p \in eligible THEN eligible \ {p} ELSE eligible \cup {p}
  /\ UNCHANGED <<request, dispatchVars, searchVars, opening, integration, zone, worker>>

SwitchIntegration ==
  /\ opening = None
  /\ integration' = ~integration
  /\ UNCHANGED <<request, dispatchVars, searchVars, opening, eligible, zone, worker>>

SwitchZone ==
  /\ opening = None
  /\ zone' = ~zone
  /\ UNCHANGED <<request, dispatchVars, searchVars, opening, eligible, integration, worker>>

Next ==
  \/ AcceptReads \/ AcceptFails \/ OpenDispatch \/ Tick \/ ArriveLate \/ Deliver \/ CancelRequest
  \/ \E p \in Provider : Claim(p) \/ SwitchProvider(p)
  \/ \E r \in Driver : Take(r)
  \/ \E a \in Actor : Release(a)
  \/ \E w \in Worker : Scan(w) \/ Advance(w) \/ Abandon(w)
  \/ SwitchIntegration \/ SwitchZone

Spec == Init /\ [][Next]_vars

(* Time passes, the interval timer keeps polling, and no row stays locked   *)
(* at every poll for ever.                                                  *)
FairSpec ==
  /\ Spec
  /\ WF_vars(Tick)
  /\ \A w \in Worker : WF_vars(Scan(w)) /\ SF_vars(Advance(w))
-----------------------------------------------------------------------------
(***************************************************************************)
(* Safety.                                                                 *)
(***************************************************************************)
EverWon ==
  \/ holder # None \/ gaveBack # {}
  \/ \E p \in Provider : candidate[p] \in {"CLAIMED", "RELEASED"}

(* The reason recorded for the end of the search tells what happened, for   *)
(* every order of wins, releases, cancellations, rounds and late arrivals:  *)
(* there is none exactly while the search goes on, EXECUTOR_FOUND outlives  *)
(* the executor and any cancellation, and EXHAUSTED or a stop is only       *)
(* recorded for a dispatch nobody ever won.                                 *)
ReasonTellsOutcome ==
  /\ reason = None <=> \/ status = "NONE"
                       \/ status = "OPEN" /\ request = "CREATED" /\ ~EverWon
  /\ reason = "EXECUTOR_FOUND" <=> EverWon
  /\ reason = "REQUEST_CANCELLED" =>
       request = "CANCELLED" /\ status \in {"CANCELLED", "EXPIRED"}
  /\ reason = "EXHAUSTED" => status = "EXPIRED" /\ attempt = MaxAttempts
  /\ reason \in Stops => status = "EXPIRED"

(* Every provider a renewed round lists can claim: it has its candidate row *)
(* and rounds are only written up to the current attempt.                   *)
RoundsReachProviders ==
  /\ \A k \in 2 .. MaxAttempts : \A p \in rounds[k] : candidate[p] # "NONE"
  /\ \A k \in 1 .. MaxAttempts : rounds[k] # {} => k <= attempt

(* A stale scan never costs a window: a round begins only after the window  *)
(* of the previous one closed, whatever the workers that saw it closed did  *)
(* meanwhile, and only for a search that nobody won, stopped or cancelled.  *)
(* Rounds already recorded are never rewritten.                             *)
OneRoundPerWindow ==
  [][ /\ attempt' # attempt =>
           attempt' = attempt + 1 /\ left <= 0 /\ reason = None /\ request = "CREATED"
      /\ \A k \in 1 .. attempt : status # "NONE" => rounds'[k] = rounds[k] ]_vars

(* What GET /status reports in search.state, read with a process clock s    *)
(* ahead of the database clock.                                             *)
SearchState(s) ==
  LET pending == status = "OPEN" /\ left <= s /\ attempt < MaxAttempts /\ reason = None
  IN  IF status = "CANCELLED" \/ reason = "REQUEST_CANCELLED" THEN "CANCELLED"
      ELSE IF reason = "EXECUTOR_FOUND" \/ status \in {"CLAIMED", "DELIVERED"}
           THEN "EXECUTOR_FOUND"
      ELSE IF reason \notin {None, "EXHAUSTED"} THEN "STOPPED"
      ELSE IF pending THEN "RETRY_PENDING"
      ELSE IF status = "EXPIRED" \/ left <= s THEN "EXHAUSTED"
      ELSE "SEARCHING"

ReadsOver(s) ==
  status # "NONE" /\ SearchState(s) \in {"EXHAUSTED", "STOPPED", "CANCELLED"}

(* An integrator that once read EXHAUSTED, STOPPED or CANCELLED, from a     *)
(* process whose clock is not ahead, may place the order elsewhere: nobody  *)
(* wins the dispatch afterwards and the search never runs again.            *)
EndedSearchStaysEnded ==
  [][ \A s \in -Skew .. 0 : ReadsOver(s) => ReadsOver(s)' /\ holder' = holder ]_vars

(* The time that a search may still take, clocks that lag included.         *)
Remaining == (MaxAttempts - attempt) * (Window + Skew + 1) + left + Skew

(* A search runs down: nothing gives back time once the dispatch is open,   *)
(* and a round that begins takes more than its window adds.  It can be      *)
(* renewed only so often and lasts only so long.                            *)
SearchRunsDown ==
  [][ status # "NONE" => \/ Remaining' < Remaining
                         \/ UNCHANGED <<attempt, left>> ]_vars

(* Every search ends, with an executor or with a reason: workers never      *)
(* leave a lapsed window without either renewing or closing it.             *)
SearchEnds == (status = "OPEN" /\ reason = None) ~> reason # None
-----------------------------------------------------------------------------
Contract == INSTANCE ServiceContract WITH
  Exempted <- Actor, paid <- {},
  phase  <- IF status \in {"EXPIRED", "CANCELLED"} THEN "OVER" ELSE status,
  holder <- IF status \in {"CLAIMED", "DELIVERED"} THEN holder ELSE None,
  past   <- gaveBack \cup { p \in Provider : candidate[p] = "RELEASED" }

(* However many rounds it takes, the dispatch keeps the contract of a       *)
(* single window: one executor at a time and nobody twice; a new round      *)
(* never offers the dispatch again to whoever gave it back.                 *)
KeepsContract == Contract!Spec
-----------------------------------------------------------------------------
(***************************************************************************)
(* What the safety properties need to be inductive.                        *)
(***************************************************************************)

(* An acceptance in progress works on a request nobody touched yet.         *)
UnopenedIsFresh ==
  /\ opening # None => status = "NONE" /\ request = "CREATED"
  /\ status = "NONE" =>
       /\ holder = None /\ gaveBack = {} /\ attempt = 1
       /\ \A p \in Provider : candidate[p] = "NONE"
       /\ \A k \in 1 .. MaxAttempts : rounds[k] = {}

(* The owner column follows the status and the candidate rows; a cancelled  *)
(* dispatch keeps it as history.                                            *)
HolderMatches ==
  /\ status \in {"NONE", "OPEN", "EXPIRED"} => holder = None
  /\ status \in {"CLAIMED", "DELIVERED"} => holder # None
  /\ \A p \in Provider : candidate[p] = "CLAIMED" <=> holder = p

CancelledIsClosed == request = "CANCELLED" => status \notin {"OPEN", "CLAIMED"}

SearchInvariant ==
  /\ TypeOK
  /\ UnopenedIsFresh
  /\ HolderMatches
  /\ CancelledIsClosed
  /\ ReasonTellsOutcome
  /\ RoundsReachProviders
=============================================================================
