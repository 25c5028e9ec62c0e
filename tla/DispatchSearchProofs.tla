------------------------ MODULE DispatchSearchProofs ------------------------
(***************************************************************************)
(* Proofs about DispatchSearch, for any number of providers, drivers,      *)
(* polling workers and rounds, any window and any drift of the clocks.     *)
(***************************************************************************)
EXTENDS DispatchSearch, TLAPS

USE SearchAssumption

(* Bounds the provers do not see through the set of attempts.               *)
LEMMA Attempts == 1 \in 1 .. MaxAttempts /\ Window \in -Skew .. Window /\ -Skew <= Window
  OBVIOUS

-----------------------------------------------------------------------------
(* Types.                                                                   *)

LEMMA InitTypes == Init => TypeOK
  BY Attempts DEF Init, TypeOK, Reason

LEMMA StepTypes == TypeOK /\ [Next]_vars => TypeOK'
<1> SUFFICES ASSUME TypeOK, [Next]_vars PROVE TypeOK'
  OBVIOUS
<1> USE DEF TypeOK, dispatchVars, searchVars, aroundVars
<1>1. CASE AcceptReads
  BY <1>1, Attempts DEF AcceptReads
<1>2. CASE AcceptFails
  BY <1>2 DEF AcceptFails
<1>3. CASE OpenDispatch
  BY <1>3, Attempts DEF OpenDispatch
<1>4. CASE Tick
  BY <1>4 DEF Tick
<1>5. CASE ArriveLate
  BY <1>5 DEF ArriveLate, Reason, Ended
<1>6. CASE Deliver
  BY <1>6 DEF Deliver
<1>7. CASE CancelRequest
  BY <1>7 DEF CancelRequest, Reason, Ended
<1>8. ASSUME NEW p \in Provider, Claim(p) PROVE TypeOK'
  BY <1>8 DEF Claim, Win, Actor, Reason, Ended
<1>9. ASSUME NEW p \in Provider, SwitchProvider(p) PROVE TypeOK'
  BY <1>9 DEF SwitchProvider
<1>10. ASSUME NEW r \in Driver, Take(r) PROVE TypeOK'
  BY <1>10 DEF Take, Win, Actor, Reason, Ended
<1>11. ASSUME NEW a \in Actor, Release(a) PROVE TypeOK'
  BY <1>11 DEF Release
<1>12. ASSUME NEW w \in Worker, Scan(w) PROVE TypeOK'
  BY <1>12 DEF Scan
<1>13. ASSUME NEW w \in Worker, Advance(w) PROVE TypeOK'
  <2>1. worker' \in [Worker -> {"idle", "due"}]
    BY <1>13 DEF Advance
  <2>2. CASE StopSearch
    BY <1>13, <2>1, <2>2 DEF Advance, StopSearch, Stop, Stops, Ended, Reason
  <2>3. CASE NextRound
    <3>1. attempt + 1 \in 1 .. MaxAttempts
      BY <2>3 DEF NextRound
    <3>2. /\ rounds' \in [1 .. MaxAttempts -> SUBSET Provider]
          /\ candidate' \in [Provider -> {"NONE", "OFFERED", "CLAIMED", "RELEASED"}]
          /\ left' \in -Skew .. Window
      BY <2>3, <3>1, Attempts DEF NextRound
    <3> QED
      BY <1>13, <2>1, <2>3, <3>1, <3>2 DEF Advance, NextRound
  <2>4. CASE UNCHANGED <<status, candidate, searchVars>>
    BY <1>13, <2>1, <2>4 DEF Advance
  <2> QED
    BY <1>13, <2>2, <2>3, <2>4 DEF Advance
<1>14. ASSUME NEW w \in Worker, Abandon(w) PROVE TypeOK'
  BY <1>14 DEF Abandon
<1>15. CASE SwitchIntegration \/ SwitchZone
  BY <1>15 DEF SwitchIntegration, SwitchZone
<1>16. CASE UNCHANGED vars
  BY <1>16 DEF vars
<1> QED
  BY <1>1, <1>2, <1>3, <1>4, <1>5, <1>6, <1>7, <1>8, <1>9, <1>10, <1>11, <1>12,
     <1>13, <1>14, <1>15, <1>16 DEF Next

(* TypeOK holds in every reachable state.                                   *)
THEOREM SearchTypes == Spec => []TypeOK
  BY InitTypes, StepTypes, PTL DEF Spec
-----------------------------------------------------------------------------
(* The inductive invariant.                                                 *)

(* The steps that neither open, win, give back nor end anything.            *)
Around ==
  \/ AcceptReads \/ AcceptFails \/ Tick
  \/ \E p \in Provider : SwitchProvider(p)
  \/ \E w \in Worker : Scan(w) \/ Abandon(w)
  \/ SwitchIntegration \/ SwitchZone \/ UNCHANGED vars

LEMMA AroundKeeps ==
  ASSUME Around
  PROVE  UNCHANGED <<request, dispatchVars, attempt, reason, rounds>>
  BY DEF Around, AcceptReads, AcceptFails, Tick, SwitchProvider, Scan, Abandon,
         SwitchIntegration, SwitchZone, vars, dispatchVars, searchVars, aroundVars

LEMMA AroundOpening ==
  ASSUME Around
  PROVE  opening' = opening \/ opening' = None \/ (request = "CREATED" /\ status = "NONE")
  BY DEF Around, AcceptReads, AcceptFails, Tick, SwitchProvider, Scan, Abandon,
         SwitchIntegration, SwitchZone, vars, dispatchVars, searchVars, aroundVars

(* What an advance that finds the search still due does, and what it leaves *)
(* alone otherwise.                                                         *)
LEMMA AdvanceSteps ==
  ASSUME NEW w \in Worker, Advance(w)
  PROVE  /\ UNCHANGED <<request, holder, gaveBack, opening>>
         /\ \/ request = "CREATED" /\ Due /\ StopSearch
            \/ request = "CREATED" /\ Due /\ NextRound
            \/ UNCHANGED <<status, candidate, left, attempt, reason, rounds>>
  BY DEF Advance, searchVars

LEMMA Steps ==
  ASSUME [Next]_vars
  PROVE  \/ Around \/ OpenDispatch \/ ArriveLate \/ Deliver \/ CancelRequest
         \/ \E p \in Provider : Claim(p)
         \/ \E r \in Driver : Take(r)
         \/ \E a \in Actor : Release(a)
         \/ \E w \in Worker : Advance(w)
  BY DEF Next, Around

LEMMA InitSearch == Init => SearchInvariant
<1> SUFFICES ASSUME Init PROVE SearchInvariant
  OBVIOUS
<1>1. UnopenedIsFresh /\ HolderMatches /\ CancelledIsClosed
  BY DEF Init, UnopenedIsFresh, HolderMatches, CancelledIsClosed, Actor
<1>2. ReasonTellsOutcome
  BY DEF Init, ReasonTellsOutcome, EverWon, Stops, Ended
<1>3. RoundsReachProviders
  BY DEF Init, RoundsReachProviders
<1> QED
  BY <1>1, <1>2, <1>3, InitTypes DEF SearchInvariant

LEMMA StepFresh == SearchInvariant /\ [Next]_vars => UnopenedIsFresh'
<1> SUFFICES ASSUME SearchInvariant, [Next]_vars PROVE UnopenedIsFresh'
  OBVIOUS
<1> USE DEF SearchInvariant, UnopenedIsFresh
<1>1. CASE Around
  BY <1>1, AroundKeeps, AroundOpening DEF dispatchVars
<1>2. CASE OpenDispatch
  BY <1>2 DEF OpenDispatch
<1>3. CASE ArriveLate \/ Deliver
  BY <1>3 DEF ArriveLate, Deliver, searchVars, aroundVars
<1>4. CASE CancelRequest
  BY <1>4 DEF CancelRequest
<1>5. ASSUME NEW a \in Actor, Win(a) PROVE UnopenedIsFresh'
  BY <1>5 DEF Win
<1>6. ASSUME NEW a \in Actor, Release(a) PROVE UnopenedIsFresh'
  BY <1>6 DEF Release, searchVars
<1>7. ASSUME NEW w \in Worker, Advance(w) PROVE UnopenedIsFresh'
  BY <1>7, AdvanceSteps DEF Due, StopSearch, NextRound
<1> QED
  BY <1>1, <1>2, <1>3, <1>4, <1>5, <1>6, <1>7, Steps DEF Claim, Take, Actor

LEMMA StepHolder == SearchInvariant /\ [Next]_vars => HolderMatches'
<1> SUFFICES ASSUME SearchInvariant, [Next]_vars PROVE HolderMatches'
  OBVIOUS
<1> USE DEF SearchInvariant, HolderMatches
<1>1. CASE Around
  BY <1>1, AroundKeeps DEF dispatchVars
<1>2. CASE OpenDispatch
  BY <1>2 DEF OpenDispatch, UnopenedIsFresh, Actor
<1>3. CASE ArriveLate \/ Deliver \/ CancelRequest
  BY <1>3 DEF ArriveLate, Deliver, CancelRequest
<1>4. ASSUME NEW p \in Provider, Claim(p) PROVE HolderMatches'
  BY <1>4 DEF Claim, Win, Actor, TypeOK
<1>5. ASSUME NEW r \in Driver, Take(r) PROVE HolderMatches'
  BY <1>5 DEF Take, Win, Actor, TypeOK
<1>6. ASSUME NEW a \in Actor, Release(a) PROVE HolderMatches'
  BY <1>6 DEF Release, Actor, TypeOK
<1>7. ASSUME NEW w \in Worker, Advance(w) PROVE HolderMatches'
  BY <1>7, AdvanceSteps DEF Due, StopSearch, NextRound, TypeOK
<1> QED
  BY <1>1, <1>2, <1>3, <1>4, <1>5, <1>6, <1>7, Steps

LEMMA StepClosed == SearchInvariant /\ [Next]_vars => CancelledIsClosed'
<1> SUFFICES ASSUME SearchInvariant, [Next]_vars PROVE CancelledIsClosed'
  OBVIOUS
<1> USE DEF SearchInvariant, CancelledIsClosed
<1>1. CASE Around
  BY <1>1, AroundKeeps DEF dispatchVars
<1>2. CASE OpenDispatch
  BY <1>2 DEF OpenDispatch, UnopenedIsFresh
<1>3. CASE ArriveLate \/ Deliver \/ CancelRequest
  BY <1>3 DEF ArriveLate, Deliver, CancelRequest
<1>4. ASSUME NEW a \in Actor, Win(a) \/ Release(a) PROVE CancelledIsClosed'
  BY <1>4 DEF Win, Release
<1>5. ASSUME NEW w \in Worker, Advance(w) PROVE CancelledIsClosed'
  BY <1>5, AdvanceSteps DEF Due, StopSearch, NextRound
<1> QED
  BY <1>1, <1>2, <1>3, <1>4, <1>5, Steps DEF Claim, Take, Actor

(* Once won, a dispatch is remembered as won: by its holder, a candidate    *)
(* row or the driver's cancelled work.                                      *)
LEMMA WonStays ==
  ASSUME SearchInvariant, [Next]_vars
  PROVE  EverWon => EverWon'
<1> USE DEF SearchInvariant, EverWon
<1>1. CASE Around
  BY <1>1, AroundKeeps DEF dispatchVars
<1>2. CASE OpenDispatch
  BY <1>2 DEF OpenDispatch, UnopenedIsFresh
<1>3. CASE ArriveLate \/ Deliver \/ CancelRequest
  BY <1>3 DEF ArriveLate, Deliver, CancelRequest
<1>4. ASSUME NEW a \in Actor, Win(a) PROVE EverWon'
  BY <1>4 DEF Win, Actor
<1>5. ASSUME NEW a \in Actor, Release(a) PROVE EverWon'
  <2>1. CASE a \in Provider
    BY <1>5, <2>1 DEF Release
  <2>2. CASE a \in Driver
    BY <1>5, <2>2 DEF Release
  <2> QED
    BY <2>1, <2>2 DEF Actor
<1>6. ASSUME NEW w \in Worker, Advance(w) PROVE EverWon => EverWon'
  BY <1>6, AdvanceSteps DEF StopSearch, NextRound, TypeOK
<1> QED
  BY <1>1, <1>2, <1>3, <1>4, <1>5, <1>6, Steps DEF Claim, Take, Actor

(* Nothing but a win makes it so.                                           *)
LEMMA WonByWinning ==
  ASSUME SearchInvariant, [Next]_vars, ~EverWon, EverWon'
  PROVE  \E a \in Actor : Win(a)
<1> USE DEF SearchInvariant, EverWon
<1>1. CASE Around
  BY <1>1, AroundKeeps DEF dispatchVars
<1>2. CASE OpenDispatch
  BY <1>2 DEF OpenDispatch
<1>3. CASE ArriveLate \/ Deliver \/ CancelRequest
  BY <1>3 DEF ArriveLate, Deliver, CancelRequest
<1>4. ASSUME NEW a \in Actor, Release(a) PROVE FALSE
  BY <1>4 DEF Release, Actor
<1>5. ASSUME NEW w \in Worker, Advance(w) PROVE FALSE
  BY <1>5, AdvanceSteps DEF StopSearch, NextRound, TypeOK
<1> QED
  BY <1>1, <1>2, <1>3, <1>4, <1>5, Steps DEF Claim, Take, Actor

LEMMA StepReason == SearchInvariant /\ [Next]_vars => ReasonTellsOutcome'
<1> SUFFICES ASSUME SearchInvariant, [Next]_vars PROVE ReasonTellsOutcome'
  OBVIOUS
<1>0. /\ ReasonTellsOutcome /\ TypeOK /\ HolderMatches /\ CancelledIsClosed
      /\ UnopenedIsFresh
  BY DEF SearchInvariant
<1>w. /\ EverWon => EverWon'
      /\ ~EverWon /\ EverWon' => \E a \in Actor : Win(a)
  BY WonStays, WonByWinning
<1> USE DEF ReasonTellsOutcome, Stops, Ended
<1>1. CASE Around
  <2>1. EverWon' <=> EverWon
    BY <1>1, AroundKeeps DEF EverWon, dispatchVars
  <2> QED
    BY <1>0, <1>1, <2>1, AroundKeeps DEF dispatchVars
<1>2. CASE OpenDispatch
  <2>1. ~EverWon' /\ status' = "OPEN" /\ reason' = None /\ request' = "CREATED"
    BY <1>0, <1>2 DEF OpenDispatch, UnopenedIsFresh, EverWon
  <2> QED
    BY <2>1
<1>3. CASE ArriveLate
  <2>1. EverWon' <=> EverWon
    BY <1>3 DEF ArriveLate, EverWon
  <2> QED
    BY <1>0, <1>3, <2>1 DEF ArriveLate, RetryPending, TypeOK
<1>4. CASE Deliver
  <2>1. EverWon' <=> EverWon
    BY <1>4 DEF Deliver, EverWon
  <2>2. EverWon
    BY <1>0, <1>4 DEF Deliver, EverWon, HolderMatches
  <2> QED
    BY <1>0, <1>4, <2>1, <2>2 DEF Deliver, searchVars
<1>5. CASE CancelRequest
  <2>1. EverWon' <=> EverWon
    BY <1>5 DEF CancelRequest, EverWon
  <2>2. status = "CLAIMED" => EverWon
    BY <1>0 DEF EverWon, HolderMatches
  <2> QED
    BY <1>0, <1>5, <2>1, <2>2 DEF CancelRequest, TypeOK, CancelledIsClosed
<1>6. ASSUME NEW a \in Actor, Win(a) PROVE ReasonTellsOutcome'
  <2>1. EverWon'
    BY <1>6 DEF Win, EverWon, Actor
  <2> QED
    BY <1>0, <1>6, <2>1 DEF Win, CancelledIsClosed, TypeOK, Reason
<1>7. ASSUME NEW a \in Actor, Release(a) PROVE ReasonTellsOutcome'
  <2>1. EverWon
    BY <1>7 DEF Release, EverWon, Actor
  <2> QED
    BY <1>0, <1>7, <1>w, <2>1 DEF Release, searchVars
<1>8. ASSUME NEW w \in Worker, Advance(w) PROVE ReasonTellsOutcome'
  <2>1. EverWon' <=> EverWon
    BY <1>8, AdvanceSteps, <1>0 DEF StopSearch, NextRound, EverWon, TypeOK
  <2> QED
    BY <1>0, <1>8, <2>1, AdvanceSteps
    DEF Due, StopSearch, NextRound, Stop, TypeOK
<1> QED
  BY <1>1, <1>2, <1>3, <1>4, <1>5, <1>6, <1>7, <1>8, Steps DEF Claim, Take, Actor

LEMMA StepRounds == SearchInvariant /\ [Next]_vars => RoundsReachProviders'
<1> SUFFICES ASSUME SearchInvariant, [Next]_vars PROVE RoundsReachProviders'
  OBVIOUS
<1>0. RoundsReachProviders /\ TypeOK /\ UnopenedIsFresh
  BY DEF SearchInvariant
<1> USE DEF RoundsReachProviders
<1>1. CASE Around
  BY <1>0, <1>1, AroundKeeps DEF dispatchVars
<1>2. CASE OpenDispatch
  BY <1>0, <1>2 DEF OpenDispatch, UnopenedIsFresh, TypeOK
<1>3. CASE ArriveLate \/ Deliver \/ CancelRequest
  BY <1>0, <1>3 DEF ArriveLate, Deliver, CancelRequest, searchVars
<1>4. ASSUME NEW p \in Provider, Claim(p) PROVE RoundsReachProviders'
  BY <1>0, <1>4 DEF Claim, Win, TypeOK
<1>5. ASSUME NEW r \in Driver, Take(r) PROVE RoundsReachProviders'
  BY <1>0, <1>5 DEF Take, Win
<1>6. ASSUME NEW a \in Actor, Release(a) PROVE RoundsReachProviders'
  BY <1>0, <1>6 DEF Release, searchVars, TypeOK
<1>7. ASSUME NEW w \in Worker, Advance(w) PROVE RoundsReachProviders'
  <2>1. CASE NextRound
    <3>1. attempt + 1 \in 1 .. MaxAttempts /\ attempt' = attempt + 1
      BY <1>0, <2>1 DEF NextRound, TypeOK
    <3>2. rounds' = [rounds EXCEPT ![attempt + 1] = eligible]
      BY <2>1 DEF NextRound
    <3>3. \A k \in 1 .. MaxAttempts :
            rounds'[k] = IF k = attempt + 1 THEN eligible ELSE rounds[k]
      BY <1>0, <3>1, <3>2 DEF TypeOK
    <3>4. \A p \in Provider : /\ candidate[p] # "NONE" => candidate'[p] # "NONE"
                              /\ p \in eligible => candidate'[p] # "NONE"
      BY <1>0, <2>1 DEF NextRound, TypeOK
    <3> QED
      BY <1>0, <3>1, <3>3, <3>4 DEF TypeOK
  <2> QED
    BY <1>0, <1>7, <2>1, AdvanceSteps DEF StopSearch
<1> QED
  BY <1>1, <1>2, <1>3, <1>4, <1>5, <1>6, <1>7, Steps

(* The invariant holds in every reachable state: types, the fresh dispatch, *)
(* its owner, its closure, its reason and its rounds.                       *)
THEOREM SearchCorrect == Spec => []SearchInvariant
<1>1. SearchInvariant /\ [Next]_vars => SearchInvariant'
  BY StepTypes, StepFresh, StepHolder, StepClosed, StepReason, StepRounds
  DEF SearchInvariant
<1> QED
  BY <1>1, InitSearch, PTL DEF Spec

(* The recorded reason tells what became of the search, for every order of  *)
(* wins, releases, cancellations, rounds and late arrivals.                 *)
THEOREM ReasonsAreTrue == Spec => []ReasonTellsOutcome
<1>1. SearchInvariant => ReasonTellsOutcome
  BY DEF SearchInvariant
<1> QED
  BY <1>1, SearchCorrect, PTL

(* Every provider a renewed round lists has its candidate row.              *)
THEOREM RoundsAreOffered == Spec => []RoundsReachProviders
<1>1. SearchInvariant => RoundsReachProviders
  BY DEF SearchInvariant
<1> QED
  BY <1>1, SearchCorrect, PTL

-----------------------------------------------------------------------------
(* What a step may not do.                                                  *)

RoundByRound ==
  /\ attempt' # attempt =>
       attempt' = attempt + 1 /\ left <= 0 /\ reason = None /\ request = "CREATED"
  /\ \A k \in 1 .. attempt : status # "NONE" => rounds'[k] = rounds[k]

LEMMA StepRoundByRound == SearchInvariant /\ [Next]_vars => RoundByRound
<1> SUFFICES ASSUME SearchInvariant, [Next]_vars PROVE RoundByRound
  OBVIOUS
<1>0. TypeOK /\ UnopenedIsFresh
  BY DEF SearchInvariant
<1> USE DEF RoundByRound
<1>1. CASE Around
  BY <1>1, AroundKeeps
<1>2. CASE OpenDispatch
  BY <1>0, <1>2 DEF OpenDispatch, UnopenedIsFresh
<1>3. CASE ArriveLate \/ Deliver \/ CancelRequest
  BY <1>3 DEF ArriveLate, Deliver, CancelRequest, searchVars
<1>4. ASSUME NEW a \in Actor, Win(a) \/ Release(a) PROVE RoundByRound
  BY <1>4 DEF Win, Release, searchVars
<1>5. ASSUME NEW w \in Worker, Advance(w) PROVE RoundByRound
  <2>1. CASE NextRound /\ Due /\ request = "CREATED"
    <3>1. \A k \in 1 .. attempt : k \in 1 .. MaxAttempts /\ k # attempt + 1
      BY <1>0 DEF TypeOK
    <3>2. \A k \in 1 .. attempt : rounds'[k] = rounds[k]
      BY <1>0, <2>1, <3>1 DEF NextRound, TypeOK
    <3> QED
      BY <2>1, <3>2 DEF NextRound, Due, Lapsed
  <2> QED
    BY <1>5, <2>1, AdvanceSteps DEF StopSearch
<1> QED
  BY <1>1, <1>2, <1>3, <1>4, <1>5, Steps DEF Claim, Take, Actor

(* A stale scan never costs a window, and rounds are never rewritten.       *)
THEOREM RoundsAreOrdered == Spec => OneRoundPerWindow
<1>1. SearchInvariant /\ [Next]_vars => [RoundByRound]_vars
  BY StepRoundByRound
<1> QED
  BY <1>1, SearchCorrect, PTL DEF Spec, OneRoundPerWindow, RoundByRound

-----------------------------------------------------------------------------
(* Reading the end of a search.                                             *)

(* What a reader whose clock is not ahead must have seen.                   *)
Over(s) ==
  \/ status = "CANCELLED"
  \/ status = "EXPIRED" /\ reason # "EXECUTOR_FOUND"
  \/ status = "OPEN" /\ reason = None /\ left <= s /\ attempt = MaxAttempts

LEMMA ReadingIsOver ==
  ASSUME SearchInvariant, NEW s \in -Skew .. 0
  PROVE  ReadsOver(s) <=> Over(s)
<1>0. /\ TypeOK /\ HolderMatches /\ CancelledIsClosed /\ UnopenedIsFresh
      /\ ReasonTellsOutcome
  BY DEF SearchInvariant
<1>1. status \in {"CLAIMED", "DELIVERED"} => ~ReadsOver(s) /\ ~Over(s)
  <2>1. status \in {"CLAIMED", "DELIVERED"} => reason = "EXECUTOR_FOUND"
    BY <1>0 DEF HolderMatches, EverWon, ReasonTellsOutcome
  <2> QED
    BY <2>1 DEF ReadsOver, SearchState, Over
<1>2. status = "NONE" => ~ReadsOver(s) /\ ~Over(s)
  BY DEF ReadsOver, Over
<1>3. status = "CANCELLED" => ReadsOver(s) /\ Over(s)
  BY DEF ReadsOver, SearchState, Over
<1>4. status = "EXPIRED" => (ReadsOver(s) <=> Over(s))
  <2>1. status = "EXPIRED" => reason # None
    BY <1>0 DEF ReasonTellsOutcome
  <2> QED
    BY <1>0, <2>1 DEF ReadsOver, SearchState, Over, TypeOK, Reason, Stops, Ended
<1>5. status = "OPEN" => (ReadsOver(s) <=> Over(s))
  <2>1. status = "OPEN" => reason \in {None, "EXECUTOR_FOUND"}
    BY <1>0 DEF ReasonTellsOutcome, TypeOK, Reason, Stops, Ended
  <2>2. status = "OPEN" /\ reason = "EXECUTOR_FOUND" => ~ReadsOver(s) /\ ~Over(s)
    BY DEF ReadsOver, SearchState, Over, Ended
  <2>3. status = "OPEN" /\ reason = None => (ReadsOver(s) <=> Over(s))
    BY <1>0 DEF ReadsOver, SearchState, Over, Ended, TypeOK
  <2> QED
    BY <2>1, <2>2, <2>3
<1> QED
  BY <1>0, <1>1, <1>2, <1>3, <1>4, <1>5 DEF TypeOK

LEMMA StepOver ==
  ASSUME SearchInvariant, [Next]_vars, NEW s \in -Skew .. 0, Over(s)
  PROVE  Over(s)' /\ holder' = holder
<1>0. TypeOK /\ CancelledIsClosed /\ UnopenedIsFresh /\ ReasonTellsOutcome
  BY DEF SearchInvariant
<1> USE DEF Over
<1>1. CASE Around
  <2>1. left' <= left \/ status = "NONE"
    BY <1>0, <1>1 DEF Around, AcceptReads, AcceptFails, Tick, SwitchProvider, Scan,
       Abandon, SwitchIntegration, SwitchZone, vars, searchVars, TypeOK
  <2> QED
    BY <1>0, <1>1, <2>1, AroundKeeps, StepTypes DEF dispatchVars, TypeOK
<1>2. CASE OpenDispatch
  BY <1>0, <1>2 DEF OpenDispatch, UnopenedIsFresh
<1>3. CASE ArriveLate
  BY <1>3 DEF ArriveLate, Ended
<1>4. CASE Deliver
  BY <1>4 DEF Deliver
<1>5. CASE CancelRequest
  BY <1>0, <1>5 DEF CancelRequest, Ended
<1>6. ASSUME NEW a \in Actor, Win(a) PROVE FALSE
  BY <1>0, <1>6 DEF Win, Lapsed, TypeOK
<1>7. ASSUME NEW a \in Actor, Release(a) PROVE FALSE
  BY <1>7 DEF Release
<1>8. ASSUME NEW w \in Worker, Advance(w) PROVE Over(s)' /\ holder' = holder
  BY <1>0, <1>8, AdvanceSteps
  DEF Due, StopSearch, NextRound, Stop, Stops, Ended, TypeOK
<1> QED
  BY <1>1, <1>2, <1>3, <1>4, <1>5, <1>6, <1>7, <1>8, Steps DEF Claim, Take, Actor

(* An integrator that once read the search as over may place the order      *)
(* elsewhere: it stays over, and nobody wins the dispatch.                  *)
THEOREM OverIsFinal == Spec => EndedSearchStaysEnded
<1>1. SearchInvariant /\ SearchInvariant' /\ [Next]_vars =>
        [\A s \in -Skew .. 0 : ReadsOver(s) => ReadsOver(s)' /\ holder' = holder]_vars
  <2> SUFFICES ASSUME SearchInvariant, SearchInvariant', [Next]_vars,
                      NEW s \in -Skew .. 0, ReadsOver(s)
               PROVE  ReadsOver(s)' /\ holder' = holder
    OBVIOUS
  <2>1. Over(s)
    BY ReadingIsOver
  <2>2. Over(s)' /\ holder' = holder
    BY <2>1, StepOver
  <2>3. ReadsOver(s)' <=> Over(s)'
    BY ReadingIsOver, PTL
  <2> QED
    BY <2>2, <2>3
<1> QED
  BY <1>1, SearchCorrect, PTL DEF Spec, EndedSearchStaysEnded

-----------------------------------------------------------------------------
(* The search runs down.                                                    *)

RunsDown == status # "NONE" => \/ Remaining' < Remaining
                               \/ UNCHANGED <<attempt, left>>

(* One factor less, times what it multiplies.                               *)
LEMMA OneFactorLess ==
  ASSUME NEW n \in Int, NEW k \in Int
  PROVE  n * k = (n - 1) * k + k
  BY Z3

(* A round costs its window, the drift of the clocks and one step more than *)
(* it brings.                                                               *)
LEMMA RoundCostsMore ==
  ASSUME TypeOK, left <= 0, attempt' = attempt + 1, left' = Window
  PROVE  Remaining' < Remaining
<1> DEFINE k == Window + Skew + 1
           n == MaxAttempts - attempt
<1>1. k \in Int /\ n \in Int /\ attempt \in Int /\ left \in Int /\ -Skew <= left
  BY DEF TypeOK
<1>2. (MaxAttempts - attempt') = n - 1
  BY <1>1
<1>3. Remaining = n * k + left + Skew /\ Remaining' = (n - 1) * k + Window + Skew
  BY <1>2 DEF Remaining
<1>4. n * k = (n - 1) * k + k
  BY <1>1, OneFactorLess
<1> DEFINE m == (n - 1) * k
<1>5. m \in Int
  BY <1>1
<1>6. Remaining = m + k + left + Skew /\ Remaining' = m + Window + Skew
  BY <1>3, <1>4
<1> HIDE DEF m, n
<1>7. m + Window + Skew < m + k + left + Skew
  BY <1>1, <1>5
<1> QED
  BY <1>6, <1>7

LEMMA TimeGoesBy ==
  ASSUME TypeOK, attempt' = attempt, left' = left - 1
  PROVE  Remaining' < Remaining
<1> DEFINE m == (MaxAttempts - attempt) * (Window + Skew + 1)
<1>1. attempt \in Int /\ left \in Int
  BY DEF TypeOK
<1>2. m \in Int
  BY <1>1
<1>3. Remaining = m + left + Skew /\ Remaining' = m + (left - 1) + Skew
  BY DEF Remaining
<1> HIDE DEF m
<1> QED
  BY <1>1, <1>2, <1>3

LEMMA StepRunsDown == SearchInvariant /\ [Next]_vars => RunsDown
<1> SUFFICES ASSUME SearchInvariant, [Next]_vars, status # "NONE"
             PROVE  \/ Remaining' < Remaining
                    \/ UNCHANGED <<attempt, left>>
  BY DEF RunsDown
<1>0. TypeOK /\ UnopenedIsFresh
  BY DEF SearchInvariant
<1>1. CASE Around
  <2>1. Tick \/ UNCHANGED <<attempt, left>>
    BY <1>1 DEF Around, AcceptReads, AcceptFails, SwitchProvider, Scan, Abandon,
       SwitchIntegration, SwitchZone, vars, searchVars
  <2> QED
    BY <1>0, <2>1, TimeGoesBy DEF Tick
<1>2. CASE OpenDispatch
  BY <1>0, <1>2 DEF OpenDispatch, UnopenedIsFresh
<1>3. CASE ArriveLate \/ Deliver \/ CancelRequest
  BY <1>3 DEF ArriveLate, Deliver, CancelRequest, searchVars
<1>4. ASSUME NEW a \in Actor, Win(a) \/ Release(a) PROVE UNCHANGED <<attempt, left>>
  BY <1>4 DEF Win, Release, searchVars
<1>5. ASSUME NEW w \in Worker, Advance(w)
      PROVE  Remaining' < Remaining \/ UNCHANGED <<attempt, left>>
  <2>1. CASE NextRound /\ Due
    BY <1>0, <2>1, RoundCostsMore DEF NextRound, Due, Lapsed
  <2> QED
    BY <1>5, <2>1, AdvanceSteps DEF StopSearch
<1> QED
  BY <1>1, <1>2, <1>3, <1>4, <1>5, Steps DEF Claim, Take, Actor

(* Every tick and every round uses up what is left of a search, and nothing *)
(* gives any of it back: neither a release nor a stale scan renews a        *)
(* window.  This is the safety half of SearchEnds.                          *)
THEOREM SearchesRunDown == Spec => SearchRunsDown
<1>1. SearchInvariant /\ [Next]_vars => [RunsDown]_vars
  BY StepRunsDown
<1> QED
  BY <1>1, SearchCorrect, PTL DEF Spec, SearchRunsDown, RunsDown

-----------------------------------------------------------------------------
(* The search implements the contract of a single window.                   *)

ContractStep == [Contract!Next]_(Contract!vars)

Past == gaveBack \cup { p \in Provider : candidate[p] = "RELEASED" }

LEMMA InitContract == Init => Contract!Init
  BY DEF Init, Contract!Init

LEMMA StillPast ==
  ASSUME TypeOK, gaveBack' = gaveBack,
         \A p \in Provider : candidate'[p] = "RELEASED" <=> candidate[p] = "RELEASED"
  PROVE  Past' = Past
  BY DEF Past

LEMMA WinIsOnce ==
  ASSUME SearchInvariant, NEW a \in Actor, Win(a), a \notin Past, Past' = Past
  PROVE  ContractStep
<1>1. a # None /\ status = "OPEN" /\ status' = "CLAIMED" /\ holder' = a
  BY DEF Win, Actor
<1>2. Contract!Win(a)
  BY <1>1 DEF Contract!Win, Past
<1> QED
  BY <1>2 DEF ContractStep, Contract!Next

LEMMA StepContract ==
  ASSUME SearchInvariant, [Next]_vars
  PROVE  ContractStep
<1>0. TypeOK /\ HolderMatches /\ CancelledIsClosed /\ UnopenedIsFresh
  BY DEF SearchInvariant
<1>s. ASSUME UNCHANGED <<status, holder>>, Past' = Past PROVE ContractStep
  BY <1>s DEF ContractStep, Contract!vars, Past
<1>c. ASSUME status \in {"OPEN", "CLAIMED"}, status' \in {"EXPIRED", "CANCELLED"},
             Past' = Past
      PROVE  ContractStep
  BY <1>c DEF ContractStep, Contract!Next, Contract!Close, Past
<1>1. CASE Around
  BY <1>0, <1>1, <1>s, AroundKeeps, StillPast DEF dispatchVars
<1>2. CASE OpenDispatch
  <2>1. status = "NONE" /\ status' = "OPEN" /\ UNCHANGED holder
    BY <1>0, <1>2 DEF OpenDispatch, UnopenedIsFresh
  <2>2. \A p \in Provider : candidate[p] # "RELEASED" /\ candidate'[p] # "RELEASED"
    BY <1>0, <1>2, <2>1 DEF OpenDispatch, UnopenedIsFresh
  <2>3. Past' = Past
    BY <1>0, <1>2, <2>2, StillPast DEF OpenDispatch
  <2> QED
    BY <2>1, <2>3 DEF ContractStep, Contract!Next, Contract!Publish, Past
<1>3. CASE ArriveLate
  <2>1. Past' = Past
    BY <1>0, <1>3, StillPast DEF ArriveLate
  <2> QED
    BY <1>3, <1>c, <2>1 DEF ArriveLate
<1>4. CASE Deliver
  <2>1. Past' = Past
    BY <1>0, <1>4, StillPast DEF Deliver
  <2> QED
    BY <1>4, <2>1 DEF Deliver, ContractStep, Contract!Next, Contract!Deliver, Past
<1>5. CASE CancelRequest
  <2>1. Past' = Past
    BY <1>0, <1>5, StillPast DEF CancelRequest
  <2> QED
    BY <1>5, <1>c, <1>s, <2>1 DEF CancelRequest
<1>6. ASSUME NEW p \in Provider, Claim(p) PROVE ContractStep
  <2>1. p \in Actor /\ p \notin Past
    BY <1>0, <1>6 DEF Claim, Actor, Past, TypeOK
  <2>2. Past' = Past
    BY <1>0, <1>6, StillPast DEF Claim, Win, TypeOK
  <2> QED
    BY <1>6, <2>1, <2>2, WinIsOnce DEF Claim
<1>7. ASSUME NEW r \in Driver, Take(r) PROVE ContractStep
  <2>1. r \in Actor /\ r \notin Past
    BY <1>7 DEF Take, Actor, Past
  <2>2. Past' = Past
    BY <1>0, <1>7, StillPast DEF Take, Win
  <2> QED
    BY <1>7, <2>1, <2>2, WinIsOnce DEF Take
<1>8. ASSUME NEW a \in Actor, Release(a) PROVE ContractStep
  <2>1. /\ status = "CLAIMED" /\ holder = a /\ holder' = None
        /\ status' \in {"EXPIRED", "OPEN"}
    BY <1>8 DEF Release
  <2>2. Past' = Past \cup {a}
    BY <1>0, <1>8 DEF Release, Past, TypeOK, Actor
  <2> QED
    BY <2>1, <2>2 DEF ContractStep, Contract!Next, Contract!GiveBack, Past
<1>9. ASSUME NEW w \in Worker, Advance(w) PROVE ContractStep
  <2>0. gaveBack' = gaveBack /\ holder' = holder
    BY <1>9, AdvanceSteps
  <2>1. CASE StopSearch /\ Due
    <3>1. Past' = Past
      BY <1>0, <2>0, <2>1, StillPast DEF StopSearch
    <3> QED
      BY <2>1, <3>1, <1>c DEF StopSearch, Due
  <2>2. CASE NextRound
    <3>1. Past' = Past
      BY <1>0, <2>0, <2>2, StillPast DEF NextRound, TypeOK
    <3> QED
      BY <2>0, <2>2, <3>1, <1>s DEF NextRound
  <2>3. CASE UNCHANGED <<status, candidate, left, attempt, reason, rounds>>
    <3>1. Past' = Past
      BY <1>0, <2>0, <2>3, StillPast
    <3> QED
      BY <2>0, <2>3, <3>1, <1>s
  <2> QED
    BY <1>9, <2>1, <2>2, <2>3, AdvanceSteps
<1> QED
  BY <1>1, <1>2, <1>3, <1>4, <1>5, <1>6, <1>7, <1>8, <1>9, Steps

(* However many rounds it takes, the dispatch is won by one executor at a   *)
(* time, and never twice by the same one.                                   *)
THEOREM SearchKeepsContract == Spec => KeepsContract
<1>1. SearchInvariant /\ [Next]_vars => ContractStep
  BY StepContract
<1> QED
  BY <1>1, InitContract, SearchCorrect, PTL
  DEF Spec, KeepsContract, Contract!Spec, ContractStep

(* What the contract promises of one dispatch holds of the search, by the   *)
(* refinement alone.                                                        *)
THEOREM SearchKeepsPromises == Spec => []Contract!Promises
<1>1. Contract!Init => Contract!Promises
  BY DEF Contract!Init, Contract!Promises
<1>2. Contract!Promises /\ [Contract!Next]_(Contract!vars) => Contract!Promises'
  BY DEF Contract!Promises, Contract!Next, Contract!vars, Contract!Publish, Contract!Win,
     Contract!GiveBack, Contract!Deliver, Contract!Close
<1> QED
  BY <1>1, <1>2, SearchKeepsContract, PTL DEF KeepsContract, Contract!Spec
=============================================================================
