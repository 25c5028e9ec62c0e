------------------------ MODULE DispatchMarketProofs ------------------------
(***************************************************************************)
(* Proofs about DispatchMarket, for any number of dispatches, providers,   *)
(* drivers and vehicles, any prices and any movements of credit.           *)
(***************************************************************************)
EXTENDS DispatchMarket, FiniteSetTheorems, TLAPS

USE ActorsAreDistinct, OwnershipAssumption, CreditAssumption

(* The rows that End writes are rows of the assignment table.               *)
LEMMA EndRows ==
  ASSUME NEW rows \in SUBSET ActiveRow,
         NEW how \in {"REASSIGNED", "CANCELLED", "COMPLETED"}
  PROVE  End(rows, how) \subseteq EndedRow
  BY DEF End, ActiveRow, EndedRow

LEMMA ActiveOnRows == TypeOK => \A d : ActiveOn(d) \in SUBSET ActiveRow
  BY DEF TypeOK, ActiveOn

(* A charge and a refund keep the credit tables well formed.                *)
LEMMA ChargeType ==
  ASSUME TypeOK, NEW d \in Dispatch, NEW a \in Actor, Charge(d, a)
  PROVE  /\ balance' \in [Actor -> 0 .. MaxBalance]
         /\ deposited' \in [Actor -> Int]
         /\ awarded' \subseteq Dispatch \X Actor
         /\ refunded' \subseteq awarded'
<1>1. CASE UNCHANGED creditVars
  BY <1>1 DEF TypeOK, creditVars
<1>2. CASE /\ balance[a] >= Price[d][a]
           /\ balance' = [balance EXCEPT ![a] = @ - Price[d][a]]
           /\ awarded' = awarded \cup {<<d, a>>}
           /\ UNCHANGED <<deposited, refunded>>
  <2>1. balance[a] \in 0 .. MaxBalance /\ Price[d][a] \in Nat \ {0}
    BY DEF TypeOK
  <2>2. balance[a] - Price[d][a] \in 0 .. MaxBalance
    BY <1>2, <2>1
  <2>3. QED
    BY <1>2, <2>2 DEF TypeOK
<1>3. QED
  BY <1>1, <1>2 DEF Charge

LEMMA RefundType ==
  ASSUME TypeOK, NEW d \in Dispatch, NEW a \in Actor, Refund(d, a)
  PROVE  /\ balance' \in [Actor -> 0 .. MaxBalance]
         /\ deposited' \in [Actor -> Int]
         /\ awarded' \subseteq Dispatch \X Actor
         /\ refunded' \subseteq awarded'
<1>1. CASE UNCHANGED creditVars
  BY <1>1 DEF TypeOK, creditVars
<1>2. CASE /\ <<d, a>> \in awarded \ refunded
           /\ balance[a] + Price[d][a] <= MaxBalance
           /\ balance' = [balance EXCEPT ![a] = @ + Price[d][a]]
           /\ refunded' = refunded \cup {<<d, a>>}
           /\ UNCHANGED <<deposited, awarded>>
  <2>1. balance[a] \in 0 .. MaxBalance /\ Price[d][a] \in Nat \ {0}
    BY DEF TypeOK
  <2>2. balance[a] + Price[d][a] \in 0 .. MaxBalance
    BY <1>2, <2>1
  <2>3. QED
    BY <1>2, <2>2 DEF TypeOK
<1>3. QED
  BY <1>1, <1>2 DEF Refund

LEMMA InitTypeOK == Init => TypeOK
  BY DEF Init, TypeOK, Status, Actor

(* Every transaction keeps every table well formed.                         *)
LEMMA StepTypeOK == TypeOK /\ [Next]_vars => TypeOK'
<1> SUFFICES ASSUME TypeOK, [Next]_vars PROVE TypeOK'
  OBVIOUS
<1> USE DEF Actor, Status
<1>1. ASSUME NEW d \in Dispatch, OpenDispatch(d) PROVE TypeOK'
  BY <1>1 DEF TypeOK, OpenDispatch, workVars, partyVars, creditVars
<1>2. ASSUME NEW d \in Dispatch, CloseWindow(d) PROVE TypeOK'
  BY <1>2 DEF TypeOK, CloseWindow, workVars, partyVars, creditVars
<1>3. ASSUME NEW d \in Dispatch, NEW p \in Provider, Claim(d, p) PROVE TypeOK'
  <2>1. Charge(d, p)
    BY <1>3 DEF Claim
  <2>2. QED
    BY <1>3, <2>1, ChargeType DEF TypeOK, Claim, workVars, partyVars
<1>4. ASSUME NEW d \in Dispatch, NEW r \in Driver, NEW v \in Vehicle, Take(d, r, v)
      PROVE  TypeOK'
  <2>1. Charge(d, r)
    BY <1>4 DEF Take
  <2>2. active' \subseteq ActiveRow
    BY <1>4 DEF TypeOK, Take, ActiveRow
  <2>3. QED
    BY <1>4, <2>1, <2>2, ChargeType DEF TypeOK, Take, partyVars
<1>5. ASSUME NEW d \in Dispatch, ArriveLate(d) PROVE TypeOK'
  BY <1>5 DEF TypeOK, ArriveLate, workVars, partyVars, creditVars
<1>6. ASSUME NEW d \in Dispatch, NEW p \in Provider, NEW r \in Driver, NEW v \in Vehicle,
             Assign(d, p, r, v) \/ Reassign(d, p, r, v)
      PROVE  TypeOK'
  <2>1. active' \subseteq ActiveRow
    BY <1>6 DEF TypeOK, Assign, Reassign, FleetRow, ActiveRow
  <2>2. ended' \subseteq EndedRow
    BY <1>6, ActiveOnRows, EndRows DEF TypeOK, Assign, Reassign
  <2>3. QED
    BY <1>6, <2>1, <2>2 DEF TypeOK, Assign, Reassign, dispatchVars, partyVars, creditVars
<1>7. ASSUME NEW d \in Dispatch, NEW p \in Provider, CancelWork(d, p) PROVE TypeOK'
  <2>1. ended' \subseteq EndedRow
    BY <1>7, ActiveOnRows, EndRows DEF TypeOK, CancelWork
  <2>2. QED
    BY <1>7, <2>1 DEF TypeOK, CancelWork, dispatchVars, partyVars, creditVars
<1>8. ASSUME NEW d \in Dispatch, NEW p \in Provider, ProviderRelease(d, p) PROVE TypeOK'
  <2>1. Refund(d, p)
    BY <1>8 DEF ProviderRelease
  <2>2. QED
    BY <1>8, <2>1, RefundType DEF TypeOK, ProviderRelease, Reopen, workVars, partyVars
<1>9. ASSUME NEW d \in Dispatch, NEW r \in Driver, DriverRelease(d, r) PROVE TypeOK'
  <2>1. Refund(d, r)
    BY <1>9 DEF DriverRelease
  <2>2. ended' \subseteq EndedRow
    BY <1>9, ActiveOnRows, EndRows DEF TypeOK, DriverRelease
  <2>3. QED
    BY <1>9, <2>1, <2>2, RefundType DEF TypeOK, DriverRelease, Reopen, partyVars
<1>10. ASSUME NEW d \in Dispatch, NEW a \in Actor, Complete(d, a) PROVE TypeOK'
  <2>1. ended' \subseteq EndedRow
    BY <1>10, ActiveOnRows, EndRows DEF TypeOK, Complete
  <2>2. QED
    BY <1>10, <2>1 DEF TypeOK, Complete, partyVars, creditVars
<1>11. ASSUME NEW d \in Dispatch, CancelRequest(d) PROVE TypeOK'
  <2>1. CASE status[d] \notin {"OPEN", "CLAIMED"}
    BY <1>11, <2>1 DEF TypeOK, CancelRequest, CloseForCancelledRequest, partyVars, creditVars
  <2>2. CASE status[d] \in {"OPEN", "CLAIMED"}
    <3>1. ended' \subseteq EndedRow
      BY <1>11, <2>2, ActiveOnRows, EndRows DEF TypeOK, CancelRequest, CloseForCancelledRequest
    <3>2. UNCHANGED creditVars \/ \E a \in Actor : Refund(d, a)
      BY <1>11, <2>2 DEF TypeOK, CancelRequest, CloseForCancelledRequest
    <3>3. /\ balance' \in [Actor -> 0 .. MaxBalance]
          /\ deposited' \in [Actor -> Int]
          /\ awarded' \subseteq Dispatch \X Actor
          /\ refunded' \subseteq awarded'
      BY <3>2, RefundType DEF TypeOK, creditVars
    <3>4. QED
      BY <1>11, <2>2, <3>1, <3>3 DEF TypeOK, CancelRequest, CloseForCancelledRequest, partyVars
  <2>3. QED
    BY <2>1, <2>2
<1>12. ASSUME PartyStep PROVE TypeOK'
  <2>1. ASSUME NEW r \in Driver, Approve(r) PROVE TypeOK'
    BY <2>1 DEF TypeOK, Approve, dispatchVars, workVars, creditVars
  <2>2. ASSUME NEW r \in Driver, Unpair(r) PROVE TypeOK'
    BY <2>2 DEF TypeOK, Unpair, dispatchVars, workVars, creditVars
  <2>3. ASSUME NEW r \in Driver, NEW to \in {"SUSPENDED", "REJECTED"}, Withdraw(r, to)
        PROVE  TypeOK'
    BY <2>3 DEF TypeOK, Withdraw, dispatchVars, workVars, creditVars
  <2>4. ASSUME NEW r \in Driver, NEW v \in Vehicle, Pair(r, v) PROVE TypeOK'
    BY <2>4 DEF TypeOK, Pair, dispatchVars, workVars, creditVars
  <2>5. ASSUME NEW r \in Driver, NEW v \in Vehicle, AddOwnVehicle(r, v) PROVE TypeOK'
    BY <2>5 DEF TypeOK, AddOwnVehicle, dispatchVars, workVars, creditVars
  <2>6. ASSUME NEW r \in Driver, NEW v \in Vehicle, RetireOwnVehicle(r, v) PROVE TypeOK'
    BY <2>6 DEF TypeOK, RetireOwnVehicle, dispatchVars, workVars, creditVars
  <2>7. ASSUME NEW x \in Actor \cup Vehicle, Switch(x) PROVE TypeOK'
    BY <2>7 DEF TypeOK, Switch, dispatchVars, workVars, creditVars
  <2>8. ASSUME NEW p \in Provider, SwitchCoverage(p) PROVE TypeOK'
    BY <2>8 DEF TypeOK, SwitchCoverage, dispatchVars, workVars, creditVars
  <2>9. ASSUME NEW a \in Actor, NEW amount \in Movements, Move(a, amount) PROVE TypeOK'
    BY <2>9 DEF TypeOK, Move, dispatchVars, workVars, partyVars
  <2>10. QED
    BY <1>12, <2>1, <2>2, <2>3, <2>4, <2>5, <2>6, <2>7, <2>8, <2>9
       DEF PartyStep, TransitionProvider, UpdateDriver, UpdateVehicle
<1>13. CASE UNCHANGED vars
  BY <1>13 DEF TypeOK, vars, dispatchVars, workVars, partyVars, creditVars
<1>14. QED
  BY <1>1, <1>2, <1>3, <1>4, <1>5, <1>6, <1>7, <1>8, <1>9, <1>10, <1>11, <1>12, <1>13
     DEF Next, DispatchStep, ProviderStep, DriverStep

(* Type correctness of the market: in particular no balance ever leaves     *)
(* 0 .. MaxBalance and no credit is refunded that was not awarded.          *)
THEOREM TypeCorrect == Spec => []TypeOK
<1>1. Init => TypeOK
  BY InitTypeOK
<1>2. TypeOK /\ [Next]_vars => TypeOK'
  BY StepTypeOK
<1>3. QED
  BY <1>1, <1>2, PTL DEF Spec
-----------------------------------------------------------------------------
(* Credits.                                                                 *)

(* Spent is only counted while it is finite.                                *)
LedgerInvariant ==
  /\ TypeOK
  /\ BalanceIsLedger
  /\ \A a \in Actor : IsFiniteSet(Spent(a))

(* What one award costs: as many credits as its price.                      *)
Cost(d, a) == {d} \X (1 .. Price[d][a])

LEMMA SpentCredits ==
  \A a, x : x \in Spent(a) <=>
    \E d \in Dispatch : <<d, a>> \in awarded \ refunded /\ x \in Cost(d, a)
  BY DEF Spent, Cost

LEMMA CostsAreApart == \A d, a : \A x \in Cost(d, a) : x[1] = d
  BY DEF Cost

LEMMA Credits ==
  ASSUME NEW d \in Dispatch, NEW a \in Actor
  PROVE  IsFiniteSet(Cost(d, a)) /\ Cardinality(Cost(d, a)) = Price[d][a]
<1> DEFINE n == Price[d][a]
<1>1. n \in Nat /\ n > 0
  OBVIOUS
<1> HIDE DEF n
<1>2. IsFiniteSet({d}) /\ Cardinality({d}) = 1
  BY FS_Singleton
<1>3. IsFiniteSet(1 .. n) /\ Cardinality(1 .. n) = n
  BY <1>1, FS_Interval
<1>4. /\ IsFiniteSet({d} \X (1 .. n))
      /\ Cardinality({d} \X (1 .. n)) = Cardinality({d}) * Cardinality(1 .. n)
  BY <1>2, <1>3, FS_Product
<1>5. Cardinality({d} \X (1 .. n)) = n
  BY <1>1, <1>2, <1>3, <1>4
<1> QED
  BY <1>4, <1>5 DEF n, Cost

(* Adding credits that were not counted yet.                                *)
LEMMA CountCredits ==
  ASSUME NEW S, NEW T, IsFiniteSet(S), IsFiniteSet(T), S \cap T = {}
  PROVE  IsFiniteSet(S \cup T) /\ Cardinality(S \cup T) = Cardinality(S) + Cardinality(T)
<1>1. Cardinality(S) \in Nat /\ Cardinality(T) \in Nat
  BY FS_CardinalityType
<1>2. IsFiniteSet(S \cup T)
  BY FS_Union
<1>3. Cardinality(S \cup T) = Cardinality(S) + Cardinality(T) - Cardinality(S \cap T)
  BY FS_Union
<1>4. Cardinality(S \cap T) = 0
  BY FS_EmptySet
<1> QED
  BY <1>1, <1>2, <1>3, <1>4

LEMMA ChargeBooks ==
  ASSUME LedgerInvariant, NEW d \in Dispatch, NEW a \in Actor, Charge(d, a)
  PROVE  BalanceIsLedger' /\ \A b \in Actor : IsFiniteSet(Spent(b)')
<1>1. CASE UNCHANGED creditVars
  BY <1>1 DEF creditVars, LedgerInvariant, BalanceIsLedger, Spent
<1>2. CASE /\ <<d, a>> \notin awarded
           /\ balance' = [balance EXCEPT ![a] = @ - Price[d][a]]
           /\ awarded' = awarded \cup {<<d, a>>}
           /\ UNCHANGED <<deposited, refunded>>
  <2> DEFINE T == Cost(d, a)
  <2>1. IsFiniteSet(T) /\ Cardinality(T) = Price[d][a]
    BY Credits
  <2>2. <<d, a>> \notin refunded
    BY <1>2 DEF LedgerInvariant, TypeOK
  <2>3. \A e \in Dispatch, b \in Actor : <<e, b>> \in awarded' \ refunded' <=>
          <<e, b>> \in awarded \ refunded \/ (e = d /\ b = a)
    <3>1. ASSUME NEW e \in Dispatch, NEW b \in Actor
          PROVE  <<e, b>> = <<d, a>> <=> e = d /\ b = a
      OBVIOUS
    <3>2. \A x : x \in awarded' \ refunded' <=> x \in awarded \ refunded \/ x = <<d, a>>
      BY <1>2, <2>2
    <3> QED
      BY <3>1, <3>2
  <2>4. ASSUME NEW b \in Actor, b # a
        PROVE  Spent(b)' = Spent(b)
    BY <2>3, <2>4 DEF Spent
  <2>5. Spent(a)' = Spent(a) \cup T
    <3>1. \A x : x \in Spent(a)' <=>
            \E e \in Dispatch : <<e, a>> \in awarded' \ refunded' /\ x \in Cost(e, a)
      BY DEF Spent, Cost
    <3>2. \A x : x \in Spent(a)' <=> x \in Spent(a) \/ x \in T
      BY <2>3, <3>1, SpentCredits
    <3> QED
      BY <3>2
  <2>6. Spent(a) \cap T = {}
    BY <1>2, SpentCredits, CostsAreApart
  <2> HIDE DEF T
  <2>7. /\ IsFiniteSet(Spent(a)')
        /\ Cardinality(Spent(a)') = Cardinality(Spent(a)) + Price[d][a]
    <3>1. IsFiniteSet(Spent(a))
      BY DEF LedgerInvariant
    <3>2. /\ IsFiniteSet(Spent(a) \cup T)
          /\ Cardinality(Spent(a) \cup T) = Cardinality(Spent(a)) + Cardinality(T)
      BY <2>1, <2>6, <3>1, CountCredits
    <3> QED
      BY <2>1, <2>5, <3>2
  <2>8. Cardinality(Spent(a)) \in Nat
    BY FS_CardinalityType DEF LedgerInvariant
  <2>9. balance'[a] = deposited'[a] - Cardinality(Spent(a)')
    BY <1>2, <2>7, <2>8 DEF LedgerInvariant, BalanceIsLedger, TypeOK
  <2>10. \A b \in Actor \ {a} : balance'[b] = deposited'[b] - Cardinality(Spent(b)')
    BY <1>2, <2>4 DEF LedgerInvariant, BalanceIsLedger, TypeOK
  <2> QED
    BY <2>4, <2>7, <2>9, <2>10 DEF LedgerInvariant, BalanceIsLedger
<1> QED
  BY <1>1, <1>2 DEF Charge

LEMMA RefundBooks ==
  ASSUME LedgerInvariant, NEW d \in Dispatch, NEW a \in Actor, Refund(d, a)
  PROVE  BalanceIsLedger' /\ \A b \in Actor : IsFiniteSet(Spent(b)')
<1>1. CASE UNCHANGED creditVars
  BY <1>1 DEF creditVars, LedgerInvariant, BalanceIsLedger, Spent
<1>2. CASE /\ <<d, a>> \in awarded \ refunded
           /\ balance' = [balance EXCEPT ![a] = @ + Price[d][a]]
           /\ refunded' = refunded \cup {<<d, a>>}
           /\ UNCHANGED <<deposited, awarded>>
  <2> DEFINE T == Cost(d, a)
  <2>1. IsFiniteSet(T) /\ Cardinality(T) = Price[d][a]
    BY Credits
  <2>2. \A x : x \in Spent(a)' <=>
          \E e \in Dispatch : <<e, a>> \in awarded' \ refunded' /\ x \in Cost(e, a)
    BY DEF Spent, Cost
  <2>3. \A e \in Dispatch, b \in Actor : <<e, b>> \in awarded' \ refunded' <=>
          <<e, b>> \in awarded \ refunded /\ ~(e = d /\ b = a)
    <3>1. ASSUME NEW e \in Dispatch, NEW b \in Actor
          PROVE  <<e, b>> = <<d, a>> <=> e = d /\ b = a
      OBVIOUS
    <3>2. \A x : x \in awarded' \ refunded' <=> x \in awarded \ refunded /\ x # <<d, a>>
      BY <1>2
    <3> QED
      BY <3>1, <3>2
  <2>4. ASSUME NEW b \in Actor, b # a
        PROVE  Spent(b)' = Spent(b)
    BY <2>3, <2>4 DEF Spent
  <2>5. Spent(a) = Spent(a)' \cup T
    <3>2. \A x : x \in Spent(a) <=> x \in Spent(a)' \/ x \in T
      BY <1>2, <2>3, <2>2, SpentCredits
    <3> QED
      BY <3>2
  <2>6. Spent(a)' \cap T = {}
    BY <2>2, <2>3, CostsAreApart
  <2>7. IsFiniteSet(Spent(a)')
    BY <2>5, FS_Subset DEF LedgerInvariant
  <2> HIDE DEF T
  <2>8. Cardinality(Spent(a)) = Cardinality(Spent(a)') + Price[d][a]
    BY <2>1, <2>5, <2>6, <2>7, CountCredits
  <2>9. Cardinality(Spent(a)') \in Nat
    BY <2>7, FS_CardinalityType
  <2>10. balance'[a] = deposited'[a] - Cardinality(Spent(a)')
    BY <1>2, <2>8, <2>9 DEF LedgerInvariant, BalanceIsLedger, TypeOK
  <2>11. \A b \in Actor \ {a} : balance'[b] = deposited'[b] - Cardinality(Spent(b)')
    BY <1>2, <2>4 DEF LedgerInvariant, BalanceIsLedger, TypeOK
  <2> QED
    BY <2>4, <2>7, <2>10, <2>11 DEF LedgerInvariant, BalanceIsLedger
<1> QED
  BY <1>1, <1>2 DEF Refund

(* What a step does to the credits.                                         *)
LEMMA CreditSteps ==
  ASSUME TypeOK, [Next]_vars
  PROVE  \/ UNCHANGED creditVars
         \/ \E d \in Dispatch, a \in Actor : Charge(d, a) \/ Refund(d, a)
         \/ \E a \in Actor, amount \in Movements : Move(a, amount)
<1>1. CASE UNCHANGED vars
  BY <1>1 DEF vars
<1>2. ASSUME NEW d \in Dispatch, OpenDispatch(d) \/ CloseWindow(d) \/ ArriveLate(d)
      PROVE  UNCHANGED creditVars
  BY <1>2 DEF OpenDispatch, CloseWindow, ArriveLate
<1>3. ASSUME NEW d \in Dispatch, CancelRequest(d)
      PROVE  UNCHANGED creditVars \/ \E a \in Actor : Refund(d, a)
  BY <1>3 DEF CancelRequest, CloseForCancelledRequest, TypeOK
<1>4. ASSUME NEW d \in Dispatch, NEW p \in Provider, ProviderStep(d, p)
      PROVE  UNCHANGED creditVars \/ Charge(d, p) \/ Refund(d, p)
  BY <1>4 DEF ProviderStep, Claim, CancelWork, ProviderRelease, Assign, Reassign
<1>5. ASSUME NEW d \in Dispatch, NEW r \in Driver, DriverStep(d, r)
      PROVE  Charge(d, r) \/ Refund(d, r)
  BY <1>5 DEF DriverStep, DriverRelease, Take
<1>6. ASSUME NEW d \in Dispatch, NEW a \in Actor, Complete(d, a)
      PROVE  UNCHANGED creditVars
  BY <1>6 DEF Complete
<1>7. CASE PartyStep
  <2>1. ASSUME NEW x, Switch(x)
        PROVE  UNCHANGED creditVars
    BY <2>1 DEF Switch
  <2> QED
    BY <1>7, <2>1 DEF PartyStep, Approve, Unpair, UpdateDriver, Withdraw, Pair, AddOwnVehicle,
         RetireOwnVehicle, UpdateVehicle, TransitionProvider, SwitchCoverage
<1> QED
  BY <1>1, <1>2, <1>3, <1>4, <1>5, <1>6, <1>7 DEF Next, DispatchStep, Actor

(* Whatever is won, given back, cancelled or moved, every balance is what   *)
(* its ledger adds up to.                                                   *)
THEOREM BalancesAreLedgers == Spec => []BalanceIsLedger
<1>1. Init => LedgerInvariant
  <2> SUFFICES ASSUME Init PROVE LedgerInvariant
    OBVIOUS
  <2>1. \A a : Spent(a) = {}
    BY DEF Init, Spent
  <2>2. IsFiniteSet({}) /\ Cardinality({}) = 0
    BY FS_EmptySet
  <2>3. \A a \in Actor : IsFiniteSet(Spent(a)) /\ Cardinality(Spent(a)) = 0
    BY <2>1, <2>2
  <2>4. \A a \in Actor : balance[a] = 0 /\ deposited[a] = 0
    BY DEF Init
  <2> QED
    BY <2>3, <2>4, InitTypeOK DEF LedgerInvariant, BalanceIsLedger
<1>2. LedgerInvariant /\ [Next]_vars => LedgerInvariant'
  <2> SUFFICES ASSUME LedgerInvariant, [Next]_vars PROVE LedgerInvariant'
    OBVIOUS
  <2>1. TypeOK'
    BY StepTypeOK DEF LedgerInvariant
  <2>2. CASE UNCHANGED creditVars
    BY <2>1, <2>2 DEF creditVars, LedgerInvariant, BalanceIsLedger, Spent
  <2>3. ASSUME NEW a \in Actor, NEW amount \in Movements, Move(a, amount)
        PROVE  LedgerInvariant'
    <3>1. \A b \in Actor : Spent(b)' = Spent(b) /\ Cardinality(Spent(b)) \in Nat
      BY <2>3, FS_CardinalityType DEF Move, Spent, LedgerInvariant
    <3>2. amount \in Int
      OBVIOUS
    <3> QED
      BY <2>1, <2>3, <3>1, <3>2 DEF Move, LedgerInvariant, BalanceIsLedger, TypeOK
  <2> QED
    BY <2>1, <2>2, <2>3, ChargeBooks, RefundBooks, CreditSteps DEF LedgerInvariant
<1>3. LedgerInvariant => BalanceIsLedger
  BY DEF LedgerInvariant
<1> QED
  BY <1>1, <1>2, <1>3, PTL DEF Spec

-----------------------------------------------------------------------------
(* The tables that tell who holds, works on and pays for a dispatch.        *)
claimVars == <<status, owner, candidate, active, awarded, refunded>>

(* The steps that can change one of them, each with its transaction.        *)
LEMMA ClaimSteps ==
  ASSUME [Next]_vars
  PROVE  \/ UNCHANGED claimVars
         \/ \E d \in Dispatch :
              \/ OpenDispatch(d) \/ ArriveLate(d) \/ CancelRequest(d)
              \/ \E a \in Actor : Complete(d, a)
              \/ \E p \in Provider :
                   \/ Claim(d, p) \/ CancelWork(d, p) \/ ProviderRelease(d, p)
                   \/ \E r \in Driver, v \in Vehicle : Assign(d, p, r, v) \/ Reassign(d, p, r, v)
              \/ \E r \in Driver :
                   \/ DriverRelease(d, r)
                   \/ \E v \in Vehicle : Take(d, r, v)
<1>1. CASE UNCHANGED vars
  BY <1>1 DEF claimVars, vars, dispatchVars, workVars, creditVars
<1>2. CASE \E d \in Dispatch : CloseWindow(d)
  BY <1>2 DEF CloseWindow, claimVars, workVars, creditVars
<1>3. CASE PartyStep
  <2>1. ASSUME NEW r \in Driver,
               \/ Approve(r) \/ Unpair(r)
               \/ \E to \in {"SUSPENDED", "REJECTED"} : Withdraw(r, to)
               \/ \E v \in Vehicle : Pair(r, v) \/ AddOwnVehicle(r, v) \/ RetireOwnVehicle(r, v)
        PROVE  UNCHANGED claimVars
    BY <2>1 DEF Approve, Unpair, Withdraw, Pair, AddOwnVehicle, RetireOwnVehicle, claimVars,
                dispatchVars, workVars, creditVars
  <2>2. ASSUME NEW x \in Actor \cup Vehicle, Switch(x) PROVE UNCHANGED claimVars
    BY <2>2 DEF Switch, claimVars, dispatchVars, workVars, creditVars
  <2>3. ASSUME NEW p \in Provider, SwitchCoverage(p) PROVE UNCHANGED claimVars
    BY <2>3 DEF SwitchCoverage, claimVars, dispatchVars, workVars, creditVars
  <2>4. ASSUME NEW a \in Actor, NEW amount \in Movements, Move(a, amount)
        PROVE  UNCHANGED claimVars
    BY <2>4 DEF Move, claimVars, dispatchVars, workVars
  <2>5. QED
    BY <1>3, <2>1, <2>2, <2>3, <2>4
       DEF Actor, PartyStep, TransitionProvider, UpdateDriver, UpdateVehicle
<1>4. QED
  BY <1>1, <1>2, <1>3 DEF Next, DispatchStep, ProviderStep, DriverStep

LEMMA InitClaim == Init => ClaimInvariant
<1> SUFFICES ASSUME Init PROVE ClaimInvariant
  OBVIOUS
<1>1. TypeOK
  BY InitTypeOK
<1>2. ClaimMatchesCandidates
  BY DEF Init, ClaimMatchesCandidates, Actor
<1>3. WorkBelongsToHolder
  <2>1. active = {} /\ owner = PreAward
    BY DEF Init
  <2>2. ASSUME NEW d \in Dispatch PROVE owner[d] \notin Driver
    BY <2>1 DEF Actor
  <2>3. QED
    BY <2>1, <2>2 DEF WorkBelongsToHolder
<1>4. ExemptionIsUsedUp /\ AwardsAreDue
  BY DEF Init, ExemptionIsUsedUp, AwardsAreDue
<1>5. HolderPays
  BY DEF Init, HolderPays, Committed, Exempt
<1>6. QED
  BY <1>1, <1>2, <1>3, <1>4, <1>5 DEF ClaimInvariant

(* Claim, take, release, expiry and cancellation move the owner column and  *)
(* the candidate snapshot together.                                         *)
LEMMA StepMatches ==
  ClaimInvariant /\ [Next]_vars => ClaimMatchesCandidates'
<1> SUFFICES ASSUME ClaimInvariant, [Next]_vars PROVE ClaimMatchesCandidates'
  OBVIOUS
<1> USE DEF ClaimInvariant, TypeOK, ClaimMatchesCandidates, Actor, Status
<1>1. CASE UNCHANGED claimVars
  BY <1>1 DEF claimVars
<1>2. ASSUME NEW d \in Dispatch, OpenDispatch(d) \/ ArriveLate(d)
      PROVE  ClaimMatchesCandidates'
  BY <1>2 DEF OpenDispatch, ArriveLate
<1>3. ASSUME NEW d \in Dispatch, NEW p \in Provider, Claim(d, p)
      PROVE  ClaimMatchesCandidates'
  BY <1>3 DEF Claim, ClaimAllowed
<1>4. ASSUME NEW d \in Dispatch, NEW r \in Driver, NEW v \in Vehicle, Take(d, r, v)
      PROVE  ClaimMatchesCandidates'
  BY <1>4 DEF Take, TakeAllowed
<1>5. ASSUME NEW d \in Dispatch, NEW p \in Provider, ProviderRelease(d, p)
      PROVE  ClaimMatchesCandidates'
  BY <1>5 DEF ProviderRelease, Holds, Reopen
<1>6. ASSUME NEW d \in Dispatch, NEW r \in Driver, DriverRelease(d, r)
      PROVE  ClaimMatchesCandidates'
  BY <1>6 DEF DriverRelease, Holds, Reopen
<1>7. ASSUME NEW d \in Dispatch, NEW a \in Actor, Complete(d, a)
      PROVE  ClaimMatchesCandidates'
  BY <1>7 DEF Complete, Holds
<1>8. ASSUME NEW d \in Dispatch, CancelRequest(d) PROVE ClaimMatchesCandidates'
  BY <1>8 DEF CancelRequest, CloseForCancelledRequest
<1>9. ASSUME NEW d \in Dispatch, NEW p \in Provider,
             \/ CancelWork(d, p)
             \/ \E r \in Driver, v \in Vehicle : Assign(d, p, r, v) \/ Reassign(d, p, r, v)
      PROVE  ClaimMatchesCandidates'
  BY <1>9 DEF CancelWork, Assign, Reassign, dispatchVars
<1>10. QED
  BY <1>1, <1>2, <1>3, <1>4, <1>5, <1>6, <1>7, <1>8, <1>9, ClaimSteps

(* A step that touches one dispatch only has to be right about that one.    *)
LEMMA WorkLocal ==
  ASSUME TypeOK, WorkBelongsToHolder, NEW d \in Dispatch,
         \A e \in Dispatch \ {d} : status'[e] = status[e] /\ owner'[e] = owner[e],
         active' \subseteq ActiveRow,
         \A row \in ActiveRow : row.dispatch # d => (row \in active' <=> row \in active),
         \A row \in active' : row.dispatch = d => BelongsToHolder(row)',
         status'[d] = "CLAIMED" /\ owner'[d] \in Driver =>
           \E row \in active' : row.dispatch = d
  PROVE  WorkBelongsToHolder'
<1>1. ASSUME NEW row \in active' PROVE BelongsToHolder(row)'
  <2>1. CASE row.dispatch = d
    BY <2>1
  <2>2. CASE row.dispatch # d
    <3>1. row \in active /\ row.dispatch \in Dispatch
      BY <2>2 DEF ActiveRow
    <3>2. BelongsToHolder(row)
      BY <3>1 DEF WorkBelongsToHolder
    <3>3. QED
      BY <2>2, <3>1, <3>2 DEF BelongsToHolder
  <2>3. QED
    BY <2>1, <2>2
<1>2. ASSUME NEW e \in Dispatch, status'[e] = "CLAIMED", owner'[e] \in Driver
      PROVE  ActiveOn(e)' # {}
  <2>1. CASE e = d
    BY <1>2, <2>1 DEF ActiveOn
  <2>2. CASE e # d
    <3>1. PICK row \in active : row.dispatch = e
      BY <1>2, <2>2 DEF WorkBelongsToHolder, ActiveOn
    <3>2. QED
      BY <2>2, <3>1 DEF ActiveOn, TypeOK
  <2>3. QED
    BY <2>1, <2>2
<1>3. QED
  BY <1>1, <1>2 DEF WorkBelongsToHolder

(* Work starts under the claim of its holder and ends before the claim.     *)
LEMMA StepWork ==
  ClaimInvariant /\ [Next]_vars => WorkBelongsToHolder'
<1> SUFFICES ASSUME ClaimInvariant, [Next]_vars PROVE WorkBelongsToHolder'
  OBVIOUS
<1> USE DEF ClaimInvariant
<1>a. TypeOK'
  BY StepTypeOK
<1>b. ASSUME NEW d \in Dispatch, status[d] # "CLAIMED"
      PROVE  \A row \in active : row.dispatch # d
  BY <1>b DEF WorkBelongsToHolder, BelongsToHolder
<1>1. CASE UNCHANGED claimVars
  BY <1>1 DEF claimVars, WorkBelongsToHolder, BelongsToHolder, ActiveOn
<1>2. ASSUME NEW d \in Dispatch,
             OpenDispatch(d) \/ ArriveLate(d) \/ \E p \in Provider : Claim(d, p)
      PROVE  WorkBelongsToHolder'
  <2>1. active' = active /\ \A row \in active : row.dispatch # d
    BY <1>2, <1>b DEF OpenDispatch, ArriveLate, Claim, ClaimAllowed, workVars
  <2>2. ~(status'[d] = "CLAIMED" /\ owner'[d] \in Driver)
    BY <1>2 DEF OpenDispatch, ArriveLate, Claim, ClaimAllowed, TypeOK
  <2>3. \A e \in Dispatch \ {d} : status'[e] = status[e] /\ owner'[e] = owner[e]
    BY <1>2 DEF OpenDispatch, ArriveLate, Claim, TypeOK
  <2>4. QED
    BY <1>a, <2>1, <2>2, <2>3, WorkLocal DEF TypeOK
<1>3. ASSUME NEW d \in Dispatch, NEW r \in Driver, NEW v \in Vehicle, Take(d, r, v)
      PROVE  WorkBelongsToHolder'
  <2> DEFINE new == [dispatch |-> d, driver |-> r, vehicle |-> v, mode |-> "INDEPENDENT"]
  <2>1. active' = active \cup {new} /\ \A row \in active : row.dispatch # d
    BY <1>3, <1>b DEF Take, TakeAllowed
  <2>2. BelongsToHolder(new)'
    BY <1>3 DEF Take, TakeAllowed, BelongsToHolder, TypeOK
  <2>3. \A e \in Dispatch \ {d} : status'[e] = status[e] /\ owner'[e] = owner[e]
    BY <1>3 DEF Take, TypeOK
  <2>4. /\ \A row \in ActiveRow : row.dispatch # d => (row \in active' <=> row \in active)
        /\ \A row \in active' : row.dispatch = d => row = new
        /\ new \in active' /\ new.dispatch = d
    BY <2>1
  <2> HIDE DEF new
  <2>5. /\ active' \subseteq ActiveRow
        /\ \A row \in active' : row.dispatch = d => BelongsToHolder(row)'
        /\ \E row \in active' : row.dispatch = d
    BY <1>a, <2>2, <2>4 DEF TypeOK
  <2>6. QED
    BY <2>3, <2>4, <2>5, WorkLocal
<1>4. ASSUME NEW d \in Dispatch, NEW p \in Provider, NEW r \in Driver, NEW v \in Vehicle,
             Assign(d, p, r, v) \/ Reassign(d, p, r, v)
      PROVE  WorkBelongsToHolder'
  <2>1. /\ \A row \in ActiveRow : row.dispatch # d => (row \in active' <=> row \in active)
        /\ \A row \in active' : row.dispatch = d => row = FleetRow(d, r, v)
        /\ FleetRow(d, r, v) \in active'
    BY <1>4 DEF Assign, Reassign, ActiveOn, FleetRow
  <2>3. status' = status /\ owner' = owner
    BY <1>4 DEF Assign, Reassign, dispatchVars
  <2>2. BelongsToHolder(FleetRow(d, r, v))'
    BY <1>4, <2>3 DEF Assign, Reassign, Holds, FleetResources, FleetRow, BelongsToHolder,
                TypeOK
  <2>4. FleetRow(d, r, v).dispatch = d
    BY DEF FleetRow
  <2>5. /\ active' \subseteq ActiveRow
        /\ \A row \in active' : row.dispatch = d => BelongsToHolder(row)'
        /\ \E row \in active' : row.dispatch = d
    BY <1>a, <2>1, <2>2, <2>4 DEF TypeOK
  <2>6. QED
    BY <2>1, <2>3, <2>5, WorkLocal
<1>5. ASSUME NEW d \in Dispatch, NEW p \in Provider, CancelWork(d, p)
      PROVE  WorkBelongsToHolder'
  <2>1. active' = active \ ActiveOn(d) /\ status' = status /\ owner' = owner
    BY <1>5 DEF CancelWork, dispatchVars
  <2>2. owner[d] \notin Driver
    BY <1>5 DEF CancelWork, Holds
  <2>3. QED
    BY <1>a, <2>1, <2>2, WorkLocal DEF TypeOK, ActiveOn
<1>6. ASSUME NEW d \in Dispatch, NEW p \in Provider, ProviderRelease(d, p)
      PROVE  WorkBelongsToHolder'
  <2>1. active' = active /\ \A row \in active : row.dispatch # d
    BY <1>6 DEF ProviderRelease, ActiveOn, workVars
  <2>2. status'[d] # "CLAIMED"
    BY <1>6 DEF ProviderRelease, Reopen, TypeOK
  <2>3. \A e \in Dispatch \ {d} : status'[e] = status[e] /\ owner'[e] = owner[e]
    BY <1>6 DEF ProviderRelease, Reopen, TypeOK
  <2>4. QED
    BY <1>a, <2>1, <2>2, <2>3, WorkLocal DEF TypeOK
<1>7. ASSUME NEW d \in Dispatch, NEW a \in Actor, DriverRelease(d, a) \/ Complete(d, a)
      PROVE  WorkBelongsToHolder'
  <2>1. active' = active \ ActiveOn(d) /\ status'[d] # "CLAIMED"
    BY <1>7 DEF DriverRelease, Complete, Reopen, TypeOK
  <2>2. \A e \in Dispatch \ {d} : status'[e] = status[e] /\ owner'[e] = owner[e]
    BY <1>7 DEF DriverRelease, Complete, Reopen, TypeOK
  <2>3. QED
    BY <1>a, <2>1, <2>2, WorkLocal DEF TypeOK, ActiveOn
<1>8. ASSUME NEW d \in Dispatch, CancelRequest(d) PROVE WorkBelongsToHolder'
  <2>1. CASE status[d] \notin {"OPEN", "CLAIMED"}
    BY <1>8, <2>1 DEF CancelRequest, CloseForCancelledRequest, WorkBelongsToHolder,
                     BelongsToHolder, ActiveOn
  <2>2. CASE status[d] \in {"OPEN", "CLAIMED"}
    <3>1. active' = active \ ActiveOn(d) /\ status'[d] # "CLAIMED"
      BY <1>8, <2>2 DEF CancelRequest, CloseForCancelledRequest, TypeOK
    <3>2. \A e \in Dispatch \ {d} : status'[e] = status[e] /\ owner'[e] = owner[e]
      BY <1>8, <2>2 DEF CancelRequest, CloseForCancelledRequest, TypeOK
    <3>3. QED
      BY <1>a, <3>1, <3>2, WorkLocal DEF TypeOK, ActiveOn
  <2>3. QED
    BY <2>1, <2>2
<1>9. QED
  BY <1>1, <1>2, <1>3, <1>4, <1>5, <1>6, <1>7, <1>8, ClaimSteps DEF Actor

(* A candidate row once CLAIMED or RELEASED is never OFFERED again.         *)
LEMMA StepExemption ==
  ClaimInvariant /\ [Next]_vars => ExemptionIsUsedUp'
<1> SUFFICES ASSUME ClaimInvariant, [Next]_vars PROVE ExemptionIsUsedUp'
  OBVIOUS
<1> USE DEF ClaimInvariant, TypeOK, ExemptionIsUsedUp
<1>1. CASE UNCHANGED claimVars
  BY <1>1 DEF claimVars
<1>2. ASSUME NEW d \in Dispatch, OpenDispatch(d) \/ ArriveLate(d)
      PROVE  ExemptionIsUsedUp'
  BY <1>2 DEF OpenDispatch, ArriveLate
<1>3. ASSUME NEW d \in Dispatch, NEW p \in Provider, Claim(d, p) \/ ProviderRelease(d, p)
      PROVE  ExemptionIsUsedUp'
  <2>1. PICK mark \in {"CLAIMED", "RELEASED"} : candidate' = [candidate EXCEPT ![d][p] = mark]
    BY <1>3 DEF Claim, ProviderRelease
  <2>2. \A e \in Dispatch : status[e] # "NONE" => status'[e] # "NONE"
    BY <1>3 DEF Claim, ProviderRelease, Reopen
  <2>3. \A e \in Dispatch, q \in Provider :
          candidate'[e][q] = IF e = d /\ q = p THEN mark ELSE candidate[e][q]
    BY <2>1
  <2>4. ASSUME NEW e \in Dispatch, PreAward[e] # None
        PROVE  candidate'[e][PreAward[e]] \in {"CLAIMED", "RELEASED"}
    <3>1. PreAward[e] \in Provider
      BY <2>4
    <3>2. QED
      BY <2>3, <2>4, <3>1
  <2>5. QED
    BY <2>2, <2>4
<1>4. ASSUME NEW d \in Dispatch, NEW r \in Driver,
             DriverRelease(d, r) \/ \E v \in Vehicle : Take(d, r, v)
      PROVE  ExemptionIsUsedUp'
  BY <1>4 DEF DriverRelease, Take, Reopen
<1>5. ASSUME NEW d \in Dispatch, CancelRequest(d) \/ \E a \in Actor : Complete(d, a)
      PROVE  ExemptionIsUsedUp'
  BY <1>5 DEF CancelRequest, CloseForCancelledRequest, Complete
<1>6. ASSUME NEW d \in Dispatch, NEW p \in Provider,
             \/ CancelWork(d, p)
             \/ \E r \in Driver, v \in Vehicle : Assign(d, p, r, v) \/ Reassign(d, p, r, v)
      PROVE  ExemptionIsUsedUp'
  BY <1>6 DEF CancelWork, Assign, Reassign, dispatchVars
<1>7. QED
  BY <1>1, <1>2, <1>3, <1>4, <1>5, <1>6, ClaimSteps

(* Whoever wins an open dispatch of a monetized kind owes its price: the    *)
(* exempt provider cannot win it again, and a driver never was exempt.      *)
LEMMA WinnerOwes ==
  ASSUME ClaimInvariant, NEW d \in Dispatch, NEW a \in Actor,
         (\E p \in Provider : p = a /\ Claim(d, p))
           \/ (\E r \in Driver, v \in Vehicle : r = a /\ Take(d, r, v))
  PROVE  PreAward[d] # a
<1>1. CASE \E p \in Provider : p = a /\ Claim(d, p)
  BY <1>1 DEF ClaimInvariant, ExemptionIsUsedUp, Claim, ClaimAllowed, Actor
<1>2. CASE a \in Driver
  BY <1>2 DEF Actor
<1>3. QED
  BY <1>1, <1>2

(* The credits of a dispatch just won.                                      *)
LEMMA ChargePays ==
  ASSUME ClaimInvariant, NEW d \in Dispatch, NEW a \in Actor,
         Charge(d, a), PreAward[d] # a, status[d] = "OPEN",
         status' = [status EXCEPT ![d] = "CLAIMED"],
         owner' = [owner EXCEPT ![d] = a]
  PROVE  HolderPays' /\ AwardsAreDue'
<1> USE DEF ClaimInvariant, TypeOK
<1>1. \A b \in Actor : <<d, b>> \notin awarded \ refunded
  BY DEF HolderPays, Committed
<1>2. Committed(d, a)' /\ \A b \in Actor \ {a} : ~Committed(d, b)'
  BY DEF Committed
<1>3. \A e \in Dispatch \ {d}, b \in Actor : Committed(e, b)' <=> Committed(e, b)
  BY DEF Committed
<1>4. CASE d \notin Monetized /\ UNCHANGED creditVars
  BY <1>1, <1>2, <1>3, <1>4 DEF HolderPays, AwardsAreDue, Exempt, creditVars
<1>5. CASE /\ d \in Monetized /\ <<d, a>> \notin awarded
           /\ awarded' = awarded \cup {<<d, a>>} /\ refunded' = refunded
  <2>1. ~Exempt(d, a)
    BY <1>5 DEF Exempt
  <2>2. \A e \in Dispatch, b \in Actor :
          <<e, b>> \in awarded' \ refunded'
            <=> <<e, b>> \in awarded \ refunded \/ (e = d /\ b = a)
    <3>1. <<d, a>> \notin refunded
      BY <1>5
    <3>2. ASSUME NEW e \in Dispatch, NEW b \in Actor
          PROVE  <<e, b>> = <<d, a>> <=> e = d /\ b = a
      OBVIOUS
    <3>3. ASSUME NEW x
          PROVE  x \in awarded' \ refunded' <=> x \in awarded \ refunded \/ x = <<d, a>>
      BY <1>5, <3>1
    <3>4. QED
      BY <3>2, <3>3
  <2>3. QED
    BY <1>1, <1>2, <1>3, <1>5, <2>1, <2>2 DEF HolderPays, AwardsAreDue, Exempt
<1>6. QED
  BY <1>4, <1>5 DEF Charge

(* The credits of a dispatch just left by its holder.                       *)
LEMMA RefundPays ==
  ASSUME ClaimInvariant, NEW d \in Dispatch, NEW a \in Actor,
         Refund(d, a), status[d] = "CLAIMED", owner[d] = a,
         status'[d] \notin {"CLAIMED", "DELIVERED"},
         \A e \in Dispatch \ {d} : status'[e] = status[e] /\ owner'[e] = owner[e]
  PROVE  HolderPays' /\ AwardsAreDue'
<1> USE DEF ClaimInvariant, TypeOK
<1>1. \A b \in Actor \ {a} : <<d, b>> \notin awarded \ refunded
  BY DEF HolderPays, Committed
<1>2. \A b \in Actor : ~Committed(d, b)'
  BY DEF Committed
<1>3. \A e \in Dispatch \ {d}, b \in Actor : Committed(e, b)' <=> Committed(e, b)
  BY DEF Committed
<1>4. awarded' = awarded /\ <<d, a>> \notin awarded' \ refunded'
  BY DEF Refund, creditVars
<1>5. \A e \in Dispatch, b \in Actor :
        <<e, b>> \in awarded' \ refunded'
          <=> <<e, b>> \in awarded \ refunded /\ ~(e = d /\ b = a)
  <2>1. refunded' \in {refunded, refunded \cup {<<d, a>>}}
    BY DEF Refund, creditVars
  <2>2. ASSUME NEW e \in Dispatch, NEW b \in Actor
        PROVE  <<e, b>> = <<d, a>> <=> e = d /\ b = a
    OBVIOUS
  <2>3. ASSUME NEW x
        PROVE  x \in awarded' \ refunded' <=> x \in awarded \ refunded /\ x # <<d, a>>
    BY <1>4, <2>1
  <2>4. QED
    BY <2>2, <2>3
<1>6. QED
  BY <1>1, <1>2, <1>3, <1>4, <1>5 DEF HolderPays, AwardsAreDue, Exempt

(* No step separates holding from paying.                                   *)
LEMMA StepPays ==
  ClaimInvariant /\ [Next]_vars => HolderPays' /\ AwardsAreDue'
<1> SUFFICES ASSUME ClaimInvariant, [Next]_vars PROVE HolderPays' /\ AwardsAreDue'
  OBVIOUS
<1> USE DEF ClaimInvariant, TypeOK, Actor
<1>1. CASE UNCHANGED claimVars
  BY <1>1 DEF claimVars, HolderPays, AwardsAreDue, Committed, Exempt
<1>2. ASSUME NEW d \in Dispatch, OpenDispatch(d) \/ ArriveLate(d)
      PROVE  HolderPays' /\ AwardsAreDue'
  BY <1>2 DEF OpenDispatch, ArriveLate, creditVars, HolderPays, AwardsAreDue, Committed, Exempt
<1>3. ASSUME NEW d \in Dispatch, NEW p \in Provider, Claim(d, p)
      PROVE  HolderPays' /\ AwardsAreDue'
  BY <1>3, WinnerOwes, ChargePays DEF Claim, ClaimAllowed
<1>4. ASSUME NEW d \in Dispatch, NEW r \in Driver, NEW v \in Vehicle, Take(d, r, v)
      PROVE  HolderPays' /\ AwardsAreDue'
  BY <1>4, WinnerOwes, ChargePays DEF Take, TakeAllowed
<1>5. ASSUME NEW d \in Dispatch, NEW a \in Actor,
             \/ a \in Provider /\ ProviderRelease(d, a)
             \/ a \in Driver /\ DriverRelease(d, a)
      PROVE  HolderPays' /\ AwardsAreDue'
  <2>1. Holds(d, a) /\ Refund(d, a) /\ Reopen(d)
    BY <1>5 DEF ProviderRelease, DriverRelease
  <2>2. QED
    BY <2>1, RefundPays DEF Holds, Reopen
<1>6. ASSUME NEW d \in Dispatch, NEW a \in Actor, Complete(d, a)
      PROVE  HolderPays' /\ AwardsAreDue'
  BY <1>6 DEF Complete, Holds, creditVars, HolderPays, AwardsAreDue, Committed, Exempt
<1>7. ASSUME NEW d \in Dispatch, CancelRequest(d)
      PROVE  HolderPays' /\ AwardsAreDue'
  <2>1. CASE status[d] \notin {"OPEN", "CLAIMED"}
    BY <1>7, <2>1 DEF CancelRequest, CloseForCancelledRequest, creditVars,
                     HolderPays, AwardsAreDue, Committed, Exempt
  <2>2. CASE status[d] = "OPEN"
    <3>1. owner[d] = None
      BY <2>2 DEF ClaimMatchesCandidates
    <3>2. UNCHANGED creditVars /\ owner' = owner
      BY <1>7, <2>2, <3>1 DEF CancelRequest, CloseForCancelledRequest
    <3>3. /\ status'[d] \notin {"CLAIMED", "DELIVERED"}
          /\ \A e \in Dispatch \ {d} : status'[e] = status[e]
      BY <1>7, <2>2 DEF CancelRequest, CloseForCancelledRequest
    <3>4. QED
      BY <2>2, <3>2, <3>3 DEF creditVars, HolderPays, AwardsAreDue, Committed, Exempt
  <2>3. CASE status[d] = "CLAIMED"
    <3>1. owner[d] \in Actor
      BY <2>3 DEF ClaimMatchesCandidates
    <3>2. Refund(d, owner[d]) /\ owner' = owner
      BY <1>7, <2>3, <3>1 DEF CancelRequest, CloseForCancelledRequest
    <3>3. /\ status'[d] \notin {"CLAIMED", "DELIVERED"}
          /\ \A e \in Dispatch \ {d} : status'[e] = status[e]
      BY <1>7, <2>3 DEF CancelRequest, CloseForCancelledRequest
    <3>4. QED
      BY <2>3, <3>1, <3>2, <3>3, RefundPays
  <2>4. QED
    BY <2>1, <2>2, <2>3
<1>8. ASSUME NEW d \in Dispatch, NEW p \in Provider,
             \/ CancelWork(d, p)
             \/ \E r \in Driver, v \in Vehicle : Assign(d, p, r, v) \/ Reassign(d, p, r, v)
      PROVE  HolderPays' /\ AwardsAreDue'
  BY <1>8 DEF CancelWork, Assign, Reassign, dispatchVars, creditVars,
              HolderPays, AwardsAreDue, Committed, Exempt
<1>9. QED
  BY <1>1, <1>2, <1>3, <1>4, <1>5, <1>6, <1>7, <1>8, ClaimSteps

(* The market's inductive invariant.                                        *)
THEOREM ClaimCorrect == Spec => []ClaimInvariant
<1>1. Init => ClaimInvariant
  BY InitClaim
<1>2. ClaimInvariant /\ [Next]_vars => ClaimInvariant'
  <2> SUFFICES ASSUME ClaimInvariant, [Next]_vars PROVE ClaimInvariant'
    OBVIOUS
  <2>1. TypeOK'
    BY StepTypeOK DEF ClaimInvariant
  <2>2. QED
    BY <2>1, StepMatches, StepWork, StepExemption, StepPays DEF ClaimInvariant
<1>3. QED
  BY <1>1, <1>2, PTL DEF Spec

(* Nobody ever holds or delivers a dispatch without having paid what it     *)
(* owed, and nobody who left one is still charged for it.                   *)
THEOREM PaymentFollowsClaim == Spec => []HolderPays
<1>1. ClaimInvariant => HolderPays
  BY DEF ClaimInvariant
<1>2. QED
  BY <1>1, ClaimCorrect, PTL

(* The owner column and the candidate snapshot always agree.                *)
THEOREM ClaimAndSnapshotAgree == Spec => []ClaimMatchesCandidates
<1>1. ClaimInvariant => ClaimMatchesCandidates
  BY DEF ClaimInvariant
<1>2. QED
  BY <1>1, ClaimCorrect, PTL

(* Nobody works on a dispatch that somebody else holds.                     *)
THEOREM WorkUnderClaim == Spec => []WorkBelongsToHolder
<1>1. ClaimInvariant => WorkBelongsToHolder
  BY DEF ClaimInvariant
<1>2. QED
  BY <1>1, ClaimCorrect, PTL

-----------------------------------------------------------------------------
(* Work: who may work at once, what may not change under work in progress,  *)
(* and how work ends.                                                       *)

(* DeliveredOnce without counting: a delivered dispatch has one COMPLETED   *)
(* row and one event, any other dispatch has none.                          *)
Completed(d) == { row \in ended : row.dispatch = d /\ row.status = "COMPLETED" }

OneCompletion ==
  \A d \in Dispatch :
    /\ status[d] = "DELIVERED" => events[d] = 1 /\ \E row : Completed(d) = {row}
    /\ status[d] # "DELIVERED" => events[d] = 0 /\ Completed(d) = {}

CancelledIsClosed ==
  \A d \in Dispatch : request[d] = "CANCELLED" => status[d] \notin {"OPEN", "CLAIMED"}

(* Everything the work depends on.                                          *)
WorkInvariant ==
  /\ ClaimInvariant
  /\ OneJobAtATime
  /\ NoWithdrawalMidService
  /\ PairingFollowsWork
  /\ OneCompletion
  /\ CancelledIsClosed

-----------------------------------------------------------------------------
(* Nobody works on a dispatch that is not claimed.                          *)
LEMMA NoWorkUnclaimed ==
  ASSUME ClaimInvariant, NEW d \in Dispatch, status[d] # "CLAIMED"
  PROVE  \A row \in active : row.dispatch # d
  BY DEF ClaimInvariant, WorkBelongsToHolder, BelongsToHolder

(* The work a step leaves in progress: what there was, or less, or with one *)
(* row added for a driver and a vehicle that nothing else keeps busy.       *)
LEMMA ActiveSteps ==
  ASSUME ClaimInvariant, [Next]_vars
  PROVE  \/ active' \subseteq active
         \/ \E d \in Dispatch, r \in Driver, v \in Vehicle :
              /\ \/ TakeAllowed(d, r, v)
                    /\ active' = active \cup {[dispatch |-> d, driver |-> r,
                                               vehicle |-> v, mode |-> "INDEPENDENT"]}
                 \/ ~PairingConflict(r, v)
                    /\ active' = (active \ ActiveOn(d)) \cup {FleetRow(d, r, v)}
              /\ \A row \in active : row.dispatch # d => row.driver # r /\ row.vehicle # v
              /\ UNCHANGED partyVars
<1>1. CASE UNCHANGED claimVars
  BY <1>1 DEF claimVars
<1>2. ASSUME NEW d \in Dispatch,
             \/ OpenDispatch(d) \/ ArriveLate(d) \/ CancelRequest(d)
             \/ \E a \in Actor : Complete(d, a)
             \/ \E p \in Provider : Claim(d, p) \/ CancelWork(d, p) \/ ProviderRelease(d, p)
             \/ \E r \in Driver : DriverRelease(d, r)
      PROVE  active' \subseteq active
  BY <1>2 DEF OpenDispatch, ArriveLate, CancelRequest, CloseForCancelledRequest, Complete,
              Claim, CancelWork, ProviderRelease, DriverRelease, workVars
<1>3. ASSUME NEW d \in Dispatch, NEW r \in Driver, NEW v \in Vehicle, Take(d, r, v)
      PROVE  /\ TakeAllowed(d, r, v)
             /\ active' = active \cup {[dispatch |-> d, driver |-> r,
                                        vehicle |-> v, mode |-> "INDEPENDENT"]}
             /\ \A row \in active : row.driver # r /\ row.vehicle # v
             /\ UNCHANGED partyVars
  BY <1>3 DEF Take, TakeAllowed, Busy
<1>4. ASSUME NEW d \in Dispatch, NEW p \in Provider, NEW r \in Driver, NEW v \in Vehicle,
             Assign(d, p, r, v) \/ Reassign(d, p, r, v)
      PROVE  /\ ~PairingConflict(r, v)
             /\ active' = (active \ ActiveOn(d)) \cup {FleetRow(d, r, v)}
             /\ \A row \in active : row.dispatch # d => row.driver # r /\ row.vehicle # v
             /\ UNCHANGED partyVars
  <2>1. CASE Assign(d, p, r, v)
    BY <2>1 DEF Assign, FleetResources, Busy
  <2>2. CASE Reassign(d, p, r, v)
    BY <2>2 DEF Reassign, FleetResources, BusyOutside
  <2>3. QED
    BY <1>4, <2>1, <2>2
<1>5. QED
  BY <1>1, <1>2, <1>3, <1>4, ClaimSteps

(* Takes, fleet assignments and reassignments keep jobs apart.              *)
LEMMA StepOneJob ==
  ASSUME ClaimInvariant, OneJobAtATime, [Next]_vars
  PROVE  OneJobAtATime'
<1>1. CASE active' \subseteq active
  BY <1>1 DEF OneJobAtATime
<1>2. ASSUME NEW d \in Dispatch, NEW r \in Driver, NEW v \in Vehicle, NEW new,
             new.dispatch = d, new.driver = r, new.vehicle = v,
             active' \subseteq active \cup {new},
             \A row \in active' : row.dispatch = d => row = new,
             \A row \in active : row.dispatch # d => row.driver # r /\ row.vehicle # v
      PROVE  OneJobAtATime'
  BY <1>2 DEF OneJobAtATime
<1>3. ASSUME NEW d \in Dispatch, NEW r \in Driver, NEW v \in Vehicle,
             TakeAllowed(d, r, v),
             active' = active \cup {[dispatch |-> d, driver |-> r,
                                     vehicle |-> v, mode |-> "INDEPENDENT"]},
             \A row \in active : row.dispatch # d => row.driver # r /\ row.vehicle # v
      PROVE  OneJobAtATime'
  <2> DEFINE new == [dispatch |-> d, driver |-> r, vehicle |-> v, mode |-> "INDEPENDENT"]
  <2>1. \A row \in active : row.dispatch # d
    BY <1>3, NoWorkUnclaimed DEF TakeAllowed
  <2>2. /\ new.dispatch = d /\ new.driver = r /\ new.vehicle = v
        /\ active' = active \cup {new}
    BY <1>3
  <2> HIDE DEF new
  <2>3. /\ active' \subseteq active \cup {new}
        /\ \A row \in active' : row.dispatch = d => row = new
    BY <2>1, <2>2
  <2>4. \A row \in active : row.dispatch # d => row.driver # r /\ row.vehicle # v
    BY <1>3
  <2>5. QED
    BY <1>2, <2>2, <2>3, <2>4
<1>4. ASSUME NEW d \in Dispatch, NEW r \in Driver, NEW v \in Vehicle,
             active' = (active \ ActiveOn(d)) \cup {FleetRow(d, r, v)},
             \A row \in active : row.dispatch # d => row.driver # r /\ row.vehicle # v
      PROVE  OneJobAtATime'
  <2> DEFINE new == FleetRow(d, r, v)
  <2>1. /\ new.dispatch = d /\ new.driver = r /\ new.vehicle = v
        /\ active' = (active \ ActiveOn(d)) \cup {new}
    BY <1>4 DEF FleetRow
  <2> HIDE DEF new
  <2>2. \A row \in active' : row.dispatch = d => row = new
    BY <2>1 DEF ActiveOn
  <2>3. /\ active' \subseteq active \cup {new}
        /\ \A row \in active : row.dispatch # d => row.driver # r /\ row.vehicle # v
    BY <1>4, <2>1
  <2>4. QED
    BY <1>2, <2>1, <2>2, <2>3
<1>5. QED
  BY <1>1, <1>3, <1>4, ActiveSteps

-----------------------------------------------------------------------------
(* The steps of the parties that matter to work in progress.                *)
LEMMA PartySteps ==
  ASSUME [Next]_vars
  PROVE  \/ UNCHANGED partyVars
         \/ /\ active' = active
            /\ \/ \E r \in Driver :
                    \/ Approve(r) \/ Unpair(r)
                    \/ \E to \in {"SUSPENDED", "REJECTED"} : Withdraw(r, to)
                    \/ \E v \in Vehicle :
                         Pair(r, v) \/ AddOwnVehicle(r, v) \/ RetireOwnVehicle(r, v)
               \/ \E x \in Actor : Switch(x)
               \/ \E v \in Vehicle : UpdateVehicle(v)
               \/ \E p \in Provider : SwitchCoverage(p)
<1>1. CASE UNCHANGED vars
  BY <1>1 DEF vars
<1>2. ASSUME NEW d \in Dispatch, DispatchStep(d) PROVE UNCHANGED partyVars
  <2>1. CASE \/ OpenDispatch(d) \/ CloseWindow(d) \/ ArriveLate(d) \/ CancelRequest(d)
             \/ \E a \in Actor : Complete(d, a)
    BY <2>1 DEF OpenDispatch, CloseWindow, ArriveLate, CancelRequest, Complete
  <2>2. ASSUME NEW p \in Provider, ProviderStep(d, p) PROVE UNCHANGED partyVars
    BY <2>2 DEF ProviderStep, Claim, CancelWork, ProviderRelease, Assign, Reassign
  <2>3. ASSUME NEW r \in Driver, DriverStep(d, r) PROVE UNCHANGED partyVars
    BY <2>3 DEF DriverStep, DriverRelease, Take
  <2>4. QED
    BY <1>2, <2>1, <2>2, <2>3 DEF DispatchStep
<1>3. ASSUME PartyStep, ~ UNCHANGED partyVars
      PROVE  /\ active' = active
             /\ \/ \E r \in Driver :
                    \/ Approve(r) \/ Unpair(r)
                    \/ \E to \in {"SUSPENDED", "REJECTED"} : Withdraw(r, to)
                    \/ \E v \in Vehicle :
                         Pair(r, v) \/ AddOwnVehicle(r, v) \/ RetireOwnVehicle(r, v)
                \/ \E x \in Actor : Switch(x)
                \/ \E v \in Vehicle : UpdateVehicle(v)
                \/ \E p \in Provider : SwitchCoverage(p)
  <2>1. ASSUME NEW r \in Driver,
               \/ Approve(r) \/ Unpair(r)
               \/ \E to \in {"SUSPENDED", "REJECTED"} : Withdraw(r, to)
               \/ \E v \in Vehicle : Pair(r, v) \/ AddOwnVehicle(r, v) \/ RetireOwnVehicle(r, v)
        PROVE  active' = active
    BY <2>1 DEF Approve, Unpair, Withdraw, Pair, AddOwnVehicle, RetireOwnVehicle, workVars
  <2>2. ASSUME NEW x, Switch(x) PROVE active' = active
    BY <2>2 DEF Switch, workVars
  <2>3. ASSUME NEW p \in Provider, SwitchCoverage(p) PROVE active' = active
    BY <2>3 DEF SwitchCoverage, workVars
  <2>4. ASSUME NEW a \in Actor, NEW amount \in Movements, Move(a, amount) PROVE FALSE
    BY <1>3, <2>4 DEF Move
  <2>5. QED
    BY <1>3, <2>1, <2>2, <2>3, <2>4
       DEF PartyStep, TransitionProvider, UpdateDriver, UpdateVehicle, Actor
<1>4. QED
  BY <1>1, <1>2, <1>3 DEF Next

(* No suspension or retirement overtakes the work it would interrupt: own   *)
(* vehicles can only be retired by their driver, who is told of the work.   *)
LEMMA StepNoWithdrawal ==
  ASSUME ClaimInvariant, NoWithdrawalMidService, [Next]_vars
  PROVE  NoWithdrawalMidService'
<1> USE DEF NoWithdrawalMidService
<1>a. \A row \in active : row.driver \in Driver /\ row.vehicle \in Vehicle
  BY DEF ClaimInvariant, TypeOK, ActiveRow
<1>1. CASE UNCHANGED partyVars /\ active' \subseteq active
  BY <1>1 DEF partyVars
<1>2. ASSUME NEW d \in Dispatch, NEW r \in Driver, NEW v \in Vehicle,
             TakeAllowed(d, r, v), UNCHANGED partyVars,
             active' = active \cup {[dispatch |-> d, driver |-> r,
                                     vehicle |-> v, mode |-> "INDEPENDENT"]}
      PROVE  NoWithdrawalMidService'
  BY <1>2 DEF TakeAllowed, partyVars
<1>3. ASSUME NEW d \in Dispatch, NEW r \in Driver, NEW v \in Vehicle, UNCHANGED partyVars,
             active' = (active \ ActiveOn(d)) \cup {FleetRow(d, r, v)}
      PROVE  NoWithdrawalMidService'
  BY <1>3 DEF FleetRow, partyVars
<1>4. ASSUME active' = active, NEW r \in Driver,
             \/ Approve(r) \/ Unpair(r)
             \/ \E to \in {"SUSPENDED", "REJECTED"} : Withdraw(r, to)
             \/ \E v \in Vehicle : Pair(r, v) \/ AddOwnVehicle(r, v) \/ RetireOwnVehicle(r, v)
      PROVE  NoWithdrawalMidService'
  BY <1>4, <1>a DEF Approve, Unpair, Withdraw, Pair, AddOwnVehicle, RetireOwnVehicle,
                    ClaimInvariant, TypeOK
<1>5. ASSUME active' = active,
             \/ \E x \in Actor : Switch(x)
             \/ \E v \in Vehicle : UpdateVehicle(v)
             \/ \E p \in Provider : SwitchCoverage(p)
      PROVE  NoWithdrawalMidService'
  <2>1. ASSUME NEW row \in active, row.mode = "INDEPENDENT"
        PROVE  VehicleOwner[row.vehicle] \in Driver
    BY <2>1, <1>a DEF ClaimInvariant, WorkBelongsToHolder, BelongsToHolder
  <2>2. profile' = profile
    BY <1>5 DEF UpdateVehicle, Switch, SwitchCoverage
  <2>3. ASSUME NEW row \in active, row.mode = "INDEPENDENT"
        PROVE  row.vehicle \in available'
    <3>1. row.vehicle \in available /\ row.vehicle \notin Actor
      BY <1>a, <2>3
    <3>2. CASE \E x \in Actor : Switch(x)
      BY <3>1, <3>2 DEF Switch
    <3>3. CASE \E v \in Vehicle : UpdateVehicle(v)
      BY <3>1, <3>3, <2>1, <2>3 DEF UpdateVehicle, Switch
    <3>4. CASE \E p \in Provider : SwitchCoverage(p)
      BY <3>1, <3>4 DEF SwitchCoverage
    <3>5. QED
      BY <1>5, <3>2, <3>3, <3>4
  <2>4. QED
    BY <1>5, <2>2, <2>3
<1>6. QED
  BY <1>1, <1>2, <1>3, <1>4, <1>5, ActiveSteps, PartySteps

(* Pairing and unpairing keep off whatever is at work.                      *)
LEMMA StepPairing ==
  ASSUME ClaimInvariant, PairingFollowsWork, [Next]_vars
  PROVE  PairingFollowsWork'
<1> USE DEF PairingFollowsWork
<1>a. \A row \in active : row.driver \in Driver /\ row.vehicle \in Vehicle
  BY DEF ClaimInvariant, TypeOK, ActiveRow
<1>b. ASSUME paired' = paired
      PROVE  \A r, v : PairingConflict(r, v)' <=> PairingConflict(r, v)
  BY <1>b DEF PairingConflict
<1>1. CASE UNCHANGED partyVars /\ active' \subseteq active
  BY <1>1, <1>b DEF partyVars
<1>2. ASSUME NEW d \in Dispatch, NEW r \in Driver, NEW v \in Vehicle, UNCHANGED partyVars,
             active' = active \cup {[dispatch |-> d, driver |-> r,
                                     vehicle |-> v, mode |-> "INDEPENDENT"]}
      PROVE  PairingFollowsWork'
  BY <1>2, <1>b DEF partyVars
<1>3. ASSUME NEW d \in Dispatch, NEW r \in Driver, NEW v \in Vehicle, UNCHANGED partyVars,
             ~PairingConflict(r, v),
             active' = (active \ ActiveOn(d)) \cup {FleetRow(d, r, v)}
      PROVE  PairingFollowsWork'
  BY <1>3, <1>b DEF FleetRow, partyVars
<1>4. ASSUME active' = active, NEW r \in Driver, NEW v \in Vehicle, Pair(r, v)
      PROVE  PairingFollowsWork'
  BY <1>4, <1>a DEF Pair, PairingConflict, Busy, ClaimInvariant, TypeOK
<1>5. ASSUME active' = active, NEW r \in Driver, Unpair(r)
      PROVE  PairingFollowsWork'
  BY <1>5, <1>a DEF Unpair, PairingConflict, ClaimInvariant, TypeOK
<1>6. ASSUME active' = active, paired' = paired PROVE PairingFollowsWork'
  BY <1>6, <1>b
<1>7. ASSUME \/ \E r \in Driver :
                  \/ Approve(r) \/ \E to \in {"SUSPENDED", "REJECTED"} : Withdraw(r, to)
                  \/ \E v \in Vehicle : AddOwnVehicle(r, v) \/ RetireOwnVehicle(r, v)
             \/ \E x \in Actor : Switch(x)
             \/ \E v \in Vehicle : UpdateVehicle(v)
             \/ \E p \in Provider : SwitchCoverage(p)
      PROVE  paired' = paired
  BY <1>7 DEF Approve, Withdraw, AddOwnVehicle, RetireOwnVehicle, UpdateVehicle, Switch,
              SwitchCoverage
<1>8. QED
  BY <1>1, <1>2, <1>3, <1>4, <1>5, <1>6, <1>7, ActiveSteps, PartySteps

-----------------------------------------------------------------------------
(* Only a completion completes.                                             *)
LEMMA CompletionSteps ==
  ASSUME TypeOK, [Next]_vars
  PROVE  \/ \E d \in Dispatch, a \in Actor : Complete(d, a)
         \/ /\ events' = events
            /\ \A e \in Dispatch :
                 /\ status'[e] = "DELIVERED" <=> status[e] = "DELIVERED"
                 /\ Completed(e)' = Completed(e)
<1> DEFINE Same == /\ events' = events
                   /\ \A e \in Dispatch :
                        /\ status'[e] = "DELIVERED" <=> status[e] = "DELIVERED"
                        /\ Completed(e)' = Completed(e)
<1>1. ASSUME ended' = ended PROVE \A e : Completed(e)' = Completed(e)
  BY <1>1 DEF Completed
<1>2. ASSUME NEW d \in Dispatch, NEW how \in {"REASSIGNED", "CANCELLED"},
             ended' = ended \cup End(ActiveOn(d), how)
      PROVE  \A e : Completed(e)' = Completed(e)
  BY <1>2 DEF Completed, End
<1>3. CASE UNCHANGED vars
  <2>1. UNCHANGED <<status, ended, events>>
    BY <1>3 DEF vars, dispatchVars, workVars
  <2>2. QED
    BY <2>1, <1>1
<1>4. CASE PartyStep
  <2>1. ASSUME NEW r \in Driver,
               \/ Approve(r) \/ Unpair(r)
               \/ \E to \in {"SUSPENDED", "REJECTED"} : Withdraw(r, to)
               \/ \E v \in Vehicle : Pair(r, v) \/ AddOwnVehicle(r, v) \/ RetireOwnVehicle(r, v)
        PROVE  UNCHANGED <<dispatchVars, workVars>>
    BY <2>1 DEF Approve, Unpair, Withdraw, Pair, AddOwnVehicle, RetireOwnVehicle
  <2>2. ASSUME NEW x, Switch(x) PROVE UNCHANGED <<dispatchVars, workVars>>
    BY <2>2 DEF Switch
  <2>3. ASSUME NEW p \in Provider, SwitchCoverage(p)
        PROVE  UNCHANGED <<dispatchVars, workVars>>
    BY <2>3 DEF SwitchCoverage
  <2>4. ASSUME NEW a \in Actor, NEW amount \in Movements, Move(a, amount)
        PROVE  UNCHANGED <<dispatchVars, workVars>>
    BY <2>4 DEF Move
  <2>5. UNCHANGED <<dispatchVars, workVars>>
    BY <1>4, <2>1, <2>2, <2>3, <2>4
       DEF PartyStep, TransitionProvider, UpdateDriver, UpdateVehicle
  <2>6. QED
    BY <2>5, <1>1 DEF dispatchVars, workVars
<1>5. ASSUME NEW d \in Dispatch,
             \/ OpenDispatch(d) \/ CloseWindow(d) \/ ArriveLate(d)
             \/ \E p \in Provider : Claim(d, p) \/ ProviderRelease(d, p)
             \/ \E p \in Provider, r \in Driver, v \in Vehicle : Assign(d, p, r, v)
             \/ \E r \in Driver, v \in Vehicle : Take(d, r, v)
      PROVE  Same
  <2>1. ended' = ended /\ events' = events
    BY <1>5 DEF OpenDispatch, CloseWindow, ArriveLate, Claim, ProviderRelease, Assign, Take,
                workVars
  <2>2. \A e \in Dispatch : status'[e] = "DELIVERED" <=> status[e] = "DELIVERED"
    BY <1>5 DEF OpenDispatch, CloseWindow, ArriveLate, Claim, ClaimAllowed, ProviderRelease,
                Assign, Take, TakeAllowed, Reopen, Holds, dispatchVars, TypeOK
  <2>3. QED
    BY <1>1, <2>1, <2>2
<1>6. ASSUME NEW d \in Dispatch,
             \/ CancelRequest(d)
             \/ \E p \in Provider :
                  \/ CancelWork(d, p)
                  \/ \E r \in Driver, v \in Vehicle : Reassign(d, p, r, v)
             \/ \E r \in Driver : DriverRelease(d, r)
      PROVE  Same
  <2>1. /\ events' = events
        /\ \/ ended' = ended
           \/ \E how \in {"REASSIGNED", "CANCELLED"} : ended' = ended \cup End(ActiveOn(d), how)
    BY <1>6 DEF CancelRequest, CloseForCancelledRequest, CancelWork, Reassign, DriverRelease
  <2>2. \A e \in Dispatch : status'[e] = "DELIVERED" <=> status[e] = "DELIVERED"
    BY <1>6 DEF CancelRequest, CloseForCancelledRequest, CancelWork, Reassign,
                DriverRelease, Reopen, Holds, dispatchVars, TypeOK
  <2>3. QED
    BY <1>1, <1>2, <2>1, <2>2
<1>7. QED
  BY <1>3, <1>4, <1>5, <1>6 DEF Next, DispatchStep, ProviderStep, DriverStep

(* The one job of a dispatch becomes its one completion.                    *)
LEMMA StepCompletion ==
  ASSUME ClaimInvariant, OneJobAtATime, OneCompletion, [Next]_vars
  PROVE  OneCompletion'
<1>1. CASE /\ events' = events
           /\ \A e \in Dispatch :
                /\ status'[e] = "DELIVERED" <=> status[e] = "DELIVERED"
                /\ Completed(e)' = Completed(e)
  BY <1>1 DEF OneCompletion
<1>2. ASSUME NEW d \in Dispatch, NEW a \in Actor, Complete(d, a)
      PROVE  OneCompletion'
  <2> USE DEF ClaimInvariant, TypeOK
  <2>1. PICK row \in active : row.dispatch = d
    BY <1>2 DEF Complete, ActiveOn
  <2>2. ActiveOn(d) = {row}
    BY <2>1 DEF ActiveOn, OneJobAtATime
  <2> DEFINE new == [dispatch |-> row.dispatch, driver |-> row.driver, mode |-> row.mode,
                     status |-> "COMPLETED"]
  <2>3. ended' = ended \cup {new} /\ new.dispatch = d /\ new.status = "COMPLETED"
    BY <1>2, <2>1, <2>2 DEF Complete, End
  <2>4. status[d] # "DELIVERED"
    BY <1>2 DEF Complete, Holds
  <2>5. /\ status'[d] = "DELIVERED" /\ events'[d] = events[d] + 1
        /\ \A e \in Dispatch \ {d} : status'[e] = status[e] /\ events'[e] = events[e]
    BY <1>2 DEF Complete
  <2> HIDE DEF new
  <2>6. Completed(d)' = {new}
    BY <2>3, <2>4 DEF Completed, OneCompletion
  <2>7. \A e \in Dispatch \ {d} : Completed(e)' = Completed(e)
    BY <2>3 DEF Completed
  <2>8. events'[d] = 1
    BY <2>4, <2>5 DEF OneCompletion
  <2>9. ASSUME NEW e \in Dispatch
        PROVE  /\ status'[e] = "DELIVERED" => events'[e] = 1 /\ \E x : Completed(e)' = {x}
               /\ status'[e] # "DELIVERED" => events'[e] = 0 /\ Completed(e)' = {}
    <3>1. CASE e = d
      BY <3>1, <2>5, <2>6, <2>8 DEF Completed
    <3>2. CASE e # d
      <4>1. /\ status'[e] = status[e] /\ events'[e] = events[e]
            /\ Completed(e)' = Completed(e)
        BY <3>2, <2>5, <2>7, <2>9
      <4>2. /\ status[e] = "DELIVERED" => events[e] = 1 /\ \E x : Completed(e) = {x}
            /\ status[e] # "DELIVERED" => events[e] = 0 /\ Completed(e) = {}
        BY <2>9 DEF OneCompletion
      <4>3. QED
        BY ONLY <4>1, <4>2
    <3>3. QED
      BY <3>1, <3>2
  <2>10. QED
    BY <2>9 DEF OneCompletion
<1>3. QED
  BY <1>1, <1>2, CompletionSteps DEF ClaimInvariant

(* A cancelled request is never reopened and its dispatch never opened or   *)
(* won again.                                                               *)
LEMMA StepClosed ==
  ASSUME ClaimInvariant, CancelledIsClosed, [Next]_vars
  PROVE  CancelledIsClosed'
<1> USE DEF ClaimInvariant, TypeOK, CancelledIsClosed
<1>1. ASSUME NEW d \in Dispatch, CancelRequest(d) PROVE CancelledIsClosed'
  BY <1>1 DEF CancelRequest, CloseForCancelledRequest
<1>2. ASSUME NEW d \in Dispatch,
             \/ OpenDispatch(d) \/ CloseWindow(d) \/ ArriveLate(d)
             \/ \E a \in Actor : Complete(d, a)
      PROVE  CancelledIsClosed'
  BY <1>2 DEF OpenDispatch, CloseWindow, ArriveLate, Complete
<1>3. ASSUME NEW d \in Dispatch, NEW p \in Provider, ProviderStep(d, p)
      PROVE  CancelledIsClosed'
  BY <1>3 DEF ProviderStep, Claim, ClaimAllowed, CancelWork, ProviderRelease, Assign, Reassign,
              Holds, Reopen, dispatchVars
<1>4. ASSUME NEW d \in Dispatch, NEW r \in Driver, DriverStep(d, r)
      PROVE  CancelledIsClosed'
  BY <1>4 DEF DriverStep, DriverRelease, Take, TakeAllowed, Holds, Reopen
<1>5. CASE PartyStep \/ UNCHANGED vars
  <2>1. UNCHANGED dispatchVars
    BY <1>5 DEF PartyStep, Approve, Unpair, Withdraw, Pair, AddOwnVehicle, RetireOwnVehicle,
                TransitionProvider, UpdateDriver, UpdateVehicle, Switch, SwitchCoverage, Move, vars
  <2>2. QED
    BY <2>1 DEF dispatchVars
<1>6. QED
  BY <1>1, <1>2, <1>3, <1>4, <1>5 DEF Next, DispatchStep

-----------------------------------------------------------------------------
THEOREM WorkCorrect == Spec => []WorkInvariant
<1>1. Init => WorkInvariant
  <2> SUFFICES ASSUME Init PROVE WorkInvariant
    OBVIOUS
  <2>1. active = {} /\ ended = {}
    BY DEF Init
  <2>2. OneCompletion /\ CancelledIsClosed
    BY <2>1 DEF Init, OneCompletion, Completed, CancelledIsClosed
  <2>3. QED
    BY <2>1, <2>2, InitClaim
       DEF WorkInvariant, OneJobAtATime, NoWithdrawalMidService, PairingFollowsWork
<1>2. WorkInvariant /\ [Next]_vars => WorkInvariant'
  <2> SUFFICES ASSUME WorkInvariant, [Next]_vars PROVE WorkInvariant'
    OBVIOUS
  <2>1. ClaimInvariant'
    BY StepTypeOK, StepMatches, StepWork, StepExemption, StepPays
       DEF WorkInvariant, ClaimInvariant
  <2>2. QED
    BY <2>1, StepOneJob, StepNoWithdrawal, StepPairing, StepCompletion, StepClosed
       DEF WorkInvariant
<1>3. QED
  BY <1>1, <1>2, PTL DEF Spec

(* Fleet and independent work never share a driver, a vehicle or a dispatch. *)
THEOREM JobsAreExclusive == Spec => []OneJobAtATime
<1>1. WorkInvariant => OneJobAtATime
  BY DEF WorkInvariant
<1>2. QED
  BY <1>1, WorkCorrect, PTL

(* No suspension or retirement overtakes a take.                            *)
THEOREM WithdrawalWaits == Spec => []NoWithdrawalMidService
<1>1. WorkInvariant => NoWithdrawalMidService
  BY DEF WorkInvariant
<1>2. QED
  BY <1>1, WorkCorrect, PTL

(* The V1.4 pairing never contradicts the work in progress.                 *)
THEOREM PairingAgrees == Spec => []PairingFollowsWork
<1>1. WorkInvariant => PairingFollowsWork
  BY DEF WorkInvariant
<1>2. QED
  BY <1>1, WorkCorrect, PTL

(* Deliveries, completed assignments and outbox events correspond one to    *)
(* one.                                                                     *)
THEOREM OneDeliveryOneEvent == Spec => []DeliveredOnce
<1>1. WorkInvariant => DeliveredOnce
  <2> SUFFICES ASSUME WorkInvariant, NEW d \in Dispatch
               PROVE  /\ events[d] = Cardinality(Completed(d))
                      /\ events[d] = IF status[d] = "DELIVERED" THEN 1 ELSE 0
    BY DEF DeliveredOnce, Completed
  <2>1. CASE status[d] = "DELIVERED"
    <3>1. PICK row : Completed(d) = {row}
      BY <2>1 DEF WorkInvariant, OneCompletion
    <3>2. QED
      BY <2>1, <3>1, FS_Singleton DEF WorkInvariant, OneCompletion
  <2>2. CASE status[d] # "DELIVERED"
    BY <2>2, FS_EmptySet DEF WorkInvariant, OneCompletion
  <2>3. QED
    BY <2>1, <2>2
<1>2. QED
  BY <1>1, WorkCorrect, PTL

(* After a cancellation nothing is open, worked on or still paid for.       *)
THEOREM CancellationIsFinal == Spec => []CancelledIsOver
<1>1. WorkInvariant => CancelledIsOver
  <2> SUFFICES ASSUME WorkInvariant, NEW d \in Dispatch, request[d] = "CANCELLED"
               PROVE  /\ status[d] \in Terminal \cup {"NONE"}
                      /\ ActiveOn(d) = {}
                      /\ status[d] # "DELIVERED" =>
                           \A a \in Actor : <<d, a>> \notin awarded \ refunded
    BY DEF CancelledIsOver
  <2>1. status[d] \in Terminal \cup {"NONE"}
    BY DEF WorkInvariant, CancelledIsClosed, ClaimInvariant, TypeOK, Status, Terminal
  <2>2. status[d] # "CLAIMED"
    BY DEF WorkInvariant, CancelledIsClosed
  <2>3. ActiveOn(d) = {}
    BY <2>2, NoWorkUnclaimed DEF WorkInvariant, ActiveOn
  <2>4. QED
    BY <2>1, <2>2, <2>3 DEF WorkInvariant, ClaimInvariant, HolderPays, Committed
<1>2. QED
  BY <1>1, WorkCorrect, PTL

(* What is finished stays as it is.                                         *)
THEOREM FinishedStays == Spec => FinishedIsFrozen
<1> DEFINE Frozen == \A d \in Dispatch : status[d] \in Terminal =>
                       status'[d] = status[d] /\ owner'[d] = owner[d]
<1>1. ClaimInvariant /\ [Next]_vars => [Frozen]_vars
  <2> SUFFICES ASSUME ClaimInvariant, [Next]_vars PROVE Frozen
    OBVIOUS
  <2> USE DEF ClaimInvariant, TypeOK, Terminal
  <2>1. CASE UNCHANGED claimVars
    BY <2>1 DEF claimVars
  <2>2. ASSUME NEW d \in Dispatch, OpenDispatch(d) \/ ArriveLate(d) \/ CancelRequest(d)
        PROVE  Frozen
    BY <2>2 DEF OpenDispatch, ArriveLate, CancelRequest, CloseForCancelledRequest
  <2>3. ASSUME NEW d \in Dispatch, NEW a \in Actor, Complete(d, a) PROVE Frozen
    BY <2>3 DEF Complete, Holds
  <2>4. ASSUME NEW d \in Dispatch, NEW p \in Provider,
               \/ Claim(d, p) \/ CancelWork(d, p) \/ ProviderRelease(d, p)
               \/ \E r \in Driver, v \in Vehicle : Assign(d, p, r, v) \/ Reassign(d, p, r, v)
        PROVE  Frozen
    BY <2>4 DEF Claim, ClaimAllowed, CancelWork, ProviderRelease, Assign, Reassign, Holds,
                Reopen, dispatchVars
  <2>5. ASSUME NEW d \in Dispatch, NEW r \in Driver,
               DriverRelease(d, r) \/ \E v \in Vehicle : Take(d, r, v)
        PROVE  Frozen
    BY <2>5 DEF DriverRelease, Take, TakeAllowed, Holds, Reopen
  <2>6. QED
    BY <2>1, <2>2, <2>3, <2>4, <2>5, ClaimSteps
<1>2. QED
  BY <1>1, ClaimCorrect, PTL DEF Spec, FinishedIsFrozen

-----------------------------------------------------------------------------
(* Each dispatch implements ServiceContract.                                *)

(* A driver that took the dispatch and gave it back.                        *)
Left(d, a) ==
  \E row \in ended : /\ row.dispatch = d /\ row.driver = a
                     /\ row.mode = "INDEPENDENT" /\ row.status = "CANCELLED"

(* What one dispatch shows of a step.                                       *)
Untouched(d) ==
  /\ status'[d] = status[d] /\ owner'[d] = owner[d] /\ candidate'[d] = candidate[d]
  /\ \A a \in Actor : Left(d, a)' <=> Left(d, a)

(* ... or the only five ways in which a step touches it.                    *)
Opening(d) ==
  /\ status[d] = "NONE" /\ status'[d] = "OPEN"
  /\ \A a \in Actor : GaveBack(d, a)' => GaveBack(d, a)

Winning(d, a) ==
  /\ status[d] = "OPEN" /\ status'[d] = "CLAIMED" /\ owner'[d] = a
  /\ ~GaveBack(d, a) /\ ~GaveBack(d, a)'
  /\ \A b \in Actor \ {a} : GaveBack(d, b)' <=> GaveBack(d, b)

GivingBack(d, a) ==
  /\ status[d] = "CLAIMED" /\ owner[d] = a
  /\ status'[d] \in {"OPEN", "EXPIRED"} /\ owner'[d] = None
  /\ GaveBack(d, a)'
  /\ \A b \in Actor \ {a} : GaveBack(d, b)' <=> GaveBack(d, b)

Closing(d) ==
  /\ status[d] \in {"OPEN", "CLAIMED"} /\ status'[d] \in {"EXPIRED", "CANCELLED"}
  /\ owner'[d] = owner[d]
  /\ \A b \in Actor : b # owner[d] => (GaveBack(d, b)' <=> GaveBack(d, b))

Delivering(d) ==
  /\ status[d] = "CLAIMED" /\ status'[d] = "DELIVERED" /\ owner'[d] = owner[d]
  /\ \A b \in Actor : GaveBack(d, b)' <=> GaveBack(d, b)

Shape(d) ==
  \/ Untouched(d) \/ Opening(d) \/ Closing(d) \/ Delivering(d)
  \/ \E a \in Actor : Winning(d, a) \/ GivingBack(d, a)

(* Nobody gave back what was never opened.                                  *)
FreshUnopened == \A d \in Dispatch : status[d] = "NONE" => \A a \in Actor : ~GaveBack(d, a)

Step(d) == [Contract(d)!Next]_(Contract(d)!vars)

(* Who has paid follows from who holds, before and after every step.        *)
LEMMA PaidStays ==
  ASSUME HolderPays, HolderPays', NEW d \in Dispatch,
         \A a \in Actor : Committed(d, a)' <=> Committed(d, a)
  PROVE  Paid(d)' = Paid(d)
  BY DEF HolderPays, Paid, Exempt

(* A step that leaves the rows of a dispatch alone is not seen by it.       *)
LEMMA OtherStutters ==
  ASSUME HolderPays, HolderPays', NEW d \in Dispatch, Untouched(d)
  PROVE  UNCHANGED Contract(d)!vars
<1> USE DEF Untouched
<1>1. Phase(d)' = Phase(d) /\ Holder(d)' = Holder(d)
  BY DEF Phase, Holder
<1>2. Paid(d)' = Paid(d)
  BY PaidStays DEF Committed
<1>3. Past(d)' = Past(d)
  BY DEF Past, GaveBack, Left
<1>4. QED
  BY <1>1, <1>2, <1>3 DEF Contract!vars

-----------------------------------------------------------------------------
(* Each of them is a step of the contract.                                  *)
LEMMA OpenStep ==
  ASSUME ClaimInvariant, ClaimInvariant', FreshUnopened, NEW d \in Dispatch, Opening(d)
  PROVE  Contract(d)!Next
<1> USE DEF ClaimInvariant, Opening
<1>1. /\ Phase(d) = "NONE" /\ Phase(d)' = "OPEN"
      /\ Holder(d)' = Holder(d)
  BY DEF Phase, Holder
<1>2. Past(d)' = {} /\ Past(d) = {}
  BY DEF Past, FreshUnopened
<1>3. Paid(d)' = Paid(d)
  BY PaidStays DEF Committed
<1>4. Contract(d)!Publish
  BY <1>1, <1>2, <1>3 DEF Contract!Publish
<1>5. QED
  BY <1>4 DEF Contract!Next

LEMMA WinStep ==
  ASSUME ClaimInvariant, ClaimInvariant', NEW d \in Dispatch, NEW a \in Actor, Winning(d, a)
  PROVE  Contract(d)!Next
<1> USE DEF ClaimInvariant, Winning
<1>1. Phase(d) = "OPEN" /\ Phase(d)' = "CLAIMED" /\ Holder(d)' = a
  BY DEF Phase, Holder
<1>2. owner[d] = None
  BY DEF ClaimMatchesCandidates
<1>3. a \notin Past(d) /\ Past(d)' = Past(d)
  BY <1>2 DEF Past
<1>4. Paid(d)' = Paid(d) \cup ({a} \ { b \in Actor : Exempt(d, b) })
  BY DEF Paid, HolderPays, Committed, Exempt
<1>5. Contract(d)!Win(a)
  BY <1>1, <1>3, <1>4 DEF Contract!Win
<1>6. QED
  BY <1>5 DEF Contract!Next

LEMMA GiveBackStep ==
  ASSUME ClaimInvariant, ClaimInvariant', NEW d \in Dispatch, NEW a \in Actor, GivingBack(d, a)
  PROVE  Contract(d)!Next
<1> USE DEF ClaimInvariant, GivingBack
<1>1. /\ Phase(d) = "CLAIMED" /\ Phase(d)' \in {"OPEN", "OVER"}
      /\ Holder(d) = a /\ Holder(d)' = None
  BY DEF Phase, Holder
<1>2. Past(d)' = Past(d) \cup {a}
  BY DEF Past
<1>3. Paid(d)' = Paid(d) \ {a}
  BY DEF Paid, HolderPays, Committed, Exempt
<1>4. Contract(d)!GiveBack
  BY <1>1, <1>2, <1>3 DEF Contract!GiveBack
<1>5. QED
  BY <1>4 DEF Contract!Next

LEMMA CloseStep ==
  ASSUME ClaimInvariant, ClaimInvariant', NEW d \in Dispatch, Closing(d)
  PROVE  Contract(d)!Next
<1> USE DEF ClaimInvariant, Closing
<1>1. /\ Phase(d) \in {"OPEN", "CLAIMED"} /\ Phase(d)' = "OVER"
      /\ Holder(d) = owner[d] /\ Holder(d)' = None
  BY DEF Phase, Holder, ClaimMatchesCandidates
<1>2. Past(d)' = Past(d)
  BY DEF Past
<1>3. Paid(d)' = Paid(d) \ {owner[d]}
  BY DEF Paid, HolderPays, Committed, Exempt
<1>4. Contract(d)!Close
  BY <1>1, <1>2, <1>3 DEF Contract!Close
<1>5. QED
  BY <1>4 DEF Contract!Next

LEMMA DeliverStep ==
  ASSUME ClaimInvariant, ClaimInvariant', NEW d \in Dispatch, Delivering(d)
  PROVE  Contract(d)!Next
<1> USE DEF ClaimInvariant, Delivering
<1>1. Phase(d) = "CLAIMED" /\ Phase(d)' = "DELIVERED" /\ Holder(d)' = Holder(d)
  BY DEF Phase, Holder
<1>2. Past(d)' = Past(d)
  BY DEF Past
<1>3. Paid(d)' = Paid(d)
  BY PaidStays DEF Committed
<1>4. Contract(d)!Deliver
  BY <1>1, <1>2, <1>3 DEF Contract!Deliver
<1>5. QED
  BY <1>4 DEF Contract!Next

-----------------------------------------------------------------------------
(* Independent work on a dispatch is its holder's, so ending it marks the   *)
(* holder and nobody else.                                                  *)
LEMMA LeftDrivers ==
  ASSUME TypeOK, NEW d, NEW a \in Provider
  PROVE  ~Left(d, a)
  BY DEF TypeOK, EndedRow, Left

LEMMA IndependentWork ==
  ASSUME ClaimInvariant, NEW d \in Dispatch, NEW row \in ActiveOn(d),
         row.mode = "INDEPENDENT"
  PROVE  row.driver = owner[d]
  BY DEF ClaimInvariant, WorkBelongsToHolder, BelongsToHolder, ActiveOn

LEMMA HolderWorks ==
  ASSUME ClaimInvariant, NEW d \in Dispatch, status[d] = "CLAIMED", owner[d] \in Driver
  PROVE  \E row \in ActiveOn(d) : row.mode = "INDEPENDENT" /\ row.driver = owner[d]
<1>1. PICK row \in ActiveOn(d) : TRUE
  BY DEF ClaimInvariant, WorkBelongsToHolder
<1>2. row \in active /\ row.dispatch = d /\ row \in ActiveRow
  BY DEF ActiveOn, ClaimInvariant, TypeOK
<1>3. row.mode \in {"FLEET", "INDEPENDENT"} /\ row.driver \in Driver
  BY <1>2 DEF ActiveRow
<1>4. BelongsToHolder(row)
  BY <1>2 DEF ClaimInvariant, WorkBelongsToHolder
<1>5. row.mode # "FLEET"
  BY <1>2, <1>3, <1>4 DEF BelongsToHolder, Actor
<1>6. row.driver = owner[d]
  BY <1>2, <1>4, <1>5 DEF BelongsToHolder
<1>7. QED
  BY <1>1, <1>3, <1>5, <1>6

LEMMA LeftByEnd ==
  ASSUME ClaimInvariant, NEW d \in Dispatch,
         NEW how \in {"REASSIGNED", "CANCELLED", "COMPLETED"},
         ended' = ended \cup End(ActiveOn(d), how)
  PROVE  /\ \A e \in Dispatch \ {d} : \A a : Left(e, a)' <=> Left(e, a)
         /\ \A a : Left(d, a)' <=> \/ Left(d, a)
                                   \/ /\ how = "CANCELLED"
                                      /\ \E row \in ActiveOn(d) :
                                           row.mode = "INDEPENDENT" /\ row.driver = a
<1> DEFINE Row(row) == [dispatch |-> row.dispatch, driver |-> row.driver,
                        mode |-> row.mode, status |-> how]
<1>1. \A row \in ActiveOn(d) : row.dispatch = d
  BY DEF ActiveOn
<1>2. \A x : x \in ended' <=> x \in ended \/ \E row \in ActiveOn(d) : x = Row(row)
  BY DEF End
<1>3. \A row : /\ Row(row).dispatch = row.dispatch /\ Row(row).driver = row.driver
               /\ Row(row).mode = row.mode /\ Row(row).status = how
  OBVIOUS
<1> HIDE DEF Row
<1>4. ASSUME NEW e \in Dispatch, NEW a
      PROVE  Left(e, a)' <=> \/ Left(e, a)
                             \/ /\ e = d /\ how = "CANCELLED"
                                /\ \E row \in ActiveOn(d) :
                                     row.mode = "INDEPENDENT" /\ row.driver = a
  <2>1. ASSUME Left(e, a)', ~Left(e, a)
        PROVE  /\ e = d /\ how = "CANCELLED"
               /\ \E row \in ActiveOn(d) : row.mode = "INDEPENDENT" /\ row.driver = a
    <3>1. PICK x \in ended' : /\ x.dispatch = e /\ x.driver = a
                              /\ x.mode = "INDEPENDENT" /\ x.status = "CANCELLED"
      BY <2>1 DEF Left
    <3>2. PICK row \in ActiveOn(d) : x = Row(row)
      BY <1>2, <2>1, <3>1 DEF Left
    <3>3. QED
      BY <1>1, <1>3, <3>1, <3>2
  <2>2. ASSUME Left(e, a) PROVE Left(e, a)'
    BY <1>2, <2>2 DEF Left
  <2>3. ASSUME e = d, how = "CANCELLED", NEW row \in ActiveOn(d),
               row.mode = "INDEPENDENT", row.driver = a
        PROVE  Left(e, a)'
    BY <1>1, <1>2, <1>3, <2>3 DEF Left
  <2>4. QED
    BY <2>1, <2>2, <2>3
<1>5. QED
  BY <1>4

-----------------------------------------------------------------------------
(* Every transaction has one of the shapes, for every dispatch.             *)
LEMMA LeftUnchanged ==
  ASSUME ended' = ended
  PROVE  \A e, a : Left(e, a)' <=> Left(e, a)
  BY DEF Left

LEMMA PartyShapes ==
  ASSUME PartyStep \/ UNCHANGED vars, NEW e \in Dispatch
  PROVE  Shape(e)
<1>1. UNCHANGED <<dispatchVars, workVars>>
  BY DEF PartyStep, Approve, Unpair, Withdraw, Pair, AddOwnVehicle, RetireOwnVehicle,
         TransitionProvider, UpdateDriver, UpdateVehicle, Switch, SwitchCoverage, Move, vars
<1>2. QED
  BY <1>1, LeftUnchanged DEF Shape, Untouched, dispatchVars, workVars

LEMMA OpeningShapes ==
  ASSUME ClaimInvariant, NEW d \in Dispatch, NEW e \in Dispatch,
         OpenDispatch(d) \/ CloseWindow(d) \/ ArriveLate(d)
  PROVE  Shape(e)
<1> USE DEF ClaimInvariant, TypeOK
<1>0. \A b \in Actor :
        /\ GaveBack(d, b) <=> (b \in Provider /\ candidate[d][b] = "RELEASED") \/ Left(d, b)
        /\ GaveBack(d, b)' <=> (b \in Provider /\ candidate'[d][b] = "RELEASED") \/ Left(d, b)'
  BY DEF GaveBack, Left
<1>1. \A x \in Dispatch, a \in Actor : Left(x, a)' <=> Left(x, a)
  BY LeftUnchanged DEF OpenDispatch, CloseWindow, ArriveLate, workVars
<1>2. CASE CloseWindow(d)
  BY <1>1, <1>2 DEF CloseWindow, Shape, Untouched
<1>3. CASE e # d
  BY <1>1, <1>3 DEF OpenDispatch, CloseWindow, ArriveLate, Shape, Untouched
<1>4. CASE e = d /\ OpenDispatch(d)
  <2>1. \A p \in Provider : candidate'[d][p] # "RELEASED"
    BY <1>4 DEF OpenDispatch
  <2>2. Opening(d)
    BY <1>0, <1>1, <1>4, <2>1 DEF OpenDispatch, Opening
  <2>3. QED
    BY <1>4, <2>2 DEF Shape
<1>5. CASE e = d /\ ArriveLate(d)
  <2>1. status[d] = "OPEN" /\ status'[d] = "EXPIRED" /\ owner' = owner /\ candidate' = candidate
    BY <1>5 DEF ArriveLate
  <2>2. Closing(d)
    BY <1>0, <1>1, <2>1 DEF Closing
  <2>3. QED
    BY <1>5, <2>2 DEF Shape
<1>6. QED
  BY <1>2, <1>3, <1>4, <1>5

LEMMA WinningShapes ==
  ASSUME ClaimInvariant, NEW d \in Dispatch, NEW e \in Dispatch,
         \/ \E p \in Provider : Claim(d, p)
         \/ \E r \in Driver, v \in Vehicle : Take(d, r, v)
  PROVE  Shape(e)
<1> USE DEF ClaimInvariant, TypeOK
<1>1. \A x \in Dispatch, a \in Actor : Left(x, a)' <=> Left(x, a)
  BY LeftUnchanged DEF Claim, Take, workVars
<1>2. CASE e # d
  BY <1>1, <1>2 DEF Claim, Take, Shape, Untouched
<1>3. ASSUME NEW p \in Provider, Claim(d, p) PROVE Winning(d, p)
  <2>1. ~Left(d, p)
    BY LeftDrivers
  <2>2. /\ candidate[d][p] = "OFFERED" /\ candidate'[d][p] = "CLAIMED"
        /\ \A q \in Provider \ {p} : candidate'[d][q] = candidate[d][q]
    BY <1>3 DEF Claim, ClaimAllowed
  <2>3. status[d] = "OPEN" /\ status'[d] = "CLAIMED" /\ owner'[d] = p
    BY <1>3 DEF Claim, ClaimAllowed
  <2>4. \A b \in Actor : GaveBack(d, b) <=>
          (b \in Provider /\ candidate[d][b] = "RELEASED") \/ Left(d, b)
    BY DEF GaveBack, Left
  <2>5. \A b \in Actor : GaveBack(d, b)' <=>
          (b \in Provider /\ candidate'[d][b] = "RELEASED") \/ Left(d, b)'
    BY DEF GaveBack, Left
  <2>6. ~GaveBack(d, p) /\ ~GaveBack(d, p)'
    BY <1>1, <2>1, <2>2, <2>4, <2>5 DEF Actor
  <2>7. \A b \in Actor \ {p} : GaveBack(d, b)' <=> GaveBack(d, b)
    BY <1>1, <2>2, <2>4, <2>5
  <2>8. p \in Actor
    BY DEF Actor
  <2>9. QED
    BY <2>3, <2>6, <2>7 DEF Winning
<1>4. ASSUME NEW r \in Driver, NEW v \in Vehicle, Take(d, r, v) PROVE Winning(d, r)
  <2>1. ~Left(d, r)
    BY <1>4 DEF Take, TakeAllowed, HasCancelledWork, Left
  <2>2. status[d] = "OPEN" /\ status'[d] = "CLAIMED" /\ owner'[d] = r /\ candidate' = candidate
    BY <1>4 DEF Take, TakeAllowed
  <2>3. \A b \in Actor : GaveBack(d, b) <=>
          (b \in Provider /\ candidate[d][b] = "RELEASED") \/ Left(d, b)
    BY DEF GaveBack, Left
  <2>4. \A b \in Actor : GaveBack(d, b)' <=>
          (b \in Provider /\ candidate'[d][b] = "RELEASED") \/ Left(d, b)'
    BY DEF GaveBack, Left
  <2>5. QED
    BY <1>1, <2>1, <2>2, <2>3, <2>4 DEF Winning, Actor
<1>5. QED
  BY <1>2, <1>3, <1>4 DEF Shape, Actor

LEMMA ReleaseShapes ==
  ASSUME ClaimInvariant, NEW d \in Dispatch, NEW e \in Dispatch,
         \/ \E p \in Provider : ProviderRelease(d, p)
         \/ \E r \in Driver : DriverRelease(d, r)
  PROVE  Shape(e)
<1> USE DEF ClaimInvariant, TypeOK
<1>1. \A b \in Actor : GaveBack(d, b) <=>
        (b \in Provider /\ candidate[d][b] = "RELEASED") \/ Left(d, b)
  BY DEF GaveBack, Left
<1>2. \A b \in Actor : GaveBack(d, b)' <=>
        (b \in Provider /\ candidate'[d][b] = "RELEASED") \/ Left(d, b)'
  BY DEF GaveBack, Left
<1>3. ASSUME NEW p \in Provider, ProviderRelease(d, p) PROVE Shape(e)
  <2>1. \A x \in Dispatch, a \in Actor : Left(x, a)' <=> Left(x, a)
    BY <1>3, LeftUnchanged DEF ProviderRelease, workVars
  <2>2. CASE e # d
    BY <1>3, <2>1, <2>2 DEF ProviderRelease, Reopen, Shape, Untouched
  <2>3. /\ candidate'[d][p] = "RELEASED"
        /\ \A q \in Provider \ {p} : candidate'[d][q] = candidate[d][q]
    BY <1>3 DEF ProviderRelease
  <2>4. /\ status[d] = "CLAIMED" /\ owner[d] = p
        /\ status'[d] \in {"OPEN", "EXPIRED"} /\ owner'[d] = None
    BY <1>3 DEF ProviderRelease, Holds, Reopen
  <2>5. GivingBack(d, p)
    BY <1>1, <1>2, <2>1, <2>3, <2>4 DEF GivingBack, Actor
  <2>6. QED
    BY <2>2, <2>5 DEF Shape, Actor
<1>4. ASSUME NEW r \in Driver, DriverRelease(d, r) PROVE Shape(e)
  <2>1. ended' = ended \cup End(ActiveOn(d), "CANCELLED") /\ candidate' = candidate
    BY <1>4 DEF DriverRelease
  <2>2. CASE e # d
    BY <1>4, <2>1, <2>2, LeftByEnd DEF DriverRelease, Reopen, Shape, Untouched
  <2>3. /\ status[d] = "CLAIMED" /\ owner[d] = r
        /\ status'[d] \in {"OPEN", "EXPIRED"} /\ owner'[d] = None
    BY <1>4 DEF DriverRelease, Holds, Reopen
  <2>4. Left(d, r)'
    <3>1. \E row \in ActiveOn(d) : row.mode = "INDEPENDENT" /\ row.driver = r
      BY <1>4, <2>3, HolderWorks
    <3>2. QED
      BY <2>1, <3>1, LeftByEnd
  <2>5. \A b \in Actor \ {r} : Left(d, b)' <=> Left(d, b)
    <3>1. \A row \in ActiveOn(d) : row.mode = "INDEPENDENT" => row.driver = r
      BY <2>3, IndependentWork
    <3>2. \A b : Left(d, b)' <=> \/ Left(d, b)
                                  \/ \E row \in ActiveOn(d) :
                                       row.mode = "INDEPENDENT" /\ row.driver = b
      BY <2>1, LeftByEnd
    <3>3. QED
      BY <3>1, <3>2
  <2>6. GivingBack(d, r)
    BY <1>1, <1>2, <2>1, <2>3, <2>4, <2>5 DEF GivingBack, Actor
  <2>7. QED
    BY <2>2, <2>6 DEF Shape, Actor
<1>5. QED
  BY <1>3, <1>4

LEMMA EndingShapes ==
  ASSUME ClaimInvariant, NEW d \in Dispatch, NEW e \in Dispatch,
         CancelRequest(d) \/ \E a \in Actor : Complete(d, a)
  PROVE  Shape(e)
<1> USE DEF ClaimInvariant, TypeOK
<1>1. candidate' = candidate /\ owner' = owner
  BY DEF CancelRequest, Complete
<1>2. \A b \in Actor : GaveBack(d, b) <=>
        (b \in Provider /\ candidate[d][b] = "RELEASED") \/ Left(d, b)
  BY DEF GaveBack, Left
<1>3. \A b \in Actor : GaveBack(d, b)' <=>
        (b \in Provider /\ candidate'[d][b] = "RELEASED") \/ Left(d, b)'
  BY DEF GaveBack, Left
<1>4. ASSUME NEW a \in Actor, Complete(d, a) PROVE Shape(e)
  <2>1. ended' = ended \cup End(ActiveOn(d), "COMPLETED")
    BY <1>4 DEF Complete
  <2>2. \A x \in Dispatch, b \in Actor : Left(x, b)' <=> Left(x, b)
    BY <2>1, LeftByEnd
  <2>3. CASE e # d
    BY <1>1, <1>4, <2>2, <2>3 DEF Complete, Shape, Untouched
  <2>4. status[d] = "CLAIMED" /\ status'[d] = "DELIVERED"
    BY <1>4 DEF Complete, Holds
  <2>5. Delivering(d)
    BY <1>1, <1>2, <1>3, <2>2, <2>4 DEF Delivering
  <2>6. QED
    BY <2>3, <2>5 DEF Shape
<1>5. CASE CancelRequest(d) /\ status[d] \notin {"OPEN", "CLAIMED"}
  <2>1. status' = status /\ ended' = ended
    BY <1>5 DEF CancelRequest, CloseForCancelledRequest
  <2>2. QED
    BY <1>1, <2>1, LeftUnchanged DEF Shape, Untouched
<1>6. CASE CancelRequest(d) /\ status[d] \in {"OPEN", "CLAIMED"}
  <2>1. /\ ended' = ended \cup End(ActiveOn(d), "CANCELLED")
        /\ status'[d] \in {"EXPIRED", "CANCELLED"}
        /\ \A x \in Dispatch \ {d} : status'[x] = status[x]
    BY <1>6 DEF CancelRequest, CloseForCancelledRequest
  <2>2. CASE e # d
    BY <1>1, <2>1, <2>2, LeftByEnd DEF Shape, Untouched
  <2>3. \A b \in Actor : b # owner[d] => (Left(d, b)' <=> Left(d, b))
    <3>1. \A row \in ActiveOn(d) : row.mode = "INDEPENDENT" => row.driver = owner[d]
      BY IndependentWork
    <3>2. \A b : Left(d, b)' <=> \/ Left(d, b)
                                 \/ \E row \in ActiveOn(d) :
                                      row.mode = "INDEPENDENT" /\ row.driver = b
      BY <2>1, LeftByEnd
    <3>3. QED
      BY <3>1, <3>2
  <2>4. Closing(d)
    BY <1>1, <1>2, <1>3, <1>6, <2>1, <2>3 DEF Closing
  <2>5. QED
    BY <2>2, <2>4 DEF Shape
<1>7. QED
  BY <1>4, <1>5, <1>6

LEMMA WorkShapes ==
  ASSUME ClaimInvariant, NEW d \in Dispatch, NEW e \in Dispatch, NEW p \in Provider,
         \/ CancelWork(d, p)
         \/ \E r \in Driver, v \in Vehicle : Assign(d, p, r, v) \/ Reassign(d, p, r, v)
  PROVE  Shape(e)
<1>1. UNCHANGED dispatchVars /\ owner[d] = p
  BY DEF CancelWork, Assign, Reassign, Holds
<1>2. CASE ended' = ended
  BY <1>1, <1>2, LeftUnchanged DEF Shape, Untouched, dispatchVars
<1>3. ASSUME NEW how \in {"REASSIGNED", "CANCELLED"},
             ended' = ended \cup End(ActiveOn(d), how)
      PROVE  Shape(e)
  <2>1. \A row \in ActiveOn(d) : row.mode # "INDEPENDENT"
    <3>1. ASSUME NEW row \in ActiveOn(d), row.mode = "INDEPENDENT" PROVE FALSE
      <4>1. row.driver = p
        BY <1>1, <3>1, IndependentWork
      <4>2. row.driver \in Driver
        BY <3>1 DEF ActiveOn, ClaimInvariant, TypeOK, ActiveRow
      <4>3. QED
        BY <4>1, <4>2
    <3>2. QED
      BY <3>1
  <2>2. \A x \in Dispatch, b \in Actor : Left(x, b)' <=> Left(x, b)
    BY <1>3, <2>1, LeftByEnd
  <2>3. QED
    BY <1>1, <2>2 DEF Shape, Untouched, dispatchVars
<1>4. QED
  BY <1>2, <1>3 DEF CancelWork, Assign, Reassign

LEMMA Shapes ==
  ASSUME ClaimInvariant, [Next]_vars, NEW e \in Dispatch
  PROVE  Shape(e)
  BY PartyShapes, OpeningShapes, WinningShapes, ReleaseShapes, EndingShapes, WorkShapes
     DEF Next, DispatchStep, ProviderStep, DriverStep

-----------------------------------------------------------------------------
LEMMA StepFresh ==
  ASSUME ClaimInvariant, FreshUnopened, [Next]_vars
  PROVE  FreshUnopened'
<1> SUFFICES ASSUME NEW d \in Dispatch, status'[d] = "NONE", NEW a \in Actor
             PROVE  ~GaveBack(d, a)'
  BY DEF FreshUnopened
<1>1. Untouched(d)
  BY Shapes DEF Shape, Opening, Winning, GivingBack, Closing, Delivering
<1>2. ~GaveBack(d, a)
  BY <1>1 DEF Untouched, FreshUnopened
<1>3. QED
  BY <1>1, <1>2 DEF Untouched, GaveBack, Left

(* Winning, paying, leaving and refunding are never seen apart: for every   *)
(* dispatch the market is an implementation of the service contract.        *)
THEOREM MarketKeepsContract == Spec => KeepsContract
<1> DEFINE Safe == ClaimInvariant /\ FreshUnopened
<1>1. Init => Safe /\ \A d \in Dispatch : Contract(d)!Init
  <2> SUFFICES ASSUME Init PROVE Safe /\ \A d \in Dispatch : Contract(d)!Init
    OBVIOUS
  <2>1. ClaimInvariant
    BY InitClaim
  <2>2. FreshUnopened
    BY DEF Init, FreshUnopened, GaveBack
  <2>3. ASSUME NEW d \in Dispatch PROVE Contract(d)!Init
    <3>1. Past(d) = {}
      BY DEF Init, Past, GaveBack
    <3>2. Paid(d) = {}
      BY DEF Init, Paid
    <3>3. CASE PreAward[d] = None
      BY <3>1, <3>2, <3>3 DEF Init, Contract!Init, Phase, Holder
    <3>4. CASE PreAward[d] # None
      <4>1. PreAward[d] \in { a \in Actor : Exempt(d, a) }
        BY <3>4 DEF Exempt, Actor
      <4>2. Phase(d) = "CLAIMED" /\ Holder(d) = PreAward[d]
        BY <3>4 DEF Init, Phase, Holder
      <4>3. QED
        BY <3>1, <3>2, <4>1, <4>2 DEF Contract!Init
    <3>5. QED
      BY <3>3, <3>4
  <2>4. QED
    BY <2>1, <2>2, <2>3
<1>2. Safe /\ [Next]_vars => Safe'
  <2> SUFFICES ASSUME Safe, [Next]_vars PROVE Safe'
    OBVIOUS
  <2>1. ClaimInvariant'
    BY StepTypeOK, StepMatches, StepWork, StepExemption, StepPays DEF ClaimInvariant
  <2>2. QED
    BY <2>1, StepFresh
<1>3. Safe /\ Safe' /\ [Next]_vars => [\A d \in Dispatch : Step(d)]_vars
  <2> SUFFICES ASSUME Safe, Safe', [Next]_vars, NEW d \in Dispatch PROVE Step(d)
    OBVIOUS
  <2>1. CASE Untouched(d)
    BY <2>1, OtherStutters DEF Step, ClaimInvariant
  <2>2. CASE ~Untouched(d)
    <3>1. Contract(d)!Next
      BY <2>2, Shapes, OpenStep, WinStep, GiveBackStep, CloseStep, DeliverStep DEF Shape
    <3>2. QED
      BY <3>1 DEF Step
  <2>3. QED
    BY <2>1, <2>2
<1>4. QED
  BY <1>1, <1>2, <1>3, PTL DEF Spec, KeepsContract, Step

(* The contract, read in one state, for every dispatch.                     *)
MarketPromises == \A d \in Dispatch : Contract(d)!Promises

(* Every promise of the contract holds of every dispatch of the market, and *)
(* follows from the refinement alone.                                       *)
THEOREM MarketKeepsPromises == Spec => []MarketPromises
<1>1. (\A d \in Dispatch : Contract(d)!Init) => MarketPromises
  BY DEF MarketPromises, Contract!Init, Contract!Promises
<1>2. ASSUME MarketPromises, [\A d \in Dispatch : [Contract(d)!Next]_(Contract(d)!vars)]_vars
      PROVE  MarketPromises'
  <2>1. CASE UNCHANGED vars
    <3>1. UNCHANGED <<status, owner, candidate, ended, awarded, refunded>>
      BY <2>1 DEF vars, dispatchVars, workVars, creditVars
    <3> QED
      BY <1>2, <3>1 DEF MarketPromises, Contract!Promises, Phase, Holder, Past, Paid, Exempt, GaveBack
  <2>2. ASSUME NEW d \in Dispatch, [Contract(d)!Next]_(Contract(d)!vars)
        PROVE  Contract(d)!Promises'
    <3>1. Contract(d)!Promises
      BY <1>2 DEF MarketPromises
    <3> QED
      BY <2>2, <3>1
      DEF Contract!Promises, Contract!Next, Contract!vars, Contract!Publish, Contract!Win,
          Contract!GiveBack, Contract!Deliver, Contract!Close
  <2> QED
    BY <1>2, <2>1, <2>2 DEF MarketPromises
<1> QED
  BY <1>1, <1>2, MarketKeepsContract, PTL DEF KeepsContract
=============================================================================
