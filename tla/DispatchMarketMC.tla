-------------------------- MODULE DispatchMarketMC --------------------------
(* Instances of DispatchMarket for TLC.  The parties are few; ownership and *)
(* prices are fixed so that both execution modes compete for everything.    *)
EXTENDS DispatchMarket

CONSTANTS d1, d2, p1, p2, r1, r2, v1, v2, w1, w2

(* r1 drives for p1 and is also independent; r2 only works for itself.      *)
MCEmployer == [r \in Driver |-> IF r = r1 THEN p1 ELSE None]
MCVehicleOwner == [v \in Vehicle |-> CASE v \in {v1, v2} -> p1 [] v = w1 -> r1 [] v = w2 -> r2]

(* A claim costs a provider 1 and a driver 2.                               *)
MCPrice == [d \in Dispatch |-> [a \in Actor |-> IF a \in Provider THEN 1 ELSE 2]]

NobodyBefore == [d \in Dispatch |-> None]
P1Before     == [d \in Dispatch |-> IF d = d1 THEN p1 ELSE None]
Amounts      == {1, 2, -1}
=============================================================================
