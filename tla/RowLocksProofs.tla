--------------------------- MODULE RowLocksProofs ---------------------------
(***************************************************************************)
(* Proofs about RowLocks: whichever sessions, dispatches, providers,       *)
(* drivers, vehicles and users there are, the only deadlocks are the two   *)
(* the scripts are known for.                                              *)
(***************************************************************************)
EXTENDS RowLocks, SequenceTheorems, WellFoundedInduction, TLAPS

USE FleetAssumption, FreshAssumption

-----------------------------------------------------------------------------
(* The order.                                                               *)

Class(l) == l.row[1]

Refers(l) == l.mode = "KEY SHARE"

(* The classes of rows in the order in which a transaction meets them.      *)
Order(c) ==
  CASE c = "Integration" -> 1 [] c = "Request" -> 2 [] c = "Zone" -> 3
    [] c = "Dispatch" -> 4 [] c = "Provider" -> 5 [] c = "Driver" -> 6
    [] c = "Profile" -> 7 [] c = "Vehicle" -> 8 [] c = "Policy" -> 9
    [] OTHER -> 11

(* How high a session stands that waits for l.  A user is referred to after *)
(* anything else was locked, and locked for itself before an account is.    *)
Level(l) == IF Class(l) # "User" THEN Order(Class(l))
            ELSE IF Refers(l) THEN 12 ELSE 10

(* The highest anyone can stand whom a session holding h keeps waiting.     *)
Height(h) == IF Class(h) # "User" THEN Order(Class(h))
             ELSE IF Refers(h) THEN 10 ELSE 12

LEMMA LevelBound == \A l : Level(l) \in 1 .. 12 /\ Height(l) \in 1 .. 12
<1>1. \A c : Order(c) \in 1 .. 11
  BY DEF Order
<1> QED
  BY <1>1 DEF Level, Height

LEMMA ConflictParts ==
  ASSUME NEW g, NEW l, Conflict(g, l)
  PROVE  Class(l) = Class(g) /\ ~(Refers(g) /\ Refers(l))
  BY DEF Conflict, Class, Compatible, Refers

LEMMA ConflictLevel ==
  ASSUME NEW g, NEW l, Conflict(g, l)
  PROVE  /\ Level(l) <= Height(g)
         /\ Class(l) # "User" => Level(l) = Height(g)
<1>1. CASE Class(l) = "User"
  <2>1. (Level(l) = 12 /\ Height(g) = 12) \/ (Level(l) = 10 /\ Height(g) \in {10, 12})
    BY <1>1, ConflictParts DEF Level, Height
  <2> QED
    BY <1>1, <2>1
<1>2. CASE Class(l) # "User"
  <2>1. Level(l) = Height(g)
    BY <1>2, ConflictParts DEF Level, Height
  <2>2. Level(l) \in Nat
    BY LevelBound
  <2> QED
    BY <2>1, <2>2
<1> QED
  BY <1>1, <1>2

LEMMA ConflictSymmetric == \A g, h : Conflict(g, h) <=> Conflict(h, g)
  BY DEF Conflict, Compatible

-----------------------------------------------------------------------------
(* The scripts.                                                             *)

(* The transactions that do not follow the order.                           *)
Exceptional == {"Complete", "AddMember", "InviteAdmin"}

(* Within one stage only many providers or many drivers are locked.         *)
Together(t, g, l) ==
  \/ /\ t.kind \in {"Accept", "Advance"}
     /\ \E p, q \in Provider : g = KeyShare("Provider", p) /\ l = KeyShare("Provider", q)
  \/ /\ t.kind = "Transition"
     /\ \E p \in Provider :
          /\ t.script = TransitionLocks(p)
          /\ \E q, r \in Fleet[p] :
               g = NoKeyUpdate("Driver", q) /\ l = NoKeyUpdate("Driver", r)

(* Later stages stand higher than what earlier ones keep anyone waiting for.*)
Ascends(t) ==
  \A j \in 1 .. Len(t.script) : \A i \in 1 .. j : \A g \in t.script[i], l \in t.script[j] :
    /\ i < j => Height(g) < Level(l)
    /\ i = j /\ g # l => Together(t, g, l)

(* Few transactions lock integrations, requests and zones together with     *)
(* anything else.                                                           *)
LocksLow(t) ==
  \A i \in 1 .. Len(t.script) : \A g \in t.script[i] :
    /\ Level(g) <= 2 /\ ~Refers(g) =>
         t.script = <<{g}>> \/ t.kind \in {"Cancel", "Accept", "Advance"}
    /\ Level(g) = 3 => t.script = <<{g}>> \/ g = Share("Zone", "zone")

Known(t) ==
  /\ t.script \in Seq({ t.script[i] : i \in 1 .. Len(t.script) })
  /\ LocksLow(t)
  /\ t.kind \notin Exceptional => Ascends(t)

(* Where each lock of the scripts stands.                                   *)
StandsAt(l, n) == Level(l) = n /\ Height(l) = n

LEMMA Standing ==
  ASSUME NEW x
  PROVE  /\ StandsAt(Update("Integration", x), 1)
         /\ StandsAt(Update("Request", x), 2)
         /\ StandsAt(Update("Zone", x), 3)
         /\ StandsAt(Update("Dispatch", x), 4)
         /\ StandsAt(Update("Provider", x), 5)
         /\ StandsAt(Update("Driver", x), 6)
         /\ StandsAt(Update("Profile", x), 7)
         /\ StandsAt(Update("Vehicle", x), 8)
         /\ StandsAt(Update("Policy", x), 9)
         /\ StandsAt(Update("Account", x), 11)
         /\ StandsAt(NoKeyUpdate("Driver", x), 6)
         /\ StandsAt(NoKeyUpdate("Profile", x), 7)
         /\ StandsAt(Share("Integration", x), 1)
         /\ StandsAt(Share("Zone", x), 3)
         /\ StandsAt(Share("Provider", x), 5)
         /\ StandsAt(Share("Policy", x), 9)
         /\ StandsAt(KeyShare("Integration", x), 1)
         /\ StandsAt(KeyShare("Request", x), 2)
         /\ StandsAt(KeyShare("Provider", x), 5)
         /\ StandsAt(KeyShare("Driver", x), 6)
         /\ StandsAt(Skipping(Update("Dispatch", x)), 4)
         /\ Level(Update("User", x)) = 10 /\ Height(Update("User", x)) = 12
         /\ Level(KeyShare("User", x)) = 12 /\ Height(KeyShare("User", x)) = 10
         /\ Refers(KeyShare("Integration", x)) /\ Refers(KeyShare("Request", x))
  BY DEF StandsAt, Level, Height, Class, Refers, Order, Update, NoKeyUpdate, Share,
         KeyShare, Skipping, Lock


(* What each script amounts to.                                             *)
LEMMA ClaimLocksKnown ==
  ASSUME NEW d \in Opened, NEW p \in Provider, NEW u \in User
  PROVE  Known([kind |-> "Claim", script |-> ClaimLocks(d, p, u)])
  BY Standing DEF Known, Ascends, LocksLow, Exceptional, ClaimLocks, StandsAt

LEMMA ProviderReleaseLocksKnown ==
  ASSUME NEW d \in Opened, NEW p \in Provider, NEW u \in User
  PROVE  Known([kind |-> "ProviderRelease", script |-> ProviderReleaseLocks(d, p, u)])
  BY Standing DEF Known, Ascends, LocksLow, Exceptional, ProviderReleaseLocks, StandsAt

LEMMA TakeLocksKnown ==
  ASSUME NEW d \in Opened, NEW r \in Driver, NEW v \in Vehicle, NEW u \in User
  PROVE  Known([kind |-> "Take", script |-> TakeLocks(d, r, v, u)])
  BY Standing DEF Known, Ascends, LocksLow, Exceptional, TakeLocks, StandsAt

LEMMA DriverReleaseLocksKnown ==
  ASSUME NEW d \in Opened, NEW r \in Driver, NEW u \in User
  PROVE  Known([kind |-> "DriverRelease", script |-> DriverReleaseLocks(d, r, u)])
  BY Standing DEF Known, Ascends, LocksLow, Exceptional, DriverReleaseLocks, StandsAt

LEMMA AssignLocksKnown ==
  ASSUME NEW p \in Provider, NEW d \in Opened, NEW r \in Fleet[p], NEW v \in Vehicle, NEW u \in User
  PROVE  Known([kind |-> "Assign", script |-> AssignLocks(d, p, r, v, u)])
  BY Standing DEF Known, Ascends, LocksLow, Exceptional, AssignLocks, StandsAt

LEMMA CancelWorkLocksKnown ==
  ASSUME NEW d \in Opened, NEW u \in User
  PROVE  Known([kind |-> "CancelWork", script |-> CancelWorkLocks(d, u)])
  BY Standing DEF Known, Ascends, LocksLow, Exceptional, CancelWorkLocks, StandsAt

LEMMA CompleteLocksKnown ==
  ASSUME NEW d \in Opened, NEW u \in User
  PROVE  Known([kind |-> "Complete", script |-> CompleteLocks(d, u)])
  BY Standing DEF Known, Ascends, LocksLow, Exceptional, CompleteLocks, StandsAt

LEMMA CancelLocksKnown ==
  ASSUME NEW d \in Opened, NEW a \in Provider \cup Driver, NEW u \in User
  PROVE  Known([kind |-> "Cancel", script |-> CancelLocks(d, a, u)])
  BY Standing DEF Known, Ascends, LocksLow, Exceptional, CancelLocks, StandsAt

LEMMA CancelFreshLocksKnown ==
  ASSUME NEW d \in Fresh
  PROVE  Known([kind |-> "CancelFresh", script |-> CancelFreshLocks(d)])
  BY Standing DEF Known, Ascends, LocksLow, Exceptional, CancelFreshLocks, StandsAt

LEMMA AcceptLocksKnown ==
  ASSUME NEW d \in Fresh
  PROVE  Known([kind |-> "Accept", script |-> AcceptLocks(d)])
<1> DEFINE t == [kind |-> "Accept", script |-> AcceptLocks(d)]
<1>1. /\ t.kind = "Accept" /\ t.script = AcceptLocks(d) /\ Len(t.script) = 4
      /\ t.script[1] = {Share("Integration", d)}
      /\ t.script[2] = {Update("Request", d)}
      /\ t.script[3] = {Share("Zone", "zone")}
      /\ t.script[4] = { KeyShare("Provider", p) : p \in Provider }
      /\ t.script \in Seq({ t.script[i] : i \in 1 .. Len(t.script) })
  BY DEF AcceptLocks
<1> HIDE DEF t
<1>2. LocksLow(t)
  BY <1>1, Standing DEF LocksLow, StandsAt
<1>3. \A g, l \in t.script[4] : Together(t, g, l)
  BY <1>1 DEF Together
<1>4. Ascends(t)
  BY <1>1, <1>3, Standing DEF Ascends, StandsAt
<1> QED
  BY <1>1, <1>2, <1>4 DEF Known, t

LEMMA AcceptAgainLocksKnown ==
  ASSUME NEW d \in Opened
  PROVE  Known([kind |-> "Accept", script |-> AcceptAgainLocks(d)])
  BY Standing DEF Known, Ascends, LocksLow, Exceptional, AcceptAgainLocks, StandsAt

LEMMA AdvanceLocksKnown ==
  ASSUME NEW d \in Opened
  PROVE  Known([kind |-> "Advance", script |-> AdvanceLocks(d)])
<1> DEFINE t == [kind |-> "Advance", script |-> AdvanceLocks(d)]
<1>1. /\ t.kind = "Advance" /\ t.script = AdvanceLocks(d) /\ Len(t.script) = 3
      /\ t.script[1] = {Update("Request", d)}
      /\ t.script[2] = {Skipping(Update("Dispatch", d))}
      /\ t.script[3] = { KeyShare("Provider", p) : p \in Provider }
      /\ t.script \in Seq({ t.script[i] : i \in 1 .. Len(t.script) })
  BY DEF AdvanceLocks
<1> HIDE DEF t
<1>2. LocksLow(t)
  BY <1>1, Standing DEF LocksLow, StandsAt
<1>3. \A g, l \in t.script[3] : Together(t, g, l)
  BY <1>1 DEF Together
<1>4. Ascends(t)
  BY <1>1, <1>3, Standing DEF Ascends, StandsAt
<1> QED
  BY <1>1, <1>2, <1>4 DEF Known, t

LEMMA ApproveLocksKnown ==
  ASSUME NEW r \in Driver, NEW u \in User
  PROVE  Known([kind |-> "Approve", script |-> ApproveLocks(r, u)])
  BY Standing DEF Known, Ascends, LocksLow, Exceptional, ApproveLocks, StandsAt

LEMMA EnableLocksKnown ==
  ASSUME NEW r \in Driver, NEW u \in User
  PROVE  Known([kind |-> "Approve", script |-> EnableLocks(r, u)])
  BY Standing DEF Known, Ascends, LocksLow, Exceptional, EnableLocks, StandsAt

LEMMA WithdrawLocksKnown ==
  ASSUME NEW r \in Driver, NEW u \in User
  PROVE  Known([kind |-> "Withdraw", script |-> WithdrawLocks(r, u)])
  BY Standing DEF Known, Ascends, LocksLow, Exceptional, WithdrawLocks, StandsAt

LEMMA RetireOwnVehicleLocksKnown ==
  ASSUME NEW r \in Driver, NEW v \in Vehicle
  PROVE  Known([kind |-> "RetireOwnVehicle", script |-> RetireOwnVehicleLocks(r, v)])
  BY Standing DEF Known, Ascends, LocksLow, Exceptional, RetireOwnVehicleLocks, StandsAt

LEMMA TransitionLocksKnown ==
  ASSUME NEW p \in Provider
  PROVE  Known([kind |-> "Transition", script |-> TransitionLocks(p)])
<1> DEFINE t == [kind |-> "Transition", script |-> TransitionLocks(p)]
<1>1. /\ t.kind = "Transition" /\ t.script = TransitionLocks(p) /\ Len(t.script) = 2
      /\ t.script[1] = {Update("Provider", p)}
      /\ t.script[2] = { NoKeyUpdate("Driver", r) : r \in Fleet[p] }
      /\ t.script \in Seq({ t.script[i] : i \in 1 .. Len(t.script) })
  BY DEF TransitionLocks
<1> HIDE DEF t
<1>2. LocksLow(t)
  BY <1>1, Standing DEF LocksLow, StandsAt
<1>3. \A g, l \in t.script[2] : Together(t, g, l)
  BY <1>1 DEF Together
<1>4. Ascends(t)
  BY <1>1, <1>3, Standing DEF Ascends, StandsAt
<1> QED
  BY <1>1, <1>2, <1>4 DEF Known, t

LEMMA PairLocksKnown ==
  ASSUME NEW p \in Provider, NEW r \in Fleet[p], NEW v \in Vehicle
  PROVE  Known([kind |-> "Pair", script |-> PairLocks(p, r, v)])
  BY Standing DEF Known, Ascends, LocksLow, Exceptional, PairLocks, StandsAt

LEMMA UpdateDriverLocksKnown ==
  ASSUME NEW r \in Driver
  PROVE  Known([kind |-> "UpdateDriver", script |-> UpdateDriverLocks(r)])
  BY Standing DEF Known, Ascends, LocksLow, Exceptional, UpdateDriverLocks, StandsAt

LEMMA UpdateVehicleLocksKnown ==
  ASSUME NEW v \in Vehicle
  PROVE  Known([kind |-> "UpdateVehicle", script |-> UpdateVehicleLocks(v)])
  BY Standing DEF Known, Ascends, LocksLow, Exceptional, UpdateVehicleLocks, StandsAt

LEMMA AvailabilityLocksKnown ==
  ASSUME NEW p \in Provider, NEW r \in Fleet[p]
  PROVE  Known([kind |-> "Availability", script |-> AvailabilityLocks(p, r)])
  BY Standing DEF Known, Ascends, LocksLow, Exceptional, AvailabilityLocks, StandsAt

LEMMA MoveLocksKnown ==
  ASSUME NEW a \in Provider \cup Driver, NEW u \in User
  PROVE  Known([kind |-> "Move", script |-> MoveLocks(a, u)])
  BY Standing DEF Known, Ascends, LocksLow, Exceptional, MoveLocks, StandsAt

LEMMA RotateCredentialLocksKnown ==
  ASSUME NEW d \in Dispatch
  PROVE  Known([kind |-> "RotateCredential", script |-> RotateCredentialLocks(d)])
  BY Standing DEF Known, Ascends, LocksLow, Exceptional, RotateCredentialLocks, StandsAt

LEMMA SwitchZoneLocksKnown ==
  Known([kind |-> "SwitchZone", script |-> SwitchZoneLocks])
  BY Standing DEF Known, Ascends, LocksLow, Exceptional, SwitchZoneLocks, StandsAt

LEMMA SetPolicyLocksKnown ==
  ASSUME NEW u \in User
  PROVE  Known([kind |-> "SetPolicy", script |-> SetPolicyLocks(u)])
  BY Standing DEF Known, Ascends, LocksLow, Exceptional, SetPolicyLocks, StandsAt

LEMMA CreateDriverLocksKnown ==
  ASSUME NEW p \in Provider, NEW u \in User
  PROVE  Known([kind |-> "CreateDriver", script |-> CreateDriverLocks(p, u)])
  BY Standing DEF Known, Ascends, LocksLow, Exceptional, CreateDriverLocks, StandsAt

LEMMA AddMemberLocksKnown ==
  ASSUME NEW p \in Provider, NEW u \in User
  PROVE  Known([kind |-> "AddMember", script |-> AddMemberLocks(p, u)])
  BY Standing DEF Known, Ascends, LocksLow, Exceptional, AddMemberLocks, StandsAt

LEMMA InviteDriverLocksKnown ==
  ASSUME NEW p \in Provider, NEW u \in User
  PROVE  Known([kind |-> "InviteDriver", script |-> InviteDriverLocks(p, u)])
  BY Standing DEF Known, Ascends, LocksLow, Exceptional, InviteDriverLocks, StandsAt

LEMMA InviteAdminLocksKnown ==
  ASSUME NEW p \in Provider, NEW u \in User
  PROVE  Known([kind |-> "InviteAdmin", script |-> InviteAdminLocks(p, u)])
  BY Standing DEF Known, Ascends, LocksLow, Exceptional, InviteAdminLocks, StandsAt

-----------------------------------------------------------------------------
(* All the transactions.                                                    *)

(* Winning a dispatch, giving it back and the work on it.                   *)
MarketTx(t) ==
  \/ \E d \in Opened, p \in Provider, u \in User :
       t = [kind |-> "Claim", script |-> ClaimLocks(d, p, u)]
  \/ \E d \in Opened, p \in Provider, u \in User :
       t = [kind |-> "ProviderRelease", script |-> ProviderReleaseLocks(d, p, u)]
  \/ \E d \in Opened, r \in Driver, v \in Vehicle, u \in User :
       t = [kind |-> "Take", script |-> TakeLocks(d, r, v, u)]
  \/ \E d \in Opened, r \in Driver, u \in User :
       t = [kind |-> "DriverRelease", script |-> DriverReleaseLocks(d, r, u)]
  \/ \E p \in Provider : \E d \in Opened, r \in Fleet[p], v \in Vehicle, u \in User :
       t = [kind |-> "Assign", script |-> AssignLocks(d, p, r, v, u)]
  \/ \E d \in Opened, u \in User :
       t = [kind |-> "CancelWork", script |-> CancelWorkLocks(d, u)]

(* Accepting, searching for, completing and cancelling a request.           *)
RequestTx(t) ==
  \/ \E d \in Opened, u \in User :
       t = [kind |-> "Complete", script |-> CompleteLocks(d, u)]
  \/ \E d \in Opened, a \in Provider \cup Driver, u \in User :
       t = [kind |-> "Cancel", script |-> CancelLocks(d, a, u)]
  \/ \E d \in Fresh :
       t = [kind |-> "CancelFresh", script |-> CancelFreshLocks(d)]
  \/ \E d \in Fresh : t = [kind |-> "Accept", script |-> AcceptLocks(d)]
  \/ \E d \in Opened : t = [kind |-> "Accept", script |-> AcceptAgainLocks(d)]
  \/ \E d \in Opened : t = [kind |-> "Advance", script |-> AdvanceLocks(d)]

(* Drivers, vehicles, providers and their pairing.                          *)
FleetTx(t) ==
  \/ \E r \in Driver, u \in User :
       t = [kind |-> "Approve", script |-> ApproveLocks(r, u)]
  \/ \E r \in Driver, u \in User :
       t = [kind |-> "Approve", script |-> EnableLocks(r, u)]
  \/ \E r \in Driver, u \in User :
       t = [kind |-> "Withdraw", script |-> WithdrawLocks(r, u)]
  \/ \E r \in Driver, v \in Vehicle :
       t = [kind |-> "RetireOwnVehicle", script |-> RetireOwnVehicleLocks(r, v)]
  \/ \E p \in Provider :
       t = [kind |-> "Transition", script |-> TransitionLocks(p)]
  \/ \E p \in Provider : \E r \in Fleet[p], v \in Vehicle :
       t = [kind |-> "Pair", script |-> PairLocks(p, r, v)]
  \/ \E r \in Driver :
       t = [kind |-> "UpdateDriver", script |-> UpdateDriverLocks(r)]
  \/ \E v \in Vehicle :
       t = [kind |-> "UpdateVehicle", script |-> UpdateVehicleLocks(v)]
  \/ \E p \in Provider : \E r \in Fleet[p] :
       t = [kind |-> "Availability", script |-> AvailabilityLocks(p, r)]

(* Accounts, settings and people.                                           *)
AdminTx(t) ==
  \/ \E a \in Provider \cup Driver, u \in User :
       t = [kind |-> "Move", script |-> MoveLocks(a, u)]
  \/ \E d \in Dispatch :
       t = [kind |-> "RotateCredential", script |-> RotateCredentialLocks(d)]
  \/ t = [kind |-> "SwitchZone", script |-> SwitchZoneLocks]
  \/ \E u \in User : t = [kind |-> "SetPolicy", script |-> SetPolicyLocks(u)]
  \/ \E p \in Provider, u \in User :
       t = [kind |-> "CreateDriver", script |-> CreateDriverLocks(p, u)]
  \/ \E p \in Provider, u \in User :
       t = [kind |-> "AddMember", script |-> AddMemberLocks(p, u)]
  \/ \E p \in Provider, u \in User :
       t = [kind |-> "InviteDriver", script |-> InviteDriverLocks(p, u)]
  \/ \E p \in Provider, u \in User :
       t = [kind |-> "InviteAdmin", script |-> InviteAdminLocks(p, u)]

LEMMA TxCases ==
  ASSUME NEW t \in Tx
  PROVE  MarketTx(t) \/ RequestTx(t) \/ FleetTx(t) \/ AdminTx(t)
  BY DEF Tx, Txs, MarketTx, RequestTx, FleetTx, AdminTx

LEMMA TxKnown ==
  ASSUME NEW t \in Tx
  PROVE  Known(t)
<1>1. CASE MarketTx(t)
  BY <1>1, ClaimLocksKnown, ProviderReleaseLocksKnown, TakeLocksKnown,
     DriverReleaseLocksKnown, AssignLocksKnown, CancelWorkLocksKnown DEF MarketTx
<1>2. CASE RequestTx(t)
  BY <1>2, CompleteLocksKnown, CancelLocksKnown, CancelFreshLocksKnown,
     AcceptLocksKnown, AcceptAgainLocksKnown, AdvanceLocksKnown DEF RequestTx
<1>3. CASE FleetTx(t)
  BY <1>3, ApproveLocksKnown, EnableLocksKnown, WithdrawLocksKnown,
     RetireOwnVehicleLocksKnown, TransitionLocksKnown, PairLocksKnown,
     UpdateDriverLocksKnown, UpdateVehicleLocksKnown, AvailabilityLocksKnown DEF FleetTx
<1>4. CASE AdminTx(t)
  BY <1>4, MoveLocksKnown, RotateCredentialLocksKnown, SwitchZoneLocksKnown,
     SetPolicyLocksKnown, CreateDriverLocksKnown, AddMemberLocksKnown,
     InviteDriverLocksKnown, InviteAdminLocksKnown DEF AdminTx
<1> QED
  BY <1>1, <1>2, <1>3, <1>4, TxCases

-----------------------------------------------------------------------------
(* Types.                                                                   *)

LEMMA TxScripts ==
  ASSUME NEW t \in Tx
  PROVE  /\ t.script \in Seq(SUBSET AnyLock) /\ t.kind \in Kind
         /\ \A i \in 1 .. Len(t.script) : t.script[i] \subseteq AnyLock
<1>1. \A i \in 1 .. Len(t.script) : t.script[i] \in SUBSET AnyLock
  BY DEF AnyLock
<1>2. t.script \in Seq({ t.script[i] : i \in 1 .. Len(t.script) })
  BY TxKnown DEF Known
<1>3. t.script \in Seq(SUBSET AnyLock)
  BY <1>1, <1>2
<1> QED
  BY <1>1, <1>3 DEF Kind

(* What Obtain leaves of a script: one lock less in its first stage, and no *)
(* stage that is empty because of it.                                       *)
Shorter(q, lock) == IF Head(q) = {lock} THEN Tail(q)
                    ELSE <<Head(q) \ {lock}>> \o Tail(q)

LEMMA ShorterScript ==
  ASSUME NEW q \in Seq(SUBSET AnyLock), q # <<>>, NEW lock \in Head(q)
  PROVE  /\ Shorter(q, lock) \in Seq(SUBSET AnyLock)
         /\ Head(q) = {lock} => /\ Len(Shorter(q, lock)) = Len(q) - 1
                                /\ \A i \in 1 .. Len(q) - 1 : Shorter(q, lock)[i] = q[i + 1]
         /\ Head(q) # {lock} => /\ Len(Shorter(q, lock)) = Len(q)
                                /\ Shorter(q, lock) # <<>>
                                /\ Head(Shorter(q, lock)) = Head(q) \ {lock}
                                /\ Shorter(q, lock)[1] = Head(q) \ {lock}
                                /\ \A i \in 2 .. Len(q) : Shorter(q, lock)[i] = q[i]
<1>1. /\ Tail(q) \in Seq(SUBSET AnyLock) /\ Len(Tail(q)) = Len(q) - 1 /\ Len(q) \in Nat \ {0}
      /\ \A i \in 1 .. Len(q) - 1 : Tail(q)[i] = q[i + 1]
      /\ Head(q) \in SUBSET AnyLock /\ Head(q) = q[1]
  OBVIOUS
<1>2. CASE Head(q) = {lock}
  BY <1>1, <1>2 DEF Shorter
<1>3. CASE Head(q) # {lock}
  <2> DEFINE x == Head(q) \ {lock}
             r == <<x>> \o Tail(q)
  <2>1. x \in SUBSET AnyLock /\ <<x>> \in Seq(SUBSET AnyLock) /\ Len(<<x>>) = 1
    BY <1>1
  <2>2. r \in Seq(SUBSET AnyLock) /\ Len(r) = 1 + (Len(q) - 1)
    BY <1>1, <2>1
  <2>3. r[1] = x /\ \A i \in 2 .. Len(q) : r[i] = Tail(q)[i - 1]
    BY <1>1, <2>1, <2>2
  <2>4. \A i \in 2 .. Len(q) : r[i] = q[i]
    BY <1>1, <2>3
  <2>5. r # <<>> /\ Head(r) = x
    BY <1>1, <2>2, <2>3
  <2>6. Shorter(q, lock) = r
    BY <1>3 DEF Shorter
  <2>7. Len(r) = Len(q)
    BY <1>1, <2>2
  <2> HIDE DEF r
  <2> QED
    BY <1>3, <2>2, <2>3, <2>4, <2>5, <2>6, <2>7
<1> QED
  BY <1>2, <1>3

(* A step of one session, in terms of what it does to that session.         *)
Obtains(s, lock) ==
  /\ answer[s] = "pending" /\ todo[s] # <<>> /\ lock \in Head(todo[s])
  /\ Free(s, lock)
  /\ held' = [held EXCEPT ![s] = @ \cup {lock}]
  /\ todo' = [todo EXCEPT ![s] = Shorter(@, lock)]
  /\ waiting' = [waiting EXCEPT ![s] = None]
  /\ UNCHANGED <<kind, answer>>

Blocks(s, lock) ==
  /\ answer[s] = "pending" /\ todo[s] # <<>> /\ lock \in Head(todo[s])
  /\ ~lock.skip
  /\ waiting' = [waiting EXCEPT ![s] = lock]
  /\ UNCHANGED <<kind, todo, held, answer>>

LEMMA Steps ==
  ASSUME TypeOK, [Next]_vars
  PROVE  \/ UNCHANGED vars
         \/ \E s \in Session :
              \/ \E t \in Tx : Begin(s, t)
              \/ \E lock \in AnyLock : Obtains(s, lock) \/ Blocks(s, lock)
              \/ End(s, "none") \/ End(s, "failed")
<1>1. ASSUME NEW s \in Session, todo[s] # <<>>
      PROVE  /\ answer[s] = "pending" /\ Head(todo[s]) \in SUBSET AnyLock
  BY <1>1 DEF TypeOK
<1>2. ASSUME NEW s \in Session, todo[s] # <<>>, NEW lock \in Head(todo[s]), Acquire(s, lock)
      PROVE  lock \in AnyLock /\ Obtains(s, lock)
  <2>1. waiting' = [waiting EXCEPT ![s] = None]
    BY <1>2 DEF Acquire, TypeOK
  <2> QED
    BY <1>1, <1>2, <2>1 DEF Acquire, Obtain, Obtains, Shorter
<1>3. ASSUME NEW s \in Session, Wake(s)
      PROVE  waiting[s] \in AnyLock /\ Obtains(s, waiting[s])
  <2>1. todo[s] # <<>> /\ waiting[s] \in Head(todo[s])
    BY <1>3 DEF Wake, TypeOK
  <2> QED
    BY <1>1, <1>3, <2>1 DEF Wake, Obtain, Obtains, Shorter
<1>4. ASSUME NEW s \in Session, todo[s] # <<>>, NEW lock \in Head(todo[s]), Block(s, lock)
      PROVE  lock \in AnyLock /\ Blocks(s, lock)
  BY <1>1, <1>4 DEF Block, Blocks
<1> QED
  BY <1>2, <1>3, <1>4 DEF Next, Running, Finish, Victim

LEMMA InitTypes == Init => TypeOK
  BY DEF Init, TypeOK

LEMMA BeginTypes ==
  ASSUME TypeOK, NEW s \in Session, NEW t \in Tx, Begin(s, t)
  PROVE  TypeOK'
<1>1. t.script \in Seq(SUBSET AnyLock) /\ t.kind \in Kind
  BY TxScripts
<1>2. waiting[s] = None
  BY DEF Begin, TypeOK
<1> QED
  BY <1>1, <1>2 DEF Begin, TypeOK

LEMMA ObtainTypes ==
  ASSUME TypeOK, NEW s \in Session, NEW lock \in AnyLock, Obtains(s, lock)
  PROVE  TypeOK'
<1>1. Shorter(todo[s], lock) \in Seq(SUBSET AnyLock)
  BY ShorterScript DEF TypeOK, Obtains
<1> QED
  BY <1>1 DEF Obtains, TypeOK

LEMMA BlockTypes ==
  ASSUME TypeOK, NEW s \in Session, NEW lock \in AnyLock, Blocks(s, lock)
  PROVE  TypeOK'
  BY DEF Blocks, TypeOK

LEMMA EndTypes ==
  ASSUME TypeOK, NEW s \in Session, NEW how \in {"none", "failed"}, End(s, how)
  PROVE  TypeOK'
<1>1. <<>> \in Seq(SUBSET AnyLock)
  OBVIOUS
<1> QED
  BY <1>1 DEF End, TypeOK

LEMMA StepTypes ==
  ASSUME TypeOK, [Next]_vars
  PROVE  TypeOK'
<1>1. CASE UNCHANGED vars
  BY <1>1 DEF vars, TypeOK
<1> QED
  BY <1>1, Steps, BeginTypes, ObtainTypes, BlockTypes, EndTypes

-----------------------------------------------------------------------------
(* Every session follows its script.                                        *)

(* At mentions one session only.                                            *)
LEMMA AtCarries ==
  ASSUME NEW s \in Session, NEW t, NEW n, At(s, t, n),
         kind'[s] = kind[s], todo'[s] = todo[s], held'[s] = held[s]
  PROVE  At(s, t, n)'
  BY DEF At

LEMMA OthersFollow ==
  ASSUME FollowsScript, NEW s \in Session,
         \A r \in Session \ {s} : /\ kind'[r] = kind[r] /\ todo'[r] = todo[r]
                                 /\ held'[r] = held[r] /\ answer'[r] = answer[r],
         answer'[s] = "pending" =>
           \E t \in Tx : \E n \in 1 .. Len(t.script) + 1 : At(s, t, n)'
  PROVE  FollowsScript'
<1>1. ASSUME NEW r \in Session, answer'[r] = "pending"
      PROVE  \E t \in Tx : \E n \in 1 .. Len(t.script) + 1 : At(r, t, n)'
  <2>1. CASE r = s
    BY <1>1, <2>1
  <2>2. CASE r # s
    <3>1. PICK t \in Tx : \E n \in 1 .. Len(t.script) + 1 : At(r, t, n)
      BY <1>1, <2>2 DEF FollowsScript
    <3>3. PICK n \in 1 .. Len(t.script) + 1 : At(r, t, n)
      BY <3>1
    <3>2. At(r, t, n)'
      BY <2>2, <3>3, AtCarries
    <3> QED
      BY <3>1, <3>2
  <2> QED
    BY <2>1, <2>2
<1> QED
  BY <1>1 DEF FollowsScript

LEMMA BeginFollows ==
  ASSUME TypeOK, FollowsScript, NEW s \in Session, NEW t \in Tx, Begin(s, t)
  PROVE  FollowsScript'
<1>1. held[s] = {} /\ held'[s] = {} /\ kind'[s] = t.kind /\ todo'[s] = t.script
  BY DEF Begin, TypeOK
<1>2. t.script \in Seq(SUBSET AnyLock)
  BY TxScripts
<1>3. Len(t.script) \in Nat
  BY <1>2
<1>4. Len(t.script) >= 1 => Head(t.script) = t.script[1]
  BY <1>2
<1>5. At(s, t, 1)'
  <2>1. Len(todo'[s]) = Len(t.script) + 1 - 1
    BY <1>1, <1>3
  <2>2. \A i \in 1 .. Len(todo'[s]) : todo'[s][i] = t.script[1 + i - 1]
    BY <1>1, <1>3
  <2>3. \A i \in 1 .. Len(t.script) :
          /\ i < 1 => t.script[i] \subseteq held'[s]
          /\ i = 1 => t.script[i] \ Head(todo'[s]) \subseteq held'[s]
    BY <1>1, <1>3, <1>4
  <2> QED
    BY <1>1, <2>1, <2>2, <2>3 DEF At
<1>6. 1 \in 1 .. Len(t.script) + 1
  BY <1>3
<1>7. \E n \in 1 .. Len(t.script) + 1 : At(s, t, n)'
  BY <1>5, <1>6
<1>8. \A r \in Session \ {s} : /\ kind'[r] = kind[r] /\ todo'[r] = todo[r]
                               /\ held'[r] = held[r] /\ answer'[r] = answer[r]
  BY DEF Begin, TypeOK
<1> QED
  BY <1>7, <1>8, OthersFollow

LEMMA ObtainFollows ==
  ASSUME TypeOK, FollowsScript, NEW s \in Session, NEW lock \in AnyLock, Obtains(s, lock)
  PROVE  FollowsScript'
<1> DEFINE q == todo[s]
<1>11. PICK t \in Tx : \E n \in 1 .. Len(t.script) + 1 : At(s, t, n)
  BY DEF Obtains, FollowsScript
<1>1. PICK n \in 1 .. Len(t.script) + 1 : At(s, t, n)
  BY <1>11
<1>2. /\ q \in Seq(SUBSET AnyLock) /\ q # <<>> /\ lock \in Head(q) /\ Head(q) = q[1]
      /\ Len(q) \in Nat \ {0}
      /\ kind'[s] = kind[s] /\ todo'[s] = Shorter(q, lock)
      /\ held'[s] = held[s] \cup {lock}
  BY DEF Obtains, TypeOK
<1>3. t.script \in Seq(SUBSET AnyLock) /\ Len(t.script) \in Nat
  BY TxScripts
<1>4. n \in Nat \ {0} /\ Len(q) = Len(t.script) + 1 - n /\ n <= Len(t.script)
  BY <1>1, <1>2, <1>3 DEF At
<1>5. /\ kind[s] = t.kind
      /\ \A i \in 1 .. Len(q) : /\ q[i] \subseteq t.script[n + i - 1]
                                /\ i > 1 => q[i] = t.script[n + i - 1]
      /\ \A i \in 1 .. Len(t.script) :
            /\ i < n => t.script[i] \subseteq held[s]
            /\ i = n => t.script[i] \ Head(q) \subseteq held[s]
      /\ \A h \in held[s] : \E i \in 1 .. Len(t.script) :
            /\ i <= n /\ h \in t.script[i]
            /\ i = n => h \notin Head(q)
  BY <1>1 DEF At
<1>6. q[1] \subseteq t.script[n] /\ lock \in t.script[n]
  <2>1. 1 \in 1 .. Len(q) /\ n + 1 - 1 = n
    BY <1>2, <1>4
  <2>2. q[1] \subseteq t.script[n + 1 - 1]
    BY <1>5, <2>1
  <2> QED
    BY <1>2, <2>1, <2>2
<1>9. SUFFICES \E x \in Tx : \E m \in 1 .. Len(x.script) + 1 : At(s, x, m)'
  <2>1. \A r \in Session \ {s} : /\ kind'[r] = kind[r] /\ todo'[r] = todo[r]
                                 /\ held'[r] = held[r] /\ answer'[r] = answer[r]
    BY DEF Obtains, TypeOK
  <2> QED
    BY <2>1, OthersFollow
<1>10. /\ todo'[s] \in Seq(SUBSET AnyLock)
       /\ Head(q) = {lock} => /\ Len(todo'[s]) = Len(q) - 1
                              /\ \A i \in 1 .. Len(q) - 1 : todo'[s][i] = q[i + 1]
       /\ Head(q) # {lock} => /\ Len(todo'[s]) = Len(q)
                              /\ Head(todo'[s]) = Head(q) \ {lock}
                              /\ todo'[s][1] = Head(q) \ {lock}
                              /\ \A i \in 2 .. Len(q) : todo'[s][i] = q[i]
  <2>1. /\ q \in Seq(SUBSET AnyLock) /\ q # <<>> /\ lock \in Head(q)
        /\ todo'[s] = Shorter(q, lock)
    BY <1>2
  <2> HIDE DEF q
  <2> QED
    BY ONLY <2>1, ShorterScript
<1>7. CASE Head(q) = {lock}
  <2>1. /\ Len(todo'[s]) = Len(q) - 1
        /\ \A i \in 1 .. Len(q) - 1 : todo'[s][i] = q[i + 1]
    BY <1>2, <1>7, <1>10
  <2>2. Len(todo'[s]) = Len(t.script) + 1 - (n + 1)
    BY <1>3, <1>4, <2>1
  <2>3. \A i \in 1 .. Len(todo'[s]) : todo'[s][i] = t.script[(n + 1) + i - 1]
    <3> SUFFICES ASSUME NEW i \in 1 .. Len(q) - 1
                 PROVE  todo'[s][i] = t.script[(n + 1) + i - 1]
      BY <2>1
    <3>1. i + 1 \in 1 .. Len(q) /\ i + 1 > 1 /\ n + (i + 1) - 1 = (n + 1) + i - 1
      BY <1>2, <1>4
    <3> QED
      BY <1>5, <2>1, <3>1
  <2>4. \A i \in 1 .. Len(t.script) : i < n + 1 => t.script[i] \subseteq held'[s]
    <3> SUFFICES ASSUME NEW i \in 1 .. Len(t.script), i < n + 1
                 PROVE  t.script[i] \subseteq held'[s]
      OBVIOUS
    <3>1. CASE i < n
      BY <1>2, <1>5, <3>1
    <3>2. CASE i = n
      BY <1>2, <1>5, <1>7, <3>2
    <3> QED
      BY <1>4, <3>1, <3>2
  <2>5. ASSUME n + 1 \in 1 .. Len(t.script)
        PROVE  Head(todo'[s]) = t.script[n + 1]
    <3> DEFINE a == Len(todo'[s])
               b == Len(t.script)
    <3>4. a >= 1
      <4>1. a = b + 1 - (n + 1) /\ b \in Nat /\ n \in Nat /\ n + 1 \in 1 .. b
        BY <1>3, <1>4, <2>2, <2>5
      <4> HIDE DEF a, b
      <4> QED
        BY <4>1
    <3>1. todo'[s] \in Seq(SUBSET AnyLock)
      BY <1>10
    <3>2. Head(todo'[s]) = todo'[s][1]
      BY <3>1, <3>4
    <3>3. 1 \in 1 .. Len(todo'[s]) /\ (n + 1) + 1 - 1 = n + 1
      BY <1>4, <3>1, <3>4
    <3> QED
      BY <2>3, <3>2, <3>3
  <2>6. \A h \in held'[s] : \E i \in 1 .. Len(t.script) : i < n + 1 /\ h \in t.script[i]
    <3> SUFFICES ASSUME NEW h \in held'[s]
                 PROVE  \E i \in 1 .. Len(t.script) : i < n + 1 /\ h \in t.script[i]
      OBVIOUS
    <3>1. CASE h \in held[s]
      BY <1>4, <1>5, <3>1
    <3>2. CASE h = lock
      BY <1>4, <1>6, <3>2
    <3> QED
      BY <1>2, <3>1, <3>2
  <2>8. \A h \in held'[s] : \E i \in 1 .. Len(t.script) :
          /\ i <= n + 1 /\ h \in t.script[i]
          /\ i = n + 1 => h \notin Head(todo'[s])
    BY <1>4, <2>6
  <2>9. kind'[s] = t.kind
    BY <1>2, <1>5
  <2>10. \A i \in 1 .. Len(todo'[s]) :
           /\ todo'[s][i] \subseteq t.script[(n + 1) + i - 1]
           /\ i > 1 => todo'[s][i] = t.script[(n + 1) + i - 1]
    BY ONLY <2>3
  <2>11. \A i \in 1 .. Len(t.script) :
           /\ i < n + 1 => t.script[i] \subseteq held'[s]
           /\ i = n + 1 => t.script[i] \ Head(todo'[s]) \subseteq held'[s]
    <3> SUFFICES ASSUME NEW i \in 1 .. Len(t.script)
                 PROVE  /\ i < n + 1 => t.script[i] \subseteq held'[s]
                        /\ i = n + 1 => t.script[i] \ Head(todo'[s]) \subseteq held'[s]
      OBVIOUS
    <3>1. i < n + 1 => t.script[i] \subseteq held'[s]
      BY ONLY <2>4, i \in 1 .. Len(t.script)
    <3>2. i = n + 1 => t.script[i] \ Head(todo'[s]) \subseteq held'[s]
      BY ONLY <2>5, i \in 1 .. Len(t.script)
    <3> QED
      BY ONLY <3>1, <3>2
  <2>7. At(s, t, n + 1)'
    BY ONLY <2>2, <2>8, <2>9, <2>10, <2>11 DEF At
  <2> QED
    BY <1>4, <2>7
<1>8. CASE Head(q) # {lock}
  <2>1. /\ Len(todo'[s]) = Len(q) /\ Head(todo'[s]) = Head(q) \ {lock}
        /\ todo'[s][1] = Head(q) \ {lock}
        /\ \A i \in 2 .. Len(q) : todo'[s][i] = q[i]
    BY <1>2, <1>8, <1>10
  <2>2. \A i \in 1 .. Len(todo'[s]) : /\ todo'[s][i] \subseteq t.script[n + i - 1]
                                      /\ i > 1 => todo'[s][i] = t.script[n + i - 1]
    <3> SUFFICES ASSUME NEW i \in 1 .. Len(q)
                 PROVE  /\ todo'[s][i] \subseteq t.script[n + i - 1]
                        /\ i > 1 => todo'[s][i] = t.script[n + i - 1]
      BY <2>1
    <3>1. CASE i = 1
      BY <1>2, <1>5, <2>1, <3>1
    <3>2. CASE i # 1
      <4>1. i \in 2 .. Len(q)
        BY <1>2, <3>2
      <4> QED
        BY <1>5, <2>1, <4>1
    <3> QED
      BY <3>1, <3>2
  <2>3. \A i \in 1 .. Len(t.script) :
          /\ i < n => t.script[i] \subseteq held'[s]
          /\ i = n => t.script[i] \ Head(todo'[s]) \subseteq held'[s]
    BY <1>2, <1>5, <2>1
  <2>4. \A h \in held'[s] : \E i \in 1 .. Len(t.script) :
          /\ i <= n /\ h \in t.script[i]
          /\ i = n => h \notin Head(todo'[s])
    <3> SUFFICES ASSUME NEW h \in held'[s]
                 PROVE  \E i \in 1 .. Len(t.script) :
                          /\ i <= n /\ h \in t.script[i]
                          /\ i = n => h \notin Head(todo'[s])
      OBVIOUS
    <3>1. CASE h \in held[s]
      BY <1>5, <2>1, <3>1
    <3>2. CASE h = lock
      BY <1>4, <1>6, <2>1, <3>2
    <3> QED
      BY <1>2, <3>1, <3>2
  <2>5. At(s, t, n)'
    BY <1>2, <1>4, <1>5, <2>1, <2>2, <2>3, <2>4 DEF At
  <2> QED
    BY <2>5
<1> QED
  BY <1>7, <1>8

LEMMA StepFollows ==
  ASSUME TypeOK, FollowsScript, [Next]_vars
  PROVE  FollowsScript'
<1>1. CASE UNCHANGED <<kind, todo, held, answer>>
  BY <1>1, AtCarries DEF FollowsScript
<1>3. ASSUME NEW s \in Session, NEW how \in {"none", "failed"}, End(s, how)
      PROVE  FollowsScript'
  <2>1. answer'[s] # "pending"
    BY <1>3 DEF End, TypeOK
  <2>2. \A r \in Session \ {s} : /\ kind'[r] = kind[r] /\ todo'[r] = todo[r]
                                 /\ held'[r] = held[r] /\ answer'[r] = answer[r]
    BY <1>3 DEF End, TypeOK
  <2> QED
    BY <2>1, <2>2, OthersFollow
<1> QED
  BY <1>1, <1>3, Steps, BeginFollows, ObtainFollows DEF vars, Blocks

-----------------------------------------------------------------------------
(* Locks exclude, and skipping locks are not waited for.                    *)

LEMMA ObtainExcludes ==
  ASSUME TypeOK, LocksExclude, NEW s \in Session, NEW lock \in AnyLock, Obtains(s, lock)
  PROVE  LocksExclude'
<1>1. /\ held'[s] = held[s] \cup {lock}
      /\ \A r \in Session \ {s} : held'[r] = held[r]
  BY DEF Obtains, TypeOK
<1>2. \A r \in Session \ {s} : \A h \in held[r] : ~Conflict(h, lock) /\ ~Conflict(lock, h)
  BY ConflictSymmetric DEF Obtains, Free
<1> QED
  BY <1>1, <1>2 DEF LocksExclude

LEMMA StepExcludes ==
  ASSUME TypeOK, LocksExclude, [Next]_vars
  PROVE  LocksExclude'
<1>1. CASE UNCHANGED held
  BY <1>1 DEF LocksExclude
<1>2. ASSUME NEW s \in Session, NEW how \in {"none", "failed"}, End(s, how)
      PROVE  LocksExclude'
  BY <1>2 DEF End, TypeOK, LocksExclude
<1> QED
  BY <1>1, <1>2, Steps, ObtainExcludes DEF vars, Begin, Blocks

LEMMA StepDoesNotWait ==
  ASSUME TypeOK, SkipsDoNotWait, [Next]_vars
  PROVE  SkipsDoNotWait'
  BY Steps DEF vars, Begin, Obtains, Blocks, End, TypeOK, SkipsDoNotWait

-----------------------------------------------------------------------------
(* Deadlocks.                                                               *)

(* Session s is blocked at stage n of t.                                    *)
BlockedAt(s, t, n) ==
  /\ kind[s] = t.kind /\ waiting[s] \in t.script[n]
  /\ \A i \in 1 .. n - 1 : t.script[i] \subseteq held[s]
  /\ \A h \in held[s] : \E i \in 1 .. n : h \in t.script[i] /\ (i = n => h # waiting[s])

LEMMA Blocked ==
  ASSUME LockInvariant, NEW s \in Session, waiting[s] # None
  PROVE  \E t \in Tx : \E n \in 1 .. Len(t.script) : BlockedAt(s, t, n)
<1>1. /\ answer[s] = "pending" /\ todo[s] # <<>> /\ todo[s] \in Seq(SUBSET AnyLock)
      /\ waiting[s] \in Head(todo[s])
  BY DEF LockInvariant, TypeOK
<1>2. PICK t \in Tx : \E n \in 1 .. Len(t.script) + 1 : At(s, t, n)
  BY <1>1 DEF LockInvariant, FollowsScript
<1>3. PICK n \in 1 .. Len(t.script) + 1 : At(s, t, n)
  BY <1>2
<1>4. Len(t.script) \in Nat
  BY TxScripts
<1>5. Len(todo[s]) \in Nat \ {0} /\ Head(todo[s]) = todo[s][1]
  BY <1>1
<1>6. n \in 1 .. Len(t.script) /\ n + 1 - 1 = n
  BY <1>3, <1>4, <1>5 DEF At
<1>7. Head(todo[s]) \subseteq t.script[n]
  <2>1. 1 \in 1 .. Len(todo[s])
    BY <1>5
  <2>2. todo[s][1] \subseteq t.script[n + 1 - 1]
    BY <1>3, <2>1 DEF At
  <2> QED
    BY <1>5, <1>6, <2>2
<1>8. BlockedAt(s, t, n)
  <2>1. \A i \in 1 .. n - 1 : i \in 1 .. Len(t.script) /\ i < n
    BY <1>4, <1>6
  <2>2. \A i \in 1 .. Len(t.script) : i <= n => i \in 1 .. n
    BY <1>4, <1>6
  <2> QED
    BY <1>1, <1>3, <1>7, <2>1, <2>2 DEF At, BlockedAt
<1> QED
  BY <1>6, <1>8

LEMMA ScriptsOfKind ==
  ASSUME NEW t \in Tx
  PROVE  /\ t.kind = "Complete" => \E d \in Opened, u \in User : t.script = CompleteLocks(d, u)
         /\ t.kind = "Cancel" => \E d \in Opened, a \in Provider \cup Driver, u \in User :
                                  t.script = CancelLocks(d, a, u)
         /\ t.kind = "Accept" => \/ \E d \in Fresh : t.script = AcceptLocks(d)
                                \/ \E d \in Opened : t.script = AcceptAgainLocks(d)
         /\ t.kind = "Advance" => \E d \in Opened : t.script = AdvanceLocks(d)
<1>1. CASE MarketTx(t)
  BY <1>1 DEF MarketTx
<1>2. CASE RequestTx(t)
  BY <1>2 DEF RequestTx
<1>3. CASE FleetTx(t)
  BY <1>3 DEF FleetTx
<1>4. CASE AdminTx(t)
  BY <1>4 DEF AdminTx
<1> QED
  BY <1>1, <1>2, <1>3, <1>4, TxCases

(* Whoever locks an integration or a request against the foreign keys of an *)
(* open dispatch, and waits, cancels, accepts again or searches; whoever    *)
(* locks the zone against an acceptance does not wait.                      *)
LEMMA LowLocks ==
  ASSUME LockInvariant, NEW s \in Session, NEW h \in held[s], waiting[s] # None
  PROVE  /\ Level(h) <= 2 /\ ~Refers(h) => kind[s] \in {"Cancel", "Accept", "Advance"}
         /\ Level(h) = 3 => h = Share("Zone", "zone")
<1>1. PICK t \in Tx : \E n \in 1 .. Len(t.script) : BlockedAt(s, t, n)
  BY Blocked
<1>2. PICK n \in 1 .. Len(t.script) : BlockedAt(s, t, n)
  BY <1>1
<1>3. PICK i \in 1 .. n : h \in t.script[i] /\ (i = n => h # waiting[s])
  BY <1>2 DEF BlockedAt
<1>4. Len(t.script) \in Nat /\ i \in 1 .. Len(t.script)
  BY TxScripts, <1>2, <1>3
<1>5. t.script # <<{h}>>
  <2> SUFFICES ASSUME t.script = <<{h}>>
               PROVE  FALSE
    OBVIOUS
  <2>1. n = 1 /\ i = 1 /\ t.script[1] = {h}
    BY <1>2, <1>3
  <2> QED
    BY <1>2, <1>3, <2>1 DEF BlockedAt
<1>6. LocksLow(t) /\ kind[s] = t.kind
  BY TxKnown, <1>2 DEF Known, BlockedAt
<1> QED
  BY <1>3, <1>4, <1>5, <1>6 DEF LocksLow

(* The row of a lock.                                                       *)
LEMMA RowOf ==
  ASSUME NEW class, NEW x
  PROVE  /\ Update(class, x).row = <<class, x>> /\ KeyShare(class, x).row = <<class, x>>
         /\ Share(class, x).row = <<class, x>> /\ Skipping(Update(class, x)).row = <<class, x>>
         /\ NoKeyUpdate(class, x).row = <<class, x>>
  BY DEF Update, KeyShare, Share, NoKeyUpdate, Skipping, Lock

LEMMA ReferredRow ==
  ASSUME NEW d, NEW l \in {KeyShare("Integration", d), KeyShare("Request", d)},
         NEW h, Conflict(h, l)
  PROVE  /\ h.row = <<"Integration", d>> \/ h.row = <<"Request", d>>
         /\ h # Share("Integration", d)
<1>1. l.row = <<"Integration", d>> \/ l.row = <<"Request", d>>
  BY RowOf
<1>2. h.row = l.row
  BY DEF Conflict
<1>3. ~Conflict(Share("Integration", d), KeyShare("Integration", d))
  BY DEF Conflict, Compatible, Share, KeyShare, Lock
<1>4. ~Conflict(Share("Integration", d), KeyShare("Request", d))
  BY DEF Conflict, Compatible, Share, KeyShare, Lock
<1> QED
  BY <1>1, <1>2, <1>3, <1>4

LEMMA CancelMeetsCompletion ==
  ASSUME LockInvariant, NEW c \in Session, NEW t \in Session, c # t,
         NEW d \in Opened, Update("Dispatch", d) \in held[c],
         waiting[c] \in {KeyShare("Integration", d), KeyShare("Request", d)},
         waiting[t] # None, kind[t] = "Cancel",
         NEW h \in held[t], Conflict(h, waiting[c])
  PROVE  WaitsFor(t, c)
<1>1. PICK x \in Tx : \E n \in 1 .. Len(x.script) : BlockedAt(t, x, n)
  BY Blocked
<1>2. PICK n \in 1 .. Len(x.script) : BlockedAt(t, x, n)
  BY <1>1
<1>3. PICK e \in Opened, a \in Provider \cup Driver, u \in User : x.script = CancelLocks(e, a, u)
  BY <1>2, ScriptsOfKind DEF BlockedAt
<1>4. /\ Len(x.script) = 4
      /\ x.script[1] = {Update("Request", e)}
      /\ x.script[2] = {Update("Dispatch", e)}
      /\ x.script[3] = {KeyShare("User", u)}
      /\ x.script[4] = {Update("Account", a)}
  BY <1>3 DEF CancelLocks
<1>5. n \in 1 .. 4
  BY <1>2, <1>4
<1>6. PICK i \in 1 .. n : h \in x.script[i] /\ (i = n => h # waiting[t])
  BY <1>2 DEF BlockedAt
<1>7. i \in 1 .. 4 /\ i <= n
  BY <1>5, <1>6
<1>8. i = 1 /\ e = d
  <2>1. h.row = <<"Integration", d>> \/ h.row = <<"Request", d>>
    BY ReferredRow
  <2>2. i = 1 => h.row = <<"Request", e>>
    BY <1>4, <1>6, RowOf
  <2>3. i = 2 => h.row = <<"Dispatch", e>>
    BY <1>4, <1>6, RowOf
  <2>4. i = 3 => h.row = <<"User", u>>
    BY <1>4, <1>6, RowOf
  <2>5. i = 4 => h.row = <<"Account", a>>
    BY <1>4, <1>6, RowOf
  <2> QED
    BY <1>7, <2>1, <2>2, <2>3, <2>4, <2>5
<1>9. n # 1
  BY <1>2, <1>4, <1>6, <1>8 DEF BlockedAt
<1>10. Conflict(Update("Dispatch", d), Update("Dispatch", d))
  BY DEF Conflict, Compatible, Update, Lock
<1>11. CASE n = 2
  BY <1>2, <1>4, <1>8, <1>10, <1>11 DEF BlockedAt, WaitsFor
<1>12. CASE n \in {3, 4}
  <2>1. Update("Dispatch", d) \in held[t]
    BY <1>2, <1>4, <1>8, <1>12 DEF BlockedAt
  <2> QED
    BY <1>10, <2>1 DEF LockInvariant, LocksExclude
<1> QED
  BY <1>5, <1>9, <1>11, <1>12

LEMMA AcceptPassesCompletion ==
  ASSUME LockInvariant, NEW t \in Session, NEW d \in Opened,
         NEW l \in {KeyShare("Integration", d), KeyShare("Request", d)},
         waiting[t] # None, kind[t] = "Accept",
         NEW h \in held[t], Conflict(h, l)
  PROVE  waiting[t] = Share("Zone", "zone")
<1>1. PICK x \in Tx : \E n \in 1 .. Len(x.script) : BlockedAt(t, x, n)
  BY Blocked
<1>2. PICK n \in 1 .. Len(x.script) : BlockedAt(t, x, n)
  BY <1>1
<1>3. PICK i \in 1 .. n : h \in x.script[i] /\ (i = n => h # waiting[t])
  BY <1>2 DEF BlockedAt
<1>4. h.row = <<"Integration", d>> \/ h.row = <<"Request", d>>
  BY ReferredRow
<1>5. ASSUME NEW e \in Fresh, x.script = AcceptLocks(e)
      PROVE  FALSE
  <2>1. /\ Len(x.script) = 4
        /\ x.script[1] = {Share("Integration", e)}
        /\ x.script[2] = {Update("Request", e)}
        /\ x.script[3] = {Share("Zone", "zone")}
        /\ x.script[4] = { KeyShare("Provider", p) : p \in Provider }
    BY <1>5 DEF AcceptLocks
  <2>2. i \in 1 .. 4
    BY <1>2, <1>3, <2>1
  <2>3. i = 1 => h.row = <<"Integration", e>>
    BY <1>3, <2>1, RowOf
  <2>4. i = 2 => h.row = <<"Request", e>>
    BY <1>3, <2>1, RowOf
  <2>5. i = 3 => h.row = <<"Zone", "zone">>
    BY <1>3, <2>1, RowOf
  <2>6. i = 4 => \E p : h.row = <<"Provider", p>>
    BY <1>3, <2>1, RowOf
  <2>7. e # d
    BY <1>5 DEF Opened
  <2> QED
    BY <1>4, <2>2, <2>3, <2>4, <2>5, <2>6, <2>7
<1>6. ASSUME NEW e \in Opened, x.script = AcceptAgainLocks(e)
      PROVE  waiting[t] = Share("Zone", "zone")
  <2>1. /\ Len(x.script) = 3
        /\ x.script[1] = {Share("Integration", e)}
        /\ x.script[2] = {Update("Request", e)}
        /\ x.script[3] = {Share("Zone", "zone")}
    BY <1>6 DEF AcceptAgainLocks
  <2>2. n \in 1 .. 3 /\ i \in 1 .. 3 /\ i <= n
    BY <1>2, <1>3, <2>1
  <2>3. i = 1 => h.row = <<"Integration", e>> /\ h = Share("Integration", e)
    BY <1>3, <2>1, RowOf
  <2>4. i = 3 => h.row = <<"Zone", "zone">>
    BY <1>3, <2>1, RowOf
  <2>5. i = 2
    BY <1>4, <2>2, <2>3, <2>4, ReferredRow
  <2>6. n # 2
    BY <1>2, <1>3, <2>1, <2>5 DEF BlockedAt
  <2>7. n = 3
    BY <2>2, <2>5, <2>6
  <2> QED
    BY <1>2, <2>1, <2>7 DEF BlockedAt
<1> QED
  BY <1>2, <1>5, <1>6, ScriptsOfKind DEF BlockedAt

LEMMA AdvancePassesCompletion ==
  ASSUME LockInvariant, NEW c \in Session, NEW t \in Session, c # t,
         NEW d \in Opened, Update("Dispatch", d) \in held[c],
         NEW l \in {KeyShare("Integration", d), KeyShare("Request", d)},
         waiting[t] # None, kind[t] = "Advance",
         NEW h \in held[t], Conflict(h, l)
  PROVE  FALSE
<1>1. PICK x \in Tx : \E n \in 1 .. Len(x.script) : BlockedAt(t, x, n)
  BY Blocked
<1>2. PICK n \in 1 .. Len(x.script) : BlockedAt(t, x, n)
  BY <1>1
<1>3. PICK e \in Opened : x.script = AdvanceLocks(e)
  BY <1>2, ScriptsOfKind DEF BlockedAt
<1>4. /\ Len(x.script) = 3
      /\ x.script[1] = {Update("Request", e)}
      /\ x.script[2] = {Skipping(Update("Dispatch", e))}
      /\ x.script[3] = { KeyShare("Provider", p) : p \in Provider }
  BY <1>3 DEF AdvanceLocks
<1>5. PICK i \in 1 .. n : h \in x.script[i] /\ (i = n => h # waiting[t])
  BY <1>2 DEF BlockedAt
<1>6. n \in 1 .. 3 /\ i \in 1 .. 3 /\ i <= n
  BY <1>2, <1>4, <1>5
<1>7. h.row = <<"Integration", d>> \/ h.row = <<"Request", d>>
  BY ReferredRow
<1>8. i = 1 /\ e = d
  <2>1. i = 1 => h.row = <<"Request", e>>
    BY <1>4, <1>5, RowOf
  <2>2. i = 2 => h.row = <<"Dispatch", e>>
    BY <1>4, <1>5, RowOf
  <2>3. i = 3 => \E p : h.row = <<"Provider", p>>
    BY <1>4, <1>5, RowOf
  <2> QED
    BY <1>6, <1>7, <2>1, <2>2, <2>3
<1>9. n # 1
  BY <1>2, <1>4, <1>5, <1>8 DEF BlockedAt
<1>10. n # 2
  BY <1>2, <1>4 DEF BlockedAt, LockInvariant, SkipsDoNotWait, Skipping, Update, Lock
<1>11. Skipping(Update("Dispatch", d)) \in held[t]
  BY <1>2, <1>4, <1>6, <1>8, <1>9, <1>10 DEF BlockedAt
<1>12. Conflict(Update("Dispatch", d), Skipping(Update("Dispatch", d)))
  BY DEF Conflict, Compatible, Skipping, Update, Lock
<1> QED
  BY <1>11, <1>12 DEF LockInvariant, LocksExclude

(* A stuck completion waits for its cancellation, and that one for it.      *)
LEMMA CompletionMeetsCancel ==
  ASSUME LockInvariant, NEW S \in SUBSET Session, Stuck(S), NEW c \in S,
         NEW d \in Opened, Update("Dispatch", d) \in held[c],
         waiting[c] \in {KeyShare("Integration", d), KeyShare("Request", d)}
  PROVE  \E t \in S : kind[t] = "Cancel" /\ WaitsFor(c, t) /\ WaitsFor(t, c)
<1>1. PICK t \in S : WaitsFor(c, t)
  BY DEF Stuck
<1>2. PICK h \in held[t] : c # t /\ Conflict(h, waiting[c])
  BY <1>1 DEF WaitsFor
<1>3. waiting[t] # None
  BY DEF Stuck, WaitsFor
<1>4. Level(h) <= 2 /\ ~Refers(h)
  <2>1. Class(waiting[c]) \in {"Integration", "Request"}
    BY RowOf DEF Class
  <2>2. Refers(waiting[c])
    BY Standing
  <2>3. Class(h) \in {"Integration", "Request"} /\ ~Refers(h)
    BY <1>2, <2>1, <2>2, ConflictParts
  <2> QED
    BY <2>3 DEF Level, Order
<1>5. kind[t] \in {"Cancel", "Accept", "Advance"}
  BY <1>3, <1>4, LowLocks
<1>6. kind[t] # "Advance"
  BY <1>2, <1>3, AdvancePassesCompletion
<1>7. kind[t] # "Accept"
  <2> SUFFICES ASSUME kind[t] = "Accept"
               PROVE  FALSE
    OBVIOUS
  <2>1. waiting[t] = Share("Zone", "zone")
    BY <1>2, <1>3, AcceptPassesCompletion
  <2>2. PICK r \in S : WaitsFor(t, r)
    BY DEF Stuck
  <2>3. PICK g \in held[r] : Conflict(g, Share("Zone", "zone"))
    BY <2>1, <2>2 DEF WaitsFor
  <2>4. Level(g) = 3
    <3>1. Class(g) = "Zone"
      BY <2>3, ConflictParts, RowOf DEF Class
    <3> QED
      BY <3>1 DEF Level, Order
  <2>5. waiting[r] # None
    BY DEF Stuck, WaitsFor
  <2>6. g = Share("Zone", "zone")
    BY <2>4, <2>5, LowLocks
  <2>7. ~Conflict(Share("Zone", "zone"), Share("Zone", "zone"))
    BY DEF Conflict, Compatible, Share, Lock
  <2> QED
    BY <2>3, <2>6, <2>7
<1>8. kind[t] = "Cancel"
  BY <1>5, <1>6, <1>7
<1>9. WaitsFor(t, c)
  BY <1>2, <1>3, <1>8, CancelMeetsCompletion
<1> QED
  BY <1>1, <1>8, <1>9

-----------------------------------------------------------------------------
(* Who waits stands below whom it waits for.                                *)

(* Session s waits above everything it holds, or within a stage of many.    *)
Ordered(s) ==
  \E t \in Tx : \E n \in 1 .. Len(t.script) :
    /\ BlockedAt(s, t, n)
    /\ \A h \in held[s] : Height(h) < Level(waiting[s]) \/ Together(t, h, waiting[s])

LEMMA OthersAreOrdered ==
  ASSUME LockInvariant, NEW s \in Session, waiting[s] # None, kind[s] \notin Exceptional
  PROVE  Ordered(s)
<1>1. PICK t \in Tx : \E n \in 1 .. Len(t.script) : BlockedAt(s, t, n)
  BY Blocked
<1>2. PICK n \in 1 .. Len(t.script) : BlockedAt(s, t, n)
  BY <1>1
<1>3. Ascends(t)
  BY TxKnown, <1>2 DEF Known, BlockedAt
<1>4. ASSUME NEW h \in held[s]
      PROVE  Height(h) < Level(waiting[s]) \/ Together(t, h, waiting[s])
  <2>1. PICK i \in 1 .. n : h \in t.script[i] /\ (i = n => h # waiting[s])
    BY <1>2 DEF BlockedAt
  <2>2. waiting[s] \in t.script[n]
    BY <1>2 DEF BlockedAt
  <2>3. i < n \/ i = n
    BY <1>2, <2>1
  <2> QED
    BY <1>2, <1>3, <2>1, <2>2, <2>3 DEF Ascends
<1> QED
  BY <1>2, <1>4 DEF Ordered

(* So does a completion, until it comes to its outbox event.                *)
LEMMA CompletionsAreOrdered ==
  ASSUME LockInvariant, NEW c \in Session, waiting[c] # None, kind[c] = "Complete"
  PROVE  \/ Ordered(c)
         \/ \E d \in Opened :
              /\ Update("Dispatch", d) \in held[c]
              /\ waiting[c] \in {KeyShare("Integration", d), KeyShare("Request", d)}
<1>1. PICK t \in Tx : \E n \in 1 .. Len(t.script) : BlockedAt(c, t, n)
  BY Blocked
<1>2. PICK n \in 1 .. Len(t.script) : BlockedAt(c, t, n)
  BY <1>1
<1>3. PICK d \in Opened, u \in User : t.script = CompleteLocks(d, u)
  BY <1>2, ScriptsOfKind DEF BlockedAt
<1>4. /\ Len(t.script) = 4
      /\ t.script[1] = {Update("Dispatch", d)}
      /\ t.script[2] = {KeyShare("User", u)}
      /\ t.script[3] = {KeyShare("Integration", d)}
      /\ t.script[4] = {KeyShare("Request", d)}
  BY <1>3 DEF CompleteLocks
<1>5. n \in 1 .. 4
  BY <1>2, <1>4
<1>6. CASE n = 1
  <2>1. held[c] = {}
    BY <1>2, <1>4, <1>6 DEF BlockedAt
  <2> QED
    BY <1>2, <2>1 DEF Ordered
<1>7. CASE n = 2
  <2>1. waiting[c] = KeyShare("User", u)
    BY <1>2, <1>4, <1>7 DEF BlockedAt
  <2>2. \A h \in held[c] : h = Update("Dispatch", d)
    BY <1>2, <1>4, <1>7 DEF BlockedAt
  <2>3. \A h \in held[c] : Height(h) < Level(waiting[c])
    BY <2>1, <2>2, Standing DEF StandsAt
  <2> QED
    BY <1>2, <2>3 DEF Ordered
<1>8. CASE n \in {3, 4}
  <2>1. Update("Dispatch", d) \in held[c]
    BY <1>2, <1>4, <1>8 DEF BlockedAt
  <2>2. waiting[c] \in {KeyShare("Integration", d), KeyShare("Request", d)}
    BY <1>2, <1>4, <1>8 DEF BlockedAt
  <2> QED
    BY <2>1, <2>2
<1> QED
  BY <1>5, <1>6, <1>7, <1>8

(* A session that holds one lock of a stage of many stands above those that *)
(* are yet to take their first.                                             *)
HoldsClass(s) == \E g \in held[s] : Class(g) = Class(waiting[s])

Potential(s) == 2 * Level(waiting[s]) + (IF HoldsClass(s) THEN 1 ELSE 0)

LEMMA PotentialBound == \A s : Potential(s) \in 2 .. 25
<1> TAKE s
<1>1. Level(waiting[s]) \in 1 .. 12
  BY LevelBound
<1> QED
  BY <1>1 DEF Potential

LEMMA TogetherParts ==
  ASSUME NEW t, NEW g, NEW l, Together(t, g, l)
  PROVE  /\ Class(g) = Class(l)
         /\ (Class(l) = "Provider" /\ Refers(g) /\ Refers(l)) \/ Class(l) = "Driver"
<1>1. \A x : Class(KeyShare("Provider", x)) = "Provider" /\ Refers(KeyShare("Provider", x))
  BY DEF Class, Refers, KeyShare, Lock
<1>2. \A x : Class(NoKeyUpdate("Driver", x)) = "Driver"
  BY RowOf DEF Class
<1> QED
  BY <1>1, <1>2 DEF Together

(* Only one transaction takes the drivers of a provider offline.            *)
LEMMA TransitionsExclude ==
  ASSUME LockInvariant, NEW s \in Session, NEW t \in Session, s # t,
         NEW x \in Tx, NEW n \in 1 .. Len(x.script), BlockedAt(s, x, n),
         NEW y \in Tx, NEW m \in 1 .. Len(y.script), BlockedAt(t, y, m),
         NEW g, NEW h, Together(x, g, waiting[s]), Together(y, h, waiting[t]),
         Class(h) = "Driver", Conflict(h, waiting[s])
  PROVE  FALSE
<1>1. Class(waiting[s]) = "Driver" /\ Class(waiting[t]) = "Driver"
  BY ConflictParts, TogetherParts
<1>2. \A p : Class(KeyShare("Provider", p)) = "Provider"
  BY RowOf DEF Class
<1>3. PICK p \in Provider : /\ x.script = TransitionLocks(p)
                           /\ \E r \in Fleet[p] : waiting[s] = NoKeyUpdate("Driver", r)
  BY <1>1, <1>2 DEF Together
<1>4. PICK q \in Provider : /\ y.script = TransitionLocks(q)
                           /\ \E r \in Fleet[q] : h = NoKeyUpdate("Driver", r)
  BY <1>1, <1>2, TogetherParts DEF Together
<1>5. PICK r \in Fleet[p] : waiting[s] = NoKeyUpdate("Driver", r)
  BY <1>3
<1>6. PICK o \in Fleet[q] : h = NoKeyUpdate("Driver", o)
  BY <1>4
<1>7. o = r
  BY <1>5, <1>6, RowOf DEF Conflict
<1>8. p = q
  BY <1>5, <1>6, <1>7
<1>9. \A z : Class(Update("Provider", z)) = "Provider"
  BY RowOf DEF Class
<1>10. /\ Len(TransitionLocks(p)) = 2
       /\ TransitionLocks(p)[1] = {Update("Provider", p)}
  BY DEF TransitionLocks
<1>11. n = 2 /\ m = 2
  BY <1>1, <1>3, <1>4, <1>8, <1>9, <1>10 DEF BlockedAt
<1>12. Update("Provider", p) \in held[s] /\ Update("Provider", p) \in held[t]
  BY <1>3, <1>4, <1>8, <1>10, <1>11 DEF BlockedAt
<1>13. Conflict(Update("Provider", p), Update("Provider", p))
  BY DEF Conflict, Compatible, Update, Lock
<1> QED
  BY <1>12, <1>13 DEF LockInvariant, LocksExclude

LEMMA WaitingRises ==
  ASSUME LockInvariant, NEW s \in Session, NEW t \in Session, WaitsFor(s, t),
         Ordered(s), Ordered(t)
  PROVE  Potential(s) < Potential(t)
<1>1. PICK h \in held[t] : s # t /\ Conflict(h, waiting[s])
  BY DEF WaitsFor
<1>2. PICK x \in Tx : \E n \in 1 .. Len(x.script) :
        /\ BlockedAt(s, x, n)
        /\ \A g \in held[s] : Height(g) < Level(waiting[s]) \/ Together(x, g, waiting[s])
  BY DEF Ordered
<1>3. PICK n \in 1 .. Len(x.script) :
        /\ BlockedAt(s, x, n)
        /\ \A g \in held[s] : Height(g) < Level(waiting[s]) \/ Together(x, g, waiting[s])
  BY <1>2
<1>4. PICK y \in Tx : \E m \in 1 .. Len(y.script) :
        /\ BlockedAt(t, y, m)
        /\ Height(h) < Level(waiting[t]) \/ Together(y, h, waiting[t])
  BY DEF Ordered
<1>5. PICK m \in 1 .. Len(y.script) :
        /\ BlockedAt(t, y, m)
        /\ Height(h) < Level(waiting[t]) \/ Together(y, h, waiting[t])
  BY <1>4
<1>6. /\ Level(waiting[s]) \in Nat /\ Level(waiting[t]) \in Nat /\ Height(h) \in Nat
      /\ Level(waiting[s]) <= Height(h)
  <2>1. Level(waiting[s]) <= Height(h)
    BY ONLY <1>1, ConflictLevel
  <2>2. /\ Level(waiting[s]) \in Nat /\ Level(waiting[t]) \in Nat
        /\ Height(h) \in Nat
    <3>1. /\ Level(waiting[s]) \in 1 .. 12 /\ Level(waiting[t]) \in 1 .. 12
          /\ Height(h) \in 1 .. 12
      BY ONLY LevelBound, Zenon
    <3> QED
      BY ONLY <3>1
  <2> QED
    BY ONLY <2>1, <2>2
<1>7. CASE Height(h) < Level(waiting[t])
  <2>1. Level(waiting[s]) < Level(waiting[t])
    BY <1>6, <1>7
  <2>2. /\ Potential(s) <= 2 * Level(waiting[s]) + 1
        /\ 2 * Level(waiting[t]) <= Potential(t)
        /\ Potential(s) \in Nat /\ Potential(t) \in Nat
    BY <1>6 DEF Potential
  <2> QED
    BY ONLY <1>6, <2>1, <2>2
<1>8. CASE Together(y, h, waiting[t])
  <2>1. /\ Class(waiting[s]) = Class(h) /\ Class(waiting[t]) = Class(h)
        /\ Class(h) # "User" /\ ~(Refers(h) /\ Refers(waiting[s]))
        /\ (Class(h) = "Provider" /\ Refers(h)) \/ Class(h) = "Driver"
    BY <1>1, <1>8, ConflictParts, TogetherParts
  <2>2. Level(waiting[t]) = Level(waiting[s])
    BY <2>1 DEF Level
  <2>3. HoldsClass(t)
    BY <2>1 DEF HoldsClass
  <2>4. ASSUME NEW g \in held[s], Class(g) = Class(waiting[s])
        PROVE  FALSE
    <3>1. Height(g) = Level(waiting[s])
      BY <2>1, <2>4 DEF Height, Level
    <3>2. Together(x, g, waiting[s])
      BY <1>3, <1>6, <3>1
    <3>3. Class(h) = "Driver"
      BY <2>1, <3>2, TogetherParts
    <3> QED
      BY <1>1, <1>3, <1>5, <1>8, <3>2, <3>3, TransitionsExclude
  <2>5. ~HoldsClass(s)
    BY <2>4 DEF HoldsClass
  <2> QED
    BY <1>6, <2>2, <2>3, <2>5 DEF Potential
<1> QED
  BY <1>5, <1>7, <1>8

(* So nobody is stuck whose session is ordered.                             *)
LEMMA SomeoneIsNotOrdered ==
  ASSUME LockInvariant, NEW S \in SUBSET Session, Stuck(S)
  PROVE  \E s \in S : ~Ordered(s)
<1> SUFFICES ASSUME \A s \in S : Ordered(s)
             PROVE  FALSE
  OBVIOUS
<1> DEFINE T == { 25 - Potential(s) : s \in S }
<1>1. T \subseteq Nat /\ T # {}
  BY PotentialBound DEF Stuck
<1>2. PICK k \in T : \A j \in T : ~(<<j, k>> \in OpToRel(<, Nat))
  <2>1. IsWellFoundedOn(OpToRel(<, Nat), Nat)
    BY NatLessThanWellFounded
  <2> HIDE DEF T
  <2> QED
    BY <1>1, <2>1, WFMin
<1>3. PICK s \in S : k = 25 - Potential(s)
  OBVIOUS
<1>4. PICK t \in S : WaitsFor(s, t)
  BY DEF Stuck
<1>5. Potential(s) < Potential(t)
  BY <1>4, WaitingRises
<1>6. Potential(s) \in 2 .. 25 /\ Potential(t) \in 2 .. 25
  BY PotentialBound
<1>7. 25 - Potential(t) \in T
  OBVIOUS
<1>8. 25 - Potential(t) < k /\ 25 - Potential(t) \in Nat /\ k \in Nat
  BY <1>3, <1>5, <1>6
<1>9. <<25 - Potential(t), k>> \in OpToRel(<, Nat)
  BY <1>8 DEF OpToRel
<1> QED
  BY <1>2, <1>7, <1>9

-----------------------------------------------------------------------------
(* The theorems.                                                            *)

LEMMA KnownDeadlocks == LockInvariant => OnlyKnownDeadlocks
<1> SUFFICES ASSUME LockInvariant, NEW S \in SUBSET Session, Deadlock(S),
                    \A s \in S : kind[s] \notin {"AddMember", "InviteAdmin"}
             PROVE  \A s \in S : kind[s] \in {"Complete", "Cancel"}
  BY DEF OnlyKnownDeadlocks
<1>1. Stuck(S)
  BY DEF Deadlock
<1>2. PICK c \in S : ~Ordered(c)
  BY <1>1, SomeoneIsNotOrdered
<1>3. waiting[c] # None
  BY <1>1 DEF Stuck, WaitsFor
<1>4. kind[c] = "Complete"
  BY <1>2, <1>3, OthersAreOrdered DEF Exceptional
<1>5. PICK d \in Opened : /\ Update("Dispatch", d) \in held[c]
                         /\ waiting[c] \in {KeyShare("Integration", d), KeyShare("Request", d)}
  BY <1>2, <1>3, <1>4, CompletionsAreOrdered
<1>6. PICK t \in S : kind[t] = "Cancel" /\ WaitsFor(c, t) /\ WaitsFor(t, c)
  BY <1>1, <1>5, CompletionMeetsCancel
<1>7. Stuck({c, t}) /\ {c, t} \in SUBSET S
  BY <1>6 DEF Stuck
<1>8. S = {c, t}
  BY <1>7 DEF Deadlock
<1> QED
  BY <1>4, <1>6, <1>8

LEMMA InitLocks == Init => LockInvariant
  BY InitTypes DEF Init, LockInvariant, FollowsScript, LocksExclude, SkipsDoNotWait

LEMMA StepLocks ==
  ASSUME LockInvariant, [Next]_vars
  PROVE  LockInvariant'
  BY StepTypes, StepFollows, StepExcludes, StepDoesNotWait DEF LockInvariant

(* In every reachable state the sessions have the locks of their scripts up *)
(* to where they stand, no two hold conflicting ones, and a lock taken with *)
(* SKIP LOCKED is not waited for.                                           *)
THEOREM LocksCorrect == Spec => []LockInvariant
  BY InitLocks, StepLocks, PTL DEF Spec

(* Every state has its type; what is waited for is asked for, and a session *)
(* that was answered holds nothing.                                         *)
THEOREM LockTypes == Spec => []TypeOK
<1>1. LockInvariant => TypeOK
  BY DEF LockInvariant
<1> QED
  BY <1>1, LocksCorrect, PTL

(* However many sessions, dispatches, providers, drivers, vehicles and      *)
(* users there are, the transactions deadlock in no other way than a        *)
(* completion with the cancellation of its delivery, and where an           *)
(* administrator is added or invited.                                       *)
THEOREM DeadlocksAreKnown == Spec => []OnlyKnownDeadlocks
  BY LocksCorrect, KnownDeadlocks, PTL


=============================================================================
