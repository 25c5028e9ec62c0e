--------------------------- MODULE DispatchMarket ---------------------------
(***************************************************************************)
(* The market in which one accepted delivery is won, paid for, worked,     *)
(* given back, delivered or cancelled: src/src/dispatch, delivery-         *)
(* assignments, independent-drivers, deliveries and credits.               *)
(*                                                                         *)
(* Every action is one database transaction.  Each of those transactions   *)
(* begins by locking the Dispatch row (or the profile, driver and vehicle  *)
(* rows it changes) FOR UPDATE and keeps its locks until it commits, so at *)
(* this level it is one step; an error that rolls the transaction back is  *)
(* an action that is not enabled.  Documents and user accounts are not     *)
(* modelled: they only give a transaction further reasons to be refused.   *)
(* The window here is the only one (searchMaxAttempts = 1): DispatchSearch *)
(* models windows that are reopened.                                       *)
(***************************************************************************)
EXTENDS Integers, FiniteSets

CONSTANTS
  Dispatch, Provider, Driver, Vehicle,
  None,              \* SQL NULL
  Employer,          \* Driver.providerId: the fleet a driver works for, or None
  VehicleOwner,      \* Vehicle.providerId or the driver behind its profile
  Monetized,         \* dispatches with creditMode = MONETIZED (the others are LEGACY)
  OpenToIndependent, \* dispatches whose ServiceType admits independent drivers
  PreAward,          \* provider holding the claim when charging was introduced, or None
                     \* (the code exempts an independent driver's award likewise)
  Price,             \* DispatchCreditSnapshot.credits, per dispatch and actor
  MaxBalance,        \* MAX_CREDIT_BALANCE
  Movements,         \* bound: the amounts an administrator credits or debits
  Volatile           \* bound: the parties that may leave service or coverage

Actor == Provider \cup Driver

ASSUME ActorsAreDistinct ==
  /\ Provider \cap Driver = {} /\ Actor \cap Vehicle = {}
  /\ None \notin Actor \cup Vehicle
ASSUME OwnershipAssumption ==
  /\ Employer \in [Driver -> Provider \cup {None}]
  /\ VehicleOwner \in [Vehicle -> Actor]
ASSUME CreditAssumption ==
  /\ Monetized \subseteq Dispatch
  /\ OpenToIndependent \subseteq Dispatch
  /\ PreAward \in [Dispatch -> Provider \cup {None}]
  /\ Price \in [Dispatch -> [Actor -> Nat \ {0}]]
  /\ MaxBalance \in Nat
  /\ Movements \subseteq Int \ {0}

VARIABLES
  request,    \* DeliveryRequest.status of the request behind each dispatch
  status,     \* Dispatch.status, "NONE" before the quote is accepted
  owner,      \* claimedByProviderId / claimedByIndependentDriverId
  lapsed,     \* the dispatches whose window has closed: now >= expiresAt
  candidate,  \* DispatchCandidate.status, "NONE" where there is no row
  active,     \* the ACTIVE rows of DeliveryAssignment
  ended,      \* its other rows
  events,     \* DELIVERY_COMPLETED rows of B2bOutboxEvent, per dispatch
  available,  \* providers, drivers and vehicles whose status is ACTIVE
  covered,    \* providers whose ProviderServiceCoverage is ACTIVE
  profile,    \* IndependentDriverProfile.status, "NONE" where there is no row
  paired,     \* the vehicle of the driver's open DriverVehicleAssignment
  balance,    \* CreditAccount.balance
  deposited,  \* the sum of the account's RECHARGE and ADMIN_ADJUSTMENT entries
  awarded,    \* <<dispatch, actor>> with a SERVICE_AWARD entry
  refunded    \* <<dispatch, actor>> whose award has a SERVICE_REFUND entry

dispatchVars == <<request, status, owner, lapsed, candidate>>
workVars     == <<active, ended, events>>
partyVars    == <<available, covered, profile, paired>>
creditVars   == <<balance, deposited, awarded, refunded>>
vars         == <<dispatchVars, workVars, partyVars, creditVars>>

Status    == {"NONE", "OPEN", "CLAIMED", "EXPIRED", "CANCELLED", "DELIVERED"}
Terminal  == {"EXPIRED", "CANCELLED", "DELIVERED"}
ActiveRow == [dispatch : Dispatch, driver : Driver, vehicle : Vehicle,
              mode : {"FLEET", "INDEPENDENT"}]
EndedRow  == [dispatch : Dispatch, driver : Driver,
              mode : {"FLEET", "INDEPENDENT"},
              status : {"REASSIGNED", "CANCELLED", "COMPLETED"}]

TypeOK ==
  /\ request \in [Dispatch -> {"CREATED", "CANCELLED"}]
  /\ status \in [Dispatch -> Status]
  /\ owner \in [Dispatch -> Actor \cup {None}]
  /\ lapsed \subseteq Dispatch
  /\ candidate \in [Dispatch -> [Provider -> {"NONE", "OFFERED", "CLAIMED", "RELEASED"}]]
  /\ active \subseteq ActiveRow
  /\ ended \subseteq EndedRow
  /\ events \in [Dispatch -> Nat]
  /\ available \subseteq Actor \cup Vehicle
  /\ covered \subseteq Provider
  /\ profile \in [Driver -> {"NONE", "APPROVED", "SUSPENDED", "REJECTED"}]
  /\ paired \in [Driver -> Vehicle \cup {None}]
  /\ balance \in [Actor -> 0 .. MaxBalance]
  /\ deposited \in [Actor -> Int]
  /\ awarded \subseteq Dispatch \X Actor
  /\ refunded \subseteq awarded

-----------------------------------------------------------------------------
(* The database this code is deployed on: dispatches not opened yet, except *)
(* the ones a provider already held when awards began to be charged.        *)
Init ==
  /\ request = [d \in Dispatch |-> "CREATED"]
  /\ status = [d \in Dispatch |-> IF PreAward[d] = None THEN "NONE" ELSE "CLAIMED"]
  /\ owner = PreAward
  /\ lapsed = {}
  /\ candidate = [d \in Dispatch |-> [p \in Provider |->
                   IF PreAward[d] = None THEN "NONE"
                   ELSE IF p = PreAward[d] THEN "CLAIMED" ELSE "OFFERED"]]
  /\ active = {} /\ ended = {}
  /\ events = [d \in Dispatch |-> 0]
  /\ available = Actor \cup { v \in Vehicle : VehicleOwner[v] \in Provider }
  /\ covered = Provider
  /\ profile = [r \in Driver |-> "NONE"]
  /\ paired = [r \in Driver |-> None]
  /\ balance = [a \in Actor |-> 0]
  /\ deposited = [a \in Actor |-> 0]
  /\ awarded = {} /\ refunded = {}

-----------------------------------------------------------------------------
(* Reads shared by the transactions.                                        *)

Eligible(p) == p \in available /\ p \in covered

HasAccount(a) == a \in Provider \cup { r \in Driver : profile[r] # "NONE" }

Busy(r, v) == \E row \in active : row.driver = r \/ row.vehicle = v

BusyOutside(d, r, v) ==
  \E row \in active : row.dispatch # d /\ (row.driver = r \/ row.vehicle = v)

PairingConflict(r, v) ==
  \/ paired[r] \notin {None, v}
  \/ \E other \in Driver \ {r} : paired[other] = v

(* What take() calls "released": a CANCELLED assignment of the driver on    *)
(* the dispatch, whoever cancelled it and in whichever mode.                *)
HasCancelledWork(d, r) ==
  \E row \in ended : row.dispatch = d /\ row.driver = r /\ row.status = "CANCELLED"

End(rows, how) ==
  { [dispatch |-> row.dispatch, driver |-> row.driver, mode |-> row.mode,
     status |-> how] : row \in rows }

ActiveOn(d) == { row \in active : row.dispatch = d }

-----------------------------------------------------------------------------
(* The two credit movements a dispatch causes.  Both run inside the         *)
(* transaction of the operation that causes them.                           *)

Charge(d, a) ==
  \/ d \notin Monetized /\ UNCHANGED creditVars
  \/ /\ d \in Monetized
     /\ HasAccount(a)
     /\ <<d, a>> \notin awarded
     /\ balance[a] >= Price[d][a]
     /\ balance' = [balance EXCEPT ![a] = @ - Price[d][a]]
     /\ awarded' = awarded \cup {<<d, a>>}
     /\ UNCHANGED <<deposited, refunded>>

(* No award was due: the dispatch is LEGACY or the claim predates charging. *)
Exempt(d, a) == d \notin Monetized \/ PreAward[d] = a

(* Plausible fault: the ceiling of the account is not looked at.            *)
RefundUncapped(d, a) ==
  \/ <<d, a>> \notin awarded \ refunded /\ UNCHANGED creditVars
  \/ /\ <<d, a>> \in awarded \ refunded
     /\ balance' = [balance EXCEPT ![a] = @ + Price[d][a]]
     /\ refunded' = refunded \cup {<<d, a>>}
     /\ UNCHANGED <<deposited, awarded>>

(* Plausible fault: the entry is written and the balance is not.            *)
RefundUnbooked(d, a) ==
  /\ refunded' = refunded \cup ({<<d, a>>} \cap awarded)
  /\ UNCHANGED <<balance, deposited, awarded>>

Refund(d, a) ==
  \/ <<d, a>> \notin awarded /\ Exempt(d, a) /\ UNCHANGED creditVars
  \/ <<d, a>> \in refunded /\ UNCHANGED creditVars
  \/ /\ <<d, a>> \in awarded \ refunded
     /\ balance[a] + Price[d][a] <= MaxBalance
     /\ balance' = [balance EXCEPT ![a] = @ + Price[d][a]]
     /\ refunded' = refunded \cup {<<d, a>>}
     /\ UNCHANGED <<deposited, awarded>>

-----------------------------------------------------------------------------
(* Publishing a dispatch and winning it.                                    *)

(* The quote is accepted: the dispatch opens and its candidates are the     *)
(* providers eligible at that moment, possibly none.                        *)
OpenDispatch(d) ==
  /\ request[d] = "CREATED" /\ status[d] = "NONE"
  /\ status' = [status EXCEPT ![d] = "OPEN"]
  /\ candidate' = [candidate EXCEPT ![d] =
                    [p \in Provider |-> IF Eligible(p) THEN "OFFERED" ELSE "NONE"]]
  /\ UNCHANGED <<request, owner, lapsed, workVars, partyVars, creditVars>>

(* Time passes: the window of the dispatch closes.                          *)
CloseWindow(d) ==
  /\ status[d] \in {"OPEN", "CLAIMED"} /\ d \notin lapsed
  /\ lapsed' = lapsed \cup {d}
  /\ UNCHANGED <<request, status, owner, candidate, workVars, partyVars, creditVars>>

ClaimAllowed(d, p) ==
  /\ status[d] = "OPEN" /\ d \notin lapsed
  /\ candidate[d][p] = "OFFERED"
  /\ Eligible(p)

Claim(d, p) ==
  /\ ClaimAllowed(d, p)
  /\ candidate' = [candidate EXCEPT ![d][p] = "CLAIMED"]
  /\ status' = [status EXCEPT ![d] = "CLAIMED"]
  /\ owner' = [owner EXCEPT ![d] = p]
  /\ Charge(d, p)
  /\ UNCHANGED <<request, lapsed, workVars, partyVars>>

(* Plausible fault: other work of the driver or the vehicle is not seen.    *)
TakeAllowedBusy(d, r, v) ==
  /\ status[d] = "OPEN" /\ d \notin lapsed
  /\ d \in OpenToIndependent
  /\ ~HasCancelledWork(d, r)
  /\ r \in available /\ profile[r] = "APPROVED"
  /\ VehicleOwner[v] = r /\ v \in available

(* Plausible fault: a driver may take again what it gave back.              *)
TakeAllowedAgain(d, r, v) ==
  /\ status[d] = "OPEN" /\ d \notin lapsed
  /\ d \in OpenToIndependent
  /\ r \in available /\ profile[r] = "APPROVED"
  /\ VehicleOwner[v] = r /\ v \in available
  /\ ~Busy(r, v)

TakeAllowed(d, r, v) ==
  /\ status[d] = "OPEN" /\ d \notin lapsed
  /\ d \in OpenToIndependent
  /\ ~HasCancelledWork(d, r)
  /\ r \in available /\ profile[r] = "APPROVED"
  /\ VehicleOwner[v] = r /\ v \in available
  /\ ~Busy(r, v)

Take(d, r, v) ==
  /\ TakeAllowed(d, r, v)
  /\ status' = [status EXCEPT ![d] = "CLAIMED"]
  /\ owner' = [owner EXCEPT ![d] = r]
  /\ active' = active \cup {[dispatch |-> d, driver |-> r, vehicle |-> v,
                             mode |-> "INDEPENDENT"]}
  /\ Charge(d, r)
  /\ UNCHANGED <<request, lapsed, candidate, ended, events, partyVars>>

(* A claim or a take that arrives after the window is refused, but first    *)
(* it persists the expiry.                                                  *)
ArriveLate(d) ==
  /\ status[d] = "OPEN" /\ d \in lapsed
  /\ \/ \E p \in Provider : candidate[d][p] # "NONE"
     \/ \E r \in Driver : profile[r] = "APPROVED"
  /\ status' = [status EXCEPT ![d] = "EXPIRED"]
  /\ UNCHANGED <<request, owner, lapsed, candidate, workVars, partyVars, creditVars>>

-----------------------------------------------------------------------------
(* Fleet work: the provider that holds the claim assigns its resources.     *)

Holds(d, a) == status[d] = "CLAIMED" /\ owner[d] = a

FleetResources(p, r, v) ==
  /\ Employer[r] = p /\ VehicleOwner[v] = p
  /\ {p, r, v} \subseteq available
  /\ ~PairingConflict(r, v)

FleetRow(d, r, v) == [dispatch |-> d, driver |-> r, vehicle |-> v, mode |-> "FLEET"]

Assign(d, p, r, v) ==
  /\ Holds(d, p) /\ ActiveOn(d) = {}
  /\ FleetResources(p, r, v) /\ ~Busy(r, v)
  /\ active' = active \cup {FleetRow(d, r, v)}
  /\ UNCHANGED <<dispatchVars, ended, events, partyVars, creditVars>>

Reassign(d, p, r, v) ==
  /\ Holds(d, p) /\ ActiveOn(d) # {} /\ FleetRow(d, r, v) \notin active
  /\ FleetResources(p, r, v) /\ ~BusyOutside(d, r, v)
  /\ active' = (active \ ActiveOn(d)) \cup {FleetRow(d, r, v)}
  /\ ended' = ended \cup End(ActiveOn(d), "REASSIGNED")
  /\ UNCHANGED <<dispatchVars, events, partyVars, creditVars>>

CancelWork(d, p) ==
  /\ Holds(d, p) /\ ActiveOn(d) # {}
  /\ active' = active \ ActiveOn(d)
  /\ ended' = ended \cup End(ActiveOn(d), "CANCELLED")
  /\ UNCHANGED <<dispatchVars, events, partyVars, creditVars>>

-----------------------------------------------------------------------------
(* Giving back, delivering, cancelling.                                     *)

Reopen(d) ==
  /\ status' = [status EXCEPT ![d] = IF d \in lapsed THEN "EXPIRED" ELSE "OPEN"]
  /\ owner' = [owner EXCEPT ![d] = None]

(* Plausible fault: the candidate row is forgotten.                         *)
ReleaseKeepsCandidate(d, p) ==
  /\ Holds(d, p) /\ ActiveOn(d) = {}
  /\ Reopen(d)
  /\ Refund(d, p)
  /\ UNCHANGED <<request, lapsed, candidate, workVars, partyVars>>

(* Plausible fault: work in progress does not block the release.            *)
ReleaseMidService(d, p) ==
  /\ Holds(d, p)
  /\ candidate' = [candidate EXCEPT ![d][p] = "RELEASED"]
  /\ Reopen(d)
  /\ Refund(d, p)
  /\ UNCHANGED <<request, lapsed, workVars, partyVars>>

ProviderRelease(d, p) ==
  /\ Holds(d, p) /\ ActiveOn(d) = {}
  /\ candidate' = [candidate EXCEPT ![d][p] = "RELEASED"]
  /\ Reopen(d)
  /\ Refund(d, p)
  /\ UNCHANGED <<request, lapsed, workVars, partyVars>>

DriverRelease(d, r) ==
  /\ profile[r] = "APPROVED"
  /\ Holds(d, r)
  /\ active' = active \ ActiveOn(d)
  /\ ended' = ended \cup End(ActiveOn(d), "CANCELLED")
  /\ Reopen(d)
  /\ Refund(d, r)
  /\ UNCHANGED <<request, lapsed, candidate, events, partyVars>>

(* Plausible fault: a delivery needs no assignment.                         *)
CompleteWithoutWork(d, a) ==
  /\ Holds(d, a)
  /\ active' = active \ ActiveOn(d)
  /\ ended' = ended \cup End(ActiveOn(d), "COMPLETED")
  /\ status' = [status EXCEPT ![d] = "DELIVERED"]
  /\ events' = [events EXCEPT ![d] = @ + 1]
  /\ UNCHANGED <<request, owner, lapsed, candidate, partyVars, creditVars>>

(* The approval of an independent driver is not asked for again.            *)
Complete(d, a) ==
  /\ Holds(d, a) /\ ActiveOn(d) # {}
  /\ active' = active \ ActiveOn(d)
  /\ ended' = ended \cup End(ActiveOn(d), "COMPLETED")
  /\ status' = [status EXCEPT ![d] = "DELIVERED"]
  /\ events' = [events EXCEPT ![d] = @ + 1]
  /\ UNCHANGED <<request, owner, lapsed, candidate, partyVars, creditVars>>

(* Plausible fault: a dispatch somebody already won is not closed.          *)
CloseOpenOnly(d) ==
  /\ status' = [status EXCEPT ![d] = CASE @ # "OPEN" -> @
                                       [] d \in lapsed -> "EXPIRED"
                                       [] OTHER -> "CANCELLED"]
  /\ UNCHANGED <<active, ended, creditVars>>

(* Plausible fault: what is finished is closed again.                       *)
CloseFinished(d) ==
  /\ active' = active \ ActiveOn(d)
  /\ ended' = ended \cup End(ActiveOn(d), "CANCELLED")
  /\ status' = [status EXCEPT ![d] = "CANCELLED"]
  /\ IF owner[d] = None THEN UNCHANGED creditVars ELSE Refund(d, owner[d])

(* Plausible fault: the credits of the holder are kept.                     *)
CloseUnrefunded(d) ==
  /\ status[d] \in {"OPEN", "CLAIMED"}
  /\ active' = active \ ActiveOn(d)
  /\ ended' = ended \cup End(ActiveOn(d), "CANCELLED")
  /\ status' = [status EXCEPT ![d] = "CANCELLED"]
  /\ UNCHANGED creditVars

(* The dispatch half of a cancellation.  The owner stays as history.        *)
CloseForCancelledRequest(d) ==
  \/ /\ status[d] \notin {"OPEN", "CLAIMED"}
     /\ UNCHANGED <<status, active, ended, creditVars>>
  \/ /\ status[d] \in {"OPEN", "CLAIMED"}
     /\ active' = active \ ActiveOn(d)
     /\ ended' = ended \cup End(ActiveOn(d), "CANCELLED")
     /\ status' = [status EXCEPT ![d] =
                    IF @ = "OPEN" /\ d \in lapsed THEN "EXPIRED" ELSE "CANCELLED"]
     /\ \/ owner[d] = None /\ UNCHANGED creditVars
        \/ owner[d] # None /\ Refund(d, owner[d])

(* Cancelling is accepted at any moment, after the delivery too.            *)
CancelRequest(d) ==
  /\ request[d] = "CREATED"
  /\ request' = [request EXCEPT ![d] = "CANCELLED"]
  /\ CloseForCancelledRequest(d)
  /\ UNCHANGED <<owner, lapsed, candidate, events, partyVars>>

-----------------------------------------------------------------------------
(* The parties change while dispatches are running.                         *)

(* Enabling or reinstating an independent driver; its credit account is     *)
(* created the first time.                                                  *)
Approve(r) ==
  /\ r \in available /\ profile[r] # "APPROVED"
  /\ profile' = [profile EXCEPT ![r] = "APPROVED"]
  /\ UNCHANGED <<dispatchVars, workVars, available, covered, paired, creditVars>>

(* Plausible fault: the driver's work in progress does not stop it.         *)
WithdrawMidService(r, to) ==
  /\ profile[r] \notin {"NONE", to}
  /\ profile' = [profile EXCEPT ![r] = to]
  /\ UNCHANGED <<dispatchVars, workVars, available, covered, paired, creditVars>>

Withdraw(r, to) ==
  /\ profile[r] \notin {"NONE", to}
  /\ ~ \E row \in active : row.driver = r /\ row.mode = "INDEPENDENT"
  /\ profile' = [profile EXCEPT ![r] = to]
  /\ UNCHANGED <<dispatchVars, workVars, available, covered, paired, creditVars>>

(* A provider, a fleet driver or a fleet vehicle is suspended, or is active *)
(* again.  None of these looks at the work in progress.                     *)
Switch(x) ==
  /\ x \in Volatile
  /\ available' = IF x \in available THEN available \ {x} ELSE available \cup {x}
  /\ UNCHANGED <<dispatchVars, workVars, covered, profile, paired, creditVars>>

TransitionProvider(p) == Switch(p)

UpdateDriver(r) == Employer[r] # None /\ Switch(r)

UpdateVehicle(v) == VehicleOwner[v] \in Provider /\ Switch(v)

(* An independent driver's own vehicle: registered, or in service again ... *)
AddOwnVehicle(r, v) ==
  /\ VehicleOwner[v] = r /\ profile[r] # "NONE"
  /\ v \notin available
  /\ available' = available \cup {v}
  /\ UNCHANGED <<dispatchVars, workVars, covered, profile, paired, creditVars>>

(* ... or taken out of service, which its work in progress prevents.        *)
RetireOwnVehicle(r, v) ==
  /\ VehicleOwner[v] = r /\ profile[r] # "NONE"
  /\ v \in Volatile \cap available
  /\ ~ \E row \in active : row.vehicle = v
  /\ available' = available \ {v}
  /\ UNCHANGED <<dispatchVars, workVars, covered, profile, paired, creditVars>>

SwitchCoverage(p) ==
  /\ p \in Volatile
  /\ covered' = IF p \in covered THEN covered \ {p} ELSE covered \cup {p}
  /\ UNCHANGED <<dispatchVars, workVars, available, profile, paired, creditVars>>

(* Plausible fault: pairing ignores the work in progress.                   *)
PairMidService(r, v) ==
  /\ Employer[r] # None /\ VehicleOwner[v] = Employer[r]
  /\ {Employer[r], r, v} \subseteq available
  /\ paired[r] = None /\ \A other \in Driver : paired[other] # v
  /\ paired' = [paired EXCEPT ![r] = v]
  /\ UNCHANGED <<dispatchVars, workVars, available, covered, profile, creditVars>>

(* The V1.4 pairing of a fleet driver with a vehicle of the same fleet.     *)
Pair(r, v) ==
  /\ Employer[r] # None /\ VehicleOwner[v] = Employer[r]
  /\ {Employer[r], r, v} \subseteq available
  /\ paired[r] = None /\ \A other \in Driver : paired[other] # v
  /\ ~Busy(r, v)
  /\ paired' = [paired EXCEPT ![r] = v]
  /\ UNCHANGED <<dispatchVars, workVars, available, covered, profile, creditVars>>

Unpair(r) ==
  /\ paired[r] # None
  /\ ~ \E row \in active : row.driver = r
  /\ paired' = [paired EXCEPT ![r] = None]
  /\ UNCHANGED <<dispatchVars, workVars, available, covered, profile, creditVars>>

(* A recharge or an adjustment by an administrator.                         *)
Move(a, amount) ==
  /\ HasAccount(a)
  /\ balance[a] + amount \in 0 .. MaxBalance
  /\ balance' = [balance EXCEPT ![a] = @ + amount]
  /\ deposited' = [deposited EXCEPT ![a] = @ + amount]
  /\ UNCHANGED <<dispatchVars, workVars, partyVars, awarded, refunded>>

-----------------------------------------------------------------------------
ProviderStep(d, p) ==
  \/ Claim(d, p)
  \/ CancelWork(d, p)
  \/ ProviderRelease(d, p)
  \/ \E r \in Driver, v \in Vehicle : Assign(d, p, r, v) \/ Reassign(d, p, r, v)

DriverStep(d, r) ==
  \/ DriverRelease(d, r)
  \/ \E v \in Vehicle : Take(d, r, v)

DispatchStep(d) ==
  \/ OpenDispatch(d) \/ CloseWindow(d) \/ ArriveLate(d) \/ CancelRequest(d)
  \/ \E p \in Provider : ProviderStep(d, p)
  \/ \E r \in Driver : DriverStep(d, r)
  \/ \E a \in Actor : Complete(d, a)

PartyStep ==
  \/ \E r \in Driver :
       \/ Approve(r) \/ Unpair(r) \/ UpdateDriver(r)
       \/ \E to \in {"SUSPENDED", "REJECTED"} : Withdraw(r, to)
       \/ \E v \in Vehicle : Pair(r, v) \/ AddOwnVehicle(r, v) \/ RetireOwnVehicle(r, v)
  \/ \E v \in Vehicle : UpdateVehicle(v)
  \/ \E p \in Provider : TransitionProvider(p) \/ SwitchCoverage(p)
  \/ \E a \in Actor, amount \in Movements : Move(a, amount)

Next == (\E d \in Dispatch : DispatchStep(d)) \/ PartyStep

Spec == Init /\ [][Next]_vars
-----------------------------------------------------------------------------
(***************************************************************************)
(* Safety.                                                                 *)
(***************************************************************************)

(* Whoever is committed to a dispatch: its holder, or the one who delivered *)
(* it.  A CANCELLED dispatch keeps its owner column only as history.        *)
Committed(d, a) == status[d] \in {"CLAIMED", "DELIVERED"} /\ owner[d] = a

(* A claim and the candidate snapshot never disagree: a CLAIMED candidate   *)
(* row is the provider in the owner column, an OPEN or EXPIRED dispatch has *)
(* neither, and a committed dispatch always names its holder.               *)
ClaimMatchesCandidates ==
  \A d \in Dispatch :
    /\ \A p \in Provider : candidate[d][p] = "CLAIMED" <=> owner[d] = p
    /\ status[d] \in {"NONE", "OPEN", "EXPIRED"} => owner[d] = None
    /\ status[d] \in {"CLAIMED", "DELIVERED"} => owner[d] # None

(* The credits kept are exactly those of the committed actors: across       *)
(* claims, takes, releases and cancellations, an award stays unreturned if  *)
(* and only if its payer still holds, or delivered, the dispatch and was    *)
(* not exempt from paying.                                                  *)
HolderPays ==
  \A d \in Dispatch, a \in Actor :
    <<d, a>> \in awarded \ refunded <=> Committed(d, a) /\ ~Exempt(d, a)

(* Fleet and independent work exclude each other: a dispatch, a driver and  *)
(* a vehicle each appear in at most one ACTIVE assignment, over all         *)
(* dispatches and both modes.                                               *)
OneJobAtATime ==
  \A r1, r2 \in active :
    \/ r1.dispatch = r2.dispatch
    \/ r1.driver = r2.driver
    \/ r1.vehicle = r2.vehicle
    => r1 = r2

BelongsToHolder(row) ==
  /\ status[row.dispatch] = "CLAIMED"
  /\ owner[row.dispatch] = IF row.mode = "FLEET" THEN Employer[row.driver]
                                                 ELSE row.driver
  /\ VehicleOwner[row.vehicle] = owner[row.dispatch]

(* Work in progress belongs to whoever holds the dispatch, with a driver    *)
(* and a vehicle of its own, and an independent driver never holds a        *)
(* dispatch without executing it.                                           *)
WorkBelongsToHolder ==
  /\ \A row \in active : BelongsToHolder(row)
  /\ \A d \in Dispatch :
       status[d] = "CLAIMED" /\ owner[d] \in Driver => ActiveOn(d) # {}

(* Suspending a driver or retiring its vehicle never overtakes a take: an   *)
(* independent driver at work is APPROVED and its vehicle ACTIVE.           *)
NoWithdrawalMidService ==
  \A row \in active : row.mode = "INDEPENDENT" =>
    profile[row.driver] = "APPROVED" /\ row.vehicle \in available

(* While a fleet driver works, its V1.4 pairing and that of the vehicle     *)
(* agree with the assignment, whatever was paired or unpaired meanwhile.    *)
PairingFollowsWork ==
  \A row \in active : row.mode = "FLEET" => ~PairingConflict(row.driver, row.vehicle)

(* A delivery, its COMPLETED assignment and its outbox event exist together *)
(* or not at all, and there is never a second one of any of them.           *)
DeliveredOnce ==
  \A d \in Dispatch :
    LET done == { row \in ended : row.dispatch = d /\ row.status = "COMPLETED" }
    IN  /\ events[d] = Cardinality(done)
        /\ events[d] = IF status[d] = "DELIVERED" THEN 1 ELSE 0

(* The recovery barrier of the integration guide: once a request is         *)
(* CANCELLED its dispatch is over, nobody works on it and, unless it had    *)
(* been delivered, nobody's credits are kept for it.                        *)
CancelledIsOver ==
  \A d \in Dispatch : request[d] = "CANCELLED" =>
    /\ status[d] \in Terminal \cup {"NONE"}
    /\ ActiveOn(d) = {}
    /\ status[d] # "DELIVERED" =>
         \A a \in Actor : <<d, a>> \notin awarded \ refunded

(* The credits an actor has paid and not been given back, one by one.       *)
Spent(a) ==
  UNION { {d} \X (1 .. Price[d][a]) :
            d \in { e \in Dispatch : <<e, a>> \in awarded \ refunded } }

(* Every balance is the sum of its ledger: deposits less awards plus        *)
(* refunds.                                                                 *)
BalanceIsLedger ==
  \A a \in Actor : balance[a] = deposited[a] - Cardinality(Spent(a))

(* Who gave a dispatch back: a RELEASED candidate, or the driver of a       *)
(* CANCELLED independent assignment.                                        *)
GaveBack(d, a) ==
  \/ a \in Provider /\ candidate[d][a] = "RELEASED"
  \/ \E row \in ended : /\ row.dispatch = d /\ row.driver = a
                        /\ row.mode = "INDEPENDENT" /\ row.status = "CANCELLED"

(* EXPIRED, CANCELLED and DELIVERED are final: neither the status nor the   *)
(* recorded owner of a finished dispatch ever changes, not even when its    *)
(* request is cancelled afterwards.                                         *)
FinishedIsFrozen ==
  [][ \A d \in Dispatch : status[d] \in Terminal =>
        status'[d] = status[d] /\ owner'[d] = owner[d] ]_vars

-----------------------------------------------------------------------------
(***************************************************************************)
(* Each dispatch implements ServiceContract.                               *)
(***************************************************************************)
Phase(d)  == IF status[d] \in {"EXPIRED", "CANCELLED"} THEN "OVER" ELSE status[d]
Holder(d) == IF status[d] \in {"CLAIMED", "DELIVERED"} THEN owner[d] ELSE None
Past(d)   == { a \in Actor : GaveBack(d, a) /\ owner[d] # a }
Paid(d)   == { a \in Actor : <<d, a>> \in awarded \ refunded }

Contract(d) == INSTANCE ServiceContract WITH
  Exempted <- { a \in Actor : Exempt(d, a) },
  phase <- Phase(d), holder <- Holder(d), past <- Past(d), paid <- Paid(d)

(* Every transaction of the market is, for every dispatch, one step of the  *)
(* contract or none: winning, paying, leaving and refunding are never seen  *)
(* apart.                                                                   *)
KeepsContract ==
  /\ \A d \in Dispatch : Contract(d)!Init
  /\ [][\A d \in Dispatch : [Contract(d)!Next]_(Contract(d)!vars)]_vars
-----------------------------------------------------------------------------
(***************************************************************************)
(* What the safety properties need to be inductive.                        *)
(***************************************************************************)

(* A provider that held the claim before charging keeps a candidate row     *)
(* that can never be OFFERED again, so its exemption covers that one claim. *)
ExemptionIsUsedUp ==
  \A d \in Dispatch : PreAward[d] # None =>
    /\ status[d] # "NONE"
    /\ candidate[d][PreAward[d]] \in {"CLAIMED", "RELEASED"}

(* Only what is due is charged.                                             *)
AwardsAreDue == \A d \in Dispatch, a \in Actor : <<d, a>> \in awarded => ~Exempt(d, a)

ClaimInvariant ==
  /\ TypeOK
  /\ ClaimMatchesCandidates
  /\ WorkBelongsToHolder
  /\ ExemptionIsUsedUp
  /\ AwardsAreDue
  /\ HolderPays
=============================================================================
