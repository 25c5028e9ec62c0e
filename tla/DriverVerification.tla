------------------------- MODULE DriverVerification -------------------------
(***************************************************************************)
(* Documentary verification (VerificationService) of independent drivers   *)
(* without a provider and of their own vehicles: what an approval enables, *)
(* what it must not touch, and the admission to work on its evidence.      *)
(*                                                                         *)
(* The dossier ("case") of a driver or a vehicle is edited by its          *)
(* presenter, submitted, and decided by a reviewer who has read it.  An    *)
(* approval enables a driver that registered itself and activates a        *)
(* vehicle whose status nobody has set since its onboarding; a driver      *)
(* takes work with a vehicle when both have current evidence.  Meanwhile   *)
(* administrators sanction and reinstate profiles, and edit vehicles.      *)
(*                                                                         *)
(* A transaction holds the rows it locks until it ends.  Decisions and     *)
(* admissions, in which others can interfere with what they read, are two  *)
(* steps; every other transaction locks what it reads and is one.          *)
(***************************************************************************)
EXTENDS Integers

CONSTANTS
  Driver,
  Vehicle,
  OwnerOf,     \* driver that each vehicle belongs to
  Case,
  Material,    \* identifier, type, brand, model, year and plate of a vehicle
  Data,        \* what dossiers declare; each declaration has files of its own
  Until,       \* instants at which licences and authorizations expire
  None,
  MaxRevision, \* bounds the editing of a dossier
  MaxTime      \* bounds the clock

Subject == Driver \cup Vehicle

ProfileStatus == {"NONE", "PENDING", "APPROVED", "SUSPENDED", "REJECTED"}
Dossier ==
  [subject : Subject, revision : Nat,
   status : {"DRAFT", "SUBMITTED", "APPROVED", "REJECTED", "WITHDRAWN"},
   data : Data \cup {None}, until : Until \cup {None}, files : SUBSET Data,
   snapshot : Material \cup {"NAME", None}]
Decision == [verdict : {"APPROVED", "REJECTED"}, found : ProfileStatus \cup {None}]

ASSUME VerificationAssumption ==
  /\ Driver \cap Vehicle = {}
  /\ OwnerOf \in [Vehicle -> Driver]
  /\ Data \subseteq {"LICENSED", "UNLICENSED", "OWNED"} /\ Until \subseteq Nat
  /\ MaxRevision \in Nat \ {0} /\ MaxTime \in Nat
  /\ None \notin Nat /\ None \notin Case /\ None \notin Material
  /\ None \notin Dossier /\ None \notin Decision
  /\ None \notin {"LICENSED", "UNLICENSED", "OWNED", "NAME", "ACTIVE", "INACTIVE"}

VARIABLES
  now,        \* the clock
  accepted,   \* drivers that accepted their terms
  driver,     \* status of each driver
  profile,    \* status of each driver's independent profile
  vehicle,    \* status of each vehicle; INACTIVE stands for all but ACTIVE
  onboarding, \* vehicles with the marker verificationOnboardingPending
  explicit,   \* the last status that an administrator set, for the properties
  material,   \* material facts of each vehicle, as they are now
  cases,      \* the dossiers
  latest,     \* last approved dossier of each subject
  seen,       \* each open dossier as the reviewer last read it
  deciding,   \* decision under way on each dossier
  admitting,  \* since when an admission is under way with each vehicle
  working     \* vehicles at work, with their owners

vars == <<now, accepted, driver, profile, vehicle, onboarding, explicit, material,
          cases, latest, seen, deciding, admitting, working>>
driverVars  == <<now, accepted, driver, profile>>
vehicleVars == <<vehicle, onboarding, explicit, material>>
dossierVars == <<cases, latest, seen>>
inFlight    == <<deciding, admitting>>

TypeOK ==
  /\ now \in 0..MaxTime
  /\ accepted \subseteq Driver
  /\ driver \in [Driver -> {"NONE", "PENDING", "ACTIVE"}]
  /\ profile \in [Driver -> ProfileStatus]
  /\ vehicle \in [Vehicle -> {"NONE", "ACTIVE", "INACTIVE"}]
  /\ onboarding \subseteq Vehicle
  /\ explicit \in [Vehicle -> {"ACTIVE", "INACTIVE", None}]
  /\ material \in [Vehicle -> Material]
  /\ cases \in [Case -> Dossier \cup {None}]
  /\ latest \in [Subject -> Case \cup {None}]
  /\ seen \in [Case -> Dossier \cup {None}]
  /\ deciding \in [Case -> Decision \cup {None}]
  /\ admitting \in [Vehicle -> 0..MaxTime \cup {None}]
  /\ working \subseteq Vehicle

Init ==
  /\ now = 0
  /\ accepted = {} /\ onboarding = {} /\ working = {}
  /\ driver = [d \in Driver |-> "NONE"]
  /\ profile = [d \in Driver |-> "NONE"]
  /\ vehicle = [v \in Vehicle |-> "NONE"]
  /\ explicit = [v \in Vehicle |-> None]
  /\ material \in [Vehicle -> Material]
  /\ cases = [c \in Case |-> None]
  /\ latest = [s \in Subject |-> None]
  /\ seen = [c \in Case |-> None]
  /\ deciding = [c \in Case |-> None]
  /\ admitting = [v \in Vehicle |-> None]

-----------------------------------------------------------------------------
(* Rows that are held: by a decision, those of the dossier and its subject; *)
(* by an admission, those of driver, profile and vehicle.                   *)
ProfileHeld(d) == \E v \in Vehicle : admitting[v] # None /\ OwnerOf[v] = d
Held(s) ==
  \/ \E c \in Case : deciding[c] # None /\ cases[c].subject = s
  \/ s \in Driver /\ ProfileHeld(s)
  \/ s \in Vehicle /\ admitting[s] # None

PersonOf(s) == IF s \in Driver THEN s ELSE OwnerOf[s]
Exists(s)   == IF s \in Driver THEN driver[s] # "NONE" ELSE vehicle[s] # "NONE"
FactsOf(s)  == IF s \in Driver THEN "NAME" ELSE material[s]
DataOf(s)   == Data \cap (IF s \in Driver THEN {"LICENSED", "UNLICENSED"} ELSE {"OWNED"})
TermsMet(s) == PersonOf(s) \in accepted
Passed(until, t) == until # None /\ until <= t

Tick ==
  /\ now < MaxTime
  /\ now' = now + 1
  /\ UNCHANGED <<accepted, driver, profile, vehicleVars, dossierVars, inFlight, working>>

-----------------------------------------------------------------------------
(* A driver registers itself and confirms its address.                      *)
Confirm(d) ==
  /\ driver[d] = "NONE"
  /\ driver' = [driver EXCEPT ![d] = "PENDING"]
  /\ profile' = [profile EXCEPT ![d] = "PENDING"]
  /\ UNCHANGED <<now, accepted, vehicleVars, dossierVars, inFlight, working>>

AcceptTerms(d) ==
  /\ driver[d] # "NONE"
  /\ accepted' = accepted \cup {d}
  /\ UNCHANGED <<now, driver, profile, vehicleVars, dossierVars, inFlight, working>>

(* Reinstates the profile of a driver that is ACTIVE.                       *)
Approve(d) ==
  /\ driver[d] = "ACTIVE" /\ profile[d] # "APPROVED" /\ ~ProfileHeld(d)
  /\ profile' = [profile EXCEPT ![d] = "APPROVED"]
  /\ UNCHANGED <<now, accepted, driver, vehicleVars, dossierVars, inFlight, working>>

(* Plausible fault: work is looked for before the profile is locked.        *)
CloseEarly(d, to) ==
  /\ profile[d] \notin {"NONE", to}
  /\ \A v \in working : OwnerOf[v] # d
  /\ profile' = [profile EXCEPT ![d] = to]
  /\ UNCHANGED <<now, accepted, driver, vehicleVars, dossierVars, inFlight, working>>

(* Suspension or rejection, under a lock of the profile's row alone.        *)
Close(d, to) ==
  /\ profile[d] \notin {"NONE", to} /\ ~ProfileHeld(d)
  /\ \A v \in working : OwnerOf[v] # d
  /\ profile' = [profile EXCEPT ![d] = to]
  /\ UNCHANGED <<now, accepted, driver, vehicleVars, dossierVars, inFlight, working>>

-----------------------------------------------------------------------------
(* A vehicle that its driver registers stays INACTIVE until it is approved. *)
OnboardVehicle(v) ==
  /\ vehicle[v] = "NONE" /\ driver[OwnerOf[v]] # "NONE"
  /\ TermsMet(v) /\ ~Held(OwnerOf[v])
  /\ vehicle' = [vehicle EXCEPT ![v] = "INACTIVE"]
  /\ onboarding' = onboarding \cup {v}
  /\ UNCHANGED <<driverVars, explicit, material, dossierVars, inFlight, working>>

(* One that an administrator registers for the driver.                      *)
AddVehicle(v) ==
  /\ vehicle[v] = "NONE" /\ profile[OwnerOf[v]] # "NONE" /\ ~ProfileHeld(OwnerOf[v])
  /\ vehicle' = [vehicle EXCEPT ![v] = "ACTIVE"]
  /\ UNCHANGED <<driverVars, onboarding, explicit, material, dossierVars, inFlight, working>>

(* Plausible fault: the edit waits for nobody.                              *)
MayEditUnlocked(v) == vehicle[v] # "NONE"

(* An edit locks profile and vehicle.                                       *)
MayEdit(v) == vehicle[v] # "NONE" /\ ~Held(v) /\ ~ProfileHeld(OwnerOf[v])

(* Plausible fault: only a status that changes clears the marker.           *)
ClearsMarkerIfChanged(v, to) == to \notin {None, vehicle[v]}

(* Any status that is written, the present one included, clears the marker. *)
ClearsMarker(v, to) == to # None

(* An administrator edits the status, if to # None, and the material facts. *)
UpdateVehicle(v, to, m) ==
  /\ MayEdit(v) /\ (to # None \/ m # material[v])
  /\ vehicle[v] = "ACTIVE" /\ to = "INACTIVE" => v \notin working
  /\ vehicle' = IF to = None THEN vehicle ELSE [vehicle EXCEPT ![v] = to]
  /\ explicit' = IF to = None THEN explicit ELSE [explicit EXCEPT ![v] = to]
  /\ onboarding' = IF ClearsMarker(v, to) THEN onboarding \ {v} ELSE onboarding
  /\ material' = [material EXCEPT ![v] = m]
  /\ UNCHANGED <<driverVars, dossierVars, inFlight, working>>

-----------------------------------------------------------------------------
DossiersOf(s) == { c \in Case : cases[c] # None /\ cases[c].subject = s }
Open(c) == cases[c] # None /\ cases[c].status \in {"DRAFT", "SUBMITTED"}

Blank(s) == [subject |-> s, revision |-> 1, status |-> "DRAFT", data |-> None,
             until |-> None, files |-> {}, snapshot |-> None]

OpenCase(c, s) ==
  /\ cases[c] = None /\ Exists(s) /\ ~Held(s) /\ TermsMet(s)
  /\ \A o \in DossiersOf(s) : ~Open(o)
  /\ cases' = [cases EXCEPT ![c] = Blank(s)]
  /\ UNCHANGED <<driverVars, vehicleVars, latest, seen, inFlight, working>>

(* Every change of a dossier raises its revision.                           *)
Edited(r, data, until, files) ==
  [subject |-> r.subject, revision |-> r.revision + 1, status |-> r.status, data |-> data,
   until |-> until, files |-> files, snapshot |-> r.snapshot]
Moved(r, status, snapshot) ==
  [subject |-> r.subject, revision |-> r.revision + 1, status |-> status, data |-> r.data,
   until |-> r.until, files |-> r.files, snapshot |-> snapshot]

Draft(c)    == Open(c) /\ cases[c].status = "DRAFT" /\ ~Held(cases[c].subject)
Editable(c) == Draft(c) /\ cases[c].revision < MaxRevision

(* A licence has an expiry; the use of a vehicle may have one.              *)
UpdateCase(c, data, until) ==
  /\ Editable(c) /\ TermsMet(cases[c].subject) /\ data \in DataOf(cases[c].subject)
  /\ data = "LICENSED" => until # None
  /\ data = "UNLICENSED" => until = None
  /\ cases' = [cases EXCEPT ![c] = Edited(@, data, until, @.files)]
  /\ UNCHANGED <<driverVars, vehicleVars, latest, seen, inFlight, working>>

(* The last file that a declaration requires is validated; that it was     *)
(* announced before only raised the revision once more.                     *)
CompleteUpload(c, data) ==
  /\ Editable(c) /\ TermsMet(cases[c].subject)
  /\ data \in DataOf(cases[c].subject) \ cases[c].files
  /\ cases' = [cases EXCEPT ![c] = Edited(@, @.data, @.until, @.files \cup {data})]
  /\ UNCHANGED <<driverVars, vehicleVars, latest, seen, inFlight, working>>

RemoveAttachment(c, data) ==
  /\ Editable(c) /\ data \in cases[c].files
  /\ cases' = [cases EXCEPT ![c] = Edited(@, @.data, @.until, @.files \ {data})]
  /\ UNCHANGED <<driverVars, vehicleVars, latest, seen, inFlight, working>>

Submit(c) ==
  /\ Draft(c) /\ TermsMet(cases[c].subject) /\ cases[c].data \in cases[c].files
  /\ cases' = [cases EXCEPT ![c] = Moved(@, "SUBMITTED", FactsOf(@.subject))]
  /\ UNCHANGED <<driverVars, vehicleVars, latest, seen, inFlight, working>>

(* Nothing of a withdrawn dossier is ever read again, and is dropped here.  *)
Withdraw(c) ==
  /\ Open(c) /\ ~Held(cases[c].subject)
  /\ cases' = [cases EXCEPT ![c] =
                 [Blank(cases[c].subject) EXCEPT !.status = "WITHDRAWN"]]
  /\ seen' = [seen EXCEPT ![c] = None]
  /\ UNCHANGED <<driverVars, vehicleVars, latest, inFlight, working>>

(* The reviewer reads an open dossier, be it a draft.                       *)
Read(c) ==
  /\ Open(c) /\ seen[c] # cases[c]
  /\ seen' = [seen EXCEPT ![c] = cases[c]]
  /\ UNCHANGED <<driverVars, vehicleVars, cases, latest, inFlight, working>>

-----------------------------------------------------------------------------
(* What an approval asks for, beyond the revision that was read.            *)
Approvable(dossier) ==
  /\ TermsMet(dossier.subject) /\ dossier.data \in dossier.files
  /\ dossier.snapshot = FactsOf(dossier.subject)
  /\ ~Passed(dossier.until, now)

(* Plausible fault: the expected version is not compared.                   *)
AsReadAny(c) == seen[c] # None

(* The request carries the revision that its author has read.               *)
AsRead(c) == seen[c] # None /\ seen[c].revision = cases[c].revision

(* The rows of subject and dossier are locked; the profile's, which an      *)
(* approval reads last, is not.                                             *)
BeginDecision(c, verdict) ==
  LET s == cases[c].subject
  IN  /\ Open(c) /\ cases[c].status = "SUBMITTED" /\ ~Held(s) /\ AsRead(c)
      /\ verdict = "APPROVED" => Approvable(cases[c])
      /\ deciding' = [deciding EXCEPT ![c] =
           [verdict |-> verdict,
            found |-> IF verdict = "APPROVED" /\ s \in Driver THEN profile[s] ELSE None]]
      /\ UNCHANGED <<driverVars, vehicleVars, dossierVars, admitting, working>>

(* Plausible fault: the profile is not looked at.                           *)
EnablesAnyProfile(c) ==
  deciding[c].verdict = "APPROVED" /\ cases[c].subject \in Driver /\ driver[cases[c].subject] = "PENDING"

(* The approval is of a self-registered driver that, when it was looked at, *)
(* nobody had enabled or turned down.                                       *)
Enables(c) ==
  /\ cases[c].subject \in Driver /\ driver[cases[c].subject] = "PENDING"
  /\ deciding[c].verdict = "APPROVED" /\ deciding[c].found = "PENDING"

(* Dossier, driver, profile and vehicle are written together.               *)
CommitDecision(c) ==
  LET s        == cases[c].subject
      approved == deciding[c].verdict = "APPROVED"
      starts   == approved /\ s \in onboarding /\ vehicle[s] = "INACTIVE"
  IN  /\ deciding[c] # None
      /\ cases' = [cases EXCEPT ![c] = Moved(@, deciding[c].verdict, @.snapshot)]
      /\ latest' = IF approved THEN [latest EXCEPT ![s] = c] ELSE latest
      /\ driver' = IF Enables(c) THEN [driver EXCEPT ![s] = "ACTIVE"] ELSE driver
      /\ profile' = IF Enables(c) THEN [profile EXCEPT ![s] = "APPROVED"] ELSE profile
      /\ vehicle' = IF starts THEN [vehicle EXCEPT ![s] = "ACTIVE"] ELSE vehicle
      /\ onboarding' = IF starts THEN onboarding \ {s} ELSE onboarding
      /\ deciding' = [deciding EXCEPT ![c] = None]
      /\ seen' = [seen EXCEPT ![c] = None]
      /\ UNCHANGED <<now, accepted, explicit, material, admitting, working>>

(* A conflict, the limit of 30 seconds or a crash rolls everything back.    *)
AbortDecision(c) ==
  /\ deciding[c] # None
  /\ deciding' = [deciding EXCEPT ![c] = None]
  /\ UNCHANGED <<driverVars, vehicleVars, dossierVars, admitting, working>>

-----------------------------------------------------------------------------
(* verification_eligibility of vehicle and owner at time t: the last        *)
(* approved dossier of each counts, whatever the ones before say.  The      *)
(* vehicles are motor vehicles and need a licence.                          *)
Current(s) == latest[s] # None /\ cases[latest[s]].snapshot = FactsOf(s)

Eligible(v, t) ==
  /\ Current(OwnerOf[v]) /\ Current(v)
  /\ ~Passed(cases[latest[v]].until, t)
  /\ TermsMet(v)
  /\ cases[latest[OwnerOf[v]]].data = "LICENSED" /\ ~Passed(cases[latest[OwnerOf[v]]].until, t)

(* lockEligibleResources.                                                   *)
MayWork(v) ==
  /\ vehicle[v] = "ACTIVE" /\ driver[OwnerOf[v]] = "ACTIVE" /\ profile[OwnerOf[v]] = "APPROVED"
  /\ \A w \in working : OwnerOf[w] # OwnerOf[v]

BeginAdmission(v) ==
  /\ MayWork(v) /\ ~Held(OwnerOf[v]) /\ ~Held(v) /\ Eligible(v, now)
  /\ admitting' = [admitting EXCEPT ![v] = now]
  /\ UNCHANGED <<driverVars, vehicleVars, dossierVars, deciding, working>>

CommitAdmission(v) ==
  /\ admitting[v] # None
  /\ working' = working \cup {v}
  /\ admitting' = [admitting EXCEPT ![v] = None]
  /\ UNCHANGED <<driverVars, vehicleVars, dossierVars, deciding>>

AbortAdmission(v) ==
  /\ admitting[v] # None
  /\ admitting' = [admitting EXCEPT ![v] = None]
  /\ UNCHANGED <<driverVars, vehicleVars, dossierVars, deciding, working>>

EndWork(v) ==
  /\ v \in working
  /\ working' = working \ {v}
  /\ UNCHANGED <<driverVars, vehicleVars, dossierVars, inFlight>>

OfDriver(d) ==
  \/ Confirm(d) \/ AcceptTerms(d) \/ Approve(d)
  \/ \E to \in {"SUSPENDED", "REJECTED"} : Close(d, to)

OfVehicle(v) ==
  \/ OnboardVehicle(v) \/ AddVehicle(v)
  \/ \E to \in {"ACTIVE", "INACTIVE", None}, m \in Material : UpdateVehicle(v, to, m)
  \/ BeginAdmission(v) \/ CommitAdmission(v) \/ AbortAdmission(v) \/ EndWork(v)

OfPresenter(c) ==
  \/ \E s \in Subject : OpenCase(c, s)
  \/ \E data \in Data, until \in Until \cup {None} : UpdateCase(c, data, until)
  \/ \E data \in Data : CompleteUpload(c, data) \/ RemoveAttachment(c, data)
  \/ Submit(c) \/ Withdraw(c)

OfReviewer(c) ==
  \/ Read(c)
  \/ \E verdict \in {"APPROVED", "REJECTED"} : BeginDecision(c, verdict)
  \/ CommitDecision(c) \/ AbortDecision(c)

Next ==
  \/ Tick
  \/ \E d \in Driver : OfDriver(d)
  \/ \E v \in Vehicle : OfVehicle(v)
  \/ \E c \in Case : OfPresenter(c) \/ OfReviewer(c)

Spec == Init /\ [][Next]_vars
-----------------------------------------------------------------------------
(* A sanction is lifted by an administrator who reinstates an ACTIVE driver *)
(* and by nothing else, an approval of evidence least of all; except that a *)
(* decision which found the profile PENDING, before the sanction, and       *)
(* commits after it overwrites it: the profile's row is not locked.         *)
SanctionsStand ==
  [][ \A d \in Driver :
        profile[d] \in {"SUSPENDED", "REJECTED"} /\ profile'[d] \notin {"SUSPENDED", "REJECTED"} =>
          \/ driver[d] = "ACTIVE"
          \/ \E c \in DossiersOf(d) : deciding[c] # None /\ deciding[c].found = "PENDING" ]_vars

(* Who decides has read what is decided: data, files and snapshot of a      *)
(* dossier are those of the last reading, also when it was edited and       *)
(* submitted after it.                                                      *)
ReviewedAsSeen ==
  [][ \A c \in Case :
        deciding[c] # None /\ cases'[c] # cases[c] =>
          /\ seen[c].data = cases'[c].data /\ seen[c].until = cases'[c].until
          /\ seen[c].files = cases'[c].files /\ seen[c].snapshot = cases'[c].snapshot ]_vars

(* Who starts to work is still entitled to when it is committed: no change  *)
(* of material facts, later decision, sanction or deactivation overtakes    *)
(* the admission.                                                           *)
AdmittedOnEvidence ==
  [][ \A v \in working' \ working : MayWork(v) /\ Eligible(v, admitting[v]) ]_vars

(* An approval starts what awaited it and nothing else: a driver is ACTIVE  *)
(* only with an approved identity and its profile APPROVED only when it is  *)
(* ACTIVE, and the status that an administrator gave a vehicle, were it the *)
(* one it had, stays until another is given.                                *)
StatusesAreEarned ==
  /\ \A d \in Driver :
       /\ driver[d] = "ACTIVE" => latest[d] # None
       /\ profile[d] = "APPROVED" => driver[d] = "ACTIVE"
  /\ \A v \in Vehicle : explicit[v] # None => vehicle[v] = explicit[v]

(* What was decided is history: a dossier that was approved, rejected or    *)
(* withdrawn never changes again, whatever its presenter, reviewers and the *)
(* decisions under way do.                                                  *)
DecidedStands ==
  [][ \A c \in Case : cases[c] # None /\ ~Open(c) => cases'[c] = cases[c] ]_vars

(* Nobody presents two dossiers of one subject at a time, and what counts   *)
(* as the evidence of a subject is a dossier of its own.                    *)
DossiersAreOwn ==
  /\ \A c, o \in Case : Open(c) /\ Open(o) /\ cases[c].subject = cases[o].subject => c = o
  /\ \A s \in Subject : latest[s] # None => cases[latest[s]].subject = s

(* Who is at work stays admitted to it until the work ends: no edit,        *)
(* decision or sanction takes driver, profile or vehicle out of service     *)
(* meanwhile, and nobody works with two vehicles.                           *)
WorkersStayInService ==
  \A v \in working :
    /\ vehicle[v] = "ACTIVE" /\ driver[OwnerOf[v]] = "ACTIVE" /\ profile[OwnerOf[v]] = "APPROVED"
    /\ \A w \in working : OwnerOf[w] = OwnerOf[v] => w = v
=============================================================================
