---------------------- MODULE DriverVerificationProofs ----------------------
(***************************************************************************)
(* The properties of DriverVerification, for any number of drivers,        *)
(* vehicles and dossiers, any editing and any times.                       *)
(*                                                                         *)
(* The invariant has two arguments in it.  Versions: a dossier whose       *)
(* revision is the one that was read is the dossier that was read.  Locks: *)
(* no decision is under way on the driver or the vehicle of an admission,  *)
(* so that what the admission found stays true until it is committed.      *)
(***************************************************************************)
EXTENDS DriverVerification, TLAPS

USE VerificationAssumption

(* A driver and its profile are registered together.                        *)
Registered == \A d \in Driver : driver[d] = "NONE" => profile[d] = "NONE"

(* A vehicle whose status was set has no marker any more.                   *)
MarkersAreInitial == \A v \in Vehicle : explicit[v] # None => v \notin onboarding

(* Revisions identify what was read.                                        *)
ReadingsAreTrue ==
  \A c \in Case : seen[c] # None =>
    /\ cases[c] # None
    /\ seen[c].revision <= cases[c].revision
    /\ seen[c].revision = cases[c].revision => seen[c] = cases[c]

(* What is being decided is as it was read.                                 *)
DecisionsAreOfRead ==
  \A c \in Case : deciding[c] # None =>
    cases[c] # None /\ cases[c].status = "SUBMITTED" /\ seen[c] = cases[c]

(* Evidence is never reopened.                                              *)
EvidenceIsApproved ==
  \A s \in Subject : latest[s] # None =>
    cases[latest[s]] # None /\ cases[latest[s]].status = "APPROVED"

(* Decisions and admissions exclude each other, and so do admissions.       *)
LocksExclude ==
  /\ \A c \in Case, v \in Vehicle :
       deciding[c] # None /\ admitting[v] # None => cases[c].subject \notin {v, OwnerOf[v]}
  /\ \A v, w \in Vehicle :
       admitting[v] # None /\ admitting[w] # None /\ OwnerOf[v] = OwnerOf[w] => v = w

(* Who is being admitted is entitled to work.                               *)
AdmissionsHold ==
  \A v \in Vehicle : admitting[v] # None => MayWork(v) /\ Eligible(v, admitting[v])

VerificationInvariant ==
  /\ TypeOK
  /\ StatusesAreEarned
  /\ Registered
  /\ MarkersAreInitial
  /\ ReadingsAreTrue
  /\ DecisionsAreOfRead
  /\ EvidenceIsApproved
  /\ LocksExclude
  /\ AdmissionsHold

-----------------------------------------------------------------------------
(* What is kept of a subject is among the facts of a dossier.               *)
LEMMA FactsAreKept ==
  ASSUME TypeOK
  PROVE  \A s \in Subject : FactsOf(s) \in Material \cup {"NAME", None}
  BY DEF TypeOK, FactsOf, Subject

(* What a dossier is made of.                                               *)
LEMMA DossierParts ==
  ASSUME TypeOK, NEW c \in Case, cases[c] # None
  PROVE  /\ cases[c] \in Dossier /\ cases[c].subject \in Subject /\ cases[c].revision \in Nat
         /\ cases[c].data \in Data \cup {None} /\ cases[c].until \in Until \cup {None}
         /\ cases[c].files \in SUBSET Data /\ cases[c].snapshot \in Material \cup {"NAME", None}
  BY DEF TypeOK, Dossier

(* An edited dossier is a dossier, one revision later.                      *)
LEMMA EditedDossier ==
  ASSUME TypeOK, NEW c \in Case, cases[c] # None, NEW data \in Data \cup {None},
         NEW until \in Until \cup {None}, NEW files \in SUBSET Data
  PROVE  LET r == Edited(cases[c], data, until, files)
         IN  r \in Dossier /\ r # None /\ r.revision = cases[c].revision + 1
<1> DEFINE r == Edited(cases[c], data, until, files)
<1>1. r \in Dossier /\ r.revision = cases[c].revision + 1
  BY DossierParts DEF Edited, Dossier
<1> QED
  BY <1>1

(* So is one that moves to another status.                                  *)
LEMMA MovedDossier ==
  ASSUME TypeOK, NEW c \in Case, cases[c] # None,
         NEW status \in {"DRAFT", "SUBMITTED", "APPROVED", "REJECTED", "WITHDRAWN"},
         NEW snapshot \in Material \cup {"NAME", None},
         NEW r, r = Moved(cases[c], status, snapshot)
  PROVE  r \in Dossier /\ r # None /\ r.revision = cases[c].revision + 1 /\ r.status = status
<1>1. r \in Dossier /\ r.revision = cases[c].revision + 1 /\ r.status = status
  BY DossierParts DEF Moved, Dossier
<1> QED
  BY <1>1

-----------------------------------------------------------------------------
(* The variables keep their types.                                          *)
LEMMA TypesStay == TypeOK /\ DecisionsAreOfRead /\ [Next]_vars => TypeOK'
<1> SUFFICES ASSUME TypeOK, DecisionsAreOfRead, [Next]_vars PROVE TypeOK'
  OBVIOUS
<1> USE DEF TypeOK, Subject, ProfileStatus, driverVars, vehicleVars, dossierVars, inFlight
<1>a. \A s \in Subject : FactsOf(s) \in Material \cup {"NAME", None}
  BY FactsAreKept
<1>b. \A c \in Case : cases[c] # None =>
        /\ cases[c] \in Dossier /\ cases[c].subject \in Subject /\ cases[c].revision \in Nat
        /\ cases[c].files \subseteq Data
  BY DEF Dossier
<1>c. \A s \in Subject : Blank(s) \in Dossier /\ [Blank(s) EXCEPT !.status = "WITHDRAWN"] \in Dossier
  BY DEF Blank, Dossier
<1>d. Dossier \subseteq Dossier \cup {None}
  OBVIOUS
<1>1. CASE Tick
  BY <1>1 DEF Tick
<1>2. ASSUME NEW d \in Driver, Confirm(d) PROVE TypeOK'
  BY <1>2 DEF Confirm
<1>3. ASSUME NEW d \in Driver, AcceptTerms(d) PROVE TypeOK'
  BY <1>3 DEF AcceptTerms
<1>4. ASSUME NEW d \in Driver, Approve(d) PROVE TypeOK'
  BY <1>4 DEF Approve
<1>5. ASSUME NEW d \in Driver, NEW to \in {"SUSPENDED", "REJECTED"}, Close(d, to) PROVE TypeOK'
  BY <1>5 DEF Close
<1>6. ASSUME NEW v \in Vehicle, OnboardVehicle(v) PROVE TypeOK'
  BY <1>6 DEF OnboardVehicle
<1>7. ASSUME NEW v \in Vehicle, AddVehicle(v) PROVE TypeOK'
  BY <1>7 DEF AddVehicle
<1>8. ASSUME NEW v \in Vehicle, NEW to \in {"ACTIVE", "INACTIVE", None}, NEW m \in Material,
             UpdateVehicle(v, to, m)
      PROVE  TypeOK'
  BY <1>8 DEF UpdateVehicle
<1>9. ASSUME NEW v \in Vehicle, BeginAdmission(v) PROVE TypeOK'
  BY <1>9 DEF BeginAdmission
<1>10. ASSUME NEW v \in Vehicle, CommitAdmission(v) PROVE TypeOK'
  BY <1>10 DEF CommitAdmission
<1>11. ASSUME NEW v \in Vehicle, AbortAdmission(v) PROVE TypeOK'
  BY <1>11 DEF AbortAdmission
<1>12. ASSUME NEW v \in Vehicle, EndWork(v) PROVE TypeOK'
  BY <1>12 DEF EndWork
<1>13. ASSUME NEW c \in Case, NEW s \in Subject, OpenCase(c, s) PROVE TypeOK'
  BY <1>13, <1>c DEF OpenCase
<1>14. ASSUME NEW c \in Case, NEW r \in Dossier, cases' = [cases EXCEPT ![c] = r],
              UNCHANGED <<driverVars, vehicleVars, latest, seen, inFlight, working>>
       PROVE  TypeOK'
  BY <1>14
<1>15. ASSUME NEW c \in Case, NEW data \in Data, NEW until \in Until \cup {None},
              UpdateCase(c, data, until)
       PROVE  TypeOK'
  <2>1. cases[c] # None
    BY <1>15 DEF UpdateCase, Editable, Draft, Open
  <2>2. Edited(cases[c], data, until, cases[c].files) \in Dossier
    BY <2>1, DossierParts, EditedDossier
  <2> QED
    BY <1>14, <1>15, <2>2 DEF UpdateCase
<1>16. ASSUME NEW c \in Case, NEW data \in Data,
              CompleteUpload(c, data) \/ RemoveAttachment(c, data)
       PROVE  TypeOK'
  <2>1. cases[c] # None
    BY <1>16 DEF CompleteUpload, RemoveAttachment, Editable, Draft, Open
  <2>2. PICK files \in SUBSET Data :
          cases' = [cases EXCEPT ![c] = Edited(cases[c], cases[c].data, cases[c].until, files)]
    <3>1. cases[c].files \cup {data} \in SUBSET Data /\ cases[c].files \ {data} \in SUBSET Data
      BY <2>1, DossierParts
    <3> QED
      BY <1>16, <3>1 DEF CompleteUpload, RemoveAttachment
  <2>3. Edited(cases[c], cases[c].data, cases[c].until, files) \in Dossier
    BY <2>1, DossierParts, EditedDossier
  <2> QED
    BY <1>14, <1>16, <2>2, <2>3 DEF CompleteUpload, RemoveAttachment
<1>17. ASSUME NEW c \in Case, Submit(c) PROVE TypeOK'
  <2>1. cases[c] # None
    BY <1>17 DEF Submit, Draft, Open
  <2>2. FactsOf(cases[c].subject) \in Material \cup {"NAME", None}
    BY <1>a, <2>1, DossierParts
  <2>3. Moved(cases[c], "SUBMITTED", FactsOf(cases[c].subject)) \in Dossier
    BY <2>1, <2>2, MovedDossier
  <2> QED
    BY <1>14, <1>17, <2>3 DEF Submit
<1>18. ASSUME NEW c \in Case, Withdraw(c) PROVE TypeOK'
  <2>1. cases[c] # None
    BY <1>18 DEF Withdraw, Open
  <2> QED
    BY <1>18, <1>b, <1>c, <2>1 DEF Withdraw
<1>19. ASSUME NEW c \in Case, Read(c) PROVE TypeOK'
  BY <1>19 DEF Read
<1>20. ASSUME NEW c \in Case, NEW verdict \in {"APPROVED", "REJECTED"}, BeginDecision(c, verdict)
       PROVE  TypeOK'
  <2>1. [verdict |-> verdict,
         found |-> IF verdict = "APPROVED" /\ cases[c].subject \in Driver
                   THEN profile[cases[c].subject] ELSE None] \in Decision
    BY DEF Decision
  <2> QED
    BY <1>20, <2>1 DEF BeginDecision
<1>21. ASSUME NEW c \in Case, CommitDecision(c) PROVE TypeOK'
  <2>1. deciding[c] \in Decision /\ cases[c] # None
    BY <1>21 DEF CommitDecision, DecisionsAreOfRead
  <2>0. deciding[c].verdict \in {"APPROVED", "REJECTED"}
    BY <2>1 DEF Decision
  <2>2. Moved(cases[c], deciding[c].verdict, cases[c].snapshot) \in Dossier
    BY <2>0, <2>1, DossierParts, MovedDossier
  <2>3. cases' \in [Case -> Dossier \cup {None}] /\ latest' \in [Subject -> Case \cup {None}]
    BY <1>21, <1>b, <2>1, <2>2 DEF CommitDecision
  <2>4. vehicle' \in [Vehicle -> {"NONE", "ACTIVE", "INACTIVE"}] /\ onboarding' \subseteq Vehicle
    BY <1>21 DEF CommitDecision
  <2>5. /\ driver' \in [Driver -> {"NONE", "PENDING", "ACTIVE"}]
        /\ profile' \in [Driver -> ProfileStatus]
    BY <1>21 DEF CommitDecision, Enables
  <2> QED
    BY <1>21, <2>3, <2>4, <2>5 DEF CommitDecision
<1>22. ASSUME NEW c \in Case, AbortDecision(c) PROVE TypeOK'
  BY <1>22 DEF AbortDecision
<1>23. CASE UNCHANGED vars
  BY <1>23 DEF vars
<1>24. ASSUME NEW d \in Driver, OfDriver(d) PROVE TypeOK'
  BY <1>2, <1>3, <1>4, <1>5, <1>24 DEF OfDriver
<1>25. ASSUME NEW v \in Vehicle, OfVehicle(v) PROVE TypeOK'
  BY <1>6, <1>7, <1>8, <1>9, <1>10, <1>11, <1>12, <1>25 DEF OfVehicle
<1>26. ASSUME NEW c \in Case, OfPresenter(c) PROVE TypeOK'
  BY <1>13, <1>15, <1>16, <1>17, <1>18, <1>26 DEF OfPresenter
<1>27. ASSUME NEW c \in Case, OfReviewer(c) PROVE TypeOK'
  BY <1>19, <1>20, <1>21, <1>22, <1>27 DEF OfReviewer
<1> QED
  BY <1>1, <1>23, <1>24, <1>25, <1>26, <1>27 DEF Next

-----------------------------------------------------------------------------
(* Statuses change only as approvals, sanctions and edits may change them.  *)
LEMMA StatusesStay ==
  TypeOK /\ StatusesAreEarned /\ Registered /\ MarkersAreInitial /\ DecisionsAreOfRead
    /\ [Next]_vars
  => StatusesAreEarned' /\ Registered' /\ MarkersAreInitial'
<1> DEFINE Good == StatusesAreEarned /\ Registered /\ MarkersAreInitial
<1> SUFFICES ASSUME TypeOK, Good, DecisionsAreOfRead, [Next]_vars PROVE Good'
  OBVIOUS
<1> USE DEF TypeOK, Subject, ProfileStatus, StatusesAreEarned, Registered, MarkersAreInitial
<1>0. ASSUME UNCHANGED <<driver, profile, latest, vehicle, explicit, onboarding>> PROVE Good'
  BY <1>0
<1>1. ASSUME NEW d \in Driver, OfDriver(d) PROVE Good'
  <2>1. CASE Confirm(d)
    BY <2>1 DEF Confirm, vehicleVars, dossierVars
  <2>2. CASE AcceptTerms(d)
    BY <2>2, <1>0 DEF AcceptTerms, vehicleVars, dossierVars
  <2>3. CASE Approve(d)
    BY <2>3 DEF Approve, vehicleVars, dossierVars
  <2>4. ASSUME NEW to \in {"SUSPENDED", "REJECTED"}, Close(d, to) PROVE Good'
    BY <2>4 DEF Close, vehicleVars, dossierVars
  <2> QED
    BY <1>1, <2>1, <2>2, <2>3, <2>4 DEF OfDriver
<1>2. ASSUME NEW v \in Vehicle, OfVehicle(v) PROVE Good'
  <2>1. CASE OnboardVehicle(v)
    BY <2>1 DEF OnboardVehicle, driverVars, dossierVars
  <2>2. CASE AddVehicle(v)
    BY <2>2 DEF AddVehicle, driverVars, dossierVars
  <2>3. ASSUME NEW to \in {"ACTIVE", "INACTIVE", None}, NEW m \in Material, UpdateVehicle(v, to, m)
        PROVE  Good'
    BY <2>3 DEF UpdateVehicle, ClearsMarker, driverVars, dossierVars
  <2>4. CASE BeginAdmission(v) \/ CommitAdmission(v) \/ AbortAdmission(v) \/ EndWork(v)
    BY <2>4, <1>0 DEF BeginAdmission, CommitAdmission, AbortAdmission, EndWork, driverVars,
                      vehicleVars, dossierVars
  <2> QED
    BY <1>2, <2>1, <2>2, <2>3, <2>4 DEF OfVehicle
<1>3. ASSUME NEW c \in Case, OfPresenter(c) PROVE Good'
  BY <1>0, <1>3 DEF OfPresenter, OpenCase, UpdateCase, CompleteUpload, RemoveAttachment, Submit,
                    Withdraw, driverVars, vehicleVars
<1>4. ASSUME NEW c \in Case, OfReviewer(c) PROVE Good'
  <2>1. CASE Read(c)
    BY <2>1, <1>0 DEF Read, driverVars, vehicleVars
  <2>2. ASSUME NEW verdict \in {"APPROVED", "REJECTED"}, BeginDecision(c, verdict) PROVE Good'
    BY <2>2, <1>0 DEF BeginDecision, driverVars, vehicleVars, dossierVars
  <2>3. CASE CommitDecision(c)
    <3> DEFINE s == cases[c].subject
    <3>1. s \in Subject
      BY <2>3 DEF CommitDecision, DecisionsAreOfRead, Dossier
    <3>2. \A d \in Driver :
            /\ driver'[d] = "ACTIVE" => latest'[d] # None
            /\ profile'[d] = "APPROVED" => driver'[d] = "ACTIVE"
            /\ driver'[d] = "NONE" => profile'[d] = "NONE"
      BY <2>3, <3>1 DEF CommitDecision, Enables
    <3>3. \A v \in Vehicle : explicit'[v] # None => vehicle'[v] = explicit'[v] /\ v \notin onboarding'
      BY <2>3, <3>1 DEF CommitDecision
    <3> QED
      BY <3>2, <3>3
  <2>4. CASE AbortDecision(c)
    BY <2>4, <1>0 DEF AbortDecision, driverVars, vehicleVars, dossierVars
  <2> QED
    BY <1>4, <2>1, <2>2, <2>3, <2>4 DEF OfReviewer
<1>5. CASE Tick
  BY <1>5, <1>0 DEF Tick, vehicleVars, dossierVars
<1>6. CASE UNCHANGED vars
  BY <1>6, <1>0 DEF vars
<1> QED
  BY <1>1, <1>2, <1>3, <1>4, <1>5, <1>6 DEF Next

-----------------------------------------------------------------------------
(* A dossier under decision stays as it was read, one that is approved      *)
(* stays for ever, and any other change raises the revision.                *)
LEMMA DossiersStay ==
  TypeOK /\ ReadingsAreTrue /\ DecisionsAreOfRead /\ EvidenceIsApproved /\ [Next]_vars
  => ReadingsAreTrue' /\ DecisionsAreOfRead' /\ EvidenceIsApproved'
<1> DEFINE Good == ReadingsAreTrue /\ DecisionsAreOfRead /\ EvidenceIsApproved
<1> SUFFICES ASSUME TypeOK, Good, [Next]_vars PROVE Good'
  OBVIOUS
<1> USE DEF TypeOK, Subject, ReadingsAreTrue, DecisionsAreOfRead, EvidenceIsApproved
<1>a. \A c \in Case : /\ cases[c] # None => cases[c].revision \in Nat /\ cases[c].subject \in Subject
                      /\ seen[c] # None => seen[c].revision \in Nat
  BY DEF Dossier
<1>0. ASSUME UNCHANGED <<dossierVars, deciding>> PROVE Good'
  BY <1>0 DEF dossierVars
<1>b. ASSUME NEW c \in Case, UNCHANGED <<latest, seen, deciding>>, deciding[c] = None,
             NEW r, cases' = [cases EXCEPT ![c] = r], r # None,
             cases[c] # None => cases[c].status # "APPROVED" /\ r.revision = cases[c].revision + 1
      PROVE  Good'
  <2>1. \A o \in Case : o # c => cases'[o] = cases[o]
    BY <1>b
  <2>2. cases'[c] = r
    BY <1>b
  <2>3. ReadingsAreTrue'
    BY <1>a, <1>b, <2>1, <2>2
  <2>4. DecisionsAreOfRead' /\ EvidenceIsApproved'
    BY <1>b, <2>1, <2>2
  <2> QED
    BY <2>3, <2>4
<1>c. \A c \in Case : cases[c] # None /\ ~Held(cases[c].subject) => deciding[c] = None
  BY DEF Held
<1>d. ASSUME NEW c \in Case, NEW r, cases' = [cases EXCEPT ![c] = r],
             seen' = [seen EXCEPT ![c] = None], UNCHANGED <<latest, deciding>>,
             cases[c].status # "APPROVED", deciding[c] = None
      PROVE  Good'
  <2>1. \A o \in Case : o # c => cases'[o] = cases[o] /\ seen'[o] = seen[o]
    BY <1>d
  <2>2. seen'[c] = None /\ deciding'[c] = None
    BY <1>d
  <2>3. ReadingsAreTrue'
    BY <2>1, <2>2
  <2>4. DecisionsAreOfRead'
    BY <1>d, <2>1, <2>2
  <2>5. ASSUME NEW s \in Subject, latest'[s] # None
        PROVE  cases'[latest'[s]] # None /\ cases'[latest'[s]].status = "APPROVED"
    <3>1. latest[s] \in Case /\ latest[s] # c /\ latest'[s] = latest[s]
      BY <1>d, <2>5
    <3> QED
      BY <2>1, <2>5, <3>1
  <2> QED
    BY <2>3, <2>4, <2>5
<1>e. ASSUME NEW c \in Case, NEW r, r # None, cases' = [cases EXCEPT ![c] = r],
             seen' = [seen EXCEPT ![c] = None], deciding' = [deciding EXCEPT ![c] = None],
             cases[c].status # "APPROVED",
             \A s \in Subject : latest'[s] = latest[s] \/ (latest'[s] = c /\ r.status = "APPROVED")
      PROVE  Good'
  <2>1. \A o \in Case : o # c =>
          cases'[o] = cases[o] /\ seen'[o] = seen[o] /\ deciding'[o] = deciding[o]
    BY <1>e
  <2>2. cases'[c] = r /\ seen'[c] = None /\ deciding'[c] = None
    BY <1>e
  <2>3. ReadingsAreTrue'
    BY <2>1, <2>2
  <2>4. DecisionsAreOfRead'
    BY <2>1, <2>2
  <2>5. ASSUME NEW s \in Subject, latest'[s] # None
        PROVE  cases'[latest'[s]] # None /\ cases'[latest'[s]].status = "APPROVED"
    <3>1. CASE (latest'[s] = c /\ r.status = "APPROVED")
      BY <1>e, <2>2, <3>1
    <3>2. CASE latest'[s] = latest[s]
      <4>1. latest[s] \in Case /\ latest[s] # c
        BY <1>e, <2>5, <3>2
      <4> QED
        BY <2>1, <2>5, <3>2, <4>1
    <3> QED
      BY <1>e, <3>1, <3>2
  <2> QED
    BY <2>3, <2>4, <2>5
<1>1. ASSUME NEW c \in Case, OfPresenter(c) PROVE Good'
  <2>1. ASSUME NEW s \in Subject, OpenCase(c, s) PROVE Good'
    <3>1. Blank(s) # None
      BY DEF Blank, Dossier
    <3> QED
      BY <2>1, <3>1, <1>b DEF OpenCase, inFlight
  <2>2. ASSUME NEW data \in Data, NEW until \in Until \cup {None},
               UpdateCase(c, data, until) PROVE Good'
    <3>1. cases[c] # None /\ cases[c].status = "DRAFT" /\ deciding[c] = None
      BY <2>2, <1>c DEF UpdateCase, Editable, Draft, Open
    <3>2. PICK r : r = Edited(cases[c], data, until, cases[c].files)
      OBVIOUS
    <3>3. r # None /\ r.revision = cases[c].revision + 1
      BY <3>1, <3>2, DossierParts, EditedDossier
    <3>4. cases' = [cases EXCEPT ![c] = r] /\ UNCHANGED <<latest, seen, deciding>>
      BY <2>2, <3>2 DEF UpdateCase, inFlight
    <3> QED
      BY <3>1, <3>3, <3>4, <1>b
  <2>3. ASSUME NEW data \in Data, CompleteUpload(c, data) \/ RemoveAttachment(c, data) PROVE Good'
    <3>1. cases[c] # None /\ cases[c].status = "DRAFT" /\ deciding[c] = None
      BY <2>3, <1>c DEF CompleteUpload, RemoveAttachment, Editable, Draft, Open
    <3>2. cases[c].files \cup {data} \in SUBSET Data /\ cases[c].files \ {data} \in SUBSET Data
      BY <3>1, DossierParts
    <3>3. PICK files \in SUBSET Data :
            cases' = [cases EXCEPT ![c] = Edited(cases[c], cases[c].data, cases[c].until, files)]
      BY <2>3, <3>2 DEF CompleteUpload, RemoveAttachment
    <3>4. PICK r : r = Edited(cases[c], cases[c].data, cases[c].until, files)
      OBVIOUS
    <3>5. r # None /\ r.revision = cases[c].revision + 1
      <4>1. cases[c] \in Dossier /\ cases[c].data \in Data \cup {None}
            /\ cases[c].until \in Until \cup {None}
        BY <3>1, DossierParts
      <4>2. Edited(cases[c], cases[c].data, cases[c].until, files) \in Dossier
        BY <3>1, <3>3, <4>1, EditedDossier
      <4>3. r # None
        BY <3>4, <4>2
      <4>4. r.revision = cases[c].revision + 1
        BY <3>4, <4>1 DEF Edited
      <4> QED
        BY <4>3, <4>4
    <3>6. cases' = [cases EXCEPT ![c] = r] /\ UNCHANGED <<latest, seen, deciding>>
      BY <2>3, <3>3, <3>4 DEF CompleteUpload, RemoveAttachment, inFlight
    <3> QED
      BY <3>1, <3>5, <3>6, <1>b
  <2>5. CASE Submit(c)
    <3>1. cases[c] # None /\ cases[c].status = "DRAFT" /\ deciding[c] = None
      BY <2>5, <1>c DEF Submit, Draft, Open
    <3>2. PICK facts \in Material \cup {"NAME", None} : facts = FactsOf(cases[c].subject)
      BY <3>1, DossierParts, FactsAreKept
    <3>3. PICK r : r = Moved(cases[c], "SUBMITTED", facts)
      OBVIOUS
    <3>4. r # None /\ r.revision = cases[c].revision + 1
      BY <3>1, <3>3, MovedDossier
    <3>5. cases' = [cases EXCEPT ![c] = r] /\ UNCHANGED <<latest, seen, deciding>>
      BY <2>5, <3>2, <3>3 DEF Submit, inFlight
    <3> QED
      BY <3>1, <3>4, <3>5, <1>b
  <2>6. CASE Withdraw(c)
    <3>1. cases[c] # None /\ cases[c].status # "APPROVED" /\ deciding[c] = None
      BY <2>6, <1>c DEF Withdraw, Open
    <3>2. PICK r : cases' = [cases EXCEPT ![c] = r]
      BY <2>6 DEF Withdraw
    <3>3. seen' = [seen EXCEPT ![c] = None] /\ UNCHANGED <<latest, deciding>>
      BY <2>6 DEF Withdraw, inFlight
    <3> QED
      BY <3>1, <3>2, <3>3, <1>d
  <2> QED
    BY <1>1, <2>1, <2>2, <2>3, <2>5, <2>6 DEF OfPresenter
<1>2. ASSUME NEW c \in Case, OfReviewer(c) PROVE Good'
  <2>1. CASE Read(c)
    <3>1. deciding[c] # None => seen[c] = cases[c]
      OBVIOUS
    <3>2. cases[c] # None /\ seen' = [seen EXCEPT ![c] = cases[c]]
      BY <2>1 DEF Read, Open
    <3>3. UNCHANGED <<cases, latest, deciding>>
      BY <2>1 DEF Read, inFlight
    <3> QED
      BY <1>a, <3>1, <3>2, <3>3
  <2>2. ASSUME NEW verdict \in {"APPROVED", "REJECTED"}, BeginDecision(c, verdict) PROVE Good'
    <3>1. cases[c] # None /\ cases[c].status = "SUBMITTED" /\ seen[c] = cases[c]
      BY <2>2 DEF BeginDecision, Open, AsRead
    <3>2. UNCHANGED <<cases, latest, seen>> /\ \A o \in Case \ {c} : deciding'[o] = deciding[o]
      BY <2>2 DEF BeginDecision, dossierVars
    <3> QED
      BY <3>1, <3>2
  <2>3. CASE CommitDecision(c)
    <3>1. /\ cases[c] # None /\ cases[c].status = "SUBMITTED" /\ deciding[c] \in Decision
          /\ cases[c].subject \in Subject
      BY <2>3, <1>a DEF CommitDecision
    <3>2. PICK verdict \in {"APPROVED", "REJECTED"} : verdict = deciding[c].verdict
      BY <3>1 DEF Decision
    <3>3. PICK r : r = Moved(cases[c], verdict, cases[c].snapshot)
      OBVIOUS
    <3>4. r # None /\ r.status = verdict
      BY <3>1, <3>3, DossierParts, MovedDossier
    <3>5. /\ cases' = [cases EXCEPT ![c] = r] /\ seen' = [seen EXCEPT ![c] = None]
          /\ deciding' = [deciding EXCEPT ![c] = None]
      BY <2>3, <3>2, <3>3 DEF CommitDecision
    <3>6. PICK s \in Subject :
            latest' = IF verdict = "APPROVED" THEN [latest EXCEPT ![s] = c] ELSE latest
      BY <2>3, <3>1, <3>2 DEF CommitDecision
    <3>7. \A t \in Subject : latest'[t] = latest[t] \/ (latest'[t] = c /\ r.status = "APPROVED")
      <4>1. CASE verdict = "APPROVED"
        <5>1. latest' = [latest EXCEPT ![s] = c] /\ latest \in [Subject -> Case \cup {None}]
          BY <3>6, <4>1
        <5>2. \A t \in Subject : latest'[t] = latest[t] \/ latest'[t] = c
          BY <5>1
        <5> QED
          BY <3>4, <4>1, <5>2
      <4>2. CASE latest' = latest
        BY <4>2
      <4> QED
        BY <3>6, <4>1, <4>2
    <3> QED
      BY <3>1, <3>4, <3>5, <3>7, <1>e
  <2>4. CASE AbortDecision(c)
    BY <2>4 DEF AbortDecision, dossierVars
  <2> QED
    BY <1>2, <2>1, <2>2, <2>3, <2>4 DEF OfReviewer
<1>3. ASSUME NEW d \in Driver, OfDriver(d) PROVE Good'
  BY <1>0, <1>3 DEF OfDriver, Confirm, AcceptTerms, Approve, Close, inFlight
<1>4. ASSUME NEW v \in Vehicle, OfVehicle(v) PROVE Good'
  BY <1>0, <1>4 DEF OfVehicle, OnboardVehicle, AddVehicle, UpdateVehicle, BeginAdmission,
                    CommitAdmission, AbortAdmission, EndWork, inFlight
<1>5. CASE Tick
  BY <1>5, <1>0 DEF Tick, inFlight
<1>6. CASE UNCHANGED vars
  BY <1>6, <1>0 DEF vars, dossierVars
<1> QED
  BY <1>1, <1>2, <1>3, <1>4, <1>5, <1>6 DEF Next

-----------------------------------------------------------------------------
(* What an admission has found stays true until it ends: whoever changes    *)
(* something of it waits for a row that the admission holds.                *)
LEMMA AdmissionsStay ==
  TypeOK /\ DecisionsAreOfRead /\ EvidenceIsApproved /\ LocksExclude /\ AdmissionsHold /\ [Next]_vars
  => LocksExclude' /\ AdmissionsHold'
<1> DEFINE Good == LocksExclude /\ AdmissionsHold
<1> SUFFICES ASSUME TypeOK, DecisionsAreOfRead, EvidenceIsApproved, Good, [Next]_vars PROVE Good'
  OBVIOUS
<1> DEFINE
      Same(v) ==
        /\ vehicle'[v] = vehicle[v] /\ material'[v] = material[v]
        /\ driver'[OwnerOf[v]] = driver[OwnerOf[v]] /\ profile'[OwnerOf[v]] = profile[OwnerOf[v]]
        /\ OwnerOf[v] \in accepted => OwnerOf[v] \in accepted'
        /\ \A s \in {v, OwnerOf[v]} :
             latest'[s] = latest[s] /\ cases'[latest[s]] = cases[latest[s]]
        /\ \A w \in working' : OwnerOf[w] # OwnerOf[v] \/ w \in working
<1>a. ASSUME NEW v \in Vehicle, NEW t, MayWork(v), Eligible(v, t), Same(v)
      PROVE  MayWork(v)' /\ Eligible(v, t)'
  <2>1. OwnerOf[v] \in Driver /\ v \notin Driver
    BY DEF VerificationAssumption
  <2>2. MayWork(v)'
    BY <1>a, <2>1 DEF MayWork
  <2>3. Eligible(v, t)'
    BY <1>a, <2>1 DEF Eligible, Current, FactsOf, TermsMet, PersonOf
  <2> QED
    BY <2>2, <2>3
<1>b. ASSUME UNCHANGED admitting, \A v \in Vehicle : admitting[v] # None => Same(v)
      PROVE  AdmissionsHold'
  <2> SUFFICES ASSUME NEW v \in Vehicle, admitting'[v] # None
               PROVE  (MayWork(v) /\ Eligible(v, admitting[v]))'
    BY DEF AdmissionsHold
  <2>1. PICK t : t = admitting[v]
    OBVIOUS
  <2>2. MayWork(v) /\ Eligible(v, t) /\ Same(v) /\ admitting'[v] = t
    BY <1>b, <2>1 DEF AdmissionsHold
  <2>3. MayWork(v)' /\ Eligible(v, t)'
    BY <1>a, <2>2
  <2> QED
    BY <2>2, <2>3 DEF Eligible
<1>c. LocksExclude /\ AdmissionsHold /\ \A v \in Vehicle : OwnerOf[v] \in Driver /\ v \notin Driver
  BY DEF VerificationAssumption
<1>d. \A v \in Vehicle : admitting[v] # None =>
        /\ vehicle[v] = "ACTIVE" /\ driver[OwnerOf[v]] = "ACTIVE" /\ profile[OwnerOf[v]] = "APPROVED"
        /\ \A s \in {v, OwnerOf[v]} :
             /\ s \in Subject /\ Held(s) /\ latest[s] \in Case
             /\ cases[latest[s]] # None /\ cases[latest[s]].status = "APPROVED"
  BY <1>c DEF AdmissionsHold, MayWork, Eligible, Current, EvidenceIsApproved, Held, ProfileHeld,
             Subject, TypeOK
<1>0. ASSUME UNCHANGED <<vehicle, material, driver, profile, accepted, latest, cases, working,
                         deciding, admitting>>
      PROVE  Good'
  BY <1>0, <1>b DEF LocksExclude
<1>1. ASSUME NEW d \in Driver, OfDriver(d) PROVE Good'
  <2>1. UNCHANGED <<vehicle, material, latest, cases, working, deciding, admitting>>
    BY <1>1 DEF OfDriver, Confirm, AcceptTerms, Approve, Close, vehicleVars, dossierVars, inFlight
  <2>2. LocksExclude'
    BY <2>1, <1>c DEF LocksExclude
  <2>3. CASE AcceptTerms(d)
    BY <2>1, <2>2, <2>3, <1>b DEF AcceptTerms
  <2>4. CASE Confirm(d)
    <3>1. \A v \in Vehicle : admitting[v] # None => OwnerOf[v] # d
      BY <2>4, <1>d DEF Confirm
    <3> QED
      BY <2>1, <2>2, <2>4, <3>1, <1>b, <1>c DEF Confirm
  <2>5. ASSUME NEW to \in {"SUSPENDED", "REJECTED"}, Approve(d) \/ Close(d, to) PROVE Good'
    <3>1. \A v \in Vehicle : admitting[v] # None => OwnerOf[v] # d
      BY <2>5 DEF Approve, Close, ProfileHeld
    <3>2. UNCHANGED <<accepted, driver>> /\ \A e \in Driver : e # d => profile'[e] = profile[e]
      BY <2>5 DEF Approve, Close, TypeOK
    <3> QED
      BY <2>1, <2>2, <3>1, <3>2, <1>b, <1>c
  <2> QED
    BY <1>1, <2>3, <2>4, <2>5 DEF OfDriver
<1>2. ASSUME NEW v \in Vehicle, OfVehicle(v) PROVE Good'
  <2>0. UNCHANGED <<driver, profile, accepted, latest, cases, deciding>>
    BY <1>2 DEF OfVehicle, OnboardVehicle, AddVehicle, UpdateVehicle, BeginAdmission,
               CommitAdmission, AbortAdmission, EndWork, driverVars, dossierVars, inFlight
  <2>1. ASSUME UNCHANGED <<working, admitting>>, admitting[v] = None,
               \A w \in Vehicle \ {v} : vehicle'[w] = vehicle[w] /\ material'[w] = material[w]
        PROVE  Good'
    <3>1. \A w \in Vehicle : admitting[w] # None => w # v
      BY <2>1
    <3>2. LocksExclude'
      BY <2>0, <2>1, <1>c DEF LocksExclude
    <3> QED
      BY <2>0, <2>1, <3>1, <3>2, <1>b
  <2>2. CASE OnboardVehicle(v) \/ AddVehicle(v)
    <3>1. admitting[v] = None
      BY <2>2, <1>d DEF OnboardVehicle, AddVehicle
    <3> QED
      BY <2>1, <2>2, <3>1 DEF OnboardVehicle, AddVehicle, inFlight, TypeOK
  <2>3. ASSUME NEW to \in {"ACTIVE", "INACTIVE", None}, NEW m \in Material, UpdateVehicle(v, to, m)
        PROVE  Good'
    <3>1. admitting[v] = None
      BY <2>3 DEF UpdateVehicle, MayEdit, Held
    <3> QED
      BY <2>1, <2>3, <3>1 DEF UpdateVehicle, inFlight, TypeOK
  <2>4. CASE BeginAdmission(v)
    <3>1. /\ UNCHANGED <<vehicle, material, working>> /\ admitting' = [admitting EXCEPT ![v] = now]
          /\ MayWork(v) /\ Eligible(v, now) /\ ~Held(OwnerOf[v]) /\ ~Held(v)
      BY <2>4 DEF BeginAdmission, vehicleVars
    <3>2. /\ \A w \in Vehicle : admitting[w] # None => OwnerOf[w] # OwnerOf[v]
          /\ \A c \in Case : deciding[c] # None => cases[c].subject \notin {v, OwnerOf[v]}
      BY <3>1, <1>c DEF Held, ProfileHeld
    <3>3. admitting'[v] = now /\ \A w \in Vehicle \ {v} : admitting'[w] = admitting[w]
      BY <3>1 DEF TypeOK
    <3>4. LocksExclude'
      BY <2>0, <3>2, <3>3, <1>c DEF LocksExclude
    <3>5. ASSUME NEW w \in Vehicle, admitting'[w] # None
          PROVE  (MayWork(w) /\ Eligible(w, admitting[w]))'
      <4>1. PICK t : t = admitting'[w]
        OBVIOUS
      <4>2. MayWork(w) /\ Eligible(w, t)
        BY <3>1, <3>3, <3>5, <4>1, <1>c DEF AdmissionsHold
      <4>3. MayWork(w)' /\ Eligible(w, t)'
        BY <2>0, <3>1, <4>2, <1>a
      <4> QED
        BY <4>1, <4>3 DEF Eligible
    <3> QED
      BY <3>4, <3>5 DEF AdmissionsHold
  <2>5. CASE CommitAdmission(v) \/ AbortAdmission(v)
    <3>1. /\ UNCHANGED <<vehicle, material>> /\ working' \subseteq working \cup {v}
          /\ admitting[v] # None /\ admitting' = [admitting EXCEPT ![v] = None]
      BY <2>5 DEF CommitAdmission, AbortAdmission, vehicleVars
    <3>2. admitting'[v] = None /\ \A w \in Vehicle \ {v} : admitting'[w] = admitting[w]
      BY <3>1 DEF TypeOK
    <3>3. LocksExclude'
      BY <2>0, <3>2, <1>c DEF LocksExclude
    <3>4. ASSUME NEW w \in Vehicle, admitting'[w] # None
          PROVE  (MayWork(w) /\ Eligible(w, admitting[w]))'
      <4>1. w # v /\ admitting'[w] = admitting[w] /\ OwnerOf[w] # OwnerOf[v]
        BY <3>1, <3>2, <3>4, <1>c DEF LocksExclude
      <4>2. PICK t : t = admitting[w]
        OBVIOUS
      <4>3. MayWork(w) /\ Eligible(w, t)
        BY <3>4, <4>1, <4>2, <1>c DEF AdmissionsHold
      <4>4. MayWork(w)' /\ Eligible(w, t)'
        BY <2>0, <3>1, <4>1, <4>3, <1>a
      <4> QED
        BY <4>1, <4>2, <4>4 DEF Eligible
    <3> QED
      BY <3>3, <3>4 DEF AdmissionsHold
  <2>6. CASE EndWork(v)
    <3>1. UNCHANGED <<vehicle, material, admitting>> /\ working' \subseteq working
      BY <2>6 DEF EndWork, vehicleVars, inFlight
    <3>2. LocksExclude'
      BY <2>0, <3>1, <1>c DEF LocksExclude
    <3> QED
      BY <2>0, <3>1, <3>2, <1>b
  <2> QED
    BY <1>2, <2>2, <2>3, <2>4, <2>5, <2>6 DEF OfVehicle
<1>e. ASSUME NEW c \in Case, deciding[c] = None, cases[c] = None \/ cases[c].status # "APPROVED",
             \A o \in Case \ {c} : cases'[o] = cases[o],
             UNCHANGED <<vehicle, material, driver, profile, accepted, latest, working, deciding,
                         admitting>>
      PROVE  Good'
  <2>1. LocksExclude'
    BY <1>e, <1>c DEF LocksExclude
  <2>2. \A v \in Vehicle, s \in Subject :
          admitting[v] # None /\ s \in {v, OwnerOf[v]} => cases'[latest[s]] = cases[latest[s]]
    BY <1>e, <1>d
  <2>3. \A v \in Vehicle : v \in Subject /\ OwnerOf[v] \in Subject
    BY <1>c DEF Subject
  <2> QED
    BY <1>e, <1>b, <2>1, <2>2, <2>3
<1>3. ASSUME NEW c \in Case, OfPresenter(c) PROVE Good'
  <2>1. /\ UNCHANGED <<vehicle, material, driver, profile, accepted, latest, working, deciding,
                       admitting>>
        /\ \A o \in Case \ {c} : cases'[o] = cases[o]
    BY <1>3 DEF OfPresenter, OpenCase, UpdateCase, CompleteUpload, RemoveAttachment, Submit,
               Withdraw, driverVars, vehicleVars, inFlight, TypeOK
  <2>2. cases[c] = None \/ (Open(c) /\ ~Held(cases[c].subject))
    BY <1>3 DEF OfPresenter, OpenCase, UpdateCase, CompleteUpload, RemoveAttachment, Submit,
               Withdraw, Editable, Draft, Open
  <2>3. deciding[c] = None /\ (cases[c] = None \/ cases[c].status # "APPROVED")
    BY <2>2 DEF Held, Open, DecisionsAreOfRead
  <2> QED
    BY <2>1, <2>3, <1>e
<1>4. ASSUME NEW c \in Case, OfReviewer(c) PROVE Good'
  <2>1. CASE Read(c)
    BY <2>1, <1>0 DEF Read, driverVars, vehicleVars, inFlight
  <2>2. ASSUME NEW verdict \in {"APPROVED", "REJECTED"}, BeginDecision(c, verdict) PROVE Good'
    <3>1. /\ UNCHANGED <<vehicle, material, driver, profile, accepted, latest, cases, working,
                         admitting>>
          /\ ~Held(cases[c].subject) /\ \A o \in Case \ {c} : deciding'[o] = deciding[o]
      BY <2>2 DEF BeginDecision, driverVars, vehicleVars, dossierVars, TypeOK
    <3>2. \A v \in Vehicle : admitting[v] # None => cases[c].subject \notin {v, OwnerOf[v]}
      BY <3>1, <1>d
    <3>3. LocksExclude'
      BY <3>1, <3>2, <1>c DEF LocksExclude
    <3> QED
      BY <3>1, <3>3, <1>b
  <2>3. CASE CommitDecision(c)
    <3> DEFINE s == cases[c].subject
    <3>1. deciding[c] # None /\ cases[c] # None /\ cases[c].status = "SUBMITTED"
      BY <2>3 DEF CommitDecision, DecisionsAreOfRead
    <3>2. /\ UNCHANGED <<accepted, material, working, admitting>> /\ deciding'[c] = None
          /\ \A o \in Case \ {c} : cases'[o] = cases[o] /\ deciding'[o] = deciding[o]
      BY <2>3 DEF CommitDecision, TypeOK
    <3>3. \A t \in Subject \ {s} :
            /\ latest'[t] = latest[t]
            /\ t \in Driver => driver'[t] = driver[t] /\ profile'[t] = profile[t]
            /\ t \in Vehicle => vehicle'[t] = vehicle[t]
      BY <2>3 DEF CommitDecision, TypeOK
    <3>4. LocksExclude'
      BY <3>2, <1>c DEF LocksExclude
    <3>5. ASSUME NEW v \in Vehicle, admitting[v] # None PROVE Same(v)
      <4>1. s \notin {v, OwnerOf[v]} /\ v \in Subject /\ OwnerOf[v] \in Subject
        BY <3>1, <3>5, <1>c DEF LocksExclude, Subject
      <4>2. \A t \in {v, OwnerOf[v]} : latest[t] \in Case \ {c}
        BY <3>1, <3>5, <1>d
      <4> QED
        BY <3>2, <3>3, <4>1, <4>2, <1>c
    <3> QED
      BY <3>2, <3>4, <3>5, <1>b
  <2>4. CASE AbortDecision(c)
    <3>1. /\ UNCHANGED <<vehicle, material, driver, profile, accepted, latest, cases, working,
                         admitting>>
          /\ \A o \in Case : deciding'[o] # None => deciding[o] # None
      BY <2>4 DEF AbortDecision, driverVars, vehicleVars, dossierVars, TypeOK
    <3>2. LocksExclude'
      BY <3>1, <1>c DEF LocksExclude
    <3> QED
      BY <3>1, <3>2, <1>b
  <2> QED
    BY <1>4, <2>1, <2>2, <2>3, <2>4 DEF OfReviewer
<1>5. CASE Tick
  BY <1>5, <1>0 DEF Tick, vehicleVars, dossierVars, inFlight
<1>6. CASE UNCHANGED vars
  BY <1>6, <1>0 DEF vars
<1> QED
  BY <1>1, <1>2, <1>3, <1>4, <1>5, <1>6 DEF Next

-----------------------------------------------------------------------------
(* At the start there are no dossiers, no decisions and no admissions.      *)
LEMMA InitEstablishes == Init => VerificationInvariant
<1> SUFFICES ASSUME Init PROVE VerificationInvariant
  OBVIOUS
<1> USE DEF Init
<1>1. TypeOK
  BY DEF TypeOK, Subject, ProfileStatus
<1>2. StatusesAreEarned /\ Registered /\ MarkersAreInitial
  BY DEF StatusesAreEarned, Registered, MarkersAreInitial, Subject
<1>3. ReadingsAreTrue /\ DecisionsAreOfRead /\ EvidenceIsApproved
  BY DEF ReadingsAreTrue, DecisionsAreOfRead, EvidenceIsApproved
<1>4. LocksExclude /\ AdmissionsHold
  BY DEF LocksExclude, AdmissionsHold
<1> QED
  BY <1>1, <1>2, <1>3, <1>4 DEF VerificationInvariant

(* Every reachable state satisfies the invariant.                           *)
THEOREM VerificationCorrect == Spec => []VerificationInvariant
<1>1. VerificationInvariant /\ [Next]_vars => VerificationInvariant'
  BY TypesStay, StatusesStay, DossiersStay, AdmissionsStay DEF VerificationInvariant
<1> QED
  BY <1>1, InitEstablishes, PTL DEF Spec

(* All columns of drivers, vehicles and dossiers are well typed.            *)
THEOREM VerificationTypes == Spec => []TypeOK
<1>1. VerificationInvariant => TypeOK
  BY DEF VerificationInvariant
<1> QED
  BY <1>1, VerificationCorrect, PTL

(* Nobody is enabled without an approval, and an approval leaves alone what *)
(* an administrator has set.                                                *)
THEOREM ApprovalsStartWhatAwaits == Spec => []StatusesAreEarned
<1>1. VerificationInvariant => StatusesAreEarned
  BY DEF VerificationInvariant
<1> QED
  BY <1>1, VerificationCorrect, PTL

(* No approval lifts a sanction, unless it looked before it was given.      *)
THEOREM SanctionsAreKept == Spec => SanctionsStand
<1> DEFINE
      Stands(d) ==
        profile[d] \in {"SUSPENDED", "REJECTED"} /\ profile'[d] \notin {"SUSPENDED", "REJECTED"} =>
          \/ driver[d] = "ACTIVE"
          \/ \E c \in DossiersOf(d) : deciding[c] # None /\ deciding[c].found = "PENDING"
<1>1. VerificationInvariant /\ [Next]_vars => [\A d \in Driver : Stands(d)]_vars
  <2> SUFFICES ASSUME VerificationInvariant, Next, NEW d \in Driver PROVE Stands(d)
    OBVIOUS
  <2> USE DEF VerificationInvariant
  <2>1. CASE UNCHANGED profile
    BY <2>1
  <2>2. ASSUME NEW e \in Driver, OfDriver(e) PROVE Stands(d)
    BY <2>2 DEF OfDriver, Confirm, AcceptTerms, Approve, Close, Registered, TypeOK
  <2>3. ASSUME NEW c \in Case, CommitDecision(c) PROVE Stands(d)
    <3>1. deciding[c] # None /\ cases[c] # None
      BY <2>3 DEF CommitDecision, DecisionsAreOfRead
    <3>2. CASE Enables(c) /\ cases[c].subject = d
      BY <3>1, <3>2 DEF Enables, DossiersOf
    <3>3. CASE ~(Enables(c) /\ cases[c].subject = d)
      BY <2>3, <3>3 DEF CommitDecision, TypeOK
    <3> QED
      BY <3>2, <3>3
  <2>4. ASSUME NEW v \in Vehicle, OfVehicle(v) PROVE UNCHANGED profile
    BY <2>4 DEF OfVehicle, OnboardVehicle, AddVehicle, UpdateVehicle, BeginAdmission,
               CommitAdmission, AbortAdmission, EndWork, driverVars
  <2>5. ASSUME NEW c \in Case, OfPresenter(c) PROVE UNCHANGED profile
    BY <2>5 DEF OfPresenter, OpenCase, UpdateCase, CompleteUpload, RemoveAttachment, Submit,
               Withdraw, driverVars
  <2>6. ASSUME NEW c \in Case, OfReviewer(c) PROVE UNCHANGED profile \/ CommitDecision(c)
    BY <2>6 DEF OfReviewer, Read, BeginDecision, AbortDecision, driverVars
  <2>7. CASE Tick
    BY <2>7 DEF Tick
  <2> QED
    BY <2>1, <2>2, <2>3, <2>4, <2>5, <2>6, <2>7 DEF Next
<1> QED
  BY <1>1, VerificationCorrect, PTL DEF Spec, SanctionsStand

(* What is decided has been read by who decides it.                         *)
THEOREM DecisionsAreRead == Spec => ReviewedAsSeen
<1> DEFINE
      AsSeen(c) ==
        deciding[c] # None /\ cases'[c] # cases[c] =>
          /\ seen[c].data = cases'[c].data /\ seen[c].until = cases'[c].until
          /\ seen[c].files = cases'[c].files /\ seen[c].snapshot = cases'[c].snapshot
<1>1. VerificationInvariant /\ [Next]_vars => [\A c \in Case : AsSeen(c)]_vars
  <2> SUFFICES ASSUME VerificationInvariant, Next, NEW c \in Case,
                      deciding[c] # None, cases'[c] # cases[c]
               PROVE  AsSeen(c)
    OBVIOUS
  <2> USE DEF VerificationInvariant
  <2>1. cases[c] # None /\ cases[c].status = "SUBMITTED" /\ seen[c] = cases[c]
    BY DEF DecisionsAreOfRead
  <2>2. ASSUME NEW o \in Case, OfPresenter(o) PROVE FALSE
    <3>1. \A a \in Case \ {o} : cases'[a] = cases[a]
      BY <2>2 DEF OfPresenter, OpenCase, UpdateCase, CompleteUpload, RemoveAttachment, Submit,
                 Withdraw, TypeOK
    <3>2. cases[o] = None \/ ~Held(cases[o].subject)
      BY <2>2 DEF OfPresenter, OpenCase, UpdateCase, CompleteUpload, RemoveAttachment, Submit,
                 Withdraw, Editable, Draft
    <3> QED
      BY <2>1, <3>1, <3>2 DEF Held
  <2>3. ASSUME NEW o \in Case, CommitDecision(o) PROVE AsSeen(c)
    <3>1. o = c
      BY <2>3 DEF CommitDecision, TypeOK
    <3>2. cases'[c] = Moved(cases[c], deciding[c].verdict, cases[c].snapshot)
      BY <2>3, <3>1 DEF CommitDecision, TypeOK
    <3> QED
      BY <2>1, <3>2 DEF Moved
  <2>4. ASSUME NEW o \in Case, Read(o) \/ AbortDecision(o) PROVE FALSE
    BY <2>4 DEF Read, AbortDecision, dossierVars
  <2>5. ASSUME NEW o \in Case, NEW verdict \in {"APPROVED", "REJECTED"}, BeginDecision(o, verdict)
        PROVE  FALSE
    BY <2>5 DEF BeginDecision, dossierVars
  <2>6. ASSUME NEW v \in Vehicle, OfVehicle(v) PROVE FALSE
    BY <2>6 DEF OfVehicle, OnboardVehicle, AddVehicle, UpdateVehicle, BeginAdmission,
               CommitAdmission, AbortAdmission, EndWork, dossierVars
  <2>7. ASSUME NEW d \in Driver, OfDriver(d) PROVE FALSE
    BY <2>7 DEF OfDriver, Confirm, AcceptTerms, Approve, Close, dossierVars
  <2>8. CASE Tick
    BY <2>8 DEF Tick, dossierVars
  <2> QED
    BY <2>2, <2>3, <2>4, <2>5, <2>6, <2>7, <2>8 DEF Next, OfReviewer
<1> QED
  BY <1>1, VerificationCorrect, PTL DEF Spec, ReviewedAsSeen

(* Nothing that an admission found has changed when the work begins.        *)
THEOREM AdmissionsAreSound == Spec => AdmittedOnEvidence
<1>1. VerificationInvariant /\ [Next]_vars =>
        [\A v \in working' \ working : MayWork(v) /\ Eligible(v, admitting[v])]_vars
  <2> SUFFICES ASSUME VerificationInvariant, Next, NEW v \in working' \ working
               PROVE  MayWork(v) /\ Eligible(v, admitting[v])
    OBVIOUS
  <2> USE DEF VerificationInvariant
  <2>1. ASSUME NEW w \in Vehicle, OfVehicle(w) PROVE v \in Vehicle /\ admitting[v] # None
    <3>1. CASE CommitAdmission(w)
      BY <3>1 DEF CommitAdmission
    <3>2. ASSUME ~CommitAdmission(w) PROVE FALSE
      BY <2>1, <3>2 DEF OfVehicle, OnboardVehicle, AddVehicle, UpdateVehicle, BeginAdmission,
                        AbortAdmission, EndWork
    <3> QED
      BY <3>1, <3>2
  <2>2. working' # working
    OBVIOUS
  <2>3. ASSUME NEW c \in Case PROVE ~OfPresenter(c) /\ ~OfReviewer(c)
    BY <2>2 DEF OfPresenter, OpenCase, UpdateCase, CompleteUpload, RemoveAttachment, Submit,
               Withdraw, OfReviewer, Read, BeginDecision, CommitDecision, AbortDecision
  <2>4. ASSUME NEW d \in Driver PROVE ~OfDriver(d)
    BY <2>2 DEF OfDriver, Confirm, AcceptTerms, Approve, Close
  <2>5. ~Tick
    BY <2>2 DEF Tick
  <2>6. PICK w \in Vehicle : OfVehicle(w)
    BY <2>3, <2>4, <2>5 DEF Next
  <2>7. v \in Vehicle /\ admitting[v] # None
    BY <2>1, <2>6
  <2> QED
    BY <2>7 DEF AdmissionsHold
<1> QED
  BY <1>1, VerificationCorrect, PTL DEF Spec, AdmittedOnEvidence
-----------------------------------------------------------------------------
(* What a step may do to one dossier.                                       *)
LEMMA CaseSteps ==
  ASSUME VerificationInvariant, [Next]_vars, NEW c \in Case
  PROVE  \/ cases'[c] = cases[c]
         \/ \E s \in Subject : OpenCase(c, s) /\ cases'[c].subject = s
         \/ Open(c) /\ cases'[c].subject = cases[c].subject
<1> DEFINE Goal == \/ cases'[c] = cases[c]
                   \/ \E s \in Subject : OpenCase(c, s) /\ cases'[c].subject = s
                   \/ Open(c) /\ cases'[c].subject = cases[c].subject
<1>0. TypeOK /\ DecisionsAreOfRead
  BY DEF VerificationInvariant
<1>e. cases \in [Case -> Dossier \cup {None}]
  BY <1>0 DEF TypeOK
<1>1. ASSUME NEW o \in Case, OfPresenter(o) PROVE Goal
  <2>1. CASE o # c
    BY <1>e, <1>1, <2>1 DEF OfPresenter, OpenCase, UpdateCase, CompleteUpload,
       RemoveAttachment, Submit, Withdraw
  <2>2. ASSUME NEW s \in Subject, OpenCase(c, s) PROVE Goal
    <3>1. cases'[c] = Blank(s)
      BY <1>e, <2>2 DEF OpenCase
    <3> QED
      BY <2>2, <3>1 DEF Blank
  <2>3. ASSUME NEW data, NEW until, UpdateCase(c, data, until) PROVE Goal
    <3>1. cases'[c] = Edited(cases[c], data, until, cases[c].files) /\ Open(c)
      BY <1>e, <2>3 DEF UpdateCase, Editable, Draft
    <3> QED
      BY <3>1 DEF Edited
  <2>4. ASSUME NEW data, CompleteUpload(c, data) \/ RemoveAttachment(c, data) PROVE Goal
    <3>1. PICK files : cases'[c] = Edited(cases[c], cases[c].data, cases[c].until, files)
      BY <1>e, <2>4 DEF CompleteUpload, RemoveAttachment
    <3>2. Open(c)
      BY <2>4 DEF CompleteUpload, RemoveAttachment, Editable, Draft
    <3> QED
      BY <3>1, <3>2 DEF Edited
  <2>5. CASE Submit(c)
    <3>1. cases'[c] = Moved(cases[c], "SUBMITTED", FactsOf(cases[c].subject)) /\ Open(c)
      BY <1>e, <2>5 DEF Submit, Draft
    <3> QED
      BY <3>1 DEF Moved
  <2>6. CASE Withdraw(c)
    <3>1. /\ cases'[c] = [Blank(cases[c].subject) EXCEPT !.status = "WITHDRAWN"]
          /\ Open(c)
      BY <1>e, <2>6 DEF Withdraw
    <3> QED
      BY <3>1 DEF Blank
  <2> QED
    BY <1>1, <2>1, <2>2, <2>3, <2>4, <2>5, <2>6 DEF OfPresenter
<1>2. ASSUME NEW o \in Case, OfReviewer(o) PROVE Goal
  <2>1. CASE CommitDecision(o) /\ o = c
    <3>1. cases'[c] = Moved(cases[c], deciding[c].verdict, cases[c].snapshot)
      BY <1>e, <2>1 DEF CommitDecision
    <3>2. Open(c)
      BY <1>0, <2>1 DEF CommitDecision, DecisionsAreOfRead, Open
    <3> QED
      BY <3>1, <3>2 DEF Moved
  <2>2. CASE CommitDecision(o) /\ o # c
    BY <1>e, <2>2 DEF CommitDecision
  <2>3. CASE ~CommitDecision(o)
    BY <1>2, <2>3 DEF OfReviewer, Read, BeginDecision, AbortDecision, dossierVars
  <2> QED
    BY <2>1, <2>2, <2>3
<1>3. ASSUME NEW d \in Driver, OfDriver(d) PROVE Goal
  BY <1>3 DEF OfDriver, Confirm, AcceptTerms, Approve, Close, dossierVars
<1>4. ASSUME NEW v \in Vehicle, OfVehicle(v) PROVE Goal
  BY <1>4 DEF OfVehicle, OnboardVehicle, AddVehicle, UpdateVehicle, BeginAdmission,
              CommitAdmission, AbortAdmission, EndWork, dossierVars
<1>5. CASE Tick \/ UNCHANGED vars
  BY <1>5 DEF Tick, vars, dossierVars
<1> QED
  BY <1>1, <1>2, <1>3, <1>4, <1>5 DEF Next

(* What counts as evidence only changes when a decision approves it.        *)
LEMMA LatestSteps ==
  ASSUME VerificationInvariant, [Next]_vars, NEW s \in Subject, latest'[s] # latest[s]
  PROVE  /\ latest'[s] \in Case /\ Open(latest'[s]) /\ cases[latest'[s]].subject = s
         /\ ~\E o \in Case, t \in Subject : OpenCase(o, t)
<1>0. TypeOK /\ DecisionsAreOfRead
  BY DEF VerificationInvariant
<1>1. \E c \in Case : CommitDecision(c)
  <2>1. latest' # latest
    OBVIOUS
  <2>2. ASSUME NEW c \in Case PROVE ~OfPresenter(c)
    BY <2>1 DEF OfPresenter, OpenCase, UpdateCase, CompleteUpload, RemoveAttachment, Submit,
                Withdraw
  <2>3. ASSUME NEW c \in Case, OfReviewer(c) PROVE CommitDecision(c)
    BY <2>1, <2>3 DEF OfReviewer, Read, BeginDecision, AbortDecision, dossierVars
  <2>4. ASSUME NEW d \in Driver PROVE ~OfDriver(d)
    BY <2>1 DEF OfDriver, Confirm, AcceptTerms, Approve, Close, dossierVars
  <2>5. ASSUME NEW v \in Vehicle PROVE ~OfVehicle(v)
    BY <2>1 DEF OfVehicle, OnboardVehicle, AddVehicle, UpdateVehicle, BeginAdmission,
                CommitAdmission, AbortAdmission, EndWork, dossierVars
  <2>6. ~Tick /\ ~UNCHANGED vars
    BY <2>1 DEF Tick, vars, dossierVars
  <2> QED
    BY <2>2, <2>3, <2>4, <2>5, <2>6 DEF Next
<1>2. PICK c \in Case : CommitDecision(c)
  BY <1>1
<1>3. latest'[s] = c /\ cases[c].subject = s
  BY <1>0, <1>2 DEF CommitDecision, TypeOK
<1>4. Open(c)
  BY <1>0, <1>2 DEF CommitDecision, DecisionsAreOfRead, Open
<1>5. ASSUME NEW o \in Case, NEW t \in Subject PROVE ~OpenCase(o, t)
  BY DEF OpenCase
<1> QED
  BY <1>3, <1>4, <1>5

(* Dossiers that were decided, or withdrawn, are history.                   *)
THEOREM DecisionsAreFinal == Spec => DecidedStands
<1>1. VerificationInvariant /\ [Next]_vars =>
        [\A c \in Case : cases[c] # None /\ ~Open(c) => cases'[c] = cases[c]]_vars
  BY CaseSteps DEF OpenCase
<1> QED
  BY <1>1, VerificationCorrect, PTL DEF Spec, DecidedStands

(* One dossier of a subject is open at a time, and evidence is its own.     *)
THEOREM EvidenceIsOwn == Spec => []DossiersAreOwn
<1> DEFINE
      Single(c, o) == Open(c) /\ Open(o) /\ cases[c].subject = cases[o].subject => c = o
      Own(s)       == latest[s] # None => cases[latest[s]].subject = s
<1>1. Init => DossiersAreOwn
  BY DEF Init, DossiersAreOwn, Open
<1>2. DossiersAreOwn /\ VerificationInvariant /\ [Next]_vars => DossiersAreOwn'
  <2> SUFFICES ASSUME DossiersAreOwn, VerificationInvariant, [Next]_vars
               PROVE  DossiersAreOwn'
    OBVIOUS
  <2>0. TypeOK /\ EvidenceIsApproved
    BY DEF VerificationInvariant
  <2>1. ASSUME NEW c \in Case, NEW o \in Case PROVE Single(c, o)'
    <3> SUFFICES ASSUME Open(c)', Open(o)', cases'[c].subject = cases'[o].subject, c # o
                 PROVE  FALSE
      OBVIOUS
    <3>0. ASSUME NEW x \in Case, NEW y \in Case, x # y, NEW s \in Subject, OpenCase(x, s),
                 cases'[y].subject = s, Open(y)'
          PROVE  FALSE
      <4>1. cases'[y] = cases[y]
        BY <3>0, <2>0 DEF OpenCase, TypeOK
      <4>2. Open(y) /\ y \in DossiersOf(s)
        BY <3>0, <4>1 DEF Open, DossiersOf
      <4> QED
        BY <3>0, <4>2 DEF OpenCase
    <3>1. \A s \in Subject : ~(OpenCase(c, s) /\ cases'[c].subject = s)
      BY <3>0
    <3>2. \A s \in Subject : ~(OpenCase(o, s) /\ cases'[o].subject = s)
      BY <3>0
    <3>3. ASSUME NEW x \in Case, Open(x)',
                 \A s \in Subject : ~(OpenCase(x, s) /\ cases'[x].subject = s)
          PROVE  Open(x) /\ cases'[x].subject = cases[x].subject
      BY <3>3, CaseSteps DEF Open
    <3>4. Open(c) /\ Open(o) /\ cases[c].subject = cases[o].subject
      BY <3>1, <3>2, <3>3
    <3> QED
      BY <3>4 DEF DossiersAreOwn
  <2>2. ASSUME NEW s \in Subject PROVE Own(s)'
    <3> SUFFICES ASSUME latest'[s] # None PROVE cases'[latest'[s]].subject = s
      OBVIOUS
    <3>1. CASE latest'[s] = latest[s]
      <4>1. /\ latest[s] \in Case /\ cases[latest[s]] # None /\ ~Open(latest[s])
            /\ cases[latest[s]].subject = s
        BY <2>0, <3>1 DEF TypeOK, EvidenceIsApproved, Open, DossiersAreOwn
      <4>2. cases'[latest[s]] = cases[latest[s]]
        BY <4>1, CaseSteps DEF OpenCase
      <4> QED
        BY <3>1, <4>1, <4>2
    <3>2. CASE latest'[s] # latest[s]
      <4>1. /\ latest'[s] \in Case /\ cases[latest'[s]].subject = s
            /\ \A t \in Subject : ~OpenCase(latest'[s], t)
        BY <3>2, LatestSteps
      <4> QED
        BY <4>1, CaseSteps
    <3> QED
      BY <3>1, <3>2
  <2> QED
    BY <2>1, <2>2 DEF DossiersAreOwn
<1> QED
  BY <1>1, <1>2, VerificationCorrect, PTL DEF Spec

-----------------------------------------------------------------------------
(* Where a vehicle is in service, no step but an edit or a sanction puts it *)
(* out of service, and these wait for its work to end.                      *)
InService(v) ==
  vehicle[v] = "ACTIVE" /\ driver[OwnerOf[v]] = "ACTIVE" /\ profile[OwnerOf[v]] = "APPROVED"

LEMMA ServiceStays ==
  ASSUME VerificationInvariant, [Next]_vars, NEW v \in Vehicle, v \in working, InService(v)
  PROVE  InService(v)'
<1>0. TypeOK /\ OwnerOf[v] \in Driver
  BY DEF VerificationInvariant
<1> USE DEF InService, TypeOK
<1>1. ASSUME NEW d \in Driver, OfDriver(d) PROVE InService(v)'
  BY <1>0, <1>1 DEF OfDriver, Confirm, AcceptTerms, Approve, Close, vehicleVars
<1>2. ASSUME NEW w \in Vehicle, OfVehicle(w) PROVE InService(v)'
  <2>1. CASE OnboardVehicle(w) \/ AddVehicle(w)
    BY <1>0, <2>1 DEF OnboardVehicle, AddVehicle, driverVars
  <2>2. ASSUME NEW to \in {"ACTIVE", "INACTIVE", None}, NEW m \in Material,
               UpdateVehicle(w, to, m)
        PROVE  InService(v)'
    <3>1. UNCHANGED <<driver, profile>>
      BY <2>2 DEF UpdateVehicle, driverVars
    <3>2. w = v => to # "INACTIVE"
      BY <2>2 DEF UpdateVehicle
    <3>3. vehicle'[v] = "ACTIVE"
      BY <1>0, <2>2, <3>2 DEF UpdateVehicle
    <3> QED
      BY <3>1, <3>3
  <2>3. CASE BeginAdmission(w) \/ CommitAdmission(w) \/ AbortAdmission(w) \/ EndWork(w)
    BY <2>3 DEF BeginAdmission, CommitAdmission, AbortAdmission, EndWork, driverVars,
                vehicleVars
  <2> QED
    BY <1>2, <2>1, <2>2, <2>3 DEF OfVehicle
<1>3. ASSUME NEW c \in Case, OfPresenter(c) PROVE InService(v)'
  BY <1>3 DEF OfPresenter, OpenCase, UpdateCase, CompleteUpload, RemoveAttachment, Submit,
              Withdraw, driverVars, vehicleVars
<1>4. ASSUME NEW c \in Case, OfReviewer(c) PROVE InService(v)'
  <2>1. CASE CommitDecision(c)
    <3>1. /\ driver' = driver \/ driver' = [driver EXCEPT ![cases[c].subject] = "ACTIVE"]
          /\ profile' = profile \/ profile' = [profile EXCEPT ![cases[c].subject] = "APPROVED"]
          /\ vehicle' = vehicle \/ vehicle' = [vehicle EXCEPT ![cases[c].subject] = "ACTIVE"]
      BY <2>1 DEF CommitDecision
    <3> QED
      BY <1>0, <3>1
  <2>2. CASE ~CommitDecision(c)
    BY <1>4, <2>2 DEF OfReviewer, Read, BeginDecision, AbortDecision, driverVars, vehicleVars
  <2> QED
    BY <2>1, <2>2
<1>5. CASE Tick \/ UNCHANGED vars
  BY <1>5 DEF Tick, vars, vehicleVars
<1> QED
  BY <1>1, <1>2, <1>3, <1>4, <1>5 DEF Next

(* Work begins by an admission only.                                        *)
LEMMA WorkBegins ==
  ASSUME [Next]_vars, working' # working
  PROVE  \E v \in Vehicle : CommitAdmission(v) \/ EndWork(v)
<1>1. ASSUME NEW v \in Vehicle, OfVehicle(v) PROVE CommitAdmission(v) \/ EndWork(v)
  BY <1>1 DEF OfVehicle, OnboardVehicle, AddVehicle, UpdateVehicle, BeginAdmission,
              AbortAdmission
<1>2. ASSUME NEW c \in Case PROVE ~OfPresenter(c) /\ ~OfReviewer(c)
  BY DEF OfPresenter, OpenCase, UpdateCase, CompleteUpload, RemoveAttachment, Submit,
         Withdraw, OfReviewer, Read, BeginDecision, CommitDecision, AbortDecision
<1>3. ASSUME NEW d \in Driver PROVE ~OfDriver(d)
  BY DEF OfDriver, Confirm, AcceptTerms, Approve, Close
<1>4. ~Tick /\ ~UNCHANGED vars
  BY DEF Tick, vars
<1> QED
  BY <1>1, <1>2, <1>3, <1>4 DEF Next

(* Who works stays admitted to work, with one vehicle.                      *)
THEOREM ServiceIsNotInterrupted == Spec => []WorkersStayInService
<1>1. Init => WorkersStayInService
  BY DEF Init, WorkersStayInService
<1>2. WorkersStayInService /\ VerificationInvariant /\ [Next]_vars => WorkersStayInService'
  <2> SUFFICES ASSUME WorkersStayInService, VerificationInvariant, [Next]_vars
               PROVE  WorkersStayInService'
    OBVIOUS
  <2>0. working \subseteq Vehicle
    BY DEF VerificationInvariant, TypeOK
  <2>1. \A v \in working : InService(v) /\ InService(v)'
    BY <2>0, ServiceStays DEF WorkersStayInService, InService
  <2>2. \A v, w \in working : OwnerOf[w] = OwnerOf[v] => w = v
    BY DEF WorkersStayInService
  <2>3. CASE working' \subseteq working
    BY <2>1, <2>2, <2>3 DEF WorkersStayInService, InService
  <2>4. ASSUME NEW x \in Vehicle, CommitAdmission(x) PROVE WorkersStayInService'
    <3>1. MayWork(x)
      BY <2>4 DEF CommitAdmission, VerificationInvariant, AdmissionsHold
    <3>2. working' = working \cup {x} /\ UNCHANGED <<vehicle, driver, profile>>
      BY <2>4 DEF CommitAdmission, driverVars, vehicleVars
    <3>3. \A v \in working' : InService(v)'
      BY <2>1, <3>1, <3>2 DEF MayWork, InService
    <3>4. \A v, w \in working' : OwnerOf[w] = OwnerOf[v] => w = v
      BY <2>2, <3>1, <3>2 DEF MayWork
    <3> QED
      BY <3>3, <3>4 DEF WorkersStayInService, InService
  <2>5. ASSUME NEW x \in Vehicle, EndWork(x) PROVE working' \subseteq working
    BY <2>5 DEF EndWork
  <2> QED
    BY <2>3, <2>4, <2>5, WorkBegins
<1> QED
  BY <1>1, <1>2, VerificationCorrect, PTL DEF Spec
=============================================================================
