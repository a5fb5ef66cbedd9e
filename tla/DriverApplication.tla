------------------------- MODULE DriverApplication -------------------------
(***************************************************************************)
(* How a user becomes a driver: DriverApplicationService (start, the three   *)
(* steps, review) and the document uploads of DriverDocumentsService.        *)
(*                                                                           *)
(* As in Negotiation, an action is one awaited call with the code up to the  *)
(* next one, and a refused call is a stuttering step.  An application is     *)
(* named by its user (userId is unique), so is a DriverProfile.  A storage   *)
(* key stands for its file; randomUUID makes each one new.                   *)
(*                                                                           *)
(* Exclusive = FALSE is the program; Exclusive = TRUE keeps the calls on one *)
(* application apart.                                                        *)
(***************************************************************************)

CONSTANTS
  Applicants,      \* users who apply
  Plates,          \* plate numbers
  LicenseType,     \* DRIVERS_LICENSE
  VehicleTypes,    \* VEHICLE_REGISTRATION, VEHICLE_PHOTO
  OptionalTypes,   \* PROOF_OF_INSURANCE, PROFILE_PHOTO
  Keys,            \* bound on the storage keys ever drawn
  Calls,           \* bound on the handlers in flight at once
  Exclusive,       \* BOOLEAN: calls on one application do not overlap
  Faults,          \* the failures that may happen: "abort", "storage"
  None             \* null

ASSUME ApplicationAssumption ==
  /\ None \notin Applicants /\ None \notin Plates /\ None \notin Keys
  /\ None \notin {LicenseType} \cup VehicleTypes \cup OptionalTypes
  /\ ({LicenseType} \cup VehicleTypes) \cap OptionalTypes = {}
  /\ Exclusive \in BOOLEAN
  /\ Faults \subseteq {"abort", "storage"}

VARIABLES
  application,   \* [Applicants -> Application]
  profile,       \* SUBSET Applicants: who has a DriverProfile
  document,      \* [Applicants -> [DocumentTypes -> Keys \cup {None}]]: storageKey
  files,         \* SUBSET Keys: the files in storage
  issued,        \* SUBSET Keys: the keys drawn so far
  call           \* [Calls -> Call]

rows == <<application, profile, document>>
storage == <<files, issued>>
vars == <<rows, storage, call>>

----------------------------------------------------------------------------
RequiredTypes == {LicenseType} \cup VehicleTypes
DocumentTypes == RequiredTypes \cup OptionalTypes

(* VEHICLE_SUBMITTED exists in the schema and is never written. *)
Status == {"NOT_STARTED", "PERSONAL_INFO_SUBMITTED", "LICENSE_SUBMITTED",
           "UNDER_REVIEW", "VERIFIED", "REJECTED"}

(* The columns of a step are filled together; of their values only the       *)
(* plate number matters.                                                     *)
Application == [status: {"ABSENT"} \cup Status, personal: BOOLEAN, license: BOOLEAN,
                plateNumber: Plates \cup {None},
                rejectionReason: BOOLEAN, submittedAt: BOOLEAN, reviewedAt: BOOLEAN]

NoApplication == [status |-> "ABSENT", personal |-> FALSE, license |-> FALSE,
                  plateNumber |-> None,
                  rejectionReason |-> FALSE, submittedAt |-> FALSE, reviewedAt |-> FALSE]

CallStep == {"idle", "startCreate", "startReset", "personalUpdate", "licenseUpdate",
             "vehiclePlate", "vehicleCheck", "vehicleUpdate", "upload", "uploadSave",
             "uploadUpsert", "uploadDelete", "reviewReject", "reviewApprove"}

(* todo: the types still to upload; then: the step after the last of them;    *)
(* type, old, key: the upload under way, the key it found and the key it saved. *)
Call == [pc: CallStep, a: Applicants \cup {None}, plate: Plates \cup {None},
         todo: SUBSET DocumentTypes, then: CallStep,
         type: DocumentTypes \cup {None}, old: Keys \cup {None}, key: Keys \cup {None}]

IdleCall == [pc |-> "idle", a |-> None, plate |-> None, todo |-> {}, then |-> "idle",
             type |-> None, old |-> None, key |-> None]

(* The type of every variable. *)
TypeOK ==
  /\ application \in [Applicants -> Application]
  /\ profile \in SUBSET Applicants
  /\ document \in [Applicants -> [DocumentTypes -> Keys \cup {None}]]
  /\ files \in SUBSET issued
  /\ issued \in SUBSET Keys
  /\ call \in [Calls -> Call]

Init ==
  /\ application = [a \in Applicants |-> NoApplication]
  /\ profile = {}
  /\ document = [a \in Applicants |-> [t \in DocumentTypes |-> None]]
  /\ files = {} /\ issued = {}
  /\ call = [c \in Calls |-> IdleCall]

----------------------------------------------------------------------------
MayTouch(a) ==
  Exclusive => \A c \in Calls : call[c].pc # "idle" => call[c].a # a

Begin(c, pc, fields) ==
  /\ call[c].pc = "idle"
  /\ call' = [call EXCEPT ![c] = [fields EXCEPT !.pc = pc]]

GoTo(c, pc) == call' = [call EXCEPT ![c].pc = pc]
Return(c)   == call' = [call EXCEPT ![c] = IdleCall]

Update(a, row) == application' = [application EXCEPT ![a] = row]

(* findByUserId finds the application. *)
Exists(a) == application[a].status # "ABSENT"

(* uploadedTypes: the types with a document row. *)
UploadedTypes(a) == {t \in DocumentTypes : document[a][t] # None}

(* loadEditable: the application exists and is in one of the open statuses. *)
Editable(a) ==
  Exists(a) /\ application[a].status \notin {"UNDER_REVIEW", "VERIFIED", "REJECTED"}

PlateTaken(a, plate) ==
  \E b \in Applicants \ {a} : application[b].plateNumber = plate

----------------------------------------------------------------------------
(* start: the application is read.  There is none, or it was rejected; any   *)
(* other is returned or refused as it is.                                    *)
StartRead(c, a) ==
  /\ MayTouch(a)
  /\ \/ /\ application[a].status = "ABSENT"
        /\ Begin(c, "startCreate", [IdleCall EXCEPT !.a = a])
     \/ /\ application[a].status = "REJECTED"
        /\ Begin(c, "startReset", [IdleCall EXCEPT !.a = a])
  /\ UNCHANGED <<rows, storage>>

(* The create fails on the unique userId when the row is there by now. *)
StartCreate(c) ==
  /\ call[c].pc = "startCreate"
  /\ IF application[call[c].a].status = "ABSENT"
       THEN Update(call[c].a, [NoApplication EXCEPT !.status = "NOT_STARTED"])
       ELSE UNCHANGED application
  /\ Return(c)
  /\ UNCHANGED <<profile, document, storage>>

(* Mutant: what the last review left is kept. *)
StartResetKeepsReview(c) ==
  /\ call[c].pc = "startReset"
  /\ Update(call[c].a, [application[call[c].a] EXCEPT !.status = "NOT_STARTED"])
  /\ Return(c)
  /\ UNCHANGED <<profile, document, storage>>

StartReset(c) ==
  /\ call[c].pc = "startReset"
  /\ Update(call[c].a, [application[call[c].a] EXCEPT
       !.status = "NOT_STARTED", !.rejectionReason = FALSE,
       !.submittedAt = FALSE, !.reviewedAt = FALSE])
  /\ Return(c)
  /\ UNCHANGED <<profile, document, storage>>

(* Step 1, submitPersonalInfo. *)
PersonalRead(c, a) ==
  /\ MayTouch(a) /\ Editable(a)
  /\ Begin(c, "personalUpdate", [IdleCall EXCEPT !.a = a])
  /\ UNCHANGED <<rows, storage>>

PersonalUpdate(c) ==
  /\ call[c].pc = "personalUpdate"
  /\ Update(call[c].a, [application[call[c].a] EXCEPT
       !.status = "PERSONAL_INFO_SUBMITTED", !.personal = TRUE])
  /\ Return(c)
  /\ UNCHANGED <<profile, document, storage>>

(* Step 2, submitLicense: the image is uploaded, then the step is recorded. *)
LicenseRead(c, a) ==
  /\ MayTouch(a) /\ Editable(a)
  /\ Begin(c, "upload", [IdleCall EXCEPT !.a = a, !.todo = {LicenseType},
                                         !.then = "licenseUpdate"])
  /\ UNCHANGED <<rows, storage>>

LicenseUpdate(c) ==
  /\ call[c].pc = "licenseUpdate"
  /\ Update(call[c].a, [application[call[c].a] EXCEPT
       !.status = "LICENSE_SUBMITTED", !.license = TRUE])
  /\ Return(c)
  /\ UNCHANGED <<profile, document, storage>>

(* The files the controller passes on to step 3, one of a type at most and    *)
(* each optional.  They are uploaded one after the other, here in any order.  *)
VehicleFiles == SUBSET (VehicleTypes \cup OptionalTypes)

(* Step 3, submitVehicle: the plate must not be another application's ... *)
VehicleRead(c, a, plate, types) ==
  /\ MayTouch(a) /\ Editable(a)
  /\ Begin(c, "vehiclePlate", [IdleCall EXCEPT !.a = a, !.plate = plate, !.todo = types,
                                               !.then = "vehicleCheck"])
  /\ UNCHANGED <<rows, storage>>

VehiclePlate(c) ==
  /\ call[c].pc = "vehiclePlate"
  /\ IF PlateTaken(call[c].a, call[c].plate) THEN Return(c)
     ELSE GoTo(c, IF call[c].todo = {} THEN "vehicleCheck" ELSE "upload")
  /\ UNCHANGED <<rows, storage>>

(* Mutant: nothing is required. *)
VehicleCheckNothing(c) ==
  /\ call[c].pc = "vehicleCheck"
  /\ GoTo(c, "vehicleUpdate")
  /\ UNCHANGED <<rows, storage>>

(* ... after the uploads every required document must be there ... *)
VehicleCheck(c) ==
  /\ call[c].pc = "vehicleCheck"
  /\ IF RequiredTypes \subseteq UploadedTypes(call[c].a) THEN GoTo(c, "vehicleUpdate")
     ELSE Return(c)
  /\ UNCHANGED <<rows, storage>>

UnderReview(row, plate) ==
  [row EXCEPT !.status = "UNDER_REVIEW", !.plateNumber = plate, !.submittedAt = TRUE]

(* ... and the application goes to review, unless the unique plateNumber      *)
(* makes the update fail.                                                     *)
VehicleUpdate(c) ==
  /\ call[c].pc = "vehicleUpdate"
  /\ IF PlateTaken(call[c].a, call[c].plate) THEN UNCHANGED application
     ELSE Update(call[c].a, UnderReview(application[call[c].a], call[c].plate))
  /\ Return(c)
  /\ UNCHANGED <<profile, document, storage>>

(* Mutant: a document of any type may be sent in any status. *)
OptionalReadAnyType(c, a, t) ==
  /\ MayTouch(a)
  /\ Exists(a)
  /\ \E s \in DocumentTypes : Begin(c, "upload", [IdleCall EXCEPT !.a = a, !.todo = {s}])
  /\ UNCHANGED <<rows, storage>>

(* uploadOptionalDocument: in any status. *)
OptionalRead(c, a, t) ==
  /\ MayTouch(a)
  /\ Exists(a)
  /\ Begin(c, "upload", [IdleCall EXCEPT !.a = a, !.todo = {t}])
  /\ UNCHANGED <<rows, storage>>

----------------------------------------------------------------------------
(* DriverDocumentsService.upload, for one type after the other.               *)

(* The handler after the upload of its current type: the next one, or the     *)
(* step that follows the last.                                                *)
Uploaded(h) ==
  LET rest == h.todo \ {h.type}
  IN  IF rest = {} /\ h.then = "idle" THEN IdleCall
      ELSE [h EXCEPT !.pc = IF rest = {} THEN h.then ELSE "upload", !.todo = rest,
                     !.type = None, !.old = None, !.key = None]

(* The current document of the type is read ... *)
UploadRead(c, t) ==
  /\ call[c].pc = "upload"
  /\ t \in call[c].todo
  /\ call' = [call EXCEPT ![c].pc = "uploadSave", ![c].type = t,
                          ![c].old = document[call[c].a][t]]
  /\ UNCHANGED <<rows, storage>>

(* Mutant: the old file is removed before the row is written. *)
UploadSaveReplaces(c, k) ==
  /\ call[c].pc = "uploadSave"
  /\ k \notin issued
  /\ issued' = issued \cup {k}
  /\ files' = (files \cup {k}) \ {call[c].old}
  /\ call' = [call EXCEPT ![c].pc = "uploadUpsert", ![c].key = k]
  /\ UNCHANGED rows

(* ... the file is saved under a new key ... *)
UploadSave(c, k) ==
  /\ call[c].pc = "uploadSave"
  /\ k \notin issued
  /\ issued' = issued \cup {k}
  /\ files' = files \cup {k}
  /\ call' = [call EXCEPT ![c].pc = "uploadUpsert", ![c].key = k]
  /\ UNCHANGED rows

(* ... or the save fails, the storage being out of reach or full (all of the  *)
(* bound Keys drawn), and the handler throws ...                              *)
UploadSaveFails(c) ==
  /\ call[c].pc = "uploadSave"
  /\ "storage" \in Faults \/ issued = Keys
  /\ Return(c)
  /\ UNCHANGED <<rows, storage>>

(* Mutant: a replaced file is left behind. *)
UploadForgetsOld(c) ==
  /\ call[c].pc = "uploadUpsert"
  /\ document' = [document EXCEPT ![call[c].a][call[c].type] = call[c].key]
  /\ call' = [call EXCEPT ![c] = Uploaded(@)]
  /\ UNCHANGED <<application, profile, storage>>

(* ... the row is written ... *)
UploadUpsert(c) ==
  /\ call[c].pc = "uploadUpsert"
  /\ document' = [document EXCEPT ![call[c].a][call[c].type] = call[c].key]
  /\ call' = [call EXCEPT ![c] =
       IF call[c].old \in {None, call[c].key} THEN Uploaded(@)
       ELSE [@ EXCEPT !.pc = "uploadDelete", !.key = None]]
  /\ UNCHANGED <<application, profile, storage>>

(* ... and the file it replaces is removed, or is left when that fails. *)
UploadDelete(c) ==
  /\ call[c].pc = "uploadDelete"
  /\ files' = files \ {call[c].old}
  /\ call' = [call EXCEPT ![c] = Uploaded(@)]
  /\ UNCHANGED <<rows, issued>>

UploadDeleteFails(c) ==
  /\ "storage" \in Faults
  /\ call[c].pc = "uploadDelete"
  /\ call' = [call EXCEPT ![c] = Uploaded(@)]
  /\ UNCHANGED <<rows, storage>>

----------------------------------------------------------------------------
(* Mutant: a verified application may be reviewed again. *)
ReviewReadAgain(c, a) ==
  /\ MayTouch(a)
  /\ application[a].status \in {"UNDER_REVIEW", "VERIFIED"}
  /\ \E pc \in {"reviewReject", "reviewApprove"} : Begin(c, pc, [IdleCall EXCEPT !.a = a])
  /\ UNCHANGED <<rows, storage>>

(* review, with either decision. *)
ReviewRead(c, a) ==
  /\ MayTouch(a)
  /\ application[a].status = "UNDER_REVIEW"
  /\ \E pc \in {"reviewReject", "reviewApprove"} : Begin(c, pc, [IdleCall EXCEPT !.a = a])
  /\ UNCHANGED <<rows, storage>>

ReviewReject(c) ==
  /\ call[c].pc = "reviewReject"
  /\ Update(call[c].a, [application[call[c].a] EXCEPT
       !.status = "REJECTED", !.rejectionReason = TRUE, !.reviewedAt = TRUE])
  /\ Return(c)
  /\ UNCHANGED <<profile, document, storage>>

(* The transaction is rolled back by the unique userId of driver_profiles     *)
(* when there is a profile already.                                           *)
ReviewApprove(c) ==
  /\ call[c].pc = "reviewApprove"
  /\ IF call[c].a \in profile THEN UNCHANGED <<application, profile>>
     ELSE /\ Update(call[c].a, [application[call[c].a] EXCEPT
               !.status = "VERIFIED", !.rejectionReason = FALSE, !.reviewedAt = TRUE])
          /\ profile' = profile \cup {call[c].a}
  /\ Return(c)
  /\ UNCHANGED <<document, storage>>

(* An awaited call of the handler fails and it throws; what it has written    *)
(* stays.  A restart of the process is this for every handler in flight.      *)
Abort(c) ==
  /\ "abort" \in Faults
  /\ call[c].pc # "idle"
  /\ Return(c)
  /\ UNCHANGED <<rows, storage>>

----------------------------------------------------------------------------
(* The applicant's routes of DriverApplicationController; the one of the        *)
(* admin's that writes is the review.                                         *)
Submits(c, a) ==
  \/ StartRead(c, a) \/ PersonalRead(c, a) \/ LicenseRead(c, a)
  \/ \E plate \in Plates, types \in VehicleFiles :
       VehicleRead(c, a, plate, types)
  \/ \E t \in OptionalTypes : OptionalRead(c, a, t)

HandlerBegins(c, a) == Submits(c, a) \/ ReviewRead(c, a)

HandlerContinues(c) ==
  \/ StartCreate(c) \/ StartReset(c) \/ PersonalUpdate(c) \/ LicenseUpdate(c)
  \/ VehiclePlate(c) \/ VehicleCheck(c) \/ VehicleUpdate(c)
  \/ \E t \in DocumentTypes : UploadRead(c, t)
  \/ (\E k \in Keys : UploadSave(c, k)) \/ UploadSaveFails(c)
  \/ UploadUpsert(c) \/ UploadDelete(c) \/ UploadDeleteFails(c)
  \/ ReviewReject(c) \/ ReviewApprove(c)

Next ==
  \E c \in Calls :
    \/ \E a \in Applicants : HandlerBegins(c, a)
    \/ HandlerContinues(c)
    \/ Abort(c)

Spec == Init /\ [][Next]_vars

----------------------------------------------------------------------------
(* What holds of every interleaving, with every failure.                      *)

(* "The DB row is the source of truth": the file of every document is in      *)
(* storage, although two uploads of a type may each delete what they found.   *)
DocumentHasFile ==
  \A a \in Applicants, t \in DocumentTypes :
    document[a][t] # None => document[a][t] \in files

(* An application that was sent to review, and one whose user drives, has all *)
(* required documents and a plate number, whatever overtook the check.        *)
Complete(a) ==
  /\ application[a].plateNumber # None
  /\ \A t \in RequiredTypes : document[a][t] # None

ReviewedIsComplete ==
  \A a \in Applicants :
    a \in profile \/ application[a].status \in {"UNDER_REVIEW", "VERIFIED", "REJECTED"}
      => Complete(a)

(* What holds when the calls on one application do not overlap (Exclusive).   *)

(* "The row's existence IS the verification": a user has a DriverProfile just *)
(* when their application is VERIFIED.                                        *)
ProfileMeansVerified ==
  \A a \in Applicants : a \in profile <=> application[a].status = "VERIFIED"

(* The columns of a submission and of its review are those of the status: a   *)
(* restarted application shows nothing of the review that rejected it.        *)
StampsMatchStatus ==
  \A a \in Applicants :
    /\ application[a].rejectionReason <=> application[a].status = "REJECTED"
    /\ application[a].submittedAt <=>
         application[a].status \in {"UNDER_REVIEW", "VERIFIED", "REJECTED"}
    /\ application[a].reviewedAt <=> application[a].status \in {"VERIFIED", "REJECTED"}

(* "An application stops accepting step submissions once it's been sent for    *)
(* review" (loadEditable), although a step writes several awaits after it      *)
(* asked, and optional documents are accepted in every status: what is         *)
(* reviewed, approved or rejected is what was submitted, until a rejected      *)
(* application is restarted.                                                   *)
Submission(a) ==
  <<application[a].personal, application[a].license, application[a].plateNumber,
    [t \in RequiredTypes |-> document[a][t]]>>

ReviewedIsFixed ==
  [][\A a \in Applicants :
       application[a].status \in {"UNDER_REVIEW", "VERIFIED", "REJECTED"}
         => Submission(a)' = Submission(a)]_vars

(* Without failures, a file in storage is some document's, or in the hands of *)
(* an upload under way.                                                       *)
NoOrphanFile ==
  \A k \in files :
    \/ \E a \in Applicants, t \in DocumentTypes : document[a][t] = k
    \/ \E c \in Calls : k \in {call[c].key, call[c].old}

============================================================================
