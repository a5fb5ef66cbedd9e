---------------------- MODULE DriverApplication_proofs ----------------------
(* Proofs that the safety properties of DriverApplication hold for any        *)
(* number of applicants, calls and keys, with every overlap and failure.      *)
EXTENDS DriverApplication, TLAPS

(* What a handler may rely on once it has checked it. *)
KnowsApplication(h) ==
  /\ h.pc # "idle" => h.a \in Applicants
  /\ h.pc \in {"vehiclePlate", "vehicleCheck", "vehicleUpdate"} => h.plate \in Plates
  /\ h.then \in {"idle", "licenseUpdate", "vehicleCheck"}
  /\ h.then = "vehicleCheck" => h.plate \in Plates
  /\ h.then = "idle" => h.todo \subseteq OptionalTypes /\ h.type \in OptionalTypes \cup {None}
  /\ h.pc \in {"uploadSave", "uploadUpsert", "uploadDelete"} => h.type \in DocumentTypes
  /\ h.pc = "uploadUpsert" => h.key \in Keys
  /\ h.pc = "vehicleUpdate" => \A t \in RequiredTypes : document[h.a][t] # None
  /\ h.pc \in {"reviewReject", "reviewApprove"} => Complete(h.a)

HandlersKnow == \A c \in Calls : KnowsApplication(call[c])

(* An application that was not started has no plate number. *)
NothingBeforeStart ==
  \A a \in Applicants : application[a].status = "ABSENT" => application[a].plateNumber = None

(* The keys of the documents were drawn and each is one document's. *)
DocumentKeys ==
  /\ \A a \in Applicants, t \in DocumentTypes : document[a][t] \in issued \cup {None}
  /\ \A a, b \in Applicants, t, s \in DocumentTypes :
       document[a][t] = document[b][s] /\ document[a][t] # None => a = b /\ t = s

(* The key a handler has saved is nobody else's yet, and its file is there. *)
SavedKeys ==
  \A c \in Calls : call[c].key # None =>
    /\ call[c].key \in files
    /\ \A a \in Applicants, t \in DocumentTypes : document[a][t] # call[c].key
    /\ \A e \in Calls : call[e].old # call[c].key /\ (e # c => call[e].key # call[c].key)

(* The key a handler has found is, if still some document's, that of the one  *)
(* it is about to replace; once it has replaced it, it is no document's.      *)
FoundKeys ==
  \A c \in Calls : call[c].old # None =>
    /\ call[c].old \in issued
    /\ \A a \in Applicants, t \in DocumentTypes :
         document[a][t] = call[c].old =>
           call[c].pc # "uploadDelete" /\ a = call[c].a /\ t = call[c].type

(* Outside an upload a handler holds no key. *)
HoldsKeys(h) ==
  /\ h.key # None => h.pc = "uploadUpsert"
  /\ h.old # None => h.pc \in {"uploadSave", "uploadUpsert", "uploadDelete"}

KeysInUploads == \A c \in Calls : HoldsKeys(call[c])

KeyInv == DocumentKeys /\ SavedKeys /\ FoundKeys /\ KeysInUploads /\ DocumentHasFile

Inv ==
  /\ TypeOK /\ HandlersKnow /\ NothingBeforeStart
  /\ KeyInv /\ ReviewedIsComplete

----------------------------------------------------------------------------
(* The rows. *)

(* What a step that changes an application makes of its row. *)
RowUpdate(a, row) ==
  /\ Update(a, row) /\ row.status # "ABSENT"
  /\ application[a].plateNumber # None => row.plateNumber # None
  /\ profile' = profile \/ (profile' = profile \cup {a} /\ row.status = "VERIFIED")
  /\ row.status \in {"UNDER_REVIEW", "VERIFIED", "REJECTED"} =>
       row.plateNumber # None /\ \A t \in RequiredTypes : document[a][t] # None
  /\ document' = document

(* Each step leaves the applications alone or updates one of them so. *)
LEMMA RowUpdates ==
  ASSUME TypeOK, HandlersKnow, NothingBeforeStart, Next
  PROVE  \/ UNCHANGED <<application, profile>>
         \/ \E a \in Applicants, row \in Application : RowUpdate(a, row)
<1>0. PICK c \in Calls : (\E a \in Applicants : HandlerBegins(c, a)) \/ HandlerContinues(c) \/ Abort(c)
  BY DEF Next
<1> DEFINE app == application[call[c].a]
<1>1. CASE UNCHANGED <<application, profile>>
  BY <1>1
<1>2. ASSUME call[c].pc # "idle"
      PROVE  /\ call[c].a \in Applicants
             /\ app \in Application
             /\ app = [status |-> app.status, personal |-> app.personal, license |-> app.license,
                       plateNumber |-> app.plateNumber, rejectionReason |-> app.rejectionReason,
                       submittedAt |-> app.submittedAt, reviewedAt |-> app.reviewedAt]
  <2>1. call[c].a \in Applicants /\ app \in Application
    BY <1>2 DEF HandlersKnow, KnowsApplication, TypeOK
  <2> QED BY <2>1 DEF Application
<1>3. CASE StartCreate(c)
  <2> DEFINE row == [NoApplication EXCEPT !.status = "NOT_STARTED"]
  <2>1. row \in Application
    BY DEF NoApplication, Application, Status
  <2>2. CASE app.status = "ABSENT"
    <3>1. row.status = "NOT_STARTED" /\ row.plateNumber = None
      BY DEF NoApplication
    <3>2. RowUpdate(call[c].a, row)
      BY <1>2, <1>3, <2>2, <3>1 DEF StartCreate, RowUpdate, NothingBeforeStart
    <3> QED BY <1>2, <1>3, <2>1, <3>2 DEF StartCreate
  <2> QED BY <1>3, <2>2 DEF StartCreate
<1>4. CASE StartReset(c)
  <2> DEFINE row == [app EXCEPT !.status = "NOT_STARTED", !.rejectionReason = FALSE,
                                !.submittedAt = FALSE, !.reviewedAt = FALSE]
  <2>1. row \in Application /\ row.status = "NOT_STARTED" /\ row.plateNumber = app.plateNumber
    BY <1>2, <1>4 DEF StartReset, Application, Status
  <2>2. RowUpdate(call[c].a, row)
    BY <1>4, <2>1 DEF StartReset, RowUpdate
  <2> QED BY <1>2, <1>4, <2>1, <2>2 DEF StartReset
<1>5. CASE PersonalUpdate(c)
  <2> DEFINE row == [app EXCEPT !.status = "PERSONAL_INFO_SUBMITTED", !.personal = TRUE]
  <2>1. /\ row \in Application
        /\ row.status = "PERSONAL_INFO_SUBMITTED" /\ row.plateNumber = app.plateNumber
    BY <1>2, <1>5 DEF PersonalUpdate, Application, Status
  <2>2. RowUpdate(call[c].a, row)
    BY <1>5, <2>1 DEF PersonalUpdate, RowUpdate
  <2> QED BY <1>2, <1>5, <2>1, <2>2 DEF PersonalUpdate
<1>6. CASE LicenseUpdate(c)
  <2> DEFINE row == [app EXCEPT !.status = "LICENSE_SUBMITTED", !.license = TRUE]
  <2>1. /\ row \in Application
        /\ row.status = "LICENSE_SUBMITTED" /\ row.plateNumber = app.plateNumber
    BY <1>2, <1>6 DEF LicenseUpdate, Application, Status
  <2>2. RowUpdate(call[c].a, row)
    BY <1>6, <2>1 DEF LicenseUpdate, RowUpdate
  <2> QED BY <1>2, <1>6, <2>1, <2>2 DEF LicenseUpdate
<1>7. CASE VehicleUpdate(c) /\ ~ PlateTaken(call[c].a, call[c].plate)
  <2> DEFINE row == UnderReview(app, call[c].plate)
  <2>0. call[c].plate \in Plates /\ call[c].plate # None
    BY <1>7, ApplicationAssumption DEF VehicleUpdate, HandlersKnow, KnowsApplication
  <2>1. /\ row \in Application
        /\ row.plateNumber = call[c].plate /\ row.status = "UNDER_REVIEW"
    BY <1>2, <1>7, <2>0 DEF VehicleUpdate, UnderReview, Application, Status
  <2>2. \A t \in RequiredTypes : document[call[c].a][t] # None
    BY <1>7 DEF VehicleUpdate, HandlersKnow, KnowsApplication
  <2>3. RowUpdate(call[c].a, row)
    BY <1>7, <2>0, <2>1, <2>2 DEF VehicleUpdate, RowUpdate
  <2> QED BY <1>2, <1>7, <2>1, <2>3 DEF VehicleUpdate
<1>8. CASE ReviewReject(c)
  <2> DEFINE row == [app EXCEPT !.status = "REJECTED", !.rejectionReason = TRUE,
                                !.reviewedAt = TRUE]
  <2>1. row \in Application /\ row.plateNumber = app.plateNumber /\ row.status = "REJECTED"
    BY <1>2, <1>8 DEF ReviewReject, Application, Status
  <2>2. Complete(call[c].a)
    BY <1>8 DEF ReviewReject, HandlersKnow, KnowsApplication
  <2>3. RowUpdate(call[c].a, row)
    BY <1>8, <2>1, <2>2 DEF ReviewReject, RowUpdate, Complete
  <2> QED BY <1>2, <1>8, <2>1, <2>3 DEF ReviewReject
<1>9. CASE ReviewApprove(c) /\ call[c].a \notin profile
  <2> DEFINE row == [app EXCEPT !.status = "VERIFIED", !.rejectionReason = FALSE,
                                !.reviewedAt = TRUE]
  <2>1. row \in Application /\ row.plateNumber = app.plateNumber /\ row.status = "VERIFIED"
    BY <1>2, <1>9 DEF ReviewApprove, Application, Status
  <2>2. Complete(call[c].a)
    BY <1>9 DEF ReviewApprove, HandlersKnow, KnowsApplication
  <2>3. RowUpdate(call[c].a, row)
    BY <1>9, <2>1, <2>2 DEF ReviewApprove, RowUpdate, Complete
  <2> QED BY <1>2, <1>9, <2>1, <2>3 DEF ReviewApprove
<1>10. CASE VehicleUpdate(c) \/ ReviewApprove(c)
  BY <1>1, <1>7, <1>9, <1>10 DEF VehicleUpdate, ReviewApprove
<1> QED
  BY <1>0, <1>1, <1>3, <1>4, <1>5, <1>6, <1>8, <1>10
  DEF HandlerBegins, Submits, HandlerContinues, rows, StartRead, PersonalRead, LicenseRead, VehicleRead,
      OptionalRead, ReviewRead, VehiclePlate, VehicleCheck, UploadRead, UploadSave,
      UploadSaveFails, UploadUpsert, UploadDelete, UploadDeleteFails, Abort

(* The steps that change documents, files or keys are those of an upload. *)
LEMMA StorageUpdates ==
  ASSUME TypeOK, HandlersKnow, Next
  PROVE  \/ UNCHANGED <<document, storage>>
         \/ \E c \in Calls : \/ \E k \in Keys : UploadSave(c, k)
                            \/ UploadUpsert(c) \/ UploadDelete(c)
<1>0. PICK c \in Calls : (\E a \in Applicants : HandlerBegins(c, a)) \/ HandlerContinues(c) \/ Abort(c)
  BY DEF Next
<1>1. CASE (\E a \in Applicants : HandlerBegins(c, a)) \/ Abort(c)
  BY <1>1 DEF HandlerBegins, Submits, rows, StartRead, PersonalRead, LicenseRead, VehicleRead,
     OptionalRead, ReviewRead, Abort
<1>2. CASE HandlerContinues(c)
  BY <1>2 DEF HandlerContinues, rows, StartCreate, StartReset, PersonalUpdate, LicenseUpdate,
     VehiclePlate, VehicleCheck, VehicleUpdate, UploadRead, UploadSaveFails, UploadDeleteFails,
     ReviewReject, ReviewApprove
<1> QED BY <1>0, <1>1, <1>2

(* Documents, files and keys keep their types, and documents are not removed. *)
LEMMA DocumentsKept ==
  ASSUME TypeOK, HandlersKnow, Next
  PROVE  /\ document' \in [Applicants -> [DocumentTypes -> Keys \cup {None}]]
         /\ files' \in SUBSET issued' /\ issued' \in SUBSET Keys
         /\ \A a \in Applicants, t \in DocumentTypes :
              document[a][t] # None => document'[a][t] # None
<1>1. CASE UNCHANGED <<document, storage>>
  BY <1>1 DEF TypeOK, storage
<1>2. ASSUME NEW c \in Calls, NEW k \in Keys, UploadSave(c, k)
      PROVE  /\ document' = document
             /\ files' \in SUBSET issued' /\ issued' \in SUBSET Keys
  BY <1>2 DEF UploadSave, rows, TypeOK
<1>3. ASSUME NEW c \in Calls, UploadUpsert(c)
      PROVE  /\ document' \in [Applicants -> [DocumentTypes -> Keys \cup {None}]]
             /\ UNCHANGED storage
             /\ \A a \in Applicants, t \in DocumentTypes :
                  document[a][t] # None => document'[a][t] # None
  <2>1. /\ call[c].a \in Applicants /\ call[c].type \in DocumentTypes
        /\ call[c].key \in Keys /\ call[c].key # None
    BY <1>3, ApplicationAssumption DEF UploadUpsert, HandlersKnow, KnowsApplication
  <2> QED BY <1>3, <2>1 DEF UploadUpsert, TypeOK
<1>4. ASSUME NEW c \in Calls, UploadDelete(c)
      PROVE  document' = document /\ files' \in SUBSET issued' /\ issued' \in SUBSET Keys
  BY <1>4 DEF UploadDelete, rows, TypeOK
<1> QED BY <1>1, <1>2, <1>3, <1>4, StorageUpdates DEF TypeOK, storage

(* Applications keep their type, their plate numbers, and what they must be    *)
(* when they are reviewed.                                                     *)
LEMMA RowsPreserved ==
  ASSUME Inv, Next
  PROVE  /\ application' \in [Applicants -> Application] /\ profile' \in SUBSET Applicants
         /\ \A a \in Applicants : application[a].plateNumber # None =>
                                   application'[a].plateNumber # None
         /\ NothingBeforeStart' /\ ReviewedIsComplete'
<1> USE DEF Inv
<1>1. CASE UNCHANGED <<application, profile>>
  <2>1. ReviewedIsComplete'
    BY <1>1, DocumentsKept DEF ReviewedIsComplete, Complete, RequiredTypes, DocumentTypes
  <2> QED BY <1>1, <2>1 DEF TypeOK, NothingBeforeStart
<1>2. ASSUME NEW a \in Applicants, NEW row \in Application, RowUpdate(a, row)
      PROVE  /\ application' \in [Applicants -> Application] /\ profile' \in SUBSET Applicants
             /\ \A b \in Applicants : application[b].plateNumber # None =>
                                       application'[b].plateNumber # None
             /\ NothingBeforeStart' /\ ReviewedIsComplete'
  <2>1. /\ application' \in [Applicants -> Application]
        /\ application'[a] = row /\ \A b \in Applicants \ {a} : application'[b] = application[b]
    BY <1>2 DEF RowUpdate, Update, TypeOK
  <2>2. profile' \in SUBSET Applicants
    BY <1>2 DEF RowUpdate, TypeOK
  <2>3. \A b \in Applicants : application[b].plateNumber # None =>
                               application'[b].plateNumber # None
    BY <1>2, <2>1 DEF RowUpdate
  <2>4. NothingBeforeStart'
    BY <1>2, <2>1 DEF RowUpdate, NothingBeforeStart
  <2>5. ReviewedIsComplete'
    <3> SUFFICES ASSUME NEW b \in Applicants,
                        b \in profile' \/ application'[b].status \in {"UNDER_REVIEW", "VERIFIED", "REJECTED"}
                 PROVE  /\ application'[b].plateNumber # None
                        /\ \A t \in RequiredTypes : document[b][t] # None
      BY <1>2 DEF ReviewedIsComplete, Complete, RowUpdate
    <3>1. CASE b \in profile \/ (b # a /\ application[b].status \in {"UNDER_REVIEW", "VERIFIED", "REJECTED"})
      BY <2>3, <3>1 DEF ReviewedIsComplete, Complete
    <3>2. CASE b = a /\ row.status \in {"UNDER_REVIEW", "VERIFIED", "REJECTED"}
      BY <1>2, <2>1, <3>2 DEF RowUpdate
    <3> QED BY <1>2, <2>1, <3>1, <3>2 DEF RowUpdate
  <2> QED BY <2>1, <2>2, <2>3, <2>4, <2>5
<1> QED BY <1>1, <1>2, RowUpdates

----------------------------------------------------------------------------
(* The handlers. *)

Quiet(h) == h.key = None /\ h.old = None

(* A step of handler c gives it a record that its checks account for, and     *)
(* only an upload under way leaves it with keys.                              *)
Moves(c) ==
  \E h \in Call :
    /\ call' = [call EXCEPT ![c] = h]
    /\ KnowsApplication(h) /\ HoldsKeys(h)
    /\ \/ Quiet(h)
       \/ \E t \in DocumentTypes : UploadRead(c, t)
       \/ \E k \in Keys : UploadSave(c, k)
       \/ UploadUpsert(c)

LEMMA IdleRecord == IdleCall \in Call /\ KnowsApplication(IdleCall) /\ HoldsKeys(IdleCall) /\ Quiet(IdleCall)
BY DEF IdleCall, Call, CallStep, KnowsApplication, HoldsKeys, Quiet

LEMMA UploadedRecord ==
  ASSUME NEW h \in Call, KnowsApplication(h), h.pc \in {"uploadUpsert", "uploadDelete"}
  PROVE  /\ Uploaded(h) \in Call /\ KnowsApplication(Uploaded(h))
         /\ HoldsKeys(Uploaded(h)) /\ Quiet(Uploaded(h))
<1> DEFINE rest == h.todo \ {h.type}
           pc == IF rest = {} THEN h.then ELSE "upload"
           g == [h EXCEPT !.pc = pc, !.todo = rest, !.type = None, !.old = None, !.key = None]
<1>1. CASE rest = {} /\ h.then = "idle"
  BY <1>1, IdleRecord DEF Uploaded
<1>2. CASE ~ (rest = {} /\ h.then = "idle")
  <2>1. Uploaded(h) = g
    BY <1>2 DEF Uploaded
  <2>2. pc \in {"licenseUpdate", "vehicleCheck", "upload"} /\ (pc = "vehicleCheck" => h.then = "vehicleCheck")
    BY <1>2 DEF KnowsApplication
  <2>3. g \in Call
    <3>1. pc \in CallStep /\ rest \in SUBSET DocumentTypes
      BY <2>2 DEF Call, CallStep
    <3> HIDE DEF pc, rest
    <3> QED BY <3>1 DEF Call
  <2>4. /\ g.pc = pc /\ g.key = None /\ g.old = None /\ g.a = h.a
        /\ g.plate = h.plate /\ g.then = h.then
    BY DEF Call
  <2>5. KnowsApplication(g)
    BY <2>2, <2>4 DEF KnowsApplication
  <2>6. HoldsKeys(g) /\ Quiet(g)
    BY <2>4 DEF HoldsKeys, Quiet
  <2> QED BY <2>1, <2>3, <2>5, <2>6
<1> QED BY <1>1, <1>2

(* A call begins. *)
LEMMA BeginMoves ==
  ASSUME Inv, NEW c \in Calls, NEW a \in Applicants, HandlerBegins(c, a)
  PROVE  Moves(c)
<1> USE DEF Inv
<1>1. ASSUME NEW pc, NEW f \in Call, Begin(c, pc, f), f.key = None, f.old = None,
             [f EXCEPT !.pc = pc] \in Call, KnowsApplication([f EXCEPT !.pc = pc])
      PROVE  Moves(c)
  <2> DEFINE h == [f EXCEPT !.pc = pc]
  <2>1. h.key = None /\ h.old = None
    BY <1>1 DEF Call
  <2>2. HoldsKeys(h) /\ Quiet(h)
    BY <2>1 DEF HoldsKeys, Quiet
  <2> QED BY <1>1, <2>2 DEF Begin, Moves
<1>2. ASSUME NEW pc \in {"startCreate", "startReset", "personalUpdate", "reviewReject", "reviewApprove"},
             Begin(c, pc, [IdleCall EXCEPT !.a = a]),
             pc \in {"reviewReject", "reviewApprove"} => Complete(a)
      PROVE  Moves(c)
  <2> DEFINE f == [IdleCall EXCEPT !.a = a]
             h == [f EXCEPT !.pc = pc]
  <2>1. f \in Call /\ f.key = None /\ f.old = None /\ h \in Call
    BY <1>2 DEF IdleCall, Call, CallStep
  <2>2. h.pc = pc /\ h.a = a /\ h.then = "idle" /\ h.todo = {} /\ h.type = None
    BY DEF IdleCall
  <2>3. KnowsApplication(h)
    BY <1>2, <2>2 DEF KnowsApplication
  <2> QED BY <1>1, <1>2, <2>1, <2>3
<1>3. CASE StartRead(c, a) \/ PersonalRead(c, a)
  BY <1>2, <1>3 DEF StartRead, PersonalRead
<1>4. CASE ReviewRead(c, a)
  <2>1. Complete(a)
    BY <1>4 DEF ReviewRead, ReviewedIsComplete
  <2> QED BY <1>2, <1>4, <2>1 DEF ReviewRead
<1>5. CASE LicenseRead(c, a)
  <2> DEFINE f == [IdleCall EXCEPT !.a = a, !.todo = {LicenseType}, !.then = "licenseUpdate"]
             h == [f EXCEPT !.pc = "upload"]
  <2>1. f \in Call /\ f.key = None /\ f.old = None /\ h \in Call
    BY DEF IdleCall, Call, CallStep, DocumentTypes, RequiredTypes
  <2>2. h.pc = "upload" /\ h.a = a /\ h.then = "licenseUpdate"
    BY DEF IdleCall
  <2>3. KnowsApplication(h)
    BY <2>2 DEF KnowsApplication
  <2> QED BY <1>1, <1>5, <2>1, <2>3 DEF LicenseRead
<1>6. ASSUME NEW plate \in Plates, NEW types \in VehicleFiles, VehicleRead(c, a, plate, types)
      PROVE  Moves(c)
  <2> DEFINE f == [IdleCall EXCEPT !.a = a, !.plate = plate, !.todo = types, !.then = "vehicleCheck"]
             h == [f EXCEPT !.pc = "vehiclePlate"]
  <2>1. f \in Call /\ f.key = None /\ f.old = None /\ h \in Call
    BY DEF IdleCall, Call, CallStep, DocumentTypes, RequiredTypes, VehicleFiles
  <2>2. h.pc = "vehiclePlate" /\ h.a = a /\ h.then = "vehicleCheck" /\ h.plate = plate
    BY DEF IdleCall
  <2>3. KnowsApplication(h)
    BY <2>2 DEF KnowsApplication
  <2> QED BY <1>1, <1>6, <2>1, <2>3 DEF VehicleRead
<1>7. ASSUME NEW t \in OptionalTypes, OptionalRead(c, a, t) PROVE Moves(c)
  <2> DEFINE f == [IdleCall EXCEPT !.a = a, !.todo = {t}]
             h == [f EXCEPT !.pc = "upload"]
  <2>1. f \in Call /\ f.key = None /\ f.old = None /\ h \in Call
    BY DEF IdleCall, Call, CallStep, DocumentTypes
  <2>2. h.pc = "upload" /\ h.a = a /\ h.then = "idle" /\ h.todo = {t} /\ h.type = None
    BY DEF IdleCall
  <2>3. KnowsApplication(h)
    BY <2>2 DEF KnowsApplication
  <2> QED BY <1>1, <1>7, <2>1, <2>3 DEF OptionalRead
<1> QED BY <1>3, <1>4, <1>5, <1>6, <1>7 DEF HandlerBegins, Submits

(* A call goes on, returns or fails. *)
LEMMA ContinueMoves ==
  ASSUME Inv, NEW c \in Calls, HandlerContinues(c) \/ Abort(c)
  PROVE  Moves(c)
<1> USE DEF Inv
<1>0. call[c] \in Call /\ KnowsApplication(call[c]) /\ HoldsKeys(call[c])
  BY DEF TypeOK, HandlersKnow, KeyInv, KeysInUploads
<1>1. CASE Return(c)
  BY <1>1, IdleRecord DEF Return, Moves
<1>2. ASSUME NEW pc \in {"upload", "vehicleCheck", "vehicleUpdate"}, GoTo(c, pc),
             call[c].pc \in {"vehiclePlate", "vehicleCheck"},
             pc = "vehicleUpdate" => \A t \in RequiredTypes : document[call[c].a][t] # None
      PROVE  Moves(c)
  <2> DEFINE h == [call[c] EXCEPT !.pc = pc]
  <2>1. h \in Call
    BY <1>0, <1>2 DEF Call, CallStep
  <2>2. /\ h.pc = pc /\ h.a = call[c].a /\ h.plate = call[c].plate /\ h.then = call[c].then
        /\ h.key = call[c].key /\ h.old = call[c].old
    BY <1>0 DEF Call
  <2>3. h.key = None /\ h.old = None
    BY <1>0, <1>2, <2>2 DEF HoldsKeys
  <2>4. KnowsApplication(h)
    BY <1>0, <1>2, <2>2 DEF KnowsApplication
  <2>5. HoldsKeys(h) /\ Quiet(h)
    BY <2>3 DEF HoldsKeys, Quiet
  <2>6. call' = [call EXCEPT ![c] = h]
    BY <1>2 DEF GoTo
  <2> QED BY <2>1, <2>4, <2>5, <2>6 DEF Moves
<1>3. CASE VehiclePlate(c) \/ VehicleCheck(c)
  <2>1. CASE VehiclePlate(c)
    BY <1>1, <1>2, <2>1 DEF VehiclePlate
  <2>2. CASE VehicleCheck(c)
    <3>1. RequiredTypes \subseteq UploadedTypes(call[c].a) =>
            \A t \in RequiredTypes : document[call[c].a][t] # None
      BY DEF UploadedTypes
    <3> QED BY <1>1, <1>2, <2>2, <3>1 DEF VehicleCheck
  <2> QED BY <1>3, <2>1, <2>2
<1>4. ASSUME NEW t \in DocumentTypes, UploadRead(c, t) PROVE Moves(c)
  <2> DEFINE h == [call[c] EXCEPT !.pc = "uploadSave", !.type = t, !.old = document[call[c].a][t]]
  <2>1. call[c].a \in Applicants
    BY <1>0, <1>4 DEF UploadRead, KnowsApplication
  <2>2. document[call[c].a][t] \in Keys \cup {None}
    BY <2>1 DEF TypeOK
  <2>3. h \in Call
    BY <1>0, <2>2 DEF Call, CallStep
  <2>4. /\ h.pc = "uploadSave" /\ h.a = call[c].a /\ h.plate = call[c].plate
        /\ h.then = call[c].then /\ h.type = t /\ h.key = call[c].key
    BY <1>0 DEF Call
  <2>5. KnowsApplication(h) /\ HoldsKeys(h)
    BY <1>0, <1>4, <2>4 DEF UploadRead, KnowsApplication, HoldsKeys
  <2>6. call' = [call EXCEPT ![c] = h]
    BY <1>4 DEF UploadRead
  <2> QED BY <1>4, <2>3, <2>5, <2>6 DEF Moves
<1>5. ASSUME NEW k \in Keys, UploadSave(c, k) PROVE Moves(c)
  <2> DEFINE h == [call[c] EXCEPT !.pc = "uploadUpsert", !.key = k]
  <2>3. h \in Call
    BY <1>0 DEF Call, CallStep
  <2>4. /\ h.pc = "uploadUpsert" /\ h.a = call[c].a /\ h.plate = call[c].plate
        /\ h.then = call[c].then /\ h.type = call[c].type /\ h.key = k /\ h.old = call[c].old
    BY <1>0 DEF Call
  <2>5. KnowsApplication(h) /\ HoldsKeys(h)
    BY <1>0, <1>5, <2>4 DEF UploadSave, KnowsApplication, HoldsKeys
  <2>6. call' = [call EXCEPT ![c] = h]
    BY <1>5 DEF UploadSave
  <2> QED BY <1>5, <2>3, <2>5, <2>6 DEF Moves
<1>6. CASE UploadUpsert(c) /\ call[c].old \notin {None, call[c].key}
  <2> DEFINE h == [call[c] EXCEPT !.pc = "uploadDelete", !.key = None]
  <2>3. h \in Call
    BY <1>0 DEF Call, CallStep
  <2>4. /\ h.pc = "uploadDelete" /\ h.a = call[c].a /\ h.plate = call[c].plate
        /\ h.then = call[c].then /\ h.type = call[c].type /\ h.key = None
    BY <1>0 DEF Call
  <2>5. KnowsApplication(h) /\ HoldsKeys(h)
    BY <1>0, <1>6, <2>4 DEF UploadUpsert, KnowsApplication, HoldsKeys
  <2>6. call' = [call EXCEPT ![c] = h]
    BY <1>6 DEF UploadUpsert
  <2> QED BY <1>6, <2>3, <2>5, <2>6 DEF Moves
<1>7. ASSUME call' = [call EXCEPT ![c] = Uploaded(@)], call[c].pc \in {"uploadUpsert", "uploadDelete"}
      PROVE  Moves(c)
  BY <1>0, <1>7, UploadedRecord DEF Moves
<1>8. CASE UploadUpsert(c) \/ UploadDelete(c) \/ UploadDeleteFails(c)
  BY <1>6, <1>7, <1>8 DEF UploadUpsert, UploadDelete, UploadDeleteFails
<1> QED BY <1>1, <1>3, <1>4, <1>5, <1>8
        DEF HandlerContinues, Abort, StartCreate, StartReset, PersonalUpdate, LicenseUpdate,
            VehicleUpdate, UploadSaveFails, ReviewReject, ReviewApprove

(* The handlers' records keep their type and what they know. *)
LEMMA HandlersPreserved ==
  ASSUME Inv, Next
  PROVE  call' \in [Calls -> Call] /\ HandlersKnow' /\ KeysInUploads'
<1>1. PICK c \in Calls : Moves(c)
  BY BeginMoves, ContinueMoves DEF Next
<1>2. PICK h \in Call : call' = [call EXCEPT ![c] = h] /\ KnowsApplication(h) /\ HoldsKeys(h)
  BY <1>1 DEF Moves
<1>3. call' \in [Calls -> Call]
  BY <1>2 DEF Inv, TypeOK
<1>4. \A e \in Calls : KnowsApplication(call'[e]) /\ HoldsKeys(call'[e])
  BY <1>2 DEF Inv, TypeOK, HandlersKnow, KeyInv, KeysInUploads
<1>5. ASSUME NEW e \in Calls, KnowsApplication(call'[e]) PROVE KnowsApplication(call[e])'
  <2>1. /\ \A a \in Applicants, t \in DocumentTypes : document[a][t] # None => document'[a][t] # None
        /\ \A a \in Applicants : application[a].plateNumber # None =>
                                  application'[a].plateNumber # None
    BY DocumentsKept, RowsPreserved DEF Inv
  <2> QED BY <1>5, <2>1 DEF KnowsApplication, Complete, RequiredTypes, DocumentTypes
<1>6. KeysInUploads'
  BY <1>4 DEF KeysInUploads, HoldsKeys
<1> QED BY <1>3, <1>4, <1>5, <1>6 DEF HandlersKnow

----------------------------------------------------------------------------
(* The keys. *)

(* A step that leaves a handler with no key and changes no document keeps the  *)
(* keys apart; it may remove a file that no document and no handler needs.     *)
LEMMA QuietKeys ==
  ASSUME Inv, NEW c \in Calls, NEW h \in Call, Quiet(h), call' = [call EXCEPT ![c] = h],
         UNCHANGED <<document, issued>>,
         \/ files' = files
         \/ files' = files \ {call[c].old} /\ call[c].pc = "uploadDelete" /\ call[c].old # None
  PROVE  DocumentKeys' /\ SavedKeys' /\ FoundKeys' /\ DocumentHasFile'
<1> USE DEF Inv, KeyInv
<1>1. /\ \A e \in Calls \ {c} : call'[e] = call[e]
      /\ call'[c].key = None /\ call'[c].old = None
  BY DEF TypeOK, Quiet
<1>2. DocumentKeys'
  BY DEF DocumentKeys
<1>3. DocumentHasFile'
  BY DEF DocumentHasFile, FoundKeys
<1>4. SavedKeys'
  BY <1>1 DEF SavedKeys
<1>5. FoundKeys'
  BY <1>1 DEF FoundKeys
<1> QED BY <1>2, <1>3, <1>4, <1>5

(* upload reads the key it will replace. *)
LEMMA ReadKeys ==
  ASSUME Inv, NEW c \in Calls, NEW t \in DocumentTypes, UploadRead(c, t)
  PROVE  DocumentKeys' /\ SavedKeys' /\ FoundKeys' /\ DocumentHasFile'
<1> USE DEF Inv, KeyInv
<1> DEFINE a0 == call[c].a
<1>0. a0 \in Applicants /\ call[c].key = None
  BY DEF UploadRead, HandlersKnow, KnowsApplication, KeysInUploads, HoldsKeys
<1>1. /\ \A e \in Calls \ {c} : call'[e] = call[e]
      /\ call'[c].key = None /\ call'[c].old = document[a0][t]
      /\ call'[c].a = a0 /\ call'[c].type = t /\ call'[c].pc = "uploadSave"
  BY <1>0 DEF UploadRead, TypeOK, Call
<1>2. UNCHANGED <<document, issued, files>>
  BY DEF UploadRead, rows, storage
<1>3. DocumentKeys' /\ DocumentHasFile'
  BY <1>2 DEF DocumentKeys, DocumentHasFile
<1>4. SavedKeys'
  BY <1>0, <1>1, <1>2 DEF SavedKeys
<1>5. FoundKeys'
  BY <1>0, <1>1, <1>2 DEF FoundKeys, DocumentKeys
<1> QED BY <1>3, <1>4, <1>5

(* upload saves a file under a key that was never drawn. *)
LEMMA SaveKeys ==
  ASSUME Inv, NEW c \in Calls, NEW k \in Keys, UploadSave(c, k)
  PROVE  DocumentKeys' /\ SavedKeys' /\ FoundKeys' /\ DocumentHasFile'
<1> USE DEF Inv, KeyInv
<1>0. /\ k \notin issued /\ k # None
      /\ document' = document /\ issued' = issued \cup {k} /\ files' = files \cup {k}
  BY ApplicationAssumption DEF UploadSave, rows
<1>1. /\ \A e \in Calls \ {c} : call'[e] = call[e]
      /\ call'[c].key = k /\ call'[c].old = call[c].old
      /\ call'[c].a = call[c].a /\ call'[c].type = call[c].type
      /\ call'[c].pc = "uploadUpsert"
  BY DEF UploadSave, TypeOK, Call
<1>2. /\ \A a \in Applicants, t \in DocumentTypes : document[a][t] # k
      /\ \A e \in Calls : call[e].old # k
      /\ \A e \in Calls : call[e].key # k
  BY <1>0 DEF DocumentKeys, FoundKeys, SavedKeys, TypeOK
<1>3. DocumentKeys' /\ DocumentHasFile'
  BY <1>0 DEF DocumentKeys, DocumentHasFile
<1>4. SavedKeys'
  BY <1>0, <1>1, <1>2 DEF SavedKeys
<1>5. FoundKeys'
  <2>1. \A e \in Calls :
          /\ call'[e].old = call[e].old /\ call'[e].a = call[e].a /\ call'[e].type = call[e].type
          /\ call'[e].pc = "uploadDelete" => call[e].pc = "uploadDelete"
    BY <1>1
  <2> QED BY <1>0, <2>1 DEF FoundKeys
<1> QED BY <1>3, <1>4, <1>5

(* upload writes the row: the saved key takes the place of the found one. *)
LEMMA UpsertKeys ==
  ASSUME Inv, NEW c \in Calls, UploadUpsert(c)
  PROVE  DocumentKeys' /\ SavedKeys' /\ FoundKeys' /\ DocumentHasFile'
<1> USE DEF Inv, KeyInv
<1> DEFINE a0 == call[c].a
           t0 == call[c].type
           k == call[c].key
<1>0. a0 \in Applicants /\ t0 \in DocumentTypes /\ k \in Keys /\ k # None
  BY ApplicationAssumption DEF UploadUpsert, HandlersKnow, KnowsApplication
<1>1. UNCHANGED <<issued, files>>
  BY DEF UploadUpsert, storage
<1>2. /\ document'[a0][t0] = k
      /\ \A a \in Applicants, t \in DocumentTypes :
           (a # a0 \/ t # t0) => document'[a][t] = document[a][t]
  BY <1>0 DEF UploadUpsert, TypeOK
<1>3. /\ \A e \in Calls \ {c} : call'[e] = call[e]
      /\ call'[c].key = None
      /\ call'[c].old # None => call'[c].old = call[c].old /\ call'[c].pc = "uploadDelete"
  <2>1. call \in [Calls -> Call] /\ call[c] \in Call
    BY DEF TypeOK
  <2>2. CASE call[c].old \in {None, k}
    <3>1. Quiet(Uploaded(call[c]))
      BY <2>1, UploadedRecord DEF UploadUpsert, HandlersKnow
    <3> QED BY <2>1, <2>2, <3>1 DEF UploadUpsert, Quiet
  <2>3. CASE call[c].old \notin {None, k}
    BY <2>1, <2>3 DEF UploadUpsert, Call
  <2> QED BY <2>2, <2>3
<1>4. /\ k \in files /\ k \in issued
      /\ \A a \in Applicants, t \in DocumentTypes : document[a][t] # k
      /\ \A e \in Calls : call[e].old # k /\ (e # c => call[e].key # k)
  BY <1>0 DEF SavedKeys, TypeOK
<1>5. DocumentKeys'
  <2>1. \A a \in Applicants, t \in DocumentTypes : document'[a][t] \in issued \cup {None}
    BY <1>0, <1>2, <1>4 DEF DocumentKeys
  <2>2. \A a, b \in Applicants, t, s \in DocumentTypes :
          document'[a][t] = document'[b][s] /\ document'[a][t] # None => a = b /\ t = s
    BY <1>0, <1>2, <1>4 DEF DocumentKeys
  <2> QED BY <1>1, <2>1, <2>2 DEF DocumentKeys
<1>6. DocumentHasFile'
  BY <1>1, <1>2, <1>4 DEF DocumentHasFile
<1>7. SavedKeys'
  BY <1>1, <1>2, <1>3, <1>4 DEF SavedKeys
<1>8. FoundKeys'
  BY <1>1, <1>2, <1>3, <1>4 DEF FoundKeys
<1> QED BY <1>5, <1>6, <1>7, <1>8

LEMMA KeysPreserved ==
  ASSUME Inv, Next
  PROVE  KeyInv'
<1>1. DocumentKeys' /\ SavedKeys' /\ FoundKeys' /\ DocumentHasFile'
  <2>1. PICK c \in Calls : Moves(c) /\ (HandlerContinues(c) \/ Abort(c) \/ \E a \in Applicants : HandlerBegins(c, a))
    BY BeginMoves, ContinueMoves DEF Next
  <2>2. CASE \/ \E t \in DocumentTypes : UploadRead(c, t)
             \/ \E k \in Keys : UploadSave(c, k)
             \/ UploadUpsert(c)
    BY <2>1, <2>2, ReadKeys, SaveKeys, UpsertKeys
  <2>3. ASSUME NEW h \in Call, Quiet(h), call' = [call EXCEPT ![c] = h],
               UploadDelete(c) \/ UNCHANGED <<document, issued, files>>
        PROVE  DocumentKeys' /\ SavedKeys' /\ FoundKeys' /\ DocumentHasFile'
    <3>1. CASE UNCHANGED <<document, issued, files>>
      BY <2>3, <3>1, QuietKeys
    <3>2. CASE UploadDelete(c)
      <4>1. /\ UNCHANGED <<document, issued>> /\ files' = files \ {call[c].old}
            /\ call[c].pc = "uploadDelete"
        BY <3>2 DEF UploadDelete, rows
      <4>2. CASE call[c].old # None
        BY <2>3, <4>1, <4>2, QuietKeys
      <4>3. CASE call[c].old = None
        <5>1. files' = files
          BY <4>1, <4>3, ApplicationAssumption DEF Inv, TypeOK
        <5> QED BY <2>3, <4>1, <5>1, QuietKeys
      <4> QED BY <4>2, <4>3
    <3> QED BY <2>3, <3>1, <3>2
  <2>4. \/ \E t \in DocumentTypes : UploadRead(c, t)
        \/ \E k \in Keys : UploadSave(c, k)
        \/ UploadUpsert(c) \/ UploadDelete(c) \/ UNCHANGED <<document, issued, files>>
    BY <2>1 DEF HandlerBegins, Submits, HandlerContinues, rows, storage, StartRead, PersonalRead,
       LicenseRead, VehicleRead, OptionalRead, ReviewRead, StartCreate, StartReset,
       PersonalUpdate, LicenseUpdate, VehiclePlate, VehicleCheck, VehicleUpdate,
       UploadSaveFails, UploadDeleteFails, ReviewReject, ReviewApprove, Abort
  <2> QED BY <2>1, <2>2, <2>3, <2>4 DEF Moves
<1> QED BY <1>1, HandlersPreserved DEF KeyInv

----------------------------------------------------------------------------
LEMMA InvInitially == Init => Inv
<1> SUFFICES ASSUME Init PROVE Inv
  OBVIOUS
<1>1. TypeOK
  <2>1. NoApplication \in Application
    BY DEF NoApplication, Application
  <2> QED BY <2>1, IdleRecord DEF Init, TypeOK
<1>2. HandlersKnow /\ KeysInUploads
  BY IdleRecord DEF Init, HandlersKnow, KeysInUploads
<1>3. DocumentKeys /\ DocumentHasFile
  BY DEF Init, DocumentKeys, DocumentHasFile
<1>4. SavedKeys /\ FoundKeys
  BY DEF Init, IdleCall, SavedKeys, FoundKeys
<1>5. NothingBeforeStart /\ ReviewedIsComplete
  BY DEF Init, NoApplication, NothingBeforeStart, ReviewedIsComplete
<1> QED BY <1>1, <1>2, <1>3, <1>4, <1>5 DEF Inv, KeyInv

LEMMA InvPreserved == Inv /\ [Next]_vars => Inv'
<1>1. ASSUME Inv, Next PROVE Inv'
  <2>1. TypeOK'
    BY <1>1, RowsPreserved, DocumentsKept, HandlersPreserved DEF Inv, TypeOK
  <2> QED BY <1>1, <2>1, RowsPreserved, HandlersPreserved, KeysPreserved DEF Inv
<1>2. ASSUME Inv, UNCHANGED vars PROVE Inv'
  BY <1>2 DEF Inv, vars, rows, storage, TypeOK, HandlersKnow, KnowsApplication, Complete,
     NothingBeforeStart, KeyInv, DocumentKeys, SavedKeys, FoundKeys, KeysInUploads, HoldsKeys,
     DocumentHasFile, ReviewedIsComplete
<1> QED BY <1>1, <1>2

(* The inductive invariant holds of every behaviour. *)
LEMMA Invariance == Spec => []Inv
BY InvInitially, InvPreserved, PTL DEF Spec

(* Every variable keeps its type, for all constants and any overlap. *)
THEOREM ApplicationTypes == Spec => []TypeOK
BY Invariance, PTL DEF Inv

(* However uploads overlap and fail, the file a document names is in storage. *)
THEOREM DocumentsHaveFiles == Spec => []DocumentHasFile
BY Invariance, PTL DEF Inv, KeyInv

(* No application is reviewed, and nobody drives, without the required         *)
(* documents and a plate number.                                               *)
THEOREM OnlyCompleteReviewed == Spec => []ReviewedIsComplete
BY Invariance, PTL DEF Inv

----------------------------------------------------------------------------
(* What holds besides when the calls on one application are kept apart: what   *)
(* a handler read is still so when it writes.                                  *)

CallsApart ==
  \A c, e \in Calls :
    call[c].pc # "idle" /\ call[e].pc # "idle" /\ call[c].a = call[e].a => c = e

OpenStatus == {"NOT_STARTED", "PERSONAL_INFO_SUBMITTED", "LICENSE_SUBMITTED"}

(* h is a call of one of the three steps; an optional upload is not. *)
Edits(h) ==
  \/ h.pc \in {"personalUpdate", "licenseUpdate", "vehiclePlate", "vehicleCheck", "vehicleUpdate"}
  \/ h.pc \in {"upload", "uploadSave", "uploadUpsert", "uploadDelete"} /\ h.then # "idle"

(* The status that allowed handler h to begin is still the application's. *)
StatusRead(h, status) ==
  /\ Edits(h) => status \in OpenStatus
  /\ h.pc = "startReset" => status = "REJECTED"
  /\ h.pc \in {"reviewReject", "reviewApprove"} => status = "UNDER_REVIEW"

StatusIsFresh == \A c \in Calls : StatusRead(call[c], application[call[c].a].status)

(* The document that an upload will replace is the one it found. *)
DocumentIsFresh ==
  \A c \in Calls : call[c].pc \in {"uploadSave", "uploadUpsert"} =>
    document[call[c].a][call[c].type] = call[c].old

(* Handler c has the record h next: it ends, or it is the only one on its      *)
(* application, leaves the row alone and has read what is there.               *)
Proceeds(c, h) ==
  /\ call' = [call EXCEPT ![c] = h]
  /\ \/ h.pc = "idle"
     \/ /\ \/ call[c].pc = "idle" /\ MayTouch(h.a)
           \/ call[c].pc # "idle" /\ h.a = call[c].a
        /\ application' = application
        /\ StatusRead(h, application[h.a].status)
        /\ h.pc \in {"uploadSave", "uploadUpsert"} => document'[h.a][h.type] = h.old

(* A handler writes the row and the documents of its own application. *)
OwnRows(c) ==
  \A a \in Applicants :
    application'[a] # application[a] \/ document'[a] # document[a] =>
      call[c].pc # "idle" /\ a = call[c].a

LEMMA BeginProceeds ==
  ASSUME Inv, NEW c \in Calls, NEW a \in Applicants, HandlerBegins(c, a)
  PROVE  OwnRows(c) /\ \E h : Proceeds(c, h)
<1>1. ASSUME NEW pc, NEW f, Begin(c, pc, f), MayTouch(a), UNCHANGED <<rows, storage>>,
             [f EXCEPT !.pc = pc].a = a, [f EXCEPT !.pc = pc].pc \notin {"uploadSave", "uploadUpsert"},
             StatusRead([f EXCEPT !.pc = pc], application[a].status)
      PROVE  OwnRows(c) /\ \E h : Proceeds(c, h)
  <2> DEFINE h == [f EXCEPT !.pc = pc]
  <2>1. call' = [call EXCEPT ![c] = h] /\ call[c].pc = "idle"
    BY <1>1 DEF Begin
  <2>2. h.a = a /\ h.pc \notin {"uploadSave", "uploadUpsert"} /\ StatusRead(h, application[a].status)
    BY <1>1
  <2> HIDE DEF h
  <2>3. Proceeds(c, h)
    BY <1>1, <2>1, <2>2 DEF Proceeds, rows
  <2> QED BY <1>1, <2>3 DEF OwnRows, rows
<1>2. Editable(a) => application[a].status \in OpenStatus
  BY DEF Inv, TypeOK, Application, Status, Editable, Exists, OpenStatus
<1>3. ASSUME NEW pc \in {"startCreate", "startReset", "personalUpdate", "reviewReject", "reviewApprove"},
             Begin(c, pc, [IdleCall EXCEPT !.a = a]), MayTouch(a), UNCHANGED <<rows, storage>>,
             pc = "startReset" => application[a].status = "REJECTED",
             pc = "personalUpdate" => Editable(a),
             pc \in {"reviewReject", "reviewApprove"} => application[a].status = "UNDER_REVIEW"
      PROVE  OwnRows(c) /\ \E h : Proceeds(c, h)
  <2> DEFINE f == [IdleCall EXCEPT !.a = a]
             h == [f EXCEPT !.pc = pc]
  <2>1. h.a = a /\ h.pc = pc
    BY DEF IdleCall
  <2>2. StatusRead(h, application[a].status)
    BY <1>2, <1>3, <2>1 DEF StatusRead, Edits
  <2> QED BY <1>1, <1>3, <2>1, <2>2
<1>4. CASE StartRead(c, a)
  BY <1>3, <1>4 DEF StartRead
<1>5. CASE PersonalRead(c, a)
  BY <1>3, <1>5 DEF PersonalRead
<1>6. CASE ReviewRead(c, a)
  BY <1>3, <1>6 DEF ReviewRead
<1>7. CASE LicenseRead(c, a)
  <2> DEFINE f == [IdleCall EXCEPT !.a = a, !.todo = {LicenseType}, !.then = "licenseUpdate"]
             h == [f EXCEPT !.pc = "upload"]
  <2>1. h.a = a /\ h.pc = "upload"
    BY DEF IdleCall
  <2>2. StatusRead(h, application[a].status)
    BY <1>2, <1>7, <2>1 DEF LicenseRead, StatusRead
  <2> QED BY <1>1, <1>7, <2>1, <2>2 DEF LicenseRead
<1>8. ASSUME NEW plate \in Plates, NEW types \in VehicleFiles, VehicleRead(c, a, plate, types)
      PROVE  OwnRows(c) /\ \E h : Proceeds(c, h)
  <2> DEFINE f == [IdleCall EXCEPT !.a = a, !.plate = plate, !.todo = types, !.then = "vehicleCheck"]
             h == [f EXCEPT !.pc = "vehiclePlate"]
  <2>1. h.a = a /\ h.pc = "vehiclePlate"
    BY DEF IdleCall
  <2>2. StatusRead(h, application[a].status)
    BY <1>2, <1>8, <2>1 DEF VehicleRead, StatusRead
  <2> QED BY <1>1, <1>8, <2>1, <2>2 DEF VehicleRead
<1>9. ASSUME NEW t \in OptionalTypes, OptionalRead(c, a, t)
      PROVE  OwnRows(c) /\ \E h : Proceeds(c, h)
  <2> DEFINE f == [IdleCall EXCEPT !.a = a, !.todo = {t}]
             h == [f EXCEPT !.pc = "upload"]
  <2>1. h.a = a /\ h.pc = "upload" /\ h.then = "idle"
    BY DEF IdleCall
  <2>2. StatusRead(h, application[a].status)
    BY <2>1 DEF StatusRead, Edits
  <2> QED BY <1>1, <1>9, <2>1, <2>2 DEF OptionalRead
<1> QED BY <1>4, <1>5, <1>6, <1>7, <1>8, <1>9 DEF HandlerBegins, Submits

(* After an upload a step goes on under the status it read. *)
LEMMA UploadedProceeds ==
  ASSUME NEW h \in Call, KnowsApplication(h), h.pc \in {"uploadUpsert", "uploadDelete"},
         NEW status, StatusRead(h, status)
  PROVE  \/ Uploaded(h).pc = "idle"
         \/ /\ Uploaded(h).a = h.a /\ Uploaded(h).pc \notin {"uploadSave", "uploadUpsert"}
            /\ StatusRead(Uploaded(h), status)
<1> DEFINE rest == h.todo \ {h.type}
           pc == IF rest = {} THEN h.then ELSE "upload"
           g == [h EXCEPT !.pc = pc, !.todo = rest, !.type = None, !.old = None, !.key = None]
<1>1. CASE rest = {} /\ h.then = "idle"
  BY <1>1 DEF Uploaded, IdleCall
<1>2. CASE ~ (rest = {} /\ h.then = "idle")
  <2>1. Uploaded(h) = g
    BY <1>2 DEF Uploaded
  <2>2. pc \in {"licenseUpdate", "vehicleCheck", "upload"} /\ (pc # "upload" => h.then # "idle")
    BY <1>2 DEF KnowsApplication
  <2>3. g.pc = pc /\ g.a = h.a /\ g.then = h.then
    BY DEF Call
  <2> HIDE DEF g, pc
  <2> QED BY <2>1, <2>2, <2>3 DEF StatusRead, Edits
<1> QED BY <1>1, <1>2

LEMMA ContinueProceeds ==
  ASSUME Inv, StatusIsFresh, DocumentIsFresh, NEW c \in Calls, HandlerContinues(c) \/ Abort(c)
  PROVE  \E h : Proceeds(c, h)
<1> USE DEF Inv
<1>0. /\ call[c] \in Call /\ KnowsApplication(call[c])
      /\ StatusRead(call[c], application[call[c].a].status)
      /\ call \in [Calls -> Call]
  BY DEF TypeOK, HandlersKnow, StatusIsFresh
<1>1. ASSUME NEW h, call' = [call EXCEPT ![c] = h], h.pc = "idle" PROVE \E g : Proceeds(c, g)
  <2>1. Proceeds(c, h)
    BY <1>1 DEF Proceeds
  <2> QED BY <2>1
<1>2. CASE Return(c)
  BY <1>1, <1>2 DEF Return, IdleCall
<1>3. ASSUME call[c].pc # "idle", application' = application,
             NEW h, call' = [call EXCEPT ![c] = h], h.a = call[c].a,
             StatusRead(h, application[call[c].a].status),
             h.pc \in {"uploadSave", "uploadUpsert"} => document'[h.a][h.type] = h.old
      PROVE  \E g : Proceeds(c, g)
  <2>1. Proceeds(c, h)
    BY <1>3 DEF Proceeds
  <2> QED BY <2>1
<1>4. ASSUME NEW pc \in {"upload", "vehicleCheck", "vehicleUpdate"}, GoTo(c, pc),
             call[c].pc \in {"vehiclePlate", "vehicleCheck"}, application' = application
      PROVE  \E g : Proceeds(c, g)
  <2> DEFINE h == [call[c] EXCEPT !.pc = pc]
  <2>1. call' = [call EXCEPT ![c] = h] /\ h.pc = pc /\ h.a = call[c].a
    BY <1>0, <1>4 DEF GoTo, Call
  <2> HIDE DEF h
  <2>2. StatusRead(h, application[call[c].a].status)
    BY <1>0, <1>4, <2>1 DEF StatusRead, Edits
  <2> QED BY <1>3, <1>4, <2>1, <2>2
<1>5. CASE VehiclePlate(c)
  BY <1>2, <1>4, <1>5 DEF VehiclePlate, rows
<1>6. CASE VehicleCheck(c)
  BY <1>2, <1>4, <1>6 DEF VehicleCheck, rows
<1>7. ASSUME NEW t \in DocumentTypes, UploadRead(c, t) PROVE \E g : Proceeds(c, g)
  <2> DEFINE h == [call[c] EXCEPT !.pc = "uploadSave", !.type = t, !.old = document[call[c].a][t]]
  <2>1. /\ call' = [call EXCEPT ![c] = h] /\ h.pc = "uploadSave" /\ h.a = call[c].a
        /\ h.then = call[c].then /\ h.type = t /\ h.old = document[call[c].a][t]
    BY <1>0, <1>7 DEF UploadRead, Call
  <2>2. call[c].pc = "upload" /\ application' = application /\ document' = document
    BY <1>7 DEF UploadRead, rows
  <2> HIDE DEF h
  <2>3. StatusRead(h, application[call[c].a].status)
    BY <1>0, <2>1, <2>2 DEF StatusRead, Edits
  <2> QED BY <1>3, <2>1, <2>2, <2>3
<1>8. ASSUME NEW k \in Keys, UploadSave(c, k) PROVE \E g : Proceeds(c, g)
  <2> DEFINE h == [call[c] EXCEPT !.pc = "uploadUpsert", !.key = k]
  <2>1. /\ call' = [call EXCEPT ![c] = h] /\ h.pc = "uploadUpsert" /\ h.a = call[c].a
        /\ h.then = call[c].then /\ h.type = call[c].type /\ h.old = call[c].old
    BY <1>0, <1>8 DEF UploadSave, Call
  <2>2. call[c].pc = "uploadSave" /\ application' = application /\ document' = document
    BY <1>8 DEF UploadSave, rows
  <2> HIDE DEF h
  <2>3. StatusRead(h, application[call[c].a].status)
    BY <1>0, <2>1, <2>2 DEF StatusRead, Edits
  <2>4. document'[h.a][h.type] = h.old
    BY <2>1, <2>2 DEF DocumentIsFresh
  <2> QED BY <1>3, <2>1, <2>2, <2>3, <2>4
<1>9. CASE UploadUpsert(c) /\ call[c].old \notin {None, call[c].key}
  <2> DEFINE h == [call[c] EXCEPT !.pc = "uploadDelete", !.key = None]
  <2>1. /\ call' = [call EXCEPT ![c] = h] /\ h.pc = "uploadDelete" /\ h.a = call[c].a
        /\ h.then = call[c].then
    BY <1>0, <1>9 DEF UploadUpsert, Call
  <2>2. call[c].pc = "uploadUpsert" /\ application' = application
    BY <1>9 DEF UploadUpsert
  <2> HIDE DEF h
  <2>3. StatusRead(h, application[call[c].a].status)
    BY <1>0, <2>1, <2>2 DEF StatusRead, Edits
  <2> QED BY <1>3, <2>1, <2>2, <2>3
<1>10. ASSUME call' = [call EXCEPT ![c] = Uploaded(call[c])], application' = application,
              call[c].pc \in {"uploadUpsert", "uploadDelete"}
       PROVE  \E g : Proceeds(c, g)
  <2>1. \/ Uploaded(call[c]).pc = "idle"
        \/ /\ Uploaded(call[c]).a = call[c].a
           /\ Uploaded(call[c]).pc \notin {"uploadSave", "uploadUpsert"}
           /\ StatusRead(Uploaded(call[c]), application[call[c].a].status)
    BY <1>0, <1>10, UploadedProceeds
  <2> QED BY <1>1, <1>3, <1>10, <2>1
<1>11. CASE UploadUpsert(c) \/ UploadDelete(c) \/ UploadDeleteFails(c)
  BY <1>9, <1>10, <1>11 DEF UploadUpsert, UploadDelete, UploadDeleteFails, rows
<1> QED BY <1>2, <1>5, <1>6, <1>7, <1>8, <1>11
        DEF HandlerContinues, Abort, StartCreate, StartReset, PersonalUpdate, LicenseUpdate,
            VehicleUpdate, UploadSaveFails, ReviewReject, ReviewApprove

LEMMA WritesOwnRows ==
  ASSUME Inv, NEW c \in Calls, HandlerContinues(c) \/ Abort(c)
  PROVE  OwnRows(c)
<1> USE DEF Inv
<1>1. CASE UNCHANGED <<application, document>>
  BY <1>1 DEF OwnRows
<1>2. ASSUME NEW row, Update(call[c].a, row), document' = document, call[c].pc # "idle"
      PROVE  OwnRows(c)
  BY <1>2 DEF OwnRows, Update, TypeOK
<1>3. CASE UploadUpsert(c)
  <2>1. call[c].pc # "idle" /\ application' = application
    BY <1>3 DEF UploadUpsert
  <2>2. \A a \in Applicants : a # call[c].a => document'[a] = document[a]
    BY <1>3 DEF UploadUpsert, TypeOK
  <2> QED BY <2>1, <2>2 DEF OwnRows
<1>4. CASE StartCreate(c)
  BY <1>1, <1>2, <1>4 DEF StartCreate
<1>5. CASE StartReset(c) \/ PersonalUpdate(c) \/ LicenseUpdate(c) \/ ReviewReject(c)
  BY <1>2, <1>5 DEF StartReset, PersonalUpdate, LicenseUpdate, ReviewReject
<1>6. CASE VehicleUpdate(c)
  BY <1>1, <1>2, <1>6 DEF VehicleUpdate
<1>7. CASE ReviewApprove(c)
  BY <1>1, <1>2, <1>7 DEF ReviewApprove
<1> QED BY <1>1, <1>3, <1>4, <1>5, <1>6, <1>7
        DEF HandlerContinues, rows, VehiclePlate, VehicleCheck, UploadRead, UploadSave,
            UploadSaveFails, UploadDelete, UploadDeleteFails, Abort

(* Calls kept apart stay apart, and what they have read stays fresh. *)
LEMMA FreshnessPreserved ==
  ASSUME Exclusive, Inv, CallsApart, StatusIsFresh, DocumentIsFresh, Next
  PROVE  CallsApart' /\ StatusIsFresh' /\ DocumentIsFresh'
<1>1. PICK c \in Calls : OwnRows(c) /\ \E h : Proceeds(c, h)
  BY BeginProceeds, ContinueProceeds, WritesOwnRows DEF Next
<1>2. PICK h : Proceeds(c, h)
  BY <1>1
<1>3. call'[c] = h /\ \A e \in Calls \ {c} : call'[e] = call[e]
  BY <1>2 DEF Proceeds, Inv, TypeOK
<1>4. h.pc = "idle" \/ \A e \in Calls \ {c} : call[e].pc # "idle" => call[e].a # h.a
  BY <1>2 DEF Proceeds, MayTouch, CallsApart
<1>5. CallsApart'
  BY <1>3, <1>4 DEF CallsApart
<1>6. ASSUME NEW e \in Calls \ {c}, call[e].pc # "idle"
      PROVE  application'[call[e].a] = application[call[e].a] /\ document'[call[e].a] = document[call[e].a]
  <2>1. call[e].a \in Applicants
    BY <1>6 DEF Inv, HandlersKnow, KnowsApplication
  <2> QED BY <1>1, <1>6, <2>1 DEF OwnRows, CallsApart
<1>7. StatusIsFresh'
  <2>1. StatusRead(h, application'[h.a].status)
    BY <1>2 DEF Proceeds, StatusRead, Edits
  <2>2. ASSUME NEW e \in Calls \ {c} PROVE StatusRead(call[e], application'[call[e].a].status)
    <3>1. CASE call[e].pc = "idle"
      BY <3>1 DEF StatusRead, Edits
    <3>2. CASE call[e].pc # "idle"
      BY <1>6, <3>2 DEF StatusIsFresh
    <3> QED BY <3>1, <3>2
  <2> QED BY <1>3, <2>1, <2>2 DEF StatusIsFresh, StatusRead, Edits
<1>8. DocumentIsFresh'
  <2>1. h.pc \in {"uploadSave", "uploadUpsert"} => document'[h.a][h.type] = h.old
    BY <1>2 DEF Proceeds
  <2>2. ASSUME NEW e \in Calls \ {c}, call[e].pc \in {"uploadSave", "uploadUpsert"}
        PROVE  document'[call[e].a][call[e].type] = call[e].old
    BY <1>6, <2>2 DEF DocumentIsFresh
  <2> QED BY <1>3, <2>1, <2>2 DEF DocumentIsFresh
<1> QED BY <1>5, <1>7, <1>8

----------------------------------------------------------------------------
(* The profile and the columns of submission and review are those that the     *)
(* status of a row calls for.                                                  *)
TellsStory(row, drives) ==
  /\ drives <=> row.status = "VERIFIED"
  /\ row.rejectionReason <=> row.status = "REJECTED"
  /\ row.submittedAt <=> row.status \in {"UNDER_REVIEW", "VERIFIED", "REJECTED"}
  /\ row.reviewedAt <=> row.status \in {"VERIFIED", "REJECTED"}

LEMMA StoryOfRows ==
  (\A a \in Applicants : TellsStory(application[a], a \in profile))
    <=> ProfileMeansVerified /\ StampsMatchStatus
BY DEF TellsStory, ProfileMeansVerified, StampsMatchStatus

LEMMA StoryKept ==
  ASSUME Inv, StatusIsFresh, NEW c \in Calls, HandlerContinues(c),
         \A a \in Applicants : TellsStory(application[a], a \in profile)
  PROVE  \A a \in Applicants : TellsStory(application'[a], a \in profile')
<1> USE DEF Inv
<1> DEFINE a0 == call[c].a
           app == application[a0]
<1>1. CASE UNCHANGED <<application, profile>>
  BY <1>1
<1>2. ASSUME NEW row, Update(a0, row), profile' = profile \/ profile' = profile \cup {a0},
             TellsStory(row, a0 \in profile')
      PROVE  \A a \in Applicants : TellsStory(application'[a], a \in profile')
  <2> SUFFICES ASSUME NEW a \in Applicants PROVE TellsStory(application'[a], a \in profile')
    OBVIOUS
  <2>1. CASE a = a0
    <3>1. application'[a] = row
      BY <1>2, <2>1 DEF Update, TypeOK
    <3> QED BY <1>2, <2>1, <3>1
  <2>2. CASE a # a0
    <3>1. application'[a] = application[a] /\ (a \in profile' <=> a \in profile)
      BY <1>2, <2>2 DEF Update, TypeOK
    <3> QED BY <3>1 DEF TellsStory
  <2> QED BY <2>1, <2>2
<1>3. ASSUME call[c].pc # "idle"
      PROVE  /\ a0 \in Applicants /\ app \in Application
             /\ StatusRead(call[c], app.status) /\ TellsStory(app, a0 \in profile)
  BY <1>3 DEF HandlersKnow, KnowsApplication, TypeOK, StatusIsFresh
<1>4. CASE StartCreate(c)
  <2> DEFINE row == [NoApplication EXCEPT !.status = "NOT_STARTED"]
  <2>1. CASE app.status = "ABSENT"
    <3>1. /\ row.status = "NOT_STARTED"
          /\ row.rejectionReason = FALSE /\ row.submittedAt = FALSE /\ row.reviewedAt = FALSE
      BY DEF NoApplication
    <3>2. Update(a0, row) /\ profile' = profile
      BY <1>4, <2>1 DEF StartCreate
    <3>3. TellsStory(row, a0 \in profile)
      BY <1>3, <1>4, <2>1, <3>1 DEF StartCreate, TellsStory
    <3> QED BY <1>2, <3>2, <3>3
  <2> QED BY <1>1, <1>4, <2>1 DEF StartCreate
<1>5. CASE StartReset(c)
  <2> DEFINE row == [app EXCEPT !.status = "NOT_STARTED", !.rejectionReason = FALSE,
                                !.submittedAt = FALSE, !.reviewedAt = FALSE]
  <2>0. app \in Application /\ app.status = "REJECTED" /\ TellsStory(app, a0 \in profile)
    BY <1>3, <1>5 DEF StartReset, StatusRead
  <2>1. /\ row.status = "NOT_STARTED"
        /\ row.rejectionReason = FALSE /\ row.submittedAt = FALSE /\ row.reviewedAt = FALSE
    BY <2>0 DEF Application
  <2>2. Update(a0, row) /\ profile' = profile
    BY <1>5 DEF StartReset
  <2> HIDE DEF row
  <2>3. TellsStory(row, a0 \in profile)
    BY <2>0, <2>1 DEF TellsStory
  <2> QED BY <1>2, <2>2, <2>3
<1>6. ASSUME NEW row, Update(a0, row), profile' = profile,
             Edits(call[c]), call[c].pc # "idle", row.status \in OpenStatus,
             row.rejectionReason = app.rejectionReason, row.submittedAt = app.submittedAt,
             row.reviewedAt = app.reviewedAt
      PROVE  \A a \in Applicants : TellsStory(application'[a], a \in profile')
  <2>1. TellsStory(row, a0 \in profile)
    BY <1>3, <1>6 DEF StatusRead, OpenStatus, TellsStory
  <2> QED BY <1>2, <1>6, <2>1
<1>7. CASE PersonalUpdate(c)
  <2> DEFINE row == [app EXCEPT !.status = "PERSONAL_INFO_SUBMITTED", !.personal = TRUE]
  <2>1. /\ row.status \in OpenStatus /\ row.rejectionReason = app.rejectionReason
        /\ row.submittedAt = app.submittedAt /\ row.reviewedAt = app.reviewedAt
    BY <1>3, <1>7 DEF PersonalUpdate, Application, OpenStatus
  <2>2. Update(a0, row) /\ profile' = profile /\ Edits(call[c]) /\ call[c].pc # "idle"
    BY <1>7 DEF PersonalUpdate, Edits
  <2> QED BY <1>6, <2>1, <2>2
<1>8. CASE LicenseUpdate(c)
  <2> DEFINE row == [app EXCEPT !.status = "LICENSE_SUBMITTED", !.license = TRUE]
  <2>1. /\ row.status \in OpenStatus /\ row.rejectionReason = app.rejectionReason
        /\ row.submittedAt = app.submittedAt /\ row.reviewedAt = app.reviewedAt
    BY <1>3, <1>8 DEF LicenseUpdate, Application, OpenStatus
  <2>2. Update(a0, row) /\ profile' = profile /\ Edits(call[c]) /\ call[c].pc # "idle"
    BY <1>8 DEF LicenseUpdate, Edits
  <2> QED BY <1>6, <2>1, <2>2
<1>9. CASE VehicleUpdate(c) /\ ~ PlateTaken(a0, call[c].plate)
  <2> DEFINE row == UnderReview(app, call[c].plate)
  <2>0. app \in Application /\ app.status \in OpenStatus /\ TellsStory(app, a0 \in profile)
    BY <1>3, <1>9 DEF VehicleUpdate, StatusRead, Edits
  <2>1. /\ row.status = "UNDER_REVIEW" /\ row.submittedAt = TRUE
        /\ row.rejectionReason = app.rejectionReason /\ row.reviewedAt = app.reviewedAt
    BY <2>0 DEF UnderReview, Application
  <2>2. Update(a0, row) /\ profile' = profile
    BY <1>9 DEF VehicleUpdate
  <2> HIDE DEF row
  <2>3. TellsStory(row, a0 \in profile)
    BY <2>0, <2>1 DEF TellsStory, OpenStatus
  <2> QED BY <1>2, <2>2, <2>3
<1>10. CASE ReviewReject(c)
  <2> DEFINE row == [app EXCEPT !.status = "REJECTED", !.rejectionReason = TRUE, !.reviewedAt = TRUE]
  <2>0. app \in Application /\ app.status = "UNDER_REVIEW" /\ TellsStory(app, a0 \in profile)
    BY <1>3, <1>10 DEF ReviewReject, StatusRead
  <2>1. /\ row.status = "REJECTED" /\ row.submittedAt = app.submittedAt
        /\ row.rejectionReason = TRUE /\ row.reviewedAt = TRUE
    BY <2>0 DEF Application
  <2>2. Update(a0, row) /\ profile' = profile
    BY <1>10 DEF ReviewReject
  <2> HIDE DEF row
  <2>3. TellsStory(row, a0 \in profile)
    BY <2>0, <2>1 DEF TellsStory
  <2> QED BY <1>2, <2>2, <2>3
<1>11. CASE ReviewApprove(c) /\ a0 \notin profile
  <2> DEFINE row == [app EXCEPT !.status = "VERIFIED", !.rejectionReason = FALSE, !.reviewedAt = TRUE]
  <2>0. app \in Application /\ app.status = "UNDER_REVIEW" /\ TellsStory(app, a0 \in profile)
    BY <1>3, <1>11 DEF ReviewApprove, StatusRead
  <2>1. /\ row.status = "VERIFIED" /\ row.submittedAt = app.submittedAt
        /\ row.rejectionReason = FALSE /\ row.reviewedAt = TRUE
    BY <2>0 DEF Application
  <2>2. Update(a0, row) /\ profile' = profile \cup {a0} /\ a0 \in profile'
    BY <1>11 DEF ReviewApprove
  <2> HIDE DEF row
  <2>3. TellsStory(row, a0 \in profile')
    BY <2>0, <2>1, <2>2 DEF TellsStory
  <2> QED BY <1>2, <2>2, <2>3
<1>12. CASE VehicleUpdate(c) \/ ReviewApprove(c)
  BY <1>1, <1>9, <1>11, <1>12 DEF VehicleUpdate, ReviewApprove
<1> QED BY <1>1, <1>4, <1>5, <1>7, <1>8, <1>10, <1>12
        DEF HandlerContinues, rows, VehiclePlate, VehicleCheck, UploadRead, UploadSave,
            UploadSaveFails, UploadUpsert, UploadDelete, UploadDeleteFails

AloneInv ==
  /\ Inv /\ CallsApart /\ StatusIsFresh /\ DocumentIsFresh
  /\ ProfileMeansVerified /\ StampsMatchStatus

LEMMA StoryPreserved ==
  ASSUME AloneInv, Next
  PROVE  ProfileMeansVerified' /\ StampsMatchStatus'
<1>0. \A a \in Applicants : TellsStory(application[a], a \in profile)
  BY StoryOfRows DEF AloneInv
<1>1. PICK c \in Calls : (\E a \in Applicants : HandlerBegins(c, a)) \/ HandlerContinues(c) \/ Abort(c)
  BY DEF Next
<1>2. CASE HandlerContinues(c)
  <2>1. \A a \in Applicants : TellsStory(application'[a], a \in profile')
    BY <1>0, <1>2, StoryKept DEF AloneInv
  <2> QED BY <2>1 DEF TellsStory, ProfileMeansVerified, StampsMatchStatus
<1>3. CASE (\E a \in Applicants : HandlerBegins(c, a)) \/ Abort(c)
  <2>1. UNCHANGED <<application, profile>>
    BY <1>3 DEF HandlerBegins, Submits, rows, StartRead, PersonalRead, LicenseRead, VehicleRead,
       OptionalRead, ReviewRead, Abort
  <2> QED BY <2>1 DEF AloneInv, ProfileMeansVerified, StampsMatchStatus
<1> QED BY <1>1, <1>2, <1>3

LEMMA AloneInitially == Init => AloneInv
<1> SUFFICES ASSUME Init PROVE AloneInv
  OBVIOUS
<1>1. \A c \in Calls : call[c].pc = "idle"
  BY DEF Init, IdleCall
<1>2. CallsApart /\ StatusIsFresh /\ DocumentIsFresh
  BY <1>1 DEF CallsApart, StatusIsFresh, StatusRead, Edits, DocumentIsFresh
<1>3. ProfileMeansVerified /\ StampsMatchStatus
  BY DEF Init, NoApplication, ProfileMeansVerified, StampsMatchStatus
<1> QED BY <1>2, <1>3, InvInitially DEF AloneInv

LEMMA AlonePreserved ==
  ASSUME Exclusive
  PROVE  AloneInv /\ [Next]_vars => AloneInv'
<1>1. ASSUME AloneInv, Next PROVE AloneInv'
  BY <1>1, InvPreserved, FreshnessPreserved, StoryPreserved DEF AloneInv
<1>2. ASSUME AloneInv, UNCHANGED vars PROVE AloneInv'
  <2>1. Inv'
    BY <1>2, InvPreserved DEF AloneInv
  <2>2. UNCHANGED <<application, profile, document, call>>
    BY <1>2 DEF vars, rows
  <2> QED BY <1>2, <2>1, <2>2
          DEF AloneInv, CallsApart, StatusIsFresh, StatusRead, Edits, DocumentIsFresh,
              ProfileMeansVerified, StampsMatchStatus
<1> QED BY <1>1, <1>2

LEMMA AloneInvariance ==
  ASSUME Exclusive
  PROVE  Spec => []AloneInv
BY AloneInitially, AlonePreserved, PTL DEF Spec

(* When the calls on one application do not overlap, a user has a DriverProfile *)
(* just when their application is VERIFIED, whatever fails.                     *)
THEOREM DriversAreVerified ==
  ASSUME Exclusive
  PROVE  Spec => []ProfileMeansVerified
BY AloneInvariance, PTL DEF AloneInv

(* When the calls on one application do not overlap, the columns of submission  *)
(* and review are those of the status, whatever fails.                          *)
THEOREM StampsAgree ==
  ASSUME Exclusive
  PROVE  Spec => []StampsMatchStatus
BY AloneInvariance, PTL DEF AloneInv

(* A step that is not the submission of one of the three writes no column of   *)
(* the submission and no required document.                                    *)
LEMMA SubmissionKept ==
  ASSUME AloneInv, Next, NEW a \in Applicants,
         application[a].status \in {"UNDER_REVIEW", "VERIFIED", "REJECTED"}
  PROVE  Submission(a)' = Submission(a)
<1> USE DEF AloneInv, Inv
<1> DEFINE app == application[a]
<1>0. /\ app \in Application /\ application \in [Applicants -> Application]
      /\ document \in [Applicants -> [DocumentTypes -> Keys \cup {None}]]
  BY DEF TypeOK
<1>1. PICK c \in Calls : (\E b \in Applicants : HandlerBegins(c, b)) \/ HandlerContinues(c) \/ Abort(c)
  BY DEF Next
<1>2. /\ KnowsApplication(call[c]) /\ StatusRead(call[c], application[call[c].a].status)
  BY DEF HandlersKnow, StatusIsFresh
<1>3. Edits(call[c]) => call[c].a # a
  BY <1>2 DEF StatusRead, OpenStatus
<1>4. /\ app'.personal = app.personal /\ app'.license = app.license
      /\ app'.plateNumber = app.plateNumber
  <2>1. CASE application'[a] = application[a]
    BY <2>1
  <2>2. CASE StartCreate(c)
    BY <1>0, <2>2 DEF StartCreate, Update
  <2>3. CASE PersonalUpdate(c) \/ LicenseUpdate(c) \/ VehicleUpdate(c)
    BY <1>0, <1>3, <2>3 DEF PersonalUpdate, LicenseUpdate, VehicleUpdate, Edits, Update
  <2>4. ASSUME NEW row, Update(call[c].a, row),
               /\ row.personal = application[call[c].a].personal
               /\ row.license = application[call[c].a].license
               /\ row.plateNumber = application[call[c].a].plateNumber
        PROVE  /\ app'.personal = app.personal /\ app'.license = app.license
               /\ app'.plateNumber = app.plateNumber
    BY <1>0, <2>4 DEF Update
  <2>5. ASSUME call[c].pc # "idle"
        PROVE  application[call[c].a] \in Application
    BY <1>0, <1>2, <2>5 DEF KnowsApplication
  <2>6. CASE StartReset(c)
    BY <2>4, <2>5, <2>6 DEF StartReset, Application
  <2>7. CASE ReviewReject(c)
    BY <2>4, <2>5, <2>7 DEF ReviewReject, Application
  <2>8. CASE ReviewApprove(c) /\ call[c].a \notin profile
    BY <2>4, <2>5, <2>8 DEF ReviewApprove, Application
  <2>9. CASE ReviewApprove(c)
    BY <2>1, <2>8, <2>9 DEF ReviewApprove
  <2> QED BY <1>1, <2>1, <2>2, <2>3, <2>6, <2>7, <2>9
          DEF HandlerBegins, Submits, HandlerContinues, rows, StartRead, PersonalRead, LicenseRead,
              VehicleRead, OptionalRead, ReviewRead, VehiclePlate, VehicleCheck, UploadRead,
              UploadSave, UploadSaveFails, UploadUpsert, UploadDelete, UploadDeleteFails, Abort
<1>5. ASSUME NEW t \in RequiredTypes PROVE document'[a][t] = document[a][t]
  <2>1. CASE document' = document
    BY <2>1
  <2>2. ASSUME NEW e \in Calls, UploadUpsert(e) PROVE document'[a][t] = document[a][t]
    <3>1. /\ KnowsApplication(call[e]) /\ StatusRead(call[e], application[call[e].a].status)
      BY DEF HandlersKnow, StatusIsFresh
    <3>2. /\ call[e].pc = "uploadUpsert"
          /\ document' = [document EXCEPT ![call[e].a][call[e].type] = call[e].key]
      BY <2>2 DEF UploadUpsert
    <3>3. CASE call[e].then # "idle"
      <4>1. call[e].a # a
        BY <3>1, <3>2, <3>3 DEF StatusRead, Edits, OpenStatus
      <4> QED BY <1>0, <3>2, <4>1
    <3>4. CASE call[e].then = "idle"
      <4>1. call[e].type # t
        BY <3>1, <3>2, <3>4, ApplicationAssumption DEF KnowsApplication, RequiredTypes
      <4> QED BY <1>0, <3>2, <4>1
    <3> QED BY <3>3, <3>4
  <2> QED BY <2>1, <2>2, StorageUpdates DEF UploadSave, UploadDelete, rows
<1> QED BY <1>4, <1>5 DEF Submission

(* When the calls on one application do not overlap, nothing of what was        *)
(* submitted changes from the submission to the end of the review and, if it    *)
(* was rejected, to the restart, whatever fails.                                *)
THEOREM SubmissionsAreFixed ==
  ASSUME Exclusive
  PROVE  Spec => ReviewedIsFixed
<1>1. AloneInv /\ [Next]_vars =>
        [\A a \in Applicants :
           application[a].status \in {"UNDER_REVIEW", "VERIFIED", "REJECTED"}
             => Submission(a)' = Submission(a)]_vars
  BY SubmissionKept
<1> QED BY <1>1, AloneInvariance, PTL DEF Spec, ReviewedIsFixed

----------------------------------------------------------------------------
(* The files. *)

(* An upload that ends keeps no key, and one that does not fail loses no file:  *)
(* what it gives up is a document's, or removed.                                *)
LEMMA FilesKept ==
  ASSUME AloneInv, Faults = {}, NoOrphanFile, Next
  PROVE  NoOrphanFile'
<1> USE DEF AloneInv, Inv, KeyInv
<1>0. call \in [Calls -> Call] /\ files \subseteq Keys
  BY DEF TypeOK
<1>1. PICK c \in Calls : Moves(c) /\ (HandlerContinues(c) \/ \E a \in Applicants : HandlerBegins(c, a))
  BY BeginMoves, ContinueMoves DEF Next, Abort
<1>2. PICK h \in Call : call' = [call EXCEPT ![c] = h] 
  BY <1>1 DEF Moves
<1>3. call'[c] = h /\ \A e \in Calls \ {c} : call'[e] = call[e]
  BY <1>0, <1>2
<1>4. ASSUME UNCHANGED <<document, files>>,
             \A k \in files : k \in {call[c].key, call[c].old} =>
               k \in {h.key, h.old} \/ \E a \in Applicants, t \in DocumentTypes : document[a][t] = k
      PROVE  NoOrphanFile'
  <2> SUFFICES ASSUME NEW k \in files
               PROVE  \/ \E a \in Applicants, t \in DocumentTypes : document[a][t] = k
                      \/ \E e \in Calls : k \in {call'[e].key, call'[e].old}
    BY <1>4 DEF NoOrphanFile
  <2>1. CASE \E a \in Applicants, t \in DocumentTypes : document[a][t] = k
    BY <2>1
  <2>2. CASE \E e \in Calls : k \in {call[e].key, call[e].old}
    <3>1. PICK e \in Calls : k \in {call[e].key, call[e].old}
      BY <2>2
    <3> QED BY <1>3, <1>4, <3>1
  <2> QED BY <2>1, <2>2 DEF NoOrphanFile
<1>5. ASSUME UNCHANGED <<document, files>>, call[c].pc \notin {"uploadSave", "uploadUpsert", "uploadDelete"}
      PROVE  NoOrphanFile'
  <2>1. call[c].key = None /\ call[c].old = None
    BY <1>5 DEF KeysInUploads, HoldsKeys
  <2> QED BY <1>0, <1>4, <1>5, <2>1, ApplicationAssumption
<1>6. CASE UploadSaveFails(c)
  <2>1. call[c].pc = "uploadSave" /\ UNCHANGED <<document, files>>
    BY <1>6 DEF UploadSaveFails, rows, storage
  <2>2. call[c].key = None /\ call[c].a \in Applicants /\ call[c].type \in DocumentTypes
    BY <2>1 DEF KeysInUploads, HoldsKeys, HandlersKnow, KnowsApplication
  <2>3. document[call[c].a][call[c].type] = call[c].old
    BY <2>1 DEF DocumentIsFresh
  <2> QED BY <1>0, <1>4, <2>1, <2>2, <2>3, ApplicationAssumption
<1>7. ASSUME NEW k \in Keys, UploadSave(c, k) PROVE NoOrphanFile'
  <2>1. /\ document' = document /\ files' = files \cup {k}
        /\ call'[c].key = k /\ call'[c].old = call[c].old /\ call[c].pc = "uploadSave"
    BY <1>0, <1>7 DEF UploadSave, rows, Call
  <2>2. call[c].key = None
    BY <2>1 DEF KeysInUploads, HoldsKeys
  <2> SUFFICES ASSUME NEW j \in files'
               PROVE  \/ \E a \in Applicants, t \in DocumentTypes : document[a][t] = j
                      \/ \E e \in Calls : j \in {call'[e].key, call'[e].old}
    BY <2>1 DEF NoOrphanFile
  <2>3. CASE j = k
    BY <2>1, <2>3
  <2>4. CASE j \in files /\ \E e \in Calls : j \in {call[e].key, call[e].old}
    <3>1. PICK e \in Calls : j \in {call[e].key, call[e].old}
      BY <2>4
    <3>2. j # None
      BY <1>0, <2>4, ApplicationAssumption
    <3> QED BY <1>3, <2>1, <2>2, <3>1, <3>2
  <2> QED BY <2>1, <2>3, <2>4 DEF NoOrphanFile
<1>8. CASE UploadUpsert(c)
  <2> DEFINE a0 == call[c].a
             t0 == call[c].type
  <2>0. a0 \in Applicants /\ t0 \in DocumentTypes /\ call[c].key \in Keys /\ call[c].key # None
    BY <1>8, ApplicationAssumption DEF UploadUpsert, HandlersKnow, KnowsApplication
  <2>1. /\ document'[a0][t0] = call[c].key /\ files' = files
        /\ \A a \in Applicants, t \in DocumentTypes :
             (a # a0 \/ t # t0) => document'[a][t] = document[a][t]
    BY <1>8, <2>0 DEF UploadUpsert, TypeOK, storage
  <2>2. document[a0][t0] = call[c].old
    BY <1>8 DEF UploadUpsert, DocumentIsFresh
  <2>3. call[c].old \notin {None, call[c].key} => call'[c].old = call[c].old
    BY <1>0, <1>8 DEF UploadUpsert, Call
  <2> SUFFICES ASSUME NEW k \in files
               PROVE  \/ \E a \in Applicants, t \in DocumentTypes : document'[a][t] = k
                      \/ \E e \in Calls : k \in {call'[e].key, call'[e].old}
    BY <2>1 DEF NoOrphanFile
  <2>4. k # None
    BY <1>0, ApplicationAssumption
  <2>5. CASE k \in {call[c].key, call[c].old}
    BY <2>0, <2>1, <2>3, <2>4, <2>5
  <2>6. ASSUME NEW a \in Applicants, NEW t \in DocumentTypes, document[a][t] = k, k # call[c].old
        PROVE  document'[a][t] = k
    BY <2>1, <2>2, <2>6
  <2>7. ASSUME NEW e \in Calls, k \in {call[e].key, call[e].old}, k \notin {call[c].key, call[c].old}
        PROVE  k \in {call'[e].key, call'[e].old}
    BY <1>3, <2>7
  <2> QED BY <2>5, <2>6, <2>7 DEF NoOrphanFile
<1>9. CASE UploadDelete(c)
  <2>1. call[c].pc = "uploadDelete" /\ document' = document /\ files' = files \ {call[c].old}
    BY <1>9 DEF UploadDelete, rows
  <2>2. call[c].key = None
    BY <2>1 DEF KeysInUploads, HoldsKeys
  <2> SUFFICES ASSUME NEW k \in files, k # call[c].old
               PROVE  \/ \E a \in Applicants, t \in DocumentTypes : document[a][t] = k
                      \/ \E e \in Calls : k \in {call'[e].key, call'[e].old}
    BY <2>1 DEF NoOrphanFile
  <2>3. k # None
    BY <1>0, ApplicationAssumption
  <2>4. ASSUME NEW e \in Calls, k \in {call[e].key, call[e].old}
        PROVE  k \in {call'[e].key, call'[e].old}
    BY <1>3, <2>2, <2>3, <2>4
  <2> QED BY <2>4 DEF NoOrphanFile
<1>10. ~ UploadDeleteFails(c)
  BY DEF UploadDeleteFails
<1>11. CASE UploadUpsert(c) \/ UploadDelete(c) \/ UploadSaveFails(c) \/ \E k \in Keys : UploadSave(c, k)
  BY <1>6, <1>7, <1>8, <1>9, <1>11
<1>12. ASSUME ~ (UploadUpsert(c) \/ UploadDelete(c) \/ UploadSaveFails(c) \/ \E k \in Keys : UploadSave(c, k))
       PROVE  /\ UNCHANGED <<document, files>>
              /\ call[c].pc \notin {"uploadSave", "uploadUpsert", "uploadDelete"}
  BY <1>1, <1>10, <1>12
  DEF HandlerBegins, Submits, HandlerContinues, Begin, rows, storage, StartRead, PersonalRead,
      LicenseRead, VehicleRead, OptionalRead, ReviewRead, StartCreate, StartReset, PersonalUpdate,
      LicenseUpdate, VehiclePlate, VehicleCheck, VehicleUpdate, UploadRead, ReviewReject, ReviewApprove
<1> QED BY <1>5, <1>11, <1>12

(* Without failures, and when the calls on one application do not overlap, no   *)
(* file in storage is forgotten.                                                *)
THEOREM FilesAccountedFor ==
  ASSUME Exclusive, Faults = {}
  PROVE  Spec => []NoOrphanFile
<1>1. Init => NoOrphanFile
  BY DEF Init, NoOrphanFile
<1>2. AloneInv /\ NoOrphanFile /\ [Next]_vars => NoOrphanFile'
  <2>1. ASSUME NoOrphanFile, UNCHANGED vars PROVE NoOrphanFile'
    BY <2>1 DEF NoOrphanFile, vars, rows, storage
  <2> QED BY <2>1, FilesKept
<1> QED BY <1>1, <1>2, AloneInvariance, PTL DEF Spec

=============================================================================
