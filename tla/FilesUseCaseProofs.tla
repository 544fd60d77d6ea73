-------------------------- MODULE FilesUseCaseProofs --------------------------
(***************************************************************************)
(* The invariants of FilesUseCase, and that it implements FileService and  *)
(* AccessPolicy, for any sets of goroutines, accounts, names and ids, any  *)
(* set of failures and any mix of requests.                                *)
(*                                                                         *)
(* Each step is shown to be a step of FileService under ServiceOf, or none *)
(* (StepRefines); the invariant of FileService then holds of the stores    *)
(* for free (Below!NextInv) and is one conjunct of the invariant here.     *)
(* The other conjuncts follow one lemma each, and every step is a step of  *)
(* AccessPolicy under PolicyOf, or none.                                   *)
(***************************************************************************)
EXTENDS FilesUseCase, TLAPS

(* The theorems about FileService, for the goroutines as it sees them. *)
Below == INSTANCE FileServiceProofs WITH
  pc <- [p \in Proc |-> IF InService(p) THEN pc[p] ELSE "idle"],
  user <- [p \in Proc |-> IF InService(p) THEN user[p] ELSE NoUser],
  file <- [p \in Proc |-> IF InService(p) THEN file[p] ELSE NoFile]

(* Frames and sets of labels are expanded in every proof. *)
USE DEF svcVars, files, request, tables, watch, vars,
        Svc!SaveLabels, Svc!GetLabels, Svc!DeleteLabels, Svc!Outcomes,
        Svc!SvcLabels, Svc!published, Svc!store, Svc!call, Svc!history,
        Svc!Goto, Svc!Stay, Svc!Enter, Jump, Move,
        Reads, Commands, Operations, Statuses, Queries, Writes, UseCaseLabels

(* What FileService assumes of its constants holds here. *)
LEMMA BelowAssumption == Below!FileServiceAssumption
  BY UseCaseAssumption
  DEF Below!FileServiceAssumption, Below!FaultKinds, Svc!FaultKinds

-------------------------------------------------------------------------------
(* How FileService sees the moves of a goroutine.                           *)

(* p moves from one label of the service to another. *)
LEMMA SeenMove ==
  ASSUME TypeOK, NEW p \in Proc, NEW label \in Svc!SvcLabels, InService(p),
         Svc!Goto(p, label), UNCHANGED <<user, file>>
  PROVE  ServiceOf!Goto(p, label) /\ ServiceOf!Stay
  BY DEF TypeOK, InService, ServiceOf!Goto, ServiceOf!Stay

(* p does not call the service, before or after. *)
LEMMA SeenNot ==
  ASSUME TypeOK, NEW p \in Proc, NEW label, label \notin Svc!SvcLabels,
         ~InService(p), Svc!Goto(p, label),
         \A q \in Proc : q # p => user'[q] = user[q] /\ file'[q] = file[q]
  PROVE  UNCHANGED ServiceOf!call
  BY DEF TypeOK, InService, ServiceOf!call

(* p calls the service. *)
LEMMA SeenEnter ==
  ASSUME TypeOK, NEW p \in Proc, NEW label \in Svc!SvcLabels, ~InService(p),
         Svc!Goto(p, label), user' \in [Proc -> User \cup {NoUser}],
         file' \in [Proc -> File \cup {NoFile}],
         \A q \in Proc : q # p => user'[q] = user[q] /\ file'[q] = file[q]
  PROVE  ServiceOf!Enter(p, label, user'[p], file'[p])
  BY DEF TypeOK, InService, ServiceOf!Enter, ServiceOf!Goto

(* The service returns to p. *)
LEMMA SeenReturn ==
  ASSUME TypeOK, NEW p \in Proc, NEW label, label \notin Svc!SvcLabels,
         pc[p] \in Svc!Outcomes, Svc!Goto(p, label),
         UNCHANGED <<user, files>>,
         \A q \in Proc : q # p => file'[q] = file[q]
  PROVE  ServiceOf!Return(p)
  <1>1. InService(p) /\ ~InService(p)'
    BY DEF TypeOK, InService
  <1>2. \A q \in Proc : q # p => (InService(q)' <=> InService(q))
    BY DEF TypeOK, InService
  <1>3. ServiceOf!Goto(p, "idle")
    BY <1>1 DEF TypeOK, InService, ServiceOf!Goto
  <1>4. [q \in Proc |-> IF InService(q) THEN user[q] ELSE NoUser]' =
          [[q \in Proc |-> IF InService(q) THEN user[q] ELSE NoUser]
             EXCEPT ![p] = NoUser]
    BY <1>1, <1>2
  <1>5. [q \in Proc |-> IF InService(q) THEN file[q] ELSE NoFile]' =
          [[q \in Proc |-> IF InService(q) THEN file[q] ELSE NoFile]
             EXCEPT ![p] = NoFile]
    BY <1>1, <1>2
  <1>6. QED
    BY <1>1, <1>3, <1>4, <1>5
    DEF ServiceOf!Return, ServiceOf!Outcomes, ServiceOf!store,
        ServiceOf!history

(* The service finds the same row for p. *)
LEMMA SeenCheck ==
  ASSUME NEW p \in Proc, NEW next \in Svc!SvcLabels
  PROVE  /\ Svc!OwnerCheck(p, next) \in Svc!SvcLabels
         /\ InService(p) =>
              ServiceOf!OwnerCheck(p, next) = Svc!OwnerCheck(p, next)
  BY DEF Svc!OwnerCheck, ServiceOf!OwnerCheck

-------------------------------------------------------------------------------
(* Every step is a step of FileService or leaves all of it alone.           *)

(* The service does for FilesUseCase what it does in FileService. *)
LEMMA SaveRefines ==
  ASSUME TypeOK, NEW p \in Proc, Svc!SaveStep(p) PROVE ServiceOf!SaveStep(p)
  <1> USE DEF InService, Svc!Fault, ServiceOf!Fault, ServiceOf!store,
              ServiceOf!history
  <1>1. ASSUME Svc!SaveCreate(p) PROVE ServiceOf!SaveCreate(p)
    BY <1>1, SeenMove DEF Svc!SaveCreate, ServiceOf!SaveCreate
  <1>2. ASSUME Svc!SaveCreateFails(p) PROVE ServiceOf!SaveCreateFails(p)
    BY <1>2, SeenMove DEF Svc!SaveCreateFails, ServiceOf!SaveCreateFails
  <1>3. ASSUME Svc!SaveWrite(p) PROVE ServiceOf!SaveWrite(p)
    BY <1>3, SeenMove DEF Svc!SaveWrite, ServiceOf!SaveWrite
  <1>4. ASSUME Svc!SaveWriteFails(p) PROVE ServiceOf!SaveWriteFails(p)
    BY <1>4, SeenMove DEF Svc!SaveWriteFails, ServiceOf!SaveWriteFails
  <1>5. ASSUME Svc!SaveInsert(p) PROVE ServiceOf!SaveInsert(p)
    BY <1>5, SeenMove DEF Svc!SaveInsert, ServiceOf!SaveInsert
  <1>6. ASSUME Svc!SaveInsertFails(p) PROVE ServiceOf!SaveInsertFails(p)
    BY <1>6, SeenMove DEF Svc!SaveInsertFails, ServiceOf!SaveInsertFails
  <1>7. ASSUME Svc!SaveInsertUnacked(p) PROVE ServiceOf!SaveInsertUnacked(p)
    BY <1>7, SeenMove DEF Svc!SaveInsertUnacked, ServiceOf!SaveInsertUnacked
  <1>8. ASSUME Svc!SaveUndo(p) PROVE ServiceOf!SaveUndo(p)
    BY <1>8, SeenMove DEF Svc!SaveUndo, ServiceOf!SaveUndo
  <1>9. ASSUME Svc!SaveUndoFails(p) PROVE ServiceOf!SaveUndoFails(p)
    BY <1>9, SeenMove DEF Svc!SaveUndoFails, ServiceOf!SaveUndoFails
  <1>10. QED
    BY Svc!SaveStep(p), <1>1, <1>2, <1>3, <1>4, <1>5, <1>6, <1>7, <1>8, <1>9
    DEF Svc!SaveStep, ServiceOf!SaveStep

LEMMA GetRefines ==
  ASSUME TypeOK, NEW p \in Proc, Svc!GetStep(p) PROVE ServiceOf!GetStep(p)
  <1> USE DEF InService, Svc!Fault, ServiceOf!Fault, ServiceOf!store,
              ServiceOf!history
  <1>1. ASSUME Svc!GetMeta(p) PROVE ServiceOf!GetMeta(p)
    <2>1. PICK label \in Svc!SvcLabels :
            label = Svc!OwnerCheck(p, "get_blob")
      BY SeenCheck
    <2>2. InService(p) /\ Svc!Goto(p, label) /\ UNCHANGED <<user, file>>
      BY <1>1, <2>1 DEF Svc!GetMeta, Svc!Stay
    <2>3. ServiceOf!Goto(p, label) /\ ServiceOf!Stay
      BY <2>2, SeenMove
    <2>4. label = ServiceOf!OwnerCheck(p, "get_blob")
      BY <2>1, <2>2, SeenCheck
    <2>5. QED
      BY <1>1, <2>3, <2>4
      DEF Svc!GetMeta, ServiceOf!GetMeta, ServiceOf!Goto
  <1>2. ASSUME Svc!GetBlob(p) PROVE ServiceOf!GetBlob(p)
    <2>1. PICK label \in Svc!SvcLabels :
            label = IF blobs[file[p]] = "absent" THEN "not_found" ELSE "ok"
      OBVIOUS
    <2>2. InService(p) /\ Svc!Goto(p, label) /\ UNCHANGED <<user, file>>
      BY <1>2, <2>1 DEF Svc!GetBlob, Svc!Stay
    <2>3. ServiceOf!Goto(p, label) /\ ServiceOf!Stay
      BY <2>2, SeenMove
    <2>4. QED
      BY <1>2, <2>1, <2>3 DEF Svc!GetBlob, ServiceOf!GetBlob, ServiceOf!Goto
  <1>3. ASSUME Svc!GetBlobFails(p) PROVE ServiceOf!GetBlobFails(p)
    BY <1>3, SeenMove DEF Svc!GetBlobFails, ServiceOf!GetBlobFails
  <1>4. QED
    BY Svc!GetStep(p), <1>1, <1>2, <1>3
    DEF Svc!GetStep, ServiceOf!GetStep

LEMMA DeleteRefines ==
  ASSUME TypeOK, NEW p \in Proc, Svc!DeleteStep(p)
  PROVE  ServiceOf!DeleteStep(p)
  <1> USE DEF InService, Svc!Fault, ServiceOf!Fault, ServiceOf!store,
              ServiceOf!history
  <1>1. ASSUME Svc!DeleteMeta(p) PROVE ServiceOf!DeleteMeta(p)
    <2>1. PICK label \in Svc!SvcLabels :
            label = Svc!OwnerCheck(p, "del_row")
      BY SeenCheck
    <2>2. InService(p) /\ Svc!Goto(p, label) /\ UNCHANGED <<user, file>>
      BY <1>1, <2>1 DEF Svc!DeleteMeta, Svc!Stay
    <2>3. ServiceOf!Goto(p, label) /\ ServiceOf!Stay
      BY <2>2, SeenMove
    <2>4. label = ServiceOf!OwnerCheck(p, "del_row")
      BY <2>1, <2>2, SeenCheck
    <2>5. QED
      BY <1>1, <2>3, <2>4
      DEF Svc!DeleteMeta, ServiceOf!DeleteMeta, ServiceOf!Goto
  <1>2. ASSUME Svc!MetaFails(p) PROVE ServiceOf!MetaFails(p)
    BY <1>2, SeenMove DEF Svc!MetaFails, ServiceOf!MetaFails
  <1>3. ASSUME Svc!DeleteRow(p) PROVE ServiceOf!DeleteRow(p)
    BY <1>3, SeenMove DEF Svc!DeleteRow, ServiceOf!DeleteRow
  <1>4. ASSUME Svc!DeleteRowFails(p) PROVE ServiceOf!DeleteRowFails(p)
    BY <1>4, SeenMove DEF Svc!DeleteRowFails, ServiceOf!DeleteRowFails
  <1>5. ASSUME Svc!DeleteRowUnacked(p) PROVE ServiceOf!DeleteRowUnacked(p)
    BY <1>5, SeenMove DEF Svc!DeleteRowUnacked, ServiceOf!DeleteRowUnacked
  <1>6. ASSUME Svc!DeleteBlob(p) PROVE ServiceOf!DeleteBlob(p)
    BY <1>6, SeenMove DEF Svc!DeleteBlob, ServiceOf!DeleteBlob
  <1>7. ASSUME Svc!DeleteBlobMissing(p) PROVE ServiceOf!DeleteBlobMissing(p)
    BY <1>7, SeenMove DEF Svc!DeleteBlobMissing, ServiceOf!DeleteBlobMissing
  <1>8. ASSUME Svc!DeleteBlobFails(p) PROVE ServiceOf!DeleteBlobFails(p)
    BY <1>8, SeenMove DEF Svc!DeleteBlobFails, ServiceOf!DeleteBlobFails
  <1>9. QED
    BY Svc!DeleteStep(p), <1>1, <1>2, <1>3, <1>4, <1>5, <1>6, <1>7, <1>8
    DEF Svc!DeleteStep, ServiceOf!DeleteStep

(* What FileService promises about the rows and the calls under way. *)
LEMMA StoreFacts ==
  ASSUME TypeOK, ServiceOf!Inv
  PROVE  /\ Svc!published \subseteq used
         /\ \A f \in File :
              /\ rows[f] # NoUser => f \in Svc!published
              /\ rows[f] # NoUser /\ blobs[f] # "full" => f \in torn
              /\ f \in gone => rows[f] = NoUser
         /\ \A p \in Proc :
              /\ InService(p) => user[p] \in User /\ file[p] \in File
              /\ pc[p] \in {"save_create", "save_write", "save_insert"} =>
                   file[p] \in used \ Svc!published
              /\ pc[p] = "save_undo" => file[p] \in used \ acked
              /\ pc[p] \in {"get_blob", "del_row", "del_blob"} =>
                   file[p] \in Svc!published
              /\ pc[p] = "del_row" => rows[file[p]] \in {user[p], NoUser}
              /\ pc[p] = "del_blob" => rows[file[p]] = NoUser
  <1> USE DEF ServiceOf!Inv, ServiceOf!published, InService
  <1>1. Svc!published \subseteq used
    BY DEF ServiceOf!LifeOfAnId
  <1>2. \A f \in File :
          /\ rows[f] # NoUser => f \in Svc!published
          /\ rows[f] # NoUser /\ blobs[f] # "full" => f \in torn
          /\ f \in gone => rows[f] = NoUser
    BY DEF ServiceOf!LifeOfAnId, ServiceOf!AckedRowHasBytes,
           ServiceOf!RemovalIsFinal
  <1>3. ASSUME NEW p \in Proc, InService(p)
        PROVE  user[p] \in User /\ file[p] \in File
    BY <1>3 DEF ServiceOf!Running
  <1>4. ASSUME NEW p \in Proc
        PROVE  /\ pc[p] \in {"save_create", "save_write", "save_insert"} =>
                    file[p] \in used \ Svc!published
               /\ pc[p] = "save_undo" => file[p] \in used \ acked
    BY DEF ServiceOf!SavesApart
  <1>5. ASSUME NEW p \in Proc
        PROVE  /\ pc[p] \in {"get_blob", "del_row", "del_blob"} =>
                    file[p] \in Svc!published
               /\ pc[p] = "del_row" => rows[file[p]] \in {user[p], NoUser}
               /\ pc[p] = "del_blob" => rows[file[p]] = NoUser
    BY DEF ServiceOf!PastTheRow
  <1>6. QED
    BY <1>1, <1>2, <1>3, <1>4, <1>5

(* A step outside of the service that leaves its stores alone. *)
LEMMA SeenQuiet ==
  ASSUME TypeOK, NEW p \in Proc, NEW label, label \notin Svc!SvcLabels,
         ~InService(p), Svc!Goto(p, label), UNCHANGED files,
         \A q \in Proc : q # p => user'[q] = user[q] /\ file'[q] = file[q]
  PROVE  UNCHANGED ServiceOf!svcVars
  BY SeenNot DEF ServiceOf!svcVars, ServiceOf!call

(* A new request calls the service only when it is a download. *)
LEMMA RequestRefines ==
  ASSUME TypeOK, NEW p \in Proc, Request(p)
  PROVE  [ServiceOf!Next]_(ServiceOf!svcVars)
  <1>1. ASSUME NEW o, NEW label, label \notin Svc!SvcLabels,
               NEW u \in User, NEW f, Begin(p, o, label, u, f)
        PROVE  UNCHANGED ServiceOf!svcVars
    BY <1>1, SeenQuiet DEF Begin, TypeOK, InService
  <1>2. ASSUME NEW u \in User, NEW f \in File, BeginDownload(p, u, f)
        PROVE  ServiceOf!Next
    <2>1. ServiceOf!Enter(p, "get_meta", user'[p], file'[p])
      BY <1>2, SeenEnter DEF BeginDownload, Begin, TypeOK, InService
    <2>2. user'[p] = u /\ file'[p] = f
      BY <1>2 DEF BeginDownload, Begin, TypeOK
    <2>3. ServiceOf!CallGetForOwner(p, u, f)
      BY <1>2, <2>1, <2>2
      DEF BeginDownload, Begin, ServiceOf!CallGetForOwner, ServiceOf!Enter,
          ServiceOf!store, ServiceOf!history
    <2>4. QED
      BY <2>3 DEF ServiceOf!Next
  <1>3. QED
    BY Request(p), <1>1, <1>2
    DEF Request, BeginUpload, BeginShared, BeginDelete, BeginShare,
        BeginRevoke, BeginRevokeUser

(* A request calls the service with a fresh id, or past a check of its own. *)
LEMMA ServeRefines ==
  ASSUME TypeOK, ServiceOf!Inv, RequestsInOrder, PastTheCheck,
         NEW p \in Proc, Serve(p)
  PROVE  [ServiceOf!Next]_(ServiceOf!svcVars)
  <1> USE DEF InService
  <1>0. op[p] # "none" => user[p] \in User
    BY DEF RequestsInOrder
  <1>1. ASSUME NEW f \in File, UploadOpen(p, f) PROVE ServiceOf!Next
    <2>1. user[p] \in User
      BY <1>0, <1>1 DEF UploadOpen, RequestsInOrder, LabelsOf
    <2>2. ServiceOf!Enter(p, "save_create", user'[p], file'[p])
      BY <1>1, SeenEnter DEF UploadOpen, TypeOK
    <2>3. ServiceOf!CallSave(p, user[p], f)
      BY <1>1, <2>2
      DEF UploadOpen, Left, TypeOK, ServiceOf!CallSave, ServiceOf!Enter,
          ServiceOf!history
    <2>4. QED
      BY <2>1, <2>3 DEF ServiceOf!Next
  <1>2. ASSUME pc[p] \in {"gs_meta", "gs_access"}, Move(p, "get_blob"),
               file[p] \in Svc!published, user[p] \in User
        PROVE  ServiceOf!Next
    <2>1. ServiceOf!Enter(p, "get_blob", user'[p], file'[p])
      BY <1>2, SeenEnter DEF TypeOK
    <2>2. PICK u \in User, f \in File : u = user[p] /\ f = file[p]
      BY <1>2 DEF TypeOK
    <2>3. ServiceOf!CallGet(p, u, f)
      BY <1>2, <2>1, <2>2
      DEF ServiceOf!CallGet, ServiceOf!Enter, ServiceOf!store,
          ServiceOf!history, ServiceOf!published
    <2>4. QED
      BY <2>3 DEF ServiceOf!Next
  <1>3. ASSUME NEW label \in UseCaseLabels, Jump(p, label), ~InService(p)
        PROVE  UNCHANGED ServiceOf!svcVars
    BY <1>3, SeenQuiet
  <1>4. CASE SharedMeta(p)
    <2>1. user[p] \in User /\ file[p] \in File
      BY <1>4, <1>0 DEF SharedMeta, RequestsInOrder, LabelsOf
    <2>2. CASE rows[file[p]] = user[p]
      <3>1. file[p] \in Svc!published
        BY <2>1, <2>2, StoreFacts, UseCaseAssumption
      <3>2. Move(p, "get_blob")
        BY <1>4, <2>1, <2>2, UseCaseAssumption DEF SharedMeta, MetaCheck
      <3>3. QED
        BY <1>4, <2>1, <3>1, <3>2, <1>2 DEF SharedMeta
    <2>3. CASE rows[file[p]] # user[p]
      <3>1. Move(p, "404") \/ Move(p, "gs_access")
        BY <1>4, <2>3 DEF SharedMeta, MetaCheck
      <3>2. QED
        BY <1>4, <3>1, <1>3 DEF SharedMeta
    <2>4. QED
      BY <2>2, <2>3
  <1>5. CASE SharedAccess(p)
    <2>1. user[p] \in User /\ file[p] \in Svc!published
      BY <1>5, <1>0 DEF SharedAccess, RequestsInOrder, LabelsOf, PastTheCheck
    <2>2. Move(p, "get_blob") \/ Move(p, "403")
      BY <1>5 DEF SharedAccess
    <2>3. QED
      BY <1>5, <2>1, <2>2, <1>2, <1>3 DEF SharedAccess
  <1>6. CASE DeleteRevokeAll(p)
    <2>1. PICK u \in User, f \in File : u = user[p] /\ f = file[p]
      BY <1>6, <1>0 DEF DeleteRevokeAll, RequestsInOrder, LabelsOf
    <2>2. CASE Jump(p, "del_meta")
      <3>1. ServiceOf!Enter(p, "del_meta", user'[p], file'[p])
        BY <1>6, <2>2, SeenEnter DEF DeleteRevokeAll, TypeOK
      <3>2. ServiceOf!CallDelete(p, u, f)
        BY <1>6, <2>1, <2>2, <3>1
        DEF ServiceOf!CallDelete, ServiceOf!Enter, ServiceOf!store,
            ServiceOf!history
      <3>3. QED
        BY <3>2 DEF ServiceOf!Next
    <2>3. QED
      BY <1>6, <2>2, <1>3 DEF DeleteRevokeAll, Write
  <1>7. CASE UploadNext(p) \/ Answer(p)
    <2>1. PICK label : /\ label \notin Svc!SvcLabels
                       /\ Svc!Goto(p, label)
                       /\ pc[p] \in Svc!Outcomes
                       /\ UNCHANGED <<user, files>>
                       /\ \A q \in Proc : q # p => file'[q] = file[q]
      BY <1>7 DEF UploadNext, Answer, Status, TypeOK
    <2>2. QED
      BY <2>1, SeenReturn DEF ServiceOf!Next
  <1>8. CASE ServiceStep(p)
    BY <1>8, SaveRefines, GetRefines, DeleteRefines
    DEF ServiceStep, ServiceOf!Next
  <1>9. CASE \/ UploadExists(p) \/ UploadOpenFails(p) \/ DeleteCheck(p)
             \/ ShareCheck(p) \/ RevokeCheck(p) \/ QueryFails(p)
             \/ ShareGrantOrphan(p) \/ LookUp(p) \/ LookUpAt(p)
             \/ ShareGrant(p) \/ RevokeDelete(p)
    <2>1. PICK label \in UseCaseLabels : Jump(p, label) /\ ~InService(p)
      BY <1>9
      DEF UploadExists, UploadOpenFails, DeleteCheck, ShareCheck, RevokeCheck,
          QueryFails, ShareGrantOrphan, LookUp, LookUpAt, Found, ShareGrant,
          RevokeDelete, MetaCheck, Write
    <2>2. QED
      BY <2>1, <1>3
  <1>10. CASE Respond(p)
    BY <1>10, SeenQuiet DEF Respond, TypeOK
  <1>11. QED
    BY Serve(p), <1>1, <1>4, <1>5, <1>6, <1>7, <1>8, <1>9, <1>10 DEF Serve

(* Every step of the use case, then. *)
LEMMA StepRefines ==
  ASSUME TypeOK, ServiceOf!Inv, RequestsInOrder, PastTheCheck, Step
  PROVE  [ServiceOf!Next]_(ServiceOf!svcVars)
  <1>1. ASSUME NEW u \in User, NEW n \in Name, Register(u, n) \/ Rename(u, n)
        PROVE  UNCHANGED ServiceOf!svcVars
    BY <1>1 DEF Register, Rename, ServiceOf!svcVars, InService
  <1>2. CASE Crash
    <2>1. {f \in File : \E p \in Proc : file[p] = f /\ pc[p] \in Svc!Holding} =
            {f \in File : \E p \in Proc :
               /\ (IF InService(p) THEN file[p] ELSE NoFile) = f
               /\ (IF InService(p) THEN pc[p] ELSE "idle")
                    \in ServiceOf!Holding}
      BY DEF InService, Svc!Holding, ServiceOf!Holding
    <2>2. ServiceOf!Crash
      BY <1>2, <2>1
      DEF Crash, Svc!Crash, ServiceOf!Crash, Svc!Fault, ServiceOf!Fault,
          ServiceOf!store, InService
    <2>3. QED
      BY <2>2 DEF ServiceOf!Next
  <1>3. QED
    BY Step, <1>1, <1>2, RequestRefines, ServeRefines DEF Step

(* Below and ServiceOf are the same instance of the same definitions. *)
LEMMA SameInv == Below!Inv <=> ServiceOf!Inv
  BY DEF InService,
         Below!Inv, ServiceOf!Inv, Below!TypeOK, ServiceOf!TypeOK,
         Below!Running, ServiceOf!Running, Below!SavesApart,
         ServiceOf!SavesApart, Below!PastTheRow, ServiceOf!PastTheRow,
         Below!LifeOfAnId, ServiceOf!LifeOfAnId, Below!AckedRowHasBytes,
         ServiceOf!AckedRowHasBytes, Below!RemovalIsFinal,
         ServiceOf!RemovalIsFinal, Below!SaveLabels, ServiceOf!SaveLabels,
         Below!GetLabels, ServiceOf!GetLabels, Below!DeleteLabels,
         ServiceOf!DeleteLabels, Below!Outcomes, ServiceOf!Outcomes,
         Below!SvcLabels, ServiceOf!SvcLabels, Below!published,
         ServiceOf!published

LEMMA SameNext == Below!Next <=> ServiceOf!Next
  BY DEF InService,
         Below!Next, ServiceOf!Next, Below!Fault, ServiceOf!Fault, Below!Goto,
         ServiceOf!Goto, Below!Enter, ServiceOf!Enter, Below!Stay,
         ServiceOf!Stay, Below!store, ServiceOf!store, Below!history,
         ServiceOf!history, Below!CallSave, ServiceOf!CallSave,
         Below!CallGetForOwner, ServiceOf!CallGetForOwner, Below!CallGet,
         ServiceOf!CallGet, Below!CallDelete, ServiceOf!CallDelete,
         Below!SaveStep, ServiceOf!SaveStep, Below!SaveCreate,
         ServiceOf!SaveCreate, Below!SaveCreateFails,
         ServiceOf!SaveCreateFails, Below!SaveWrite, ServiceOf!SaveWrite,
         Below!SaveWriteFails, ServiceOf!SaveWriteFails, Below!SaveInsert,
         ServiceOf!SaveInsert, Below!SaveInsertFails,
         ServiceOf!SaveInsertFails, Below!SaveInsertUnacked,
         ServiceOf!SaveInsertUnacked, Below!SaveUndo, ServiceOf!SaveUndo,
         Below!SaveUndoFails, ServiceOf!SaveUndoFails, Below!GetStep,
         ServiceOf!GetStep, Below!OwnerCheck, ServiceOf!OwnerCheck,
         Below!GetMeta, ServiceOf!GetMeta, Below!GetBlob, ServiceOf!GetBlob,
         Below!GetBlobFails, ServiceOf!GetBlobFails, Below!DeleteStep,
         ServiceOf!DeleteStep, Below!DeleteMeta, ServiceOf!DeleteMeta,
         Below!MetaFails, ServiceOf!MetaFails, Below!DeleteRow,
         ServiceOf!DeleteRow, Below!DeleteRowFails, ServiceOf!DeleteRowFails,
         Below!DeleteRowUnacked, ServiceOf!DeleteRowUnacked, Below!DeleteBlob,
         ServiceOf!DeleteBlob, Below!DeleteBlobMissing,
         ServiceOf!DeleteBlobMissing, Below!DeleteBlobFails,
         ServiceOf!DeleteBlobFails, Below!Return, ServiceOf!Return,
         Below!Crash, ServiceOf!Crash, Below!Holding, ServiceOf!Holding,
         Below!SaveLabels, ServiceOf!SaveLabels, Below!GetLabels,
         ServiceOf!GetLabels, Below!DeleteLabels, ServiceOf!DeleteLabels,
         Below!Outcomes, ServiceOf!Outcomes, Below!SvcLabels,
         ServiceOf!SvcLabels, Below!published, ServiceOf!published

(* The invariant of FileService holds after every step that keeps to it. *)
LEMMA StoresNext ==
  ASSUME TypeOK, ServiceOf!Inv, RequestsInOrder, PastTheCheck, Step
  PROVE  ServiceOf!Inv'
  <1>1. [Below!Next]_(Below!svcVars)
    BY SameNext, StepRefines DEF Below!svcVars, ServiceOf!svcVars
  <1>2. Below!Inv'
    BY <1>1, SameInv, BelowAssumption, Below!NextInv
  <1>3. QED
    BY <1>2, SameInv, PTL

-------------------------------------------------------------------------------
(* What the steps of the service mean to a request.                         *)

(* Where a step of the service leads, and what it does to the row. *)
LEMMA ServiceMoves ==
  ASSUME TypeOK, ServiceOf!Inv, NEW p \in Proc, ServiceStep(p)
  PROVE  /\ UNCHANGED <<user, file, used, request, names>>
         /\ acked \subseteq acked' /\ torn \subseteq torn' /\ gone \subseteq gone'
         /\ \/ UNCHANGED rows
            \/ /\ pc[p] = "save_insert"
               /\ rows' = [rows EXCEPT ![file[p]] = user[p]]
            \/ /\ pc[p] = "del_row"
               /\ rows' = [rows EXCEPT ![file[p]] = NoUser]
         /\ \E label \in Svc!SvcLabels :
              /\ Svc!Goto(p, label)
              /\ \/ /\ pc[p] \in Svc!SaveLabels
                    /\ label \in Svc!SaveLabels \cup {"ok", "err"}
                    /\ label = "ok" => file[p] \in acked'
                 \/ /\ pc[p] = "get_meta" /\ UNCHANGED rows
                    /\ \/ label = "get_blob"  /\ rows[file[p]] = user[p]
                       \/ label = "forbidden" /\ rows[file[p]] # user[p]
                       \/ label = "not_found" /\ rows[file[p]] = NoUser
                       \/ label = "err"
                 \/ /\ pc[p] = "get_blob" /\ UNCHANGED <<rows, torn>>
                    /\ \/ label \in {"ok", "err"}
                       \/ label = "not_found" /\ blobs[file[p]] = "absent"
                 \/ /\ pc[p] \in Svc!DeleteLabels
                    /\ label \in Svc!DeleteLabels \cup Svc!Outcomes
                    /\ label = "ok" => file[p] \in gone'
  <1> USE ServiceStep(p)
      DEF ServiceStep, Svc!Stay, TypeOK
  <1>0. InService(p) => user[p] \in User /\ file[p] \in File
    BY StoreFacts DEF TypeOK
  <1>1. CASE Svc!SaveStep(p)
    BY <1>1
    DEF Svc!SaveStep, Svc!SaveCreate, Svc!SaveCreateFails, Svc!SaveWrite,
        Svc!SaveWriteFails, Svc!SaveInsert, Svc!SaveInsertFails,
        Svc!SaveInsertUnacked, Svc!SaveUndo, Svc!SaveUndoFails
  <1>2. CASE Svc!GetStep(p)
    BY <1>0, <1>2, UseCaseAssumption
    DEF Svc!GetStep, Svc!GetMeta, Svc!GetBlob, Svc!GetBlobFails,
        Svc!OwnerCheck, InService
  <1>3. CASE Svc!DeleteStep(p)
    BY <1>0, <1>3, UseCaseAssumption
    DEF Svc!DeleteStep, Svc!DeleteMeta, Svc!MetaFails, Svc!DeleteRow,
        Svc!DeleteRowFails, Svc!DeleteRowUnacked, Svc!DeleteBlob,
        Svc!DeleteBlobMissing, Svc!DeleteBlobFails, Svc!OwnerCheck, InService
  <1>4. QED
    BY <1>1, <1>2, <1>3

-------------------------------------------------------------------------------
(* Each part of Inv is preserved.  A step is another goroutine's (Others), a *)
(* step of the service (ServiceMoves), or a statement of the use case.       *)

(* Writes of a whole row of perms and of one of its counts keep its type. *)
LEMMA GrantsTyped ==
  ASSUME NEW S, NEW R, NEW T, NEW F \in [S -> [R -> T]],
         NEW x, NEW z
  PROVE  /\ \A g \in [R -> T] : [F EXCEPT ![x] = g] \in [S -> [R -> T]]
         /\ \A y \in T : [F EXCEPT ![x][z] = y] \in [S -> [R -> T]]
  OBVIOUS

(* Each variable keeps to its type. *)
LEMMA TypeNext ==
  ASSUME Inv, Next PROVE TypeOK'
  <1> USE DEF TypeOK
  <1> DEFINE Labels == Svc!SvcLabels \cup UseCaseLabels \cup {"idle"}
  <1>0. TypeOK
    BY DEF Inv
  <1>1. held' \in [Proc -> BOOLEAN] /\ lost' \in [Proc -> BOOLEAN]
    BY Next DEF Next, Watch
  <1>2. ASSUME NEW u \in User, NEW n \in Name, Register(u, n) \/ Rename(u, n)
        PROVE  TypeOK'
    BY <1>0, <1>1, <1>2 DEF Register, Rename, Users!Register, Users!Rename
  <1>3. ASSUME NEW p \in Proc, Request(p) PROVE TypeOK'
    <2>1. /\ pc' \in [Proc -> Labels]
          /\ user' \in [Proc -> User \cup {NoUser}]
          /\ file' \in [Proc -> File \cup {NoFile}]
          /\ op' \in [Proc -> Operations \cup {"none"}]
          /\ UNCHANGED <<files, tables>>
      <3>1. ASSUME NEW o \in Operations, NEW label \in Labels,
                   NEW u \in User, NEW f \in File \cup {NoFile},
                   Begin(p, o, label, u, f)
            PROVE  <2>1!:
        BY <1>0, <3>1 DEF Begin
      <3>2. QED
        BY <1>3, <3>1
        DEF Request, BeginUpload, BeginDownload, BeginShared, BeginDelete,
            BeginShare, BeginRevoke, BeginRevokeUser
    <2>2. /\ typed' \in [Proc -> Name \cup {NoName}]
          /\ target' \in [Proc -> User \cup {NoUser}]
          /\ batch' \in [Proc -> SUBSET File]
      <3>1. ASSUME NEW u \in User, NEW B \in SUBSET File, BeginUpload(p, u, B)
            PROVE  <2>2!:
        BY <1>0, <3>1 DEF BeginUpload
      <3>2. ASSUME NEW u \in User, NEW f \in File, NEW n \in Name,
                   BeginShare(p, u, f, n) \/ BeginRevoke(p, u, f, n)
            PROVE  <2>2!:
        BY <1>0, <3>2 DEF BeginShare, BeginRevoke
      <3>3. ASSUME NEW u \in User, NEW f \in File, NEW t \in User,
                   BeginRevokeUser(p, u, f, t)
            PROVE  <2>2!:
        BY <1>0, <3>3 DEF BeginRevokeUser
      <3>4. ASSUME NEW u \in User, NEW f \in File,
                   \/ BeginDownload(p, u, f) \/ BeginShared(p, u, f)
                   \/ BeginDelete(p, u, f)
            PROVE  <2>2!:
        BY <1>0, <3>4 DEF BeginDownload, BeginShared, BeginDelete
      <3>5. QED
        BY <1>3, <3>1, <3>2, <3>3, <3>4 DEF Request
    <2>3. QED
      BY <1>0, <1>1, <2>1, <2>2
  <1>4. ASSUME NEW p \in Proc, Serve(p) PROVE TypeOK'
    <2>1. CASE ServiceStep(p)
      <3>1. ServiceOf!TypeOK'
        BY <1>4, Next, StoresNext DEF Inv, Next, Step, ServiceOf!Inv
      <3>2. /\ UNCHANGED <<user, file, request, names>>
            /\ \E label \in Svc!SvcLabels : Svc!Goto(p, label)
        BY <2>1, ServiceMoves DEF Inv
      <3>3. perms' \in [File -> [User -> 0..MaxRows]]
        BY <1>0, <2>1, UseCaseAssumption DEF ServiceStep, Cascade, NoGrants
      <3>4. QED
        BY <1>0, <1>1, <3>1, <3>2, <3>3 DEF ServiceOf!TypeOK
    <2>2. CASE \E f \in File : UploadOpen(p, f)
      BY <1>0, <1>1, <2>2 DEF UploadOpen
    <2>3. CASE \/ ShareGrant(p) \/ RevokeDelete(p) \/ DeleteRevokeAll(p)
      <3>1. perms' \in [File -> [User -> 0..MaxRows]]
        <4>1. CASE ShareGrant(p)
          <5>1. file[p] \in File /\ target[p] \in User
            BY <4>1 DEF ShareGrant, Inv, RequestsInOrder, LabelsOf
          <5>2. perms[file[p]][target[p]] \in 0..MaxRows
            BY <1>0, <5>1
          <5>3. OneMore(perms[file[p]][target[p]]) \in 0..MaxRows
            BY <5>2, UseCaseAssumption DEF OneMore
          <5>4. perms' = [perms EXCEPT ![file[p]][target[p]] =
                            OneMore(perms[file[p]][target[p]])]
            BY <1>0, <4>1, <5>1 DEF ShareGrant, Write
          <5>5. QED
            BY <1>0, <5>3, <5>4, GrantsTyped
        <4>2. CASE RevokeDelete(p)
          <5>1. 0 \in 0..MaxRows
            BY UseCaseAssumption
          <5>2. perms' = [perms EXCEPT ![file[p]][target[p]] = 0]
            BY <4>2 DEF RevokeDelete, Write
          <5>3. QED
            BY <1>0, <5>1, <5>2, GrantsTyped
        <4>3. CASE DeleteRevokeAll(p)
          <5>1. NoGrants \in [User -> 0..MaxRows]
            BY UseCaseAssumption DEF NoGrants
          <5>2. perms' = [perms EXCEPT ![file[p]] = NoGrants]
            BY <4>3 DEF DeleteRevokeAll, Write
          <5>3. QED
            BY <1>0, <5>1, <5>2, GrantsTyped
        <4>4. QED
          BY <2>3, <4>1, <4>2, <4>3
      <3>2. PICK label \in Labels : Jump(p, label)
        BY <2>3 DEF ShareGrant, RevokeDelete, DeleteRevokeAll, Write
      <3>3. UNCHANGED <<request, names>>
        BY <2>3 DEF ShareGrant, RevokeDelete, DeleteRevokeAll, Write
      <3>4. QED
        BY <1>0, <1>1, <3>1, <3>2, <3>3
    <2>4. CASE \E t \in User : Found(p, t)
      BY <1>0, <1>1, <2>4 DEF Found
    <2>5. CASE \E label \in Labels : Move(p, label)
      BY <1>0, <1>1, <2>5
    <2>6. CASE UploadNext(p)
      BY <1>0, <1>1, <2>6 DEF UploadNext
    <2>7. CASE Respond(p)
      BY <1>0, <1>1, <2>7 DEF Respond
    <2>8. QED
      BY <1>4, <2>1, <2>2, <2>3, <2>4, <2>5, <2>6, <2>7
      DEF Serve, LookUp, LookUpAt, Account, UploadExists, UploadOpenFails,
          SharedMeta, SharedAccess, DeleteCheck, ShareCheck, RevokeCheck,
          ShareGrantOrphan, QueryFails, Answer, MetaCheck, Status
  <1>5. CASE Crash
    BY <1>0, <1>1, <1>5 DEF Crash, Svc!Crash
  <1>6. QED
    BY Next, <1>2, <1>3, <1>4, <1>5 DEF Next, Step

(* A goroutine does nothing to the request of another. *)
LEMMA Others ==
  ASSUME TypeOK, ServiceOf!Inv, NEW p \in Proc, Request(p) \/ Serve(p),
         NEW q \in Proc, q # p
  PROVE  UNCHANGED <<pc[q], user[q], file[q], op[q], typed[q], target[q],
                     batch[q]>>
  <1> USE DEF TypeOK
  <1>1. CASE Request(p)
    BY <1>1
    DEF Request, Begin, BeginUpload, BeginDownload, BeginShared, BeginDelete,
        BeginShare, BeginRevoke, BeginRevokeUser
  <1>2. CASE ServiceStep(p)
    <2>1. UNCHANGED <<user, file, request>> /\ \E label : Svc!Goto(p, label)
      BY <1>2, ServiceMoves
    <2>2. QED
      BY <2>1
  <1>3. CASE Serve(p) /\ ~ServiceStep(p)
    <2>1. CASE \E label : Jump(p, label) /\ UNCHANGED request
      BY <2>1
    <2>2. CASE \E t \in User : Found(p, t)
      BY <2>2 DEF Found
    <2>3. CASE UploadNext(p) \/ Respond(p) \/ \E f \in File : UploadOpen(p, f)
      BY <2>3 DEF UploadNext, Respond, UploadOpen
    <2>4. QED
      BY <1>3, <2>1, <2>2, <2>3
      DEF Serve, LookUp, LookUpAt, UploadExists, UploadOpenFails, SharedMeta,
          SharedAccess, DeleteCheck, DeleteRevokeAll, ShareCheck, ShareGrant,
          ShareGrantOrphan, RevokeCheck, RevokeDelete, QueryFails, Answer,
          Write, Account
  <1>4. QED
    BY <1>1, <1>2, <1>3

(* A request comes through the statements of its operation. *)
LEMMA OrderNext ==
  ASSUME Inv, Next PROVE RequestsInOrder'
  <1> DEFINE InOrder(p) ==
        /\ pc[p] \in LabelsOf(op[p])
        /\ op[p] # "none" => user[p] \in User
        /\ op[p] \notin {"none", "upload"} \/ InService(p) => file[p] \in File
        /\ pc[p] \in {"idle", "sh_meta", "name", "name_at"} =>
             target[p] = NoUser
        /\ pc[p] \in {"sh_grant", "rv_meta", "rv_delete"} => target[p] \in User
  <1>0. TypeOK /\ ServiceOf!Inv /\ \A p \in Proc : InOrder(p)
    BY DEF Inv, RequestsInOrder
  <1>1. SUFFICES ASSUME NEW q \in Proc PROVE InOrder(q)'
    BY DEF RequestsInOrder
  <1>2. ASSUME UNCHANGED <<pc[q], op[q], user[q], file[q], target[q]>>
        PROVE  InOrder(q)'
    BY <1>0, <1>2 DEF InService
  <1>3. ASSUME NEW u \in User, NEW n \in Name, Register(u, n) \/ Rename(u, n)
        PROVE  InOrder(q)'
    BY <1>2, <1>3 DEF Register, Rename
  <1>4. CASE Request(q)
    <2>1. pc[q] = "idle" /\ op[q] = "none"
      BY <1>0, <1>4
      DEF Request, Begin, BeginUpload, BeginDownload, BeginShared, BeginDelete,
          BeginShare, BeginRevoke, BeginRevokeUser, LabelsOf, TypeOK
    <2>2. target[q] = NoUser
      BY <1>0, <2>1
    <2> USE <1>0, <2>1, <2>2 DEF Begin, LabelsOf, TypeOK, InService
    <2>3. ASSUME NEW u \in User, NEW B, BeginUpload(q, u, B)
          PROVE  InOrder(q)'
      BY <2>3 DEF BeginUpload
    <2>4. ASSUME NEW u \in User, NEW f \in File, BeginDownload(q, u, f)
          PROVE  InOrder(q)'
      BY <2>4 DEF BeginDownload
    <2>5. ASSUME NEW u \in User, NEW f \in File,
                 BeginShared(q, u, f) \/ BeginDelete(q, u, f)
          PROVE  InOrder(q)'
      BY <2>5 DEF BeginShared, BeginDelete
    <2>6. ASSUME NEW u \in User, NEW f \in File, NEW n,
                 BeginShare(q, u, f, n) \/ BeginRevoke(q, u, f, n)
          PROVE  InOrder(q)'
      BY <2>6 DEF BeginShare, BeginRevoke
    <2>7. ASSUME NEW u \in User, NEW f \in File, NEW t \in User,
                 BeginRevokeUser(q, u, f, t)
          PROVE  InOrder(q)'
      BY <2>7 DEF BeginRevokeUser
    <2>8. QED
      BY <1>4, <2>3, <2>4, <2>5, <2>6, <2>7 DEF Request
  <1>5. CASE ServiceStep(q)
    <2>1. InOrder(q)
      BY <1>0
    <2>2. QED
      BY <1>0, <1>5, <2>1, ServiceMoves DEF TypeOK, LabelsOf, InService
  <1>6. CASE Serve(q) /\ ~ServiceStep(q)
    <2> USE DEF LabelsOf, TypeOK, InService, MetaCheck, Write
    <2>1. InOrder(q)
      BY <1>0
    <2>2. CASE \/ UploadExists(q) \/ UploadOpenFails(q) \/ UploadNext(q)
               \/ \E f \in File : UploadOpen(q, f)
      <3>1. op[q] = "upload"
        BY <1>0, <2>1, <2>2
        DEF UploadExists, UploadOpenFails, UploadNext, UploadOpen
      <3>2. UNCHANGED <<op, user, target>>
        BY <2>2 DEF UploadExists, UploadOpenFails, UploadNext, UploadOpen
      <3>3. pc'[q] \in {"up_open", "500"} \/ pc'[q] = "save_create"
        BY <1>0, <2>2
        DEF UploadExists, UploadOpenFails, UploadNext, UploadOpen
      <3>4. pc'[q] = "save_create" => file'[q] \in File
        BY <1>0, <2>2
        DEF UploadExists, UploadOpenFails, UploadNext, UploadOpen
      <3>5. QED
        BY <2>1, <3>1, <3>2, <3>3, <3>4
    <2>3. CASE SharedMeta(q) \/ SharedAccess(q)
      BY <1>0, <2>1, <2>3 DEF SharedMeta, SharedAccess
    <2>4. CASE DeleteCheck(q) \/ DeleteRevokeAll(q)
      BY <1>0, <2>1, <2>4 DEF DeleteCheck, DeleteRevokeAll
    <2>5. CASE ShareCheck(q) \/ LookUp(q) \/ LookUpAt(q)
      BY <1>0, <2>1, <2>5 DEF ShareCheck, LookUp, LookUpAt, Found, Account
    <2>6. CASE ShareGrant(q) \/ ShareGrantOrphan(q)
      BY <1>0, <2>1, <2>6 DEF ShareGrant, ShareGrantOrphan
    <2>7. CASE RevokeCheck(q) \/ RevokeDelete(q)
      BY <1>0, <2>1, <2>7 DEF RevokeCheck, RevokeDelete
    <2>8. CASE QueryFails(q)
      BY <1>0, <2>1, <2>8 DEF QueryFails
    <2>9. CASE Answer(q) \/ Respond(q)
      BY <1>0, <2>1, <2>9 DEF Answer, Respond, Status
    <2>10. QED
      BY <1>6, <2>2, <2>3, <2>4, <2>5, <2>6, <2>7, <2>8, <2>9 DEF Serve
  <1>7. CASE Crash
    BY <1>7 DEF Crash, Svc!Crash, LabelsOf, InService
  <1>8. QED
    BY Next, <1>0, <1>2, <1>3, <1>4, <1>5, <1>6, <1>7, Others DEF Next, Step

(* The row of a published id can only go, and nothing is forgotten. *)
LEMMA RowsNext ==
  ASSUME Inv, Next
  PROVE  /\ acked \subseteq acked' /\ torn \subseteq torn' /\ gone \subseteq gone'
         /\ \A f \in Svc!published : rows'[f] \in {rows[f], NoUser}
  <1>1. TypeOK /\ ServiceOf!Inv
    BY DEF Inv
  <1> DEFINE Kept ==
        /\ acked \subseteq acked' /\ torn \subseteq torn' /\ gone \subseteq gone'
        /\ \A f \in Svc!published : rows'[f] \in {rows[f], NoUser}
  <1>2. CASE UNCHANGED <<acked, torn, gone, rows>>
    BY <1>2
  <1>3. ASSUME NEW p \in Proc, ServiceStep(p) PROVE Kept
    <2>1. pc[p] = "save_insert" => file[p] \notin Svc!published
      BY <1>1, StoreFacts
    <2>2. QED
      BY <1>1, <1>3, <2>1, ServiceMoves DEF TypeOK
  <1>4. ASSUME NEW p \in Proc, Serve(p), ~ServiceStep(p)
        PROVE  UNCHANGED <<acked, torn, gone, rows>>
    BY <1>4
    DEF Serve, UploadExists, UploadOpen, UploadOpenFails, UploadNext,
        SharedMeta, SharedAccess, DeleteCheck, DeleteRevokeAll, ShareCheck,
        LookUp, LookUpAt, Found, ShareGrant, ShareGrantOrphan, RevokeCheck,
        RevokeDelete, QueryFails, Answer, Respond, Write
  <1>5. ASSUME NEW p \in Proc, Request(p)
        PROVE  UNCHANGED <<acked, torn, gone, rows>>
    BY <1>5
    DEF Request, Begin, BeginUpload, BeginDownload, BeginShared, BeginDelete,
        BeginShare, BeginRevoke, BeginRevokeUser
  <1>6. QED
    BY Next, <1>2, <1>3, <1>4, <1>5
    DEF Next, Step, Register, Rename, Crash, Svc!Crash

(* A check that was passed is outdated only by the end of the row. *)
LEMMA CheckNext ==
  ASSUME Inv, Next PROVE PastTheCheck'
  <1> DEFINE Past(p) ==
        /\ \/ pc[p] \in {"ud_revoke", "rv_delete", "sh_grant"}
           \/ op[p] = "share" /\ pc[p] \in {"name", "name_at"}
           => file[p] \in Svc!published /\ rows[file[p]] \in {user[p], NoUser}
        /\ pc[p] = "gs_access" =>
             file[p] \in Svc!published /\ rows[file[p]] # user[p]
        /\ op[p] = "delete" /\ pc[p] = "ok" => file[p] \in gone
  <1>0. TypeOK /\ ServiceOf!Inv
    BY DEF Inv
  <1>1. SUFFICES ASSUME NEW q \in Proc PROVE Past(q)'
    BY DEF PastTheCheck
  <1>2. Past(q)
    BY DEF Inv, PastTheCheck
  <1>3. /\ pc[q] \in LabelsOf(op[q])
        /\ op[q] # "none" => user[q] \in User
        /\ op[q] \notin {"none", "upload"} \/ InService(q) => file[q] \in File
    BY DEF Inv, RequestsInOrder
  <1>4. ASSUME UNCHANGED <<pc[q], op[q], user[q], file[q]>> PROVE Past(q)'
    <2>1. pc[q] = "gs_access" => user[q] # NoUser
      BY <1>0, <1>3, UseCaseAssumption DEF LabelsOf, TypeOK
    <2>2. QED
      BY <1>2, <1>4, <2>1, RowsNext
  <1>5. CASE Request(q)
    BY <1>0, <1>5
    DEF Request, Begin, BeginUpload, BeginDownload, BeginShared, BeginDelete,
        BeginShare, BeginRevoke, BeginRevokeUser, TypeOK
  <1>6. CASE ServiceStep(q)
    <2>1. PICK label \in Svc!SvcLabels :
            /\ Svc!Goto(q, label) /\ UNCHANGED <<op, file>>
            /\ \/ label # "ok" \/ pc[q] \in Svc!SaveLabels \cup Svc!GetLabels
               \/ file[q] \in gone'
      BY <1>0, <1>6, ServiceMoves
    <2>2. pc[q] \in Svc!SaveLabels \cup Svc!GetLabels => op[q] # "delete"
      BY <1>3 DEF LabelsOf
    <2>3. QED
      BY <1>0, <2>1, <2>2 DEF TypeOK
  <1>7. CASE Serve(q) /\ ~ServiceStep(q)
    <2> USE <1>0 DEF TypeOK
    <2>1. CASE DeleteCheck(q) \/ ShareCheck(q) \/ RevokeCheck(q)
      <3>1. rows[file[q]] = user[q] => file[q] \in Svc!published
        BY <1>3, <2>1, StoreFacts, UseCaseAssumption
        DEF DeleteCheck, ShareCheck, RevokeCheck, LabelsOf
      <3>2. QED
        BY <2>1, <3>1 DEF DeleteCheck, ShareCheck, RevokeCheck, MetaCheck
    <2>2. CASE SharedMeta(q)
      <3>1. rows[file[q]] # NoUser => file[q] \in Svc!published
        BY <1>3, <2>2, StoreFacts DEF SharedMeta, LabelsOf
      <3>2. QED
        BY <2>2, <3>1 DEF SharedMeta, MetaCheck
    <2>3. CASE LookUp(q) \/ LookUpAt(q)
      BY <1>2, <1>3, <2>3 DEF LookUp, LookUpAt, Found, LabelsOf
    <2>4. CASE \/ ShareGrant(q) \/ ShareGrantOrphan(q) \/ RevokeDelete(q)
               \/ DeleteRevokeAll(q) \/ SharedAccess(q) \/ QueryFails(q)
               \/ UploadExists(q) \/ UploadOpenFails(q)
      BY <2>4
      DEF ShareGrant, ShareGrantOrphan, RevokeDelete, DeleteRevokeAll, Write,
          SharedAccess, QueryFails, UploadExists, UploadOpenFails
    <2>5. CASE \/ UploadNext(q) \/ Answer(q) \/ Respond(q)
               \/ \E f \in File : UploadOpen(q, f)
      BY <2>5 DEF UploadNext, Answer, Status, Respond, UploadOpen
    <2>6. QED
      BY <1>7, <2>1, <2>2, <2>3, <2>4, <2>5 DEF Serve
  <1>8. CASE Crash
    BY <1>8 DEF Crash, Svc!Crash
  <1>9. QED
    BY Next, <1>0, <1>4, <1>5, <1>6, <1>7, <1>8, Others
    DEF Next, Step, Register, Rename

(* The foreign key and its cascade leave no permission without a file. *)
LEMMA GrantsNext ==
  ASSUME Inv, Next PROVE GrantsNeedRows'
  <1> USE DEF GrantsNeedRows
  <1>0. TypeOK /\ GrantsNeedRows
    BY DEF Inv
  <1>1. SUFFICES ASSUME NEW f \in File, rows'[f] = NoUser
                 PROVE  perms'[f] = NoGrants
    OBVIOUS
  <1>2. CASE UNCHANGED <<rows, perms>>
    BY <1>0, <1>1, <1>2
  <1>3. ASSUME NEW p \in Proc, ServiceStep(p) PROVE perms'[f] = NoGrants
    BY <1>0, <1>1, <1>3 DEF ServiceStep, Cascade
  <1>4. ASSUME NEW p \in Proc, ShareGrant(p) PROVE perms'[f] = NoGrants
    BY <1>0, <1>1, <1>4 DEF ShareGrant, Write, TypeOK
  <1>5. ASSUME NEW p \in Proc, RevokeDelete(p) PROVE perms'[f] = NoGrants
    <2>1. perms[f] = NoGrants
      BY <1>0, <1>1, <1>5 DEF RevokeDelete, Write
    <2>2. perms'[f] \in {perms[f], [perms[f] EXCEPT ![target[p]] = 0]}
      BY <1>0, <1>5 DEF RevokeDelete, Write, TypeOK
    <2>3. QED
      BY <2>1, <2>2 DEF NoGrants
  <1>6. ASSUME NEW p \in Proc, DeleteRevokeAll(p) PROVE perms'[f] = NoGrants
    BY <1>0, <1>1, <1>6 DEF DeleteRevokeAll, Write, TypeOK
  <1>7. ASSUME NEW p \in Proc,
               Serve(p), ~ServiceStep(p), ~ShareGrant(p), ~RevokeDelete(p),
               ~DeleteRevokeAll(p)
        PROVE  UNCHANGED <<rows, perms>>
    BY <1>7
    DEF Serve, UploadExists, UploadOpen, UploadOpenFails, UploadNext,
        SharedMeta, SharedAccess, DeleteCheck, ShareCheck, LookUp, LookUpAt,
        Found, ShareGrantOrphan, RevokeCheck, QueryFails, Answer, Respond
  <1>8. ASSUME NEW p \in Proc, Request(p) PROVE UNCHANGED <<rows, perms>>
    BY <1>8
    DEF Request, Begin, BeginUpload, BeginDownload, BeginShared, BeginDelete,
        BeginShare, BeginRevoke, BeginRevokeUser
  <1>9. QED
    BY Next, <1>2, <1>3, <1>4, <1>5, <1>6, <1>7, <1>8
    DEF Next, Step, Register, Rename, Crash, Svc!Crash

(* Ids are drawn for the request alone whose upload they belong to. *)
LEMMA UsedNext ==
  ASSUME Inv, Next
  PROVE  \/ UNCHANGED used
         \/ \E p \in Proc, f \in File : UploadOpen(p, f)
  <1>1. ASSUME NEW p \in Proc, ServiceStep(p) PROVE UNCHANGED used
    BY <1>1, ServiceMoves DEF Inv
  <1>2. ASSUME NEW p \in Proc, Serve(p), ~ServiceStep(p),
               \A f \in File : ~UploadOpen(p, f)
        PROVE  UNCHANGED used
    BY <1>2
    DEF Serve, UploadExists, UploadOpenFails, UploadNext, SharedMeta,
        SharedAccess, DeleteCheck, DeleteRevokeAll, ShareCheck, LookUp,
        LookUpAt, Found, ShareGrant, ShareGrantOrphan, RevokeCheck,
        RevokeDelete, QueryFails, Answer, Respond, Write
  <1>3. ASSUME NEW p \in Proc, Request(p) PROVE UNCHANGED used
    BY <1>3
    DEF Request, Begin, BeginUpload, BeginDownload, BeginShared, BeginDelete,
        BeginShare, BeginRevoke, BeginRevokeUser
  <1>4. QED
    BY Next, <1>1, <1>2, <1>3
    DEF Next, Step, Register, Rename, Crash, Svc!Crash

(* The ids of an upload stay its own until it ends. *)
LEMMA BatchNext ==
  ASSUME Inv, Next
  PROVE  \/ \A q \in Proc : batch'[q] \in {batch[q], {}}
         \/ \E p \in Proc, u \in User, B \in SUBSET File : BeginUpload(p, u, B)
  <1>0. TypeOK /\ ServiceOf!Inv
    BY DEF Inv
  <1>1. ASSUME NEW p \in Proc, ServiceStep(p) PROVE UNCHANGED batch
    BY <1>0, <1>1, ServiceMoves
  <1>2. ASSUME NEW p \in Proc, Serve(p), ~ServiceStep(p), ~Respond(p)
        PROVE  UNCHANGED batch
    BY <1>2
    DEF Serve, UploadExists, UploadOpen, UploadOpenFails, UploadNext,
        SharedMeta, SharedAccess, DeleteCheck, DeleteRevokeAll, ShareCheck,
        LookUp, LookUpAt, Found, ShareGrant, ShareGrantOrphan, RevokeCheck,
        RevokeDelete, QueryFails, Answer, Write
  <1>3. ASSUME NEW p \in Proc, Respond(p)
        PROVE  \A q \in Proc : batch'[q] \in {batch[q], {}}
    BY <1>0, <1>3 DEF Respond, TypeOK
  <1>4. ASSUME NEW p \in Proc, Request(p),
               ~\E u \in User, B \in SUBSET File : BeginUpload(p, u, B)
        PROVE  UNCHANGED batch
    BY <1>4
    DEF Request, BeginDownload, BeginShared, BeginDelete, BeginShare,
        BeginRevoke, BeginRevokeUser
  <1>5. QED
    BY Next, <1>1, <1>2, <1>3, <1>4
    DEF Next, Step, Register, Rename, Crash

(* An upload accounts for the ids that it has drawn. *)
LEMMA UploadsNext ==
  ASSUME Inv, Next PROVE UploadsApart'
  <1> DEFINE Drawn(p) ==
        /\ batch[p] # {} => op[p] = "upload"
        /\ op[p] = "upload" =>
             batch[p] \cap used \subseteq
               acked \cup (IF pc[p] \in Svc!SaveLabels \cup {"err", "500"}
                           THEN {file[p]} ELSE {})
        /\ op[p] = "upload" /\ pc[p] = "2xx" => Left(p) = {}
  <1>0. TypeOK /\ ServiceOf!Inv
    BY DEF Inv
  <1>1. \A p, q \in Proc : p # q => batch[p] \cap batch[q] = {}
    BY DEF Inv, UploadsApart
  <1>2. \A p, q \in Proc : p # q => batch'[p] \cap batch'[q] = {}
    <2>1. CASE \A q \in Proc : batch'[q] \in {batch[q], {}}
      BY <1>1, <2>1
    <2>2. ASSUME NEW p \in Proc, NEW u \in User, NEW B \in SUBSET File,
                 BeginUpload(p, u, B)
          PROVE  <1>2!:
      <3>1. \A q \in Proc : B \cap batch[q] = {}
        BY <1>0, <2>2 DEF BeginUpload
      <3>2. QED
        BY <1>0, <1>1, <2>2, <3>1 DEF BeginUpload, TypeOK
    <2>3. QED
      BY <2>1, <2>2, BatchNext
  <1>3. ASSUME NEW q \in Proc PROVE Drawn(q)'
    <2>1. Drawn(q)
      BY DEF Inv, UploadsApart
    <2>2. pc[q] \in LabelsOf(op[q])
      BY DEF Inv, RequestsInOrder
    <2>3. ASSUME UNCHANGED <<pc[q], op[q], file[q], batch[q]>>,
                 \A f \in File : ~UploadOpen(q, f)
          PROVE  Drawn(q)'
      <3>1. batch[q] \cap used' = batch[q] \cap used
        <4>1. ASSUME NEW p \in Proc, NEW f \in File, UploadOpen(p, f)
              PROVE  f \notin batch[q] /\ used' = used \cup {f}
          BY <1>1, <2>3, <4>1 DEF UploadOpen, Left
        <4>2. QED
          BY <4>1, UsedNext
      <3>2. QED
        BY <2>1, <2>3, <3>1, RowsNext DEF Left
    <2>4. ASSUME NEW f \in File, UploadOpen(q, f) PROVE Drawn(q)'
      BY <1>0, <2>1, <2>2, <2>4 DEF UploadOpen, LabelsOf, TypeOK
    <2>5. CASE ServiceStep(q)
      <3>1. PICK label \in Svc!SvcLabels :
              /\ Svc!Goto(q, label) /\ UNCHANGED <<op, file, used, batch>>
              /\ op[q] = "upload" =>
                   /\ pc[q] \in Svc!SaveLabels
                   /\ label \in Svc!SaveLabels \cup {"ok", "err"}
                   /\ label = "ok" => file[q] \in acked'
        BY <1>0, <2>2, <2>5, ServiceMoves DEF LabelsOf
      <3>2. QED
        BY <1>0, <2>1, <3>1, RowsNext DEF TypeOK
    <2>6. CASE Request(q)
      <3>1. op[q] = "none" /\ batch[q] = {}
        BY <1>0, <2>1, <2>2, <2>6
        DEF Request, Begin, BeginUpload, BeginDownload, BeginShared,
            BeginDelete, BeginShare, BeginRevoke, BeginRevokeUser, LabelsOf,
            TypeOK
      <3>2. ASSUME NEW u \in User, NEW B \in SUBSET File, BeginUpload(q, u, B)
            PROVE  Drawn(q)'
        BY <1>0, <3>2 DEF BeginUpload, Begin, TypeOK
      <3>3. ASSUME ~\E u \in User, B \in SUBSET File : BeginUpload(q, u, B)
            PROVE  Drawn(q)'
        BY <1>0, <2>6, <3>1, <3>3
        DEF Request, Begin, BeginDownload, BeginShared, BeginDelete,
            BeginShare, BeginRevoke, BeginRevokeUser, TypeOK
      <3>4. QED
        BY <3>2, <3>3
    <2>7. CASE \/ UploadExists(q) \/ UploadOpenFails(q) \/ UploadNext(q)
               \/ Answer(q)
      BY <1>0, <2>1, <2>2, <2>7
      DEF UploadExists, UploadOpenFails, UploadNext, Answer, Status, Left,
          LabelsOf, TypeOK
    <2>8. CASE Respond(q)
      BY <1>0, <2>8 DEF Respond, TypeOK
    <2>9. CASE Crash
      BY <2>9 DEF Crash
    <2>10. CASE Serve(q) /\ pc[q] \in (Queries \cup Writes) \ {"up_exists"}
      <3>1. op[q] # "upload" /\ UNCHANGED <<op, batch>>
        BY <1>0, <2>2, <2>10, ServiceMoves
        DEF Serve, UploadExists, UploadOpen, UploadOpenFails, UploadNext,
            SharedMeta, SharedAccess, DeleteCheck, DeleteRevokeAll, ShareCheck,
            LookUp, LookUpAt, Found, ShareGrant, ShareGrantOrphan, RevokeCheck,
            RevokeDelete, QueryFails, Answer, Respond, Write, LabelsOf
      <3>2. QED
        BY <2>1, <3>1
    <2>11. CASE QueryFails(q)
      BY <1>0, <2>1, <2>11 DEF QueryFails, TypeOK
    <2>12. CASE \E u \in User, n \in Name : Register(u, n) \/ Rename(u, n)
      BY <2>1, <2>12 DEF Register, Rename, Left
    <2>13. QED
      <3>1. ASSUME NEW p \in Proc, p # q, Request(p) \/ Serve(p)
            PROVE  Drawn(q)'
        BY <1>0, <2>3, <2>4, <3>1, Others
      <3>2. CASE Serve(q)
        BY <2>4, <2>5, <2>7, <2>8, <2>10, <2>11, <3>2
        DEF Serve, SharedMeta, SharedAccess, DeleteCheck, DeleteRevokeAll,
            ShareCheck, LookUp, LookUpAt, ShareGrant, ShareGrantOrphan,
            RevokeCheck, RevokeDelete
      <3>3. QED
        BY Next, <2>6, <2>9, <2>12, <3>1, <3>2 DEF Next, Step
  <1>4. QED
    BY <1>2, <1>3 DEF UploadsApart

(* What a read has noted it keeps, and it notes what holds after a step. *)
LEMMA Noted ==
  ASSUME Watch, NEW q \in Proc, Reading(q)'
  PROVE  /\ held[q] \/ Entitled(q)' => held'[q]
         /\ lost[q] \/ ~Entitled(q)' => lost'[q]
         /\ lost'[q] \/ Entitled(q)'
  BY DEF Watch

(* A read knows what its last check has shown. *)
LEMMA ReadsNext ==
  ASSUME Inv, Next PROVE ReadsWatched'
  <1> DEFINE Noting(p) ==
        /\ pc[p] \in {"get_blob", "ok", "2xx"} => held[p]
        /\ pc[p] \in {"forbidden", "403"} => lost[p]
        /\ pc[p] \in {"not_found", "404"} => lost[p] \/ file[p] \in torn
  <1>0. TypeOK /\ ServiceOf!Inv /\ Watch
    BY Next DEF Inv, Next
  <1>1. SUFFICES ASSUME NEW q \in Proc, Reading(q)' PROVE Noting(q)'
    BY <1>0, Noted DEF ReadsWatched
  <1>2. Reading(q) => Noting(q)
    BY DEF Inv, ReadsWatched
  <1>3. /\ pc[q] \in LabelsOf(op[q])
        /\ op[q] # "none" => user[q] \in User
        /\ op[q] \notin {"none", "upload"} \/ InService(q) => file[q] \in File
    BY DEF Inv, RequestsInOrder
  <1>4. ASSUME UNCHANGED <<pc[q], op[q], file[q]>> PROVE Noting(q)'
    <2>1. Reading(q)
      BY <1>1, <1>4 DEF Reading
    <2>2. QED
      BY <1>0, <1>1, <1>2, <1>4, <2>1, Noted, RowsNext
  <1>5. CASE Request(q)
    BY <1>0, <1>5
    DEF Request, Begin, BeginUpload, BeginDownload, BeginShared, BeginDelete,
        BeginShare, BeginRevoke, BeginRevokeUser, TypeOK
  <1>6. ASSUME Serve(q), UNCHANGED <<op, user, file>>, Reading(q)
        PROVE  Noting(q)'
    <2>1. op[q] \in Reads /\ user[q] \in User /\ file[q] \in File
      BY <1>3, <1>6 DEF Reading
    <2>2. Noting(q)
      BY <1>2, <1>6
    <2>3. rows[file[q]] = NoUser => perms[file[q]][user[q]] = 0
      BY <2>1 DEF Inv, GrantsNeedRows, NoGrants
    <2>4. ASSUME UNCHANGED <<rows, perms>> PROVE Entitled(q)' <=> Entitled(q)
      BY <1>6, <2>4 DEF Entitled
    <2>5. rows[file[q]] = user[q] => Entitled(q)
      BY DEF Entitled
    <2>6. rows[file[q]] = NoUser => ~Entitled(q)
      BY <2>1, <2>3, UseCaseAssumption DEF Entitled
    <2>7. rows[file[q]] # user[q] /\ op[q] = "download" => ~Entitled(q)
      BY DEF Entitled
    <2>8. /\ held[q] \/ Entitled(q)' => held'[q]
          /\ lost[q] \/ ~Entitled(q)' => lost'[q]
          /\ torn \subseteq torn'
      BY <1>0, <1>1, Noted, RowsNext
    <2>9. CASE ServiceStep(q)
      <3>1. PICK label \in Svc!SvcLabels :
              /\ Svc!Goto(q, label) /\ UNCHANGED rows
              /\ \/ /\ op[q] = "download"
                    /\ \/ label = "get_blob"  /\ rows[file[q]] = user[q]
                       \/ label = "forbidden" /\ rows[file[q]] # user[q]
                       \/ label = "not_found" /\ rows[file[q]] = NoUser
                       \/ label = "err"
                 \/ /\ pc[q] = "get_blob"
                    /\ \/ label \in {"ok", "err"}
                       \/ label = "not_found" /\ blobs[file[q]] = "absent"
        BY <1>0, <1>3, <2>1, <2>9, ServiceMoves DEF LabelsOf
      <3>2. UNCHANGED perms
        BY <1>0, <2>9, <3>1 DEF ServiceStep, Cascade, TypeOK
      <3>3. pc'[q] = label
        BY <1>0, <3>1 DEF TypeOK
      <3>4. label = "not_found" /\ pc[q] = "get_blob" =>
              ~Entitled(q) \/ file[q] \in torn
        BY <1>0, <2>1, <2>6, <3>1, StoreFacts
      <3>5. CASE op[q] = "download" /\ label \in {"get_blob", "forbidden"}
        BY <1>6, <2>2, <2>4, <2>5, <2>7, <2>8, <3>1, <3>2, <3>3, <3>5
      <3>6. CASE label \in {"ok", "err"} \/ label = "not_found"
        BY <1>6, <2>2, <2>4, <2>6, <2>8, <3>1, <3>2, <3>3, <3>4, <3>6
      <3>7. QED
        BY <3>1, <3>5, <3>6
    <2>10. CASE SharedMeta(q)
      <3>1. UNCHANGED <<rows, perms>>
        BY <2>10 DEF SharedMeta
      <3>2. \/ pc'[q] = "404" /\ rows[file[q]] = NoUser
            \/ pc'[q] = "get_blob" /\ rows[file[q]] = user[q]
            \/ pc'[q] = "gs_access"
        BY <1>0, <2>10 DEF SharedMeta, MetaCheck, TypeOK
      <3>3. QED
        BY <2>4, <2>5, <2>6, <2>8, <3>1, <3>2
    <2>11. CASE SharedAccess(q)
      <3>1. UNCHANGED <<rows, perms>>
        BY <2>11 DEF SharedAccess
      <3>2. op[q] = "shared" /\ rows[file[q]] # user[q]
        BY <1>3, <2>1, <2>11
        DEF SharedAccess, LabelsOf, Inv, PastTheCheck
      <3>3. \/ pc'[q] = "get_blob" /\ Entitled(q)
            \/ pc'[q] = "403" /\ ~Entitled(q)
        BY <1>0, <2>11, <3>2 DEF SharedAccess, Entitled, TypeOK
      <3>4. QED
        BY <2>4, <2>8, <3>1, <3>3
    <2>12. CASE QueryFails(q)
      BY <1>0, <2>12 DEF QueryFails, TypeOK
    <2>13. CASE Answer(q)
      <3>1. pc[q] \in Svc!Outcomes /\ pc'[q] = Status(pc[q])
        BY <1>0, <2>13 DEF Answer, TypeOK
      <3>2. QED
        BY <1>6, <2>2, <2>8, <3>1 DEF Status
    <2>14. ~Respond(q)
      BY <1>0, <1>6, <2>1 DEF Respond, TypeOK
    <2>15. QED
      BY <1>3, <1>6, <2>1, <2>9, <2>10, <2>11, <2>12, <2>13, <2>14
      DEF Serve, LabelsOf, UploadExists, UploadOpen, UploadOpenFails,
          UploadNext, DeleteCheck, DeleteRevokeAll, ShareCheck, LookUp,
          LookUpAt, ShareGrant, ShareGrantOrphan, RevokeCheck, RevokeDelete
  <1>7. ASSUME Serve(q), op[q] \in Reads PROVE Noting(q)'
    <2>1. CASE ServiceStep(q)
      BY <1>0, <1>6, <1>7, <2>1, ServiceMoves DEF Reading
    <2>2. CASE SharedMeta(q) \/ SharedAccess(q) \/ QueryFails(q) \/ Answer(q)
      BY <1>6, <1>7, <2>2
      DEF SharedMeta, SharedAccess, QueryFails, Answer, Reading
    <2>3. CASE Respond(q)
      BY <1>0, <1>1, <2>3 DEF Respond, Reading, TypeOK
    <2>4. QED
      BY <1>3, <1>7, <2>1, <2>2, <2>3
      DEF Serve, LabelsOf, UploadExists, UploadOpen, UploadOpenFails,
          UploadNext, DeleteCheck, DeleteRevokeAll, ShareCheck, LookUp,
          LookUpAt, ShareGrant, ShareGrantOrphan, RevokeCheck, RevokeDelete
  <1>8. ASSUME Serve(q), op[q] \notin Reads PROVE FALSE
    <2>1. UNCHANGED op \/ Respond(q)
      BY <1>0, <1>8, ServiceMoves
      DEF Serve, UploadExists, UploadOpen, UploadOpenFails, UploadNext,
          SharedMeta, SharedAccess, DeleteCheck, DeleteRevokeAll, ShareCheck,
          LookUp, LookUpAt, Found, ShareGrant, ShareGrantOrphan, RevokeCheck,
          RevokeDelete, QueryFails, Answer, Write
    <2>2. QED
      BY <1>0, <1>1, <1>8, <2>1 DEF Respond, Reading, TypeOK
  <1>9. CASE Crash
    BY <1>1, <1>9 DEF Crash, Reading
  <1>10. QED
    BY Next, <1>0, <1>4, <1>5, <1>7, <1>8, <1>9, Others
    DEF Next, Step, Register, Rename

-------------------------------------------------------------------------------
(* The invariant, and what follows from it.                                 *)

LEMMA ServiceStart == Init => ServiceOf!Init
  BY DEF Init, Svc!Init, ServiceOf!Init, InService

LEMMA InitInv == Init => Inv
  <1> SUFFICES ASSUME Init PROVE Inv
    OBVIOUS
  <1>1. TypeOK
    BY UseCaseAssumption DEF Init, Svc!Init, TypeOK, NoGrants
  <1>2. ServiceOf!Inv
    <2>1. Below!Init
      BY ServiceStart DEF ServiceOf!Init, Below!Init
    <2>2. QED
      BY <2>1, SameInv, BelowAssumption, Below!InitInv
  <1>3. RequestsInOrder /\ PastTheCheck /\ ReadsWatched
    BY DEF Init, Svc!Init, RequestsInOrder, PastTheCheck, ReadsWatched,
           Reading, LabelsOf, InService
  <1>4. GrantsNeedRows /\ UploadsApart
    BY DEF Init, Svc!Init, GrantsNeedRows, UploadsApart
  <1>5. QED
    BY <1>1, <1>2, <1>3, <1>4 DEF Inv

LEMMA NextInv == Inv /\ [Next]_vars => Inv'
  <1> SUFFICES ASSUME Inv, [Next]_vars PROVE Inv'
    OBVIOUS
  <1>1. CASE Next
    <2>1. ServiceOf!Inv'
      BY <1>1, StoresNext DEF Inv, Next
    <2>2. QED
      BY <1>1, <2>1, TypeNext, OrderNext, CheckNext, GrantsNext, UploadsNext,
         ReadsNext DEF Inv
  <1>2. CASE UNCHANGED vars
    <2>1. ServiceOf!Inv'
      <3>1. UNCHANGED Below!svcVars
        BY <1>2 DEF Below!svcVars, InService
      <3>2. QED
        BY <3>1, SameInv, BelowAssumption, Below!NextInv, PTL DEF Inv
    <2>2. QED
      BY <1>2, <2>1
      DEF Inv, TypeOK, RequestsInOrder, InService, PastTheCheck,
          GrantsNeedRows, UploadsApart, Left, ReadsWatched, Reading, Entitled
  <1>3. QED
    BY <1>1, <1>2

(* Inv holds in every reachable state. *)
THEOREM Invariance == Spec => []Inv
  BY InitInv, NextInv, PTL DEF Spec

(* Every variable keeps to its type: a permission has a file and an account, *)
(* and the count of equal rows stays in its bounds.                          *)
THEOREM TypeCorrect == Spec => []TypeOK
  <1>1. Inv => TypeOK  BY DEF Inv
  <1>2. QED  BY <1>1, Invariance, PTL

(* Nobody is served the contents of a file without having been entitled to *)
(* it at some moment while the request ran, whatever else runs and fails.  *)
THEOREM ServedAreEntitled == Spec => []ServedOnlyEntitled
  <1>1. Inv => ServedOnlyEntitled
    BY DEF Inv, ReadsWatched, ServedOnlyEntitled
  <1>2. QED  BY <1>1, Invariance, PTL

(* Nobody is refused who was entitled all the time, unless the INSERT of   *)
(* the file's row was committed and reported as failed.                    *)
THEOREM RefusedAreLapsed == Spec => []RefusedOnlyLapsed
  <1>1. Inv => RefusedOnlyLapsed
    BY DEF Inv, ReadsWatched, RefusedOnlyLapsed
  <1>2. QED  BY <1>1, Invariance, PTL

(* An upload that is answered with 2xx has published all of its files, one *)
(* that is answered with 500 those before the part that failed.            *)
THEOREM UploadsAreReported == Spec => []UploadReported
  <1>1. Inv => UploadReported
    BY DEF Inv, UploadsApart, UploadReported, Left, TypeOK
  <1>2. QED  BY <1>1, Invariance, PTL

(* The requests use the service only as FileService allows. *)
THEOREM FileServiceImplemented == Spec => ImplementsFileService
  <1>1. Inv /\ [Next]_vars => [ServiceOf!Next]_(ServiceOf!svcVars)
    <2> SUFFICES ASSUME Inv, [Next]_vars
                 PROVE  [ServiceOf!Next]_(ServiceOf!svcVars)
      OBVIOUS
    <2>1. CASE Next
      BY <2>1, StepRefines DEF Inv, Next
    <2>2. CASE UNCHANGED vars
      BY <2>2 DEF ServiceOf!svcVars, InService
    <2>3. QED
      BY <2>1, <2>2
  <1>2. QED
    BY <1>1, ServiceStart, Invariance, PTL
    DEF Spec, ImplementsFileService, ServiceOf!Spec

(* So what FileService promises by itself is kept under every request.     *)
LEMMA ServiceBelow == Spec => Below!Spec
  <1>1. ServiceOf!Init => Below!Init
    BY DEF ServiceOf!Init, Below!Init
  <1>2. [ServiceOf!Next]_(ServiceOf!svcVars) => [Below!Next]_(Below!svcVars)
    BY SameNext DEF ServiceOf!svcVars, Below!svcVars
  <1>3. QED
    BY <1>1, <1>2, FileServiceImplemented, PTL
    DEF ImplementsFileService, ServiceOf!Spec, Below!Spec

(* Through any mix of requests the bytes of acknowledged rows stay, removed *)
(* files stay away, and bytes without a row come from failures only.        *)
THEOREM StoresKept ==
  Spec => []( /\ ServiceOf!AckedRowHasBytes /\ ServiceOf!RemovalIsFinal
              /\ ServiceOf!DanglingOnlyIfTorn /\ ServiceOf!NoSilentLeak )
  <1>1. Below!AckedRowHasBytes => ServiceOf!AckedRowHasBytes
    BY DEF Below!AckedRowHasBytes, ServiceOf!AckedRowHasBytes
  <1>2. Below!RemovalIsFinal => ServiceOf!RemovalIsFinal
    BY DEF Below!RemovalIsFinal, ServiceOf!RemovalIsFinal
  <1>3. Below!DanglingOnlyIfTorn => ServiceOf!DanglingOnlyIfTorn
    BY DEF Below!DanglingOnlyIfTorn, ServiceOf!DanglingOnlyIfTorn
  <1>4. Below!NoSilentLeak => ServiceOf!NoSilentLeak
    BY DEF Below!NoSilentLeak, ServiceOf!NoSilentLeak, Below!Holding,
           ServiceOf!Holding
  <1>5. /\ Below!Spec => []Below!AckedRowHasBytes
        /\ Below!Spec => []Below!RemovalIsFinal
        /\ Below!Spec => []Below!DanglingOnlyIfTorn
        /\ Below!Spec => []Below!NoSilentLeak
    BY BelowAssumption, Below!AckedRowsKeepTheirBytes, Below!RemovalsAreFinal,
       Below!DanglingRowsAreTorn, Below!NoLeakWithoutFailure
  <1>6. QED
    BY <1>1, <1>2, <1>3, <1>4, <1>5, ServiceBelow, PTL

(* A download delivers all of a file, and of overlapping removals of it one *)
(* is confirmed, whatever the other requests are.                           *)
THEOREM CallsKept ==
  Spec => ServiceOf!NoTornRead /\ ServiceOf!OneRemovalConfirmed
  <1>1. Below!NoTornRead => ServiceOf!NoTornRead
    BY DEF Below!NoTornRead, ServiceOf!NoTornRead, Below!svcVars, ServiceOf!svcVars
  <1>2. Below!OneRemovalConfirmed => ServiceOf!OneRemovalConfirmed
    BY DEF Below!OneRemovalConfirmed, ServiceOf!OneRemovalConfirmed,
           Below!svcVars, ServiceOf!svcVars
  <1>3. /\ Below!Spec => Below!NoTornRead
        /\ Below!Spec => Below!OneRemovalConfirmed
    BY BelowAssumption, Below!ReadsAreWhole, Below!RemovalsConfirmedOnce
  <1>4. QED
    BY <1>1, <1>2, <1>3, ServiceBelow, PTL

(* A file enters the registry once and leaves it for its owner, also when   *)
(* its calls are parts of requests.                                         *)
THEOREM RegistryKept == Spec => ServiceOf!ImplementsRegistry
  <1>1. Below!RegistryOf!Init => ServiceOf!RegistryOf!Init
    BY DEF Below!RegistryOf!Init, ServiceOf!RegistryOf!Init, Below!RequestOf,
           ServiceOf!RequestOf, Below!DeleteLabels, ServiceOf!DeleteLabels,
           Below!published, ServiceOf!published
  <1>2. [Below!RegistryOf!Next]_(Below!RegistryOf!vars)
          => [ServiceOf!RegistryOf!Next]_(ServiceOf!RegistryOf!vars)
    BY DEF Below!RegistryOf!vars, ServiceOf!RegistryOf!vars,
           Below!RegistryOf!Next, ServiceOf!RegistryOf!Next,
           Below!RegistryOf!Publish, ServiceOf!RegistryOf!Publish,
           Below!RegistryOf!AskRemoval, ServiceOf!RegistryOf!AskRemoval,
           Below!RegistryOf!Retire, ServiceOf!RegistryOf!Retire,
           Below!RegistryOf!ConfirmRemoval, ServiceOf!RegistryOf!ConfirmRemoval,
           Below!RegistryOf!GiveUp, ServiceOf!RegistryOf!GiveUp,
           Below!RequestOf, ServiceOf!RequestOf, Below!DeleteLabels,
           ServiceOf!DeleteLabels, Below!published, ServiceOf!published
  <1>3. Below!ImplementsRegistry => ServiceOf!ImplementsRegistry
    BY <1>1, <1>2, PTL
    DEF Below!ImplementsRegistry, ServiceOf!ImplementsRegistry,
        Below!RegistryOf!Spec, ServiceOf!RegistryOf!Spec
  <1>4. Below!Spec => Below!ImplementsRegistry
    BY BelowAssumption, Below!RegistryImplemented
  <1>5. QED
    BY <1>3, <1>4, ServiceBelow, PTL

-------------------------------------------------------------------------------
(* FilesUseCase implements AccessPolicy.                                    *)

(* The variables of AccessPolicy under PolicyOf. *)
Readers == [f \in File |-> {u \in User : perms[f][u] > 0}]
Pending == [p \in Proc |-> CommandOf(p)]
ToldOf(p) == op[p] \in Commands /\ pc[p] = "2xx"
Told == {p \in Proc : ToldOf(p)}

(* A goroutine moves on no command but its own. *)
LEMMA PendingOthers ==
  ASSUME TypeOK, ServiceOf!Inv, NEW p \in Proc, Request(p) \/ Serve(p)
  PROVE  /\ Pending' = [Pending EXCEPT ![p] = CommandOf(p)']
         /\ Told' = (Told \ {p}) \cup (IF ToldOf(p)' THEN {p} ELSE {})
  <1>1. ASSUME NEW q \in Proc, q # p
        PROVE  CommandOf(q)' = CommandOf(q) /\ (ToldOf(q)' <=> ToldOf(q))
    BY <1>1, Others DEF CommandOf, ToldOf
  <1>2. QED
    BY <1>1 DEF Pending, Told

(* A request that is over, or that is no command. *)
LEMMA Finishes ==
  ASSUME TypeOK, ServiceOf!Inv, NEW p \in Proc, Request(p) \/ Serve(p),
         UNCHANGED <<rows, perms>>, CommandOf(p)' = {}, ~ToldOf(p)'
  PROVE  PolicyOf!Next
  <1>1. Pending' = [q \in Proc |-> IF q \in {p} THEN {} ELSE Pending[q]]
    BY PendingOthers DEF Pending
  <1>2. Told' = Told \ {p}
    BY PendingOthers
  <1>3. PolicyOf!Finish({p})
    BY <1>1, <1>2 DEF PolicyOf!Finish, Pending, Told, ToldOf, Readers
  <1>4. QED
    BY <1>3 DEF PolicyOf!Next

(* A step of a request between two changes. *)
LEMMA Unseen ==
  ASSUME TypeOK, ServiceOf!Inv, NEW p \in Proc, Request(p) \/ Serve(p),
         UNCHANGED <<rows, Readers>>, CommandOf(p)' = CommandOf(p),
         ToldOf(p)' <=> ToldOf(p)
  PROVE  UNCHANGED PolicyOf!vars
  BY PendingOthers DEF PolicyOf!vars, Pending, Told, ToldOf, Readers

(* A new command is issued, a new read or upload is not seen. *)
LEMMA PolicyRequest ==
  ASSUME Inv, NEW p \in Proc, Request(p)
  PROVE  [PolicyOf!Next]_(PolicyOf!vars)
  <1>0. TypeOK /\ ServiceOf!Inv
    BY DEF Inv
  <1>1. pc[p] = "idle" /\ op[p] = "none" /\ target[p] = NoUser
        /\ UNCHANGED <<rows, perms>>
    BY <1>0, Request(p)
    DEF Inv, RequestsInOrder, LabelsOf, TypeOK, Request, Begin, BeginUpload,
        BeginDownload, BeginShared, BeginDelete, BeginShare, BeginRevoke,
        BeginRevokeUser
  <1>2. CommandOf(p) = {} /\ ~ToldOf(p)
    BY <1>1 DEF CommandOf, ToldOf
  <1>3. CASE op'[p] \in Commands
    <2>1. /\ pc'[p] \notin Statuses /\ user'[p] \in User /\ file'[p] \in File
          /\ target'[p] \in User \cup {NoUser}
      <3>1. ASSUME NEW u \in User, NEW f \in File,
                   \/ BeginDelete(p, u, f)
                   \/ \E n \in Name : BeginShare(p, u, f, n)
                   \/ \E n \in Name : BeginRevoke(p, u, f, n)
                   \/ \E t \in User : BeginRevokeUser(p, u, f, t)
            PROVE  <2>1!:
        BY <1>0, <1>1, <3>1
        DEF Begin, BeginDelete, BeginShare, BeginRevoke, BeginRevokeUser,
            TypeOK
      <3>2. QED
        BY <1>0, <1>3, <3>1, Request(p)
        DEF Request, Begin, BeginUpload, BeginDownload, BeginShared, TypeOK
    <2>2. PICK c \in PolicyOf!Command : CommandOf(p)' = {c}
      <3>1. PICK c : c = [kind |-> op[p], giver |-> user[p],
                          file |-> file[p], target |-> target[p]]'
        OBVIOUS
      <3>2. c \in PolicyOf!Command
        BY <1>3, <2>1, <3>1 DEF PolicyOf!Command, PolicyOf!Kinds
      <3>3. CommandOf(p)' = {c}
        BY <1>3, <2>1, <3>1 DEF CommandOf
      <3>4. QED
        BY <3>2, <3>3
    <2>3. Pending' = [Pending EXCEPT ![p] = {c}] /\ Told' = Told
      BY <1>0, <1>2, <2>1, <2>2, PendingOthers DEF Told, ToldOf
    <2>4. PolicyOf!Issue(p)
      BY <1>1, <1>2, <2>2, <2>3
      DEF PolicyOf!Issue, Pending, Told, ToldOf
    <2>5. QED
      BY <2>4 DEF PolicyOf!Next
  <1>4. CASE op'[p] \notin Commands
    <2>1. CommandOf(p)' = {} /\ ~ToldOf(p)'
      BY <1>4 DEF CommandOf, ToldOf
    <2>2. QED
      BY <1>0, <1>1, <2>1, Finishes
  <1>5. QED
    BY <1>3, <1>4

(* The command that a request has pending. *)
LEMMA Ordered ==
  ASSUME NEW p \in Proc, op[p] \in Commands, pc[p] \notin Statuses
  PROVE  \E c : /\ CommandOf(p) = {c} /\ Pending[p] = {c}
                /\ c = [kind |-> op[p], giver |-> user[p],
                        file |-> file[p], target |-> target[p]]
  BY DEF CommandOf, Pending

(* The service publishes what it saves and retires what it removes. *)
LEMMA PolicyService ==
  ASSUME Inv, NEW p \in Proc, Serve(p), ServiceStep(p)
  PROVE  [PolicyOf!Next]_(PolicyOf!vars)
  <1>0. TypeOK /\ ServiceOf!Inv
    BY DEF Inv
  <1>1. /\ UNCHANGED <<user, file, op, target>>
        /\ pc[p] \in Svc!SvcLabels /\ pc'[p] \in Svc!SvcLabels
    BY <1>0, ServiceStep(p), ServiceMoves DEF TypeOK
  <1>2. /\ user[p] \in User /\ file[p] \in File
        /\ pc[p] \in LabelsOf(op[p])
    BY <1>0, <1>1, StoreFacts DEF Inv, RequestsInOrder, InService
  <1>3. CommandOf(p)' = CommandOf(p) /\ ~ToldOf(p) /\ ~ToldOf(p)'
    BY <1>1 DEF CommandOf, ToldOf
  <1>4. /\ UNCHANGED Told
        /\ Pending' = [Pending EXCEPT ![p] = CommandOf(p)]
    BY <1>0, <1>3, PendingOthers DEF Told
  <1>5. UNCHANGED Pending
    BY <1>4 DEF Pending
  <1>6. CASE UNCHANGED rows
    <2>1. UNCHANGED perms
      BY <1>0, <1>6, ServiceStep(p) DEF ServiceStep, Cascade, TypeOK
    <2>2. QED
      BY <1>0, <1>3, <1>6, <2>1, Unseen DEF Readers
  <1>7. CASE pc[p] = "save_insert" /\ rows' = [rows EXCEPT ![file[p]] = user[p]]
    <2>1. rows[file[p]] = NoUser
      BY <1>0, <1>2, <1>7, StoreFacts
    <2>2. perms[file[p]] = NoGrants
      BY <1>2, <2>1 DEF Inv, GrantsNeedRows
    <2>3. UNCHANGED perms
      BY <1>0, <1>2, <1>7, ServiceStep(p), UseCaseAssumption
      DEF ServiceStep, Cascade, TypeOK
    <2>4. PICK u \in User, f \in File : u = user[p] /\ f = file[p]
      BY <1>2
    <2>5. Readers[f] = {} /\ UNCHANGED Readers
      BY <2>2, <2>3, <2>4 DEF Readers, NoGrants
    <2>6. PolicyOf!Publish(f, u)
      BY <1>4, <1>5, <1>7, <2>1, <2>4, <2>5
      DEF PolicyOf!Publish, Pending, Told, ToldOf, Readers
    <2>7. QED
      BY <2>6 DEF PolicyOf!Next
  <1>8. CASE /\ pc[p] = "del_row" /\ rows[file[p]] # NoUser
             /\ rows' = [rows EXCEPT ![file[p]] = NoUser]
    <2>1. op[p] = "delete" /\ rows[file[p]] = user[p]
      BY <1>0, <1>2, <1>8, StoreFacts DEF LabelsOf, TypeOK
    <2>2. PICK c : /\ Pending[p] = {c}
                   /\ c.kind = "delete" /\ c.giver = user[p]
                   /\ c.file = file[p]
      BY <1>1, <2>1, Ordered
    <2>3. perms' = [perms EXCEPT ![file[p]] = NoGrants]
      BY <1>0, <1>2, <1>8, ServiceStep(p)
      DEF ServiceStep, Cascade, TypeOK
    <2>4. Readers' = [Readers EXCEPT ![file[p]] = {}]
      <3>1. {u \in User : NoGrants[u] > 0} = {}
        BY DEF NoGrants
      <3>2. QED
        BY <1>0, <1>2, <2>3, <3>1 DEF Readers, TypeOK
    <2>5. PolicyOf!Retire(p, c)
      BY <1>4, <1>5, <1>8, <2>1, <2>2, <2>4
      DEF PolicyOf!Retire, PolicyOf!ByOwner, PolicyOf!Proceed, Pending, Told,
          ToldOf, Readers
    <2>6. QED
      BY <2>2, <2>5 DEF PolicyOf!Next, Pending
  <1>9. QED
    BY <1>0, <1>6, <1>7, <1>8, ServiceStep(p), ServiceMoves DEF TypeOK

(* A command whose write was made is over, and may have been answered. *)
LEMMA CarriedOut ==
  ASSUME TypeOK, ServiceOf!Inv, NEW p \in Proc, Serve(p),
         pc[p] \notin Statuses, pc'[p] \in Statuses
  PROVE  PolicyOf!Carried(p)
  <1>1. CommandOf(p)' = {} /\ ~ToldOf(p)
    BY DEF CommandOf, ToldOf
  <1>2. Pending' = [Pending EXCEPT ![p] = {}] /\ Told' \in {Told, Told \cup {p}}
    BY <1>1, PendingOthers DEF Told
  <1>3. QED
    BY <1>2 DEF PolicyOf!Carried, PolicyOf!Withdrawn, Pending, Told, ToldOf

(* A write on the rows of f and t. *)
LEMMA ReadersNext ==
  ASSUME TypeOK, NEW f \in File, NEW t \in User, NEW n \in Nat,
         perms' = [perms EXCEPT ![f][t] = n]
  PROVE  /\ n > 0 => Readers' = [Readers EXCEPT ![f] = @ \cup {t}]
         /\ n = 0 => Readers' = [Readers EXCEPT ![f] = @ \ {t}]
  <1>1. perms'[f] = [perms[f] EXCEPT ![t] = n]
        /\ \A g \in File : g # f => perms'[g] = perms[g]
    BY DEF TypeOK
  <1>2. perms[f] \in [User -> Nat]
    BY UseCaseAssumption DEF TypeOK
  <1>3. /\ n > 0 => {u \in User : perms'[f][u] > 0} =
                      {u \in User : perms[f][u] > 0} \cup {t}
        /\ n = 0 => {u \in User : perms'[f][u] > 0} =
                      {u \in User : perms[f][u] > 0} \ {t}
    BY <1>1, <1>2
  <1>4. QED
    BY <1>1, <1>3 DEF Readers

(* The grant is the owner's: the foreign key fails when the row has gone. *)
LEMMA PolicyGrant ==
  ASSUME Inv, NEW p \in Proc, Serve(p), ShareGrant(p)
  PROVE  PolicyOf!Next
  <1>0. TypeOK /\ ServiceOf!Inv
    BY DEF Inv
  <1>1. op[p] = "share" /\ target[p] \in User /\ file[p] \in File
    BY ShareGrant(p) DEF ShareGrant, Inv, RequestsInOrder, LabelsOf
  <1>2. rows[file[p]] = user[p]
    BY ShareGrant(p) DEF ShareGrant, Inv, PastTheCheck
  <1>3. PICK n \in Nat \ {0} :
          perms' = [perms EXCEPT ![file[p]][target[p]] = n]
    <2>1. perms[file[p]][target[p]] \in Nat
      BY <1>0, <1>1 DEF TypeOK
    <2>2. OneMore(perms[file[p]][target[p]]) \in Nat \ {0}
      BY <2>1, UseCaseAssumption DEF OneMore
    <2>3. QED
      BY <1>0, <1>1, <2>2, ShareGrant(p) DEF ShareGrant, Write, TypeOK
  <1>4. Readers' = [Readers EXCEPT ![file[p]] = @ \cup {target[p]}]
    <2>1. PICK f \in File, t \in User : f = file[p] /\ t = target[p]
      BY <1>1
    <2>2. perms' = [perms EXCEPT ![f][t] = n]
      BY <1>3, <2>1
    <2>3. n \in Nat /\ n > 0
      BY <1>3
    <2>4. Readers' = [Readers EXCEPT ![f] = @ \cup {t}]
      BY <1>0, <2>2, <2>3, ReadersNext
    <2>5. QED
      BY <2>1, <2>4
  <1>5. PolicyOf!Carried(p) /\ UNCHANGED rows
    BY <1>0, ShareGrant(p), CarriedOut DEF ShareGrant, Write, TypeOK
  <1>6. PICK c : Pending[p] = {c} /\ c.kind = "share" /\ c.giver = user[p]
                 /\ c.file = file[p] /\ c.target = target[p]
    BY <1>1, ShareGrant(p), Ordered DEF ShareGrant
  <1>7. PolicyOf!Share(p, c)
    BY <1>1, <1>2, <1>4, <1>5, <1>6
    DEF PolicyOf!Share, PolicyOf!ByOwner, Readers
  <1>8. QED
    BY <1>6, <1>7 DEF PolicyOf!Next, Pending

(* The revocation takes all equal rows, or finds the file gone. *)
LEMMA PolicyRevoke ==
  ASSUME Inv, NEW p \in Proc, Serve(p), RevokeDelete(p)
  PROVE  PolicyOf!Next
  <1>0. TypeOK /\ ServiceOf!Inv
    BY DEF Inv
  <1>1. op[p] = "revoke" /\ target[p] \in User /\ file[p] \in File
    BY <1>0, RevokeDelete(p)
    DEF RevokeDelete, Inv, RequestsInOrder, LabelsOf, TypeOK
  <1>2. rows[file[p]] \in {user[p], NoUser}
    BY RevokeDelete(p) DEF RevokeDelete, Inv, PastTheCheck
  <1>3. perms' = [perms EXCEPT ![file[p]][target[p]] = 0]
    BY RevokeDelete(p) DEF RevokeDelete, Write
  <1>4. Readers' = [Readers EXCEPT ![file[p]] = @ \ {target[p]}]
    <2>1. PICK f \in File, t \in User : f = file[p] /\ t = target[p]
      BY <1>1
    <2>2. perms' = [perms EXCEPT ![f][t] = 0]
      BY <1>3, <2>1
    <2>3. Readers' = [Readers EXCEPT ![f] = @ \ {t}]
      BY <1>0, <2>2, ReadersNext
    <2>4. QED
      BY <2>1, <2>3
  <1>5. PolicyOf!Carried(p) /\ UNCHANGED rows
    BY <1>0, RevokeDelete(p), CarriedOut DEF RevokeDelete, Write, TypeOK
  <1>6. PICK c : Pending[p] = {c} /\ c.kind = "revoke" /\ c.giver = user[p]
                 /\ c.file = file[p] /\ c.target = target[p]
    BY <1>1, RevokeDelete(p), Ordered DEF RevokeDelete
  <1>7. CASE rows[file[p]] = user[p]
    <2>1. PolicyOf!Revoke(p, c)
      BY <1>1, <1>4, <1>5, <1>6, <1>7
      DEF PolicyOf!Revoke, PolicyOf!ByOwner, Readers
    <2>2. QED
      BY <1>6, <2>1 DEF PolicyOf!Next, Pending
  <1>8. CASE rows[file[p]] = NoUser
    <2>1. Readers[file[p]] = {}
      BY <1>1, <1>8 DEF Readers, Inv, GrantsNeedRows, NoGrants
    <2>2. UNCHANGED Readers
      BY <1>4, <2>1 DEF Readers
    <2>3. PolicyOf!Confirm(p, c)
      BY <1>5, <1>6, <1>8, <2>1, <2>2 DEF PolicyOf!Confirm, Readers
    <2>4. QED
      BY <1>6, <2>3 DEF PolicyOf!Next, Pending
  <1>9. QED
    BY <1>2, <1>7, <1>8

(* A removal takes the shares before it looks at the row again. *)
LEMMA PolicyUnshare ==
  ASSUME Inv, NEW p \in Proc, Serve(p), DeleteRevokeAll(p)
  PROVE  [PolicyOf!Next]_(PolicyOf!vars)
  <1>0. TypeOK /\ ServiceOf!Inv
    BY DEF Inv
  <1>1. op[p] = "delete" /\ file[p] \in File
    BY DeleteRevokeAll(p) DEF DeleteRevokeAll, Inv, RequestsInOrder, LabelsOf
  <1>2. rows[file[p]] \in {user[p], NoUser}
    BY DeleteRevokeAll(p) DEF DeleteRevokeAll, Inv, PastTheCheck
  <1>3. perms' = [perms EXCEPT ![file[p]] = NoGrants]
        /\ UNCHANGED <<rows, op, user, file, target>>
    BY DeleteRevokeAll(p) DEF DeleteRevokeAll, Write
  <1>4. pc[p] = "ud_revoke" /\ pc'[p] \in {"del_meta", "500"}
    BY <1>0, DeleteRevokeAll(p) DEF DeleteRevokeAll, Write, TypeOK
  <1>5. CommandOf(p)' \in {CommandOf(p), {}} /\ ~ToldOf(p) /\ ~ToldOf(p)'
    BY <1>3, <1>4 DEF CommandOf, ToldOf
  <1>6. CASE rows[file[p]] = user[p]
    <2>1. Readers' = [Readers EXCEPT ![file[p]] = {}]
      <3>1. {u \in User : NoGrants[u] > 0} = {}
        BY DEF NoGrants
      <3>2. QED
        BY <1>0, <1>1, <1>3, <3>1 DEF Readers, TypeOK
    <2>2. UNCHANGED Told /\ Pending' \in {Pending, [Pending EXCEPT ![p] = {}]}
      BY <1>0, <1>5, PendingOthers DEF Told, Pending
    <2>3. PICK c : Pending[p] = {c} /\ c.kind = "delete" /\ c.giver = user[p]
                   /\ c.file = file[p]
      BY <1>1, <1>4, Ordered
    <2>4. PolicyOf!Unshare(p, c)
      BY <1>3, <1>6, <2>1, <2>2, <2>3
      DEF PolicyOf!Unshare, PolicyOf!ByOwner, PolicyOf!Proceed,
          PolicyOf!Withdrawn, Readers, Pending, Told, ToldOf
    <2>5. QED
      BY <2>3, <2>4 DEF PolicyOf!Next, Pending
  <1>7. CASE rows[file[p]] = NoUser
    <2>1. UNCHANGED perms
      BY <1>0, <1>1, <1>3, <1>7 DEF Inv, GrantsNeedRows, TypeOK
    <2>2. QED
      BY <1>0, <1>3, <1>5, <2>1, Finishes, Unseen DEF Readers
  <1>8. QED
    BY <1>2, <1>6, <1>7

(* The lookup tells whom a command is about. *)
LEMMA PolicyAim ==
  ASSUME Inv, NEW p \in Proc, Serve(p), pc[p] \in {"name", "name_at"},
         NEW t \in User, Found(p, t)
  PROVE  PolicyOf!Next
  <1>0. TypeOK /\ ServiceOf!Inv
    BY DEF Inv
  <1>1. op[p] \in {"share", "revoke"} /\ target[p] = NoUser
    BY <1>0 DEF Inv, RequestsInOrder, LabelsOf, TypeOK
  <1>2. PICK c : /\ CommandOf(p) = {c} /\ Pending[p] = {c}
                 /\ c = [kind |-> op[p], giver |-> user[p],
                         file |-> file[p], target |-> target[p]]
    BY <1>1, Ordered
  <1>3. /\ pc'[p] \notin Statuses /\ target'[p] = t
        /\ UNCHANGED <<rows, perms, op, user, file>>
    BY <1>0, Found(p, t) DEF Found, TypeOK
  <1>4. CommandOf(p)' = {[c EXCEPT !.target = t]}
    BY <1>1, <1>2, <1>3 DEF CommandOf
  <1>5. Pending' = [Pending EXCEPT ![p] = {[c EXCEPT !.target = t]}]
        /\ UNCHANGED Told
    <2>1. ~ToldOf(p) /\ ~ToldOf(p)'
      BY <1>3 DEF ToldOf
    <2>2. QED
      BY <1>0, <1>4, <2>1, PendingOthers DEF Told
  <1>6. PolicyOf!Aim(p, c, t)
    BY <1>1, <1>2, <1>3, <1>5 DEF PolicyOf!Aim, Pending, Told, ToldOf
  <1>7. QED
    BY <1>2, <1>6 DEF PolicyOf!Next, Pending

(* The removal that the service has confirmed. *)
LEMMA PolicyConfirm ==
  ASSUME Inv, NEW p \in Proc, Serve(p), Answer(p),
         op[p] = "delete", pc[p] = "ok"
  PROVE  PolicyOf!Next
  <1>0. TypeOK /\ ServiceOf!Inv
    BY DEF Inv
  <1>1. file[p] \in File /\ file[p] \in gone
    BY DEF Inv, RequestsInOrder, PastTheCheck
  <1>2. rows[file[p]] = NoUser
    BY <1>0, <1>1, StoreFacts
  <1>3. Readers[file[p]] = {}
    BY <1>1, <1>2 DEF Readers, Inv, GrantsNeedRows, NoGrants
  <1>4. UNCHANGED <<rows, perms>> /\ PolicyOf!Carried(p)
    BY <1>0, Answer(p), CarriedOut DEF Answer, Status, TypeOK
  <1>5. PICK c : Pending[p] = {c} /\ c.kind = "delete" /\ c.file = file[p]
    BY Ordered
  <1>6. PolicyOf!Confirm(p, c)
    BY <1>2, <1>3, <1>4, <1>5 DEF PolicyOf!Confirm, Readers
  <1>7. QED
    BY <1>5, <1>6 DEF PolicyOf!Next, Pending

(* Whatever a goroutine does is allowed by the policy. *)
LEMMA PolicyServe ==
  ASSUME Inv, NEW p \in Proc, Serve(p)
  PROVE  [PolicyOf!Next]_(PolicyOf!vars)
  <1>0. /\ TypeOK /\ ServiceOf!Inv
        /\ pc[p] \in LabelsOf(op[p])
    BY DEF Inv, RequestsInOrder
  <1>1. ASSUME pc'[p] \notin Statuses, pc[p] \notin Statuses,
               UNCHANGED <<rows, perms, op>>,
               op[p] \notin Commands \/ UNCHANGED <<user, file, target>>
        PROVE  UNCHANGED PolicyOf!vars
    BY <1>0, <1>1, Unseen DEF CommandOf, ToldOf, Readers
  <1>2. ASSUME pc'[p] \in Statuses, UNCHANGED <<rows, perms, op>>,
               pc'[p] # "2xx" \/ op[p] \notin Commands
        PROVE  PolicyOf!Next
    BY <1>0, <1>2, Finishes DEF CommandOf, ToldOf
  <1>3. CASE \/ UploadExists(p) \/ UploadOpenFails(p) \/ SharedMeta(p)
             \/ SharedAccess(p) \/ DeleteCheck(p) \/ ShareCheck(p)
             \/ RevokeCheck(p) \/ ShareGrantOrphan(p) \/ QueryFails(p)
             \/ \E label \in {"name_at", "404"} :
                  pc[p] \in {"name", "name_at"} /\ Move(p, label)
    <2>1. PICK label \in (UseCaseLabels \ {"2xx"}) \cup {"get_blob"} :
            Move(p, label) /\ pc[p] \notin Statuses
      BY <1>3
      DEF UploadExists, UploadOpenFails, SharedMeta, SharedAccess, DeleteCheck,
          ShareCheck, RevokeCheck, ShareGrantOrphan, QueryFails, MetaCheck
    <2>2. pc'[p] = label
      BY <1>0, <2>1 DEF TypeOK
    <2>3. QED
      BY <1>1, <1>2, <2>1, <2>2
  <1>4. CASE (\E f \in File : UploadOpen(p, f)) \/ UploadNext(p)
    <2>1. op[p] = "upload"
      BY <1>0, <1>4 DEF UploadOpen, UploadNext, LabelsOf
    <2>2. /\ pc[p] \notin Statuses /\ pc'[p] \notin Statuses
          /\ UNCHANGED <<rows, perms, op>>
      BY <1>0, <1>4 DEF UploadOpen, UploadNext, TypeOK
    <2>3. QED
      BY <1>1, <2>1, <2>2
  <1>5. CASE Answer(p) /\ ~(op[p] = "delete" /\ pc[p] = "ok")
    <2>1. /\ pc[p] \in Svc!Outcomes /\ pc'[p] = Status(pc[p])
          /\ UNCHANGED <<rows, perms, op>>
      BY <1>0, <1>5 DEF Answer, TypeOK
    <2>2. op[p] \notin {"share", "revoke"}
      BY <1>0, <2>1 DEF LabelsOf
    <2>3. pc'[p] \in Statuses /\ (pc'[p] = "2xx" => pc[p] = "ok")
      BY <2>1 DEF Status
    <2>4. QED
      BY <1>2, <1>5, <2>1, <2>2, <2>3
  <1>6. CASE Respond(p)
    <2>1. UNCHANGED <<rows, perms>> /\ CommandOf(p)' = {} /\ ~ToldOf(p)'
      BY <1>0, <1>6 DEF Respond, CommandOf, ToldOf, TypeOK
    <2>2. QED
      BY <1>0, <2>1, Finishes
  <1>7. CASE \E t \in User : pc[p] \in {"name", "name_at"} /\ Found(p, t)
    BY <1>7, PolicyAim
  <1>8. QED
    BY <1>3, <1>4, <1>5, <1>6, <1>7, PolicyService, PolicyGrant, PolicyRevoke,
       PolicyUnshare, PolicyConfirm
    DEF Serve, LookUp, LookUpAt, Account

LEMMA PolicyStart == Init => PolicyOf!Init
  <1> SUFFICES ASSUME Init PROVE PolicyOf!Init
    OBVIOUS
  <1>1. Readers = [f \in File |-> {}]
    BY DEF Init, Readers, NoGrants
  <1>2. Pending = [p \in Proc |-> {}] /\ Told = {}
    BY DEF Init, Pending, CommandOf, Told, ToldOf
  <1>3. QED
    BY <1>1, <1>2
    DEF Init, Svc!Init, PolicyOf!Init, Readers, Pending, Told, ToldOf

LEMMA PolicyCrash == Crash => PolicyOf!Next
  <1> SUFFICES ASSUME Crash PROVE PolicyOf!Next
    OBVIOUS
  <1>1. Pending' = [p \in Proc |-> IF p \in Proc THEN {} ELSE Pending[p]]
    BY DEF Crash, Pending, CommandOf
  <1>2. Told' = Told \ Proc
    BY DEF Crash, Told, ToldOf
  <1>3. PolicyOf!Finish(Proc)
    BY <1>1, <1>2
    DEF Crash, Svc!Crash, PolicyOf!Finish, Readers, Pending, Told, ToldOf
  <1>4. QED
    BY <1>3 DEF PolicyOf!Next

(* The owner alone decides who reads a file, and a command that is answered *)
(* with 2xx has been carried out, under all interleavings and failures.     *)
THEOREM AccessPolicyImplemented == Spec => ImplementsAccessPolicy
  <1>1. Inv /\ [Next]_vars => [PolicyOf!Next]_(PolicyOf!vars)
    <2> SUFFICES ASSUME Inv, [Next]_vars
                 PROVE  [PolicyOf!Next]_(PolicyOf!vars)
      OBVIOUS
    <2>1. ASSUME \/ UNCHANGED vars
                 \/ \E u \in User, n \in Name : Register(u, n) \/ Rename(u, n)
          PROVE  UNCHANGED PolicyOf!vars
      BY <2>1 DEF Register, Rename, PolicyOf!vars, CommandOf
    <2>2. QED
      BY <2>1, PolicyRequest, PolicyServe, PolicyCrash DEF Next, Step
  <1>2. QED
    BY <1>1, PolicyStart, Invariance, PTL
    DEF Spec, ImplementsAccessPolicy, PolicyOf!Spec
===============================================================================
