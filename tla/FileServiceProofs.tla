-------------------------- MODULE FileServiceProofs --------------------------
(***************************************************************************)
(* The invariants and the action properties of FileService, and that it    *)
(* implements FileRegistry, for any sets of goroutines, accounts and ids   *)
(* and any set of failures.                                                *)
(*                                                                         *)
(* Inv carries everything: it is inductive (InitInv, NextInv), the other   *)
(* invariants and the action properties follow from it, and it supplies    *)
(* the facts that a step of the registry needs.                            *)
(***************************************************************************)
EXTENDS FileService, TLAPS

(* Frames and sets of labels are expanded in every proof. *)
USE DEF SaveLabels, GetLabels, DeleteLabels, Outcomes, SvcLabels, published,
        store, call, history, svcVars, Goto, Stay, Enter, Running

-------------------------------------------------------------------------------
LEMMA InitInv == Init => Inv
  BY FileServiceAssumption
  DEF Init, Inv, TypeOK, SavesApart, PastTheRow, LifeOfAnId,
      AckedRowHasBytes, RemovalIsFinal

(* A new call disturbs only what Inv says of the goroutine that enters. *)
LEMMA CallInv ==
  ASSUME Inv, NEW p \in Proc, NEW u \in User, NEW f \in File,
         \/ CallSave(p, u, f) \/ CallGetForOwner(p, u, f)
         \/ CallGet(p, u, f)  \/ CallDelete(p, u, f)
  PROVE  Inv'
  <1> USE FileServiceAssumption
      DEF Inv, TypeOK, SavesApart, PastTheRow, LifeOfAnId,
          AckedRowHasBytes, RemovalIsFinal
  <1>1. CASE CallSave(p, u, f)        BY <1>1 DEF CallSave
  <1>2. CASE CallGetForOwner(p, u, f) BY <1>2 DEF CallGetForOwner
  <1>3. CASE CallGet(p, u, f)         BY <1>3 DEF CallGet
  <1>4. CASE CallDelete(p, u, f)      BY <1>4 DEF CallDelete
  <1>5. QED  BY <1>1, <1>2, <1>3, <1>4

(* Save: no other goroutine is saving the same id, and nobody else touches *)
(* an id before it is published.                                           *)
LEMMA SaveInv ==
  ASSUME Inv, NEW p \in Proc, SaveStep(p) PROVE Inv'
  <1> USE FileServiceAssumption
      DEF Inv, TypeOK, SavesApart, PastTheRow, LifeOfAnId,
          AckedRowHasBytes, RemovalIsFinal
  <1>1. CASE SaveCreate(p)        BY <1>1 DEF SaveCreate
  <1>2. CASE SaveCreateFails(p)   BY <1>2 DEF SaveCreateFails
  <1>3. CASE SaveWrite(p)         BY <1>3 DEF SaveWrite
  <1>4. CASE SaveWriteFails(p)    BY <1>4 DEF SaveWriteFails
  <1>5. CASE SaveInsert(p)        BY <1>5 DEF SaveInsert
  <1>6. CASE SaveInsertFails(p)   BY <1>6 DEF SaveInsertFails
  <1>7. CASE SaveInsertUnacked(p) BY <1>7 DEF SaveInsertUnacked
  <1>8. CASE SaveUndo(p)          BY <1>8 DEF SaveUndo
  <1>9. CASE SaveUndoFails(p)     BY <1>9 DEF SaveUndoFails
  <1>10. QED
    BY SaveStep(p), <1>1, <1>2, <1>3, <1>4, <1>5, <1>6, <1>7, <1>8, <1>9
    DEF SaveStep

LEMMA GetInv ==
  ASSUME Inv, NEW p \in Proc, GetStep(p) PROVE Inv'
  <1> USE FileServiceAssumption
      DEF Inv, TypeOK, SavesApart, PastTheRow, LifeOfAnId,
          AckedRowHasBytes, RemovalIsFinal
  <1>1. CASE GetMeta(p)      BY <1>1 DEF GetMeta, OwnerCheck
  <1>2. CASE GetBlob(p)      BY <1>2 DEF GetBlob
  <1>3. CASE GetBlobFails(p) BY <1>3 DEF GetBlobFails
  <1>4. QED  BY GetStep(p), <1>1, <1>2, <1>3 DEF GetStep

(* DeleteForOwner: the bytes go after the row, which never comes back. *)
LEMMA DeleteInv ==
  ASSUME Inv, NEW p \in Proc, DeleteStep(p) PROVE Inv'
  <1> USE FileServiceAssumption
      DEF Inv, TypeOK, SavesApart, PastTheRow, LifeOfAnId,
          AckedRowHasBytes, RemovalIsFinal
  <1>1. CASE DeleteMeta(p)        BY <1>1 DEF DeleteMeta, OwnerCheck
  <1>2. CASE MetaFails(p)         BY <1>2 DEF MetaFails
  <1>3. CASE DeleteRow(p)         BY <1>3 DEF DeleteRow
  <1>4. CASE DeleteRowFails(p)    BY <1>4 DEF DeleteRowFails
  <1>5. CASE DeleteRowUnacked(p)  BY <1>5 DEF DeleteRowUnacked
  <1>6. CASE DeleteBlob(p)        BY <1>6 DEF DeleteBlob
  <1>7. CASE DeleteBlobMissing(p) BY <1>7 DEF DeleteBlobMissing
  <1>8. CASE DeleteBlobFails(p)   BY <1>8 DEF DeleteBlobFails
  <1>9. QED
    BY DeleteStep(p), <1>1, <1>2, <1>3, <1>4, <1>5, <1>6, <1>7, <1>8
    DEF DeleteStep

LEMMA NextInv == Inv /\ [Next]_svcVars => Inv'
  <1> SUFFICES ASSUME Inv, [Next]_svcVars PROVE Inv'
    OBVIOUS
  <1> USE FileServiceAssumption
  <1>1. ASSUME NEW p \in Proc, Return(p) PROVE Inv'
    BY <1>1 DEF Return, Inv, TypeOK, SavesApart, PastTheRow, LifeOfAnId,
                AckedRowHasBytes, RemovalIsFinal
  <1>2. CASE Crash
    BY <1>2 DEF Crash, Inv, TypeOK, SavesApart, PastTheRow, LifeOfAnId,
                AckedRowHasBytes, RemovalIsFinal
  <1>3. CASE UNCHANGED svcVars
    BY <1>3 DEF Inv, TypeOK, SavesApart, PastTheRow, LifeOfAnId,
                AckedRowHasBytes, RemovalIsFinal
  <1>4. QED
    BY <1>1, <1>2, <1>3, CallInv, SaveInv, GetInv, DeleteInv DEF Next

(* Inv holds in every state of the service. *)
THEOREM Invariance == Spec => []Inv
  BY InitInv, NextInv, PTL DEF Spec

(* Every variable keeps to its type. *)
THEOREM TypeCorrect == Spec => []TypeOK
  <1>1. Inv => TypeOK  BY DEF Inv
  <1>2. QED  BY <1>1, Invariance, PTL

(* A stored file keeps its bytes for as long as it keeps its row, whatever *)
(* goroutines interleave and whatever fails.                               *)
THEOREM AckedRowsKeepTheirBytes == Spec => []AckedRowHasBytes
  <1>1. Inv => AckedRowHasBytes  BY DEF Inv
  <1>2. QED  BY <1>1, Invariance, PTL

(* Neither half of a file returns after its removal was confirmed. *)
THEOREM RemovalsAreFinal == Spec => []RemovalIsFinal
  <1>1. Inv => RemovalIsFinal  BY DEF Inv
  <1>2. QED  BY <1>1, Invariance, PTL

(* A row that lacks its bytes is one whose INSERT was reported as failed. *)
THEOREM DanglingRowsAreTorn == Spec => []DanglingOnlyIfTorn
  <1>1. Inv => DanglingOnlyIfTorn
    BY DEF Inv, LifeOfAnId, AckedRowHasBytes, DanglingOnlyIfTorn
  <1>2. QED  BY <1>1, Invariance, PTL

-------------------------------------------------------------------------------
(* Bytes without a row are in the care of a goroutine, or were given up on *)
(* by a failing step: a step that takes the row leaves its goroutine in    *)
(* charge, and a goroutine that stops being in charge leaves a row, no     *)
(* bytes, or an entry in leaked.                                           *)
LEMMA LeakNext == Inv /\ NoSilentLeak /\ [Next]_svcVars => NoSilentLeak'
  <1> SUFFICES ASSUME Inv, NoSilentLeak, [Next]_svcVars PROVE NoSilentLeak'
    OBVIOUS
  <1> USE DEF NoSilentLeak, Holding, Inv, TypeOK
  <1>1. ASSUME NEW p \in Proc, NEW u \in User, NEW g \in File,
               \/ CallSave(p, u, g) \/ CallGetForOwner(p, u, g)
               \/ CallGet(p, u, g)  \/ CallDelete(p, u, g)
        PROVE  NoSilentLeak'
    BY <1>1 DEF CallSave, CallGetForOwner, CallGet, CallDelete
  <1>2. ASSUME NEW p \in Proc, SaveStep(p) PROVE NoSilentLeak'
    <2>1. CASE SaveCreate(p)        BY <2>1 DEF SaveCreate
    <2>2. CASE SaveCreateFails(p)   BY <2>2 DEF SaveCreateFails
    <2>3. CASE SaveWrite(p)         BY <2>3 DEF SaveWrite
    <2>4. CASE SaveWriteFails(p)    BY <2>4 DEF SaveWriteFails
    <2>5. CASE SaveInsert(p)
      BY <2>5, FileServiceAssumption DEF SaveInsert
    <2>6. CASE SaveInsertFails(p)   BY <2>6 DEF SaveInsertFails
    <2>7. CASE SaveInsertUnacked(p) BY <2>7 DEF SaveInsertUnacked
    <2>8. CASE SaveUndo(p)          BY <2>8 DEF SaveUndo
    <2>9. CASE SaveUndoFails(p)     BY <2>9 DEF SaveUndoFails
    <2>10. QED
      BY <1>2, <2>1, <2>2, <2>3, <2>4, <2>5, <2>6, <2>7, <2>8, <2>9
      DEF SaveStep
  <1>3. ASSUME NEW p \in Proc, GetStep(p) PROVE NoSilentLeak'
    BY <1>3 DEF GetStep, GetMeta, GetBlob, GetBlobFails, OwnerCheck
  <1>4. ASSUME NEW p \in Proc, DeleteStep(p) PROVE NoSilentLeak'
    <2>1. CASE DeleteMeta(p)        BY <2>1 DEF DeleteMeta, OwnerCheck
    <2>2. CASE MetaFails(p)         BY <2>2 DEF MetaFails
    <2>3. CASE DeleteRow(p)         BY <2>3 DEF DeleteRow
    <2>4. CASE DeleteRowFails(p)    BY <2>4 DEF DeleteRowFails
    <2>5. CASE DeleteRowUnacked(p)  BY <2>5 DEF DeleteRowUnacked
    <2>6. CASE DeleteBlob(p)        BY <2>6 DEF DeleteBlob
    <2>7. CASE DeleteBlobMissing(p) BY <2>7 DEF DeleteBlobMissing
    <2>8. CASE DeleteBlobFails(p)   BY <2>8 DEF DeleteBlobFails
    <2>9. QED
      BY <1>4, <2>1, <2>2, <2>3, <2>4, <2>5, <2>6, <2>7, <2>8 DEF DeleteStep
  <1>5. ASSUME NEW p \in Proc, Return(p) PROVE NoSilentLeak'
    BY <1>5 DEF Return
  <1>6. CASE Crash  BY <1>6 DEF Crash
  <1>7. CASE UNCHANGED svcVars  BY <1>7
  <1> HIDE DEF NoSilentLeak, Holding, Inv, TypeOK
  <1>8. QED  BY <1>1, <1>2, <1>3, <1>4, <1>5, <1>6, <1>7 DEF Next

(* Interleaving alone never strands bytes in the directory. *)
THEOREM NoLeakWithoutFailure == Spec => []NoSilentLeak
  <1>1. Init => NoSilentLeak  BY DEF Init, NoSilentLeak
  <1>2. QED  BY <1>1, LeakNext, Invariance, PTL DEF Spec

-------------------------------------------------------------------------------
(* What p's step may do with an outcome: GetBlob and DeleteBlob are the    *)
(* only steps that lead from these labels to "ok".                         *)
LEMMA StepsToOk ==
  ASSUME Inv, [Next]_svcVars, NEW p \in Proc, (pc[p] = "ok")'
  PROVE  /\ pc[p] = "get_blob" => GetBlob(p)
         /\ pc[p] = "del_blob" => DeleteBlob(p)
  <1> USE DEF Inv, TypeOK
  <1>1. ASSUME NEW q \in Proc, NEW u \in User, NEW f \in File,
               \/ CallSave(q, u, f) \/ CallGetForOwner(q, u, f)
               \/ CallGet(q, u, f)  \/ CallDelete(q, u, f)
        PROVE  pc[p] \notin {"get_blob", "del_blob"}
    BY <1>1 DEF CallSave, CallGetForOwner, CallGet, CallDelete
  <1>2. ASSUME NEW q \in Proc, SaveStep(q)
        PROVE  pc[p] \notin {"get_blob", "del_blob"}
    BY <1>2 DEF SaveStep, SaveCreate, SaveCreateFails, SaveWrite,
      SaveWriteFails, SaveInsert, SaveInsertFails, SaveInsertUnacked,
      SaveUndo, SaveUndoFails
  <1>3. ASSUME NEW q \in Proc, GetStep(q), pc[p] \in {"get_blob", "del_blob"}
        PROVE  q = p /\ GetBlob(p)
    BY <1>3 DEF GetStep, GetMeta, GetBlob, GetBlobFails, OwnerCheck
  <1>4. ASSUME NEW q \in Proc, DeleteStep(q),
               pc[p] \in {"get_blob", "del_blob"}
        PROVE  q = p /\ DeleteBlob(p)
    BY <1>4 DEF DeleteStep, DeleteMeta, MetaFails, DeleteRow, DeleteRowFails,
      DeleteRowUnacked, DeleteBlob, DeleteBlobMissing, DeleteBlobFails,
      OwnerCheck
  <1>5. ASSUME (\E q \in Proc : Return(q)) \/ Crash \/ UNCHANGED svcVars
        PROVE  pc[p] \notin {"get_blob", "del_blob"}
    BY <1>5 DEF Return, Crash
  <1>6. GetBlob(p) => pc[p] = "get_blob"  BY DEF GetBlob
  <1>7. DeleteBlob(p) => pc[p] = "del_blob"  BY DEF DeleteBlob
  <1>8. QED  BY <1>1, <1>2, <1>3, <1>4, <1>5, <1>6, <1>7 DEF Next

(* Every successful download is of a complete file: only published files   *)
(* are read, and what is in the directory of a published file is whole.    *)
THEOREM ReadsAreWhole == Spec => NoTornRead
  <1>1. Inv /\ [Next]_svcVars =>
          [\A p \in Proc : pc[p] = "get_blob" /\ pc'[p] = "ok"
                             => blobs[file[p]] = "full"]_svcVars
    <2> SUFFICES ASSUME Inv, [Next]_svcVars, NEW p \in Proc,
                        pc[p] = "get_blob", pc'[p] = "ok"
                 PROVE  blobs[file[p]] = "full"
      OBVIOUS
    <2>1. GetBlob(p)  BY StepsToOk
    <2>2. blobs[file[p]] # "absent"
      BY <2>1 DEF GetBlob, Inv, TypeOK
    <2>3. QED  BY <2>2 DEF Inv, PastTheRow, LifeOfAnId, TypeOK
  <1>2. QED  BY <1>1, Invariance, PTL DEF Spec, NoTornRead

(* No file is confirmed removed twice: the second os.Remove finds nothing. *)
THEOREM RemovalsConfirmedOnce == Spec => OneRemovalConfirmed
  <1>1. Inv /\ [Next]_svcVars =>
          [\A p \in Proc : pc[p] = "del_blob" /\ pc'[p] = "ok"
                             => file[p] \notin gone]_svcVars
    <2> SUFFICES ASSUME Inv, [Next]_svcVars, NEW p \in Proc,
                        pc[p] = "del_blob", pc'[p] = "ok"
                 PROVE  file[p] \notin gone
      OBVIOUS
    <2>1. DeleteBlob(p)  BY StepsToOk
    <2>2. QED  BY <2>1 DEF DeleteBlob, Inv, RemovalIsFinal
  <1>2. QED  BY <1>1, Invariance, PTL DEF Spec, OneRemovalConfirmed

-------------------------------------------------------------------------------
(* FileService implements FileRegistry.  An INSERT publishes, a DELETE     *)
(* retires, os.Remove confirms, a DeleteForOwner that ends otherwise gives *)
(* up; every other step leaves the registry as it is.                      *)

Requests == [p \in Proc |-> RequestOf(p)]

(* A step at p leaves the requests of the others alone, and p's own unless *)
(* pc[p] leaves the statements of a removal.                               *)
LEMMA RequestsAfter ==
  ASSUME Inv, NEW p \in Proc, NEW label,
         Goto(p, label), UNCHANGED <<user, file>>
  PROVE  /\ label \notin DeleteLabels =>
              Requests' = [q \in Proc |-> IF q \in {p} THEN {} ELSE Requests[q]]
         /\ (pc[p] \in DeleteLabels <=> label \in DeleteLabels) =>
              Requests' = Requests
  BY DEF Requests, RequestOf, Inv, TypeOK

LEMMA RegistryStart == Init => RegistryOf!Init
  BY DEF Init, RegistryOf!Init, RequestOf

(* A removal that ends without a confirmation. *)
LEMMA GivesUp ==
  ASSUME Inv, NEW p \in Proc, NEW label, label \notin DeleteLabels,
         Goto(p, label), UNCHANGED <<user, file, rows, acked, torn, gone>>
  PROVE  RegistryOf!Next
  <1>1. RegistryOf!GiveUp({p})
    BY RequestsAfter DEF RegistryOf!GiveUp, Requests
  <1>2. QED  BY <1>1 DEF RegistryOf!Next

(* A step that the registry does not see. *)
LEMMA Stutters ==
  ASSUME Inv, NEW p \in Proc, NEW label,
         pc[p] \in DeleteLabels <=> label \in DeleteLabels,
         Goto(p, label), UNCHANGED <<user, file, rows, acked, torn, gone>>
  PROVE  UNCHANGED RegistryOf!vars
  BY RequestsAfter DEF RegistryOf!vars, Requests

LEMMA RegistryCall ==
  ASSUME Inv, NEW p \in Proc, NEW u \in User, NEW f \in File,
         \/ CallSave(p, u, f) \/ CallGetForOwner(p, u, f)
         \/ CallGet(p, u, f)  \/ CallDelete(p, u, f)
  PROVE  [RegistryOf!Next]_(RegistryOf!vars)
  <1>1. CASE CallDelete(p, u, f)
    <2>1. Requests[p] = {}
      BY <1>1 DEF CallDelete, Requests, RequestOf
    <2>2. Requests' = [Requests EXCEPT ![p] = {<<u, f>>}]
      BY <1>1 DEF CallDelete, Requests, RequestOf, Inv, TypeOK
    <2>3. RegistryOf!AskRemoval(p, u, f)
      BY <1>1, <2>1, <2>2 DEF CallDelete, RegistryOf!AskRemoval, Requests
    <2>4. QED  BY <2>3 DEF RegistryOf!Next
  <1>2. CASE CallSave(p, u, f) \/ CallGetForOwner(p, u, f) \/ CallGet(p, u, f)
    <2>1. Requests' = Requests
      BY <1>2 DEF CallSave, CallGetForOwner, CallGet, Requests, RequestOf,
                  Inv, TypeOK
    <2>2. QED
      BY <1>2, <2>1 DEF CallSave, CallGetForOwner, CallGet, RegistryOf!vars,
                        Requests
  <1>3. QED  BY <1>1, <1>2

LEMMA RegistrySave ==
  ASSUME Inv, NEW p \in Proc, SaveStep(p)
  PROVE  [RegistryOf!Next]_(RegistryOf!vars)
  <1>1. CASE SaveInsert(p) \/ SaveInsertUnacked(p)
    <2>1. Requests' = Requests
      BY <1>1, RequestsAfter DEF SaveInsert, SaveInsertUnacked
    <2>2. user[p] \in User /\ file[p] \in File /\ file[p] \notin published
      BY <1>1 DEF SaveInsert, SaveInsertUnacked, Inv, SavesApart
    <2>3. RegistryOf!Publish(file[p], user[p])
      BY <1>1, <2>1, <2>2
      DEF SaveInsert, SaveInsertUnacked, RegistryOf!Publish, Requests
    <2>4. QED  BY <2>2, <2>3 DEF RegistryOf!Next
  <1>2. CASE ~(SaveInsert(p) \/ SaveInsertUnacked(p))
    BY <1>2, SaveStep(p), Stutters
    DEF SaveStep, SaveCreate, SaveCreateFails, SaveWrite, SaveWriteFails,
        SaveInsertFails, SaveUndo, SaveUndoFails
  <1>3. QED  BY <1>1, <1>2

LEMMA RegistryGet ==
  ASSUME Inv, NEW p \in Proc, GetStep(p)
  PROVE  UNCHANGED RegistryOf!vars
  BY GetStep(p), Stutters
  DEF GetStep, GetMeta, GetBlob, GetBlobFails, OwnerCheck

(* The row that a removal takes is the one of its own user: that it looked *)
(* at the owner an arbitrary number of steps ago does not matter.          *)
LEMMA RegistryDeleteRow ==
  ASSUME Inv, NEW p \in Proc, DeleteRow(p) \/ DeleteRowUnacked(p)
  PROVE  [RegistryOf!Next]_(RegistryOf!vars)
  <1>1. /\ pc[p] = "del_row" /\ file[p] \in File /\ user[p] \in User
        /\ rows[file[p]] \in {user[p], NoUser}
    BY DEF DeleteRow, DeleteRowUnacked, Inv, PastTheRow
  <1>2. Requests' \in {Requests, [Requests EXCEPT ![p] = {}]}
    BY <1>1, RequestsAfter DEF DeleteRow, DeleteRowUnacked, Requests
  <1>3. CASE rows[file[p]] = user[p] /\ user[p] # NoUser
    <2>1. <<rows[file[p]], file[p]>> \in Requests[p]
      BY <1>1, <1>3 DEF Requests, RequestOf
    <2>2. RegistryOf!Retire(p, file[p])
      BY <1>2, <1>3, <2>1
      DEF RegistryOf!Retire, DeleteRow, DeleteRowUnacked, Requests
    <2>3. QED  BY <1>1, <2>2 DEF RegistryOf!Next
  <1>4. CASE rows[file[p]] = NoUser
    <2>1. UNCHANGED <<user, file, rows, acked, torn, gone>>
      BY <1>1, <1>4 DEF DeleteRow, DeleteRowUnacked, Inv, TypeOK
    <2>2. CASE DeleteRow(p)
      BY <2>1, <2>2, Stutters DEF DeleteRow
    <2>3. CASE DeleteRowUnacked(p)
      BY <2>1, <2>3, GivesUp DEF DeleteRowUnacked
    <2>4. QED  BY <2>2, <2>3
  <1>5. QED  BY <1>1, <1>3, <1>4

LEMMA RegistryDelete ==
  ASSUME Inv, NEW p \in Proc, DeleteStep(p)
  PROVE  [RegistryOf!Next]_(RegistryOf!vars)
  <1>1. CASE DeleteBlob(p)
    <2>1. /\ pc[p] = "del_blob" /\ user[p] \in User /\ file[p] \in File
          /\ file[p] \in published \ gone /\ rows[file[p]] = NoUser
      BY <1>1 DEF DeleteBlob, Inv, PastTheRow, RemovalIsFinal
    <2>2. Requests[p] = {<<user[p], file[p]>>}
      BY <2>1 DEF Requests, RequestOf
    <2>3. Requests' = [Requests EXCEPT ![p] = {}]
      BY <1>1 DEF DeleteBlob, Requests, RequestOf, Inv, TypeOK
    <2>4. RegistryOf!ConfirmRemoval(p, user[p], file[p])
      BY <1>1, <2>1, <2>2, <2>3
      DEF DeleteBlob, RegistryOf!ConfirmRemoval, Requests
    <2>5. QED  BY <2>1, <2>4 DEF RegistryOf!Next
  <1>2. CASE DeleteRow(p) \/ DeleteRowUnacked(p)
    BY <1>2, RegistryDeleteRow
  <1>3. CASE DeleteMeta(p)
    BY <1>3, Stutters, GivesUp DEF DeleteMeta, OwnerCheck
  <1>4. CASE MetaFails(p)  BY <1>4, GivesUp DEF MetaFails
  <1>5. CASE DeleteRowFails(p) \/ DeleteBlobMissing(p) \/ DeleteBlobFails(p)
    BY <1>5, GivesUp DEF DeleteRowFails, DeleteBlobMissing, DeleteBlobFails
  <1>6. QED
    BY DeleteStep(p), <1>1, <1>2, <1>3, <1>4, <1>5 DEF DeleteStep

LEMMA RegistryCrash == Crash => RegistryOf!Next
  <1> SUFFICES ASSUME Crash PROVE RegistryOf!Next
    OBVIOUS
  <1>1. Requests' = [p \in Proc |-> IF p \in Proc THEN {} ELSE Requests[p]]
    BY DEF Crash, Requests, RequestOf
  <1>2. RegistryOf!GiveUp(Proc)
    BY <1>1 DEF Crash, RegistryOf!GiveUp, Requests
  <1>3. QED  BY <1>2 DEF RegistryOf!Next

LEMMA RegistryNext ==
  Inv /\ [Next]_svcVars => [RegistryOf!Next]_(RegistryOf!vars)
  <1> SUFFICES ASSUME Inv, [Next]_svcVars
               PROVE  [RegistryOf!Next]_(RegistryOf!vars)
    OBVIOUS
  <1>1. ASSUME NEW p \in Proc, Return(p) PROVE UNCHANGED RegistryOf!vars
    <2>1. Requests' = Requests
      BY <1>1 DEF Return, Requests, RequestOf, Inv, TypeOK
    <2>2. QED  BY <1>1, <2>1 DEF Return, RegistryOf!vars, Requests
  <1>2. CASE UNCHANGED svcVars
    BY <1>2 DEF RegistryOf!vars, RequestOf
  <1>3. QED
    BY <1>1, <1>2, RegistryCall, RegistrySave, RegistryGet, RegistryDelete,
       RegistryCrash DEF Next

(* The directory, the table and the order of their statements give the     *)
(* callers what FileRegistry promises: a file is published once, retired   *)
(* once and only by its owner, and confirmed removed once.                 *)
THEOREM RegistryImplemented == Spec => ImplementsRegistry
  BY RegistryStart, RegistryNext, Invariance, PTL
  DEF Spec, ImplementsRegistry, RegistryOf!Spec
===============================================================================
