-------------------------- MODULE FileListsLiveness --------------------------
(***************************************************************************)
(* What the file service finishes, for any sets of goroutines, listers,    *)
(* accounts and files, if goroutines are scheduled.                        *)
(*                                                                         *)
(* A removal that has passed its check, if nothing fails: it gets as far   *)
(* as the DELETE of the row, or finds the row gone (RowGoes).  Whoever has *)
(* taken the row, by then or since, is on its way to the bytes, for        *)
(* nothing else can have become of them (BytesTaken).                      *)
(*                                                                         *)
(* Every request, whatever fails and wherever the process is killed: a     *)
(* statement takes it nearer to its answer or to where an upload takes up  *)
(* the next part of its body (Stage), and an upload takes up each part of  *)
(* its body once, so there is always one less to come (OneLessLeft).       *)
(***************************************************************************)
EXTENDS FileListsProofs, FiniteSetTheorems

USE DEF lists, listsVars, svcVars, files, request, tables, watch, vars,
        Svc!SaveLabels, Svc!GetLabels, Svc!DeleteLabels, Svc!Outcomes,
        Svc!SvcLabels, Svc!published, Svc!store, Svc!history,
        Svc!Goto, Svc!Stay, Svc!Enter, Jump, Move, Statuses, Queries, Writes

(* The file was there and its row is gone, which is for good. *)
Retired(f) == f \in Svc!published /\ rows[f] = NoUser

Removed(f) == rows[f] = NoUser /\ blobs[f] = "absent"

(* p is at a statement of a removal of f that has passed its check. *)
RemovingAt(p, f, label) ==
  /\ pc[p] = label /\ file[p] = f
  /\ f \in Svc!published /\ rows[f] \in {user[p], NoUser}

(* p has taken the row, or has found it taken, and has the bytes to take. *)
TakingBytes(p, f) == pc[p] = "del_blob" /\ file[p] = f /\ Retired(f)

-------------------------------------------------------------------------------
(* What the steps of a removal do when nothing fails.                       *)

LEMMA RetiredNext ==
  ASSUME Inv, [Next]_vars, NEW f \in File, Retired(f)
  PROVE  Retired(f)'
  <1>1. CASE Next
    BY <1>1, RowsNext DEF Retired
  <1>2. CASE UNCHANGED vars
    BY <1>2 DEF Retired
  <1>3. QED
    BY <1>1, <1>2

(* Until p takes a step, it stays where it is. *)
LEMMA StaysOrServes ==
  ASSUME Inv, [Next]_vars, Faults = {}, NEW p \in Proc, pc[p] # "idle"
  PROVE  Serve(p) \/ UNCHANGED <<pc[p], user[p], file[p]>>
  <1>0. TypeOK /\ ServiceOf!Inv
    BY DEF Inv
  <1>1. ~Crash
    BY DEF Crash, Svc!Crash, Svc!Fault
  <1>2. ASSUME NEW q \in Proc, Request(q) PROVE q # p
    BY <1>2
    DEF Request, Begin, BeginUpload, BeginDownload, BeginShared, BeginDelete,
        BeginShare, BeginRevoke, BeginRevokeUser
  <1>3. QED
    BY <1>0, <1>1, <1>2, Others DEF Next, Step, Register, Rename

(* Each statement of a removal has one way on, the last of them two. *)
LEMMA RemovalActions ==
  ASSUME Faults = {}, NEW p \in Proc, Serve(p)
  PROVE  /\ pc[p] = "ud_revoke" => DeleteRevokeAll(p)
         /\ pc[p] = "del_meta"  => Svc!DeleteMeta(p)
         /\ pc[p] = "del_row"   => Svc!DeleteRow(p)
         /\ pc[p] = "del_blob"  => Svc!DeleteBlob(p) \/ Svc!DeleteBlobMissing(p)
  BY DEF Svc!Fault, Serve, UploadExists, UploadOpen, UploadOpenFails, UploadNext,
         SharedMeta, SharedAccess, DeleteCheck, DeleteRevokeAll, ShareCheck,
         LookUp, LookUpAt, ShareGrant, ShareGrantOrphan, RevokeCheck,
         RevokeDelete, QueryFails, Answer, Respond, ServiceStep, Svc!SaveStep,
         Svc!SaveCreate, Svc!SaveCreateFails, Svc!SaveWrite,
         Svc!SaveWriteFails, Svc!SaveInsert, Svc!SaveInsertFails,
         Svc!SaveInsertUnacked, Svc!SaveUndo, Svc!SaveUndoFails, Svc!GetStep,
         Svc!GetMeta, Svc!GetBlob, Svc!GetBlobFails, Svc!DeleteStep,
         Svc!DeleteMeta, Svc!MetaFails, Svc!DeleteRow, Svc!DeleteRowFails,
         Svc!DeleteRowUnacked, Svc!DeleteBlob, Svc!DeleteBlobMissing,
         Svc!DeleteBlobFails

(* Where it leads: on in the removal, or to the end of the row. *)
Onward(p, f, label) ==
  \/ label = "ud_revoke" /\ RemovingAt(p, f, "del_meta")
  \/ label = "del_meta"  /\ RemovingAt(p, f, "del_row")
  \/ Retired(f)

RemovalLabels == {"ud_revoke", "del_meta", "del_row"}

LEMMA RemovalServed ==
  ASSUME Inv, Next, Faults = {}, NEW p \in Proc, NEW f \in File, Serve(p),
         NEW label \in RemovalLabels, RemovingAt(p, f, label)
  PROVE  Onward(p, f, label)'
  <1> USE DEF RemovingAt, Retired, Onward, RemovalLabels, Svc!Fault
  <1>0. TypeOK
    BY DEF Inv
  <1>1. f \in Svc!published' /\ rows'[f] \in {rows[f], NoUser}
    BY RowsNext
  <1>2. CASE label = "ud_revoke"
    BY <1>0, <1>1, <1>2, RemovalActions DEF DeleteRevokeAll, Write, TypeOK
  <1>3. CASE label \in {"del_meta", "del_row"}
    BY <1>0, <1>1, <1>3, RemovalActions
    DEF Svc!DeleteMeta, Svc!OwnerCheck, Svc!DeleteRow, TypeOK
  <1>4. QED
    BY <1>2, <1>3 DEF RemovalLabels

LEMMA BytesServed ==
  ASSUME Inv, Next, Faults = {}, NEW p \in Proc, NEW f \in File, Serve(p),
         TakingBytes(p, f)
  PROVE  Removed(f)'
  <1>1. TypeOK
    BY DEF Inv
  <1>2. Retired(f)'
    BY RetiredNext DEF TakingBytes
  <1>3. QED
    BY <1>1, <1>2, RemovalActions
    DEF TakingBytes, Retired, Removed, Svc!DeleteBlob, Svc!DeleteBlobMissing,
        TypeOK

(* The steps of others leave a removal where it is, or take the row. *)
LEMMA RemovalNext ==
  ASSUME Inv, [Next]_vars, Faults = {}, NEW p \in Proc, NEW f \in File,
         NEW label \in RemovalLabels, RemovingAt(p, f, label)
  PROVE  RemovingAt(p, f, label)' \/ Onward(p, f, label)'
  <1>1. pc[p] # "idle"
    BY DEF RemovingAt, RemovalLabels
  <1>2. CASE Serve(p) /\ Next
    BY <1>2, RemovalServed
  <1>3. CASE UNCHANGED <<pc[p], user[p], file[p]>> /\ Next
    BY <1>3, RowsNext DEF RemovingAt
  <1>4. CASE UNCHANGED vars
    BY <1>4 DEF RemovingAt
  <1>5. QED
    BY <1>1, <1>2, <1>3, <1>4, StaysOrServes

LEMMA BytesNext ==
  ASSUME Inv, [Next]_vars, Faults = {}, NEW p \in Proc, NEW f \in File,
         TakingBytes(p, f)
  PROVE  TakingBytes(p, f)' \/ Removed(f)'
  <1>1. pc[p] # "idle"
    BY DEF TakingBytes
  <1>2. CASE Serve(p) /\ Next
    BY <1>2, BytesServed
  <1>3. CASE UNCHANGED <<pc[p], user[p], file[p]>>
    BY <1>3, RetiredNext DEF TakingBytes
  <1>4. CASE UNCHANGED vars
    BY <1>4, RetiredNext DEF TakingBytes
  <1>5. QED
    BY <1>1, <1>2, <1>3, <1>4, StaysOrServes

-------------------------------------------------------------------------------
(* Where the bytes of a file are whose row is gone.                         *)

NothingFailed == torn = {} /\ leaked = {}

LEMMA NothingFails == ASSUME Faults = {} PROVE Spec => []NothingFailed
  <1>1. Init => NothingFailed
    BY DEF Init, Svc!Init, NothingFailed
  <1>2. NothingFailed /\ [Next]_vars => NothingFailed'
    <2> SUFFICES ASSUME NothingFailed, [Next]_vars PROVE UNCHANGED <<torn, leaked>>
      BY DEF NothingFailed
    <2>1. ASSUME NEW p \in Proc, ServiceStep(p) PROVE UNCHANGED <<torn, leaked>>
      BY <2>1
      DEF Svc!Fault, ServiceStep, Svc!SaveStep, Svc!SaveCreate,
          Svc!SaveCreateFails, Svc!SaveWrite, Svc!SaveWriteFails,
          Svc!SaveInsert, Svc!SaveInsertFails, Svc!SaveInsertUnacked,
          Svc!SaveUndo, Svc!SaveUndoFails, Svc!GetStep, Svc!GetMeta,
          Svc!GetBlob, Svc!GetBlobFails, Svc!DeleteStep, Svc!DeleteMeta,
          Svc!MetaFails, Svc!DeleteRow, Svc!DeleteRowFails,
          Svc!DeleteRowUnacked, Svc!DeleteBlob, Svc!DeleteBlobMissing,
          Svc!DeleteBlobFails
    <2>2. ASSUME NEW p \in Proc, Serve(p), ~ServiceStep(p)
          PROVE  UNCHANGED <<torn, leaked>>
      BY <2>2
      DEF Serve, UploadExists, UploadOpen, UploadOpenFails, UploadNext,
          SharedMeta, SharedAccess, DeleteCheck, DeleteRevokeAll, ShareCheck,
          LookUp, LookUpAt, Found, ShareGrant, ShareGrantOrphan, RevokeCheck,
          RevokeDelete, QueryFails, Answer, Respond, Write
    <2>3. ASSUME NEW p \in Proc, Request(p) PROVE UNCHANGED <<torn, leaked>>
      BY <2>3
      DEF Request, Begin, BeginUpload, BeginDownload, BeginShared, BeginDelete,
          BeginShare, BeginRevoke, BeginRevokeUser
    <2>4. QED
      BY <2>1, <2>2, <2>3
      DEF Next, Step, Register, Rename, Crash, Svc!Crash, Svc!Fault
  <1>3. QED
    BY <1>1, <1>2, PTL DEF Spec

(* Somebody is about to take them, or they are gone as well. *)
LEMMA BytesInHand ==
  ASSUME Inv, NothingFailed, ServiceOf!NoSilentLeak, NEW f \in File, Retired(f)
  PROVE  Removed(f) \/ \E q \in Proc : TakingBytes(q, f)
  <1> SUFFICES ASSUME blobs[f] # "absent" PROVE \E q \in Proc : TakingBytes(q, f)
    BY DEF Removed, Retired
  <1>1. PICK q \in Proc : InService(q) /\ file[q] = f /\ pc[q] \in Svc!Holding
    BY DEF Retired, NothingFailed, ServiceOf!NoSilentLeak, ServiceOf!Holding,
           Svc!Holding, InService
  <1>2. pc[q] \notin {"save_write", "save_insert", "save_undo"}
    BY <1>1
    DEF Retired, NothingFailed, Inv, ServiceOf!Inv, ServiceOf!SavesApart,
        ServiceOf!published, InService
  <1>3. QED
    BY <1>1, <1>2 DEF Svc!Holding, TakingBytes

-------------------------------------------------------------------------------
(* Weak fairness.  That a request has a step to take is a hypothesis,       *)
(* []NeverBlocked, for ENABLED is not expanded here.                        *)

LEMMA ListsSteps ==
  /\ [ListsNext]_listsVars => [Next]_vars
  /\ \A p \in Proc : Proceed(p) => Serve(p) /\ Next
  BY TablesStep DEF Proceed, Next, Step

Passes(p, f, label) == RemovingAt(p, f, label) ~> Onward(p, f, label)

LEMMA StatementPasses ==
  ASSUME Faults = {}, NEW p \in Proc, NEW f \in File, NEW label \in RemovalLabels
  PROVE  ListsSpec /\ []NeverBlocked /\ ListsScheduled(p) => Passes(p, f, label)
  <1>1. Inv /\ RemovingAt(p, f, label) /\ [ListsNext]_listsVars =>
          RemovingAt(p, f, label)' \/ Onward(p, f, label)'
    BY ListsSteps, RemovalNext
  <1>2. Inv /\ RemovingAt(p, f, label) /\ <<Proceed(p)>>_listsVars =>
          Onward(p, f, label)'
    BY ListsSteps, RemovalServed
  <1>3. NeverBlocked /\ RemovingAt(p, f, label) => ENABLED <<Proceed(p)>>_listsVars
    <2>1. RemovingAt(p, f, label) => pc[p] # "idle"
      BY DEF RemovingAt, RemovalLabels
    <2>2. QED
      BY <2>1 DEF NeverBlocked
  <1>4. QED
    BY <1>1, <1>2, <1>3, ListsChangeNothing, Invariance, PTL
    DEF ListsSpec, ListsScheduled, Passes

(* A removal that has passed its check sees the end of the row. *)
LEMMA RowGoes ==
  ASSUME Faults = {}, NEW p \in Proc, NEW f \in File
  PROVE  ListsSpec /\ []NeverBlocked /\ ListsScheduled(p) =>
           (RemovingAt(p, f, "ud_revoke") ~> Retired(f))
  <1>1. /\ Onward(p, f, "ud_revoke") => RemovingAt(p, f, "del_meta") \/ Retired(f)
        /\ Onward(p, f, "del_meta") => RemovingAt(p, f, "del_row") \/ Retired(f)
        /\ Onward(p, f, "del_row") => Retired(f)
    BY DEF Onward
  <1>2. ListsSpec /\ []NeverBlocked /\ ListsScheduled(p) =>
           Passes(p, f, "ud_revoke")
    BY StatementPasses DEF RemovalLabels
  <1>3. ListsSpec /\ []NeverBlocked /\ ListsScheduled(p) =>
           Passes(p, f, "del_meta")
    BY StatementPasses DEF RemovalLabels
  <1>4. ListsSpec /\ []NeverBlocked /\ ListsScheduled(p) =>
           Passes(p, f, "del_row")
    BY StatementPasses DEF RemovalLabels
  <1>5. QED
    BY <1>1, <1>2, <1>3, <1>4, PTL DEF Passes

LEMMA BytesTaken ==
  ASSUME Faults = {}, NEW p \in Proc, NEW f \in File
  PROVE  ListsSpec /\ []NeverBlocked /\ ListsScheduled(p) =>
           (TakingBytes(p, f) ~> Removed(f))
  <1>1. Inv /\ TakingBytes(p, f) /\ [ListsNext]_listsVars =>
          TakingBytes(p, f)' \/ Removed(f)'
    BY ListsSteps, BytesNext
  <1>2. Inv /\ TakingBytes(p, f) /\ <<Proceed(p)>>_listsVars => Removed(f)'
    BY ListsSteps, BytesServed
  <1>3. NeverBlocked /\ TakingBytes(p, f) => ENABLED <<Proceed(p)>>_listsVars
    <2>1. TakingBytes(p, f) => pc[p] # "idle"
      BY DEF TakingBytes
    <2>2. QED
      BY <2>1 DEF NeverBlocked
  <1>4. QED
    BY <1>1, <1>2, <1>3, ListsChangeNothing, Invariance, PTL
    DEF ListsSpec, ListsScheduled

(* The same for whoever it is. *)
TakerEnds(p, f) == TakingBytes(p, f) => <>Removed(f)
TakerAlwaysEnds(p, f) == []TakerEnds(p, f)

LEMMA RetiredIsRemoved ==
  ASSUME Faults = {}, NEW f \in File
  PROVE  ListsFairSpec /\ []NeverBlocked => (Retired(f) ~> Removed(f))
  <1>1. ASSUME NEW p \in Proc
        PROVE  ListsFairSpec /\ []NeverBlocked => TakerAlwaysEnds(p, f)
    <2>1. ListsFairSpec => ListsSpec /\ ListsScheduled(p)
      BY DEF ListsFairSpec
    <2>2. QED
      BY <2>1, BytesTaken, PTL DEF TakerAlwaysEnds, TakerEnds
  <1>2. ListsFairSpec /\ []NeverBlocked => \A p \in Proc : TakerAlwaysEnds(p, f)
    BY <1>1
  <1>3. (\A p \in Proc : TakerAlwaysEnds(p, f)) => [](\A p \in Proc : TakerEnds(p, f))
    BY DEF TakerAlwaysEnds
  <1>4. (\A p \in Proc : TakerEnds(p, f)) =>
          ((\E p \in Proc : TakingBytes(p, f)) => <>Removed(f))
    BY DEF TakerEnds
  <1>5. Inv /\ NothingFailed /\ ServiceOf!NoSilentLeak /\ Retired(f) =>
          Removed(f) \/ \E p \in Proc : TakingBytes(p, f)
    BY BytesInHand
  <1>6. ListsFairSpec => Spec
    BY ListsChangeNothing DEF ListsFairSpec
  <1>7. Spec => []NothingFailed
    BY NothingFails
  <1>8. QED
    BY <1>2, <1>3, <1>4, <1>5, <1>6, <1>7, Invariance, StoresKept, PTL

Revoking(p, f) == pc[p] = "ud_revoke" /\ file[p] = f

RemovalCompletes(p, f) == Revoking(p, f) => <>Removed(f)
RemovalAlwaysCompletes(p, f) == []RemovalCompletes(p, f)

(* If nothing fails and goroutines are scheduled, a removal that has passed *)
(* its check ends with no row and no bytes, whatever is shared, read,       *)
(* uploaded, removed and listed meanwhile.                                  *)
THEOREM RemovalsComplete ==
  ASSUME Faults = {}
  PROVE  ListsFairSpec /\ []NeverBlocked => DeleteCompletes
  <1>1. ASSUME NEW f \in File
        PROVE  ListsFairSpec /\ []NeverBlocked =>
                 ((\E p \in Proc : Revoking(p, f)) ~> Removed(f))
    <2>1. ASSUME NEW p \in Proc
          PROVE  ListsFairSpec /\ []NeverBlocked => RemovalAlwaysCompletes(p, f)
      <3>1. ListsFairSpec => ListsSpec /\ ListsScheduled(p)
        BY DEF ListsFairSpec
      <3>2. Inv /\ Revoking(p, f) => RemovingAt(p, f, "ud_revoke")
        BY DEF Inv, PastTheCheck, Revoking, RemovingAt
      <3>3. QED
        BY <3>1, <3>2, RowGoes, RetiredIsRemoved, ListsChangeNothing,
           Invariance, PTL
        DEF RemovalAlwaysCompletes, RemovalCompletes
    <2>2. ListsFairSpec /\ []NeverBlocked =>
            \A p \in Proc : RemovalAlwaysCompletes(p, f)
      BY <2>1
    <2>3. (\A p \in Proc : RemovalAlwaysCompletes(p, f)) =>
            [](\A p \in Proc : RemovalCompletes(p, f))
      BY DEF RemovalAlwaysCompletes
    <2>4. (\A p \in Proc : RemovalCompletes(p, f)) =>
            ((\E p \in Proc : Revoking(p, f)) => <>Removed(f))
      BY DEF RemovalCompletes
    <2>5. QED
      BY <2>2, <2>3, <2>4, PTL
  <1>2. QED
    BY <1>1 DEF DeleteCompletes, Revoking, Removed

-------------------------------------------------------------------------------
(* The statements of a request by how far they are from its answer, or from *)
(* where an upload takes up the next part of its body.                      *)

Busy(p) == pc[p] # "idle"

Stage(n) ==
  CASE n = 0 -> {"idle", "up_open"}
    [] n = 1 -> Statuses
    [] n = 2 -> Svc!Outcomes \cup {"up_exists"}
    [] n = 3 -> {"get_blob", "del_blob", "save_undo", "sh_grant", "rv_delete"}
    [] n = 4 -> {"del_row", "save_insert", "gs_access", "rv_meta"}
    [] n = 5 -> {"del_meta", "save_write", "get_meta", "name_at"}
    [] n = 6 -> {"ud_revoke", "save_create", "name", "gs_meta"}
    [] OTHER -> {"ud_meta", "sh_meta"}

AtStage(p, n) == pc[p] \in Stage(n)
Past(p, n) == \E m \in 0..(n - 1) : AtStage(p, m)

(* Where a request goes from each of its statements. *)
Onwards(l) ==
  CASE l \in Statuses      -> {"idle"}
    [] l \in Svc!Outcomes  -> Statuses \cup {"up_open"}
    [] l = "up_exists"     -> {"up_open", "500"}
    [] l = "up_open"       -> {"save_create", "500"}
    [] l = "save_create"   -> {"save_write", "err"}
    [] l = "save_write"    -> {"save_insert", "err"}
    [] l = "save_insert"   -> {"save_undo", "ok"}
    [] l \in {"save_undo", "get_blob", "del_blob"} -> Svc!Outcomes
    [] l = "get_meta"      -> {"get_blob"} \cup Svc!Outcomes
    [] l = "del_meta"      -> {"del_row"} \cup Svc!Outcomes
    [] l = "del_row"       -> {"del_blob", "err"}
    [] l = "gs_meta"       -> {"gs_access", "get_blob"} \cup Statuses
    [] l = "gs_access"     -> {"get_blob"} \cup Statuses
    [] l = "ud_meta"       -> {"ud_revoke"} \cup Statuses
    [] l = "ud_revoke"     -> {"del_meta", "500"}
    [] l = "sh_meta"       -> {"name"} \cup Statuses
    [] l = "name"          -> {"name_at", "sh_grant", "rv_meta"} \cup Statuses
    [] l = "name_at"       -> {"sh_grant", "rv_meta"} \cup Statuses
    [] l = "rv_meta"       -> {"rv_delete"} \cup Statuses
    [] OTHER               -> Statuses

LEMMA ServiceOnwards ==
  ASSUME Inv, NEW p \in Proc, ServiceStep(p)
  PROVE  pc'[p] \in Onwards(pc[p])
  <1>0. TypeOK
    BY DEF Inv
  <1>1. CASE Svc!SaveStep(p)
    BY <1>0, <1>1
    DEF TypeOK, Onwards, Svc!SaveStep, Svc!SaveCreate, Svc!SaveCreateFails,
        Svc!SaveWrite, Svc!SaveWriteFails, Svc!SaveInsert, Svc!SaveInsertFails,
        Svc!SaveInsertUnacked, Svc!SaveUndo, Svc!SaveUndoFails
  <1>2. CASE Svc!GetStep(p)
    BY <1>0, <1>2
    DEF TypeOK, Onwards, Svc!GetStep, Svc!GetMeta, Svc!GetBlob,
        Svc!GetBlobFails, Svc!MetaFails, Svc!OwnerCheck
  <1>3. CASE Svc!DeleteStep(p)
    BY <1>0, <1>3
    DEF TypeOK, Onwards, Svc!DeleteStep, Svc!DeleteMeta, Svc!MetaFails,
        Svc!DeleteRow, Svc!DeleteRowFails, Svc!DeleteRowUnacked,
        Svc!DeleteBlob, Svc!DeleteBlobMissing, Svc!DeleteBlobFails,
        Svc!OwnerCheck
  <1>4. QED
    BY <1>1, <1>2, <1>3 DEF ServiceStep

LEMMA ServeOnwards ==
  ASSUME Inv, NEW p \in Proc, Serve(p)
  PROVE  pc'[p] \in Onwards(pc[p])
  <1>0. pc \in [Proc -> Svc!SvcLabels \cup UseCaseLabels \cup {"idle"}]
    BY DEF Inv, TypeOK
  <1> USE <1>0 DEF Onwards
  <1>1. CASE UploadExists(p)
    BY <1>1 DEF UploadExists
  <1>2. CASE UploadOpenFails(p) \/ \E f \in File : UploadOpen(p, f)
    BY <1>2 DEF UploadOpenFails, UploadOpen
  <1>3. CASE UploadNext(p)
    BY <1>3 DEF UploadNext
  <1>4. CASE SharedMeta(p)
    BY <1>4 DEF SharedMeta, MetaCheck
  <1>5. CASE SharedAccess(p)
    BY <1>5 DEF SharedAccess
  <1>6. CASE DeleteCheck(p)
    BY <1>6 DEF DeleteCheck, MetaCheck
  <1>7. CASE DeleteRevokeAll(p)
    BY <1>7 DEF DeleteRevokeAll, Write
  <1>8. CASE ShareCheck(p)
    BY <1>8 DEF ShareCheck, MetaCheck
  <1>9. CASE LookUp(p)
    BY <1>9 DEF LookUp, Found
  <1>10. CASE LookUpAt(p)
    BY <1>10 DEF LookUpAt, Found
  <1>11. CASE ShareGrant(p) \/ ShareGrantOrphan(p)
    BY <1>11 DEF ShareGrant, ShareGrantOrphan, Write
  <1>12. CASE RevokeCheck(p)
    BY <1>12 DEF RevokeCheck, MetaCheck
  <1>13. CASE RevokeDelete(p)
    BY <1>13 DEF RevokeDelete, Write
  <1>14. CASE QueryFails(p)
    BY <1>14 DEF QueryFails
  <1>15. CASE Answer(p)
    BY <1>15 DEF Answer, Status
  <1>16. CASE Respond(p)
    BY <1>16 DEF Respond
  <1>17. QED
    BY <1>1, <1>2, <1>3, <1>4, <1>5, <1>6, <1>7, <1>8, <1>9, <1>10, <1>11,
       <1>12, <1>13, <1>14, <1>15, <1>16, ServiceOnwards
    DEF Serve

(* A request comes closer with each of its statements. *)
LEMMA ServeDescends ==
  ASSUME Inv, NEW p \in Proc, NEW n \in 1..7, AtStage(p, n), Serve(p)
  PROVE  Past(p, n)'
  <1>1. pc[p] \in Stage(n) /\ pc'[p] \in Onwards(pc[p])
    BY ServeOnwards DEF AtStage
  <1>2. SUFFICES \E m \in 0..6 : m < n /\ pc'[p] \in Stage(m)
    BY DEF Past, AtStage
  <1>3. CASE n = 1
    BY <1>1, <1>3 DEF Stage, Onwards
  <1>4. CASE n = 2
    BY <1>1, <1>4 DEF Stage, Onwards
  <1>5. CASE n = 3
    BY <1>1, <1>5 DEF Stage, Onwards
  <1>6. CASE n = 4
    BY <1>1, <1>6 DEF Stage, Onwards
  <1>7. CASE n = 5
    BY <1>1, <1>7 DEF Stage, Onwards
  <1>8. CASE n = 6
    BY <1>1, <1>8 DEF Stage, Onwards
  <1>9. CASE n = 7
    BY <1>1, <1>9 DEF Stage, Onwards
  <1>10. QED
    BY <1>3, <1>4, <1>5, <1>6, <1>7, <1>8, <1>9

(* The steps of others do not touch it, and a crash ends it. *)
LEMMA StepsOfOthers ==
  ASSUME Inv, [Next]_vars, NEW p \in Proc, Busy(p)
  PROVE  Serve(p) \/ pc'[p] \in {pc[p], "idle"}
  <1>0. TypeOK /\ ServiceOf!Inv
    BY DEF Inv
  <1>1. ASSUME Crash PROVE pc'[p] = "idle"
    BY <1>1 DEF Crash, Svc!Crash
  <1>2. ASSUME NEW q \in Proc, Request(q) PROVE q # p
    BY <1>2
    DEF Busy, Request, Begin, BeginUpload, BeginDownload, BeginShared,
        BeginDelete, BeginShare, BeginRevoke, BeginRevokeUser
  <1>3. QED
    BY <1>0, <1>1, <1>2, Others DEF Next, Step, Register, Rename

LEMMA StageNext ==
  ASSUME Inv, [Next]_vars, NEW p \in Proc, NEW n \in 1..7, AtStage(p, n)
  PROVE  AtStage(p, n)' \/ Past(p, n)'
  <1>1. Busy(p)
    BY DEF AtStage, Stage, Busy
  <1>2. CASE pc'[p] = "idle"
    BY <1>2 DEF Past, AtStage, Stage
  <1>3. CASE pc'[p] = pc[p]
    BY <1>3 DEF AtStage
  <1>4. QED
    BY <1>1, <1>2, <1>3, StepsOfOthers, ServeDescends

(* One statement after the other, as far as nothing is left to repeat. *)
LEMMA StageEnds ==
  ASSUME NEW p \in Proc, NEW n \in 1..7
  PROVE  ListsSpec /\ []NeverBlocked /\ ListsScheduled(p) =>
           (AtStage(p, n) ~> Past(p, n))
  <1>1. Inv /\ AtStage(p, n) /\ [ListsNext]_listsVars => AtStage(p, n)' \/ Past(p, n)'
    BY ListsSteps, StageNext
  <1>2. Inv /\ AtStage(p, n) /\ <<Proceed(p)>>_listsVars => Past(p, n)'
    BY ListsSteps, ServeDescends
  <1>3. NeverBlocked /\ AtStage(p, n) => ENABLED <<Proceed(p)>>_listsVars
    <2>1. AtStage(p, n) => Busy(p)
      BY DEF AtStage, Stage, Busy
    <2>2. QED
      BY <2>1 DEF NeverBlocked, Busy
  <1>4. QED
    BY <1>1, <1>2, <1>3, ListsChangeNothing, Invariance, PTL
    DEF ListsSpec, ListsScheduled

Rests(p, n) == Past(p, n) ~> AtStage(p, 0)

LEMMA OneStageDown ==
  ASSUME NEW p \in Proc, NEW n \in 1..7
  PROVE  ListsSpec /\ []NeverBlocked /\ ListsScheduled(p) =>
           (Rests(p, n) => Rests(p, n + 1))
  <1>1. Past(p, n + 1) => Past(p, n) \/ AtStage(p, n)
    BY DEF Past
  <1>2. ListsSpec /\ []NeverBlocked /\ ListsScheduled(p) =>
          (AtStage(p, n) ~> Past(p, n))
    BY StageEnds
  <1>3. QED
    BY <1>1, <1>2, PTL DEF Rests

LEMMA ComesToRest ==
  ASSUME NEW p \in Proc
  PROVE  ListsSpec /\ []NeverBlocked /\ ListsScheduled(p) => []<>AtStage(p, 0)
  <1>1. Past(p, 1) => AtStage(p, 0)
    BY DEF Past
  <1>2. Rests(p, 1)
    BY <1>1, PTL DEF Rests
  <1>3. ListsSpec /\ []NeverBlocked /\ ListsScheduled(p) => Rests(p, 8)
    BY <1>2, OneStageDown
  <1>4. Inv => Past(p, 8)
    <2>1. ASSUME Inv PROVE \E m \in 0..7 : pc[p] \in Stage(m)
      <3>1. pc[p] \in Svc!SvcLabels \cup UseCaseLabels \cup {"idle"}
        BY <2>1 DEF Inv, TypeOK
      <3>2. QED
        BY <3>1 DEF UseCaseLabels, Stage
    <2>2. QED
      BY <2>1 DEF Past, AtStage
  <1>5. QED
    BY <1>3, <1>4, ListsChangeNothing, Invariance, PTL DEF Rests

(* If goroutines are scheduled and no request is blocked, each is answered  *)
(* or comes to the next part of its upload, again and again, whatever fails *)
(* and whatever is shared, removed and listed meanwhile.                    *)
THEOREM RequestsProceed ==
  ListsFairSpec /\ []NeverBlocked =>
    \A p \in Proc : []<>(pc[p] \in {"idle", "up_open"})
  <1>1. ASSUME NEW p \in Proc
        PROVE  ListsFairSpec /\ []NeverBlocked =>
                 []<>(pc[p] \in {"idle", "up_open"})
    <2>1. ListsFairSpec => ListsSpec /\ ListsScheduled(p)
      BY DEF ListsFairSpec
    <2>2. AtStage(p, 0) => pc[p] \in {"idle", "up_open"}
      BY DEF AtStage, Stage
    <2>3. QED
      BY <2>1, <2>2, ComesToRest, PTL
  <1>2. QED
    BY <1>1

-------------------------------------------------------------------------------
(* An upload takes up each part of its body once.                           *)

(* The parts that are left only become fewer. *)
LEMMA LeftNext ==
  ASSUME Inv, [Next]_vars, NEW p \in Proc, Busy(p)
  PROVE  Left(p)' \subseteq Left(p)
  <1>1. CASE UNCHANGED vars
    BY <1>1 DEF Left
  <1>2. CASE Next
    <2>1. used \subseteq used'
      BY <1>2, UsedNext DEF UploadOpen
    <2>2. batch'[p] \in {batch[p], {}}
      <3>1. ASSUME NEW q \in Proc, NEW u \in User, NEW B \in SUBSET File,
                   BeginUpload(q, u, B)
            PROVE  batch'[p] = batch[p]
        BY <3>1 DEF BeginUpload, Begin, Busy, Inv, TypeOK
      <3>2. QED
        BY <1>2, <3>1, BatchNext
    <2>3. QED
      BY <2>1, <2>2 DEF Left
  <1>3. QED
    BY <1>1, <1>2

(* At the next part, one is taken up, or the request is answered. *)
LEMMA PartTaken ==
  ASSUME Inv, NEW p \in Proc, pc[p] = "up_open", Serve(p)
  PROVE  \/ pc'[p] = "500"
         \/ \E f \in Left(p) : Left(p)' = Left(p) \ {f}
  <1>1. UploadOpenFails(p) \/ \E f \in File : UploadOpen(p, f)
    BY DEF Serve, UploadExists, UploadNext, SharedMeta, SharedAccess, DeleteCheck,
           DeleteRevokeAll, ShareCheck, LookUp, LookUpAt, ShareGrant,
           ShareGrantOrphan, RevokeCheck, RevokeDelete, QueryFails, Queries,
           Writes, Answer, Respond, ServiceStep, Svc!SaveStep, Svc!SaveCreate,
           Svc!SaveCreateFails, Svc!SaveWrite, Svc!SaveWriteFails,
           Svc!SaveInsert, Svc!SaveInsertFails, Svc!SaveInsertUnacked,
           Svc!SaveUndo, Svc!SaveUndoFails, Svc!GetStep, Svc!GetMeta,
           Svc!GetBlob, Svc!GetBlobFails, Svc!DeleteStep, Svc!DeleteMeta,
           Svc!MetaFails, Svc!DeleteRow, Svc!DeleteRowFails,
           Svc!DeleteRowUnacked, Svc!DeleteBlob, Svc!DeleteBlobMissing,
           Svc!DeleteBlobFails
  <1>2. CASE UploadOpenFails(p)
    BY <1>2 DEF UploadOpenFails, Inv, TypeOK
  <1>3. ASSUME NEW f \in File, UploadOpen(p, f)
        PROVE  f \in Left(p) /\ Left(p)' = Left(p) \ {f}
    BY <1>3 DEF UploadOpen, Left
  <1>4. QED
    BY <1>1, <1>2, <1>3

(* The status of the answer is written, and the goroutine is free. *)
Answering(p) == pc[p] \in Statuses
Free(p) == pc[p] = "idle"

LEMMA AnswerEnds ==
  ASSUME NEW p \in Proc
  PROVE  ListsSpec /\ []NeverBlocked /\ ListsScheduled(p) =>
           (Answering(p) ~> Free(p))
  <1>1. Inv /\ Answering(p) /\ <<Proceed(p)>>_listsVars => Free(p)'
    <2> SUFFICES ASSUME Inv, Answering(p), Serve(p) PROVE Free(p)'
      BY ListsSteps
    <2>1. pc'[p] \in Onwards(pc[p])
      BY ServeOnwards
    <2>2. QED
      BY <2>1 DEF Answering, Free, Onwards
  <1>2. Inv /\ Answering(p) /\ [ListsNext]_listsVars => Answering(p)' \/ Free(p)'
    <2> SUFFICES ASSUME Inv, Answering(p), [Next]_vars
                 PROVE  Answering(p)' \/ Free(p)'
      BY ListsSteps
    <2>1. CASE Serve(p)
      BY <2>1, ServeOnwards DEF Answering, Free, Onwards
    <2>2. QED
      BY <2>1, StepsOfOthers DEF Answering, Free, Busy
  <1>3. NeverBlocked /\ Answering(p) => ENABLED <<Proceed(p)>>_listsVars
    <2>1. Answering(p) => pc[p] # "idle"
      BY DEF Answering
    <2>2. QED
      BY <2>1 DEF NeverBlocked
  <1>4. QED
    BY <1>1, <1>2, <1>3, ListsChangeNothing, Invariance, PTL
    DEF ListsSpec, ListsScheduled

(* At most k parts are left. *)
Few(p, k) ==
  \E h \in [1..k -> File \cup {NoFile}] : \A f \in Left(p) : \E i \in 1..k : h[i] = f

Has(p, k) == Busy(p) /\ Few(p, k)
HasFewer(p, k) == k # 0 /\ Has(p, k - 1)
AtNext(p, k) == Has(p, k) /\ pc[p] = "up_open"

(* A set of k parts without one of them is one of k - 1. *)
LEMMA OneLessLeft ==
  ASSUME Inv, NEW p \in Proc, NEW k \in Nat, Few(p, k), NEW f \in Left(p),
         Left(p)' = Left(p) \ {f}
  PROVE  k # 0 /\ Few(p, k - 1)'
  <1>1. PICK h \in [1..k -> File \cup {NoFile}] :
          \A g \in Left(p) : \E i \in 1..k : h[i] = g
    BY DEF Few
  <1>2. PICK j \in 1..k : h[j] = f
    BY <1>1
  <1> DEFINE r == [i \in 1..(k - 1) |-> IF i = j THEN h[k] ELSE h[i]]
  <1>3. r \in [1..(k - 1) -> File \cup {NoFile}]
    BY <1>1
  <1>4. ASSUME NEW g \in Left(p) \ {f} PROVE \E i \in 1..(k - 1) : r[i] = g
    <2>1. PICK i \in 1..k : h[i] = g
      BY <1>1, <1>4
    <2>2. i # j
      BY <1>2, <1>4, <2>1
    <2>3. CASE i = k
      <3>1. j \in 1..(k - 1) /\ r[j] = g
        BY <2>1, <2>2, <2>3
      <3>2. QED
        BY <3>1
    <2>4. CASE i # k
      <3>1. i \in 1..(k - 1) /\ r[i] = g
        BY <2>1, <2>2, <2>4
      <3>2. QED
        BY <3>1
    <2>5. QED
      BY <2>3, <2>4
  <1> HIDE DEF r
  <1>5. \A g \in Left(p)' : \E i \in 1..(k - 1) : r[i] = g
    BY <1>4
  <1>6. QED
    BY <1>2, <1>3, <1>5 DEF Few

LEMMA HasNext ==
  ASSUME Inv, [Next]_vars, NEW p \in Proc, NEW k \in Nat, Has(p, k)
  PROVE  Has(p, k)' \/ Free(p)'
  <1>1. Left(p)' \subseteq Left(p)
    BY LeftNext DEF Has
  <1>2. Few(p, k)'
    BY <1>1 DEF Has, Few
  <1>3. QED
    BY <1>2 DEF Has, Busy, Free

LEMMA NextServed ==
  ASSUME Inv, NEW p \in Proc, NEW k \in Nat, AtNext(p, k), Serve(p)
  PROVE  Answering(p)' \/ HasFewer(p, k)'
  <1>1. CASE pc'[p] = "500"
    BY <1>1 DEF Answering
  <1>2. ASSUME NEW f \in Left(p), Left(p)' = Left(p) \ {f}
        PROVE  Answering(p)' \/ HasFewer(p, k)'
    <2>1. k # 0 /\ Few(p, k - 1)'
      BY <1>2, OneLessLeft DEF AtNext, Has
    <2>2. pc'[p] # "idle"
      BY ServeOnwards DEF AtNext, Onwards
    <2>3. QED
      BY <2>1, <2>2 DEF HasFewer, Has, Busy
  <1>3. QED
    BY <1>1, <1>2, PartTaken DEF AtNext

LEMMA AtNextNext ==
  ASSUME Inv, [Next]_vars, NEW p \in Proc, NEW k \in Nat, AtNext(p, k)
  PROVE  AtNext(p, k)' \/ Free(p)' \/ Answering(p)' \/ HasFewer(p, k)'
  <1>1. CASE Serve(p)
    BY <1>1, NextServed
  <1>2. CASE pc'[p] \in {pc[p], "idle"}
    BY <1>2, HasNext DEF AtNext, Free
  <1>3. QED
    BY <1>1, <1>2, StepsOfOthers DEF AtNext, Has

Lessens(p, k) == Has(p, k) ~> Free(p) \/ HasFewer(p, k)

LEMMA PartEnds ==
  ASSUME NEW p \in Proc, NEW k \in Nat
  PROVE  ListsSpec /\ []NeverBlocked /\ ListsScheduled(p) => Lessens(p, k)
  <1>1. Inv /\ Has(p, k) /\ [ListsNext]_listsVars => Has(p, k)' \/ Free(p)'
    BY ListsSteps, HasNext
  <1>2. Has(p, k) /\ AtStage(p, 0) => AtNext(p, k)
    BY DEF Has, Busy, AtStage, Stage, AtNext
  <1>3. Inv /\ AtNext(p, k) /\ [ListsNext]_listsVars =>
          AtNext(p, k)' \/ Free(p)' \/ Answering(p)' \/ HasFewer(p, k)'
    BY ListsSteps, AtNextNext
  <1>4. Inv /\ AtNext(p, k) /\ <<Proceed(p)>>_listsVars =>
          Answering(p)' \/ HasFewer(p, k)'
    BY ListsSteps, NextServed
  <1>5. NeverBlocked /\ AtNext(p, k) => ENABLED <<Proceed(p)>>_listsVars
    <2>1. AtNext(p, k) => pc[p] # "idle"
      BY DEF AtNext
    <2>2. QED
      BY <2>1 DEF NeverBlocked
  <1>6. QED
    BY <1>1, <1>2, <1>3, <1>4, <1>5, ComesToRest, AnswerEnds,
       ListsChangeNothing, Invariance, PTL
    DEF ListsSpec, ListsScheduled, Lessens

Ends(p, k) == Has(p, k) ~> Free(p)

LEMMA OnePartMore ==
  ASSUME NEW p \in Proc, NEW k \in Nat
  PROVE  ListsSpec /\ []NeverBlocked /\ ListsScheduled(p) =>
           (Ends(p, k) => Ends(p, k + 1))
  <1>1. HasFewer(p, k + 1) => Has(p, k)
    BY DEF HasFewer
  <1>2. ListsSpec /\ []NeverBlocked /\ ListsScheduled(p) => Lessens(p, k + 1)
    BY PartEnds
  <1>3. QED
    BY <1>1, <1>2, PTL DEF Ends, Lessens

LEMMA LastPart ==
  ASSUME NEW p \in Proc
  PROVE  ListsSpec /\ []NeverBlocked /\ ListsScheduled(p) => Ends(p, 0)
  <1>1. ~HasFewer(p, 0)
    BY DEF HasFewer
  <1>2. ListsSpec /\ []NeverBlocked /\ ListsScheduled(p) => Lessens(p, 0)
    BY PartEnds
  <1>3. QED
    BY <1>1, <1>2, PTL DEF Ends, Lessens

(* Every request but an upload with parts left in its body is answered, if  *)
(* goroutines are scheduled and no request is blocked, whatever fails.      *)
THEOREM RequestsAnswered ==
  ListsFairSpec /\ []NeverBlocked =>
    \A p \in Proc : (pc[p] # "idle" /\ Left(p) = {}) ~> pc[p] = "idle"
  <1>1. ASSUME NEW p \in Proc
        PROVE  ListsFairSpec /\ []NeverBlocked =>
                 ((pc[p] # "idle" /\ Left(p) = {}) ~> pc[p] = "idle")
    <2>1. ListsFairSpec => ListsSpec /\ ListsScheduled(p)
      BY DEF ListsFairSpec
    <2>2. pc[p] # "idle" /\ Left(p) = {} => Has(p, 0)
      <3>1. Left(p) = {} => Few(p, 0)
        <4>1. [i \in 1..0 |-> NoFile] \in [1..0 -> File \cup {NoFile}]
          OBVIOUS
        <4>2. QED
          BY <4>1 DEF Few
      <3>2. QED
        BY <3>1 DEF Has, Busy
    <2>3. QED
      BY <2>1, <2>2, LastPart, PTL DEF Ends, Free
  <1>2. QED
    BY <1>1

-------------------------------------------------------------------------------
(* The parts of a body.                                                     *)

BatchesBounded == \A p \in Proc : Cardinality(batch[p]) <= MaxBatch

LEMMA BatchesStayBounded == Spec => []BatchesBounded
  <1>1. Cardinality({}) = 0 /\ 0 <= MaxBatch
    BY FS_EmptySet, UseCaseAssumption
  <1>2. Init => BatchesBounded
    BY <1>1 DEF Init, BatchesBounded
  <1>3. Inv /\ BatchesBounded /\ [Next]_vars => BatchesBounded'
    <2> SUFFICES ASSUME Inv, BatchesBounded, [Next]_vars, NEW p \in Proc
                 PROVE  Cardinality(batch'[p]) <= MaxBatch
      BY DEF BatchesBounded
    <2>1. CASE batch'[p] \in {batch[p], {}}
      BY <1>1, <2>1 DEF BatchesBounded
    <2>2. ASSUME NEW q \in Proc, NEW u \in User, NEW B \in SUBSET File,
                 BeginUpload(q, u, B)
          PROVE  Cardinality(batch'[p]) <= MaxBatch
      <3>1. batch'[p] \in {batch[p], B} /\ Cardinality(B) <= MaxBatch
        BY <2>2 DEF BeginUpload, Inv, TypeOK
      <3>2. QED
        BY <3>1 DEF BatchesBounded
    <2>3. QED
      BY <2>1, <2>2, BatchNext
  <1>4. QED
    BY <1>2, <1>3, Invariance, PTL DEF Spec

LEMMA FewAtFirst ==
  ASSUME IsFiniteSet(File), Inv, BatchesBounded, NEW p \in Proc
  PROVE  Few(p, MaxBatch)
  <1>1. batch[p] \in SUBSET File /\ Cardinality(batch[p]) <= MaxBatch /\ MaxBatch \in Nat
    BY UseCaseAssumption DEF Inv, TypeOK, BatchesBounded
  <1> DEFINE n == Cardinality(batch[p])
  <1>2. n \in Nat /\ ExistsBijection(1..n, batch[p])
    BY <1>1, FS_Subset, FS_CardinalityType
  <1>3. PICK b \in [1..n -> batch[p]] : \A f \in batch[p] : \E i \in 1..n : b[i] = f
    BY <1>2 DEF ExistsBijection, Bijection, Surjection
  <1> HIDE DEF n
  <1> DEFINE h == [i \in 1..MaxBatch |-> IF i \in 1..n THEN b[i] ELSE NoFile]
  <1>4. h \in [1..MaxBatch -> File \cup {NoFile}]
    BY <1>1, <1>3
  <1>5. ASSUME NEW f \in Left(p) PROVE \E i \in 1..MaxBatch : h[i] = f
    <2>1. PICK i \in 1..n : b[i] = f
      BY <1>3 DEF Left
    <2>2. i \in 1..MaxBatch
      BY <1>1, <1>2 DEF n
    <2>3. QED
      BY <2>1, <2>2
  <1>6. QED
    BY <1>4, <1>5 DEF Few

(* Uploads are answered, too.  OnePartMore is the step from k parts to one  *)
(* more, for every k; as there is no induction over temporal formulas here, *)
(* it is taken as often as is written out, for bodies of up to eight parts. *)
THEOREM RequestsAreAnswered ==
  ASSUME IsFiniteSet(File), MaxBatch \in 1..8
  PROVE  ListsFairSpec /\ []NeverBlocked => RequestsEnd
  <1>1. ASSUME NEW p \in Proc
        PROVE  ListsFairSpec /\ []NeverBlocked => []<>(pc[p] = "idle")
    <2>1. ListsFairSpec => ListsSpec /\ ListsScheduled(p)
      BY DEF ListsFairSpec
    <2>2. ListsSpec /\ []NeverBlocked /\ ListsScheduled(p) => Ends(p, MaxBatch)
      <3>1. \A k \in Nat : ListsSpec /\ []NeverBlocked /\ ListsScheduled(p) =>
                            (Ends(p, k) => Ends(p, k + 1))
        BY OnePartMore
      <3>2. ListsSpec /\ []NeverBlocked /\ ListsScheduled(p) => Ends(p, 0)
        BY LastPart
      <3>3. QED
        BY <3>1, <3>2
    <2>3. Inv /\ BatchesBounded => Few(p, MaxBatch)
      BY FewAtFirst
    <2>4. Few(p, MaxBatch) => Has(p, MaxBatch) \/ Free(p)
      BY DEF Has, Busy, Free
    <2>5. Free(p) => pc[p] = "idle"
      BY DEF Free
    <2>6. QED
      BY <2>1, <2>2, <2>3, <2>4, <2>5, BatchesStayBounded, Invariance,
         ListsChangeNothing, PTL
      DEF Ends
  <1>2. QED
    BY <1>1 DEF RequestsEnd
===============================================================================
