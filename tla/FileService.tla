------------------------------ MODULE FileService ------------------------------
(***************************************************************************)
(* internal/files/service.go over internal/filestore/local and the files   *)
(* table (internal/files/postgres_repository.go).                          *)
(*                                                                         *)
(* The service keeps the bytes of a file in a directory and its metadata   *)
(* in Postgres; no transaction spans the two.  Every handler goroutine p   *)
(* runs one service call at a time, one system call or SQL statement per   *)
(* step, and any other goroutine may run between two steps.  pc[p] names   *)
(* the statement p is about to execute, or the outcome it returns.         *)
(*                                                                         *)
(* Faults is the set of failures the environment is allowed to show:       *)
(*   "query"  a statement returns an error and has had no effect           *)
(*   "ack"    a statement returns an error although it has taken effect    *)
(*            (the context ends, or the connection drops, after COMMIT)    *)
(*   "disk"   a file system call returns an error                          *)
(*   "crash"  the process stops, all goroutines with it, and is restarted  *)
(*                                                                         *)
(* The contents of a file are abstracted to what the store holds of them.  *)
(***************************************************************************)
CONSTANTS
  Proc,     \* handler goroutines
  User,     \* account ids
  File,     \* the ids uuid.NewString() will produce: bounds the uploads
  NoUser,   \* the owner of an id that has no row
  NoFile,   \* the file of a goroutine that has none
  Faults    \* the failures that can happen

FaultKinds == {"query", "ack", "disk", "crash"}

ASSUME FileServiceAssumption ==
  /\ NoUser \notin User
  /\ NoFile \notin File
  /\ Faults \subseteq FaultKinds

VARIABLES
  blobs,    \* the data directory: "absent", "partial" or "full" for each id
  rows,     \* the files table: the owner_id of each id, NoUser without a row
  used,     \* ids generated so far
  pc,       \* next statement, or outcome, of each goroutine
  user,     \* ownerID of the call a goroutine runs
  file,     \* id of the call a goroutine runs
  acked,    \* history: ids that a Save returned without an error
  torn,     \* history: ids whose INSERT was committed but reported as failed
  gone,     \* history: ids that a DeleteForOwner returned without an error
  leaked    \* history: ids whose bytes were given up on by a failing step

store == <<blobs, rows, used>>
call == <<pc, user, file>>
history == <<acked, torn, gone, leaked>>
svcVars == <<blobs, rows, used, pc, user, file, acked, torn, gone, leaked>>

SaveLabels == {"save_create", "save_write", "save_insert", "save_undo"}
GetLabels == {"get_meta", "get_blob"}
DeleteLabels == {"del_meta", "del_row", "del_blob"}
Outcomes == {"ok", "err", "not_found", "forbidden"}
SvcLabels == SaveLabels \cup GetLabels \cup DeleteLabels \cup Outcomes

(* Ids whose INSERT has been committed, acknowledged or not. *)
published == acked \cup torn

(* Statements at which a goroutine alone answers for the bytes of its file. *)
Holding == {"save_write", "save_insert", "save_undo", "del_blob"}

TypeOK ==
  /\ blobs \in [File -> {"absent", "partial", "full"}]
  /\ rows \in [File -> User \cup {NoUser}]
  /\ used \in SUBSET File
  /\ pc \in [Proc -> SvcLabels \cup {"idle"}]
  /\ user \in [Proc -> User \cup {NoUser}]
  /\ file \in [Proc -> File \cup {NoFile}]
  /\ acked \in SUBSET File
  /\ torn \in SUBSET File
  /\ gone \in SUBSET File
  /\ leaked \in SUBSET File

Init ==
  /\ blobs = [f \in File |-> "absent"]
  /\ rows = [f \in File |-> NoUser]
  /\ used = {}
  /\ pc = [p \in Proc |-> "idle"]
  /\ user = [p \in Proc |-> NoUser]
  /\ file = [p \in Proc |-> NoFile]
  /\ acked = {} /\ torn = {} /\ gone = {} /\ leaked = {}

Fault(kind) == kind \in Faults

Goto(p, label) == pc' = [pc EXCEPT ![p] = label]

Enter(p, label, u, f) ==
  /\ pc[p] = "idle"
  /\ Goto(p, label)
  /\ user' = [user EXCEPT ![p] = u]
  /\ file' = [file EXCEPT ![p] = f]

Stay == UNCHANGED <<user, file>>

-------------------------------------------------------------------------------
(* Save: create the file, write it, insert the row; undo when that fails.   *)

(* Broken variant: the file is named after its upload, not by a fresh id. *)
CallSaveReusingIds(p, u, f) ==
  /\ used' = used \cup {f}
  /\ Enter(p, "save_create", u, f)
  /\ UNCHANGED <<blobs, rows, history>>

(* The id is drawn first and is never drawn again. *)
CallSave(p, u, f) ==
  /\ f \notin used
  /\ used' = used \cup {f}
  /\ Enter(p, "save_create", u, f)
  /\ UNCHANGED <<blobs, rows, history>>

SaveCreate(p) ==
  /\ pc[p] = "save_create"
  /\ blobs' = [blobs EXCEPT ![file[p]] = "partial"]
  /\ Goto(p, "save_write")
  /\ UNCHANGED <<rows, used, history>> /\ Stay

SaveCreateFails(p) ==
  /\ pc[p] = "save_create" /\ Fault("disk")
  /\ Goto(p, "err")
  /\ UNCHANGED <<store, history>> /\ Stay

SaveWrite(p) ==
  /\ pc[p] = "save_write"
  /\ blobs' = [blobs EXCEPT ![file[p]] = "full"]
  /\ Goto(p, "save_insert")
  /\ UNCHANGED <<rows, used, history>> /\ Stay

(* Broken variant: the error of the write is ignored. *)
SaveWriteFailsIgnored(p) ==
  /\ pc[p] = "save_write" /\ Fault("disk")
  /\ Goto(p, "save_insert")
  /\ UNCHANGED <<store, history>> /\ Stay

(* A short write: Save returns no id, so nobody can remove what is there. *)
SaveWriteFails(p) ==
  /\ pc[p] = "save_write" /\ Fault("disk")
  /\ Goto(p, "err")
  /\ leaked' = leaked \cup {file[p]}
  /\ UNCHANGED <<store, acked, torn, gone>> /\ Stay

SaveInsert(p) ==
  /\ pc[p] = "save_insert"
  /\ rows' = [rows EXCEPT ![file[p]] = user[p]]
  /\ acked' = acked \cup {file[p]}
  /\ Goto(p, "ok")
  /\ UNCHANGED <<blobs, used, torn, gone, leaked>> /\ Stay

(* Broken variant: nothing is undone when the INSERT fails. *)
SaveInsertFailsNoUndo(p) ==
  /\ pc[p] = "save_insert" /\ Fault("query")
  /\ Goto(p, "err")
  /\ UNCHANGED <<store, history>> /\ Stay

SaveInsertFails(p) ==
  /\ pc[p] = "save_insert" /\ Fault("query")
  /\ Goto(p, "save_undo")
  /\ UNCHANGED <<store, history>> /\ Stay

(* The row is committed, but Save sees an error and takes the bytes away. *)
SaveInsertUnacked(p) ==
  /\ pc[p] = "save_insert" /\ Fault("ack")
  /\ rows' = [rows EXCEPT ![file[p]] = user[p]]
  /\ torn' = torn \cup {file[p]}
  /\ Goto(p, "save_undo")
  /\ UNCHANGED <<blobs, used, acked, gone, leaked>> /\ Stay

SaveUndo(p) ==
  /\ pc[p] = "save_undo"
  /\ blobs' = [blobs EXCEPT ![file[p]] = "absent"]
  /\ Goto(p, "err")
  /\ UNCHANGED <<rows, used, history>> /\ Stay

(* The error of the compensating Delete is dropped. *)
SaveUndoFails(p) ==
  /\ pc[p] = "save_undo" /\ Fault("disk")
  /\ Goto(p, "err")
  /\ leaked' = leaked \cup {file[p]}
  /\ UNCHANGED <<store, acked, torn, gone>> /\ Stay

-------------------------------------------------------------------------------
(* GetForOwner: read the row, check the owner, read the bytes.  Get alone   *)
(* is the last step.                                                        *)

(* Any id may be asked for, also one that no file has. *)
CallGetForOwner(p, u, f) ==
  /\ Enter(p, "get_meta", u, f)
  /\ UNCHANGED <<store, history>>

(* Get does not look at the row; its callers have read it before. *)
CallGet(p, u, f) ==
  /\ f \in published
  /\ Enter(p, "get_blob", u, f)
  /\ UNCHANGED <<store, history>>

(* Broken variants: pgx.ErrNoRows is passed on; any user will do. *)
OwnerCheckPassesNoRows(p, next) ==
  CASE rows[file[p]] = NoUser  -> "no_rows"
    [] rows[file[p]] = user[p] -> next
    [] OTHER                   -> "forbidden"

OwnerCheckSkipped(p, next) ==
  IF rows[file[p]] = NoUser THEN "not_found" ELSE next

(* What the row of p's file sends p to: next when p's user is the owner. *)
OwnerCheck(p, next) ==
  CASE rows[file[p]] = NoUser  -> "not_found"
    [] rows[file[p]] = user[p] -> next
    [] OTHER                   -> "forbidden"

GetMeta(p) ==
  /\ pc[p] = "get_meta"
  /\ Goto(p, OwnerCheck(p, "get_blob"))
  /\ UNCHANGED <<store, history>> /\ Stay

GetBlob(p) ==
  /\ pc[p] = "get_blob"
  /\ Goto(p, IF blobs[file[p]] = "absent" THEN "not_found" ELSE "ok")
  /\ UNCHANGED <<store, history>> /\ Stay

GetBlobFails(p) ==
  /\ pc[p] = "get_blob" /\ Fault("disk")
  /\ Goto(p, "err")
  /\ UNCHANGED <<store, history>> /\ Stay

-------------------------------------------------------------------------------
(* DeleteForOwner: read the row, check the owner, delete the row, delete    *)
(* the bytes.                                                               *)

CallDelete(p, u, f) ==
  /\ Enter(p, "del_meta", u, f)
  /\ UNCHANGED <<store, history>>

DeleteMeta(p) ==
  /\ pc[p] = "del_meta"
  /\ Goto(p, OwnerCheck(p, "del_row"))
  /\ UNCHANGED <<store, history>> /\ Stay

(* The GetByID of either call reports an error. *)
MetaFails(p) ==
  /\ pc[p] \in {"get_meta", "del_meta"} /\ Fault("query")
  /\ Goto(p, "err")
  /\ UNCHANGED <<store, history>> /\ Stay

(* DELETE reports no error when another goroutine has taken the row. *)
DeleteRow(p) ==
  /\ pc[p] = "del_row"
  /\ rows' = [rows EXCEPT ![file[p]] = NoUser]
  /\ Goto(p, "del_blob")
  /\ UNCHANGED <<blobs, used, history>> /\ Stay

(* Broken variant: the bytes are taken although the row has stayed. *)
DeleteRowFailsIgnored(p) ==
  /\ pc[p] = "del_row" /\ Fault("query")
  /\ Goto(p, "del_blob")
  /\ UNCHANGED <<store, history>> /\ Stay

DeleteRowFails(p) ==
  /\ pc[p] = "del_row" /\ Fault("query")
  /\ Goto(p, "err")
  /\ UNCHANGED <<store, history>> /\ Stay

(* The row is gone, but the early return leaves the bytes behind. *)
DeleteRowUnacked(p) ==
  /\ pc[p] = "del_row" /\ Fault("ack")
  /\ rows' = [rows EXCEPT ![file[p]] = NoUser]
  /\ leaked' = leaked \cup {file[p]}
  /\ Goto(p, "err")
  /\ UNCHANGED <<blobs, used, acked, torn, gone>> /\ Stay

(* os.Remove, when the bytes are there. *)
DeleteBlob(p) ==
  /\ pc[p] = "del_blob" /\ blobs[file[p]] # "absent"
  /\ blobs' = [blobs EXCEPT ![file[p]] = "absent"]
  /\ gone' = gone \cup {file[p]}
  /\ Goto(p, "ok")
  /\ UNCHANGED <<rows, used, acked, torn, leaked>> /\ Stay

(* Broken variant: a missing file counts as a removed one. *)
DeleteBlobMissingIsFine(p) ==
  /\ pc[p] = "del_blob" /\ blobs[file[p]] = "absent"
  /\ Goto(p, "ok")
  /\ UNCHANGED <<store, history>> /\ Stay

(* os.ErrNotExist becomes ErrNotFound. *)
DeleteBlobMissing(p) ==
  /\ pc[p] = "del_blob" /\ blobs[file[p]] = "absent"
  /\ Goto(p, "not_found")
  /\ UNCHANGED <<store, history>> /\ Stay

(* Broken variant: the error of os.Remove is ignored. *)
DeleteBlobFailsIgnored(p) ==
  /\ pc[p] = "del_blob" /\ Fault("disk")
  /\ gone' = gone \cup {file[p]}
  /\ Goto(p, "ok")
  /\ UNCHANGED <<store, acked, torn, leaked>> /\ Stay

DeleteBlobFails(p) ==
  /\ pc[p] = "del_blob" /\ Fault("disk")
  /\ Goto(p, "err")
  /\ leaked' = leaked \cup {file[p]}
  /\ UNCHANGED <<store, acked, torn, gone>> /\ Stay

-------------------------------------------------------------------------------
Return(p) ==
  /\ pc[p] \in Outcomes
  /\ Goto(p, "idle")
  /\ user' = [user EXCEPT ![p] = NoUser]
  /\ file' = [file EXCEPT ![p] = NoFile]
  /\ UNCHANGED <<store, history>>

(* The directory and the database outlive the process; nothing in the code *)
(* looks at them for unfinished calls when it starts again.                *)
Crash ==
  /\ Fault("crash")
  /\ leaked' = leaked \cup {f \in File : \E p \in Proc :
                              file[p] = f /\ pc[p] \in Holding}
  /\ pc' = [p \in Proc |-> "idle"]
  /\ user' = [p \in Proc |-> NoUser]
  /\ file' = [p \in Proc |-> NoFile]
  /\ UNCHANGED <<store, acked, torn, gone>>

SaveStep(p) ==
  \/ SaveCreate(p) \/ SaveCreateFails(p)
  \/ SaveWrite(p) \/ SaveWriteFails(p)
  \/ SaveInsert(p) \/ SaveInsertFails(p) \/ SaveInsertUnacked(p)
  \/ SaveUndo(p) \/ SaveUndoFails(p)

GetStep(p) == GetMeta(p) \/ GetBlob(p) \/ GetBlobFails(p)

DeleteStep(p) ==
  \/ DeleteMeta(p) \/ MetaFails(p)
  \/ DeleteRow(p) \/ DeleteRowFails(p) \/ DeleteRowUnacked(p)
  \/ DeleteBlob(p) \/ DeleteBlobMissing(p) \/ DeleteBlobFails(p)

Next ==
  \/ \E p \in Proc, u \in User, f \in File :
       \/ CallSave(p, u, f)
       \/ CallGetForOwner(p, u, f)
       \/ CallGet(p, u, f)
       \/ CallDelete(p, u, f)
  \/ \E p \in Proc : SaveStep(p) \/ GetStep(p) \/ DeleteStep(p) \/ Return(p)
  \/ Crash

Spec == Init /\ [][Next]_svcVars

-------------------------------------------------------------------------------
(* Every row whose insertion was acknowledged has its bytes, complete, for *)
(* as long as it lives, whatever fails and in whatever order the calls on  *)
(* the two stores interleave: no goroutine takes the bytes of a row that   *)
(* stays.  Save writes before it inserts, DeleteForOwner removes the row   *)
(* before the bytes and stops when it could not.                           *)
AckedRowHasBytes ==
  \A f \in acked : rows[f] # NoUser => blobs[f] = "full"

(* The one way to a row without bytes is an INSERT that was committed and  *)
(* reported as failed, for Save then undoes the half that it can.          *)
DanglingOnlyIfTorn ==
  \A f \in File : rows[f] # NoUser /\ blobs[f] # "full" => f \in torn

(* Bytes without a row, which no request can ever reach again, stay behind *)
(* only where a step failed or the process stopped, never through the      *)
(* interleaving of calls.                                                  *)
NoSilentLeak ==
  \A f \in File : blobs[f] # "absent" =>
    \/ rows[f] # NoUser
    \/ f \in leaked
    \/ \E p \in Proc : file[p] = f /\ pc[p] \in Holding

(* After a removal was confirmed the file is gone from both stores, and    *)
(* no call that was under way brings either half back.                     *)
RemovalIsFinal ==
  \A f \in gone : rows[f] = NoUser /\ blobs[f] = "absent"

(* A download that succeeds delivers all of the bytes: none is served from *)
(* a file that is still being written or whose write failed.               *)
NoTornRead ==
  [][\A p \in Proc :
       pc[p] = "get_blob" /\ pc'[p] = "ok" => blobs[file[p]] = "full"]_svcVars

(* Of any number of overlapping removals of one file, one is confirmed.    *)
OneRemovalConfirmed ==
  [][\A p \in Proc :
       pc[p] = "del_blob" /\ pc'[p] = "ok" => file[p] \notin gone]_svcVars

-------------------------------------------------------------------------------
(* The inductive invariant behind these properties, in parts.               *)

Running == {p \in Proc : pc[p] # "idle"}

(* An id belongs to one Save; what its statements have done is still there. *)
SavesApart ==
  /\ \A p \in Proc :
       /\ pc[p] = "save_create" => blobs[file[p]] = "absent"
       /\ pc[p] = "save_write"  => blobs[file[p]] = "partial"
       /\ pc[p] = "save_insert" => blobs[file[p]] = "full"
       /\ pc[p] \in {"save_create", "save_write", "save_insert"} =>
            file[p] \in used \ published
       /\ pc[p] = "save_undo" => file[p] \in used \ acked
  /\ \A p, q \in Proc :
       p # q /\ pc[p] \in SaveLabels /\ pc[q] \in SaveLabels =>
         file[p] # file[q]

(* Reads and removals get past the row of published files only; a removal  *)
(* takes the row of its own user, and the bytes when the row is gone.      *)
PastTheRow ==
  \A p \in Proc :
    /\ pc[p] \in {"get_blob", "del_row", "del_blob"} => file[p] \in published
    /\ pc[p] = "del_row" => rows[file[p]] \in {user[p], NoUser}
    /\ pc[p] = "del_blob" => rows[file[p]] = NoUser

(* A row, a publication and a use of an id come in this order. *)
LifeOfAnId ==
  /\ published \subseteq used
  /\ acked \cap torn = {}
  /\ gone \subseteq published
  /\ \A f \in File :
       /\ rows[f] # NoUser => f \in published
       /\ f \notin used => blobs[f] = "absent"
       /\ f \in published => blobs[f] \in {"full", "absent"}

Inv ==
  /\ TypeOK
  /\ \A p \in Running : user[p] \in User /\ file[p] \in File
  /\ SavesApart
  /\ PastTheRow
  /\ LifeOfAnId
  /\ AckedRowHasBytes
  /\ RemovalIsFinal

-------------------------------------------------------------------------------
(* The catalog of FileRegistry is the files table, and a pending removal   *)
(* is a DeleteForOwner that has not returned.                              *)
RequestOf(p) ==
  IF pc[p] \in DeleteLabels THEN {<<user[p], file[p]>>} ELSE {}

RegistryOf == INSTANCE FileRegistry WITH
  catalog <- rows,
  born <- published,
  stored <- acked,
  removed <- gone,
  request <- [p \in Proc |-> RequestOf(p)]

(* The service implements the registry: a file is published at its INSERT  *)
(* and retired at its DELETE, for its owner, once.                         *)
ImplementsRegistry == RegistryOf!Spec
===============================================================================
