----------------------------- MODULE FilesUseCase -----------------------------
(***************************************************************************)
(* internal/usecase/files.go over files.Service, the files_permissions     *)
(* table (internal/fileaccess) and the users table, with the answer that   *)
(* internal/handlers/handlers.go gives to the caller.                      *)
(*                                                                         *)
(* A request runs in a goroutine p of its own.  Each step is one statement *)
(* on a table or one step of the service underneath (FileService), whose   *)
(* goroutines and stores this module shares.  pc[p] is a statement of this *)
(* module, a label of the service, or the status of the answer.            *)
(*                                                                         *)
(* Requests come from authenticated accounts; the checks on empty          *)
(* parameters, which answer before any statement, are left out, and so are *)
(* the lists, which change nothing.                                        *)
(***************************************************************************)
EXTENDS Naturals, FiniteSets

CONSTANTS
  Proc, User, File, NoUser, NoFile, Faults,   \* as in FileService
  Plain,     \* user names without a leading '@'
  NoName,    \* the name of an account that does not exist yet
  Ops,       \* bound: the requests that are made, and "rename"
  MaxRows,   \* bound: MaxRows equal permission rows stand for any more
  MaxBatch   \* bound: files in one multipart upload

VARIABLES
  blobs, rows, used, pc, user, file, acked, torn, gone, leaked,
  names,     \* the users table: the username of each account
  perms,     \* files_permissions: the rows for each file and user_granted
  op,        \* the request a goroutine serves
  typed,     \* the username it was given, until that is looked up
  target,    \* the account to share with or to revoke from
  batch,     \* the ids that its upload draws
  held,      \* history: the user of a read was entitled to it at some moment
  lost       \* history: the user of a read was not entitled at some moment

Svc == INSTANCE FileService

svcVars == <<blobs, rows, used, pc, user, file, acked, torn, gone, leaked>>
files == <<blobs, rows, used, acked, torn, gone, leaked>>
request == <<op, typed, target, batch>>
tables == <<names, perms>>
watch == <<held, lost>>
vars == <<svcVars, request, tables, watch>>

(* The names that strings.HasPrefix(name, "@") holds of. *)
At(n) == <<"@", n>>
Name == Plain \cup {At(n) : n \in Plain}

Reads == {"download", "shared"}
Commands == {"share", "revoke", "delete"}
Operations == Reads \cup Commands \cup {"upload"}

Statuses == {"2xx", "403", "404", "500"}
Queries == {"up_exists", "gs_meta", "gs_access", "ud_meta", "sh_meta",
            "name", "name_at", "rv_meta"}
Writes == {"ud_revoke", "sh_grant", "rv_delete"}
UseCaseLabels == Queries \cup Writes \cup Statuses \cup {"up_open"}

ASSUME UseCaseAssumption ==
  /\ NoUser \notin User /\ NoFile \notin File /\ NoName \notin Name
  /\ Faults \subseteq Svc!FaultKinds
  /\ Ops \subseteq Operations \cup {"rename"}
  /\ MaxRows \in Nat \ {0} /\ MaxBatch \in Nat \ {0}

TypeOK ==
  /\ blobs \in [File -> {"absent", "partial", "full"}]
  /\ rows \in [File -> User \cup {NoUser}]
  /\ used \in SUBSET File
  /\ pc \in [Proc -> Svc!SvcLabels \cup UseCaseLabels \cup {"idle"}]
  /\ user \in [Proc -> User \cup {NoUser}]
  /\ file \in [Proc -> File \cup {NoFile}]
  /\ acked \in SUBSET File /\ torn \in SUBSET File
  /\ gone \in SUBSET File /\ leaked \in SUBSET File
  /\ names \in [User -> Name \cup {NoName}]
  /\ perms \in [File -> [User -> 0..MaxRows]]
  /\ op \in [Proc -> Operations \cup {"none"}]
  /\ typed \in [Proc -> Name \cup {NoName}]
  /\ target \in [Proc -> User \cup {NoUser}]
  /\ batch \in [Proc -> SUBSET File]
  /\ held \in [Proc -> BOOLEAN] /\ lost \in [Proc -> BOOLEAN]

Account(n) == {u \in User : names[u] = n}
NoGrants == [u \in User |-> 0]

Init ==
  /\ Svc!Init
  /\ op = [p \in Proc |-> "none"]
  /\ typed = [p \in Proc |-> NoName]
  /\ target = [p \in Proc |-> NoUser]
  /\ batch = [p \in Proc |-> {}]
  /\ names = [u \in User |-> NoName]
  /\ perms = [f \in File |-> NoGrants]
  /\ held = [p \in Proc |-> FALSE]
  /\ lost = [p \in Proc |-> FALSE]

(* Only pc moves on; in Move nothing else changes at all. *)
Jump(p, label) == Svc!Goto(p, label) /\ UNCHANGED <<user, file, files>>
Move(p, label) == Jump(p, label) /\ UNCHANGED <<request, tables>>

(* A write on perms whose error p may see although it took effect. *)
Write(p, table, label) ==
  /\ perms' = table
  /\ \/ Jump(p, label)
     \/ Svc!Fault("ack") /\ Jump(p, "500")
  /\ UNCHANGED <<request, names>>

(* Where GetByID on p's file leads: a missing row, its owner, anyone else. *)
MetaCheck(p, owner, other) ==
  CASE rows[file[p]] = NoUser  -> "404"
    [] rows[file[p]] = user[p] -> owner
    [] OTHER                   -> other

Begin(p, o, label, u, f) ==
  /\ o \in Ops /\ names[u] # NoName
  /\ Svc!Enter(p, label, u, f)
  /\ op' = [op EXCEPT ![p] = o]
  /\ UNCHANGED <<files, tables>>

(* What registrations and Telegram updates do to users meanwhile. *)
Users == INSTANCE Usernames WITH Marked <- {At(n) : n \in Plain}

Register(u, n) == Users!Register(u, n) /\ UNCHANGED <<svcVars, request, perms>>

(* Broken variant: a '@' is put before a username that has one already. *)
RenameMarkedTwice(u, n) ==
  /\ "rename" \in Ops
  /\ names[u] # NoName /\ Users!Free(At(n))
  /\ names' = [names EXCEPT ![u] = At(n)]
  /\ UNCHANGED <<svcVars, request, perms>>

Rename(u, n) ==
  /\ "rename" \in Ops
  /\ Users!Rename(u, n) /\ UNCHANGED <<svcVars, request, perms>>

-------------------------------------------------------------------------------
(* UploadMultipart: one Save after the other, until one of them fails.      *)

(* B are the ids that uuid.NewString() will return to this request. *)
BeginUpload(p, u, B) ==
  /\ B # {} /\ Cardinality(B) <= MaxBatch
  /\ B \cap (used \cup UNION {batch[q] : q \in Proc}) = {}
  /\ Begin(p, "upload", "up_exists", u, NoFile)
  /\ batch' = [batch EXCEPT ![p] = B]
  /\ UNCHANGED <<typed, target>>

UploadExists(p) ==
  /\ pc[p] = "up_exists"
  /\ Move(p, IF names[user[p]] = NoName THEN "500" ELSE "up_open")

(* Broken variant: the loop does not move on from a part that it has saved. *)
LeftUnmoved(p) == batch[p]

(* The parts of its body that an upload has not handed to Save yet. *)
Left(p) == batch[p] \ used

UploadOpen(p, f) ==
  /\ pc[p] = "up_open" /\ f \in Left(p)
  /\ used' = used \cup {f}
  /\ file' = [file EXCEPT ![p] = f]
  /\ Svc!Goto(p, "save_create")
  /\ UNCHANGED <<blobs, rows, acked, torn, gone, leaked, user>>
  /\ UNCHANGED <<request, tables>>

(* fh.Open or io.ReadAll on the part fails. *)
UploadOpenFails(p) ==
  /\ pc[p] = "up_open" /\ Svc!Fault("disk")
  /\ Move(p, "500")

(* Broken variant: the loop goes on after a failed Save. *)
UploadNextAnyway(p) ==
  /\ op[p] = "upload" /\ pc[p] \in {"ok", "err"} /\ Left(p) # {}
  /\ Svc!Goto(p, "up_open")
  /\ file' = [file EXCEPT ![p] = NoFile]
  /\ UNCHANGED <<user, files, request, tables>>

UploadNext(p) ==
  /\ op[p] = "upload" /\ pc[p] = "ok" /\ Left(p) # {}
  /\ Svc!Goto(p, "up_open")
  /\ file' = [file EXCEPT ![p] = NoFile]
  /\ UNCHANGED <<user, files, request, tables>>

-------------------------------------------------------------------------------
(* GetForOwner is the service's; GetForUser asks the permissions as well.   *)

BeginDownload(p, u, f) ==
  /\ Begin(p, "download", "get_meta", u, f)
  /\ UNCHANGED <<typed, target, batch>>

BeginShared(p, u, f) ==
  /\ Begin(p, "shared", "gs_meta", u, f)
  /\ UNCHANGED <<typed, target, batch>>

(* Broken variant: the owner is looked for among the readers, too. *)
SharedMetaNoOwner(p) ==
  /\ pc[p] = "gs_meta"
  /\ Move(p, MetaCheck(p, "gs_access", "gs_access"))

SharedMeta(p) ==
  /\ pc[p] = "gs_meta"
  /\ Move(p, MetaCheck(p, "get_blob", "gs_access"))

(* Broken variant: it is enough that the file is shared with somebody. *)
SharedAccessAny(p) ==
  /\ pc[p] = "gs_access"
  /\ Move(p, IF perms[file[p]] # NoGrants THEN "get_blob" ELSE "403")

SharedAccess(p) ==
  /\ pc[p] = "gs_access"
  /\ Move(p, IF perms[file[p]][user[p]] > 0 THEN "get_blob" ELSE "403")

-------------------------------------------------------------------------------
(* DeleteForOwner: check, revoke every share, then the service's own.       *)

BeginDelete(p, u, f) ==
  /\ Begin(p, "delete", "ud_meta", u, f)
  /\ UNCHANGED <<typed, target, batch>>

DeleteCheck(p) ==
  /\ pc[p] = "ud_meta"
  /\ Move(p, MetaCheck(p, "ud_revoke", "403"))

(* Broken variant: the service's second look at the row is left out. *)
DeleteRevokeAllThenRow(p) ==
  /\ pc[p] = "ud_revoke"
  /\ Write(p, [perms EXCEPT ![file[p]] = NoGrants], "del_row")

DeleteRevokeAll(p) ==
  /\ pc[p] = "ud_revoke"
  /\ Write(p, [perms EXCEPT ![file[p]] = NoGrants], "del_meta")

-------------------------------------------------------------------------------
(* ShareByUsername: check, look the name up, insert a row.                  *)
(* RevokeShareByUsername: look the name up, then RevokeShare.               *)

BeginShare(p, u, f, n) ==
  /\ Begin(p, "share", "sh_meta", u, f)
  /\ typed' = [typed EXCEPT ![p] = n]
  /\ UNCHANGED <<target, batch>>

BeginRevoke(p, u, f, n) ==
  /\ Begin(p, "revoke", "name", u, f)
  /\ typed' = [typed EXCEPT ![p] = n]
  /\ UNCHANGED <<target, batch>>

(* The bot's "rev:" button names the account by its id. *)
BeginRevokeUser(p, u, f, t) ==
  /\ names[t] # NoName
  /\ Begin(p, "revoke", "rv_meta", u, f)
  /\ target' = [target EXCEPT ![p] = t]
  /\ UNCHANGED <<typed, batch>>

ShareCheck(p) ==
  /\ pc[p] = "sh_meta"
  /\ Move(p, MetaCheck(p, "name", "403"))

(* GetByUsername(n) found t. *)
Found(p, t) ==
  /\ target' = [target EXCEPT ![p] = t]
  /\ typed' = [typed EXCEPT ![p] = NoName]
  /\ Jump(p, IF op[p] = "share" THEN "sh_grant" ELSE "rv_meta")
  /\ UNCHANGED <<op, batch, tables>>

LookUp(p) ==
  /\ pc[p] = "name"
  /\ \/ \E t \in Account(typed[p]) : Found(p, t)
     \/ /\ Account(typed[p]) = {}
        /\ Move(p, IF typed[p] \in Plain THEN "name_at" ELSE "404")

(* The second try, with a '@' in front. *)
LookUpAt(p) ==
  /\ pc[p] = "name_at"
  /\ \/ \E t \in Account(At(typed[p])) : Found(p, t)
     \/ Account(At(typed[p])) = {} /\ Move(p, "404")

(* No UNIQUE constraint: a share that is repeated adds a row. *)
OneMore(n) == IF n < MaxRows THEN n + 1 ELSE n
OneLess(n) == IF n > 0 THEN n - 1 ELSE 0

ShareGrant(p) ==
  /\ pc[p] = "sh_grant" /\ rows[file[p]] # NoUser
  /\ Write(p, [perms EXCEPT ![file[p]][target[p]] = OneMore(@)], "2xx")

(* The file went away after the check: file_id REFERENCES files(id). *)
ShareGrantOrphan(p) ==
  /\ pc[p] = "sh_grant" /\ rows[file[p]] = NoUser
  /\ Move(p, "500")

RevokeCheck(p) ==
  /\ pc[p] = "rv_meta"
  /\ Move(p, MetaCheck(p, "rv_delete", "403"))

(* Broken variant: the row of one grant is deleted, not of all of them. *)
RevokeDeleteOne(p) ==
  /\ pc[p] = "rv_delete"
  /\ Write(p, [perms EXCEPT ![file[p]][target[p]] = OneLess(@)], "2xx")

RevokeDelete(p) ==
  /\ pc[p] = "rv_delete"
  /\ Write(p, [perms EXCEPT ![file[p]][target[p]] = 0], "2xx")

-------------------------------------------------------------------------------
(* What all requests have in common.                                        *)

QueryFails(p) ==
  /\ pc[p] \in Queries \cup Writes /\ Svc!Fault("query")
  /\ Move(p, "500")

(* Broken variant: the permissions of a row that is deleted are left over. *)
CascadeNothing == UNCHANGED perms

(* ON DELETE CASCADE: the permissions go with the row of their file. *)
Cascade ==
  perms' = [f \in File |-> IF rows[f] # NoUser /\ rows'[f] = NoUser
                           THEN NoGrants ELSE perms[f]]

(* Broken variant: without CASCADE, a permission keeps the row in place. *)
ServiceStepRestricted(p) ==
  /\ IF pc[p] = "del_row" /\ perms[file[p]] # NoGrants
     THEN Jump(p, "err")
     ELSE Svc!SaveStep(p) \/ Svc!GetStep(p) \/ Svc!DeleteStep(p)
  /\ Cascade
  /\ UNCHANGED <<request, names>>

(* Broken variant: a removal locks the permissions that are being granted. *)
ServiceStepLocked(p) ==
  /\ pc[p] = "del_row" =>
       \A q \in Proc : pc[q] = "sh_grant" => file[q] # file[p]
  /\ Svc!SaveStep(p) \/ Svc!GetStep(p) \/ Svc!DeleteStep(p)
  /\ Cascade
  /\ UNCHANGED <<request, names>>

ServiceStep(p) ==
  /\ Svc!SaveStep(p) \/ Svc!GetStep(p) \/ Svc!DeleteStep(p)
  /\ Cascade
  /\ UNCHANGED <<request, names>>

Status(outcome) ==
  CASE outcome = "ok"        -> "2xx"
    [] outcome = "forbidden" -> "403"
    [] outcome = "not_found" -> "404"
    [] OTHER                 -> "500"

(* The service has returned for the last time. *)
Answer(p) ==
  /\ pc[p] \in Svc!Outcomes
  /\ ~(op[p] = "upload" /\ pc[p] = "ok" /\ Left(p) # {})
  /\ Move(p, Status(pc[p]))

(* The answer is on its way and the goroutine ends. *)
Respond(p) ==
  /\ pc[p] \in Statuses
  /\ Svc!Goto(p, "idle")
  /\ user' = [user EXCEPT ![p] = NoUser]
  /\ file' = [file EXCEPT ![p] = NoFile]
  /\ op' = [op EXCEPT ![p] = "none"]
  /\ typed' = [typed EXCEPT ![p] = NoName]
  /\ target' = [target EXCEPT ![p] = NoUser]
  /\ batch' = [batch EXCEPT ![p] = {}]
  /\ UNCHANGED <<files, tables>>

Crash ==
  /\ Svc!Crash
  /\ op' = [p \in Proc |-> "none"]
  /\ typed' = [p \in Proc |-> NoName]
  /\ target' = [p \in Proc |-> NoUser]
  /\ batch' = [p \in Proc |-> {}]
  /\ UNCHANGED tables

(* Who may read p's file by the request that p serves. *)
Entitled(p) ==
  \/ rows[file[p]] = user[p]
  \/ op[p] = "shared" /\ perms[file[p]][user[p]] > 0

Reading(p) == op[p] \in Reads

(* After every step, every read under way notes whether it is entitled. *)
Watch ==
  /\ held' = [p \in Proc |-> Reading(p)' /\ (held[p] \/ Entitled(p)')]
  /\ lost' = [p \in Proc |-> Reading(p)' /\ (lost[p] \/ ~Entitled(p)')]

Request(p) ==
  \/ \E u \in User, B \in SUBSET File : BeginUpload(p, u, B)
  \/ \E u \in User, f \in File :
       \/ BeginDownload(p, u, f)
       \/ BeginShared(p, u, f)
       \/ BeginDelete(p, u, f)
       \/ \E n \in Name : BeginShare(p, u, f, n) \/ BeginRevoke(p, u, f, n)
       \/ \E t \in User : BeginRevokeUser(p, u, f, t)

(* One step of the goroutine that serves p's request. *)
Serve(p) ==
  \/ UploadExists(p) \/ (\E f \in File : UploadOpen(p, f))
  \/ UploadOpenFails(p) \/ UploadNext(p)
  \/ SharedMeta(p) \/ SharedAccess(p)
  \/ DeleteCheck(p) \/ DeleteRevokeAll(p)
  \/ ShareCheck(p) \/ LookUp(p) \/ LookUpAt(p)
  \/ ShareGrant(p) \/ ShareGrantOrphan(p)
  \/ RevokeCheck(p) \/ RevokeDelete(p)
  \/ QueryFails(p) \/ ServiceStep(p) \/ Answer(p) \/ Respond(p)

Step ==
  \/ \E u \in User, n \in Name : Register(u, n) \/ Rename(u, n)
  \/ \E p \in Proc : Request(p) \/ Serve(p)
  \/ Crash

Next == Step /\ Watch

Spec == Init /\ [][Next]_vars

-------------------------------------------------------------------------------
(* A read is answered with the contents only to an account that owned the  *)
(* file, or had it shared with it, at some moment while the request ran:   *)
(* the check and the read are two statements, but no older grant counts.   *)
ServedOnlyEntitled ==
  \A p \in Proc : Reading(p) /\ pc[p] = "2xx" => held[p]

(* A read is refused with 403 or 404 only if the account was not entitled  *)
(* at some moment while the request ran, or if the row has no bytes behind *)
(* it because its INSERT was committed and reported as failed.             *)
RefusedOnlyLapsed ==
  \A p \in Proc : Reading(p) /\ pc[p] \in {"403", "404"} =>
    lost[p] \/ (pc[p] = "404" /\ file[p] \in torn)

(* An upload is answered with the ids of its files only if every one of    *)
(* them has been published.  If it is answered with 500 it has stopped at  *)
(* the part that failed: whoever retries it doubles the parts before that  *)
(* one, which are published, and no part after it.                         *)
UploadReported ==
  \A p \in Proc : op[p] = "upload" =>
    /\ pc[p] = "2xx" => batch[p] \subseteq acked
    /\ pc[p] = "500" => batch[p] \cap used \subseteq acked \cup {file[p]}

(* What FileService sees of a goroutine: it is idle outside of its calls.  *)
InService(p) == pc[p] \in Svc!SvcLabels

ServiceOf == INSTANCE FileService WITH
  pc <- [p \in Proc |-> IF InService(p) THEN pc[p] ELSE "idle"],
  user <- [p \in Proc |-> IF InService(p) THEN user[p] ELSE NoUser],
  file <- [p \in Proc |-> IF InService(p) THEN file[p] ELSE NoFile]

(* The use case calls the service as FileService allows: with fresh ids,   *)
(* with the bytes of published files only, never past its own checks.      *)
ImplementsFileService == ServiceOf!Spec

-------------------------------------------------------------------------------
(* The inductive invariant behind these properties, in parts.               *)

(* The statements, outcomes and answers that a request comes through. *)
LabelsOf(o) ==
  CASE o = "none"     -> {"idle"}
    [] o = "upload"   -> {"up_exists", "up_open", "ok", "err", "2xx", "500"}
                           \cup Svc!SaveLabels
    [] o = "download" -> Svc!GetLabels \cup Svc!Outcomes \cup Statuses
    [] o = "shared"   -> {"gs_meta", "gs_access", "get_blob"}
                           \cup (Svc!Outcomes \ {"forbidden"}) \cup Statuses
    [] o = "delete"   -> {"ud_meta", "ud_revoke"} \cup Svc!DeleteLabels
                           \cup Svc!Outcomes \cup Statuses
    [] o = "share"    -> {"sh_meta", "name", "name_at", "sh_grant"}
                           \cup Statuses
    [] OTHER          -> {"name", "name_at", "rv_meta", "rv_delete"}
                           \cup Statuses

RequestsInOrder ==
  \A p \in Proc :
    /\ pc[p] \in LabelsOf(op[p])
    /\ op[p] # "none" => user[p] \in User
    /\ op[p] \notin {"none", "upload"} \/ InService(p) => file[p] \in File
    /\ pc[p] \in {"idle", "sh_meta", "name", "name_at"} => target[p] = NoUser
    /\ pc[p] \in {"sh_grant", "rv_meta", "rv_delete"} => target[p] \in User

(* What a request has learnt from a row holds until the row goes. *)
PastTheCheck ==
  \A p \in Proc :
    /\ \/ pc[p] \in {"ud_revoke", "rv_delete", "sh_grant"}
       \/ op[p] = "share" /\ pc[p] \in {"name", "name_at"}
       => file[p] \in Svc!published /\ rows[file[p]] \in {user[p], NoUser}
    /\ pc[p] = "gs_access" =>
         file[p] \in Svc!published /\ rows[file[p]] # user[p]
    /\ op[p] = "delete" /\ pc[p] = "ok" => file[p] \in gone

GrantsNeedRows ==
  \A f \in File : rows[f] = NoUser => perms[f] = NoGrants

(* An upload alone draws its ids, and those it has drawn are published, but *)
(* for the one in hand or the one that failed.                              *)
UploadsApart ==
  \A p \in Proc :
    /\ batch[p] # {} => op[p] = "upload"
    /\ \A q \in Proc : p # q => batch[p] \cap batch[q] = {}
    /\ op[p] = "upload" =>
         batch[p] \cap used \subseteq
           acked \cup (IF pc[p] \in Svc!SaveLabels \cup {"err", "500"}
                       THEN {file[p]} ELSE {})
    /\ op[p] = "upload" /\ pc[p] = "2xx" => Left(p) = {}

ReadsWatched ==
  \A p \in Proc : Reading(p) =>
    /\ pc[p] \in {"get_blob", "ok", "2xx"} => held[p]
    /\ lost[p] \/ Entitled(p)
    /\ pc[p] \in {"forbidden", "403"} => lost[p]
    /\ pc[p] \in {"not_found", "404"} => lost[p] \/ file[p] \in torn

Inv ==
  /\ TypeOK
  /\ ServiceOf!Inv
  /\ RequestsInOrder
  /\ PastTheCheck
  /\ GrantsNeedRows
  /\ UploadsApart
  /\ ReadsWatched

-------------------------------------------------------------------------------
(* A command is pending from its request to the status of its answer. *)
CommandOf(p) ==
  IF op[p] \in Commands /\ pc[p] \notin Statuses
  THEN {[kind |-> op[p], giver |-> user[p],
         file |-> file[p], target |-> target[p]]}
  ELSE {}

PolicyOf == INSTANCE AccessPolicy WITH
  owner <- rows,
  readers <- [f \in File |-> {u \in User : perms[f][u] > 0}],
  command <- [p \in Proc |-> CommandOf(p)],
  told <- {p \in Proc : op[p] \in Commands /\ pc[p] = "2xx"}

(* Who owns and who may read a file changes only at the owner's command,   *)
(* however the checks, the lookups and the writes of requests interleave,  *)
(* and a command that is answered with 2xx has been carried out: a share   *)
(* that lost the race with a removal leaves nothing behind, a revocation   *)
(* takes every row of a repeated share.                                    *)
ImplementsAccessPolicy == PolicyOf!Spec

(* Without failures a removal that has passed its check goes through: a    *)
(* share that is granted after the shares were revoked cannot keep the row *)
(* of the file in place.                                                   *)
DeleteCompletes ==
  \A f \in File :
    (\E p \in Proc : pc[p] = "ud_revoke" /\ file[p] = f)
      ~> rows[f] = NoUser /\ blobs[f] = "absent"
===============================================================================
