------------------------------- MODULE FileLists -------------------------------
(***************************************************************************)
(* FilesUseCase with the requests that list: GET /files, /files/shared and *)
(* /files/:id/shared-users.                                                *)
(*                                                                         *)
(* They change nothing, but they run between the statements of all other   *)
(* requests, and the list of a file's readers is a check and a query.  The *)
(* order of a list and the rows of repeated shares are left out.           *)
(***************************************************************************)
EXTENDS FilesUseCase

CONSTANT Lister   \* the goroutines that serve them

ASSUME ListerAssumption == Lister \cap Proc = {}

VARIABLES
  step,    \* the next statement of each, or the status of its answer
  asker,   \* the account that asked
  about,   \* the file that was asked about
  shown    \* the files or the accounts in the answer

lists == <<step, asker, about, shown>>
listsVars == <<vars, lists>>

ListLabels == {"owned", "shared", "check", "granted"}

(* What listers know: a list of readers is only made for whom the row of    *)
(* the file named, which no other account can come to own.                  *)
ListsInv ==
  /\ step \in [Lister -> ListLabels \cup Statuses \cup {"idle"}]
  /\ asker \in [Lister -> User \cup {NoUser}]
  /\ about \in [Lister -> File \cup {NoFile}]
  /\ shown \in [Lister -> (SUBSET File) \cup (SUBSET User)]
  /\ \A l \in Lister :
       /\ step[l] # "idle" => asker[l] \in User
       /\ step[l] \in {"check", "granted"} => about[l] \in File
       /\ step[l] = "granted" =>
            about[l] \in Svc!published /\ rows[about[l]] \in {asker[l], NoUser}

ListsInit ==
  /\ Init
  /\ step = [l \in Lister |-> "idle"]
  /\ asker = [l \in Lister |-> NoUser]
  /\ about = [l \in Lister |-> NoFile]
  /\ shown = [l \in Lister |-> {}]

BeginList(l, label, u, f) ==
  /\ step[l] = "idle" /\ names[u] # NoName
  /\ step' = [step EXCEPT ![l] = label]
  /\ asker' = [asker EXCEPT ![l] = u]
  /\ about' = [about EXCEPT ![l] = f]
  /\ UNCHANGED shown

BeginListFiles(l, u) == BeginList(l, "owned", u, NoFile)
BeginListSharedFiles(l, u) == BeginList(l, "shared", u, NoFile)
BeginListGrantedUsers(l, u, f) == BeginList(l, "check", u, f)

Tell(l, status, list) ==
  /\ step' = [step EXCEPT ![l] = status]
  /\ shown' = [shown EXCEPT ![l] = list]
  /\ UNCHANGED <<asker, about>>

ListByOwner(l) ==
  step[l] = "owned" /\ Tell(l, "2xx", {f \in File : rows[f] = asker[l]})

(* JOIN files: the permissions of a row that is gone do not count. *)
ListSharedFiles(l) ==
  /\ step[l] = "shared"
  /\ Tell(l, "2xx", {f \in File : rows[f] # NoUser /\ perms[f][asker[l]] > 0})

(* Broken variant: it is enough that the file is there. *)
GrantedCheckAny(l) ==
  /\ step[l] = "check"
  /\ Tell(l, IF rows[about[l]] = NoUser THEN "404" ELSE "granted", {})

GrantedCheck(l) ==
  /\ step[l] = "check"
  /\ Tell(l, CASE rows[about[l]] = NoUser   -> "404"
               [] rows[about[l]] = asker[l] -> "granted"
               [] OTHER                     -> "403", {})

(* JOIN users, but not files: the check is a statement ago. *)
ListGrantedUsers(l) ==
  /\ step[l] = "granted"
  /\ Tell(l, "2xx", {u \in User : perms[about[l]][u] > 0})

(* A query may fail at any time, whatever Faults says of other requests. *)
ListFails(l) == step[l] \in ListLabels /\ Tell(l, "500", {})

(* Answered, or cut off by its caller or by a crash: a lister that is cut   *)
(* off after the crash, and not with it, changes nothing either.            *)
EndList(l) ==
  /\ step[l] # "idle"
  /\ step' = [step EXCEPT ![l] = "idle"]
  /\ asker' = [asker EXCEPT ![l] = NoUser]
  /\ about' = [about EXCEPT ![l] = NoFile]
  /\ shown' = [shown EXCEPT ![l] = {}]

AskList(l) ==
  \E u \in User : \/ BeginListFiles(l, u) \/ BeginListSharedFiles(l, u)
                  \/ \E f \in File : BeginListGrantedUsers(l, u, f)

ServeList(l) ==
  \/ ListByOwner(l) \/ ListSharedFiles(l)
  \/ GrantedCheck(l) \/ ListGrantedUsers(l)
  \/ ListFails(l) \/ EndList(l)

ListsNext ==
  \/ Next /\ UNCHANGED lists
  \/ (\E l \in Lister : AskList(l) \/ ServeList(l)) /\ UNCHANGED vars

ListsSpec == ListsInit /\ [][ListsNext]_listsVars

(* One step of the goroutine that serves p's request, as listers see it. *)
Proceed(p) == UNCHANGED lists /\ Serve(p) /\ Watch

(* The Go scheduler runs every goroutine that can run, and every statement  *)
(* returns; nothing makes a caller send a request, or a lister go on.       *)
ListsScheduled(p) == WF_listsVars(Proceed(p))

ListsFairSpec == ListsSpec /\ \A p \in Proc : ListsScheduled(p)

-------------------------------------------------------------------------------
(* The readers of a file are told to nobody but the account that owns it at *)
(* that moment: if the file goes away between the check and the query, its  *)
(* permissions have gone with it, also those granted while it was removed.  *)
ReadersShownToOwner ==
  [][\A l \in Lister :
       step[l] = "granted" /\ step'[l] = "2xx" /\ shown'[l] # {} =>
         rows[about[l]] = asker[l]]_listsVars

(* A request waits for no other: at each of its statements, whatever the    *)
(* others have made of the rows, the bytes and the permissions, there is an *)
(* outcome and a step that follows it.                                      *)
NeverBlocked ==
  \A p \in Proc : pc[p] # "idle" => ENABLED <<Proceed(p)>>_listsVars

(* Every request is answered or cut off: none goes round in circles, also   *)
(* not one that looks for a name again, or takes up one part of its body    *)
(* after the other.                                                         *)
RequestsEnd ==
  \A p \in Proc : []<>(pc[p] = "idle")
===============================================================================
