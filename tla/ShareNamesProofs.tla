--------------------------- MODULE ShareNamesProofs ---------------------------
(***************************************************************************)
(* When a revocation by name undoes the shares by that name: whenever a    *)
(* name leads to one account only, at all times.  The run share_names      *)
(* shows that it need not without; both halves of the condition are used.  *)
(*                                                                         *)
(* The invariant is that the account which a share or a revocation has     *)
(* been aimed at still goes by the name that was typed.                    *)
(***************************************************************************)
EXTENDS ShareNames, FilesUseCaseProofs

USE DEF namesVars, svcVars, files, request, tables, watch, vars,
        Svc!SaveLabels, Svc!GetLabels, Svc!DeleteLabels, Svc!Outcomes,
        Svc!SvcLabels, Svc!store, Svc!call, Svc!history,
        Svc!Goto, Svc!Stay, Svc!Enter, Jump, Move,
        Reads, Commands, Operations, Statuses, Queries, Writes

(* t is an account that n stands for. *)
GoesBy(t, n) == names[t] = n \/ (n \in Plain /\ names[t] = At(n))

Typing == {"sh_meta", "name", "name_at"}
Aimed == {"sh_grant", "rv_meta", "rv_delete"}

AsTyped(p) ==
  /\ pc[p] \in Typing => typed[p] \in Name /\ asked[p] = typed[p]
  /\ pc[p] = "name_at" => typed[p] \in Plain
  /\ pc[p] \in Aimed \cup {"idle"} => typed[p] = NoName
  /\ pc[p] \in Aimed => asked[p] = NoName \/ GoesBy(target[p], asked[p])
  /\ pc[p] = "idle" => asked[p] = NoName
  /\ asked[p] \in Name \cup {NoName}

OneHolder == \A u, v \in User : names[u] = names[v] /\ names[u] # NoName => u = v

NamesInv ==
  /\ \A p \in Proc : AsTyped(p)
  /\ \A s \in sharedBy : s[3] \in User /\ (s[2] \in Name => GoesBy(s[3], s[2]))
  /\ OneHolder

(* Who has a name keeps it, in this step. *)
Keeping == \A u \in User : names[u] # NoName => names'[u] = names[u]

-------------------------------------------------------------------------------
LEMMA NamesTyped == NoName \notin Name /\ \A n \in Plain : n \in Name /\ At(n) \in Name
  BY UseCaseAssumption DEF Name

(* A name goes on standing for its account. *)
LEMMA StillGoesBy ==
  ASSUME Keeping, NEW t \in User, NEW n \in Name, GoesBy(t, n)
  PROVE  GoesBy(t, n)'
  BY NamesTyped DEF Keeping, GoesBy

LEMMA HoldersNext ==
  ASSUME TypeOK, OneHolder, Next
  PROVE  OneHolder'
  <1>1. CASE UNCHANGED names
    BY <1>1 DEF OneHolder
  <1>2. ASSUME NEW u \in User, NEW n \in Name, Register(u, n) \/ Rename(u, n)
        PROVE  OneHolder'
    BY <1>2
    DEF Register, Rename, Users!Register, Users!Rename, Users!Free, OneHolder, TypeOK
  <1>3. ASSUME NEW p \in Proc, Request(p) PROVE UNCHANGED names
    BY <1>3
    DEF Request, Begin, BeginUpload, BeginDownload, BeginShared, BeginDelete,
        BeginShare, BeginRevoke, BeginRevokeUser
  <1>4. ASSUME NEW p \in Proc, Serve(p) PROVE UNCHANGED names
    BY <1>4
    DEF Serve, UploadExists, UploadOpen, UploadOpenFails, UploadNext,
        SharedMeta, SharedAccess, DeleteCheck, DeleteRevokeAll, ShareCheck,
        LookUp, LookUpAt, Found, ShareGrant, ShareGrantOrphan, RevokeCheck,
        RevokeDelete, QueryFails, Answer, Respond, Write, ServiceStep
  <1>5. QED
    BY <1>1, <1>2, <1>3, <1>4 DEF Next, Step, Crash

-------------------------------------------------------------------------------
(* What the steps of a request do to the name that it came with.            *)

LEMMA AskedThen ==
  ASSUME Remember, NEW p \in Proc
  PROVE  /\ op'[p] = "none" /\ typed'[p] = NoName => asked'[p] = NoName
         /\ op'[p] # "none" /\ typed'[p] # NoName => asked'[p] = typed'[p]
         /\ op'[p] # "none" /\ typed'[p] = NoName => asked'[p] = asked[p]
  <1>1. asked'[p] = CASE op'[p] = "none"      -> NoName
                      [] typed'[p] # NoName -> typed'[p]
                      [] OTHER              -> asked[p]
    BY Zenon DEF Remember
  <1>2. QED
    BY <1>1

LEMMA AskedByRequest ==
  ASSUME Inv, Remember, NEW p \in Proc, AsTyped(p), Request(p)
  PROVE  AsTyped(p)'
  <1>0. TypeOK
    BY DEF Inv
  <1>1. /\ pc[p] = "idle" /\ typed[p] = NoName /\ asked[p] = NoName
        /\ op'[p] # "none"
    BY <1>0
    DEF Request, Begin, BeginUpload, BeginDownload, BeginShared, BeginDelete,
        BeginShare, BeginRevoke, BeginRevokeUser, AsTyped, Aimed, TypeOK
  <1>2. CASE pc'[p] \in {"sh_meta", "name"} /\ typed'[p] \in Name
    BY <1>1, <1>2, AskedThen, NamesTyped DEF AsTyped, Typing, Aimed
  <1>3. CASE pc'[p] \notin Typing \cup {"idle"} /\ typed'[p] = NoName
    BY <1>1, <1>3, AskedThen, NamesTyped DEF AsTyped, Typing
  <1>4. QED
    BY <1>0, <1>1, <1>2, <1>3
    DEF Request, Begin, BeginUpload, BeginDownload, BeginShared, BeginDelete,
        BeginShare, BeginRevoke, BeginRevokeUser, TypeOK, Typing

LEMMA ServesNotIdle == ASSUME NEW p \in Proc, Serve(p) PROVE pc[p] # "idle"
  BY DEF Serve, UploadExists, UploadOpen, UploadOpenFails, UploadNext,
         SharedMeta, SharedAccess, DeleteCheck, DeleteRevokeAll, ShareCheck,
         LookUp, LookUpAt, ShareGrant, ShareGrantOrphan, RevokeCheck,
         RevokeDelete, QueryFails, Answer, Respond, ServiceStep, Svc!SaveStep,
         Svc!SaveCreate, Svc!SaveCreateFails, Svc!SaveWrite,
         Svc!SaveWriteFails, Svc!SaveInsert, Svc!SaveInsertFails,
         Svc!SaveInsertUnacked, Svc!SaveUndo, Svc!SaveUndoFails, Svc!GetStep,
         Svc!GetMeta, Svc!GetBlob, Svc!GetBlobFails, Svc!DeleteStep,
         Svc!DeleteMeta, Svc!MetaFails, Svc!DeleteRow, Svc!DeleteRowFails,
         Svc!DeleteRowUnacked, Svc!DeleteBlob, Svc!DeleteBlobMissing,
         Svc!DeleteBlobFails

(* A look-up aims at an account that goes by the name; nothing else aims. *)
LEMMA AskedByServe ==
  ASSUME Inv, Remember, NEW p \in Proc, AsTyped(p), Serve(p)
  PROVE  AsTyped(p)'
  <1>0. TypeOK /\ ServiceOf!Inv
    BY DEF Inv
  <1>1. op[p] # "none"
    BY ServesNotIdle DEF Inv, RequestsInOrder, LabelsOf
  <1> USE DEF AsTyped, Typing, Aimed
  <1>2. CASE /\ pc'[p] \notin Typing \cup Aimed \cup {"idle"}
             /\ op'[p] = op[p] /\ typed'[p] = typed[p]
    BY <1>0, <1>1, <1>2, AskedThen DEF TypeOK
  <1>3. CASE ShareCheck(p)
    <2>1. op'[p] = op[p] /\ typed'[p] = typed[p] /\ typed[p] \in Name
      BY <1>3 DEF ShareCheck
    <2>2. pc'[p] \in {"404", "403", "name"}
      BY <1>0, <1>3 DEF ShareCheck, MetaCheck, TypeOK
    <2>3. QED
      BY <1>1, <2>1, <2>2, AskedThen, NamesTyped
  <1>4. CASE RevokeCheck(p)
    <2>1. /\ op'[p] = op[p] /\ typed'[p] = NoName /\ typed[p] = NoName
          /\ target'[p] = target[p] /\ names' = names
      BY <1>4 DEF RevokeCheck
    <2>2. pc'[p] \in {"404", "403", "rv_delete"} /\ pc[p] = "rv_meta"
      BY <1>0, <1>4 DEF RevokeCheck, MetaCheck, TypeOK
    <2>3. QED
      BY <1>1, <2>1, <2>2, AskedThen DEF GoesBy
  <1>5. ASSUME NEW t \in User, Found(p, t), GoesBy(t, typed[p]),
               pc[p] \in {"name", "name_at"}
        PROVE  AsTyped(p)'
    <2>1. /\ op'[p] = op[p] /\ typed'[p] = NoName /\ target'[p] = t
          /\ names' = names /\ pc'[p] \in {"sh_grant", "rv_meta"}
      BY <1>0, <1>5 DEF Found, TypeOK
    <2>2. asked'[p] = typed[p] /\ asked[p] \in Name
      BY <1>1, <1>5, <2>1, AskedThen
    <2>3. QED
      BY <1>5, <2>1, <2>2 DEF GoesBy
  <1>6. CASE LookUp(p)
    <2>1. CASE \E t \in Account(typed[p]) : Found(p, t)
      BY <1>5, <1>6, <2>1 DEF LookUp, Account, GoesBy
    <2>2. CASE Move(p, IF typed[p] \in Plain THEN "name_at" ELSE "404")
      BY <1>0, <1>1, <1>6, <2>2, AskedThen, NamesTyped DEF LookUp, TypeOK
    <2>3. QED
      BY <1>6, <2>1, <2>2 DEF LookUp
  <1>7. CASE LookUpAt(p)
    <2>1. CASE \E t \in Account(At(typed[p])) : Found(p, t)
      BY <1>5, <1>7, <2>1 DEF LookUpAt, Account, GoesBy
    <2>2. CASE Move(p, "404")
      BY <1>0, <1>2, <2>2 DEF TypeOK
    <2>3. QED
      BY <1>7, <2>1, <2>2 DEF LookUpAt
  <1>8. CASE Respond(p)
    BY <1>0, <1>8, AskedThen, NamesTyped DEF Respond, TypeOK
  <1>9. CASE ServiceStep(p)
    <2>1. \E label \in Svc!SvcLabels : Svc!Goto(p, label)
      BY <1>0, <1>9, ServiceMoves
    <2>2. QED
      BY <1>0, <1>2, <1>9, <2>1 DEF ServiceStep, TypeOK
  <1>10. QED
    BY <1>0, <1>2, <1>3, <1>4, <1>6, <1>7, <1>8, <1>9
    DEF Serve, UploadExists, UploadOpen, UploadOpenFails, UploadNext,
        SharedMeta, SharedAccess, DeleteCheck, DeleteRevokeAll, MetaCheck,
        ShareGrant, ShareGrantOrphan, RevokeDelete, QueryFails, Answer, Write,
        Status, TypeOK

-------------------------------------------------------------------------------
(* All steps, while names are kept.                                         *)

LEMMA AskedByOthers ==
  ASSUME TypeOK, Remember, Keeping, RequestsInOrder, NEW p \in Proc, AsTyped(p),
         UNCHANGED <<pc[p], op[p], typed[p], target[p]>>
  PROVE  AsTyped(p)'
  <1>1. pc[p] \in Aimed => target[p] \in User /\ op[p] # "none"
    BY DEF RequestsInOrder, Aimed, LabelsOf
  <1>2. pc[p] \in Typing => op[p] # "none"
    BY DEF RequestsInOrder, Typing, LabelsOf
  <1>3. op[p] = "none" => pc[p] = "idle"
    BY DEF RequestsInOrder, LabelsOf
  <1>4. asked'[p] \in Name \cup {NoName}
    BY <1>3, AskedThen, NamesTyped DEF AsTyped, TypeOK
  <1>5. pc[p] \in Aimed => asked'[p] = asked[p]
    BY <1>1, AskedThen DEF AsTyped
  <1>6. pc[p] \in Typing => asked'[p] = typed[p]
    BY <1>2, AskedThen, NamesTyped DEF AsTyped
  <1>7. pc[p] = "idle" => asked'[p] = NoName
    BY AskedThen DEF AsTyped
  <1>8. QED
    BY <1>1, <1>4, <1>5, <1>6, <1>7, StillGoesBy DEF AsTyped, Aimed

LEMMA AskedNext ==
  ASSUME Inv, NamesNext, Keeping, NEW p \in Proc, AsTyped(p)
  PROVE  AsTyped(p)'
  <1>0. TypeOK /\ ServiceOf!Inv /\ RequestsInOrder
    BY DEF Inv
  <1>1. CASE Serve(p) \/ Request(p)
    BY <1>1, AskedByServe, AskedByRequest DEF NamesNext
  <1>2. CASE UNCHANGED <<pc[p], op[p], typed[p], target[p]>>
    BY <1>0, <1>2, AskedByOthers DEF NamesNext
  <1>3. ASSUME NEW q \in Proc, q # p, Serve(q) \/ Request(q)
        PROVE  UNCHANGED <<pc[p], op[p], typed[p], target[p]>>
    BY <1>0, <1>3, Others
  <1>4. CASE Crash
    BY <1>4, AskedThen, NamesTyped
    DEF NamesNext, Crash, Svc!Crash, AsTyped, Typing, Aimed
  <1>5. QED
    BY <1>1, <1>2, <1>3, <1>4 DEF NamesNext, Next, Step, Register, Rename

(* A share that is answered has gone to the account it was aimed at. *)
LEMMA SharedNext ==
  ASSUME Inv, NamesInv, NamesNext, Keeping, NEW s \in sharedBy'
  PROVE  s[3] \in User /\ (s[2] \in Name => GoesBy(s[3], s[2])')
  <1>1. CASE s \in sharedBy
    BY <1>1, StillGoesBy DEF NamesInv
  <1>2. ASSUME NEW p \in Proc, pc[p] = "sh_grant",
               s = <<file[p], asked[p], target[p]>>
        PROVE  s[3] \in User /\ (s[2] \in Name => GoesBy(s[3], s[2])')
    <2>1. target[p] \in User
      BY <1>2 DEF Inv, RequestsInOrder
    <2>2. asked[p] = NoName \/ GoesBy(target[p], asked[p])
      BY <1>2 DEF NamesInv, AsTyped, Aimed
    <2>3. s[3] = target[p] /\ s[2] = asked[p]
      BY <1>2
    <2>4. QED
      BY <2>1, <2>2, <2>3, StillGoesBy, NamesTyped
  <1>3. QED
    BY <1>1, <1>2 DEF NamesNext, Remember, SharedNow

LEMMA NamesNextInv ==
  Inv /\ NamesInv /\ [NamesNext]_namesVars /\ [Keeping]_namesVars => NamesInv'
  <1>1. ASSUME Inv, NamesInv, NamesNext, Keeping PROVE NamesInv'
    BY <1>1, AskedNext, SharedNext, HoldersNext DEF NamesInv, NamesNext, Inv
  <1>2. ASSUME NamesInv, UNCHANGED namesVars PROVE NamesInv'
    BY <1>2 DEF NamesInv, AsTyped, GoesBy, OneHolder
  <1>3. QED
    BY <1>1, <1>2

LEMMA NamesStart == NamesInit => NamesInv
  BY DEF NamesInit, Init, Svc!Init, NamesInv, AsTyped, Typing, Aimed, OneHolder

LEMMA NamesRefine == NamesSpec => Spec
  <1>1. NamesInit => Init
    BY DEF NamesInit
  <1>2. [NamesNext]_namesVars => [Next]_vars
    BY DEF NamesNext
  <1>3. QED
    BY <1>1, <1>2, PTL DEF NamesSpec, Spec

LEMMA NamesInvariance == NamesSpec /\ NamesKept => []NamesInv
  <1>1. NamesKept => [][Keeping]_namesVars
    BY PTL DEF NamesKept, Keeping
  <1>2. QED
    BY <1>1, NamesStart, NamesNextInv, NamesRefine, Invariance, PTL DEF NamesSpec

-------------------------------------------------------------------------------
(* Two accounts that a name has led to are one. *)
LEMMA OneAccount ==
  ASSUME OneHolder, Unambiguous, NEW n \in Name,
         NEW t \in User, NEW u \in User, GoesBy(t, n), GoesBy(u, n)
  PROVE  t = u
  <1>1. names[t] # NoName /\ names[u] # NoName
    BY NamesTyped DEF GoesBy
  <1>2. CASE names[t] = names[u]
    BY <1>1, <1>2 DEF OneHolder
  <1>3. CASE names[t] # names[u]
    BY <1>3 DEF GoesBy, Unambiguous, Account
  <1>4. QED
    BY <1>2, <1>3

(* A revocation that is answered has deleted the rows of its account. *)
LEMMA RevokedNext ==
  ASSUME Inv, Next, NEW p \in Proc, pc[p] = "rv_delete", pc'[p] = "2xx"
  PROVE  perms'[file[p]][target[p]] = 0 /\ target[p] \in User
  <1>0. TypeOK /\ ServiceOf!Inv /\ target[p] \in User /\ file[p] \in File
    BY DEF Inv, RequestsInOrder, LabelsOf
  <1>1. Serve(p)
    <2>1. ASSUME NEW q \in Proc, q # p, Serve(q) \/ Request(q) PROVE FALSE
      BY <1>0, <2>1, Others
    <2>2. ~Request(p)
      BY DEF Request, Begin, BeginUpload, BeginDownload, BeginShared,
             BeginDelete, BeginShare, BeginRevoke, BeginRevokeUser
    <2>3. QED
      BY <2>1, <2>2 DEF Next, Step, Register, Rename, Crash, Svc!Crash
  <1>2. RevokeDelete(p)
    BY <1>0, <1>1
    DEF Serve, UploadExists, UploadOpen, UploadOpenFails, UploadNext,
        SharedMeta, SharedAccess, DeleteCheck, DeleteRevokeAll, ShareCheck,
        LookUp, LookUpAt, ShareGrant, ShareGrantOrphan, RevokeCheck,
        QueryFails, Answer, Respond, TypeOK, ServiceStep, Svc!SaveStep,
        Svc!SaveCreate, Svc!SaveCreateFails, Svc!SaveWrite,
        Svc!SaveWriteFails, Svc!SaveInsert, Svc!SaveInsertFails,
        Svc!SaveInsertUnacked, Svc!SaveUndo, Svc!SaveUndoFails, Svc!GetStep,
        Svc!GetMeta, Svc!GetBlob, Svc!GetBlobFails, Svc!DeleteStep,
        Svc!DeleteMeta, Svc!MetaFails, Svc!DeleteRow, Svc!DeleteRowFails,
        Svc!DeleteRowUnacked, Svc!DeleteBlob, Svc!DeleteBlobMissing,
        Svc!DeleteBlobFails
  <1>3. QED
    BY <1>0, <1>2 DEF RevokeDelete, Write, TypeOK

(* README.md:271 holds where names lead to one account: a revocation by a   *)
(* name that is answered has undone every share by that name, whatever the  *)
(* other requests do and whatever fails.                                    *)
THEOREM RevocationsUndoShares ==
  NamesSpec /\ []Unambiguous /\ NamesKept => RevokeUndoesShare
  <1> DEFINE Undone(p) ==
        pc[p] = "rv_delete" /\ pc'[p] = "2xx" /\ asked[p] # NoName =>
          \A s \in sharedBy :
            s[1] = file[p] /\ s[2] = asked[p] => perms'[file[p]][s[3]] = 0
  <1>1. Inv /\ NamesInv /\ Unambiguous /\ [NamesNext]_namesVars
          => [\A p \in Proc : Undone(p)]_namesVars
    <2> SUFFICES ASSUME Inv, NamesInv, Unambiguous, NamesNext, NEW p \in Proc,
                        pc[p] = "rv_delete", pc'[p] = "2xx", asked[p] # NoName,
                        NEW s \in sharedBy, s[2] = asked[p]
                 PROVE  perms'[file[p]][s[3]] = 0
      OBVIOUS
    <2>1. perms'[file[p]][target[p]] = 0 /\ target[p] \in User
      BY RevokedNext DEF NamesNext
    <2>2. asked[p] \in Name /\ GoesBy(target[p], asked[p])
      BY DEF NamesInv, AsTyped, Aimed
    <2>3. s[3] \in User /\ GoesBy(s[3], asked[p])
      BY <2>2 DEF NamesInv
    <2>4. s[3] = target[p]
      BY <2>1, <2>2, <2>3, OneAccount DEF NamesInv
    <2>5. QED
      BY <2>1, <2>4
  <1>2. QED
    BY <1>1, NamesRefine, NamesInvariance, Invariance, PTL
    DEF NamesSpec, RevokeUndoesShare
===============================================================================
