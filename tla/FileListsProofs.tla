---------------------------- MODULE FileListsProofs ----------------------------
(***************************************************************************)
(* What the lists show, for any number of listers, requests, accounts and  *)
(* files, and any failures.                                                *)
(*                                                                         *)
(* A lister changes no table, so the invariant of FilesUseCase holds; what *)
(* remains is what a lister has learnt from a row, which outlives every    *)
(* other step because an id is published once (RowsNext).                  *)
(***************************************************************************)
EXTENDS FileLists, FilesUseCaseProofs

USE DEF lists, listsVars, ListLabels, svcVars, files, request, tables, watch,
        vars, Statuses, Svc!published

(* What FilesUseCase sees of a step. *)
LEMMA TablesStep == ListsNext => Next \/ UNCHANGED vars
  BY DEF ListsNext

(* A list changes what its lister knows, and nobody else's knowledge. *)
LEMMA ServeListNext ==
  ASSUME Inv, ListsInv, NEW l \in Lister, ServeList(l), UNCHANGED vars
  PROVE  ListsInv'
  <1>1. CASE ListByOwner(l)
    BY <1>1 DEF ListByOwner, Tell, ListsInv
  <1>2. CASE ListSharedFiles(l)
    BY <1>2 DEF ListSharedFiles, Tell, ListsInv
  <1>3. CASE GrantedCheck(l)
    <2>1. rows[about[l]] # NoUser => about[l] \in Svc!published
      BY <1>3, StoreFacts DEF Inv, ListsInv, GrantedCheck
    <2>2. asker[l] # NoUser
      BY <1>3, UseCaseAssumption DEF GrantedCheck, ListsInv
    <2>3. QED
      BY <1>3, <2>1, <2>2 DEF GrantedCheck, Tell, ListsInv
  <1>4. CASE ListGrantedUsers(l)
    BY <1>4 DEF ListGrantedUsers, Tell, ListsInv
  <1>5. CASE ListFails(l)
    BY <1>5 DEF ListFails, Tell, ListsInv
  <1>6. CASE EndList(l)
    BY <1>6 DEF EndList, Tell, ListsInv
  <1>7. QED
    BY <1>1, <1>2, <1>3, <1>4, <1>5, <1>6 DEF ServeList

LEMMA ListsNextInv == Inv /\ ListsInv /\ [ListsNext]_listsVars => ListsInv'
  <1> SUFFICES ASSUME Inv, ListsInv, [ListsNext]_listsVars PROVE ListsInv'
    OBVIOUS
  <1>1. CASE Next /\ UNCHANGED lists
    BY <1>1, RowsNext DEF ListsInv
  <1>2. ASSUME NEW l \in Lister, AskList(l), UNCHANGED vars PROVE ListsInv'
    BY <1>2 DEF AskList, BeginListFiles, BeginListSharedFiles,
                BeginListGrantedUsers, BeginList, ListsInv
  <1>3. CASE UNCHANGED listsVars
    BY <1>3 DEF ListsInv
  <1>4. QED
    BY <1>1, <1>2, <1>3, ServeListNext DEF ListsNext

(* What is proved of FilesUseCase holds with listers as well. *)
THEOREM ListsChangeNothing == ListsSpec => Spec
  <1>1. ListsInit => Init
    BY DEF ListsInit
  <1>2. [ListsNext]_listsVars => [Next]_vars
    BY TablesStep
  <1>3. QED
    BY <1>1, <1>2, PTL DEF ListsSpec, Spec

(* The invariant of the listers. *)
THEOREM ListsInvariance == ListsSpec => []ListsInv
  <1>1. ListsInit => ListsInv
    BY DEF ListsInit, ListsInv
  <1>2. QED
    BY <1>1, ListsNextInv, ListsChangeNothing, Invariance, PTL DEF ListsSpec

(* Readers are told to the owner of the moment, and to nobody of a file     *)
(* that is gone.                                                            *)
THEOREM ReadersToldToOwner == ListsSpec => ReadersShownToOwner
  <1> DEFINE Shown(l) ==
        step[l] = "granted" /\ step'[l] = "2xx" /\ shown'[l] # {} =>
          rows[about[l]] = asker[l]
  <1>1. Inv /\ ListsInv /\ [ListsNext]_listsVars
          => [\A l \in Lister : Shown(l)]_listsVars
    <2> SUFFICES ASSUME Inv, ListsInv, ListsNext, NEW l \in Lister,
                        step[l] = "granted", step'[l] = "2xx", shown'[l] # {}
                 PROVE  rows[about[l]] = asker[l]
      OBVIOUS
    <2>1. rows[about[l]] \in {asker[l], NoUser} /\ about[l] \in File
      BY DEF ListsInv
    <2>2. rows[about[l]] = NoUser => perms[about[l]] = NoGrants
      BY <2>1 DEF Inv, GrantsNeedRows
    <2>3. step \in [Lister -> ListLabels \cup Statuses \cup {"idle"}]
      BY DEF ListsInv
    <2>4. PICK m \in Lister : AskList(m) \/ ServeList(m)
      BY DEF ListsNext
    <2>5. m = l
      BY <2>3, <2>4
      DEF AskList, BeginListFiles, BeginListSharedFiles, BeginListGrantedUsers,
          BeginList, ServeList, ListByOwner, ListSharedFiles, GrantedCheck,
          ListGrantedUsers, ListFails, EndList, Tell
    <2>6. ListGrantedUsers(l)
      <3>1. ~AskList(l)
        BY DEF AskList, BeginListFiles, BeginListSharedFiles,
               BeginListGrantedUsers, BeginList
      <3>2. ~ListFails(l) /\ ~EndList(l)
        BY <2>3 DEF ListFails, EndList, Tell
      <3>3. QED
        BY <2>4, <2>5, <3>1, <3>2
        DEF ServeList, ListByOwner, ListSharedFiles, GrantedCheck
    <2>7. shown'[l] = {u \in User : perms[about[l]][u] > 0}
      BY <2>6 DEF ListGrantedUsers, Tell, ListsInv
    <2>8. QED
      BY <2>1, <2>2, <2>7 DEF NoGrants
  <1>2. QED
    BY <1>1, ListsInvariance, ListsChangeNothing, Invariance, PTL
    DEF ListsSpec, ReadersShownToOwner
===============================================================================
