----------------------------- MODULE FileRegistry -----------------------------
(***************************************************************************)
(* What the file service promises its callers, with the directory of       *)
(* bytes, the statement boundaries and the failures left out.              *)
(*                                                                         *)
(* A file is published once, under one owner, and is retired once, on a    *)
(* request of that owner.  A caller may be told that a file is stored only *)
(* when it is published, and that it is removed only when it is retired,   *)
(* and at most one caller per file is told the latter.  A request may be   *)
(* given up at any moment without an answer.                               *)
(*                                                                         *)
(* FileService implements this specification (see RegistryOf there).       *)
(***************************************************************************)
CONSTANTS
  Proc,     \* callers
  User,     \* account ids
  File,     \* file ids
  NoUser    \* the catalog entry of a file that is not published

VARIABLES
  catalog,  \* the owner of every published file
  born,     \* files that have been published so far
  stored,   \* files some caller was told are stored
  removed,  \* files some caller was told are removed
  request   \* the pending removal of each caller, a set of at most one pair

vars == <<catalog, born, stored, removed, request>>

TypeOK ==
  /\ catalog \in [File -> User \cup {NoUser}]
  /\ born \in SUBSET File
  /\ stored \in SUBSET born
  /\ removed \in SUBSET born
  /\ request \in [Proc -> SUBSET (User \X File)]

Init ==
  /\ catalog = [f \in File |-> NoUser]
  /\ born = {}
  /\ stored = {}
  /\ removed = {}
  /\ request = [p \in Proc |-> {}]

(* A new file enters the catalog; its caller may never learn of it. *)
Publish(f, u) ==
  /\ f \notin born
  /\ born' = born \cup {f}
  /\ catalog' = [catalog EXCEPT ![f] = u]
  /\ stored' \in {stored, stored \cup {f}}
  /\ UNCHANGED <<removed, request>>

AskRemoval(p, u, f) ==
  /\ request[p] = {}
  /\ request' = [request EXCEPT ![p] = {<<u, f>>}]
  /\ UNCHANGED <<catalog, born, stored, removed>>

(* Only a request of the owner takes a file out of the catalog. *)
Retire(p, f) ==
  /\ catalog[f] # NoUser
  /\ <<catalog[f], f>> \in request[p]
  /\ catalog' = [catalog EXCEPT ![f] = NoUser]
  /\ request' \in {request, [request EXCEPT ![p] = {}]}
  /\ UNCHANGED <<born, stored, removed>>

ConfirmRemoval(p, u, f) ==
  /\ request[p] = {<<u, f>>}
  /\ f \in born \ removed
  /\ catalog[f] = NoUser
  /\ removed' = removed \cup {f}
  /\ request' = [request EXCEPT ![p] = {}]
  /\ UNCHANGED <<catalog, born, stored>>

(* One request ends without a confirmation, or all of them do in a crash. *)
GiveUp(P) ==
  /\ request' = [p \in Proc |-> IF p \in P THEN {} ELSE request[p]]
  /\ UNCHANGED <<catalog, born, stored, removed>>

Next ==
  \/ \E f \in File, u \in User : Publish(f, u)
  \/ \E p \in Proc, u \in User, f \in File :
       AskRemoval(p, u, f) \/ ConfirmRemoval(p, u, f)
  \/ \E p \in Proc, f \in File : Retire(p, f)
  \/ \E P \in SUBSET Proc : GiveUp(P)

Spec == Init /\ [][Next]_vars
===============================================================================
