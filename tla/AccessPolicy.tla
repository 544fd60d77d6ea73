----------------------------- MODULE AccessPolicy -----------------------------
(***************************************************************************)
(* Who may read which file, and at whose command that changes: what        *)
(* sharing promises, with the tables, the names, the failures and the      *)
(* statement boundaries left out.                                          *)
(*                                                                         *)
(* A command that is answered as carried out has been carried out, for the *)
(* account it was aimed at; one that fails may have been, or in part.      *)
(*                                                                         *)
(* FilesUseCase implements this specification (see PolicyOf there).        *)
(***************************************************************************)
CONSTANTS
  Proc,     \* requests
  User,     \* account ids
  File,     \* file ids
  NoUser    \* the owner of no file, and the target of no command

VARIABLES
  owner,    \* the owner of every published file
  readers,  \* the accounts a file is shared with
  command,  \* the pending command of each request: kind, giver, file, target
  told      \* the requests answered that their command is carried out

vars == <<owner, readers, command, told>>

Kinds == {"share", "revoke", "delete"}
Command == [kind : Kinds, giver : User, file : File, target : User \cup {NoUser}]

TypeOK ==
  /\ owner \in [File -> User \cup {NoUser}]
  /\ readers \in [File -> SUBSET User]
  /\ command \in [Proc -> SUBSET Command]
  /\ told \in SUBSET Proc

Init ==
  /\ owner = [f \in File |-> NoUser]
  /\ readers = [f \in File |-> {}]
  /\ command = [p \in Proc |-> {}]
  /\ told = {}

(* Commands of a file's owner are the ones that change anything. *)
ByOwner(c) == owner[c.file] = c.giver

Withdrawn(p) == [command EXCEPT ![p] = {}]

(* The command ends, and its giver may learn of it or not. *)
Carried(p) ==
  /\ command' = Withdrawn(p)
  /\ told' \in {told, told \cup {p}}

(* The command goes on, or ends here without success. *)
Proceed(p) == command' \in {command, Withdrawn(p)} /\ UNCHANGED told

(* A file begins its life unshared. *)
Publish(f, u) ==
  /\ owner[f] = NoUser /\ readers[f] = {}
  /\ owner' = [owner EXCEPT ![f] = u]
  /\ UNCHANGED <<readers, command, told>>

Issue(p) ==
  /\ command[p] = {}
  /\ \E c \in Command : command' = [command EXCEPT ![p] = {c}]
  /\ UNCHANGED <<owner, readers, told>>

(* The name that a command came with is found to be t's. *)
Aim(p, c, t) ==
  /\ c.kind # "delete" /\ c.target = NoUser
  /\ command' = [command EXCEPT ![p] = {[c EXCEPT !.target = t]}]
  /\ UNCHANGED <<owner, readers, told>>

Share(p, c) ==
  /\ c.kind = "share" /\ c.target \in User /\ ByOwner(c)
  /\ readers' = [readers EXCEPT ![c.file] = @ \cup {c.target}]
  /\ Carried(p) /\ UNCHANGED owner

(* Whoever else the file is shared with keeps the access. *)
Revoke(p, c) ==
  /\ c.kind = "revoke" /\ c.target \in User /\ ByOwner(c)
  /\ readers' = [readers EXCEPT ![c.file] = @ \ {c.target}]
  /\ Carried(p) /\ UNCHANGED owner

(* A removal takes the shares first, and may get no further. *)
Unshare(p, c) ==
  /\ c.kind = "delete" /\ ByOwner(c)
  /\ readers' = [readers EXCEPT ![c.file] = {}]
  /\ Proceed(p) /\ UNCHANGED owner

Retire(p, c) ==
  /\ c.kind = "delete" /\ ByOwner(c)
  /\ owner' = [owner EXCEPT ![c.file] = NoUser]
  /\ readers' = [readers EXCEPT ![c.file] = {}]
  /\ Proceed(p)

(* When the file is gone, a removal is carried out and so is a revocation. *)
Confirm(p, c) ==
  /\ c.kind # "share"
  /\ owner[c.file] = NoUser /\ readers[c.file] = {}
  /\ Carried(p) /\ UNCHANGED <<owner, readers>>

(* The requests of P are over, with or without a success before. *)
Finish(P) ==
  /\ command' = [p \in Proc |-> IF p \in P THEN {} ELSE command[p]]
  /\ told' = told \ P
  /\ UNCHANGED <<owner, readers>>

Next ==
  \/ \E f \in File, u \in User : Publish(f, u)
  \/ \E p \in Proc : Issue(p)
  \/ \E p \in Proc : \E c \in command[p] :
       \/ \E t \in User : Aim(p, c, t)
       \/ Share(p, c)
       \/ Revoke(p, c)
       \/ Unshare(p, c)
       \/ Retire(p, c)
       \/ Confirm(p, c)
  \/ \E P \in SUBSET Proc : Finish(P)

Spec == Init /\ [][Next]_vars
===============================================================================
