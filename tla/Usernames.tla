------------------------------ MODULE Usernames ------------------------------
(***************************************************************************)
(* The column users.username as the rest of the program may rely on it.    *)
(* A row stays, a username is somebody's alone, and only a username with   *)
(* a leading '@' ever takes the place of another.                          *)
(*                                                                         *)
(* Identity implements this specification (see UsernamesOf there).  The    *)
(* file use cases look usernames up while it runs: it is the environment   *)
(* of FilesUseCase, and allows more than Identity does, which renames the  *)
(* accounts of Telegram users only.                                        *)
(***************************************************************************)
CONSTANTS
  User,    \* account ids
  Name,    \* usernames
  Marked,  \* the usernames with a leading '@'
  NoName   \* the username of an id that has no row

VARIABLE
  names    \* the username of each account

Init == names = [u \in User |-> NoName]

Free(n) == \A u \in User : names[u] # n

Register(u, n) ==
  /\ names[u] = NoName /\ Free(n)
  /\ names' = [names EXCEPT ![u] = n]

Rename(u, n) ==
  /\ names[u] # NoName /\ n \in Marked /\ Free(n)
  /\ names' = [names EXCEPT ![u] = n]

Next == \E u \in User, n \in Name : Register(u, n) \/ Rename(u, n)

Spec == Init /\ [][Next]_names
===============================================================================
