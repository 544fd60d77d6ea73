------------------------------ MODULE ShareNames ------------------------------
(***************************************************************************)
(* FilesUseCase with a memory of the names that shares were made by.       *)
(*                                                                         *)
(* ShareByUsername and RevokeShareByUsername each resolve the name they    *)
(* are given, at different times, first as it is and then with a '@' in    *)
(* front; files_permissions keeps the account, not the name.               *)
(***************************************************************************)
EXTENDS FilesUseCase

VARIABLES
  asked,     \* history: the name that a request came with
  sharedBy   \* history: file, name and account of every share that was answered

namesVars == <<vars, asked, sharedBy>>

NamesInit ==
  /\ Init
  /\ asked = [p \in Proc |-> NoName]
  /\ sharedBy = {}

SharedNow == {p \in Proc : pc[p] = "sh_grant" /\ pc'[p] = "2xx"}

Remember ==
  /\ asked' = [p \in Proc |->
       CASE op'[p] = "none"           -> NoName
         [] typed'[p] # NoName -> typed'[p]
         [] OTHER                 -> asked[p]]
  /\ sharedBy' = sharedBy \cup
       {<<file[p], asked[p], target[p]>> : p \in SharedNow}

NamesNext == Next /\ Remember

NamesSpec == NamesInit /\ [][NamesNext]_namesVars

(* README.md:271 says of DELETE /files/:id/share/:username that it         *)
(* "Revokes access for a username": once it is answered with 204, nobody   *)
(* has the file any more who got it from its owner by that username.       *)
RevokeUndoesShare ==
  [][\A p \in Proc :
       pc[p] = "rv_delete" /\ pc'[p] = "2xx" /\ asked[p] # NoName =>
         \A s \in sharedBy :
           s[1] = file[p] /\ s[2] = asked[p] => perms'[file[p]][s[3]] = 0
    ]_namesVars

(* Where names are not mistaken for one another: nobody is called 'bob'     *)
(* while somebody is called '@bob', and who has a name keeps it.            *)
Unambiguous == \A n \in Plain : Account(n) = {} \/ Account(At(n)) = {}
NamesKept == [][\A u \in User : names[u] # NoName => names'[u] = names[u]]_namesVars
===============================================================================
