----------------------------- MODULE TelegramBot -----------------------------
(***************************************************************************)
(* internal/telegram: the bot's handlers over its session store.           *)
(*                                                                         *)
(* Every update runs in a goroutine of its own.  The store keeps one       *)
(* session for a chat, read and written whole, under a mutex; a handler    *)
(* reads it, works on its copy and writes that back.  A step is one access *)
(* to the store or one call of a use case.  What a call does to files is   *)
(* what AccessPolicy promises of it: it takes effect at once for the owner *)
(* of the file, or not at all, or in part, or without being told.          *)
(*                                                                         *)
(* In Telegram a private chat has the id of its person; a group has an id  *)
(* of its own.  What a chat shows, prompts and buttons, stays there when    *)
(* the bot is restarted, and only the sessions are lost.                    *)
(***************************************************************************)
CONSTANTS
  Proc,     \* goroutines
  Person,   \* Telegram users, and so their private chats
  Group,    \* group chats
  Alias,    \* the names that a person's accounts are looked up by
  File,     \* the ids that uuid.NewString() will produce: bounds the uploads
  None,     \* no chat, person, account or file
  Ops,      \* bound: the kinds of updates that are sent
  Faults,   \* "call": a use case fails, "crash"
  Waits,    \* people wait for the "end" of a handler, its "answer", or "no"
  Focused   \* people finish with one file before they turn to another

Chat == Person \cup Group
User == Person \X Alias
AccountsOf(t) == {t} \X Alias

(* What handleAuthFlow sees, and what buttons carry. *)
Texts == {"text", "cancel", "get", "files"}
Selections == {"share", "grants"}
Kinds == Texts \cup Selections \cup {"upload", "list", "own", "shared", "del", "rev"}

ASSUME BotAssumption ==
  /\ None \notin Person \cup Group \cup File \cup User
  /\ Person \cap Group = {}
  /\ Ops \subseteq Kinds
  /\ Faults \subseteq {"call", "crash"}
  /\ Waits \in {"end", "answer", "no"}
  /\ Focused \in BOOLEAN

VARIABLES
  owner,    \* files: the owner of each file that has a row
  readers,  \* files_permissions: whom each file is shared with
  used,     \* ids drawn
  sess,     \* the session store
  pc,       \* next step of each goroutine
  upd,      \* the update that it handles
  acct,     \* the account that EnsureTelegramUser found for its sender
  snap,     \* its copy of the session
  prompt,   \* the chat: the file of the open "Share: enter username", if any
  lists,    \* the chat: its "Revoke" buttons, by the file they were listed for
  picked,   \* history: files selected in the chat since the start
  asked     \* history: chats that were asked for a username since the start

tables == <<owner, readers, used>>
call == <<pc, upd, acct, snap>>
history == <<picked, asked>>
screen == <<prompt, lists, picked, asked>>
vars == <<owner, readers, used, sess, pc, upd, acct, snap,
          prompt, lists, picked, asked>>

Session == [user : User \cup {None}, mode : {"none", "share"}, file : File \cup {None}]
NoSession == [user |-> None, mode |-> "none", file |-> None]

Update == [kind : Kinds, chat : Chat, who : Person,
           file : File \cup {None}, target : User \cup {None}]
NoUpdate == [kind |-> "none", chat |-> None, who |-> None,
             file |-> None, target |-> None]

Labels == {"ensure", "s_get", "s_set", "f_get", "f_share", "f_refused", "f_clear",
           "get", "set", "call", "g_get", "g_call"}

TypeOK ==
  /\ owner \in [File -> User \cup {None}]
  /\ readers \in [File -> SUBSET User]
  /\ used \in SUBSET File
  /\ sess \in [Chat -> Session]
  /\ pc \in [Proc -> Labels \cup {"idle"}]
  /\ upd \in [Proc -> Update \cup {NoUpdate}]
  /\ acct \in [Proc -> User \cup {None}]
  /\ snap \in [Proc -> Session]
  /\ prompt \in [Chat -> File \cup {None}]
  /\ lists \in [Chat -> SUBSET (File \X User)]
  /\ picked \in [Chat -> SUBSET File]
  /\ asked \in SUBSET Chat

Init ==
  /\ owner = [f \in File |-> None]
  /\ readers = [f \in File |-> {}]
  /\ used = {}
  /\ sess = [c \in Chat |-> NoSession]
  /\ pc = [p \in Proc |-> "idle"]
  /\ upd = [p \in Proc |-> NoUpdate]
  /\ acct = [p \in Proc |-> None]
  /\ snap = [p \in Proc |-> NoSession]
  /\ prompt = [c \in Chat |-> None]
  /\ lists = [c \in Chat |-> {}]
  /\ picked = [c \in Chat |-> {}]
  /\ asked = {}

-------------------------------------------------------------------------------
(* The session store and the steps of a handler.                            *)

Goto(p, label) ==
  /\ pc' = [pc EXCEPT ![p] = label]
  /\ UNCHANGED <<upd, acct, snap>>

End(p) ==
  /\ pc' = [pc EXCEPT ![p] = "idle"]
  /\ upd' = [upd EXCEPT ![p] = NoUpdate]
  /\ acct' = [acct EXCEPT ![p] = None]
  /\ snap' = [snap EXCEPT ![p] = NoSession]

(* p takes a copy of the session of its chat. *)
Get(p, label) ==
  /\ snap' = [snap EXCEPT ![p] = sess[upd[p].chat]]
  /\ pc' = [pc EXCEPT ![p] = label]
  /\ UNCHANGED <<upd, acct, sess>>

(* Broken variant: one session for all chats. *)
SetEverywhere(p, s) == sess' = [c \in Chat |-> s]

Set(p, s) == sess' = [sess EXCEPT ![upd[p].chat] = s]

(* The answer to p's update says that no username is being asked for. *)
Unprompt(p) == prompt' = [prompt EXCEPT ![upd[p].chat] = None]

-------------------------------------------------------------------------------
(* Updates.  A person types, sends a file or presses a button, after having *)
(* waited for what became of the update before.                             *)

Awaited(q) ==
  \/ Waits = "end" /\ pc[q] # "idle"
  \/ Waits = "answer" /\ pc[q] \notin {"idle", "f_refused"}

Receive(p, kind, t, c, f, a) ==
  /\ kind \in Ops /\ pc[p] = "idle"
  /\ c \in Group \cup {t}
  /\ \A q \in Proc : Awaited(q) => upd[q].chat # c \/ upd[q].who # t
  /\ pc' = [pc EXCEPT ![p] = "ensure"]
  /\ upd' = [upd EXCEPT ![p] = [kind |-> kind, chat |-> c, who |-> t,
                                file |-> f, target |-> a]]
  /\ UNCHANGED <<tables, sess, acct, snap, prompt, history>>

(* A text, which is the username of account a, or nobody's.  It is typed    *)
(* for the file whose prompt is open in the chat.                           *)
Type(p, t, c, a) == Receive(p, "text", t, c, prompt[c], a) /\ UNCHANGED lists

(* /cancel or /start, /files, a document, or one of the two list buttons. *)
Command(p, kind, t, c) ==
  /\ kind \in {"cancel", "files", "upload", "list"}
  /\ Receive(p, kind, t, c, None, None) /\ UNCHANGED lists

(* /get, or a button of a file that is or was listed. *)
Open(p, kind, t, c, f) ==
  /\ kind \in {"get", "own", "shared", "del"} /\ f \in used
  /\ Receive(p, kind, t, c, f, None) /\ UNCHANGED lists

(* Share or "Shared with".  Who is focused has no use for older lists then, *)
(* and answers a prompt before turning to the readers of another file.      *)
Select(p, kind, t, c, f) ==
  /\ kind \in Selections /\ f \in used
  /\ Focused /\ kind = "grants" => prompt[c] \in {None, f}
  /\ Receive(p, kind, t, c, f, None)
  /\ lists' = IF Focused THEN [lists EXCEPT ![c] = {}] ELSE lists

(* A "Revoke" button, which carries a and was listed for f. *)
PressRevoke(p, t, c, f, a) ==
  /\ <<f, a>> \in lists[c]
  /\ Receive(p, "rev", t, c, f, a) /\ UNCHANGED lists

-------------------------------------------------------------------------------
(* ensureTelegramSession: find the account, then bring the session to it.   *)

Ensure(p) ==
  /\ pc[p] = "ensure"
  /\ \E a \in AccountsOf(upd[p].who) : acct' = [acct EXCEPT ![p] = a]
  /\ pc' = [pc EXCEPT ![p] = "s_get"]
  /\ UNCHANGED <<tables, sess, upd, snap, screen>>

EnsureFails(p) ==
  /\ pc[p] = "ensure" /\ "call" \in Faults
  /\ End(p) /\ UNCHANGED <<tables, sess, screen>>

Handler(p) == IF upd[p].kind \in Texts THEN "f_get" ELSE "get"

(* Broken variant: the session is locked from here to the end of a handler. *)
SessionGetLocked(p) ==
  /\ pc[p] = "s_get"
  /\ \A q \in Proc : upd[q].chat = upd[p].chat => pc[q] \in {"ensure", "s_get"}
  /\ Get(p, IF sess[upd[p].chat].user = acct[p] THEN Handler(p) ELSE "s_set")
  /\ UNCHANGED <<tables, screen>>

SessionGet(p) ==
  /\ pc[p] = "s_get"
  /\ Get(p, IF sess[upd[p].chat].user = acct[p] THEN Handler(p) ELSE "s_set")
  /\ UNCHANGED <<tables, screen>>

(* Broken variant: the Telegram id is kept, not the account that it has. *)
SessionSetTelegramId(p) ==
  /\ pc[p] = "s_set"
  /\ Set(p, [(IF snap[p].user = None THEN NoSession ELSE snap[p])
               EXCEPT !.user = upd[p].who])
  /\ Goto(p, Handler(p)) /\ UNCHANGED <<tables, screen>>

(* Broken variant: the session is begun anew when the account changes. *)
SessionSetFresh(p) ==
  /\ pc[p] = "s_set"
  /\ Set(p, [NoSession EXCEPT !.user = acct[p]])
  /\ Goto(p, Handler(p)) /\ UNCHANGED <<tables, screen>>

SessionSet(p) ==
  /\ pc[p] = "s_set"
  /\ Set(p, [(IF snap[p].user = None THEN NoSession ELSE snap[p])
               EXCEPT !.user = acct[p]])
  /\ Goto(p, Handler(p)) /\ UNCHANGED <<tables, screen>>

-------------------------------------------------------------------------------
(* handleAuthFlow: in share mode the next text is a username, or cancels.   *)

(* No dialogue: a command is served, any other text gets the menu. *)
FlowNone(p) ==
  /\ pc[p] = "f_get" /\ sess[upd[p].chat].mode = "none"
  /\ IF upd[p].kind \in {"get", "files"}
     THEN Goto(p, "get")
     ELSE End(p)
  /\ Unprompt(p) /\ UNCHANGED <<tables, sess, lists, history>>

FlowCancel(p) ==
  /\ pc[p] = "f_get" /\ sess[upd[p].chat].mode = "share" /\ upd[p].kind = "cancel"
  /\ Get(p, "f_clear") /\ UNCHANGED <<tables, screen>>

FlowShare(p) ==
  /\ pc[p] = "f_get" /\ sess[upd[p].chat].mode = "share" /\ upd[p].kind # "cancel"
  /\ IF sess[upd[p].chat].file = None
     THEN Get(p, "f_refused") /\ Unprompt(p)
     ELSE Get(p, "f_share") /\ UNCHANGED prompt
  /\ UNCHANGED <<tables, lists, history>>

(* The use case acts for the account of p's copy, if it owns the file. *)
Owns(p, f) == f # None /\ owner[f] = snap[p].user

Shared(p) ==
  /\ Owns(p, snap[p].file) /\ upd[p].target # None
  /\ readers' = [readers EXCEPT ![snap[p].file] = @ \cup {upd[p].target}]

ShareByUsername(p) ==
  /\ pc[p] = "f_share" /\ Shared(p)
  /\ Goto(p, "f_clear")
  /\ UNCHANGED <<owner, used, sess, screen>>

(* Broken variant: whoever types a wrong username is asked once more. *)
ShareRefusedOnceMore(p) ==
  /\ pc[p] = "f_share"
  /\ \/ ~Owns(p, snap[p].file) /\ UNCHANGED readers
     \/ upd[p].target = None /\ UNCHANGED readers
     \/ "call" \in Faults /\ (Shared(p) \/ UNCHANGED readers)
  /\ Goto(p, "f_get")
  /\ UNCHANGED <<owner, used, sess, screen>>

(* The person is told before the session is written. *)
ShareRefused(p) ==
  /\ pc[p] = "f_share"
  /\ \/ ~Owns(p, snap[p].file) /\ UNCHANGED readers
     \/ upd[p].target = None /\ UNCHANGED readers
     \/ "call" \in Faults /\ (Shared(p) \/ UNCHANGED readers)
  /\ Goto(p, "f_refused") /\ Unprompt(p)
  /\ UNCHANGED <<owner, used, sess, lists, history>>

(* What the dialogue leaves of the session that it has read. *)
Closed(s) == [s EXCEPT !.mode = "none", !.file = None]

(* Broken variant: a share that fails leaves the dialogue open. *)
DialogueEndIfShared(p) ==
  /\ pc[p] \in {"f_clear", "f_refused"}
  /\ Set(p, IF pc[p] = "f_clear" THEN Closed(snap[p]) ELSE snap[p])
  /\ IF pc[p] = "f_clear" THEN Unprompt(p) ELSE UNCHANGED prompt
  /\ End(p) /\ UNCHANGED <<tables, lists, history>>

DialogueEnd(p) ==
  /\ pc[p] \in {"f_clear", "f_refused"}
  /\ Set(p, Closed(snap[p]))
  /\ IF pc[p] = "f_clear" THEN Unprompt(p) ELSE UNCHANGED prompt
  /\ End(p) /\ UNCHANGED <<tables, lists, history>>

-------------------------------------------------------------------------------
(* The other handlers read the session and then do what was asked for.      *)

(* Broken variant: "Revoke" does not ask whether a file is selected. *)
HandlerGetUnchecked(p) ==
  /\ pc[p] = "get"
  /\ IF sess[upd[p].chat].user = None
     THEN End(p) /\ UNCHANGED sess
     ELSE Get(p, IF upd[p].kind \in Selections THEN "set" ELSE "call")
  /\ UNCHANGED <<tables, screen>>

HandlerGet(p) ==
  /\ pc[p] = "get"
  /\ LET s == sess[upd[p].chat] IN
       IF s.user = None \/ (upd[p].kind = "rev" /\ s.file = None)
       THEN End(p) /\ UNCHANGED sess
       ELSE Get(p, IF upd[p].kind \in Selections THEN "set" ELSE "call")
  /\ UNCHANGED <<tables, screen>>

Pick(p) ==
  picked' = [picked EXCEPT ![upd[p].chat] = @ \cup {upd[p].file}]

(* The answer to p's update asks for a username. *)
Prompt(p) ==
  /\ prompt' = [prompt EXCEPT ![upd[p].chat] = upd[p].file]
  /\ asked' = asked \cup {upd[p].chat}

(* Broken variant: a file that is selected already stays selected. *)
SelectToShareOnce(p) ==
  /\ pc[p] = "set" /\ upd[p].kind = "share"
  /\ Set(p, [snap[p] EXCEPT !.mode = "share",
                            !.file = IF @ = None THEN upd[p].file ELSE @])
  /\ Prompt(p)
  /\ End(p) /\ Pick(p) /\ UNCHANGED <<tables, lists>>

(* fileshare: the file and the mode, then the prompt. *)
SelectToShare(p) ==
  /\ pc[p] = "set" /\ upd[p].kind = "share"
  /\ Set(p, [snap[p] EXCEPT !.mode = "share", !.file = upd[p].file])
  /\ Prompt(p)
  /\ End(p) /\ Pick(p) /\ UNCHANGED <<tables, lists>>

(* filegrants: the file alone; the mode stays what it was. *)
SelectGrants(p) ==
  /\ pc[p] = "set" /\ upd[p].kind = "grants"
  /\ Set(p, [snap[p] EXCEPT !.file = upd[p].file])
  /\ Goto(p, "g_get") /\ Pick(p) /\ UNCHANGED <<tables, prompt, lists, asked>>

(* sendGrantedUsers reads the session again. *)
GrantsGet(p) ==
  /\ pc[p] = "g_get"
  /\ LET s == sess[upd[p].chat] IN
       IF s.user = None \/ s.file = None
       THEN End(p) /\ UNCHANGED sess
       ELSE Get(p, "g_call")
  /\ UNCHANGED <<tables, screen>>

GrantsShow(p) ==
  /\ pc[p] = "g_call" /\ Owns(p, snap[p].file)
  /\ lists' = [lists EXCEPT ![upd[p].chat] =
       (IF Focused THEN {} ELSE @) \cup ({snap[p].file} \X readers[snap[p].file])]
  /\ End(p) /\ UNCHANGED <<tables, sess, prompt, history>>

(* A use case, or a query, fails or has nothing to show: an answer is all. *)
CallFails(p) ==
  /\ \/ pc[p] = "g_call" /\ ~Owns(p, snap[p].file)
     \/ pc[p] = "call" /\ upd[p].kind = "rev" /\ ~Owns(p, snap[p].file)
     \/ pc[p] = "call" /\ upd[p].kind = "del" /\ ~Owns(p, upd[p].file)
     \/ pc[p] \in {"call", "g_call"} /\ "call" \in Faults
  /\ End(p) /\ UNCHANGED <<tables, sess, screen>>

(* sendFilesList and sendSharedList. *)
ShowFiles(p) ==
  /\ pc[p] = "call" /\ upd[p].kind \in {"files", "list"}
  /\ End(p) /\ UNCHANGED <<tables, sess, screen>>

(* GetForOwner and GetForUser, for a file's details or the file itself. *)
Fetch(p) ==
  /\ pc[p] = "call" /\ upd[p].kind \in {"get", "own", "shared"}
  /\ End(p) /\ UNCHANGED <<tables, sess, screen>>

(* SaveRaw, told or not. *)
Upload(p) ==
  /\ pc[p] = "call" /\ upd[p].kind = "upload"
  /\ \E f \in File \ used :
       /\ used' = used \cup {f}
       /\ owner' = [owner EXCEPT ![f] = snap[p].user]
  /\ End(p) /\ UNCHANGED <<readers, sess, screen>>

UploadRefused(p) ==
  /\ pc[p] = "call" /\ upd[p].kind = "upload" /\ used = File
  /\ End(p) /\ UNCHANGED <<tables, sess, screen>>

(* DeleteForOwner, or the first half of it. *)
Delete(p) ==
  /\ pc[p] = "call" /\ upd[p].kind = "del" /\ Owns(p, upd[p].file)
  /\ readers' = [readers EXCEPT ![upd[p].file] = {}]
  /\ \/ owner' = [owner EXCEPT ![upd[p].file] = None]
     \/ "call" \in Faults /\ UNCHANGED owner
  /\ End(p) /\ UNCHANGED <<used, sess, screen>>

(* Broken variant: the file is taken back from everybody. *)
RevokeShareFromAll(p) ==
  /\ pc[p] = "call" /\ upd[p].kind = "rev" /\ Owns(p, snap[p].file)
  /\ readers' = [readers EXCEPT ![snap[p].file] = {}]
  /\ \/ Goto(p, "g_get")
     \/ "call" \in Faults /\ End(p)
  /\ UNCHANGED <<owner, used, sess, screen>>

(* The button names the account, the session the file. *)
RevokeShare(p) ==
  /\ pc[p] = "call" /\ upd[p].kind = "rev" /\ Owns(p, snap[p].file)
  /\ readers' = [readers EXCEPT ![snap[p].file] = @ \ {upd[p].target}]
  /\ \/ Goto(p, "g_get")
     \/ "call" \in Faults /\ End(p)
  /\ UNCHANGED <<owner, used, sess, screen>>

(* The store is in memory; the chats keep on showing what they showed. *)
Crash ==
  /\ "crash" \in Faults
  /\ sess' = [c \in Chat |-> NoSession]
  /\ pc' = [p \in Proc |-> "idle"]
  /\ upd' = [p \in Proc |-> NoUpdate]
  /\ acct' = [p \in Proc |-> None]
  /\ snap' = [p \in Proc |-> NoSession]
  /\ picked' = [c \in Chat |-> {}]
  /\ asked' = {}
  /\ UNCHANGED <<tables, prompt, lists>>

-------------------------------------------------------------------------------
Send(p) == \E t \in Person, c \in Chat :
  \/ \E a \in User \cup {None} : Type(p, t, c, a)
  \/ \E kind \in Kinds : Command(p, kind, t, c)
  \/ \E kind \in Kinds, f \in File : Open(p, kind, t, c, f) \/ Select(p, kind, t, c, f)
  \/ \E f \in File, a \in User : PressRevoke(p, t, c, f, a)

Handle(p) ==
  \/ Ensure(p) \/ EnsureFails(p) \/ SessionGet(p) \/ SessionSet(p)
  \/ FlowNone(p) \/ FlowCancel(p) \/ FlowShare(p)
  \/ ShareByUsername(p) \/ ShareRefused(p) \/ DialogueEnd(p)
  \/ HandlerGet(p) \/ SelectToShare(p) \/ SelectGrants(p)
  \/ GrantsGet(p) \/ GrantsShow(p) \/ CallFails(p)
  \/ ShowFiles(p) \/ Fetch(p) \/ Upload(p) \/ UploadRefused(p)
  \/ Delete(p) \/ RevokeShare(p)

Next ==
  \/ \E p \in Proc : Send(p) \/ Handle(p)
  \/ Crash

Spec == Init /\ [][Next]_vars

(* Goroutines are scheduled and calls return; nobody has to send anything. *)
Scheduled(p) == WF_vars(Handle(p))

FairSpec == Spec /\ \A p \in Proc : Scheduled(p)

-------------------------------------------------------------------------------
Busy(p) == pc[p] # "idle"

Calls == {"f_share", "call", "g_call"}

(* In a private chat every call of a use case is made for an account of the *)
(* person who sent the update, although the account goes through a session  *)
(* that other goroutines of the chat write back from older copies.          *)
ActsForSender ==
  \A p \in Proc : pc[p] \in Calls /\ upd[p].chat \notin Group =>
    snap[p].user \in AccountsOf(upd[p].who)

(* A file is shared by its username dialogue, or has a reader revoked, or   *)
(* its readers listed, only if it was selected in that chat: no handler     *)
(* reads or writes the session of another chat, and whichever copy is       *)
(* written back last, it is one of this chat and of this run of the bot.    *)
SelectedFirst ==
  \A p \in Proc :
    \/ pc[p] \in {"f_share", "g_call"}
    \/ pc[p] = "call" /\ upd[p].kind = "rev"
    => snap[p].file \in picked[upd[p].chat]

(* p handles an update of the person whose file f is, or becomes. *)
Decides(p, f) ==
  /\ pc[p] \in {"f_share", "call"}
  /\ \/ owner[f] \in AccountsOf(upd[p].who)
     \/ owner[f] = None /\ owner'[f] \in AccountsOf(upd[p].who)

(* However stale the copies of sessions are, and however little people      *)
(* wait, access to a file changes only by an update of its owner; only whom *)
(* that update names is let in, and it takes nobody else's access away      *)
(* unless it removes the file.  This is so in private chats: in a group the *)
(* session may be another member's, whose files the update then decides on. *)
OwnersDecide ==
  [][\A f \in File :
       owner'[f] # owner[f] \/ readers'[f] # readers[f] =>
         \E p \in Proc :
           /\ Decides(p, f)
           /\ readers'[f] \ readers[f] \subseteq {upd[p].target}
           /\ upd[p].kind = "del" \/ readers[f] \ readers'[f] \subseteq {upd[p].target}
    ]_vars

(* What an update asks for, for the account of its sender: a text shares    *)
(* the file whose prompt it was typed at, a button acts on the file that it *)
(* was shown for.                                                           *)
CommandOf(p) ==
  LET ask(kind, target) == {[kind |-> kind, giver |-> acct[p],
                             file |-> upd[p].file, target |-> target]}
  IN CASE pc[p] = "f_share" /\ upd[p].target # None -> ask("share", upd[p].target)
       [] pc[p] = "call" /\ upd[p].kind = "rev"     -> ask("revoke", upd[p].target)
       [] pc[p] = "call" /\ upd[p].kind = "del"     -> ask("delete", None)
       [] OTHER                                      -> {}

(* "Shared." or "revoked" is due. *)
Told(p) ==
  \/ pc[p] = "f_clear" /\ upd[p].kind # "cancel"
  \/ upd[p].kind = "rev" /\ pc[p] \in {"g_get", "g_call"}

PolicyOf == INSTANCE AccessPolicy WITH
  NoUser <- None,
  command <- [p \in Proc |-> CommandOf(p)],
  told <- {p \in Proc : Told(p)}

(* Through the bot, access changes only as people ask for by what their     *)
(* chat shows them, each for files of their own.                            *)
ImplementsAccessPolicy == PolicyOf!Spec

(* A text typed while the chat asks for a username is taken for one if the  *)
(* bot has asked since it was started: no failed call, no change of account *)
(* and no button in between has ended the dialogue.  A prompt from before a *)
(* restart is void: what is typed at it is a command, never a username for  *)
(* whatever file was selected since.                                        *)
PromptIsKept ==
  \A p \in Proc : pc[p] = "f_get" /\ prompt[upd[p].chat] # None =>
    sess[upd[p].chat].mode = IF upd[p].chat \in asked THEN "share" ELSE "none"

(* A text that reaches the dialogue ends it, whatever comes of the share.   *)
DialogueEnds ==
  \A c \in Chat :
    (\E p \in Proc : pc[p] = "f_get" /\ upd[p].chat = c) ~> sess[c].mode = "none"

(* A handler waits for nobody: whatever the other goroutines are at, and    *)
(* whatever they have written to its session, it has a step to take.        *)
NeverBlocked ==
  \A p \in Proc : Busy(p) => ENABLED <<Handle(p)>>_vars

(* Every update is done with in the end: no handler goes round in circles,  *)
(* also not if all of its calls fail and its session keeps changing.        *)
HandlersEnd ==
  \A p \in Proc : Busy(p) ~> ~Busy(p)

-------------------------------------------------------------------------------
(* README.md:452 says "From file details, press `Share` and enter target    *)
(* username": a file is shared by the username typed at its own prompt.     *)
SharesPrompted ==
  \A p \in Proc :
    pc[p] = "f_share" /\ upd[p].kind = "text" => snap[p].file = upd[p].file

-------------------------------------------------------------------------------
(* The inductive invariant behind these properties, in parts.               *)

FilesApart ==
  /\ \A f \in File \ used : owner[f] = None
  /\ \A f \in File : owner[f] = None => readers[f] = {}

(* A session is somebody's, and a dialogue has a file. *)
Sound(s) ==
  /\ s.user = None => s = NoSession
  /\ s.mode = "share" => s.file # None

SessionsSound ==
  /\ \A c \in Chat : Sound(sess[c])
  /\ \A p \in Proc : Sound(snap[p])

(* Which updates come through a step, with which copy of the session. *)
InOrder(p) ==
  /\ ~Busy(p) => upd[p] = NoUpdate /\ snap[p] = NoSession
  /\ Busy(p) => upd[p] \in Update
  /\ Busy(p) => upd[p].chat \in Group \cup {upd[p].who}
  /\ pc[p] \notin {"idle", "ensure"} => acct[p] \in AccountsOf(upd[p].who)
  /\ upd[p].kind \in Selections \cup {"rev", "del"} => upd[p].file # None
  /\ upd[p].kind = "rev" => upd[p].target # None
  /\ upd[p].target # None => upd[p].kind \in {"text", "rev"}
  /\ pc[p] \in {"f_get", "f_share", "f_refused", "f_clear"} => upd[p].kind \in Texts
  /\ pc[p] \in {"get", "set", "call", "g_get", "g_call"} =>
       upd[p].kind \notin {"text", "cancel"}
  /\ pc[p] \in {"set", "call", "g_call", "f_share", "f_refused", "f_clear"} =>
       snap[p].user # None
  /\ pc[p] \in {"f_share", "f_refused"} => snap[p].mode = "share"
  /\ pc[p] = "f_share" => upd[p].kind # "cancel"
  /\ pc[p] = "set" => upd[p].kind \in Selections
  /\ pc[p] = "call" => upd[p].kind \notin Selections
  /\ pc[p] = "call" /\ upd[p].kind = "rev" => snap[p].file # None
  /\ pc[p] \in {"g_get", "g_call"} => upd[p].kind \in {"grants", "rev"}
  /\ pc[p] = "g_call" => snap[p].file # None

HandlersInOrder == \A p \in Proc : InOrder(p)

(* Sessions and copies of them stay in their chat. *)
OfChat(s, c) ==
  /\ s.user # None /\ c \in Person => s.user \in AccountsOf(c)
  /\ s.file # None => s.file \in picked[c]

SessionsOfChats ==
  /\ \A c \in Chat : OfChat(sess[c], c)
  /\ \A p \in Proc : Busy(p) => OfChat(snap[p], upd[p].chat)

Inv ==
  /\ TypeOK
  /\ FilesApart
  /\ SessionsSound
  /\ HandlersInOrder
  /\ SessionsOfChats

(* How people use the bot where it does what its chats show. *)
Disciplined == Waits = "end" /\ Focused /\ Group = {}

OneAtATime ==
  \A p, q \in Proc : Busy(p) /\ Busy(q) /\ upd[p].chat = upd[q].chat => p = q

(* The copy is not stale, and the session is the sender's. *)
Fresh(p) ==
  /\ pc[p] \in {"s_set", "f_share", "f_refused", "f_clear", "set", "call", "g_call"}
       => snap[p] = sess[upd[p].chat]
  /\ pc[p] \notin {"idle", "ensure", "s_get", "s_set"} =>
       sess[upd[p].chat].user = acct[p]

(* The chat shows the prompt that its session waits at, or is about to; it  *)
(* may still show one from before a restart, which no session waits at.     *)
Shows(c) ==
  IF c \in asked
    THEN prompt[c] = IF sess[c].mode = "share" THEN sess[c].file ELSE None
    ELSE sess[c].mode = "none"
Prompts(c) == Shows(c) \/ \E p \in Proc : pc[p] = "f_refused" /\ upd[p].chat = c

(* A text answers the prompt, a selection for readers leaves it true. *)
Answers(p) ==
  /\ pc[p] = "f_refused" => prompt[upd[p].chat] = None
  /\ upd[p].kind = "text" /\ pc[p] # "f_refused" => upd[p].file = prompt[upd[p].chat]
  /\ upd[p].kind = "grants" => prompt[upd[p].chat] \in {None, upd[p].file}

(* The buttons in use are for the selected file, if one is selected. *)
Listed(c) == \A b \in lists[c] : sess[c].file \in {None, b[1]}
Presses(p) ==
  /\ upd[p].kind \in Selections => lists[upd[p].chat] = {}
  /\ upd[p].kind = "rev" => sess[upd[p].chat].file \in {None, upd[p].file}

CopiesFresh == \A p \in Proc : Fresh(p)
PromptsTrue == (\A c \in Chat : Prompts(c)) /\ (\A p \in Proc : Answers(p))
ListsTrue == (\A c \in Chat : Listed(c)) /\ (\A p \in Proc : Presses(p))

FocusInv ==
  /\ OneAtATime
  /\ CopiesFresh
  /\ PromptsTrue
  /\ ListsTrue
===============================================================================
