-------------------------- MODULE TelegramBotProofs --------------------------
(* Proofs about TelegramBot, for any sets of goroutines, people and files.  *)
EXTENDS TelegramBot, TLAPS

USE DEF Chat, User, AccountsOf

LEMMA NoneApart == /\ None \notin Person /\ None \notin Group
                   /\ None \notin File /\ None \notin User
  BY BotAssumption

LEMMA NoSessionType == NoSession \in Session
  BY DEF NoSession, Session

-------------------------------------------------------------------------------
(* The parts of a goroutine, and the types that its steps keep.             *)

CallType ==
  /\ pc \in [Proc -> Labels \cup {"idle"}]
  /\ upd \in [Proc -> Update \cup {NoUpdate}]
  /\ acct \in [Proc -> User \cup {None}]
  /\ snap \in [Proc -> Session]

(* p's step leaves the other goroutines alone. *)
Others(p) ==
  \A q \in Proc \ {p} :
    /\ pc'[q] = pc[q] /\ upd'[q] = upd[q]
    /\ acct'[q] = acct[q] /\ snap'[q] = snap[q]

LEMMA GotoType ==
  ASSUME CallType, NEW p \in Proc, NEW l \in Labels, Goto(p, l)
  PROVE  /\ CallType' /\ Others(p)
         /\ pc'[p] = l /\ upd'[p] = upd[p] /\ acct'[p] = acct[p] /\ snap'[p] = snap[p]
  BY DEF CallType, Goto, Others

LEMMA EndType ==
  ASSUME CallType, NEW p \in Proc, End(p)
  PROVE  /\ CallType' /\ Others(p)
         /\ pc'[p] = "idle" /\ upd'[p] = NoUpdate /\ acct'[p] = None /\ snap'[p] = NoSession
  BY NoSessionType DEF CallType, End, Others

LEMMA GetType ==
  ASSUME CallType, sess \in [Chat -> Session], NEW p \in Proc, NEW l \in Labels,
         upd[p].chat \in Chat, Get(p, l)
  PROVE  /\ CallType' /\ Others(p) /\ sess' = sess
         /\ pc'[p] = l /\ upd'[p] = upd[p] /\ acct'[p] = acct[p]
         /\ snap'[p] = sess[upd[p].chat]
  BY DEF CallType, Get, Others

LEMMA SetType ==
  ASSUME sess \in [Chat -> Session], NEW p \in Proc, upd[p].chat \in Chat,
         NEW s \in Session, Set(p, s)
  PROVE  /\ sess' \in [Chat -> Session] /\ sess'[upd[p].chat] = s
         /\ \A c \in Chat \ {upd[p].chat} : sess'[c] = sess[c]
  BY DEF Set

LEMMA ClosedType ==
  ASSUME NEW s \in Session
  PROVE  /\ Closed(s) \in Session /\ Closed(s).user = s.user
         /\ Closed(s).mode = "none" /\ Closed(s).file = None
  BY DEF Closed, Session

-------------------------------------------------------------------------------
(* What a step of a handler can change: its own goroutine, and its chat.    *)

ChatsKept(c) ==
  \A d \in Chat \ {c} :
    /\ sess'[d] = sess[d] /\ prompt'[d] = prompt[d]
    /\ lists'[d] = lists[d] /\ picked'[d] = picked[d]
    /\ d \in asked' <=> d \in asked

LEMMA UpdateType ==
  ASSUME TypeOK, HandlersInOrder, NEW p \in Proc, Busy(p)
  PROVE  /\ upd[p] \in Update /\ upd[p].chat \in Chat
         /\ upd[p].who \in Person /\ upd[p].kind \in Kinds
         /\ upd[p].file \in File \cup {None} /\ upd[p].target \in User \cup {None}
         /\ pc[p] \in Labels /\ snap[p] \in Session /\ sess[upd[p].chat] \in Session
         /\ snap[p].user \in User \cup {None} /\ snap[p].file \in File \cup {None}
  BY DEF TypeOK, HandlersInOrder, InOrder, Busy, Update, Session

LEMMA HandleType ==
  ASSUME TypeOK, HandlersInOrder, NEW p \in Proc, Handle(p)
  PROVE  TypeOK' /\ Others(p) /\ ChatsKept(upd[p].chat) /\ upd'[p] \in {upd[p], NoUpdate}
<1> DEFINE Goal == TypeOK' /\ Others(p) /\ ChatsKept(upd[p].chat)
                   /\ upd'[p] \in {upd[p], NoUpdate}
<1>0. /\ Busy(p) /\ CallType /\ sess \in [Chat -> Session]
      /\ prompt \in [Chat -> File \cup {None}] /\ picked \in [Chat -> SUBSET File]
      /\ lists \in [Chat -> SUBSET (File \X User)] /\ asked \in SUBSET Chat
      /\ owner \in [File -> User \cup {None}]
      /\ readers \in [File -> SUBSET User] /\ used \in SUBSET File
  <2>1. Busy(p)
    BY DEF Handle, Busy, Ensure, EnsureFails, SessionGet, SessionSet, FlowNone,
           FlowCancel, FlowShare, ShareByUsername, ShareRefused, DialogueEnd,
           HandlerGet, SelectToShare, SelectGrants, GrantsGet, GrantsShow,
           CallFails, ShowFiles, Fetch, Upload, UploadRefused, Delete, RevokeShare
  <2> QED BY <2>1 DEF TypeOK, CallType
<1>u. /\ upd[p] \in Update /\ upd[p].chat \in Chat
      /\ upd[p].who \in Person /\ upd[p].kind \in Kinds
      /\ upd[p].file \in File \cup {None} /\ upd[p].target \in User \cup {None}
      /\ pc[p] \in Labels /\ snap[p] \in Session /\ sess[upd[p].chat] \in Session
      /\ snap[p].user \in User \cup {None} /\ snap[p].file \in File \cup {None}
  BY <1>0, UpdateType
<1>l. /\ "ensure" \in Labels /\ "s_get" \in Labels /\ "s_set" \in Labels
      /\ "f_share" \in Labels /\ "f_refused" \in Labels /\ "f_clear" \in Labels
      /\ "get" \in Labels /\ "set" \in Labels /\ "call" \in Labels
      /\ "g_get" \in Labels /\ "g_call" \in Labels /\ Handler(p) \in Labels
  BY DEF Labels, Handler
<1>e. ASSUME End(p), UNCHANGED <<tables, sess, screen>> PROVE Goal
  BY <1>0, <1>u, <1>e, EndType DEF CallType, TypeOK, ChatsKept, tables, screen
<1>1. CASE Ensure(p)
  BY <1>0, <1>u, <1>1, <1>l DEF Ensure, TypeOK, CallType, Others, ChatsKept, tables, screen
<1>2. CASE EnsureFails(p)
  BY <1>2, <1>e DEF EnsureFails
<1>3. CASE SessionGet(p)
  <2> DEFINE l == IF sess[upd[p].chat].user = acct[p] THEN Handler(p) ELSE "s_set"
  <2>1. l \in Labels BY <1>l
  <2>2. Get(p, l) /\ UNCHANGED <<tables, screen>> BY <1>3 DEF SessionGet
  <2> HIDE DEF l
  <2> QED BY <1>0, <1>u, <2>1, <2>2, GetType DEF CallType, TypeOK, ChatsKept, tables, screen
<1>4. CASE SessionSet(p)
  <2> DEFINE s == [(IF snap[p].user = None THEN NoSession ELSE snap[p])
                     EXCEPT !.user = acct[p]]
  <2>1. s \in Session
    BY <1>0, <1>u, NoSessionType DEF Session, CallType
  <2>2. Set(p, s) /\ Goto(p, Handler(p)) /\ UNCHANGED <<tables, screen>>
    BY <1>4 DEF SessionSet
  <2> HIDE DEF s
  <2> QED BY <1>0, <1>u, <1>l, <2>1, <2>2, SetType, GotoType
          DEF CallType, TypeOK, ChatsKept, tables, screen
<1>5. CASE FlowNone(p)
  <2>1. Goto(p, "get") \/ End(p) BY <1>5 DEF FlowNone
  <2>2. /\ CallType' /\ Others(p) /\ upd'[p] \in {upd[p], NoUpdate}
    BY <1>0, <1>l, <2>1, GotoType, EndType
  <2> QED BY <1>0, <1>u, <1>5, <2>2
          DEF FlowNone, Unprompt, CallType, TypeOK, ChatsKept, tables, history
<1>6. CASE FlowCancel(p)
  <2>1. Get(p, "f_clear") /\ UNCHANGED <<tables, screen>> BY <1>6 DEF FlowCancel
  <2> QED BY <1>0, <1>u, <1>l, <2>1, GetType DEF CallType, TypeOK, ChatsKept, tables, screen
<1>7. CASE FlowShare(p)
  <2>1. Get(p, "f_share") \/ Get(p, "f_refused") BY <1>7 DEF FlowShare
  <2>2. CallType' /\ Others(p) /\ sess' = sess /\ upd'[p] = upd[p]
    BY <1>0, <1>u, <1>l, <2>1, GetType
  <2>3. UNCHANGED prompt \/ Unprompt(p) BY <1>7 DEF FlowShare
  <2> QED BY <1>0, <1>u, <1>7, <2>2, <2>3
          DEF FlowShare, Unprompt, CallType, TypeOK, ChatsKept, tables, history
<1>8. CASE ShareByUsername(p)
  <2>1. CallType' /\ Others(p) /\ upd'[p] = upd[p]
    BY <1>0, <1>l, <1>8, GotoType DEF ShareByUsername
  <2> QED BY <1>0, <1>u, <1>8, <2>1
          DEF ShareByUsername, Shared, Owns, CallType, TypeOK, ChatsKept, screen
<1>9. CASE ShareRefused(p)
  <2>1. CallType' /\ Others(p) /\ upd'[p] = upd[p]
    BY <1>0, <1>l, <1>9, GotoType DEF ShareRefused
  <2>2. readers' \in [File -> SUBSET User]
    BY <1>0, <1>u, <1>9 DEF ShareRefused, Shared, Owns
  <2> QED BY <1>0, <1>u, <1>9, <2>1, <2>2
          DEF ShareRefused, Unprompt, CallType, TypeOK, ChatsKept, history
<1>10. CASE DialogueEnd(p)
  <2>1. End(p) /\ Set(p, Closed(snap[p])) BY <1>10 DEF DialogueEnd
  <2>2. UNCHANGED prompt \/ Unprompt(p) BY <1>10 DEF DialogueEnd
  <2>3. Closed(snap[p]) \in Session BY <1>u, ClosedType
  <2>4. /\ sess' \in [Chat -> Session] /\ CallType' /\ Others(p) /\ upd'[p] = NoUpdate
        /\ \A c \in Chat \ {upd[p].chat} : sess'[c] = sess[c]
    BY <1>0, <1>u, <2>1, <2>3, SetType, EndType
  <2> QED BY <1>0, <1>u, <1>10, <2>2, <2>4
          DEF DialogueEnd, Unprompt, CallType, TypeOK, ChatsKept, tables, history
<1>11. CASE HandlerGet(p)
  <2>1. UNCHANGED <<tables, screen>> BY <1>11 DEF HandlerGet
  <2>2. \/ End(p) /\ UNCHANGED sess
        \/ Get(p, "set") \/ Get(p, "call")
    BY <1>11 DEF HandlerGet
  <2> QED BY <1>0, <1>u, <1>l, <1>e, <2>1, <2>2, GetType
          DEF CallType, TypeOK, ChatsKept, tables, screen
<1>12. CASE SelectToShare(p)
  <2> DEFINE s == [snap[p] EXCEPT !.mode = "share", !.file = upd[p].file]
  <2>1. s \in Session BY <1>u DEF Session
  <2>2. End(p) /\ Set(p, s) BY <1>12 DEF SelectToShare
  <2> HIDE DEF s
  <2>3. /\ sess' \in [Chat -> Session] /\ CallType' /\ Others(p) /\ upd'[p] = NoUpdate
        /\ \A c \in Chat \ {upd[p].chat} : sess'[c] = sess[c]
    BY <1>0, <1>u, <2>1, <2>2, SetType, EndType
  <2>4. upd[p].file # None BY <1>12 DEF SelectToShare, HandlersInOrder, InOrder, Selections
  <2> QED BY <1>0, <1>u, <1>12, <2>3, <2>4
          DEF SelectToShare, Pick, Prompt, CallType, TypeOK, ChatsKept, tables
<1>13. CASE SelectGrants(p)
  <2> DEFINE s == [snap[p] EXCEPT !.file = upd[p].file]
  <2>1. s \in Session BY <1>u DEF Session
  <2>2. Goto(p, "g_get") /\ Set(p, s) BY <1>13 DEF SelectGrants
  <2> HIDE DEF s
  <2>3. /\ sess' \in [Chat -> Session] /\ CallType' /\ Others(p) /\ upd'[p] = upd[p]
        /\ \A c \in Chat \ {upd[p].chat} : sess'[c] = sess[c]
    BY <1>0, <1>u, <1>l, <2>1, <2>2, SetType, GotoType
  <2>4. upd[p].file # None BY <1>13 DEF SelectGrants, HandlersInOrder, InOrder, Selections
  <2> QED BY <1>0, <1>u, <1>13, <2>3, <2>4
          DEF SelectGrants, Pick, CallType, TypeOK, ChatsKept, tables
<1>14. CASE GrantsGet(p)
  <2>1. UNCHANGED <<tables, screen>> BY <1>14 DEF GrantsGet
  <2>2. \/ End(p) /\ UNCHANGED sess
        \/ Get(p, "g_call")
    BY <1>14 DEF GrantsGet
  <2> QED BY <1>0, <1>u, <1>l, <1>e, <2>1, <2>2, GetType
          DEF CallType, TypeOK, ChatsKept, tables, screen
<1>15. CASE GrantsShow(p)
  <2>1. CallType' /\ Others(p) /\ upd'[p] = NoUpdate
    BY <1>0, <1>15, EndType DEF GrantsShow
  <2>2. snap[p].file \in File BY <1>u, <1>15 DEF GrantsShow, Owns
  <2>3. {snap[p].file} \X readers[snap[p].file] \in SUBSET (File \X User)
    BY <1>0, <2>2
  <2> QED BY <1>0, <1>u, <1>15, <2>1, <2>3
          DEF GrantsShow, CallType, TypeOK, ChatsKept, tables, history
<1>16. CASE CallFails(p) BY <1>16, <1>e DEF CallFails
<1>17. CASE ShowFiles(p) \/ Fetch(p) BY <1>17, <1>e DEF ShowFiles, Fetch
<1>18. CASE Upload(p)
  <2>1. CallType' /\ Others(p) /\ upd'[p] = NoUpdate
    BY <1>0, <1>18, EndType DEF Upload
  <2> QED BY <1>0, <1>u, <1>18, <2>1 DEF Upload, CallType, TypeOK, ChatsKept, screen
<1>19. CASE UploadRefused(p) BY <1>19, <1>e DEF UploadRefused
<1>20. CASE Delete(p)
  <2>1. CallType' /\ Others(p) /\ upd'[p] = NoUpdate
    BY <1>0, <1>20, EndType DEF Delete
  <2>2. owner' \in [File -> User \cup {None}] /\ readers' \in [File -> SUBSET User]
    BY <1>0, <1>20 DEF Delete
  <2> QED BY <1>0, <1>u, <1>20, <2>1, <2>2 DEF Delete, CallType, TypeOK, ChatsKept, screen
<1>21. CASE RevokeShare(p)
  <2>1. CallType' /\ Others(p) /\ upd'[p] \in {upd[p], NoUpdate}
    BY <1>0, <1>l, <1>21, EndType, GotoType DEF RevokeShare
  <2> QED BY <1>0, <1>u, <1>21, <2>1 DEF RevokeShare, CallType, TypeOK, ChatsKept, screen
<1> QED BY <1>1, <1>2, <1>3, <1>4, <1>5, <1>6, <1>7, <1>8, <1>9, <1>10, <1>11,
           <1>12, <1>13, <1>14, <1>15, <1>16, <1>17, <1>18, <1>19, <1>20, <1>21
        DEF Handle

-------------------------------------------------------------------------------
(* Updates arrive.                                                          *)

(* What can be said of every update, however it is sent. *)
Arrives(p, kind, t, c, f, a) ==
  /\ Receive(p, kind, t, c, f, a)
  /\ kind \in Selections \cup {"rev", "del"} => f # None
  /\ kind = "rev" => a # None /\ <<f, a>> \in lists[c]
  /\ a # None => kind \in {"text", "rev"}
  /\ kind = "text" => f = prompt[c]
  /\ Focused /\ kind = "grants" => prompt[c] \in {None, f}
  /\ Focused /\ kind \in Selections => lists'[c] = {}
  /\ lists' \in [Chat -> SUBSET (File \X User)]
  /\ \A d \in Chat : lists'[d] \in SUBSET lists[d]

LEMMA SendArrives ==
  ASSUME TypeOK, NEW p \in Proc, Send(p)
  PROVE  \E kind \in Kinds, t \in Person, c \in Chat,
            f \in File \cup {None}, a \in User \cup {None} : Arrives(p, kind, t, c, f, a)
<1> PICK t \in Person, c \in Chat :
      \/ \E a \in User \cup {None} : Type(p, t, c, a)
      \/ \E kind \in Kinds : Command(p, kind, t, c)
      \/ \E kind \in Kinds, f \in File : Open(p, kind, t, c, f) \/ Select(p, kind, t, c, f)
      \/ \E f \in File, a \in User : PressRevoke(p, t, c, f, a)
  BY DEF Send
<1>0. /\ lists \in [Chat -> SUBSET (File \X User)] /\ prompt[c] \in File \cup {None}
      /\ None \notin File /\ None \notin User
      /\ "text" \in Kinds /\ "rev" \in Kinds
  BY NoneApart DEF TypeOK, Kinds, Texts
<1>1. CASE \E a \in User \cup {None} : Type(p, t, c, a)
  <2> PICK a \in User \cup {None} : Type(p, t, c, a) BY <1>1
  <2>1. Arrives(p, "text", t, c, prompt[c], a)
    BY <1>0 DEF Type, Arrives, Selections
  <2> QED BY <1>0, <2>1
<1>2. CASE \E kind \in Kinds : Command(p, kind, t, c)
  <2> PICK kind \in Kinds : Command(p, kind, t, c) BY <1>2
  <2>1. Arrives(p, kind, t, c, None, None)
    BY <1>0 DEF Command, Arrives, Selections
  <2> QED BY <2>1
<1>3. CASE \E kind \in Kinds, f \in File : Open(p, kind, t, c, f)
  <2> PICK kind \in Kinds, f \in File : Open(p, kind, t, c, f) BY <1>3
  <2>1. Arrives(p, kind, t, c, f, None)
    BY <1>0 DEF Open, Arrives, Selections
  <2> QED BY <2>1
<1>4. CASE \E kind \in Kinds, f \in File : Select(p, kind, t, c, f)
  <2> PICK kind \in Kinds, f \in File : Select(p, kind, t, c, f) BY <1>4
  <2>1. Arrives(p, kind, t, c, f, None)
    BY <1>0 DEF Select, Arrives, Selections
  <2> QED BY <2>1
<1>5. CASE \E f \in File, a \in User : PressRevoke(p, t, c, f, a)
  <2> PICK f \in File, a \in User : PressRevoke(p, t, c, f, a) BY <1>5
  <2>1. Arrives(p, "rev", t, c, f, a)
    BY <1>0 DEF PressRevoke, Arrives, Selections
  <2> QED BY <1>0, <2>1
<1> QED BY <1>1, <1>2, <1>3, <1>4, <1>5

LEMMA ArrivesType ==
  ASSUME TypeOK, NEW p \in Proc, NEW kind \in Kinds, NEW t \in Person, NEW c \in Chat,
         NEW f \in File \cup {None}, NEW a \in User \cup {None},
         Arrives(p, kind, t, c, f, a)
  PROVE  /\ TypeOK' /\ Others(p) /\ UNCHANGED <<tables, sess, prompt, history>>
         /\ c \in Group \cup {t} /\ pc[p] = "idle" /\ pc'[p] = "ensure"
         /\ acct'[p] = acct[p] /\ snap'[p] = snap[p] /\ upd'[p] \in Update
         /\ upd'[p] = [kind |-> kind, chat |-> c, who |-> t, file |-> f, target |-> a]
<1>1. [kind |-> kind, chat |-> c, who |-> t, file |-> f, target |-> a] \in Update
  BY DEF Update
<1>2. "ensure" \in Labels BY DEF Labels
<1> QED BY <1>1, <1>2 DEF Arrives, Receive, TypeOK, Others, tables, history

LEMMA CrashType ==
  ASSUME TypeOK, Crash
  PROVE  TypeOK'
  BY NoSessionType DEF TypeOK, Crash, tables

LEMMA TypeNext ==
  ASSUME TypeOK, HandlersInOrder, [Next]_vars
  PROVE  TypeOK'
<1>1. CASE \E p \in Proc : Send(p) BY <1>1, SendArrives, ArrivesType
<1>2. CASE \E p \in Proc : Handle(p) BY <1>2, HandleType
<1>3. CASE Crash BY <1>3, CrashType
<1>4. CASE UNCHANGED vars BY <1>4 DEF TypeOK, vars
<1> QED BY <1>1, <1>2, <1>3, <1>4 DEF Next

-------------------------------------------------------------------------------
(* Rows, names of readers and drawn ids stay apart.                         *)

LEMMA FilesApartHandle ==
  ASSUME TypeOK, HandlersInOrder, FilesApart, NEW p \in Proc, Handle(p)
  PROVE  FilesApart'
<1>0. /\ owner \in [File -> User \cup {None}] /\ readers \in [File -> SUBSET User]
      /\ used \in SUBSET File /\ snap[p] \in Session
  BY DEF TypeOK
<1>1. CASE UNCHANGED tables BY <1>1 DEF FilesApart, tables
<1>2. ASSUME pc[p] = "f_share", Shared(p), UNCHANGED <<owner, used>> PROVE FilesApart'
  <2>1. snap[p].user # None BY <1>2 DEF HandlersInOrder, InOrder
  <2>2. owner[snap[p].file] # None BY <1>2, <2>1 DEF Shared, Owns
  <2> QED BY <1>0, <1>2, <2>2 DEF Shared, FilesApart
<1>3. CASE ShareByUsername(p) BY <1>2, <1>3 DEF ShareByUsername
<1>4. CASE ShareRefused(p)
  <2>1. Shared(p) \/ UNCHANGED readers BY <1>4 DEF ShareRefused
  <2> QED BY <1>1, <1>2, <1>4, <2>1 DEF ShareRefused, tables
<1>5. CASE Upload(p) BY <1>0, <1>5 DEF Upload, FilesApart
<1>6. CASE Delete(p)
  <2>1. upd[p].file # None BY <1>6 DEF Delete, Owns
  <2>2. \A f \in File : owner'[f] # owner[f] => owner'[f] = None
    BY <1>0, <1>6 DEF Delete
  <2>3. \A f \in File : readers'[f] # readers[f] => readers'[f] = {}
    BY <1>0, <1>6 DEF Delete
  <2>4. \A f \in File : owner'[f] # owner[f] => readers'[f] = {}
    BY <1>0, <1>6 DEF Delete
  <2> QED BY <1>0, <1>6, <2>2, <2>3, <2>4 DEF Delete, FilesApart
<1>7. CASE RevokeShare(p) BY <1>0, <1>7 DEF RevokeShare, FilesApart
<1> QED BY <1>1, <1>3, <1>4, <1>5, <1>6, <1>7
        DEF Handle, Ensure, EnsureFails, SessionGet, SessionSet, FlowNone,
            FlowCancel, FlowShare, DialogueEnd, HandlerGet, SelectToShare, SelectGrants,
            GrantsGet, GrantsShow, CallFails, ShowFiles, Fetch, UploadRefused

LEMMA FilesApartNext ==
  ASSUME TypeOK, HandlersInOrder, FilesApart, [Next]_vars
  PROVE  FilesApart'
<1>1. CASE \E p \in Proc : Send(p)
  <2>1. UNCHANGED tables BY <1>1, SendArrives, ArrivesType
  <2> QED BY <2>1 DEF FilesApart, tables
<1>2. CASE \E p \in Proc : Handle(p) BY <1>2, FilesApartHandle
<1>3. CASE Crash BY <1>3 DEF Crash, FilesApart, tables
<1>4. CASE UNCHANGED vars BY <1>4 DEF FilesApart, vars
<1> QED BY <1>1, <1>2, <1>3, <1>4 DEF Next

-------------------------------------------------------------------------------
(* What a step does to the session store and to the copies of sessions.     *)

LEMMA StoreStep ==
  ASSUME TypeOK, HandlersInOrder, NEW p \in Proc, Handle(p)
  PROVE  /\ snap'[p] \in {snap[p], sess[upd[p].chat], NoSession}
         /\ \/ sess' = sess
            \/ SessionSet(p) \/ DialogueEnd(p) \/ SelectToShare(p) \/ SelectGrants(p)
         /\ picked' = picked \/ Pick(p)
<1>0. snap \in [Proc -> Session] BY DEF TypeOK
<1>1. CASE Ensure(p) BY <1>1 DEF Ensure, screen
<1>2. CASE EnsureFails(p) BY <1>0, <1>2 DEF EnsureFails, End, screen
<1>3. CASE SessionGet(p) BY <1>0, <1>3 DEF SessionGet, Get, screen
<1>4. CASE SessionSet(p) BY <1>4 DEF SessionSet, Goto, screen
<1>5. CASE FlowNone(p) BY <1>0, <1>5 DEF FlowNone, Goto, End, history
<1>6. CASE FlowCancel(p) BY <1>0, <1>6 DEF FlowCancel, Get, screen
<1>7. CASE FlowShare(p) BY <1>0, <1>7 DEF FlowShare, Get, history
<1>8. CASE ShareByUsername(p) BY <1>8 DEF ShareByUsername, Goto, screen
<1>9. CASE ShareRefused(p) BY <1>9 DEF ShareRefused, Goto, history
<1>10. CASE DialogueEnd(p) BY <1>0, <1>10 DEF DialogueEnd, End, history
<1>11. CASE HandlerGet(p) BY <1>0, <1>11 DEF HandlerGet, Get, End, screen
<1>12. CASE SelectToShare(p) BY <1>0, <1>12 DEF SelectToShare, End
<1>13. CASE SelectGrants(p) BY <1>13 DEF SelectGrants, Goto
<1>14. CASE GrantsGet(p) BY <1>0, <1>14 DEF GrantsGet, Get, End, screen
<1>15. CASE GrantsShow(p) BY <1>0, <1>15 DEF GrantsShow, End, history
<1>16. CASE CallFails(p) BY <1>0, <1>16 DEF CallFails, End, screen
<1>17. CASE ShowFiles(p) \/ Fetch(p) BY <1>0, <1>17 DEF ShowFiles, Fetch, End, screen
<1>18. CASE Upload(p) BY <1>0, <1>18 DEF Upload, End, screen
<1>19. CASE UploadRefused(p) BY <1>0, <1>19 DEF UploadRefused, End, screen
<1>20. CASE Delete(p) BY <1>0, <1>20 DEF Delete, End, screen
<1>21. CASE RevokeShare(p) BY <1>0, <1>21 DEF RevokeShare, Goto, End, screen
<1> QED BY <1>1, <1>2, <1>3, <1>4, <1>5, <1>6, <1>7, <1>8, <1>9, <1>10, <1>11,
           <1>12, <1>13, <1>14, <1>15, <1>16, <1>17, <1>18, <1>19, <1>20, <1>21
        DEF Handle

LEMMA NoSessionSound == Sound(NoSession)
  BY DEF Sound, NoSession

LEMMA HandleBusy ==
  ASSUME NEW p \in Proc, Handle(p)
  PROVE  Busy(p)
  BY DEF Handle, Busy, Ensure, EnsureFails, SessionGet, SessionSet, FlowNone,
         FlowCancel, FlowShare, ShareByUsername, ShareRefused, DialogueEnd,
         HandlerGet, SelectToShare, SelectGrants, GrantsGet, GrantsShow,
         CallFails, ShowFiles, Fetch, Upload, UploadRefused, Delete, RevokeShare

(* What p writes to the store, by what its copy was. *)
LEMMA Written ==
  ASSUME TypeOK, HandlersInOrder, NEW p \in Proc, Busy(p),
         SessionSet(p) \/ DialogueEnd(p) \/ SelectToShare(p) \/ SelectGrants(p)
  PROVE  LET c == upd[p].chat
             s == snap[p] IN
         /\ sess' \in [Chat -> Session] /\ \A d \in Chat \ {c} : sess'[d] = sess[d]
         /\ \/ /\ pc[p] = "s_set" /\ sess'[c].user = acct[p]
               /\ \/ s.user = None /\ sess'[c].mode = "none" /\ sess'[c].file = None
                  \/ s.user # None /\ sess'[c].mode = s.mode /\ sess'[c].file = s.file
            \/ /\ pc[p] \in {"f_clear", "f_refused"} /\ sess'[c].user = s.user
               /\ sess'[c].mode = "none" /\ sess'[c].file = None
            \/ /\ pc[p] = "set" /\ upd[p].kind = "share" /\ sess'[c].user = s.user
               /\ sess'[c].mode = "share" /\ sess'[c].file = upd[p].file
               /\ upd[p].file # None /\ Pick(p)
            \/ /\ pc[p] = "set" /\ upd[p].kind = "grants" /\ sess'[c].user = s.user
               /\ sess'[c].mode = s.mode /\ sess'[c].file = upd[p].file
               /\ upd[p].file # None /\ Pick(p)
<1> DEFINE c == upd[p].chat
           t == snap[p]
<1>u. /\ c \in Chat /\ t \in Session /\ sess \in [Chat -> Session]
      /\ upd[p].file \in File \cup {None} /\ acct[p] \in User \cup {None}
      /\ upd[p].kind \in Selections => upd[p].file # None
  BY UpdateType DEF TypeOK, HandlersInOrder, InOrder
<1>1. CASE SessionSet(p)
  <2> DEFINE s == [(IF t.user = None THEN NoSession ELSE t) EXCEPT !.user = acct[p]]
  <2>1. /\ s \in Session /\ s.user = acct[p]
        /\ t.user = None => s.mode = "none" /\ s.file = None
        /\ t.user # None => s.mode = t.mode /\ s.file = t.file
    BY <1>u, NoSessionType DEF Session, NoSession
  <2>2. Set(p, s) /\ pc[p] = "s_set" BY <1>1 DEF SessionSet
  <2> HIDE DEF s
  <2>3. sess' \in [Chat -> Session] /\ sess'[c] = s /\ \A d \in Chat \ {c} : sess'[d] = sess[d]
    BY <1>u, <2>1, <2>2, SetType
  <2> QED BY <2>1, <2>2, <2>3
<1>2. CASE DialogueEnd(p)
  <2> DEFINE s == Closed(t)
  <2>1. s \in Session /\ s.user = t.user /\ s.mode = "none" /\ s.file = None
    BY <1>u, ClosedType
  <2>2. Set(p, s) /\ pc[p] \in {"f_clear", "f_refused"} BY <1>2 DEF DialogueEnd
  <2> HIDE DEF s
  <2>3. sess' \in [Chat -> Session] /\ sess'[c] = s /\ \A d \in Chat \ {c} : sess'[d] = sess[d]
    BY <1>u, <2>1, <2>2, SetType
  <2> QED BY <2>1, <2>2, <2>3
<1>3. CASE SelectToShare(p)
  <2> DEFINE s == [t EXCEPT !.mode = "share", !.file = upd[p].file]
  <2>1. s \in Session /\ s.user = t.user /\ s.mode = "share" /\ s.file = upd[p].file
    BY <1>u DEF Session
  <2>2. Set(p, s) /\ pc[p] = "set" /\ upd[p].kind = "share" /\ Pick(p)
    BY <1>3 DEF SelectToShare
  <2> HIDE DEF s
  <2>3. sess' \in [Chat -> Session] /\ sess'[c] = s /\ \A d \in Chat \ {c} : sess'[d] = sess[d]
    BY <1>u, <2>1, <2>2, SetType
  <2> QED BY <1>u, <2>1, <2>2, <2>3 DEF Selections
<1>4. CASE SelectGrants(p)
  <2> DEFINE s == [t EXCEPT !.file = upd[p].file]
  <2>1. s \in Session /\ s.user = t.user /\ s.mode = t.mode /\ s.file = upd[p].file
    BY <1>u DEF Session
  <2>2. Set(p, s) /\ pc[p] = "set" /\ upd[p].kind = "grants" /\ Pick(p)
    BY <1>4 DEF SelectGrants
  <2> HIDE DEF s
  <2>3. sess' \in [Chat -> Session] /\ sess'[c] = s /\ \A d \in Chat \ {c} : sess'[d] = sess[d]
    BY <1>u, <2>1, <2>2, SetType
  <2> QED BY <1>u, <2>1, <2>2, <2>3 DEF Selections
<1> QED BY <1>1, <1>2, <1>3, <1>4

LEMMA SessionsSoundHandle ==
  ASSUME TypeOK, HandlersInOrder, SessionsSound, NEW p \in Proc, Handle(p)
  PROVE  SessionsSound'
<1>0. /\ Busy(p) /\ upd[p].chat \in Chat /\ Sound(snap[p]) /\ Sound(sess[upd[p].chat])
      /\ InOrder(p) /\ \A d \in Chat : Sound(sess[d])
  BY HandleBusy, UpdateType DEF SessionsSound, HandlersInOrder
<1>1. \A q \in Proc : Sound(snap'[q])
  BY <1>0, StoreStep, HandleType, NoSessionSound DEF Others, SessionsSound
<1>2. CASE sess' = sess BY <1>0, <1>1, <1>2 DEF SessionsSound, Sound
<1>3. CASE SessionSet(p) \/ DialogueEnd(p) \/ SelectToShare(p) \/ SelectGrants(p)
  <2>1. /\ \A d \in Chat \ {upd[p].chat} : sess'[d] = sess[d]
        /\ sess'[upd[p].chat].user # None
        /\ sess'[upd[p].chat].mode = "share" => sess'[upd[p].chat].file # None
    <3>1. pc[p] \in {"s_set", "f_clear", "f_refused", "set"}
      BY <1>3 DEF SessionSet, DialogueEnd, SelectToShare, SelectGrants
    <3>2. pc[p] = "s_set" => acct[p] # None
      BY <1>0, UpdateType, NoneApart DEF InOrder
    <3>3. pc[p] # "s_set" => snap[p].user # None
      BY <1>0, <3>1 DEF InOrder
    <3>4. snap[p].mode = "share" => snap[p].file # None
      BY <1>0 DEF Sound
    <3> QED BY <1>0, <1>3, <3>2, <3>3, <3>4, Written
  <2>2. \A d \in Chat : Sound(sess'[d]) BY <1>0, <2>1 DEF Sound
  <2> QED BY <1>1, <2>2 DEF SessionsSound, Sound
<1> QED BY <1>2, <1>3, StoreStep

LEMMA SessionsSoundNext ==
  ASSUME TypeOK, HandlersInOrder, SessionsSound, [Next]_vars
  PROVE  SessionsSound'
<1>1. CASE \E p \in Proc : Send(p)
  <2>1. PICK p \in Proc : Send(p) BY <1>1
  <2>2. sess' = sess /\ snap'[p] = snap[p] /\ Others(p)
    BY <2>1, SendArrives, ArrivesType
  <2> QED BY <2>2 DEF SessionsSound, Sound, Others
<1>2. CASE \E p \in Proc : Handle(p) BY <1>2, SessionsSoundHandle
<1>3. CASE Crash BY <1>3, NoSessionSound DEF Crash, SessionsSound, Sound
<1>4. CASE UNCHANGED vars BY <1>4 DEF SessionsSound, Sound, vars
<1> QED BY <1>1, <1>2, <1>3, <1>4 DEF Next

-------------------------------------------------------------------------------
(* A handler goes through its steps in order.                               *)

LEMMA IdleInOrder ==
  ASSUME NEW p \in Proc, pc'[p] = "idle", upd'[p] = NoUpdate, snap'[p] = NoSession
  PROVE  InOrder(p)'
  BY DEF InOrder, Busy, NoUpdate, Selections

LEMMA OrderKept ==
  ASSUME NEW p \in Proc, InOrder(p), pc'[p] = pc[p], upd'[p] = upd[p],
         acct'[p] = acct[p], snap'[p] = snap[p]
  PROVE  InOrder(p)'
  BY DEF InOrder, Busy

LEMMA InOrderHandle ==
  ASSUME TypeOK, HandlersInOrder, SessionsSound, NEW p \in Proc, Handle(p)
  PROVE  InOrder(p)'
<1>0. /\ Busy(p) /\ CallType /\ InOrder(p) /\ sess \in [Chat -> Session]
      /\ Sound(sess[upd[p].chat]) /\ Sound(snap[p])
  BY HandleBusy, UpdateType DEF TypeOK, CallType, HandlersInOrder, SessionsSound
<1>u. /\ upd[p] \in Update /\ upd[p].chat \in Chat
      /\ upd[p].kind \in Kinds /\ snap[p] \in Session /\ sess[upd[p].chat] \in Session
  BY <1>0, UpdateType
<1>l. /\ "s_get" \in Labels /\ "s_set" \in Labels
      /\ "f_share" \in Labels /\ "f_refused" \in Labels /\ "f_clear" \in Labels
      /\ "get" \in Labels /\ "set" \in Labels /\ "call" \in Labels
      /\ "g_get" \in Labels /\ "g_call" \in Labels /\ Handler(p) \in Labels
  BY DEF Labels, Handler
<1>e. ASSUME End(p) PROVE InOrder(p)'
  BY <1>0, <1>e, EndType, IdleInOrder
<1>h. /\ Handler(p) = "f_get" => upd[p].kind \in Texts
      /\ Handler(p) = "get" => upd[p].kind \notin {"text", "cancel"}
      /\ Handler(p) \in {"f_get", "get"}
  BY DEF Handler, Texts
<1>1. CASE Ensure(p)
  <2>1. acct'[p] \in AccountsOf(upd[p].who)
    BY <1>0, <1>1 DEF Ensure, CallType
  <2>2. pc'[p] = "s_get" /\ upd'[p] = upd[p] /\ snap'[p] = snap[p]
    BY <1>0, <1>1 DEF Ensure, CallType
  <2> QED BY <1>0, <2>1, <2>2 DEF InOrder, Busy
<1>2. CASE EnsureFails(p) BY <1>2, <1>e DEF EnsureFails
<1>3. CASE SessionGet(p)
  <2> DEFINE l == IF sess[upd[p].chat].user = acct[p] THEN Handler(p) ELSE "s_set"
  <2>1. l \in Labels /\ l \in {Handler(p), "s_set"} BY <1>l
  <2>2. Get(p, l) /\ pc[p] = "s_get" BY <1>3 DEF SessionGet
  <2> HIDE DEF l
  <2>3. pc'[p] = l /\ upd'[p] = upd[p] /\ acct'[p] = acct[p]
    BY <1>0, <1>u, <2>1, <2>2, GetType
  <2> QED BY <1>0, <1>h, <2>1, <2>2, <2>3 DEF InOrder, Busy
<1>4. CASE SessionSet(p)
  <2>1. Goto(p, Handler(p)) /\ pc[p] = "s_set" BY <1>4 DEF SessionSet
  <2>2. pc'[p] = Handler(p) /\ upd'[p] = upd[p] /\ acct'[p] = acct[p] /\ snap'[p] = snap[p]
    BY <1>0, <1>l, <2>1, GotoType
  <2> QED BY <1>0, <1>h, <2>1, <2>2 DEF InOrder, Busy
<1>5. CASE FlowNone(p)
  <2>1. CASE End(p) BY <2>1, <1>e
  <2>2. CASE upd[p].kind \in {"get", "files"} /\ Goto(p, "get")
    <3>1. pc'[p] = "get" /\ upd'[p] = upd[p] /\ acct'[p] = acct[p] /\ snap'[p] = snap[p]
      BY <1>0, <1>l, <2>2, GotoType
    <3> QED BY <1>0, <1>5, <2>2, <3>1 DEF FlowNone, InOrder, Busy
  <2> QED BY <1>5, <2>1, <2>2 DEF FlowNone
<1>6. CASE FlowCancel(p)
  <2>1. Get(p, "f_clear") /\ pc[p] = "f_get" BY <1>6 DEF FlowCancel
  <2>2. pc'[p] = "f_clear" /\ upd'[p] = upd[p] /\ acct'[p] = acct[p]
        /\ snap'[p] = sess[upd[p].chat]
    BY <1>0, <1>u, <1>l, <2>1, GetType
  <2>3. snap'[p].user # None
    BY <1>0, <1>6, <2>2 DEF FlowCancel, Sound, NoSession
  <2> QED BY <1>0, <2>1, <2>2, <2>3 DEF InOrder, Busy
<1>7. CASE FlowShare(p)
  <2>1. pc[p] = "f_get" /\ upd[p].kind # "cancel" /\ sess[upd[p].chat].mode = "share"
    BY <1>7 DEF FlowShare
  <2>2. /\ pc'[p] \in {"f_share", "f_refused"} /\ upd'[p] = upd[p] /\ acct'[p] = acct[p]
        /\ snap'[p] = sess[upd[p].chat]
    BY <1>0, <1>u, <1>l, <1>7, GetType DEF FlowShare
  <2>3. snap'[p].user # None /\ snap'[p].mode = "share"
    BY <1>0, <2>1, <2>2 DEF Sound, NoSession
  <2> QED BY <1>0, <2>1, <2>2, <2>3 DEF InOrder, Busy
<1>8. CASE ShareByUsername(p)
  <2>1. Goto(p, "f_clear") /\ pc[p] = "f_share" BY <1>8 DEF ShareByUsername
  <2>2. pc'[p] = "f_clear" /\ upd'[p] = upd[p] /\ acct'[p] = acct[p] /\ snap'[p] = snap[p]
    BY <1>0, <1>l, <2>1, GotoType
  <2> QED BY <1>0, <2>1, <2>2 DEF InOrder, Busy
<1>9. CASE ShareRefused(p)
  <2>1. Goto(p, "f_refused") /\ pc[p] = "f_share" BY <1>9 DEF ShareRefused
  <2>2. pc'[p] = "f_refused" /\ upd'[p] = upd[p] /\ acct'[p] = acct[p] /\ snap'[p] = snap[p]
    BY <1>0, <1>l, <2>1, GotoType
  <2> QED BY <1>0, <2>1, <2>2 DEF InOrder, Busy
<1>10. CASE DialogueEnd(p) BY <1>10, <1>e DEF DialogueEnd
<1>11. CASE HandlerGet(p)
  <2>1. CASE End(p) BY <2>1, <1>e
  <2> DEFINE l == IF upd[p].kind \in Selections THEN "set" ELSE "call"
  <2>2. CASE /\ Get(p, l) /\ pc[p] = "get" /\ sess[upd[p].chat].user # None
             /\ upd[p].kind = "rev" => sess[upd[p].chat].file # None
    <3>1. /\ l \in Labels /\ l \in {"set", "call"}
          /\ l = "set" => upd[p].kind \in Selections
          /\ l = "call" => upd[p].kind \notin Selections
      BY <1>l
    <3> HIDE DEF l
    <3>2. pc'[p] = l /\ upd'[p] = upd[p] /\ acct'[p] = acct[p]
          /\ snap'[p] = sess[upd[p].chat]
      BY <1>0, <1>u, <2>2, <3>1, GetType
    <3> QED BY <1>0, <2>2, <3>1, <3>2 DEF InOrder, Busy
  <2> QED BY <1>11, <2>1, <2>2 DEF HandlerGet
<1>12. CASE SelectToShare(p) BY <1>12, <1>e DEF SelectToShare
<1>13. CASE SelectGrants(p)
  <2>1. Goto(p, "g_get") /\ pc[p] = "set" /\ upd[p].kind = "grants"
    BY <1>13 DEF SelectGrants
  <2>2. pc'[p] = "g_get" /\ upd'[p] = upd[p] /\ acct'[p] = acct[p] /\ snap'[p] = snap[p]
    BY <1>0, <1>l, <2>1, GotoType
  <2> QED BY <1>0, <2>1, <2>2 DEF InOrder, Busy
<1>14. CASE GrantsGet(p)
  <2>1. CASE End(p) BY <2>1, <1>e
  <2>2. CASE /\ Get(p, "g_call") /\ pc[p] = "g_get" /\ sess[upd[p].chat].user # None
             /\ sess[upd[p].chat].file # None
    <3>1. pc'[p] = "g_call" /\ upd'[p] = upd[p] /\ acct'[p] = acct[p]
          /\ snap'[p] = sess[upd[p].chat]
      BY <1>0, <1>u, <1>l, <2>2, GetType
    <3> QED BY <1>0, <2>2, <3>1 DEF InOrder, Busy
  <2> QED BY <1>14, <2>1, <2>2 DEF GrantsGet
<1>15. CASE GrantsShow(p) BY <1>15, <1>e DEF GrantsShow
<1>16. CASE CallFails(p) BY <1>16, <1>e DEF CallFails
<1>17. CASE ShowFiles(p) \/ Fetch(p) BY <1>17, <1>e DEF ShowFiles, Fetch
<1>18. CASE Upload(p) BY <1>18, <1>e DEF Upload
<1>19. CASE UploadRefused(p) BY <1>19, <1>e DEF UploadRefused
<1>20. CASE Delete(p) BY <1>20, <1>e DEF Delete
<1>21. CASE RevokeShare(p)
  <2>1. CASE End(p) BY <2>1, <1>e
  <2>2. CASE Goto(p, "g_get")
    <3>1. pc[p] = "call" /\ upd[p].kind = "rev" BY <1>21 DEF RevokeShare
    <3>2. pc'[p] = "g_get" /\ upd'[p] = upd[p] /\ acct'[p] = acct[p] /\ snap'[p] = snap[p]
      BY <1>0, <1>l, <2>2, GotoType
    <3> QED BY <1>0, <3>1, <3>2 DEF InOrder, Busy
  <2> QED BY <1>21, <2>1, <2>2 DEF RevokeShare
<1> QED BY <1>1, <1>2, <1>3, <1>4, <1>5, <1>6, <1>7, <1>8, <1>9, <1>10, <1>11,
           <1>12, <1>13, <1>14, <1>15, <1>16, <1>17, <1>18, <1>19, <1>20, <1>21
        DEF Handle

LEMMA OrderNext ==
  ASSUME TypeOK, HandlersInOrder, SessionsSound, [Next]_vars
  PROVE  HandlersInOrder'
<1>1. CASE \E p \in Proc : Send(p)
  <2> PICK p \in Proc : Send(p) BY <1>1
  <2> PICK kind \in Kinds, t \in Person, c \in Chat,
           f \in File \cup {None}, a \in User \cup {None} : Arrives(p, kind, t, c, f, a)
    BY SendArrives
  <2>r. /\ Others(p) /\ pc[p] = "idle" /\ pc'[p] = "ensure" /\ upd'[p] \in Update
        /\ upd'[p] = [kind |-> kind, chat |-> c, who |-> t, file |-> f, target |-> a]
        /\ c \in Group \cup {t}
    BY ArrivesType
  <2>1. /\ Others(p) /\ pc[p] = "idle" /\ pc'[p] = "ensure" /\ upd'[p] \in Update
        /\ upd'[p].kind = kind /\ upd'[p].chat = c /\ upd'[p].who = t
        /\ upd'[p].file = f /\ upd'[p].target = a /\ c \in Group \cup {t}
    BY <2>r
  <2>2. /\ kind \in Selections \cup {"rev", "del"} => f # None
        /\ kind = "rev" => a # None
        /\ a # None => kind \in {"text", "rev"}
    BY DEF Arrives
  <2>3. InOrder(p)' BY <2>1, <2>2 DEF InOrder, Busy
  <2>4. \A q \in Proc \ {p} : InOrder(q)'
    BY <2>1, OrderKept DEF Others, HandlersInOrder
  <2> QED BY <2>3, <2>4 DEF HandlersInOrder
<1>2. CASE \E p \in Proc : Handle(p)
  <2> PICK p \in Proc : Handle(p) BY <1>2
  <2>1. InOrder(p)' BY InOrderHandle
  <2>2. \A q \in Proc \ {p} : InOrder(q)'
    BY HandleType, OrderKept DEF Others, HandlersInOrder
  <2> QED BY <2>1, <2>2 DEF HandlersInOrder
<1>3. CASE Crash
  <2>1. \A p \in Proc : pc'[p] = "idle" /\ upd'[p] = NoUpdate /\ snap'[p] = NoSession
    BY <1>3 DEF Crash
  <2> QED BY <2>1, IdleInOrder DEF HandlersInOrder
<1>4. CASE UNCHANGED vars
  <2>1. UNCHANGED <<pc, upd, acct, snap>> BY <1>4 DEF vars
  <2> QED BY <2>1, OrderKept DEF HandlersInOrder
<1> QED BY <1>1, <1>2, <1>3, <1>4 DEF Next

-------------------------------------------------------------------------------
(* Sessions, and copies of them, stay in their chat.                        *)

LEMMA NoSessionOfChat == ASSUME NEW c PROVE OfChat(NoSession, c)
  BY DEF OfChat, NoSession

LEMMA PickedGrows ==
  ASSUME TypeOK, HandlersInOrder, NEW p \in Proc, Handle(p)
  PROVE  \A c \in Chat : picked[c] \subseteq picked'[c]
<1>1. picked \in [Chat -> SUBSET File] BY DEF TypeOK
<1> QED BY <1>1, StoreStep DEF Pick

LEMMA SessionsOfChatsHandle ==
  ASSUME TypeOK, HandlersInOrder, SessionsSound, SessionsOfChats, NEW p \in Proc, Handle(p)
  PROVE  SessionsOfChats'
<1>0. /\ Busy(p) /\ InOrder(p) /\ InOrder(p)' /\ upd[p].chat \in Chat
      /\ OfChat(snap[p], upd[p].chat) /\ sess \in [Chat -> Session]
      /\ picked \in [Chat -> SUBSET File] /\ upd[p].file \in File \cup {None}
      /\ upd[p].chat \in Group \cup {upd[p].who}
  BY HandleBusy, UpdateType, InOrderHandle
  DEF SessionsOfChats, HandlersInOrder, TypeOK, InOrder
<1> DEFINE Later(s, c) == /\ s.user # None /\ c \in Person => s.user \in AccountsOf(c)
                          /\ s.file # None => s.file \in picked'[c]
<1>1. \A s, c : c \in Chat /\ OfChat(s, c) => Later(s, c)
  BY PickedGrows DEF OfChat
<1>2. \A q \in Proc : Busy(q)' => Later(snap'[q], upd'[q].chat)
  <2> TAKE q \in Proc
  <2> HAVE Busy(q)'
  <2>1. CASE q # p
    <3>1. Busy(q) /\ upd'[q] = upd[q] /\ snap'[q] = snap[q]
      BY <2>1, HandleType DEF Others, Busy
    <3>2. upd[q].chat \in Chat /\ OfChat(snap[q], upd[q].chat)
      BY <3>1, UpdateType DEF SessionsOfChats
    <3> QED BY <1>1, <3>1, <3>2
  <2>2. CASE q = p
    <3>1. upd'[p] = upd[p]
      BY <1>0, <2>2, HandleType DEF InOrder, Update, NoUpdate, Kinds, Texts, Selections
    <3>2. OfChat(snap'[p], upd[p].chat)
      <4>1. CASE snap'[p] = snap[p] BY <1>0, <4>1
      <4>2. CASE snap'[p] = sess[upd[p].chat] BY <1>0, <4>2 DEF SessionsOfChats
      <4>3. CASE snap'[p] = NoSession BY <4>3, NoSessionOfChat
      <4> QED BY <4>1, <4>2, <4>3, StoreStep
    <3> QED BY <1>0, <1>1, <2>2, <3>1, <3>2
  <2> QED BY <2>1, <2>2
<1>3. \A c \in Chat : Later(sess'[c], c)
  <2>1. CASE sess' = sess BY <1>1, <2>1 DEF SessionsOfChats
  <2>2. CASE SessionSet(p) \/ DialogueEnd(p) \/ SelectToShare(p) \/ SelectGrants(p)
    <3>1. \A c \in Chat \ {upd[p].chat} : Later(sess'[c], c)
      BY <1>0, <1>1, <2>2, Written DEF SessionsOfChats
    <3>2. pc[p] = "s_set" => acct[p] \in AccountsOf(upd[p].who)
      BY <1>0 DEF InOrder
    <3>3. /\ upd[p].chat \in Person => upd[p].chat = upd[p].who
      BY <1>0, BotAssumption
    <3>4. Pick(p) => upd[p].file \in picked'[upd[p].chat]
      BY <1>0 DEF Pick
    <3>5. Later(snap[p], upd[p].chat) BY <1>0, <1>1
    <3>6. Later(sess'[upd[p].chat], upd[p].chat)
      BY <1>0, <2>2, <3>2, <3>3, <3>4, <3>5, Written
    <3> QED BY <3>1, <3>6
  <2> QED BY <2>1, <2>2, StoreStep
<1> QED BY <1>2, <1>3 DEF SessionsOfChats, OfChat

LEMMA SessionsOfChatsNext ==
  ASSUME TypeOK, HandlersInOrder, SessionsSound, SessionsOfChats, [Next]_vars
  PROVE  SessionsOfChats'
<1>1. CASE \E p \in Proc : Send(p)
  <2> PICK p \in Proc : Send(p) BY <1>1
  <2>1. /\ UNCHANGED <<sess, picked>> /\ Others(p) /\ snap'[p] = snap[p] /\ pc[p] = "idle"
    BY SendArrives, ArrivesType DEF history
  <2>2. snap[p] = NoSession BY <2>1 DEF HandlersInOrder, InOrder, Busy
  <2>3. \A q \in Proc \ {p} : Busy(q)' => OfChat(snap[q], upd[q].chat)'
    BY <2>1 DEF SessionsOfChats, OfChat, Others, Busy
  <2>4. OfChat(snap[p], upd[p].chat)'
    BY <2>1, <2>2 DEF OfChat, NoSession
  <2>5. \A c \in Chat : OfChat(sess[c], c)' BY <2>1 DEF SessionsOfChats, OfChat
  <2> QED BY <2>3, <2>4, <2>5 DEF SessionsOfChats
<1>2. CASE \E p \in Proc : Handle(p) BY <1>2, SessionsOfChatsHandle
<1>3. CASE Crash
  <2>1. /\ \A c \in Chat : sess'[c] = NoSession
        /\ \A p \in Proc : snap'[p] = NoSession
    BY <1>3 DEF Crash
  <2> QED BY <2>1 DEF SessionsOfChats, OfChat, NoSession
<1>4. CASE UNCHANGED vars BY <1>4 DEF SessionsOfChats, OfChat, Busy, vars
<1> QED BY <1>1, <1>2, <1>3, <1>4 DEF Next

-------------------------------------------------------------------------------
(* The invariant, and what follows from it.                                 *)

LEMMA InitInv == Init => Inv
<1> SUFFICES ASSUME Init PROVE Inv OBVIOUS
<1>1. TypeOK BY NoSessionType DEF Init, TypeOK
<1>2. FilesApart BY DEF Init, FilesApart
<1>3. SessionsSound BY NoSessionSound DEF Init, SessionsSound
<1>4. HandlersInOrder
  BY DEF Init, HandlersInOrder, InOrder, Busy, NoUpdate, Selections
<1>5. SessionsOfChats BY NoSessionOfChat DEF Init, SessionsOfChats, Busy
<1> QED BY <1>1, <1>2, <1>3, <1>4, <1>5 DEF Inv

LEMMA NextInv == Inv /\ [Next]_vars => Inv'
  BY TypeNext, FilesApartNext, SessionsSoundNext, OrderNext, SessionsOfChatsNext DEF Inv

(* Inv is an invariant: files stay apart, sessions are somebody's, handlers *)
(* go through their steps in order, and sessions stay in their chats.       *)
THEOREM Invariance == Spec => []Inv
  BY InitInv, NextInv, PTL DEF Spec

(* The variables keep their types. *)
THEOREM TypeCorrect == Spec => []TypeOK
<1>1. Inv => TypeOK BY DEF Inv
<1> QED BY <1>1, Invariance, PTL

(* For any number of people in private chats, whoever's updates overlap,    *)
(* every call of a use case is made for an account of its sender.           *)
THEOREM CallsForSender == Spec => []ActsForSender
<1>1. Inv => ActsForSender
  <2> SUFFICES ASSUME Inv, NEW p \in Proc, pc[p] \in Calls, upd[p].chat \notin Group
               PROVE  snap[p].user \in AccountsOf(upd[p].who)
    BY DEF ActsForSender
  <2>1. Busy(p) /\ InOrder(p) /\ OfChat(snap[p], upd[p].chat)
    BY DEF Inv, HandlersInOrder, SessionsOfChats, Busy, Calls
  <2>2. upd[p].chat = upd[p].who /\ upd[p].who \in Person /\ snap[p].user # None
    BY <2>1, UpdateType DEF Inv, InOrder, Calls
  <2> QED BY <2>1, <2>2 DEF OfChat
<1> QED BY <1>1, Invariance, PTL

(* For any number of chats, restarts and overlapping updates, nothing is    *)
(* shared, listed or revoked but a file selected in the chat since the      *)
(* start.                                                                   *)
THEOREM NothingUnselected == Spec => []SelectedFirst
<1>1. Inv => SelectedFirst
  <2> SUFFICES ASSUME Inv, NEW p \in Proc,
                      \/ pc[p] \in {"f_share", "g_call"}
                      \/ pc[p] = "call" /\ upd[p].kind = "rev"
               PROVE  snap[p].file \in picked[upd[p].chat]
    BY DEF SelectedFirst
  <2>1. Busy(p) /\ InOrder(p) /\ Sound(snap[p]) /\ OfChat(snap[p], upd[p].chat)
    BY DEF Inv, HandlersInOrder, SessionsOfChats, SessionsSound, Busy
  <2>2. snap[p].file # None BY <2>1 DEF InOrder, Sound
  <2> QED BY <2>1, <2>2 DEF OfChat
<1> QED BY <1>1, Invariance, PTL

-------------------------------------------------------------------------------
(* However stale the copies of sessions are: an access of a file changes    *)
(* only for an update of its owner.                                         *)

(* A call with p's copy of the session is one for the sender's account. *)
LEMMA CallOfSender ==
  ASSUME Inv, NEW p \in Proc, pc[p] \in {"f_share", "call"}, Group = {}
  PROVE  snap[p].user \in AccountsOf(upd[p].who)
<1>1. Busy(p) BY DEF Busy
<1>2. /\ upd[p] \in Update /\ upd[p].chat \in Group \cup {upd[p].who}
      /\ snap[p].user # None /\ OfChat(snap[p], upd[p].chat)
  BY <1>1 DEF Inv, HandlersInOrder, InOrder, SessionsOfChats
<1> QED BY <1>2 DEF OfChat, Update

(* The account of p's copy owns f, so the sender's does. *)
LEMMA OwnerDecides ==
  ASSUME Inv, Group = {}, NEW p \in Proc, pc[p] \in {"f_share", "call"},
         NEW f, owner[f] = snap[p].user \/ (owner[f] = None /\ owner'[f] = snap[p].user)
  PROVE  Decides(p, f)
  BY CallOfSender DEF Decides

LEMMA OwnersDecideHandle ==
  ASSUME Inv, Group = {}, NEW p \in Proc, Handle(p), NEW f \in File,
         owner'[f] # owner[f] \/ readers'[f] # readers[f]
  PROVE  /\ Decides(p, f)
         /\ readers'[f] \ readers[f] \subseteq {upd[p].target}
         /\ upd[p].kind = "del" \/ readers[f] \ readers'[f] \subseteq {upd[p].target}
<1>0. /\ owner \in [File -> User \cup {None}] /\ readers \in [File -> SUBSET User]
      /\ snap[p] \in Session
  BY DEF Inv, TypeOK
<1>1. ~UNCHANGED tables BY DEF tables
<1>2. ASSUME pc[p] = "f_share", Shared(p), UNCHANGED <<owner, used>>
      PROVE  /\ Decides(p, f)
             /\ readers'[f] \ readers[f] \subseteq {upd[p].target}
             /\ readers[f] \subseteq readers'[f]
  <2>1. f = snap[p].file /\ owner[f] = snap[p].user
    BY <1>0, <1>2 DEF Shared, Owns
  <2>2. Decides(p, f) BY <1>2, <2>1, OwnerDecides
  <2> QED BY <1>0, <1>2, <2>1, <2>2 DEF Shared
<1>3. CASE ShareByUsername(p) BY <1>2, <1>3 DEF ShareByUsername
<1>4. CASE ShareRefused(p)
  <2>1. Shared(p) BY <1>1, <1>4 DEF ShareRefused, tables
  <2> QED BY <1>2, <1>4, <2>1 DEF ShareRefused
<1>5. CASE Upload(p)
  <2>1. PICK g \in File \ used : owner' = [owner EXCEPT ![g] = snap[p].user]
    BY <1>5 DEF Upload
  <2>2. readers' = readers /\ pc[p] = "call" BY <1>5 DEF Upload
  <2>3. f = g /\ owner[f] = None /\ owner'[f] = snap[p].user
    BY <1>0, <2>1, <2>2 DEF Inv, FilesApart
  <2>4. Decides(p, f) BY <2>2, <2>3, OwnerDecides
  <2> QED BY <2>2, <2>4
<1>6. CASE Delete(p)
  <2>1. /\ pc[p] = "call" /\ upd[p].kind = "del" /\ owner[upd[p].file] = snap[p].user
        /\ readers' = [readers EXCEPT ![upd[p].file] = {}]
    BY <1>6 DEF Delete, Owns
  <2>2. f = upd[p].file BY <1>0, <1>6, <2>1 DEF Delete
  <2>3. Decides(p, f) BY <2>1, <2>2, OwnerDecides
  <2> QED BY <1>0, <2>1, <2>2, <2>3
<1>7. CASE RevokeShare(p)
  <2>1. /\ pc[p] = "call" /\ owner[snap[p].file] = snap[p].user /\ owner' = owner
        /\ readers' = [readers EXCEPT ![snap[p].file] = @ \ {upd[p].target}]
    BY <1>7 DEF RevokeShare, Owns
  <2>2. f = snap[p].file BY <1>0, <2>1
  <2>3. Decides(p, f) BY <2>1, <2>2, OwnerDecides
  <2> QED BY <1>0, <2>1, <2>2, <2>3
<1> QED BY <1>1, <1>3, <1>4, <1>5, <1>6, <1>7
        DEF Handle, Ensure, EnsureFails, SessionGet, SessionSet, FlowNone,
            FlowCancel, FlowShare, DialogueEnd, HandlerGet, SelectToShare, SelectGrants,
            GrantsGet, GrantsShow, CallFails, ShowFiles, Fetch, UploadRefused

(* README.md:137 "Only owner can delete", 159 "Only owner can share": in    *)
(* private chats, for any number of updates at work at once, and whatever   *)
(* their copies of a chat's session have become, access to a file changes   *)
(* only by an update of its owner, and only for whom that update names.  In *)
(* a group it does not hold: see OwnersDecide.                              *)
THEOREM OwnersAlone == ASSUME Group = {} PROVE Spec => OwnersDecide
<1>1. Inv /\ [Next]_vars =>
        [\A f \in File :
           owner'[f] # owner[f] \/ readers'[f] # readers[f] =>
             \E p \in Proc :
               /\ Decides(p, f)
               /\ readers'[f] \ readers[f] \subseteq {upd[p].target}
               /\ upd[p].kind = "del" \/ readers[f] \ readers'[f] \subseteq {upd[p].target}
        ]_vars
  <2> SUFFICES ASSUME Inv, Next, NEW f \in File,
                      owner'[f] # owner[f] \/ readers'[f] # readers[f]
      PROVE  \E p \in Proc :
               /\ Decides(p, f)
               /\ readers'[f] \ readers[f] \subseteq {upd[p].target}
               /\ upd[p].kind = "del" \/ readers[f] \ readers'[f] \subseteq {upd[p].target}
    OBVIOUS
  <2>1. ~UNCHANGED tables BY DEF tables
  <2>2. ~Crash BY <2>1 DEF Crash
  <2>3. \A p \in Proc : ~Send(p) BY <2>1, SendArrives, ArrivesType DEF Inv
  <2>4. PICK p \in Proc : Handle(p) BY <2>2, <2>3 DEF Next
  <2> QED BY <2>4, OwnersDecideHandle
<1> QED BY <1>1, Invariance, PTL DEF Spec, OwnersDecide

-------------------------------------------------------------------------------
(* People who wait for a handler and finish with one file at a time.        *)

LEMMA OwnChat ==
  ASSUME TypeOK, HandlersInOrder, Disciplined, NEW p \in Proc, Busy(p)
  PROVE  upd[p].chat = upd[p].who /\ upd[p].chat \in Chat
  BY UpdateType DEF Disciplined, HandlersInOrder, InOrder

(* An update comes when nothing of its chat is being handled. *)
LEMMA ArrivesAlone ==
  ASSUME TypeOK, HandlersInOrder, Disciplined, NEW p \in Proc, NEW kind \in Kinds,
         NEW t \in Person, NEW c \in Chat, NEW f \in File \cup {None},
         NEW a \in User \cup {None}, Arrives(p, kind, t, c, f, a)
  PROVE  \A q \in Proc : Busy(q) => upd[q].chat # c
<1>1. c = t BY DEF Arrives, Receive, Disciplined
<1>2. \A q \in Proc : Awaited(q) => upd[q].chat # c \/ upd[q].who # t
  BY DEF Arrives, Receive
<1>3. \A q \in Proc : Busy(q) => Awaited(q) BY DEF Disciplined, Awaited, Busy
<1> QED BY <1>1, <1>2, <1>3, OwnChat

LEMMA OneAtATimeNext ==
  ASSUME TypeOK, HandlersInOrder, HandlersInOrder', Disciplined, OneAtATime, [Next]_vars
  PROVE  OneAtATime'
<1>1. CASE \E p \in Proc : Send(p)
  <2> PICK p \in Proc : Send(p) BY <1>1
  <2> PICK kind \in Kinds, t \in Person, c \in Chat,
           f \in File \cup {None}, a \in User \cup {None} : Arrives(p, kind, t, c, f, a)
    BY SendArrives
  <2>1. /\ Others(p)
        /\ upd'[p] = [kind |-> kind, chat |-> c, who |-> t, file |-> f, target |-> a]
    BY ArrivesType
  <2>2. upd'[p].chat = c BY <2>1
  <2>3. \A q \in Proc : Busy(q) => upd[q].chat # c BY ArrivesAlone
  <2> QED BY <2>1, <2>2, <2>3 DEF OneAtATime, Busy, Others
<1>2. CASE \E p \in Proc : Handle(p)
  <2> PICK p \in Proc : Handle(p) BY <1>2
  <2>1. Busy(p) /\ Others(p) BY HandleBusy, HandleType
  <2>2. CASE upd'[p] = upd[p] BY <2>1, <2>2 DEF OneAtATime, Busy, Others
  <2>3. CASE upd'[p] = NoUpdate
    <3>1. ~Busy(p)'
      BY <2>3 DEF HandlersInOrder, InOrder, Update, NoUpdate, Kinds, Texts, Selections
    <3> QED BY <2>1, <3>1 DEF OneAtATime, Busy, Others
  <2> QED BY <2>2, <2>3, HandleType
<1>3. CASE Crash BY <1>3 DEF Crash, OneAtATime, Busy
<1>4. CASE UNCHANGED vars BY <1>4 DEF OneAtATime, Busy, vars
<1> QED BY <1>1, <1>2, <1>3, <1>4 DEF Next

(* The rest of the chats, and of their handlers, sees nothing of a step.    *)
LEMMA Apart ==
  ASSUME TypeOK, HandlersInOrder, OneAtATime, NEW p \in Proc, Handle(p),
         NEW q \in Proc, q # p, Busy(q)
  PROVE  LET c == upd[q].chat IN
         /\ c \in Chat /\ upd'[q] = upd[q] /\ pc'[q] = pc[q]
         /\ acct'[q] = acct[q] /\ snap'[q] = snap[q]
         /\ sess'[c] = sess[c] /\ prompt'[c] = prompt[c] /\ lists'[c] = lists[c]
<1>1. Busy(p) BY HandleBusy
<1>2. upd[q].chat # upd[p].chat BY <1>1 DEF OneAtATime
<1>3. upd[q].chat \in Chat BY UpdateType
<1> QED BY <1>2, <1>3, HandleType DEF Others, ChatsKept

LEMMA FreshHandle ==
  ASSUME TypeOK, HandlersInOrder, CopiesFresh, NEW p \in Proc, Handle(p)
  PROVE  Fresh(p)'
<1>0. /\ Busy(p) /\ CallType /\ sess \in [Chat -> Session] /\ Fresh(p)
      /\ upd[p].chat \in Chat
  BY HandleBusy, UpdateType DEF TypeOK, CallType, CopiesFresh, Fresh
<1>l. /\ "s_get" \in Labels /\ "s_set" \in Labels
      /\ "f_share" \in Labels /\ "f_refused" \in Labels /\ "f_clear" \in Labels
      /\ "get" \in Labels /\ "set" \in Labels /\ "call" \in Labels
      /\ "g_get" \in Labels /\ "g_call" \in Labels /\ Handler(p) \in Labels
      /\ Handler(p) \in {"f_get", "get"}
  BY DEF Labels, Handler
<1>e. ASSUME End(p) PROVE Fresh(p)'
  BY <1>0, <1>e, EndType DEF Fresh
<1>g. ASSUME NEW l \in Labels, Get(p, l),
             \/ l = "s_set"
             \/ sess[upd[p].chat].user = acct[p]
      PROVE  Fresh(p)'
  <2>1. /\ pc'[p] = l /\ upd'[p] = upd[p] /\ acct'[p] = acct[p] /\ sess' = sess
        /\ snap'[p] = sess[upd[p].chat]
    BY <1>0, <1>g, GetType
  <2> QED BY <1>g, <2>1 DEF Fresh
<1>1. CASE Ensure(p) BY <1>0, <1>1 DEF Ensure, Fresh, CallType
<1>2. CASE EnsureFails(p) BY <1>2, <1>e DEF EnsureFails
<1>3. CASE SessionGet(p)
  <2> DEFINE l == IF sess[upd[p].chat].user = acct[p] THEN Handler(p) ELSE "s_set"
  <2>1. l \in Labels /\ (l = "s_set" \/ sess[upd[p].chat].user = acct[p]) BY <1>l
  <2>2. Get(p, l) BY <1>3 DEF SessionGet
  <2> HIDE DEF l
  <2> QED BY <2>1, <2>2, <1>g
<1>4. CASE SessionSet(p)
  <2>1. pc'[p] = Handler(p) /\ upd'[p] = upd[p] /\ acct'[p] = acct[p]
    BY <1>0, <1>l, <1>4, GotoType DEF SessionSet
  <2>2. sess'[upd[p].chat].user = acct[p]
    <3>1. pc[p] = "s_set" BY <1>4 DEF SessionSet
    <3> QED BY <1>0, <1>4, <3>1, Written
  <2> QED BY <1>l, <2>1, <2>2 DEF Fresh
<1>5. CASE FlowNone(p)
  <2>1. CASE End(p) BY <2>1, <1>e
  <2>2. CASE Goto(p, "get")
    <3>1. pc'[p] = "get" /\ upd'[p] = upd[p] /\ acct'[p] = acct[p] /\ sess' = sess
      BY <1>0, <1>l, <1>5, <2>2, GotoType DEF FlowNone
    <3> QED BY <1>0, <1>5, <3>1 DEF Fresh, FlowNone
  <2> QED BY <1>5, <2>1, <2>2 DEF FlowNone
<1>6. CASE FlowCancel(p)
  <2>1. sess[upd[p].chat].user = acct[p] BY <1>0, <1>6 DEF FlowCancel, Fresh
  <2> QED BY <1>6, <2>1, <1>g, <1>l DEF FlowCancel
<1>7. CASE FlowShare(p)
  <2>1. sess[upd[p].chat].user = acct[p] BY <1>0, <1>7 DEF FlowShare, Fresh
  <2>2. Get(p, "f_share") \/ Get(p, "f_refused") BY <1>7 DEF FlowShare
  <2> QED BY <2>1, <2>2, <1>g, <1>l
<1>8. CASE ShareByUsername(p)
  <2>1. /\ pc'[p] = "f_clear" /\ upd'[p] = upd[p] /\ acct'[p] = acct[p]
        /\ snap'[p] = snap[p] /\ sess' = sess
    BY <1>0, <1>l, <1>8, GotoType DEF ShareByUsername
  <2> QED BY <1>0, <1>8, <2>1 DEF Fresh, ShareByUsername
<1>9. CASE ShareRefused(p)
  <2>1. /\ pc'[p] = "f_refused" /\ upd'[p] = upd[p] /\ acct'[p] = acct[p]
        /\ snap'[p] = snap[p] /\ sess' = sess
    BY <1>0, <1>l, <1>9, GotoType DEF ShareRefused
  <2> QED BY <1>0, <1>9, <2>1 DEF Fresh, ShareRefused
<1>10. CASE DialogueEnd(p) BY <1>10, <1>e DEF DialogueEnd
<1>11. CASE HandlerGet(p)
  <2>1. CASE End(p) BY <2>1, <1>e
  <2>2. CASE Get(p, "set") \/ Get(p, "call")
    <3>1. sess[upd[p].chat].user = acct[p] BY <1>0, <1>11 DEF HandlerGet, Fresh
    <3> QED BY <2>2, <3>1, <1>g, <1>l
  <2> QED BY <1>11, <2>1, <2>2 DEF HandlerGet
<1>12. CASE SelectToShare(p) BY <1>12, <1>e DEF SelectToShare
<1>13. CASE SelectGrants(p)
  <2>1. pc'[p] = "g_get" /\ upd'[p] = upd[p] /\ acct'[p] = acct[p]
    BY <1>0, <1>l, <1>13, GotoType DEF SelectGrants
  <2>2. sess'[upd[p].chat].user = snap[p].user
    <3>1. pc[p] = "set" /\ upd[p].kind = "grants" BY <1>13 DEF SelectGrants
    <3> QED BY <1>0, <1>13, <3>1, Written
  <2> QED BY <1>0, <1>13, <2>1, <2>2 DEF Fresh, SelectGrants
<1>14. CASE GrantsGet(p)
  <2>1. CASE End(p) BY <2>1, <1>e
  <2>2. CASE Get(p, "g_call")
    <3>1. sess[upd[p].chat].user = acct[p] BY <1>0, <1>14 DEF GrantsGet, Fresh
    <3> QED BY <2>2, <3>1, <1>g, <1>l
  <2> QED BY <1>14, <2>1, <2>2 DEF GrantsGet
<1>15. CASE GrantsShow(p) BY <1>15, <1>e DEF GrantsShow
<1>16. CASE CallFails(p) BY <1>16, <1>e DEF CallFails
<1>17. CASE ShowFiles(p) \/ Fetch(p) BY <1>17, <1>e DEF ShowFiles, Fetch
<1>18. CASE Upload(p) BY <1>18, <1>e DEF Upload
<1>19. CASE UploadRefused(p) BY <1>19, <1>e DEF UploadRefused
<1>20. CASE Delete(p) BY <1>20, <1>e DEF Delete
<1>21. CASE RevokeShare(p)
  <2>1. CASE End(p) BY <2>1, <1>e
  <2>2. CASE Goto(p, "g_get")
    <3>1. pc'[p] = "g_get" /\ upd'[p] = upd[p] /\ acct'[p] = acct[p] /\ sess' = sess
      BY <1>0, <1>l, <1>21, <2>2, GotoType DEF RevokeShare
    <3> QED BY <1>0, <1>21, <3>1 DEF Fresh, RevokeShare
  <2> QED BY <1>21, <2>1, <2>2 DEF RevokeShare
<1> QED BY <1>1, <1>2, <1>3, <1>4, <1>5, <1>6, <1>7, <1>8, <1>9, <1>10, <1>11,
           <1>12, <1>13, <1>14, <1>15, <1>16, <1>17, <1>18, <1>19, <1>20, <1>21
        DEF Handle

LEMMA CopiesFreshNext ==
  ASSUME TypeOK, HandlersInOrder, OneAtATime, CopiesFresh, [Next]_vars
  PROVE  CopiesFresh'
<1>1. CASE \E p \in Proc : Send(p)
  <2> PICK p \in Proc : Send(p) BY <1>1
  <2>1. sess' = sess /\ Others(p) /\ pc'[p] = "ensure" BY SendArrives, ArrivesType
  <2> QED BY <2>1 DEF CopiesFresh, Fresh, Others
<1>2. CASE \E p \in Proc : Handle(p)
  <2> PICK p \in Proc : Handle(p) BY <1>2
  <2>1. Fresh(p)' BY FreshHandle
  <2>2. \A q \in Proc : q # p /\ Busy(q) => Fresh(q)'
    BY Apart DEF CopiesFresh, Fresh
  <2>3. \A q \in Proc : q # p /\ ~Busy(q) => Fresh(q)'
    BY HandleType DEF Others, Busy, Fresh
  <2> QED BY <2>1, <2>2, <2>3 DEF CopiesFresh, Fresh
<1>3. CASE Crash BY <1>3 DEF Crash, CopiesFresh, Fresh
<1>4. CASE UNCHANGED vars BY <1>4 DEF CopiesFresh, Fresh, vars
<1> QED BY <1>1, <1>2, <1>3, <1>4 DEF Next

LEMMA ShowsAlone ==
  ASSUME OneAtATime, PromptsTrue, NEW p \in Proc, Busy(p), NEW c \in Chat, c = upd[p].chat
  PROVE  IF pc[p] = "f_refused" THEN prompt[c] = None ELSE Shows(c)
<1>1. CASE pc[p] = "f_refused" BY <1>1 DEF PromptsTrue, Answers
<1>2. CASE pc[p] # "f_refused"
  <2>1. ~ \E q \in Proc : pc[q] = "f_refused" /\ upd[q].chat = c
    BY <1>2 DEF OneAtATime, Busy
  <2> QED BY <1>2, <2>1 DEF PromptsTrue, Prompts, Shows
<1> QED BY <1>1, <1>2

LEMMA ShowsHandle ==
  ASSUME Inv, OneAtATime, CopiesFresh, PromptsTrue, NEW p \in Proc, Handle(p),
         NEW c \in Chat, c = upd[p].chat
  PROVE  \/ /\ Shows(c)' /\ pc'[p] # "f_refused"
            /\ upd[p].kind = "grants" => prompt'[c] = prompt[c]
            /\ upd[p].kind = "text" /\ pc'[p] # "idle" =>
                 prompt'[c] = prompt[c] /\ pc[p] # "f_refused"
         \/ pc'[p] = "f_refused" /\ prompt'[c] = None
<1> DEFINE Goal ==
      \/ /\ Shows(c)' /\ pc'[p] # "f_refused"
         /\ upd[p].kind = "grants" => prompt'[c] = prompt[c]
         /\ upd[p].kind = "text" /\ pc'[p] # "idle" =>
                 prompt'[c] = prompt[c] /\ pc[p] # "f_refused"
      \/ pc'[p] = "f_refused" /\ prompt'[c] = None
<1>0. /\ Busy(p) /\ CallType /\ sess \in [Chat -> Session] /\ InOrder(p)
      /\ Sound(sess[c]) /\ prompt \in [Chat -> File \cup {None}]
      /\ IF pc[p] = "f_refused" THEN prompt[c] = None ELSE Shows(c)
      /\ pc[p] \in {"s_set", "f_share", "f_refused", "f_clear", "set", "call", "g_call"}
           => snap[p] = sess[c]
      /\ upd[p].kind = "grants" => prompt[c] \in {None, upd[p].file}
  BY HandleBusy, ShowsAlone
  DEF Inv, TypeOK, CallType, HandlersInOrder, SessionsSound, CopiesFresh, Fresh,
      PromptsTrue, Answers
<1>p. pc \in [Proc -> Labels \cup {"idle"}] BY <1>0 DEF CallType
<1>k. ASSUME sess'[c].mode = sess[c].mode, sess'[c].file = sess[c].file,
             prompt' = prompt, asked' = asked,
             pc[p] # "f_refused", pc'[p] # "f_refused"
      PROVE  Goal
  BY <1>0, <1>k DEF Shows
<1>1. CASE Ensure(p) BY <1>p, <1>1, <1>k DEF Ensure, screen
<1>2. CASE EnsureFails(p) BY <1>p, <1>2, <1>k DEF EnsureFails, End, screen
<1>3. CASE SessionGet(p)
  <2>1. pc'[p] # "f_refused" BY <1>p, <1>3 DEF SessionGet, Get, Handler
  <2> QED BY <1>3, <1>k, <2>1 DEF SessionGet, Get, screen
<1>4. CASE SessionSet(p)
  <2>1. pc[p] = "s_set" /\ prompt' = prompt /\ asked' = asked
    BY <1>4 DEF SessionSet, screen
  <2>2. pc'[p] # "f_refused" BY <1>p, <1>4 DEF SessionSet, Goto, Handler
  <2>3. sess'[c].mode = sess[c].mode /\ sess'[c].file = sess[c].file
    <3>1. \/ snap[p].user = None /\ sess'[c].mode = "none" /\ sess'[c].file = None
          \/ sess'[c].mode = snap[p].mode /\ sess'[c].file = snap[p].file
      BY <1>0, <1>4, <2>1, Written DEF Inv
    <3> QED BY <1>0, <2>1, <3>1 DEF Sound, NoSession
  <2> QED BY <2>1, <2>2, <2>3, <1>k
<1>5. CASE FlowNone(p)
  <2>1. sess[c].mode = "none" /\ prompt'[c] = None /\ sess' = sess
    BY <1>0, <1>5 DEF FlowNone, Unprompt
  <2>2. pc'[p] \in {"idle", "get"} BY <1>p, <1>5 DEF FlowNone, Goto, End
  <2>3. upd[p].kind \in Texts /\ (upd[p].kind = "text" => pc'[p] = "idle")
    BY <1>p, <1>0, <1>5 DEF FlowNone, InOrder, End
  <2> QED BY <2>1, <2>2, <2>3 DEF Shows, Texts
<1>6. CASE FlowCancel(p) BY <1>p, <1>6, <1>k DEF FlowCancel, Get, screen
<1>7. CASE FlowShare(p)
  <2>1. sess[c].file # None BY <1>0, <1>7 DEF FlowShare, Sound
  <2>2. Get(p, "f_share") /\ prompt' = prompt /\ asked' = asked /\ pc[p] = "f_get"
    BY <1>7, <2>1 DEF FlowShare, history
  <2> QED BY <1>p, <2>2, <1>k DEF Get
<1>8. CASE ShareByUsername(p) BY <1>p, <1>8, <1>k DEF ShareByUsername, Goto, screen
<1>9. CASE ShareRefused(p)
  BY <1>p, <1>0, <1>9 DEF ShareRefused, Goto, Unprompt
<1>10. CASE DialogueEnd(p)
  <2>1. pc[p] \in {"f_clear", "f_refused"} BY <1>10 DEF DialogueEnd
  <2>2. sess'[c].mode = "none" BY <1>0, <1>10, <2>1, Written DEF Inv
  <2>3. prompt'[c] = None BY <1>0, <1>10, <2>1 DEF DialogueEnd, Unprompt
  <2>4. pc'[p] = "idle" BY <1>p, <1>10 DEF DialogueEnd, End
  <2>5. upd[p].kind \in Texts BY <1>0, <2>1 DEF InOrder
  <2> QED BY <2>2, <2>3, <2>4, <2>5 DEF Shows, Texts
<1>11. CASE HandlerGet(p)
  BY <1>p, <1>11, <1>k DEF HandlerGet, Get, End, screen
<1>12. CASE SelectToShare(p)
  <2>1. /\ pc[p] = "set" /\ upd[p].kind = "share" /\ prompt'[c] = upd[p].file
        /\ pc'[p] = "idle" /\ c \in asked'
    BY <1>p, <1>0, <1>12 DEF SelectToShare, Prompt, End
  <2>2. sess'[c].mode = "share" /\ sess'[c].file = upd[p].file
    BY <1>0, <1>12, <2>1, Written DEF Inv
  <2> QED BY <2>1, <2>2 DEF Shows
<1>13. CASE SelectGrants(p)
  <2>1. /\ pc[p] = "set" /\ upd[p].kind = "grants" /\ prompt' = prompt
        /\ pc'[p] = "g_get" /\ asked' = asked
    BY <1>p, <1>13 DEF SelectGrants, Goto
  <2>2. sess'[c].mode = sess[c].mode /\ sess'[c].file = upd[p].file
    BY <1>0, <1>13, <2>1, Written DEF Inv
  <2>3. Shows(c)'
    BY <1>0, <2>1, <2>2 DEF Shows, Sound
  <2> QED BY <2>1, <2>3
<1>14. CASE GrantsGet(p) BY <1>p, <1>14, <1>k DEF GrantsGet, Get, End, screen
<1>15. CASE GrantsShow(p) BY <1>p, <1>15, <1>k DEF GrantsShow, End, history
<1>16. CASE CallFails(p) BY <1>p, <1>16, <1>k DEF CallFails, End, screen
<1>17. CASE ShowFiles(p) \/ Fetch(p) BY <1>p, <1>17, <1>k DEF ShowFiles, Fetch, End, screen
<1>18. CASE Upload(p) BY <1>p, <1>18, <1>k DEF Upload, End, screen
<1>19. CASE UploadRefused(p) BY <1>p, <1>19, <1>k DEF UploadRefused, End, screen
<1>20. CASE Delete(p) BY <1>p, <1>20, <1>k DEF Delete, End, screen
<1>21. CASE RevokeShare(p) BY <1>p, <1>21, <1>k DEF RevokeShare, Goto, End, screen
<1> QED BY <1>1, <1>2, <1>3, <1>4, <1>5, <1>6, <1>7, <1>8, <1>9, <1>10, <1>11,
           <1>12, <1>13, <1>14, <1>15, <1>16, <1>17, <1>18, <1>19, <1>20, <1>21
        DEF Handle

LEMMA PromptsTrueNext ==
  ASSUME Inv, Inv', Disciplined, OneAtATime, CopiesFresh, PromptsTrue, [Next]_vars
  PROVE  PromptsTrue'
<1>t. TypeOK /\ HandlersInOrder /\ HandlersInOrder' BY DEF Inv
<1>i. \A q \in Proc : ~Busy(q)' => upd'[q] = NoUpdate
  BY <1>t DEF HandlersInOrder, InOrder
<1>n. NoUpdate.kind \notin {"text", "grants"} BY DEF NoUpdate
<1>1. CASE \E p \in Proc : Send(p)
  <2> PICK p \in Proc : Send(p) BY <1>1
  <2> PICK kind \in Kinds, t \in Person, c \in Chat,
           f \in File \cup {None}, a \in User \cup {None} : Arrives(p, kind, t, c, f, a)
    BY <1>t, SendArrives
  <2>r. /\ Others(p) /\ pc[p] = "idle" /\ pc'[p] = "ensure"
        /\ UNCHANGED <<sess, prompt, asked>>
        /\ upd'[p] = [kind |-> kind, chat |-> c, who |-> t, file |-> f, target |-> a]
    BY <1>t, ArrivesType DEF history
  <2>1. upd'[p].kind = kind /\ upd'[p].chat = c /\ upd'[p].file = f
    BY <2>r
  <2>2. /\ kind = "text" => f = prompt[c]
        /\ kind = "grants" => prompt[c] \in {None, f}
    BY DEF Arrives, Disciplined
  <2>3. \A d \in Chat : Prompts(d)'
    BY <2>r DEF PromptsTrue, Prompts, Shows, Others
  <2>4. \A q \in Proc \ {p} : Answers(q)'
    BY <2>r DEF PromptsTrue, Answers, Others
  <2>5. Answers(p)'
    BY <2>r, <2>1, <2>2 DEF Answers
  <2> QED BY <2>3, <2>4, <2>5 DEF PromptsTrue
<1>2. CASE \E p \in Proc : Handle(p)
  <2> PICK p \in Proc : Handle(p) BY <1>2
  <2> PICK c \in Chat : c = upd[p].chat BY <1>t, HandleBusy, UpdateType
  <2>1. /\ Busy(p) /\ Others(p) /\ ChatsKept(c) /\ upd'[p] \in {upd[p], NoUpdate}
        /\ InOrder(p)'
    BY <1>t, HandleBusy, HandleType DEF HandlersInOrder
  <2>2. \/ /\ Shows(c)' /\ pc'[p] # "f_refused"
           /\ upd[p].kind = "grants" => prompt'[c] = prompt[c]
           /\ upd[p].kind = "text" /\ pc'[p] # "idle" =>
                prompt'[c] = prompt[c] /\ pc[p] # "f_refused"
        \/ pc'[p] = "f_refused" /\ prompt'[c] = None
    BY ShowsHandle
  <2>3. Busy(p)' => upd'[p] = upd[p]
    BY <2>1 DEF InOrder, Update, NoUpdate, Kinds, Texts, Selections
  <2>4. pc'[p] = "f_refused" => Busy(p)' /\ upd[p].kind \in Texts
    BY <2>1, <2>3 DEF Busy, InOrder
  <2>5. \A d \in Chat : Prompts(d)'
    <3>1. Prompts(c)' BY <2>2, <2>3, <2>4 DEF Prompts
    <3>2. \A d \in Chat \ {c} : Prompts(d)'
      <4> TAKE d \in Chat \ {c}
      <4>1. CASE Shows(d) BY <2>1, <4>1 DEF ChatsKept, Prompts, Shows
      <4>2. CASE \E q \in Proc : pc[q] = "f_refused" /\ upd[q].chat = d
        <5>1. PICK q \in Proc : pc[q] = "f_refused" /\ upd[q].chat = d BY <4>2
        <5>2. q # p BY <5>1
        <5> QED BY <2>1, <5>1, <5>2 DEF Others, Prompts
      <4> QED BY <4>1, <4>2 DEF PromptsTrue, Prompts
    <3> QED BY <3>1, <3>2
  <2>6. Answers(p)'
    <3>1. CASE Busy(p)'
      <4>1. /\ upd[p].kind = "text" /\ pc[p] # "f_refused" => upd[p].file = prompt[c]
            /\ upd[p].kind = "grants" => prompt[c] \in {None, upd[p].file}
        BY DEF PromptsTrue, Answers
      <4>2. upd'[p] = upd[p] /\ pc'[p] # "idle" BY <2>3, <3>1 DEF Busy
      <4> QED BY <2>2, <2>4, <4>1, <4>2 DEF Answers, Texts
    <3>2. CASE ~Busy(p)' BY <1>i, <1>n, <3>2 DEF Busy, Answers
    <3> QED BY <3>1, <3>2
  <2>7. \A q \in Proc : q # p /\ Busy(q) => Answers(q)'
    BY <1>t, Apart DEF PromptsTrue, Answers
  <2>8. \A q \in Proc : q # p /\ ~Busy(q) => Answers(q)'
    BY <1>i, <1>n, <2>1 DEF Others, Busy, Answers
  <2> QED BY <2>5, <2>6, <2>7, <2>8 DEF PromptsTrue
<1>3. CASE Crash BY <1>3, <1>n
  DEF Crash, PromptsTrue, Prompts, Shows, Answers, NoSession
<1>4. CASE UNCHANGED vars BY <1>4 DEF PromptsTrue, Prompts, Shows, Answers, vars
<1> QED BY <1>1, <1>2, <1>3, <1>4 DEF Next

LEMMA ListedHandle ==
  ASSUME Inv, CopiesFresh, ListsTrue, NEW p \in Proc, Handle(p),
         NEW c \in Chat, c = upd[p].chat
  PROVE  /\ Listed(c)'
         /\ upd[p].kind \in Selections /\ pc'[p] # "idle" => lists'[c] = {}
         /\ upd[p].kind = "rev" => sess'[c].file \in {None, upd[p].file}
<1> DEFINE Goal ==
      /\ Listed(c)'
      /\ upd[p].kind \in Selections /\ pc'[p] # "idle" => lists'[c] = {}
      /\ upd[p].kind = "rev" => sess'[c].file \in {None, upd[p].file}
<1>0. /\ Busy(p) /\ InOrder(p) /\ Sound(sess[c])
      /\ pc \in [Proc -> Labels \cup {"idle"}] /\ lists \in [Chat -> SUBSET (File \X User)]
      /\ pc[p] \in {"s_set", "f_share", "f_refused", "f_clear", "set", "call", "g_call"}
           => snap[p] = sess[c]
      /\ Listed(c)
      /\ upd[p].kind \in Selections => lists[c] = {}
      /\ upd[p].kind = "rev" => sess[c].file \in {None, upd[p].file}
  BY HandleBusy
  DEF Inv, TypeOK, HandlersInOrder, SessionsSound, CopiesFresh, Fresh, ListsTrue, Presses
<1>k. ASSUME sess'[c].file = sess[c].file, lists' = lists PROVE Goal
  BY <1>0, <1>k DEF Listed
<1>1. CASE GrantsShow(p)
  <2>1. pc[p] = "g_call" /\ sess' = sess /\ pc'[p] = "idle"
    BY <1>0, <1>1 DEF GrantsShow, End
  <2>2. lists'[c] \subseteq lists[c] \cup ({snap[p].file} \X readers[snap[p].file])
    BY <1>0, <1>1 DEF GrantsShow
  <2>3. Listed(c)' BY <1>0, <2>1, <2>2 DEF Listed
  <2> QED BY <1>0, <2>1, <2>3
<1>2. CASE ~GrantsShow(p)
  <2>1. lists' = lists
    BY <1>2 DEF Handle, Ensure, EnsureFails, SessionGet, SessionSet, FlowNone,
       FlowCancel, FlowShare, ShareByUsername, ShareRefused, DialogueEnd, HandlerGet,
       SelectToShare, SelectGrants, GrantsGet, CallFails, ShowFiles, Fetch, Upload,
       UploadRefused, Delete, RevokeShare, screen
  <2>2. CASE sess' = sess BY <1>k, <2>1, <2>2
  <2>3. CASE SessionSet(p)
    <3>1. pc[p] = "s_set" BY <2>3 DEF SessionSet
    <3>2. \/ snap[p].user = None /\ sess'[c].file = None
          \/ sess'[c].file = snap[p].file
      BY <1>0, <2>3, <3>1, Written DEF Inv
    <3>3. sess'[c].file = sess[c].file BY <1>0, <3>1, <3>2 DEF Sound, NoSession
    <3> QED BY <1>k, <2>1, <3>3
  <2>4. CASE DialogueEnd(p)
    <3>1. pc[p] \in {"f_clear", "f_refused"} BY <2>4 DEF DialogueEnd
    <3>2. sess'[c].file = None BY <1>0, <2>4, <3>1, Written DEF Inv
    <3>3. upd[p].kind \in Texts BY <1>0, <3>1 DEF InOrder
    <3> QED BY <1>0, <2>1, <3>2, <3>3 DEF Listed, Texts, Selections
  <2>5. CASE SelectToShare(p) \/ SelectGrants(p)
    <3>1. upd[p].kind \in Selections
      BY <2>5 DEF SelectToShare, SelectGrants, Selections
    <3> QED BY <1>0, <2>1, <3>1 DEF Listed, Selections
  <2> QED BY <2>2, <2>3, <2>4, <2>5, StoreStep DEF Inv
<1> QED BY <1>1, <1>2

LEMMA ListsTrueNext ==
  ASSUME Inv, Inv', Disciplined, OneAtATime, CopiesFresh, ListsTrue, [Next]_vars
  PROVE  ListsTrue'
<1>t. TypeOK /\ HandlersInOrder /\ HandlersInOrder' BY DEF Inv
<1>i. \A q \in Proc : ~Busy(q)' => upd'[q] = NoUpdate
  BY <1>t DEF HandlersInOrder, InOrder
<1>n. NoUpdate.kind \notin Selections \cup {"rev"} BY DEF NoUpdate, Selections
<1>1. CASE \E p \in Proc : Send(p)
  <2> PICK p \in Proc : Send(p) BY <1>1
  <2> PICK kind \in Kinds, t \in Person, c \in Chat,
           f \in File \cup {None}, a \in User \cup {None} : Arrives(p, kind, t, c, f, a)
    BY <1>t, SendArrives
  <2>r. /\ Others(p) /\ sess' = sess
        /\ upd'[p] = [kind |-> kind, chat |-> c, who |-> t, file |-> f, target |-> a]
    BY <1>t, ArrivesType
  <2>1. upd'[p].kind = kind /\ upd'[p].chat = c /\ upd'[p].file = f
    BY <2>r
  <2>2. /\ kind \in Selections => lists'[c] = {}
        /\ kind = "rev" => <<f, a>> \in lists[c]
        /\ \A d \in Chat : lists'[d] \subseteq lists[d]
    BY DEF Arrives, Disciplined
  <2>3. \A d \in Chat : Listed(d)' BY <2>r, <2>2 DEF ListsTrue, Listed
  <2>4. \A q \in Proc : q # p /\ Busy(q) => Presses(q)'
    <3> TAKE q \in Proc
    <3> HAVE q # p /\ Busy(q)
    <3>1. upd[q].chat \in Chat /\ upd'[q] = upd[q] BY <1>t, <2>r, UpdateType DEF Others
    <3> QED BY <2>r, <2>2, <3>1 DEF ListsTrue, Presses
  <2>5. \A q \in Proc : q # p /\ ~Busy(q) => Presses(q)'
    BY <1>i, <1>n, <2>r DEF Others, Busy, Presses
  <2>6. kind = "rev" => sess[c].file \in {None, f}
    BY <2>2 DEF ListsTrue, Listed
  <2>7. Presses(p)' BY <2>r, <2>1, <2>2, <2>6 DEF Presses
  <2> QED BY <2>3, <2>4, <2>5, <2>7 DEF ListsTrue
<1>2. CASE \E p \in Proc : Handle(p)
  <2> PICK p \in Proc : Handle(p) BY <1>2
  <2> PICK c \in Chat : c = upd[p].chat BY <1>t, HandleBusy, UpdateType
  <2>1. /\ Others(p) /\ ChatsKept(c) /\ upd'[p] \in {upd[p], NoUpdate}
    BY <1>t, HandleType
  <2>2. /\ Listed(c)'
        /\ upd[p].kind \in Selections /\ pc'[p] # "idle" => lists'[c] = {}
        /\ upd[p].kind = "rev" => sess'[c].file \in {None, upd[p].file}
    BY ListedHandle
  <2>3. \A d \in Chat : Listed(d)' BY <2>1, <2>2 DEF ListsTrue, Listed, ChatsKept
  <2>4. Presses(p)'
    <3>1. CASE Busy(p)'
      <4>1. upd'[p] \in Update BY <1>t, <3>1 DEF HandlersInOrder, InOrder
      <4>2. upd'[p] = upd[p]
        BY <2>1, <4>1 DEF Update, NoUpdate, Kinds, Texts, Selections
      <4> QED BY <2>2, <3>1, <4>2 DEF Presses, Busy
    <3>2. CASE ~Busy(p)' BY <1>i, <1>n, <3>2 DEF Presses
    <3> QED BY <3>1, <3>2
  <2>5. \A q \in Proc : q # p /\ Busy(q) => Presses(q)'
    BY <1>t, Apart DEF ListsTrue, Presses
  <2>6. \A q \in Proc : q # p /\ ~Busy(q) => Presses(q)'
    BY <1>i, <1>n, <2>1 DEF Others, Busy, Presses
  <2> QED BY <2>3, <2>4, <2>5, <2>6 DEF ListsTrue
<1>3. CASE Crash BY <1>3, <1>n DEF Crash, ListsTrue, Listed, Presses, NoSession
<1>4. CASE UNCHANGED vars BY <1>4 DEF ListsTrue, Listed, Presses, vars
<1> QED BY <1>1, <1>2, <1>3, <1>4 DEF Next

LEMMA InitFocus == Init => FocusInv
  BY DEF Init, FocusInv, OneAtATime, Busy, CopiesFresh, Fresh, PromptsTrue, Prompts,
         Shows, Answers, ListsTrue, Listed, Presses, NoSession, NoUpdate, Selections

LEMMA NextFocus ==
  ASSUME Disciplined
  PROVE  Inv /\ Inv' /\ FocusInv /\ [Next]_vars => FocusInv'
  BY OneAtATimeNext, CopiesFreshNext, PromptsTrueNext, ListsTrueNext DEF Inv, FocusInv

(* For people who wait for a handler to end and finish with one file at a   *)
(* time, in private chats: nothing of a chat overlaps, copies are fresh, a  *)
(* prompt given since the start is the one that the session waits at, one   *)
(* from before it is waited at by none, and the "Revoke" buttons are for    *)
(* the file of the session.                                                 *)
THEOREM FocusedInvariance == ASSUME Disciplined PROVE Spec => []FocusInv
  BY InitFocus, NextFocus, NextInv, Invariance, PTL DEF Spec

(* For such people, whose handlers of a chat come one after the other: a    *)
(* failed call, a change of account, a button for the readers or for        *)
(* another list leave the dialogue open that the prompt is for, and after a *)
(* restart no dialogue is open, though the prompt is still on the screen.   *)
THEOREM PromptsKept == ASSUME Disciplined PROVE Spec => []PromptIsKept
<1>1. Inv /\ FocusInv => PromptIsKept
  <2> SUFFICES ASSUME Inv, FocusInv, NEW p \in Proc, pc[p] = "f_get",
                      prompt[upd[p].chat] # None
               PROVE  sess[upd[p].chat].mode =
                        IF upd[p].chat \in asked THEN "share" ELSE "none"
    BY DEF PromptIsKept
  <2>1. Busy(p) /\ upd[p].chat \in Chat BY UpdateType DEF Inv, Busy
  <2>2. Shows(upd[p].chat) BY <2>1, ShowsAlone DEF FocusInv
  <2> QED BY <2>2 DEF Shows
<1> QED BY <1>1, Invariance, FocusedInvariance, PTL

(* What README.md says of a share holds for people who finish with one file *)
(* before they turn to another: it takes somebody who looks at the readers  *)
(* of another file while a prompt is open, or who does not wait.            *)
THEOREM SharesArePrompted == ASSUME Disciplined PROVE Spec => []SharesPrompted
<1>1. Inv /\ FocusInv => SharesPrompted
  <2> SUFFICES ASSUME Inv, FocusInv, NEW p \in Proc,
                      pc[p] = "f_share", upd[p].kind = "text"
               PROVE  snap[p].file = upd[p].file
    BY DEF SharesPrompted
  <2>1. Busy(p) /\ InOrder(p) /\ Fresh(p) /\ Answers(p)
    BY DEF Busy, Inv, HandlersInOrder, FocusInv, CopiesFresh, PromptsTrue
  <2>2. upd[p].file = prompt[upd[p].chat] BY <2>1 DEF Answers
  <2>3. upd[p].chat \in Chat BY <2>1, UpdateType DEF Inv
  <2>4. Shows(upd[p].chat) BY <2>1, <2>3, ShowsAlone DEF FocusInv
  <2>5. snap[p] = sess[upd[p].chat] /\ snap[p].mode = "share"
    BY <2>1 DEF Fresh, InOrder
  <2> QED BY <2>2, <2>4, <2>5 DEF Shows
<1> QED BY <1>1, FocusedInvariance, Invariance, PTL

-------------------------------------------------------------------------------
(* For such people the bot implements AccessPolicy.                         *)

(* The variables of AccessPolicy under PolicyOf. *)
Pending == [p \in Proc |-> CommandOf(p)]
Done == {p \in Proc : Told(p)}

LEMMA PendingOthers ==
  ASSUME TypeOK, HandlersInOrder, NEW p \in Proc, Handle(p)
  PROVE  /\ Pending' = [Pending EXCEPT ![p] = CommandOf(p)']
         /\ Done' = (Done \ {p}) \cup (IF Told(p)' THEN {p} ELSE {})
<1>1. ASSUME NEW q \in Proc, q # p
      PROVE  CommandOf(q)' = CommandOf(q) /\ (Told(q)' <=> Told(q))
  BY <1>1, HandleType DEF Others, CommandOf, Told
<1> QED BY <1>1 DEF Pending, Done

(* A step that ends what p was doing, or is no part of a command. *)
LEMMA Finishes ==
  ASSUME TypeOK, HandlersInOrder, NEW p \in Proc, Handle(p),
         UNCHANGED <<owner, readers>>, CommandOf(p)' = {}, ~Told(p)'
  PROVE  PolicyOf!Next
<1>1. Pending' = [q \in Proc |-> IF q \in {p} THEN {} ELSE Pending[q]]
  BY PendingOthers DEF Pending
<1>2. Done' = Done \ {p} BY PendingOthers
<1>3. PolicyOf!Finish({p}) BY <1>1, <1>2 DEF PolicyOf!Finish, Pending, Done
<1> QED BY <1>3 DEF PolicyOf!Next

LEMMA Issues ==
  ASSUME TypeOK, HandlersInOrder, NEW p \in Proc, Handle(p),
         UNCHANGED <<owner, readers>>, CommandOf(p) = {}, ~Told(p), ~Told(p)',
         NEW k \in {"share", "revoke", "delete"}, NEW u \in User, NEW f \in File,
         NEW a \in User \cup {None},
         CommandOf(p)' = {[kind |-> k, giver |-> u, file |-> f, target |-> a]}
  PROVE  PolicyOf!Next
<1> DEFINE c == [kind |-> k, giver |-> u, file |-> f, target |-> a]
<1>1. c \in PolicyOf!Command BY DEF PolicyOf!Command, PolicyOf!Kinds
<1>2. CommandOf(p)' = {c} OBVIOUS
<1> HIDE DEF c
<1>3. Pending' = [Pending EXCEPT ![p] = {c}] /\ Done' = Done
  BY <1>2, PendingOthers DEF Done
<1>4. PolicyOf!Issue(p) BY <1>1, <1>3 DEF PolicyOf!Issue, Pending, Done
<1> QED BY <1>4 DEF PolicyOf!Next

(* A command ends that is carried out, and p's sender may be told. *)
LEMMA Carries ==
  ASSUME TypeOK, HandlersInOrder, NEW p \in Proc, Handle(p), CommandOf(p)' = {}, ~Told(p)
  PROVE  PolicyOf!Carried(p)
<1>1. Pending' = [Pending EXCEPT ![p] = {}] /\ Done' \in {Done, Done \cup {p}}
  BY PendingOthers DEF Done
<1> QED BY <1>1 DEF PolicyOf!Carried, PolicyOf!Withdrawn, Pending, Done

(* A call is made for what the chat shows, and for its sender's account. *)
LEMMA CallsAsShown ==
  ASSUME Inv, FocusInv, NEW p \in Proc,
         \/ pc[p] = "f_share" /\ upd[p].target # None
         \/ pc[p] = "call"
  PROVE  /\ Busy(p) /\ snap[p].user = acct[p] /\ acct[p] \in User
         /\ pc[p] = "f_share" \/ upd[p].kind = "rev" => snap[p].file = upd[p].file
         /\ upd[p].file \in File \cup {None} /\ upd[p].target \in User \cup {None}
<1>1. /\ Busy(p) /\ InOrder(p) /\ Sound(snap[p]) /\ Fresh(p) /\ upd[p].chat \in Chat
      /\ upd[p].file \in File \cup {None} /\ upd[p].target \in User \cup {None}
      /\ acct[p] \in User \cup {None} /\ snap[p] = sess[upd[p].chat]
      /\ upd[p].who \in Person
  BY UpdateType
  DEF Inv, TypeOK, Busy, HandlersInOrder, SessionsSound, FocusInv, CopiesFresh, Fresh
<1>2. snap[p].user = acct[p] BY <1>1 DEF Fresh
<1>3. acct[p] \in User BY <1>1 DEF InOrder
<1>4. CASE pc[p] = "f_share"
  <2>1. upd[p].kind = "text" /\ snap[p].mode = "share" BY <1>1, <1>4 DEF InOrder, Texts
  <2>2. Shows(upd[p].chat) BY <1>1, <1>4, ShowsAlone DEF FocusInv
  <2>3. Answers(p) BY DEF FocusInv, PromptsTrue
  <2> QED BY <1>1, <1>2, <1>3, <1>4, <2>1, <2>2, <2>3 DEF Shows, Answers
<1>5. CASE pc[p] = "call"
  <2>1. upd[p].kind = "rev" => snap[p].file # None BY <1>1, <1>5 DEF InOrder
  <2>2. Presses(p) BY DEF FocusInv, ListsTrue
  <2> QED BY <1>1, <1>2, <1>3, <1>5, <2>1, <2>2 DEF Presses
<1> QED BY <1>4, <1>5

LEMMA PolicyShare ==
  ASSUME Inv, FocusInv, NEW p \in Proc, Handle(p), pc[p] = "f_share", Shared(p),
         owner' = owner, CommandOf(p)' = {}
  PROVE  PolicyOf!Next
<1>1. /\ snap[p].user = acct[p] /\ acct[p] \in User /\ upd[p].target \in User
      /\ snap[p].file = upd[p].file /\ owner[upd[p].file] = acct[p]
      /\ upd[p].target # None
  BY CallsAsShown DEF Shared, Owns
<1>2. PolicyOf!Carried(p) BY Carries DEF Inv, Told
<1>3. PICK c : c = [kind |-> "share", giver |-> acct[p],
                    file |-> upd[p].file, target |-> upd[p].target]
  OBVIOUS
<1>4. c \in CommandOf(p) BY <1>1, <1>3 DEF CommandOf
<1>5. PolicyOf!Share(p, c)
  BY <1>1, <1>2, <1>3 DEF PolicyOf!Share, PolicyOf!ByOwner, Shared
<1> QED BY <1>4, <1>5 DEF PolicyOf!Next

LEMMA PolicyRevoke ==
  ASSUME Inv, FocusInv, NEW p \in Proc, RevokeShare(p)
  PROVE  PolicyOf!Next
<1>0. Handle(p) /\ pc[p] = "call" /\ upd[p].kind = "rev" BY DEF Handle, RevokeShare
<1>1. /\ snap[p].user = acct[p] /\ acct[p] \in User /\ upd[p].target \in User
      /\ snap[p].file = upd[p].file /\ owner[upd[p].file] = acct[p]
  <2>1. upd[p].target # None BY <1>0 DEF Inv, HandlersInOrder, InOrder
  <2> QED BY <1>0, <2>1, CallsAsShown DEF RevokeShare, Owns
<1>2. pc'[p] \in {"g_get", "idle"}
  BY DEF RevokeShare, Goto, End, Inv, TypeOK
<1>3. CommandOf(p)' = {} /\ ~Told(p) BY <1>0, <1>2 DEF CommandOf, Told
<1>4. PolicyOf!Carried(p) BY <1>0, <1>3, Carries DEF Inv
<1>5. PICK c : c = [kind |-> "revoke", giver |-> acct[p],
                    file |-> upd[p].file, target |-> upd[p].target]
  OBVIOUS
<1>6. c \in CommandOf(p) BY <1>0, <1>5 DEF CommandOf
<1>7. PolicyOf!Revoke(p, c)
  BY <1>1, <1>4, <1>5 DEF PolicyOf!Revoke, PolicyOf!ByOwner, RevokeShare
<1> QED BY <1>6, <1>7 DEF PolicyOf!Next

LEMMA PolicyDelete ==
  ASSUME Inv, FocusInv, NEW p \in Proc, Delete(p)
  PROVE  PolicyOf!Next
<1>0. Handle(p) /\ pc[p] = "call" /\ upd[p].kind = "del" BY DEF Handle, Delete
<1>1. acct[p] \in User /\ owner[upd[p].file] = acct[p]
  BY <1>0, CallsAsShown DEF Delete, Owns
<1>2. pc'[p] = "idle" BY DEF Delete, End, Inv, TypeOK
<1>3. CommandOf(p)' = {} /\ ~Told(p) /\ ~Told(p)' BY <1>0, <1>2 DEF CommandOf, Told
<1>4. Pending' = [Pending EXCEPT ![p] = {}] /\ Done' = Done
  BY <1>0, <1>3, PendingOthers DEF Inv, Done
<1>5. PolicyOf!Proceed(p)
  BY <1>4 DEF PolicyOf!Proceed, PolicyOf!Withdrawn, Pending, Done
<1>6. PICK c : c = [kind |-> "delete", giver |-> acct[p],
                    file |-> upd[p].file, target |-> None]
  OBVIOUS
<1>7. c \in CommandOf(p) BY <1>0, <1>6 DEF CommandOf
<1>8. PolicyOf!Unshare(p, c) \/ PolicyOf!Retire(p, c)
  BY <1>1, <1>5, <1>6 DEF PolicyOf!Unshare, PolicyOf!Retire, PolicyOf!ByOwner, Delete
<1> QED BY <1>7, <1>8 DEF PolicyOf!Next

LEMMA PolicyUpload ==
  ASSUME Inv, FocusInv, NEW p \in Proc, Upload(p)
  PROVE  PolicyOf!Next
<1>0. Handle(p) /\ pc[p] = "call" /\ upd[p].kind = "upload" BY DEF Handle, Upload
<1>1. pc'[p] = "idle" BY DEF Upload, End, Inv, TypeOK
<1>2. CommandOf(p) = {} /\ CommandOf(p)' = {} /\ ~Told(p) /\ ~Told(p)'
  BY <1>0, <1>1 DEF CommandOf, Told
<1>3. Pending' = Pending /\ Done' = Done
  BY <1>0, <1>2, PendingOthers DEF Inv, Pending, Done
<1>4. PICK f \in File \ used : owner' = [owner EXCEPT ![f] = snap[p].user]
  BY DEF Upload
<1>5. owner[f] = None /\ readers[f] = {} BY DEF Inv, FilesApart
<1>6. snap[p].user \in User BY <1>0, CallsAsShown
<1>7. PICK u \in User : u = snap[p].user BY <1>6
<1>8. PolicyOf!Publish(f, u)
  BY <1>3, <1>4, <1>5, <1>7 DEF PolicyOf!Publish, Pending, Done, Upload
<1> QED BY <1>8 DEF PolicyOf!Next

(* A command is issued when its call is next. *)
LEMMA PolicyIssue ==
  ASSUME Inv, FocusInv, Inv', FocusInv', NEW p \in Proc, FlowShare(p) \/ HandlerGet(p)
  PROVE  PolicyOf!Next
<1>0. Handle(p) /\ pc[p] \in {"f_get", "get"} /\ owner' = owner /\ readers' = readers
  BY DEF Handle, FlowShare, HandlerGet, tables
<1>1. CommandOf(p) = {} /\ ~Told(p) BY <1>0 DEF CommandOf, Told
<1>2. pc'[p] \in {"f_share", "f_refused", "set", "call", "idle"}
  BY DEF FlowShare, HandlerGet, Get, End, Inv, TypeOK
<1>3. ~Told(p)' BY <1>2 DEF Told
<1>4. pc'[p] \in {"f_share", "call"} =>
        /\ upd'[p] = upd[p] /\ acct'[p] = acct[p] /\ acct[p] \in User
        /\ upd[p].file \in File \cup {None} /\ upd[p].target \in User \cup {None}
        /\ upd[p].kind \in {"rev", "del"} => upd[p].file \in File
  <2>1. Busy(p) /\ InOrder(p) BY <1>0, HandleBusy DEF Inv, HandlersInOrder
  <2>2. /\ upd[p].file \in File \cup {None} /\ upd[p].target \in User \cup {None}
        /\ upd[p].who \in Person
    BY <2>1, UpdateType DEF Inv
  <2>3. acct[p] \in User BY <1>0, <2>1, <2>2 DEF InOrder
  <2>4. pc'[p] \in {"f_share", "call"} => upd'[p] = upd[p] /\ acct'[p] = acct[p]
    BY DEF FlowShare, HandlerGet, Get, End, Inv, TypeOK
  <2>5. upd[p].kind \in {"rev", "del"} => upd[p].file \in File
    BY <2>1, <2>2 DEF InOrder
  <2> QED BY <2>2, <2>3, <2>4, <2>5
<1>5. CASE pc'[p] = "f_share" /\ upd[p].target # None
  <2>1. upd[p].file \in File
    <3>1. /\ Sound(snap[p])' /\ InOrder(p)'
      BY DEF Inv, SessionsSound, HandlersInOrder
    <3>2. snap'[p].file # None BY <1>5, <3>1 DEF Sound, InOrder
    <3>3. Busy(p)' /\ upd'[p].kind = "text"
      BY <1>4, <1>5, <3>1 DEF Busy, InOrder, Texts
    <3>4. Shows(upd[p].chat)' /\ Answers(p)' /\ Fresh(p)'
      <4>1. upd'[p] = upd[p] BY <1>4, <1>5
      <4>2. pc[p] = "f_get" BY <1>5 DEF FlowShare, HandlerGet, Get, End, Inv, TypeOK
      <4>3. PICK c \in Chat : c = upd[p].chat
        BY <4>2, UpdateType DEF Inv, Busy
      <4>4. Shows(c)'
        BY <1>0, <1>5, <4>3, ShowsHandle DEF FocusInv
      <4> QED BY <4>1, <4>3, <4>4 DEF FocusInv, PromptsTrue, CopiesFresh, Shows
    <3>5. upd[p].file = snap'[p].file
      BY <1>4, <1>5, <3>1, <3>3, <3>4 DEF Shows, Answers, Fresh, InOrder
    <3> QED BY <1>4, <1>5, <3>2, <3>5
  <2>2. PICK u \in User, f \in File, a \in User \cup {None} :
          u = acct[p] /\ f = upd[p].file /\ a = upd[p].target
    BY <1>4, <1>5, <2>1
  <2>3. CommandOf(p)' = {[kind |-> "share", giver |-> u, file |-> f, target |-> a]}
    BY <1>4, <1>5, <2>2 DEF CommandOf
  <2> QED BY <1>0, <1>1, <1>3, <2>3, Issues DEF Inv
<1>6. CASE pc'[p] = "call" /\ upd[p].kind = "rev"
  <2>2. PICK u \in User, f \in File, a \in User \cup {None} :
          u = acct[p] /\ f = upd[p].file /\ a = upd[p].target
    BY <1>4, <1>6
  <2>3. CommandOf(p)' = {[kind |-> "revoke", giver |-> u, file |-> f, target |-> a]}
    BY <1>4, <1>6, <2>2 DEF CommandOf
  <2> QED BY <1>0, <1>1, <1>3, <2>3, Issues DEF Inv
<1>7. CASE pc'[p] = "call" /\ upd[p].kind = "del"
  <2>2. PICK u \in User, f \in File, a \in User \cup {None} :
          u = acct[p] /\ f = upd[p].file /\ a = None
    BY <1>4, <1>7
  <2>3. CommandOf(p)' = {[kind |-> "delete", giver |-> u, file |-> f, target |-> a]}
    BY <1>4, <1>7, <2>2 DEF CommandOf
  <2> QED BY <1>0, <1>1, <1>3, <2>3, Issues DEF Inv
<1>8. CASE /\ ~(pc'[p] = "f_share" /\ upd[p].target # None)
           /\ ~(pc'[p] = "call" /\ upd[p].kind \in {"rev", "del"})
  <2>1. CommandOf(p)' = {} BY <1>2, <1>4, <1>8 DEF CommandOf
  <2> QED BY <1>0, <1>3, <2>1, Finishes DEF Inv
<1> QED BY <1>5, <1>6, <1>7, <1>8

LEMMA PolicyHandle ==
  ASSUME Inv, FocusInv, Inv', FocusInv', NEW p \in Proc, Handle(p)
  PROVE  [PolicyOf!Next]_(PolicyOf!vars)
<1>p. /\ TypeOK /\ HandlersInOrder /\ pc \in [Proc -> Labels \cup {"idle"}]
      /\ Busy(p) /\ InOrder(p)
  BY HandleBusy DEF Inv, TypeOK, HandlersInOrder
<1>s. ASSUME UNCHANGED <<owner, readers>>, pc'[p] \notin {"f_share", "call"},
             pc'[p] = "f_clear" => upd'[p].kind = "cancel",
             pc'[p] \in {"g_get", "g_call"} => upd'[p].kind # "rev"
      PROVE  PolicyOf!Next
  <2>1. CommandOf(p)' = {} /\ ~Told(p)' BY <1>s DEF CommandOf, Told
  <2> QED BY <1>p, <1>s, <2>1, Finishes
<1>1. CASE Ensure(p) BY <1>p, <1>1, <1>s DEF Ensure, tables
<1>2. CASE EnsureFails(p) BY <1>p, <1>2, <1>s DEF EnsureFails, End, tables
<1>3. CASE SessionGet(p) BY <1>p, <1>3, <1>s DEF SessionGet, Get, Handler, tables
<1>4. CASE SessionSet(p) BY <1>p, <1>4, <1>s DEF SessionSet, Goto, Handler, tables
<1>5. CASE FlowNone(p) BY <1>p, <1>5, <1>s DEF FlowNone, Goto, End, tables
<1>6. CASE FlowCancel(p) BY <1>p, <1>6, <1>s DEF FlowCancel, Get, tables
<1>8. CASE ShareByUsername(p)
  <2>1. pc[p] = "f_share" /\ Shared(p) /\ owner' = owner /\ pc'[p] = "f_clear"
    BY <1>p, <1>8 DEF ShareByUsername, Goto
  <2>2. CommandOf(p)' = {} BY <2>1 DEF CommandOf
  <2> QED BY <2>1, <2>2, PolicyShare
<1>9. CASE ShareRefused(p)
  <2>1. pc[p] = "f_share" /\ owner' = owner /\ pc'[p] = "f_refused"
    BY <1>p, <1>9 DEF ShareRefused, Goto
  <2>2. CommandOf(p)' = {} BY <2>1 DEF CommandOf
  <2>3. CASE Shared(p) BY <2>1, <2>2, <2>3, PolicyShare
  <2>4. CASE readers' = readers BY <2>1, <2>4, <1>s
  <2> QED BY <1>9, <2>3, <2>4 DEF ShareRefused
<1>10. CASE DialogueEnd(p) BY <1>p, <1>10, <1>s DEF DialogueEnd, End, tables
<1>12. CASE SelectToShare(p) BY <1>p, <1>12, <1>s DEF SelectToShare, End, tables
<1>13. CASE SelectGrants(p) BY <1>p, <1>13, <1>s DEF SelectGrants, Goto, tables
<1>14. CASE GrantsGet(p)
  <2>1. CASE End(p) BY <1>p, <1>14, <2>1, <1>s DEF GrantsGet, End, tables
  <2>2. CASE Get(p, "g_call")
    <3>1. pc[p] = "g_get" /\ pc'[p] = "g_call" /\ upd' = upd /\ UNCHANGED <<owner, readers>>
      BY <1>p, <1>14, <2>2 DEF GrantsGet, Get, tables
    <3>2. /\ CommandOf(p) = {} /\ CommandOf(p)' = {} /\ (Told(p)' <=> Told(p))
      BY <3>1 DEF CommandOf, Told
    <3>3. \A q \in Proc : CommandOf(q)' = CommandOf(q) /\ (Told(q)' <=> Told(q))
      <4>1. Others(p) BY <1>p, HandleType
      <4>2. ASSUME NEW q \in Proc, q # p
            PROVE  CommandOf(q)' = CommandOf(q) /\ (Told(q)' <=> Told(q))
        BY <4>1, <4>2 DEF Others, CommandOf, Told
      <4> QED BY <3>2, <4>2, Zenon
    <3> QED BY <3>1, <3>3 DEF PolicyOf!vars
  <2> QED BY <1>14, <2>1, <2>2 DEF GrantsGet
<1>15. CASE GrantsShow(p) BY <1>p, <1>15, <1>s DEF GrantsShow, End, tables
<1>16. CASE CallFails(p) BY <1>p, <1>16, <1>s DEF CallFails, End, tables
<1>17. CASE ShowFiles(p) \/ Fetch(p) BY <1>p, <1>17, <1>s DEF ShowFiles, Fetch, End, tables
<1>19. CASE UploadRefused(p) BY <1>p, <1>19, <1>s DEF UploadRefused, End, tables
<1> QED BY <1>1, <1>2, <1>3, <1>4, <1>5, <1>6, <1>8, <1>9, <1>10, <1>12, <1>13,
           <1>14, <1>15, <1>16, <1>17, <1>19, PolicyIssue, PolicyUpload, PolicyDelete,
           PolicyRevoke
        DEF Handle

LEMMA PolicySend ==
  ASSUME Inv, NEW p \in Proc, Send(p)
  PROVE  UNCHANGED PolicyOf!vars
<1>1. /\ Others(p) /\ UNCHANGED tables /\ pc[p] = "idle" /\ pc'[p] = "ensure"
  BY SendArrives, ArrivesType DEF Inv
<1>2. \A q \in Proc : CommandOf(q)' = CommandOf(q) /\ (Told(q)' <=> Told(q))
  BY <1>1 DEF Others, CommandOf, Told
<1> QED BY <1>1, <1>2 DEF PolicyOf!vars, tables

LEMMA PolicyCrash == Crash => PolicyOf!Next
<1> SUFFICES ASSUME Crash PROVE PolicyOf!Next OBVIOUS
<1>1. \A p \in Proc : CommandOf(p)' = {} /\ ~Told(p)' BY DEF Crash, CommandOf, Told
<1>2. Pending' = [p \in Proc |-> IF p \in Proc THEN {} ELSE Pending[p]]
  BY <1>1 DEF Pending
<1>3. Done' = Done \ Proc BY <1>1 DEF Done
<1>4. PolicyOf!Finish(Proc)
  BY <1>2, <1>3 DEF Crash, tables, PolicyOf!Finish, Pending, Done
<1> QED BY <1>4 DEF PolicyOf!Next

(* For people who wait for a handler to end and finish with one file at a   *)
(* time, in private chats, whatever fails and however often the process     *)
(* restarts: access changes only as they ask for by what their chat shows.  *)
THEOREM AccessPolicyImplemented ==
  ASSUME Disciplined PROVE Spec => ImplementsAccessPolicy
<1>1. Init => PolicyOf!Init
  BY DEF Init, PolicyOf!Init, CommandOf, Told
<1>2. Inv /\ Inv' /\ FocusInv /\ FocusInv' /\ [Next]_vars
        => [PolicyOf!Next]_(PolicyOf!vars)
  <2> SUFFICES ASSUME Inv, Inv', FocusInv, FocusInv', [Next]_vars
               PROVE  [PolicyOf!Next]_(PolicyOf!vars)
    OBVIOUS
  <2>1. CASE UNCHANGED vars BY <2>1 DEF vars, PolicyOf!vars, CommandOf, Told
  <2> QED BY <2>1, PolicySend, PolicyHandle, PolicyCrash DEF Next
<1> QED BY <1>1, <1>2, Invariance, FocusedInvariance, PTL
        DEF Spec, ImplementsAccessPolicy, PolicyOf!Spec
===============================================================================
