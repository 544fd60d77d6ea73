------------------------- MODULE TelegramBotLiveness -------------------------
(* Every update is done with, and every username dialogue ends, for any     *)
(* sets of goroutines, people and files, if goroutines are scheduled.       *)
EXTENDS TelegramBotProofs, Integers

-------------------------------------------------------------------------------
(* The steps of a handler by how far they are from its end.                 *)

Stage(n) ==
  CASE n = 0 -> {"idle"}
    [] n = 1 -> {"f_clear", "f_refused", "g_call"}
    [] n = 2 -> {"f_share", "g_get"}
    [] n = 3 -> {"call", "set"}
    [] n = 4 -> {"get"}
    [] n = 5 -> {"f_get"}
    [] n = 6 -> {"s_set"}
    [] n = 7 -> {"s_get"}
    [] OTHER -> {"ensure"}

At(p, n) == pc[p] \in Stage(n)
Past(p, n) == \E m \in 0..(n - 1) : At(p, m)

(* Where a handler goes from each of its steps. *)
Onwards(l) ==
  {"idle"} \cup
  CASE l = "ensure"  -> {"s_get"}
    [] l = "s_get"   -> {"s_set", "f_get", "get"}
    [] l = "s_set"   -> {"f_get", "get"}
    [] l = "f_get"   -> {"get", "f_clear", "f_refused", "f_share"}
    [] l = "get"     -> {"set", "call"}
    [] l = "f_share" -> {"f_clear", "f_refused"}
    [] l \in {"set", "call"} -> {"g_get"}
    [] l = "g_get"   -> {"g_call"}
    [] OTHER         -> {}

LEMMA HandleOnwards ==
  ASSUME Inv, NEW p \in Proc, Handle(p)
  PROVE  pc'[p] \in Onwards(pc[p])
<1>0. pc \in [Proc -> Labels \cup {"idle"}] BY DEF Inv, TypeOK
<1> USE <1>0
<1>1. CASE Ensure(p) BY <1>1 DEF Ensure, Onwards
<1>2. CASE EnsureFails(p) BY <1>2 DEF EnsureFails, End, Onwards
<1>3. CASE SessionGet(p) BY <1>3 DEF SessionGet, Get, Handler, Onwards
<1>4. CASE SessionSet(p) BY <1>4 DEF SessionSet, Goto, Handler, Onwards
<1>5. CASE FlowNone(p) BY <1>5 DEF FlowNone, Goto, End, Onwards
<1>6. CASE FlowCancel(p) BY <1>6 DEF FlowCancel, Get, Onwards
<1>7. CASE FlowShare(p) BY <1>7 DEF FlowShare, Get, Onwards
<1>8. CASE ShareByUsername(p) BY <1>8 DEF ShareByUsername, Goto, Onwards
<1>9. CASE ShareRefused(p) BY <1>9 DEF ShareRefused, Goto, Onwards
<1>10. CASE DialogueEnd(p) BY <1>10 DEF DialogueEnd, End, Onwards
<1>11. CASE HandlerGet(p) BY <1>11 DEF HandlerGet, Get, End, Onwards
<1>12. CASE SelectToShare(p) BY <1>12 DEF SelectToShare, End, Onwards
<1>13. CASE SelectGrants(p) BY <1>13 DEF SelectGrants, Goto, Onwards
<1>14. CASE GrantsGet(p) BY <1>14 DEF GrantsGet, Get, End, Onwards
<1>15. CASE GrantsShow(p) BY <1>15 DEF GrantsShow, End, Onwards
<1>16. CASE CallFails(p) BY <1>16 DEF CallFails, End, Onwards
<1>17. CASE ShowFiles(p) \/ Fetch(p) BY <1>17 DEF ShowFiles, Fetch, End, Onwards
<1>18. CASE Upload(p) BY <1>18 DEF Upload, End, Onwards
<1>19. CASE UploadRefused(p) BY <1>19 DEF UploadRefused, End, Onwards
<1>20. CASE Delete(p) BY <1>20 DEF Delete, End, Onwards
<1>21. CASE RevokeShare(p) BY <1>21 DEF RevokeShare, Goto, End, Onwards
<1> QED BY <1>1, <1>2, <1>3, <1>4, <1>5, <1>6, <1>7, <1>8, <1>9, <1>10, <1>11,
           <1>12, <1>13, <1>14, <1>15, <1>16, <1>17, <1>18, <1>19, <1>20, <1>21
        DEF Handle

(* A handler comes closer to its end with each of its steps. *)
LEMMA HandleDescends ==
  ASSUME Inv, NEW p \in Proc, NEW n \in 1..8, At(p, n), Handle(p)
  PROVE  Past(p, n)'
  <1>1. pc[p] \in Stage(n) /\ pc'[p] \in Onwards(pc[p])
    BY HandleOnwards DEF At
  <1>2. \E m \in 0..(n - 1) : pc'[p] \in Stage(m)
    <2>0. SUFFICES \E m \in 0..7 : m < n /\ pc'[p] \in Stage(m)
      OBVIOUS
    <2>1. CASE pc'[p] = "idle"
      BY <2>1 DEF Stage
    <2>2. CASE n \in {7, 8}
      BY <1>1, <2>1, <2>2 DEF Stage, Onwards
    <2>3. CASE n \in {5, 6}
      BY <1>1, <2>1, <2>3 DEF Stage, Onwards
    <2>4. CASE n \in {1, 2}
      BY <1>1, <2>1, <2>4 DEF Stage, Onwards
    <2>5. CASE n \in {3, 4}
      BY <1>1, <2>1, <2>5 DEF Stage, Onwards
    <2> QED  BY <2>2, <2>3, <2>4, <2>5
  <1> QED  BY <1>2 DEF Past, At

(* The steps of others do not touch it, and a crash ends it. *)
LEMMA StepsOfOthers ==
  ASSUME Inv, [Next]_vars, NEW p \in Proc, Busy(p)
  PROVE  Handle(p) \/ Crash \/ (pc'[p] = pc[p] /\ upd'[p] = upd[p])
  <1>1. ASSUME NEW q \in Proc, Handle(q), q # p
        PROVE  pc'[p] = pc[p] /\ upd'[p] = upd[p]
    BY <1>1, HandleType DEF Inv, Others
  <1>2. ASSUME NEW q \in Proc, Send(q)
        PROVE  pc'[p] = pc[p] /\ upd'[p] = upd[p]
    <2>1. PICK kind \in Kinds, t \in Person, c \in Chat,
               f \in File \cup {None}, a \in User \cup {None} :
            Arrives(q, kind, t, c, f, a)
      BY <1>2, SendArrives DEF Inv
    <2> QED  BY <2>1 DEF Busy, Inv, TypeOK, Arrives, Receive
  <1>3. CASE UNCHANGED vars
    BY <1>3 DEF vars
  <1> QED
    BY <1>1, <1>2, <1>3 DEF Next

LEMMA StageNext ==
  ASSUME Inv, [Next]_vars, NEW p \in Proc, NEW n \in 1..8, At(p, n)
  PROVE  At(p, n)' \/ Past(p, n)'
  <1>1. Busy(p)
    BY DEF At, Stage, Busy
  <1>2. CASE Crash
    BY <1>2 DEF Crash, Past, At, Stage
  <1>3. CASE pc'[p] = pc[p]
    BY <1>3 DEF At
  <1> QED
    BY <1>1, <1>2, <1>3, StepsOfOthers, HandleDescends

-------------------------------------------------------------------------------
(* Weak fairness.  ENABLED stays a hypothesis: []NeverBlocked.              *)

LEMMA StageEnds ==
  ASSUME NEW p \in Proc, NEW n \in 1..8
  PROVE  Spec /\ []NeverBlocked /\ Scheduled(p) => (At(p, n) ~> Past(p, n))
  <1>1. Inv /\ At(p, n) /\ [Next]_vars => At(p, n)' \/ Past(p, n)'
    BY StageNext
  <1>2. Inv /\ At(p, n) /\ <<Handle(p)>>_vars => Past(p, n)'
    BY HandleDescends
  <1>3. NeverBlocked /\ At(p, n) => ENABLED <<Handle(p)>>_vars
    <2>1. At(p, n) => Busy(p)
      BY DEF At, Stage, Busy
    <2> QED  BY <2>1 DEF NeverBlocked
  <1> QED
    BY <1>1, <1>2, <1>3, Invariance, PTL DEF Spec, Scheduled

(* From each of the eight stages it is a finite way down. *)
Ends(p, n) == Past(p, n) ~> ~Busy(p)

LEMMA OneStageDown ==
  ASSUME NEW p \in Proc, NEW n \in 1..8
  PROVE  Spec /\ []NeverBlocked /\ Scheduled(p) => (Ends(p, n) => Ends(p, n + 1))
  <1>1. Past(p, n + 1) => Past(p, n) \/ At(p, n)
    BY DEF Past
  <1>2. Spec /\ []NeverBlocked /\ Scheduled(p) => (At(p, n) ~> Past(p, n))
    BY StageEnds
  <1> QED
    BY <1>1, <1>2, PTL DEF Ends

LEMMA HandlerEnds ==
  ASSUME NEW p \in Proc
  PROVE  Spec /\ []NeverBlocked /\ Scheduled(p) => (Busy(p) ~> ~Busy(p))
  <1>1. Past(p, 1) => ~Busy(p)
    BY DEF Past, At, Stage, Busy
  <1>2. Ends(p, 1) BY <1>1, PTL DEF Ends
  <1>3. Spec /\ []NeverBlocked /\ Scheduled(p) => Ends(p, 9)
    BY <1>2, OneStageDown
  <1>4. Inv => Past(p, 9)
    <2>1. ASSUME Inv PROVE \E m \in 0..8 : pc[p] \in Stage(m)
      <3>1. pc[p] \in Labels \cup {"idle"}
        BY <2>1 DEF Inv, TypeOK
      <3> QED  BY <3>1 DEF Labels, Stage
    <2> QED  BY <2>1 DEF Past, At
  <1> QED
    BY <1>3, <1>4, Invariance, PTL DEF Ends

(* If goroutines are scheduled and no handler is ever blocked, every update *)
(* is done with, whatever fails and whoever else writes to its session.     *)
THEOREM UpdatesAreDone == FairSpec /\ []NeverBlocked => HandlersEnd
  <1>1. ASSUME NEW p \in Proc
        PROVE  FairSpec /\ []NeverBlocked => (Busy(p) ~> ~Busy(p))
    <2>1. FairSpec => Spec /\ Scheduled(p)
      BY DEF FairSpec
    <2> QED  BY <2>1, HandlerEnds, PTL
  <1> QED
    BY <1>1 DEF HandlersEnd

-------------------------------------------------------------------------------
(* A handler that has begun a dialogue's step leaves it by ending it.       *)

NoDialogue(c) == sess[c].mode = "none"

AtFlow(p, c) == pc[p] = "f_get" /\ upd[p].chat = c

InFlow(p, c) ==
  pc[p] \in {"f_get", "f_share", "f_clear", "f_refused"} /\ upd[p].chat = c

LEMMA FlowHandled ==
  ASSUME Inv, NEW p \in Proc, NEW c \in Chat, InFlow(p, c), Handle(p)
  PROVE  InFlow(p, c)' \/ NoDialogue(c) \/ NoDialogue(c)'
  <1>0. /\ sess \in [Chat -> Session]
        /\ pc \in [Proc -> Labels \cup {"idle"}]
        /\ snap \in [Proc -> Session]
    BY DEF Inv, TypeOK
  <1> USE <1>0 DEF InFlow
  <1>1. CASE FlowNone(p)
    BY <1>1 DEF FlowNone, NoDialogue
  <1>2. CASE FlowCancel(p) \/ FlowShare(p)
    BY <1>2 DEF FlowCancel, FlowShare, Get
  <1>3. CASE ShareByUsername(p) \/ ShareRefused(p)
    BY <1>3 DEF ShareByUsername, ShareRefused, Goto
  <1>4. CASE DialogueEnd(p)
    BY <1>4 DEF DialogueEnd, Set, Closed, Session, NoDialogue
  <1> QED
    BY <1>1, <1>2, <1>3, <1>4
    DEF Handle, Ensure, EnsureFails, SessionGet, SessionSet, HandlerGet,
        SelectToShare, SelectGrants, GrantsGet, GrantsShow, CallFails, ShowFiles,
        Fetch, Upload, UploadRefused, Delete, RevokeShare

LEMMA FlowNext ==
  ASSUME Inv, [Next]_vars, NEW p \in Proc, NEW c \in Chat, InFlow(p, c)
  PROVE  InFlow(p, c)' \/ NoDialogue(c) \/ NoDialogue(c)'
  <1>1. Busy(p)
    BY DEF InFlow, Busy
  <1>2. CASE Crash
    BY <1>2 DEF Crash, NoDialogue, NoSession
  <1>3. CASE pc'[p] = pc[p] /\ upd'[p] = upd[p]
    BY <1>3 DEF InFlow
  <1> QED
    BY <1>1, <1>2, <1>3, StepsOfOthers, FlowHandled

Closes(p, c) == AtFlow(p, c) => <>NoDialogue(c)

AlwaysCloses(p, c) == []Closes(p, c)

LEMMA FlowCloses ==
  ASSUME NEW p \in Proc, NEW c \in Chat
  PROVE  FairSpec /\ []NeverBlocked => AlwaysCloses(p, c)
  <1>1. Inv /\ InFlow(p, c) /\ [Next]_vars =>
          InFlow(p, c)' \/ NoDialogue(c) \/ NoDialogue(c)'
    BY FlowNext
  <1>2. AtFlow(p, c) => InFlow(p, c)
    BY DEF AtFlow, InFlow
  <1>3. InFlow(p, c) => Busy(p)
    BY DEF InFlow, Busy
  <1>4. FairSpec => Spec /\ Scheduled(p)
    BY DEF FairSpec
  <1> QED
    BY <1>1, <1>2, <1>3, <1>4, HandlerEnds, Invariance, PTL
    DEF Spec, Closes, AlwaysCloses

(* A text that reaches the dialogue ends it, whatever comes of the share    *)
(* and whatever the other goroutines of the chat write meanwhile.           *)
THEOREM DialoguesEnd == FairSpec /\ []NeverBlocked => DialogueEnds
  <1>1. ASSUME NEW c \in Chat
        PROVE  FairSpec /\ []NeverBlocked =>
                 ((\E p \in Proc : AtFlow(p, c)) ~> NoDialogue(c))
    <2>1. FairSpec /\ []NeverBlocked => \A p \in Proc : AlwaysCloses(p, c)
      BY FlowCloses
    <2>2. (\A p \in Proc : AlwaysCloses(p, c)) =>
            [](\A p \in Proc : Closes(p, c))
      BY DEF AlwaysCloses
    <2>3. (\A p \in Proc : Closes(p, c)) =>
            ((\E p \in Proc : AtFlow(p, c)) => <>NoDialogue(c))
      BY DEF Closes
    <2> QED  BY <2>1, <2>2, <2>3, PTL
  <1> QED
    BY <1>1 DEF DialogueEnds, AtFlow, NoDialogue
===============================================================================
