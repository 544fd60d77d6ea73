---------------------------- MODULE IdentityProofs ----------------------------
(***************************************************************************)
(* The invariants of Identity, for any sets of goroutines, ids, people and *)
(* names, any set of failures, and Telegram usernames that pass from one   *)
(* person to another or do not.                                            *)
(*                                                                         *)
(* Inv is inductive; there is a lemma for each of its parts.  What people  *)
(* have had only grows (PastGrows), and a statement on users inserts one   *)
(* fresh row, changes one name or leaves the table alone (TableMoves): the *)
(* lemmas look at these cases rather than at all actions.                  *)
(***************************************************************************)
EXTENDS Identity, TLAPS

USE DEF table, telegram, call, seen, vars, Statements, Outcomes

-------------------------------------------------------------------------------
(* What there is to know of usernames; their definitions stay closed.       *)
LEMMA Names ==
  /\ NoName \notin Name
  /\ Fallbacks \subseteq Name
  /\ \A h \in Handle : At(h) \in Name \ Fallbacks
  /\ \A t \in Person : Tg(t) \in Fallbacks
  /\ \A n \in Fallbacks : \E t \in Person : n = Tg(t)
  /\ \A h, k \in Handle : At(h) = At(k) => h = k
  /\ \A t, u \in Person : Tg(t) = Tg(u) => t = u
  /\ \A t \in Person, h \in Handle : Tg(t) # At(h)
  <1> USE DEF At, Tg
  <1>1. NoName \notin Name  BY IdentityAssumption
  <1>2. Fallbacks \subseteq Name  BY Zenon DEF Name
  <1>3. \A h \in Handle : At(h) \in Name \ Fallbacks
    BY DEF Name, Fallbacks
  <1>4. \A t \in Person : Tg(t) \in Fallbacks
    BY DEF Fallbacks
  <1>5. \A n \in Fallbacks : \E t \in Person : n = Tg(t)
    BY DEF Fallbacks
  <1>6. /\ \A h, k \in Handle : At(h) = At(k) => h = k
        /\ \A t, u \in Person : Tg(t) = Tg(u) => t = u
        /\ \A t \in Person, h \in Handle : Tg(t) # At(h)
    OBVIOUS
  <1> QED  BY <1>1, <1>2, <1>3, <1>4, <1>5, <1>6

-------------------------------------------------------------------------------
LEMMA InitInv == Init => Inv
  <1> SUFFICES ASSUME Init PROVE Inv  OBVIOUS
  <1> USE DEF Init
  <1>1. TypeOK
    <2>1. handle \in [Person -> Handle \cup {NoHandle}]  OBVIOUS
    <2>2. \A t \in Person : {handle[t]} \in SUBSET (Handle \cup {NoHandle})
      <3> SUFFICES ASSUME NEW t \in Person
                   PROVE  {handle[t]} \in SUBSET (Handle \cup {NoHandle})
        OBVIOUS
      <3>1. handle[t] \in Handle \cup {NoHandle}  BY <2>1
      <3> QED  BY <3>1
    <2>3. past \in [Person -> SUBSET (Handle \cup {NoHandle})]  BY <2>2
    <2> QED  BY <2>3 DEF TypeOK
  <1>2. UniqueNames        BY DEF UniqueNames
  <1>3. LifeOfARow         BY Names DEF LifeOfARow, Init
  <1>4. HandlesHeld        BY DEF HandlesHeld
  <1>5. CallsInOrder       BY DEF CallsInOrder
  <1>6. MetByName          BY Zenon DEF MetByName, AccountsOf
  <1>7. KnownAsOpened  BY DEF KnownAsOpened
  <1>8. TokensAreEarned    BY DEF TokensAreEarned
  <1> QED  BY <1>1, <1>2, <1>3, <1>4, <1>5, <1>6, <1>7, <1>8 DEF Inv

(* Type correctness of the steps that begin a call. *)
LEMMA RequestType ==
  ASSUME Inv, NEW p \in Proc, Request(p) PROVE TypeOK'
  <1> USE DEF TypeOK
  <1>0. TypeOK /\ HandlesHeld  BY DEF Inv
  <1>1. ASSUME NEW n \in Name, NEW s \in Secret, BeginRegister(p, n, s)
        PROVE  TypeOK'
    BY <1>0, <1>1 DEF BeginRegister, Begin, Goto
  <1>2. ASSUME NEW n \in Name, NEW s \in Secret, BeginLogin(p, n, s)
        PROVE  TypeOK'
    BY <1>0, <1>2 DEF BeginLogin, Begin, Goto
  <1>3. ASSUME NEW a \in Account, BeginRequest(p, a) PROVE TypeOK'
    BY <1>0, <1>3 DEF BeginRequest, Begin, Goto
  <1>4. ASSUME NEW t \in Person, BeginUpdate(p, t) PROVE TypeOK'
    <2>1. CASE handle[t] = NoHandle
      <3>1. Tg(t) \in Name  BY Names
      <3>2. Begin(p, "ens_tg", t, Tg(t), NoSecret, NoAccount)
        BY <1>4, <2>1 DEF BeginUpdate
      <3> QED  BY <1>0, <1>4, <3>1, <3>2 DEF BeginUpdate, Begin, Goto
    <2>2. CASE handle[t] # NoHandle
      <3>1. At(handle[t]) \in Name  BY <1>0, <2>2, Names
      <3>2. Begin(p, "ens_at", t, At(handle[t]), NoSecret, NoAccount)
        BY <1>4, <2>2 DEF BeginUpdate
      <3> QED  BY <1>0, <1>4, <3>1, <3>2 DEF BeginUpdate, Begin, Goto
    <2> QED  BY <2>1, <2>2
  <1> QED  BY <1>1, <1>2, <1>3, <1>4 DEF Request

(* The types of what the moves of a goroutine and the statements write. *)
LEMMA MoveType ==
  ASSUME TypeOK, NEW p \in Proc, NEW label \in Statements \cup Outcomes,
         \/ Step(p, label)
         \/ \E a \in Account : Take(p, label, a)
  PROVE  /\ pc' \in [Proc -> Statements \cup Outcomes \cup {"idle"}]
         /\ who' \in [Proc -> Person \cup {NoPerson}]
         /\ want' \in [Proc -> Name \cup {NoName}]
         /\ secret' \in [Proc -> Secret \cup {NoSecret}]
         /\ acct' \in [Proc -> Account \cup {NoAccount}]
  BY DEF TypeOK, Step, Take, Goto

LEMMA InsertType ==
  ASSUME TypeOK, NEW a \in Account, NEW n \in Name,
         NEW s \in Secret \cup {NoSecret}, Insert(a, n, s)
  PROVE  /\ name' \in [Account -> Name \cup {NoName}]
         /\ hash' \in [Account -> Secret \cup {NoSecret}]
         /\ born' \in [Account -> Name \cup {NoName}]
  BY DEF TypeOK, Insert

(* Who asks for what, where a statement depends on it. *)
LEMMA CallType ==
  ASSUME Inv, NEW p \in Proc
  PROVE  /\ pc[p] \in {"reg_create", "log_get"} =>
              want[p] \in Name /\ secret[p] \in Secret
         /\ pc[p] \in {"ens_at", "ens_tg", "ens_rename", "ens_create"} =>
              want[p] \in Name /\ who[p] \in Person
         /\ pc[p] = "ens_rename" => acct[p] \in Account
  <1>1. TypeOK /\ CallsInOrder  BY DEF Inv
  <1>2. ASSUME who[p] \in Person, NEW h \in past[who[p]] \ {NoHandle}
        PROVE  At(h) \in Name
    <2>1. h \in Handle  BY <1>1, <1>2 DEF TypeOK
    <2> QED  BY <2>1, Names
  <1>3. who[p] \in Person => Tg(who[p]) \in Name  BY Names
  <1> QED  BY <1>1, <1>2, <1>3 DEF CallsInOrder

(* The sender of an update and the name it looks for, by constants. *)
LEMMA UpdateFor ==
  ASSUME Inv, NEW p \in Proc,
         pc[p] \in {"ens_at", "ens_tg", "ens_rename", "ens_create"}
  PROVE  \E t \in Person :
           /\ who[p] = t
           /\ \/ /\ want[p] = Tg(t) /\ NoHandle \in past[t]
                 /\ pc[p] \in {"ens_tg", "ens_create"}
              \/ \E h \in Handle : h \in past[t] /\ want[p] = At(h)
           /\ pc[p] = "ens_rename" =>
                acct[p] \in Account /\ born[acct[p]] = Tg(t)
  <1>1. TypeOK /\ CallsInOrder  BY DEF Inv
  <1>2. PICK t \in Person : who[p] = t  BY <1>1 DEF CallsInOrder
  <1>3. past[t] \subseteq Handle \cup {NoHandle}  BY <1>1 DEF TypeOK
  <1> QED  BY <1>1, <1>2, <1>3 DEF CallsInOrder

LEMMA MetType ==
  ASSUME TypeOK, NEW p \in Proc, NEW a \in Account, who[p] \in Person,
         Answer(p, a)
  PROVE  met' \in SUBSET (Person \X Account) /\ Take(p, "ok", a)
  <1>1. <<who[p], a>> \in Person \X Account  OBVIOUS
  <1> QED  BY <1>1 DEF TypeOK, Answer

LEMMA AdvanceType ==
  ASSUME Inv, NEW p \in Proc, Advance(p) PROVE TypeOK'
  <1> USE IdentityAssumption
  <1>0. TypeOK  BY DEF Inv
  <1>1. CASE Register(p)
    <2>1. pc[p] = "reg_create" /\ want[p] \in Name /\ secret[p] \in Secret
      BY <1>1, CallType DEF Register
    <2>2. ASSUME NEW a \in Account, Insert(a, want[p], secret[p]),
                 known' = known \cup {<<a, want[p], secret[p]>>},
                 Take(p, "ok", a)
          PROVE  TypeOK'
      <3>0. <<a, want[p], secret[p]>> \in Account \X Name \X (Secret \cup {NoSecret})
        BY <2>1
      <3>1. known' \in SUBSET (Account \X Name \X (Secret \cup {NoSecret}))
        BY <1>0, <2>2, <3>0 DEF TypeOK
      <3> QED
        BY <1>0, <1>1, <2>1, <2>2, <3>1, MoveType, InsertType DEF Register, TypeOK
    <2>3. ASSUME Step(p, "err"), UNCHANGED <<table, known>> PROVE TypeOK'
      BY <1>0, <1>1, <2>3, MoveType DEF Register, TypeOK
    <2> QED  BY <1>1, <2>2, <2>3 DEF Register
  <1>2. CASE RegisterUnacked(p)
    <2>1. want[p] \in Name /\ secret[p] \in Secret
      BY <1>2, CallType DEF RegisterUnacked
    <2> QED
      BY <1>0, <1>2, <2>1, MoveType, InsertType DEF RegisterUnacked, TypeOK
  <1>3. CASE Login(p)
    <2>1. want[p] \in Name /\ secret[p] \in Secret
      BY <1>3, CallType DEF Login
    <2>2. ASSUME NEW a \in Account, Take(p, "ok", a),
                 tokens' = tokens \cup {<<a, secret[p]>>}
          PROVE  TypeOK'
      <3>1. <<a, secret[p]>> \in Account \X Secret  BY <2>1
      <3> QED  BY <1>0, <1>3, <2>2, <3>1, MoveType DEF Login, TypeOK
    <2>3. ASSUME Step(p, "err"), UNCHANGED tokens PROVE TypeOK'
      BY <1>0, <1>3, <2>3, MoveType DEF Login, TypeOK
    <2> QED  BY <1>3, <2>2, <2>3 DEF Login, Called
  <1>4. CASE Authenticate(p)
    BY <1>0, <1>4, MoveType DEF Authenticate, TypeOK
  <1>5. CASE LookUpAt(p)
    <2>1. who[p] \in Person  BY <1>5, CallType DEF LookUpAt
    <2>2. ASSUME NEW a \in Account, Answer(p, a) PROVE TypeOK'
      BY <1>0, <1>5, <2>1, <2>2, MoveType, MetType DEF LookUpAt, TypeOK
    <2>3. ASSUME Step(p, "ens_tg"), UNCHANGED met PROVE TypeOK'
      BY <1>0, <1>5, <2>3, MoveType DEF LookUpAt, TypeOK
    <2> QED  BY <1>5, <2>2, <2>3 DEF LookUpAt, Called
  <1>6. CASE LookUpFallback(p)
    <2>1. who[p] \in Person  BY <1>6, CallType DEF LookUpFallback
    <2>2. ASSUME NEW a \in Account, Answer(p, a) PROVE TypeOK'
      BY <1>0, <1>6, <2>1, <2>2, MoveType, MetType DEF LookUpFallback, TypeOK
    <2>3. ASSUME NEW a \in Account, Take(p, "ens_rename", a), UNCHANGED met
          PROVE  TypeOK'
      BY <1>0, <1>6, <2>3, MoveType DEF LookUpFallback, TypeOK
    <2>4. ASSUME Step(p, "ens_create"), UNCHANGED met PROVE TypeOK'
      BY <1>0, <1>6, <2>4, MoveType DEF LookUpFallback, TypeOK
    <2> QED  BY <1>6, <2>2, <2>3, <2>4 DEF LookUpFallback, Called
  <1>7. CASE RenameAccount(p)
    <2>1. who[p] \in Person /\ want[p] \in Name /\ acct[p] \in Account
      BY <1>7, CallType DEF RenameAccount
    <2>2. name' \in [Account -> Name \cup {NoName}]
      BY <1>0, <1>7, <2>1 DEF RenameAccount, Rename, TypeOK
    <2>3. met' \in SUBSET (Person \X Account) /\ Take(p, "ok", acct[p])
      BY <1>0, <1>7, <2>1, MetType DEF RenameAccount
    <2> QED
      BY <1>0, <1>7, <2>1, <2>2, <2>3, MoveType DEF RenameAccount, TypeOK
  <1>8. CASE CreateAccount(p)
    <2>1. who[p] \in Person /\ want[p] \in Name
      BY <1>8, CallType DEF CreateAccount
    <2>2. ASSUME NEW a \in Account, Insert(a, want[p], NoSecret), Answer(p, a),
                 known' = known \cup {<<a, want[p], NoSecret>>}
          PROVE  TypeOK'
      <3>0. <<a, want[p], NoSecret>> \in Account \X Name \X (Secret \cup {NoSecret})
        BY <2>1
      <3>1. known' \in SUBSET (Account \X Name \X (Secret \cup {NoSecret}))
        BY <1>0, <2>2, <3>0 DEF TypeOK
      <3> QED
        BY <1>0, <1>8, <2>1, <2>2, <3>1, MoveType, MetType, InsertType
        DEF CreateAccount, TypeOK
    <2>3. ASSUME Step(p, "err"), UNCHANGED <<table, seen>> PROVE TypeOK'
      BY <1>0, <1>8, <2>3, MoveType DEF CreateAccount, TypeOK
    <2> QED  BY <1>8, <2>2, <2>3 DEF CreateAccount
  <1>9. CASE CreateAccountUnacked(p)
    <2>1. want[p] \in Name  BY <1>9, CallType DEF CreateAccountUnacked
    <2> QED
      BY <1>0, <1>9, <2>1, MoveType, InsertType DEF CreateAccountUnacked, TypeOK
  <1>10. CASE QueryFails(p)
    BY <1>0, <1>10, MoveType DEF QueryFails, TypeOK
  <1>11. CASE Return(p)  BY <1>0, <1>11 DEF Return, Goto, TypeOK
  <1> QED
    BY <1>1, <1>2, <1>3, <1>4, <1>5, <1>6, <1>7, <1>8, <1>9, <1>10, <1>11
    DEF Advance

LEMMA NextType ==
  ASSUME Inv, [Next]_vars PROVE TypeOK'
  <1> USE IdentityAssumption
  <1>0. TypeOK  BY DEF Inv
  <1>1. CASE \E p \in Proc : Request(p) \/ Advance(p)
    BY <1>1, RequestType, AdvanceType
  <1>2. CASE \E t \in Person, h \in Handle \cup {NoHandle} : ChangeHandle(t, h)
    <2>1. PICK t \in Person, h \in Handle \cup {NoHandle} : ChangeHandle(t, h)
      BY <1>2
    <2>2. past[t] \cup {h} \in SUBSET (Handle \cup {NoHandle})
      BY <1>0 DEF TypeOK
    <2> QED  BY <1>0, <2>1, <2>2 DEF ChangeHandle, TypeOK
  <1>3. CASE Expire                BY <1>0, <1>3 DEF Expire, TypeOK
  <1>4. CASE Crash                 BY <1>0, <1>4 DEF Crash, TypeOK
  <1>5. CASE UNCHANGED vars        BY <1>0, <1>5 DEF TypeOK
  <1> QED  BY <1>1, <1>2, <1>3, <1>4, <1>5 DEF Next

-------------------------------------------------------------------------------
(* What a step can do to the table and to what is known of Telegram.        *)

(* p inserts a row: a registration with the password it was given, the     *)
(* bot with an empty one.                                                  *)
Inserts(p, a) ==
  \/ pc[p] = "reg_create" /\ Insert(a, want[p], secret[p])
  \/ pc[p] = "ens_create" /\ Insert(a, want[p], NoSecret)

(* p renames the account that it has found by its fallback name. *)
Renames(p) ==
  /\ pc[p] = "ens_rename" /\ ~Taken(want[p])
  /\ name' = [name EXCEPT ![acct[p]] = want[p]]
  /\ UNCHANGED <<hash, born>>

LEMMA TableMoves ==
  ASSUME [Next]_vars
  PROVE  \/ UNCHANGED table
         \/ \E p \in Proc, a \in Account : Inserts(p, a)
         \/ \E p \in Proc : Renames(p)
  <1>1. ASSUME NEW p \in Proc, Request(p) PROVE UNCHANGED table
    BY <1>1 DEF Request, BeginRegister, BeginLogin, BeginRequest, BeginUpdate, Begin
  <1>2. ASSUME NEW p \in Proc, Advance(p)
        PROVE  UNCHANGED table \/ (\E a \in Account : Inserts(p, a)) \/ Renames(p)
    <2>1. CASE Register(p)              BY <2>1 DEF Register, Inserts
    <2>2. CASE RegisterUnacked(p)       BY <2>2 DEF RegisterUnacked, Inserts
    <2>3. CASE Login(p)                 BY <2>3 DEF Login
    <2>4. CASE Authenticate(p)          BY <2>4 DEF Authenticate
    <2>5. CASE LookUpAt(p)              BY <2>5 DEF LookUpAt
    <2>6. CASE LookUpFallback(p)        BY <2>6 DEF LookUpFallback
    <2>7. CASE RenameAccount(p)
      BY <2>7 DEF RenameAccount, Rename, Renames
    <2>8. CASE CreateAccount(p)         BY <2>8 DEF CreateAccount, Inserts
    <2>9. CASE CreateAccountUnacked(p)  BY <2>9 DEF CreateAccountUnacked, Inserts
    <2>10. CASE QueryFails(p)           BY <2>10 DEF QueryFails
    <2>11. CASE Return(p)               BY <2>11 DEF Return
    <2> QED
      BY <1>2, <2>1, <2>2, <2>3, <2>4, <2>5, <2>6, <2>7, <2>8, <2>9, <2>10, <2>11
      DEF Advance
  <1>3. CASE \E t \in Person, h \in Handle \cup {NoHandle} : ChangeHandle(t, h)
    BY <1>3 DEF ChangeHandle
  <1>4. CASE Expire          BY <1>4 DEF Expire
  <1>5. CASE Crash           BY <1>5 DEF Crash
  <1>6. CASE UNCHANGED vars  BY <1>6
  <1> QED  BY <1>1, <1>2, <1>3, <1>4, <1>5, <1>6 DEF Next

(* Only a person changes a Telegram username, and the past only grows. *)
LEMMA TelegramMoves ==
  ASSUME [Next]_vars
  PROVE  \/ UNCHANGED telegram
         \/ \E t \in Person, h \in Handle \cup {NoHandle} : ChangeHandle(t, h)
  <1>1. ASSUME NEW p \in Proc, Request(p) PROVE UNCHANGED telegram
    BY <1>1 DEF Request, BeginRegister, BeginLogin, BeginRequest, BeginUpdate, Begin
  <1>2. ASSUME NEW p \in Proc, Advance(p) PROVE UNCHANGED telegram
    BY <1>2 DEF Advance, Register, RegisterUnacked, Login, Authenticate,
      LookUpAt, LookUpFallback, RenameAccount, CreateAccount,
      CreateAccountUnacked, QueryFails, Return
  <1>3. CASE Expire \/ Crash  BY <1>3 DEF Expire, Crash
  <1>4. CASE UNCHANGED vars   BY <1>4
  <1> QED  BY <1>1, <1>2, <1>3, <1>4 DEF Next

LEMMA PastGrows ==
  ASSUME TypeOK, [Next]_vars, NEW t \in Person PROVE past[t] \subseteq past'[t]
  BY TelegramMoves DEF ChangeHandle, TypeOK

-------------------------------------------------------------------------------
LEMMA NextNames ==
  ASSUME Inv, [Next]_vars PROVE UniqueNames'
  <1> USE Names DEF TypeOK, UniqueNames
  <1>0. TypeOK /\ UniqueNames /\ CallsInOrder  BY DEF Inv
  <1>1. CASE UNCHANGED table  BY <1>0, <1>1
  <1>2. ASSUME NEW p \in Proc, NEW a \in Account, Inserts(p, a)
        PROVE  UniqueNames'
    BY <1>0, <1>2 DEF Inserts, Insert, Taken
  <1>3. ASSUME NEW p \in Proc, Renames(p) PROVE UniqueNames'
    BY <1>0, <1>3 DEF Renames, Taken, CallsInOrder
  <1> QED  BY <1>1, <1>2, <1>3, TableMoves

(* What LifeOfARow says of one row. *)
RowLives(a) ==
  /\ name[a] = NoName <=> born[a] = NoName
  /\ name[a] = NoName => hash[a] = NoSecret
  /\ born[a] \notin Fallbacks => name[a] = born[a]
  /\ \A t \in Person : born[a] = Tg(t) =>
       /\ name[a] = Tg(t) \/ \E h \in past[t] \ {NoHandle} : name[a] = At(h)
       /\ hash[a] = NoSecret => NoHandle \in past[t]

LEMMA NextRows ==
  ASSUME Inv, [Next]_vars PROVE LifeOfARow'
  <1> USE IdentityAssumption, Names
  <1>0. TypeOK /\ LifeOfARow /\ CallsInOrder  BY DEF Inv
  <1>1. \A t \in Person : past[t] \subseteq past'[t]  BY <1>0, PastGrows
  <1>2. SUFFICES ASSUME NEW a \in Account PROVE RowLives(a)'
    BY DEF LifeOfARow, RowLives
  <1>3. RowLives(a)  BY <1>0 DEF LifeOfARow, RowLives
  <1>4. CASE UNCHANGED <<name[a], hash[a], born[a]>>
    BY <1>1, <1>3, <1>4 DEF RowLives
  <1>5. ASSUME NEW p \in Proc, Inserts(p, a) PROVE RowLives(a)'
    <2>1. want[p] \in Name  BY <1>5, CallType DEF Inserts
    <2>2. name'[a] = want[p] /\ born'[a] = want[p]
      BY <1>0, <1>5 DEF Inserts, Insert, TypeOK
    <2>3. ASSUME NEW t \in Person, want[p] = Tg(t), hash'[a] = NoSecret
          PROVE  NoHandle \in past[t]
      <3>1. pc[p] = "ens_create"
        BY <1>0, <1>5, <2>3, CallType DEF Inserts, Insert, TypeOK
      <3>2. PICK u \in Person :
              \/ want[p] = Tg(u) /\ NoHandle \in past[u]
              \/ \E h \in Handle : want[p] = At(h)
        BY <3>1, UpdateFor
      <3> QED  BY <2>3, <3>2
    <2> QED  BY <1>1, <2>1, <2>2, <2>3 DEF RowLives
  <1>6. ASSUME NEW p \in Proc, Renames(p), acct[p] = a PROVE RowLives(a)'
    <2>1. PICK t \in Person, h \in Handle :
            h \in past[t] /\ want[p] = At(h) /\ born[a] = Tg(t)
      BY <1>6, UpdateFor DEF Renames
    <2>2. name'[a] = At(h) /\ born'[a] = born[a] /\ hash'[a] = hash[a]
      BY <1>0, <1>6, <2>1 DEF Renames, TypeOK
    <2>3. At(h) # NoName /\ Tg(t) # NoName /\ h \in past'[t] \ {NoHandle}
      BY <1>1, <2>1
    <2>4. \A u \in Person : born[a] = Tg(u) => u = t  BY <2>1
    <2>5. name[a] # NoName  BY <1>3, <2>1, <2>3 DEF RowLives
    <2>6. /\ name'[a] = NoName <=> born'[a] = NoName
          /\ name'[a] = NoName => hash'[a] = NoSecret
          /\ born'[a] \notin Fallbacks => name'[a] = born'[a]
      BY <2>1, <2>2, <2>3
    <2>7. ASSUME NEW u \in Person, born'[a] = Tg(u)
          PROVE  /\ \E k \in past'[u] \ {NoHandle} : name'[a] = At(k)
                 /\ hash'[a] = NoSecret => NoHandle \in past'[u]
      <3>1. u = t  BY <2>2, <2>4, <2>7
      <3>2. hash[a] = NoSecret => NoHandle \in past[t]
        BY <1>3, <2>1 DEF RowLives
      <3> QED  BY <1>1, <2>2, <2>3, <3>1, <3>2
    <2> QED  BY <2>6, <2>7, Zenon DEF RowLives
  <1>7. ASSUME NEW p \in Proc, NEW b \in Account, Inserts(p, b), b # a
        PROVE  UNCHANGED <<name[a], hash[a], born[a]>>
    BY <1>0, <1>7 DEF Inserts, Insert, TypeOK
  <1>8. ASSUME NEW p \in Proc, Renames(p), acct[p] # a
        PROVE  UNCHANGED <<name[a], hash[a], born[a]>>
    BY <1>0, <1>8 DEF Renames, TypeOK
  <1>9. CASE UNCHANGED table  BY <1>4, <1>9
  <1>10. ASSUME NEW p \in Proc, NEW b \in Account, Inserts(p, b)
         PROVE  RowLives(a)'
    BY <1>4, <1>5, <1>7, <1>10
  <1>11. ASSUME NEW p \in Proc, Renames(p) PROVE RowLives(a)'
    BY <1>4, <1>6, <1>8, <1>11
  <1> QED  BY <1>9, <1>10, <1>11, TableMoves

LEMMA NextHandles ==
  ASSUME Inv, [Next]_vars PROVE HandlesHeld'
  <1>0. TypeOK /\ HandlesHeld  BY DEF Inv
  <1> USE <1>0 DEF HandlesHeld, TypeOK
  <1>1. CASE UNCHANGED telegram  BY <1>1
  <1>2. ASSUME NEW t \in Person, NEW h \in Handle \cup {NoHandle},
               ChangeHandle(t, h)
        PROVE  HandlesHeld'
    BY <1>2 DEF ChangeHandle
  <1> QED  BY <1>1, <1>2, TelegramMoves

(* No row goes away, and what it was inserted with stays. *)
LEMMA RowsStay ==
  ASSUME Inv, [Next]_vars, NEW a \in Account, name[a] # NoName
  PROVE  name'[a] # NoName /\ born'[a] = born[a] /\ hash'[a] = hash[a]
  <1>0. TypeOK  BY DEF Inv
  <1>1. ASSUME NEW p \in Proc, NEW b \in Account, Inserts(p, b)
        PROVE  UNCHANGED <<name[a], born[a], hash[a]>>
    BY <1>0, <1>1 DEF Inserts, Insert, TypeOK
  <1>2. ASSUME NEW p \in Proc, Renames(p)
        PROVE  name'[a] # NoName /\ UNCHANGED <<born[a], hash[a]>>
    <2>1. want[p] # NoName  BY <1>2, CallType, Names DEF Renames
    <2> QED  BY <1>0, <1>2, <2>1 DEF Renames, TypeOK
  <1> QED  BY <1>1, <1>2, TableMoves

(* A row with a fallback name was inserted with it. *)
LEMMA RowOfFallback ==
  ASSUME Inv, NEW a \in Account, NEW t \in Person, name[a] = Tg(t)
  PROVE  born[a] = Tg(t)
  <1>0. TypeOK /\ LifeOfARow  BY DEF Inv
  <1>1. CASE born[a] \notin Fallbacks  BY <1>0, <1>1 DEF LifeOfARow
  <1>2. CASE born[a] \in Fallbacks
    <2>1. PICK u \in Person : born[a] = Tg(u)  BY <1>2, Names
    <2>2. \A h \in past[u] \ {NoHandle} : name[a] # At(h)
      <3>1. past[u] \subseteq Handle \cup {NoHandle}  BY <1>0 DEF TypeOK
      <3> QED  BY <3>1, Names
    <2> QED  BY <1>0, <2>1, <2>2, Names DEF LifeOfARow
  <1> QED  BY <1>1, <1>2

-------------------------------------------------------------------------------
(* What CallsInOrder says of one goroutine. *)
CallInOrder(p) ==
  /\ pc[p] \in {"reg_create", "log_get"} =>
       want[p] \in Name /\ secret[p] \in Secret
  /\ pc[p] = "mw_exists" => acct[p] \in Account
  /\ pc[p] \in {"ens_at", "ens_tg", "ens_rename", "ens_create"} =>
       \E t \in Person :
         /\ who[p] = t
         /\ \/ /\ want[p] = Tg(t) /\ NoHandle \in past[t]
               /\ pc[p] \in {"ens_tg", "ens_create"}
            \/ \E h \in past[t] \ {NoHandle} : want[p] = At(h)
         /\ pc[p] = "ens_rename" =>
              \E a \in Account : acct[p] = a /\ born[a] = Tg(t)

LEMMA EachCall == CallsInOrder <=> \A p \in Proc : CallInOrder(p)
  BY DEF CallsInOrder, CallInOrder

(* A goroutine that does not move still knows what it knew. *)
LEMMA CallStays ==
  ASSUME Inv, [Next]_vars, NEW p \in Proc,
         UNCHANGED <<pc[p], who[p], want[p], secret[p], acct[p]>>
  PROVE  CallInOrder(p)'
  <1>0. TypeOK /\ LifeOfARow /\ CallInOrder(p)  BY EachCall DEF Inv
  <1>1. \A t \in Person : past[t] \subseteq past'[t]  BY <1>0, PastGrows
  <1>2. ASSUME NEW t \in Person, NEW a \in Account, born[a] = Tg(t)
        PROVE  born'[a] = Tg(t)
    <2>1. name[a] # NoName  BY <1>0, <1>2, Names DEF LifeOfARow
    <2> QED  BY <1>2, <2>1, RowsStay
  <1> QED  BY <1>0, <1>1, <1>2 DEF CallInOrder

LEMMA RequestCall ==
  ASSUME Inv, NEW p \in Proc, Request(p)
  PROVE  /\ CallInOrder(p)'
         /\ \A q \in Proc \ {p} :
              UNCHANGED <<pc[q], who[q], want[q], secret[q], acct[q]>>
  <1> DEFINE Moved == /\ CallInOrder(p)'
                      /\ \A q \in Proc \ {p} :
                           UNCHANGED <<pc[q], who[q], want[q], secret[q], acct[q]>>
  <1>0. TypeOK /\ HandlesHeld  BY DEF Inv
  <1> USE <1>0 DEF TypeOK, CallInOrder, Begin, Goto
  <1>1. ASSUME NEW n \in Name, NEW s \in Secret,
               BeginRegister(p, n, s) \/ BeginLogin(p, n, s)
        PROVE  Moved
    BY <1>1 DEF BeginRegister, BeginLogin
  <1>2. ASSUME NEW a \in Account, BeginRequest(p, a) PROVE Moved
    BY <1>2 DEF BeginRequest
  <1>3. ASSUME NEW t \in Person, BeginUpdate(p, t) PROVE Moved
    BY <1>3 DEF BeginUpdate, HandlesHeld
  <1> QED  BY <1>1, <1>2, <1>3 DEF Request

(* The bot goes on with an account that it has found or opened. *)
LEMMA AdvanceCall ==
  ASSUME Inv, NEW p \in Proc, Advance(p)
  PROVE  /\ CallInOrder(p)'
         /\ \A q \in Proc \ {p} :
              UNCHANGED <<pc[q], who[q], want[q], secret[q], acct[q]>>
  <1> DEFINE Moved == /\ CallInOrder(p)'
                      /\ \A q \in Proc \ {p} :
                           UNCHANGED <<pc[q], who[q], want[q], secret[q], acct[q]>>
  <1>0. TypeOK /\ LifeOfARow /\ CallInOrder(p)  BY EachCall DEF Inv
  <1>1. ASSUME NEW label \in Outcomes,
               Step(p, label) \/ \E a \in Account : Take(p, label, a)
        PROVE  Moved
    BY <1>0, <1>1 DEF TypeOK, CallInOrder, Step, Take, Goto
  <1>2. CASE Register(p)         BY <1>1, <1>2 DEF Register
  <1>3. CASE RegisterUnacked(p)  BY <1>1, <1>3 DEF RegisterUnacked
  <1>4. CASE Login(p)            BY <1>1, <1>4 DEF Login, Called
  <1>5. CASE Authenticate(p)     BY <1>1, <1>5 DEF Authenticate
  <1>6. CASE LookUpAt(p)
    <2>1. ASSUME Step(p, "ens_tg") PROVE Moved
      BY <1>0, <1>6, <2>1 DEF LookUpAt, TypeOK, CallInOrder, Step, Goto
    <2> QED  BY <1>1, <1>6, <2>1 DEF LookUpAt, Answer, Called
  <1>7. CASE LookUpFallback(p)
    <2>1. PICK t \in Person :
            /\ who[p] = t
            /\ \/ want[p] = Tg(t) /\ NoHandle \in past[t]
               \/ \E h \in past[t] \ {NoHandle} : want[p] = At(h)
      BY <1>0, <1>7 DEF LookUpFallback, CallInOrder
    <2>2. ASSUME Step(p, "ens_create") PROVE Moved
      BY <1>0, <1>7, <2>1, <2>2
      DEF LookUpFallback, TypeOK, CallInOrder, Step, Goto
    <2>3. ASSUME NEW a \in Account, name[a] = Tg(t), want[p] # Tg(t),
                 Take(p, "ens_rename", a)
          PROVE  Moved
      <3>1. born[a] = Tg(t)  BY <1>0, <2>3, RowOfFallback
      <3> QED
        BY <1>0, <1>7, <2>1, <2>3, <3>1
        DEF LookUpFallback, TypeOK, CallInOrder, Take, Goto
    <2> QED  BY <1>1, <1>7, <2>1, <2>2, <2>3 DEF LookUpFallback, Answer, Called
  <1>8. CASE RenameAccount(p)
    <2>1. acct[p] \in Account  BY <1>8, CallType DEF RenameAccount
    <2> QED  BY <1>1, <1>8, <2>1 DEF RenameAccount, Answer
  <1>9. CASE CreateAccount(p)          BY <1>1, <1>9 DEF CreateAccount, Answer
  <1>10. CASE CreateAccountUnacked(p)  BY <1>1, <1>10 DEF CreateAccountUnacked
  <1>11. CASE QueryFails(p)            BY <1>1, <1>11 DEF QueryFails
  <1>12. CASE Return(p)
    BY <1>0, <1>12 DEF Return, Goto, TypeOK, CallInOrder
  <1> QED
    BY <1>2, <1>3, <1>4, <1>5, <1>6, <1>7, <1>8, <1>9, <1>10, <1>11, <1>12
    DEF Advance

LEMMA NextCalls ==
  ASSUME Inv, [Next]_vars PROVE CallsInOrder'
  <1> SUFFICES ASSUME NEW p \in Proc PROVE CallInOrder(p)'
    BY DEF CallsInOrder, CallInOrder
  <1>1. ASSUME NEW q \in Proc, Request(q) \/ Advance(q) PROVE CallInOrder(p)'
    <2>1. CASE p = q  BY <1>1, <2>1, RequestCall, AdvanceCall
    <2>2. CASE p # q
      <3>1. UNCHANGED <<pc[p], who[p], want[p], secret[p], acct[p]>>
        BY <1>1, <2>2, RequestCall, AdvanceCall
      <3> QED  BY <3>1, CallStays
    <2> QED  BY <2>1, <2>2
  <1>2. CASE \E t \in Person, h \in Handle \cup {NoHandle} : ChangeHandle(t, h)
    BY <1>2, CallStays DEF ChangeHandle
  <1>3. CASE Expire          BY <1>3, CallStays DEF Expire
  <1>4. CASE Crash           BY <1>4 DEF Crash, CallInOrder
  <1>5. CASE UNCHANGED vars  BY <1>5, CallStays
  <1> QED  BY <1>1, <1>2, <1>3, <1>4, <1>5 DEF Next

-------------------------------------------------------------------------------
(* What AccountsOf(t) \ni a says of the names of a and t. *)
Met(t, a) ==
  \/ born[a] = Tg(t)
  \/ \E h \in past[t] \ {NoHandle} :
       \/ born[a] = At(h)
       \/ \E u \in Person \ {t} : born[a] = Tg(u) /\ h \in past[u]

(* An account that an update is answered with has been met by its name. *)
LEMMA NamedIsMet ==
  ASSUME Inv, NEW t \in Person, NEW a \in Account,
         \/ name[a] = Tg(t)
         \/ \E h \in past[t] \ {NoHandle} : name[a] = At(h)
  PROVE  Met(t, a)
  <1>0. TypeOK /\ LifeOfARow  BY DEF Inv
  <1>1. CASE name[a] = Tg(t)  BY <1>0, <1>1, RowOfFallback DEF Met
  <1>2. ASSUME NEW h \in past[t] \ {NoHandle}, name[a] = At(h) PROVE Met(t, a)
    <2>1. h \in Handle  BY <1>0, <1>2 DEF TypeOK
    <2>2. CASE born[a] \notin Fallbacks
      BY <1>0, <1>2, <2>2 DEF LifeOfARow, Met
    <2>3. CASE born[a] \in Fallbacks
      <3>1. PICK u \in Person : born[a] = Tg(u)  BY <2>3, Names
      <3>2. PICK k \in past[u] \ {NoHandle} : name[a] = At(k)
        BY <1>0, <1>2, <2>1, <3>1, Names DEF LifeOfARow
      <3>3. h = k
        <4>1. k \in Handle  BY <1>0, <3>2 DEF TypeOK
        <4> QED  BY <1>2, <2>1, <3>2, <4>1, Names
      <3> QED  BY <1>2, <3>1, <3>2, <3>3 DEF Met
    <2> QED  BY <2>2, <2>3
  <1> QED  BY <1>1, <1>2

LEMMA EachMet ==
  MetByName <=> \A t \in Person, a \in Account : <<t, a>> \in met => Met(t, a)
  BY DEF MetByName, AccountsOf, Met

(* What was true of an account and a person stays true. *)
LEMMA MetStays ==
  ASSUME Inv, [Next]_vars, NEW t \in Person, NEW a \in Account, Met(t, a)
  PROVE  Met(t, a)'
  <1>0. TypeOK /\ LifeOfARow  BY DEF Inv
  <1>1. \A u \in Person : past[u] \subseteq past'[u]  BY <1>0, PastGrows
  <1>2. born[a] \in Name
    <2>1. past[t] \subseteq Handle \cup {NoHandle}  BY <1>0 DEF TypeOK
    <2> QED  BY <2>1, Names DEF Met
  <1>3. name[a] # NoName  BY <1>0, <1>2, Names DEF LifeOfARow
  <1>4. born'[a] = born[a]  BY <1>3, RowsStay
  <1> QED  BY <1>1, <1>4 DEF Met

(* The steps that answer an update, and what they know of its account. *)
LEMMA MetMoves ==
  ASSUME Inv, [Next]_vars, NEW t \in Person, NEW a \in Account,
         <<t, a>> \in met', <<t, a>> \notin met
  PROVE  \E p \in Proc :
           /\ who[p] = t
           /\ \/ LookUpAt(p) /\ name[a] = want[p]
              \/ LookUpFallback(p) /\ name[a] = Tg(t)
              \/ RenameAccount(p) /\ a = acct[p]
              \/ CreateAccount(p) /\ Insert(a, want[p], NoSecret)
  <1>1. ASSUME NEW p \in Proc, Request(p) PROVE FALSE
    BY <1>1 DEF Request, BeginRegister, BeginLogin, BeginRequest, BeginUpdate,
      Begin
  <1>2. ASSUME NEW p \in Proc, Advance(p)
        PROVE  \/ LookUpAt(p) \/ LookUpFallback(p)
               \/ RenameAccount(p) \/ CreateAccount(p)
    BY <1>2 DEF Advance, Register, RegisterUnacked, Login, Authenticate,
      CreateAccountUnacked, QueryFails, Return
  <1>3. ASSUME NEW p \in Proc, NEW b, Answer(p, b) PROVE who[p] = t /\ a = b
    BY <1>3 DEF Answer
  <1>4. ASSUME NEW p \in Proc, LookUpAt(p)
        PROVE  who[p] = t /\ name[a] = want[p]
    BY <1>3, <1>4 DEF LookUpAt, Called
  <1>5. ASSUME NEW p \in Proc, LookUpFallback(p)
        PROVE  who[p] = t /\ name[a] = Tg(t)
    BY <1>3, <1>5 DEF LookUpFallback, Called
  <1>6. ASSUME NEW p \in Proc, RenameAccount(p)
        PROVE  who[p] = t /\ a = acct[p]
    BY <1>3, <1>6 DEF RenameAccount
  <1>7. ASSUME NEW p \in Proc, CreateAccount(p)
        PROVE  who[p] = t /\ Insert(a, want[p], NoSecret)
    BY <1>3, <1>7 DEF CreateAccount
  <1>8. CASE \E u \in Person, h \in Handle \cup {NoHandle} : ChangeHandle(u, h)
    BY <1>8 DEF ChangeHandle
  <1>9. CASE Expire \/ Crash \/ UNCHANGED vars  BY <1>9 DEF Expire, Crash
  <1> QED
    BY <1>1, <1>2, <1>4, <1>5, <1>6, <1>7, <1>8, <1>9 DEF Next

LEMMA NextMet ==
  ASSUME Inv, [Next]_vars PROVE MetByName'
  <1>0. TypeOK /\ MetByName  BY DEF Inv
  <1> SUFFICES ASSUME NEW t \in Person, NEW a \in Account, <<t, a>> \in met'
               PROVE  Met(t, a)'
    BY DEF MetByName, AccountsOf, Met
  <1>1. CASE <<t, a>> \in met  BY <1>0, <1>1, EachMet, MetStays
  <1>2. CASE <<t, a>> \notin met
    <2>1. PICK p \in Proc :
            /\ who[p] = t
            /\ \/ LookUpAt(p) /\ name[a] = want[p]
               \/ LookUpFallback(p) /\ name[a] = Tg(t)
               \/ RenameAccount(p) /\ a = acct[p]
               \/ CreateAccount(p) /\ Insert(a, want[p], NoSecret)
      BY <1>2, MetMoves
    <2>2. pc[p] \in {"ens_at", "ens_tg", "ens_rename", "ens_create"}
      BY <2>1 DEF LookUpAt, LookUpFallback, RenameAccount, CreateAccount
    <2>3. /\ \/ want[p] = Tg(t)
             \/ \E h \in past[t] \ {NoHandle} : want[p] = At(h)
          /\ pc[p] = "ens_rename" => born[acct[p]] = Tg(t)
      <3>1. CallInOrder(p)  BY EachCall DEF Inv
      <3> QED  BY <2>1, <2>2, <3>1 DEF CallInOrder
    <2>4. CASE LookUpAt(p) /\ name[a] = want[p]
      BY <2>3, <2>4, NamedIsMet, MetStays
    <2>5. CASE LookUpFallback(p) /\ name[a] = Tg(t)
      BY <2>5, NamedIsMet, MetStays
    <2>6. CASE RenameAccount(p) /\ a = acct[p]
      <3>1. Met(t, a)  BY <2>3, <2>6 DEF RenameAccount, Met
      <3> QED  BY <3>1, MetStays
    <2>7. CASE CreateAccount(p) /\ Insert(a, want[p], NoSecret)
      <3>1. born'[a] = want[p]  BY <1>0, <2>7 DEF Insert, TypeOK
      <3>2. past'[t] = past[t]  BY <2>7 DEF CreateAccount
      <3> QED  BY <2>3, <3>1, <3>2 DEF Met
    <2> QED  BY <2>1, <2>4, <2>5, <2>6, <2>7
  <1> QED  BY <1>1, <1>2

-------------------------------------------------------------------------------
(* Only an INSERT is known, with its password or without one. *)
Opens(p, a, s) ==
  /\ Insert(a, want[p], s)
  /\ known' = known \cup {<<a, want[p], s>>}

LEMMA KnownMoves ==
  ASSUME [Next]_vars
  PROVE  \/ UNCHANGED known
         \/ \E p \in Proc, a \in Account :
              \E s \in {secret[p], NoSecret} : Opens(p, a, s)
  <1>1. ASSUME NEW p \in Proc, Request(p) PROVE UNCHANGED known
    BY <1>1 DEF Request, BeginRegister, BeginLogin, BeginRequest, BeginUpdate,
      Begin
  <1>2. ASSUME NEW p \in Proc, Advance(p), ~Register(p), ~CreateAccount(p)
        PROVE  UNCHANGED known
    BY <1>2 DEF Advance, RegisterUnacked, Login, Authenticate,
      LookUpAt, LookUpFallback, RenameAccount, CreateAccountUnacked,
      QueryFails, Return
  <1>3. ASSUME NEW p \in Proc, Register(p)
        PROVE  UNCHANGED known \/ \E a \in Account : Opens(p, a, secret[p])
    BY <1>3 DEF Register, Opens
  <1>4. ASSUME NEW p \in Proc, CreateAccount(p)
        PROVE  UNCHANGED known \/ \E a \in Account : Opens(p, a, NoSecret)
    BY <1>4 DEF CreateAccount, Opens
  <1>5. CASE \E t \in Person, h \in Handle \cup {NoHandle} : ChangeHandle(t, h)
    BY <1>5 DEF ChangeHandle
  <1>6. CASE Expire \/ Crash \/ UNCHANGED vars  BY <1>6 DEF Expire, Crash
  <1> QED  BY <1>1, <1>2, <1>3, <1>4, <1>5, <1>6 DEF Next

LEMMA NextKnown ==
  ASSUME Inv, [Next]_vars PROVE KnownAsOpened'
  <1>0. TypeOK /\ LifeOfARow /\ KnownAsOpened  BY DEF Inv
  <1> SUFFICES ASSUME NEW a \in Account, NEW n \in Name,
                      NEW s \in Secret \cup {NoSecret}, <<a, n, s>> \in known'
               PROVE  born'[a] = n /\ hash'[a] = s
    BY DEF KnownAsOpened
  <1>1. CASE <<a, n, s>> \in known
    <2>1. born[a] = n /\ hash[a] = s  BY <1>0, <1>1 DEF KnownAsOpened
    <2>2. name[a] # NoName  BY <1>0, <2>1, Names DEF LifeOfARow
    <2> QED  BY <2>1, <2>2, RowsStay
  <1>2. ASSUME NEW p \in Proc, NEW b \in Account, NEW r, Opens(p, b, r),
               <<a, n, s>> = <<b, want[p], r>>
        PROVE  born'[a] = n /\ hash'[a] = s
    BY <1>0, <1>2 DEF Opens, Insert, TypeOK
  <1> QED  BY <1>1, <1>2, KnownMoves DEF Opens

(* Only a login adds a token. *)
LEMMA TokenMoves ==
  ASSUME [Next]_vars, NEW a \in Account, NEW s \in Secret, <<a, s>> \in tokens'
  PROVE  \/ <<a, s>> \in tokens
         \/ \E p \in Proc : pc[p] = "log_get" /\ Called(a, want[p]) /\ hash[a] = s
  <1>1. ASSUME NEW p \in Proc, Request(p) PROVE tokens' = tokens
    BY <1>1 DEF Request, BeginRegister, BeginLogin, BeginRequest, BeginUpdate
  <1>2. ASSUME NEW p \in Proc, Advance(p), ~Login(p) PROVE tokens' = tokens
    BY <1>2 DEF Advance, Register, RegisterUnacked, Authenticate,
      LookUpAt, LookUpFallback, RenameAccount, CreateAccount,
      CreateAccountUnacked, QueryFails, Return
  <1>3. ASSUME NEW p \in Proc, Login(p), <<a, s>> \notin tokens
        PROVE  pc[p] = "log_get" /\ Called(a, want[p]) /\ hash[a] = s
    <2>1. PICK b \in Account :
            /\ Called(b, want[p]) /\ hash[b] = secret[p]
            /\ tokens' = tokens \cup {<<b, secret[p]>>}
      BY <1>3 DEF Login
    <2> QED  BY <1>3, <2>1 DEF Login
  <1>4. CASE \E t \in Person, h \in Handle \cup {NoHandle} : ChangeHandle(t, h)
    BY <1>4 DEF ChangeHandle
  <1>5. CASE Expire \/ Crash \/ UNCHANGED vars  BY <1>5 DEF Expire, Crash
  <1> QED  BY <1>1, <1>2, <1>3, <1>4, <1>5 DEF Next

LEMMA NextTokens ==
  ASSUME Inv, [Next]_vars PROVE TokensAreEarned'
  <1>0. TypeOK /\ TokensAreEarned /\ LifeOfARow  BY DEF Inv
  <1> SUFFICES ASSUME NEW a \in Account, NEW s \in Secret, <<a, s>> \in tokens'
               PROVE  name'[a] # NoName /\ hash'[a] = s
    BY DEF TokensAreEarned
  <1>1. ASSUME NEW p \in Proc, pc[p] = "log_get", Called(a, want[p]), hash[a] = s
        PROVE  name[a] # NoName
    BY <1>1, CallType, Names DEF Called
  <1>2. name[a] # NoName /\ hash[a] = s
    BY <1>0, <1>1, TokenMoves DEF TokensAreEarned
  <1> QED  BY <1>2, RowsStay

-------------------------------------------------------------------------------
LEMMA NextInv == Inv /\ [Next]_vars => Inv'
  BY NextType, NextNames, NextRows, NextHandles, NextCalls, NextMet, NextKnown,
     NextTokens
  DEF Inv

(* The inductive invariant holds of every reachable state. *)
THEOREM Invariance == Spec => []Inv
  BY InitInv, NextInv, PTL DEF Spec

(* Every variable keeps to its type. *)
THEOREM TypeCorrect == Spec => []TypeOK
  <1>1. Inv => TypeOK  BY DEF Inv
  <1> QED  BY <1>1, Invariance, PTL

(* Accounts keep the passwords they were opened with, and their names. *)
THEOREM AccountsStayAsOpened == Spec => []AccountsAsOpened
  <1>1. Inv => AccountsAsOpened
    <2> SUFFICES ASSUME Inv, NEW a \in Account, NEW n \in Name,
                        NEW s \in Secret \cup {NoSecret}, <<a, n, s>> \in known
                 PROVE  hash[a] = s /\ (n \notin Fallbacks => name[a] = n)
      BY DEF AccountsAsOpened
    <2> QED  BY DEF Inv, KnownAsOpened, LifeOfARow
  <1> QED  BY <1>1, Invariance, PTL

(* Tokens are for accounts whose password was given for them. *)
THEOREM TokensEarned == Spec => []TokensAreEarned
  <1>1. Inv => TokensAreEarned  BY DEF Inv
  <1> QED  BY <1>1, Invariance, PTL

(* Two people share an account only through a Telegram username that both  *)
(* have had.                                                               *)
THEOREM PeopleApart == Spec => []PeopleKeptApart
  <1>1. Inv => PeopleKeptApart
    <2> SUFFICES ASSUME Inv, NothingReassigned, NEW t \in Person, NEW u \in Person,
                        NEW a \in Account, <<t, a>> \in met, <<u, a>> \in met
                 PROVE  t = u
      BY DEF PeopleKeptApart, AccountsOf
    <2>1. TypeOK /\ Met(t, a) /\ Met(u, a)  BY EachMet DEF Inv
    <2>2. ASSUME NEW v \in Person, Met(v, a)
          PROVE  born[a] = Tg(v) \/ \E h \in Handle : h \in past[v] /\ born[a] = At(h)
      <3>1. past[v] \subseteq Handle \cup {NoHandle}  BY <2>1 DEF TypeOK
      <3>2. \A w \in Person \ {v}, h \in past[v] \ {NoHandle} : h \notin past[w]
        BY DEF NothingReassigned
      <3> QED  BY <2>2, <3>1, <3>2 DEF Met
    <2>3. ASSUME NEW h \in Handle, h \in past[t], h \in past[u] PROVE t = u
      BY <2>3, IdentityAssumption DEF NothingReassigned
    <2> QED  BY <2>1, <2>2, <2>3, Names
  <1> QED  BY <1>1, Invariance, PTL

(* A person whose Telegram username never changed has one account. *)
THEOREM OneAccountEach == Spec => []OneAccountPerName
  <1>1. Inv => OneAccountPerName
    <2> SUFFICES ASSUME Inv, NEW t \in Person, past[t] = {handle[t]},
                        NEW a \in Account, NEW b \in Account,
                        <<t, a>> \in met, <<t, b>> \in met,
                        \A c \in Account : born[c] = Tg(t) => hash[c] = NoSecret
                 PROVE  a = b
      BY DEF OneAccountPerName, AccountsOf
    <2>1. /\ TypeOK /\ UniqueNames /\ LifeOfARow /\ HandlesHeld
          /\ Met(t, a) /\ Met(t, b)
      BY EachMet DEF Inv
    <2>2. CASE handle[t] = NoHandle
      <3>1. ASSUME NEW c \in Account, Met(t, c) PROVE name[c] = Tg(t)
        <4>1. born[c] = Tg(t)  BY <2>2, <3>1 DEF Met
        <4> QED  BY <2>1, <2>2, <4>1 DEF LifeOfARow
      <3>2. name[a] = Tg(t) /\ name[b] = Tg(t)  BY <2>1, <3>1
      <3> QED  BY <2>1, <3>2, Names DEF UniqueNames
    <2>3. ASSUME NEW h \in Handle, handle[t] = h PROVE a = b
      <3>1. h # NoHandle  BY IdentityAssumption
      <3>2. ASSUME NEW c \in Account, Met(t, c) PROVE name[c] = At(h)
        <4>1. born[c] # Tg(t)  BY <2>1, <2>3, <3>1 DEF LifeOfARow
        <4>2. \A u \in Person \ {t} : h \notin past[u]
          BY <2>1, <2>3, <3>1 DEF HandlesHeld
        <4>3. born[c] = At(h)  BY <2>3, <3>2, <4>1, <4>2 DEF Met
        <4> QED  BY <2>1, <4>3, Names DEF LifeOfARow
      <3>3. name[a] = At(h) /\ name[b] = At(h)  BY <2>1, <3>2
      <3> QED  BY <2>1, <3>3, Names DEF UniqueNames
    <2> QED  BY <2>1, <2>2, <2>3 DEF TypeOK
  <1> QED  BY <1>1, Invariance, PTL

-------------------------------------------------------------------------------
(* The file use cases can rely on users: Identity is the environment that   *)
(* FilesUseCase assumes.  A row that is about to be renamed may have been    *)
(* renamed before, but only to a username with a '@'.                        *)
LEMMA InsertAllowed ==
  ASSUME Inv, NEW p \in Proc, NEW a \in Account, Inserts(p, a)
  PROVE  UsernamesOf!Next
  <1>1. CASE pc[p] = "reg_create"
    <2>1. want[p] \in Name  BY <1>1 DEF Inv, CallsInOrder
    <2>2. UsernamesOf!Register(a, want[p])
      BY <1>1 DEF Inserts, Insert, Taken, UsernamesOf!Register, UsernamesOf!Free
    <2> QED  BY <2>1, <2>2 DEF UsernamesOf!Next
  <1>2. CASE pc[p] = "ens_create"
    <2>1. want[p] \in Name
      BY <1>2, Names DEF Inv, TypeOK, CallsInOrder
    <2>2. UsernamesOf!Register(a, want[p])
      BY <1>2 DEF Inserts, Insert, Taken, UsernamesOf!Register, UsernamesOf!Free
    <2> QED  BY <2>1, <2>2 DEF UsernamesOf!Next
  <1> QED  BY <1>1, <1>2 DEF Inserts

LEMMA RenameAllowed ==
  ASSUME Inv, NEW p \in Proc, Renames(p)
  PROVE  UsernamesOf!Next
  <1>1. PICK h \in Handle : want[p] = At(h)
    BY Names DEF Inv, TypeOK, CallsInOrder, Renames
  <1>2. acct[p] \in Account /\ born[acct[p]] = Tg(who[p]) /\ who[p] \in Person
    BY DEF Inv, CallsInOrder, Renames
  <1>3. name[acct[p]] # NoName
    BY <1>2, Names DEF Inv, LifeOfARow
  <1>4. At(h) \in {"@"} \X Handle /\ At(h) \in Name
    BY Names DEF At
  <1>5. UsernamesOf!Rename(acct[p], want[p])
    BY <1>1, <1>2, <1>3, <1>4
    DEF Renames, Taken, UsernamesOf!Rename, UsernamesOf!Free
  <1> QED  BY <1>1, <1>2, <1>4, <1>5 DEF UsernamesOf!Next

(* Registrations and updates change the table users as Usernames allows.    *)
THEOREM UsernamesImplemented == Spec => ImplementsUsernames
  <1>1. Init => UsernamesOf!Init  BY DEF Init, UsernamesOf!Init
  <1>2. Inv /\ [Next]_vars => [UsernamesOf!Next]_name
    <2> SUFFICES ASSUME Inv, [Next]_vars PROVE UsernamesOf!Next \/ UNCHANGED name
      OBVIOUS
    <2> QED  BY TableMoves, InsertAllowed, RenameAllowed
  <1> QED
    BY <1>1, <1>2, Invariance, PTL DEF Spec, ImplementsUsernames, UsernamesOf!Spec
===============================================================================
