------------------------------- MODULE Identity -------------------------------
(***************************************************************************)
(* Accounts: internal/usecase/auth.go and internal/auth over the table     *)
(* users (internal/users/postgres_repository.go).                          *)
(*                                                                         *)
(* An account has an id, a unique username and a password hash, empty if   *)
(* the bot opened it.  People register and log in over HTTP; the bot finds *)
(* or opens the account of whoever sends an update, by "@" and the         *)
(* sender's Telegram username or, failing that, by "tg:" and the sender's  *)
(* Telegram id.  Every request and every update has a goroutine, one SQL   *)
(* statement per step.  Telegram usernames are optional and change at any  *)
(* time; an update carries the one that its sender had.                    *)
(*                                                                         *)
(* A username is a pair of a realm, "@", "tg:" or "" for any other, and    *)
(* what follows it.                                                        *)
(***************************************************************************)
CONSTANTS
  Proc,       \* goroutines
  Account,    \* the ids gen_random_uuid() will produce: bounds the table
  Person,     \* Telegram ids
  Handle,     \* Telegram usernames
  Plain,      \* usernames without a prefix
  Secret,     \* passwords
  NoName,     \* the username of an id that has no row
  NoSecret,   \* the empty password, which bcrypt never accepts
  NoHandle,   \* a sender without a Telegram username
  NoPerson,   \* the sender of an HTTP request
  NoAccount,  \* the account of a goroutine that has found none
  Realms,     \* the realms that usernames are registered in over HTTP
  Ops,        \* the requests that are made
  Reassign,   \* whether a Telegram username may pass to somebody else
  Faults      \* "query": without an effect, "ack": after it, "crash"

At(h) == <<"@", h>>
Tg(t) == <<"tg:", t>>
Fallbacks == {"tg:"} \X Person
Name == ({"@"} \X Handle) \cup Fallbacks \cup ({""} \X Plain)

Operations == {"register", "login", "update", "request"}

ASSUME IdentityAssumption ==
  /\ NoName \notin Name
  /\ NoSecret \notin Secret
  /\ NoHandle \notin Handle
  /\ NoPerson \notin Person
  /\ NoAccount \notin Account
  /\ Realms \subseteq {"@", "tg:", ""}
  /\ Ops \subseteq Operations
  /\ Reassign \in BOOLEAN
  /\ Faults \subseteq {"query", "ack", "crash"}

VARIABLES
  name,     \* the table users: username of each id, NoName without a row
  hash,     \* the table users: the password behind password_hash
  tokens,   \* tokens that have not expired, by subject
  handle,   \* Telegram: the username of each person
  pc,       \* next statement, or outcome, of each goroutine
  who,      \* sender of the update that a goroutine handles
  want,     \* the username that a goroutine looks up or inserts
  secret,   \* the password that a goroutine was given
  acct,     \* the id that a goroutine has found
  born,     \* history: the username each row was inserted with
  past,     \* history: the usernames each person has had
  met,      \* history: <<person, account>> for each update that got one
  known     \* history: <<account, username, password>> of INSERTs that were told

table == <<name, hash, born>>
telegram == <<handle, past>>
call == <<pc, who, want, secret, acct>>
seen == <<met, known>>
vars == <<name, hash, tokens, handle, pc, who, want, secret, acct,
          born, past, met, known>>

Statements ==
  {"reg_create", "log_get", "mw_exists",
   "ens_at", "ens_tg", "ens_rename", "ens_create"}
Outcomes == {"ok", "err"}

TypeOK ==
  /\ name \in [Account -> Name \cup {NoName}]
  /\ hash \in [Account -> Secret \cup {NoSecret}]
  /\ tokens \in SUBSET (Account \X Secret)
  /\ handle \in [Person -> Handle \cup {NoHandle}]
  /\ pc \in [Proc -> Statements \cup Outcomes \cup {"idle"}]
  /\ who \in [Proc -> Person \cup {NoPerson}]
  /\ want \in [Proc -> Name \cup {NoName}]
  /\ secret \in [Proc -> Secret \cup {NoSecret}]
  /\ acct \in [Proc -> Account \cup {NoAccount}]
  /\ born \in [Account -> Name \cup {NoName}]
  /\ past \in [Person -> SUBSET (Handle \cup {NoHandle})]
  /\ met \in SUBSET (Person \X Account)
  /\ known \in SUBSET (Account \X Name \X (Secret \cup {NoSecret}))

(* At the start nobody has an account; people have distinct usernames. *)
Init ==
  /\ name = [a \in Account |-> NoName]
  /\ hash = [a \in Account |-> NoSecret]
  /\ tokens = {}
  /\ handle \in [Person -> Handle \cup {NoHandle}]
  /\ \A s, t \in Person : handle[s] = handle[t] => s = t \/ handle[s] = NoHandle
  /\ pc = [p \in Proc |-> "idle"]
  /\ who = [p \in Proc |-> NoPerson]
  /\ want = [p \in Proc |-> NoName]
  /\ secret = [p \in Proc |-> NoSecret]
  /\ acct = [p \in Proc |-> NoAccount]
  /\ born = [a \in Account |-> NoName]
  /\ past = [t \in Person |-> {handle[t]}]
  /\ met = {} /\ known = {}

Goto(p, label) == pc' = [pc EXCEPT ![p] = label]

Begin(p, label, t, n, s, a) ==
  /\ pc[p] = "idle"
  /\ Goto(p, label)
  /\ who' = [who EXCEPT ![p] = t]
  /\ want' = [want EXCEPT ![p] = n]
  /\ secret' = [secret EXCEPT ![p] = s]
  /\ acct' = [acct EXCEPT ![p] = a]
  /\ UNCHANGED <<table, telegram, seen>>

(* p goes on with account a. *)
Take(p, label, a) ==
  /\ Goto(p, label)
  /\ acct' = [acct EXCEPT ![p] = a]
  /\ UNCHANGED <<who, want, secret>>

(* p goes on as it is. *)
Step(p, label) == Goto(p, label) /\ UNCHANGED <<who, want, secret, acct>>

-------------------------------------------------------------------------------
(* The statements on users.                                                 *)

Taken(n) == \E a \in Account : name[a] = n

(* GetByUsername: the account called n. *)
Called(a, n) == a \in Account /\ name[a] = n

(* Broken variant: username is not UNIQUE. *)
InsertAnyway(a, n, s) ==
  /\ name[a] = NoName
  /\ name' = [name EXCEPT ![a] = n]
  /\ hash' = [hash EXCEPT ![a] = s]
  /\ born' = [born EXCEPT ![a] = n]

(* Broken variant: ON CONFLICT (username) DO UPDATE SET password_hash. *)
InsertOrOverwrite(a, n, s) ==
  /\ IF Taken(n) THEN name[a] = n ELSE name[a] = NoName
  /\ name' = [name EXCEPT ![a] = n]
  /\ hash' = [hash EXCEPT ![a] = s]
  /\ born' = [born EXCEPT ![a] = n]

(* A row for n with password s, under the fresh id a. *)
Insert(a, n, s) ==
  /\ name[a] = NoName /\ ~Taken(n)
  /\ name' = [name EXCEPT ![a] = n]
  /\ hash' = [hash EXCEPT ![a] = s]
  /\ born' = [born EXCEPT ![a] = n]

(* An INSERT of n fails: n is taken, or the table has reached its bound. *)
InsertRefused(n) == Taken(n) \/ \A a \in Account : name[a] # NoName

(* Broken variant: username is not UNIQUE. *)
RenameAnyway(a, n) == name' = [name EXCEPT ![a] = n]

(* The UPDATE is by id, and does nothing when the name is somebody's. *)
Rename(a, n) ==
  name' = IF Taken(n) THEN name ELSE [name EXCEPT ![a] = n]

(* Any statement reports an error without having had an effect. *)
QueryFails(p) ==
  /\ pc[p] \in Statements \ {"ens_rename"} /\ "query" \in Faults
  /\ Step(p, "err")
  /\ UNCHANGED <<table, tokens, telegram, seen>>

-------------------------------------------------------------------------------
(* Over HTTP: registration, login, and a request that carries a token.      *)

(* Any name that is not blank will do, also one that starts with a prefix. *)
BeginRegister(p, n, s) ==
  /\ n[1] \in Realms
  /\ Begin(p, "reg_create", NoPerson, n, s, NoAccount)
  /\ UNCHANGED tokens

Register(p) ==
  /\ pc[p] = "reg_create"
  /\ \/ \E a \in Account :
          /\ Insert(a, want[p], secret[p])
          /\ known' = known \cup {<<a, want[p], secret[p]>>}
          /\ Take(p, "ok", a)
     \/ /\ InsertRefused(want[p])
        /\ Step(p, "err")
        /\ UNCHANGED <<table, known>>
  /\ UNCHANGED <<tokens, telegram, met>>

(* The account is there, but the answer is an error. *)
RegisterUnacked(p) ==
  /\ pc[p] = "reg_create" /\ "ack" \in Faults
  /\ \E a \in Account : Insert(a, want[p], secret[p])
  /\ Step(p, "err")
  /\ UNCHANGED <<tokens, telegram, seen>>

BeginLogin(p, n, s) ==
  /\ Begin(p, "log_get", NoPerson, n, s, NoAccount)
  /\ UNCHANGED tokens

(* Broken variant: the password is not compared. *)
LoginUnchecked(p) ==
  /\ pc[p] = "log_get"
  /\ \/ \E a \in Account :
          /\ Called(a, want[p])
          /\ tokens' = tokens \cup {<<a, secret[p]>>}
          /\ Take(p, "ok", a)
     \/ /\ ~Taken(want[p])
        /\ Step(p, "err") /\ UNCHANGED tokens
  /\ UNCHANGED <<table, telegram, seen>>

(* A token for the account, if the password is its own. *)
Login(p) ==
  /\ pc[p] = "log_get"
  /\ \/ \E a \in Account :
          /\ Called(a, want[p]) /\ hash[a] = secret[p]
          /\ tokens' = tokens \cup {<<a, secret[p]>>}
          /\ Take(p, "ok", a)
     \/ /\ \A a \in Account : Called(a, want[p]) => hash[a] # secret[p]
        /\ Step(p, "err") /\ UNCHANGED tokens
  /\ UNCHANGED <<table, telegram, seen>>

(* ParseToken has accepted a token for a. *)
BeginRequest(p, a) ==
  /\ \E s \in Secret : <<a, s>> \in tokens
  /\ Begin(p, "mw_exists", NoPerson, NoName, NoSecret, a)
  /\ UNCHANGED tokens

Authenticate(p) ==
  /\ pc[p] = "mw_exists"
  /\ Step(p, IF name[acct[p]] # NoName THEN "ok" ELSE "err")
  /\ UNCHANGED <<table, tokens, telegram, seen>>

Expire ==
  /\ \E token \in tokens : tokens' = tokens \ {token}
  /\ UNCHANGED <<table, telegram, call, seen>>

-------------------------------------------------------------------------------
(* EnsureTelegramUser, at the start of every update.                        *)

(* Broken variant: the test for an empty Telegram username is missing. *)
BeginUpdateUntested(p, t) ==
  /\ Begin(p, "ens_at", t, At(handle[t]), NoSecret, NoAccount)
  /\ UNCHANGED tokens

BeginUpdate(p, t) ==
  /\ IF handle[t] = NoHandle
       THEN Begin(p, "ens_tg", t, Tg(t), NoSecret, NoAccount)
       ELSE Begin(p, "ens_at", t, At(handle[t]), NoSecret, NoAccount)
  /\ UNCHANGED tokens

(* The update of who[p] goes on with account a. *)
Answer(p, a) ==
  /\ Take(p, "ok", a)
  /\ met' = met \cup {<<who[p], a>>}

LookUpAt(p) ==
  /\ pc[p] = "ens_at"
  /\ \/ \E a \in Account : Called(a, want[p]) /\ Answer(p, a)
     \/ ~Taken(want[p]) /\ Step(p, "ens_tg") /\ UNCHANGED met
  /\ UNCHANGED <<table, tokens, telegram, known>>

LookUpFallback(p) ==
  /\ pc[p] = "ens_tg"
  /\ \/ \E a \in Account :
          /\ Called(a, Tg(who[p]))
          /\ IF want[p] = Tg(who[p])
               THEN Answer(p, a)
               ELSE Take(p, "ens_rename", a) /\ UNCHANGED met
     \/ ~Taken(Tg(who[p])) /\ Step(p, "ens_create") /\ UNCHANGED met
  /\ UNCHANGED <<table, tokens, telegram, known>>

(* Whether the UPDATE succeeds or not, the account is the one found. *)
RenameAccount(p) ==
  /\ pc[p] = "ens_rename"
  /\ \/ Rename(acct[p], want[p])
     \/ "query" \in Faults /\ UNCHANGED name
  /\ Answer(p, acct[p])
  /\ UNCHANGED <<hash, born, tokens, telegram, known>>

CreateAccount(p) ==
  /\ pc[p] = "ens_create"
  /\ \/ \E a \in Account :
          /\ Insert(a, want[p], NoSecret)
          /\ known' = known \cup {<<a, want[p], NoSecret>>}
          /\ Answer(p, a)
     \/ /\ InsertRefused(want[p])
        /\ Step(p, "err")
        /\ UNCHANGED <<table, seen>>
  /\ UNCHANGED <<tokens, telegram>>

CreateAccountUnacked(p) ==
  /\ pc[p] = "ens_create" /\ "ack" \in Faults
  /\ \E a \in Account : Insert(a, want[p], NoSecret)
  /\ Step(p, "err")
  /\ UNCHANGED <<tokens, telegram, seen>>

-------------------------------------------------------------------------------
Return(p) ==
  /\ pc[p] \in Outcomes
  /\ Goto(p, "idle")
  /\ who' = [who EXCEPT ![p] = NoPerson]
  /\ want' = [want EXCEPT ![p] = NoName]
  /\ secret' = [secret EXCEPT ![p] = NoSecret]
  /\ acct' = [acct EXCEPT ![p] = NoAccount]
  /\ UNCHANGED <<table, tokens, telegram, seen>>

Crash ==
  /\ "crash" \in Faults
  /\ pc' = [p \in Proc |-> "idle"]
  /\ who' = [p \in Proc |-> NoPerson]
  /\ want' = [p \in Proc |-> NoName]
  /\ secret' = [p \in Proc |-> NoSecret]
  /\ acct' = [p \in Proc |-> NoAccount]
  /\ UNCHANGED <<table, tokens, telegram, seen>>

(* Telegram lets a person take a free username, or go without one. *)
ChangeHandle(t, h) ==
  /\ h = NoHandle \/ \A u \in Person : handle[u] # h
  /\ Reassign \/ h = NoHandle \/ \A u \in Person \ {t} : h \notin past[u]
  /\ handle' = [handle EXCEPT ![t] = h]
  /\ past' = [past EXCEPT ![t] = @ \cup {h}]
  /\ UNCHANGED <<table, tokens, call, seen>>

Request(p) ==
  \/ \E n \in Name, s \in Secret :
       \/ "register" \in Ops /\ BeginRegister(p, n, s)
       \/ "login" \in Ops /\ BeginLogin(p, n, s)
  \/ \E a \in Account : "request" \in Ops /\ BeginRequest(p, a)
  \/ \E t \in Person : "update" \in Ops /\ BeginUpdate(p, t)

Advance(p) ==
  \/ Register(p) \/ RegisterUnacked(p)
  \/ Login(p) \/ Authenticate(p)
  \/ LookUpAt(p) \/ LookUpFallback(p) \/ RenameAccount(p)
  \/ CreateAccount(p) \/ CreateAccountUnacked(p)
  \/ QueryFails(p) \/ Return(p)

Next ==
  \/ \E p \in Proc : Request(p) \/ Advance(p)
  \/ \E t \in Person, h \in Handle \cup {NoHandle} : ChangeHandle(t, h)
  \/ Expire
  \/ Crash

Spec == Init /\ [][Next]_vars

-------------------------------------------------------------------------------
(* An account keeps the password that it was opened with, none if the bot  *)
(* opened it, and its name unless that is a fallback of the bot: no later  *)
(* registration of the name and no update, wherever it stands, makes its   *)
(* owner's next login fail, or lets anybody log in to a bot's account.     *)
AccountsAsOpened ==
  \A a \in Account, n \in Name, s \in Secret \cup {NoSecret} :
    <<a, n, s>> \in known =>
      /\ hash[a] = s
      /\ n \notin Fallbacks => name[a] = n

(* A token is for an account whose password was given for it.  The ones    *)
(* that the bot opened have none, so nobody acts for them over HTTP.       *)
TokensAreEarned ==
  \A a \in Account, s \in Secret :
    <<a, s>> \in tokens => name[a] # NoName /\ hash[a] = s

(* The accounts that the updates of t have run for. *)
AccountsOf(t) == {a \in Account : <<t, a>> \in met}

(* People share an account only if a Telegram username passed from one to  *)
(* another: two goroutines that look up, open and rename never make the    *)
(* updates of one person run for the account of another.                   *)
NothingReassigned ==
  \A t, u \in Person : past[t] \cap past[u] \subseteq {NoHandle} \/ t = u

PeopleKeptApart ==
  NothingReassigned =>
    \A t, u \in Person : AccountsOf(t) \cap AccountsOf(u) = {} \/ t = u

(* A person whose Telegram username has not changed has one account, also  *)
(* if the first updates overlap and find nothing; unless the fallback name *)
(* was registered over HTTP, which makes a third party to the race.        *)
OneAccountPerName ==
  \A t \in Person : past[t] = {handle[t]} =>
    \/ \A a, b \in AccountsOf(t) : a = b
    \/ \E a \in Account : born[a] = Tg(t) /\ hash[a] # NoSecret

(* The column username is what the file use cases take it for, whichever   *)
(* statements of registrations and updates overlap: also if an update has  *)
(* found a row by a name that another one has meanwhile changed.           *)
UsernamesOf == INSTANCE Usernames WITH
  User <- Account, Marked <- {"@"} \X Handle, names <- name

ImplementsUsernames == UsernamesOf!Spec

-------------------------------------------------------------------------------
(* The inductive invariant behind these properties, in parts.               *)

UniqueNames ==
  \A a, b \in Account : name[a] = name[b] => a = b \/ name[a] = NoName

(* A row keeps the name it was inserted with, but for one change from the  *)
(* fallback of a person to Telegram usernames of that person.              *)
LifeOfARow ==
  \A a \in Account :
    /\ name[a] = NoName <=> born[a] = NoName
    /\ name[a] = NoName => hash[a] = NoSecret
    /\ born[a] \notin Fallbacks => name[a] = born[a]
    /\ \A t \in Person : born[a] = Tg(t) =>
         /\ name[a] = Tg(t) \/ \E h \in past[t] \ {NoHandle} : name[a] = At(h)
         /\ hash[a] = NoSecret => NoHandle \in past[t]

(* A username that somebody has always had was never anybody else's. *)
HandlesHeld ==
  \A t \in Person :
    /\ handle[t] \in past[t]
    /\ past[t] = {handle[t]} /\ handle[t] # NoHandle =>
         \A u \in Person \ {t} : handle[t] \notin past[u]

(* What a goroutine knows at its statements. *)
CallsInOrder ==
  \A p \in Proc :
    /\ pc[p] \in {"reg_create", "log_get"} =>
         want[p] \in Name /\ secret[p] \in Secret
    /\ pc[p] = "mw_exists" => acct[p] \in Account
    /\ pc[p] \in {"ens_at", "ens_tg", "ens_rename", "ens_create"} =>
         /\ who[p] \in Person
         /\ \/ want[p] = Tg(who[p]) /\ NoHandle \in past[who[p]]
               /\ pc[p] \in {"ens_tg", "ens_create"}
            \/ \E h \in past[who[p]] \ {NoHandle} : want[p] = At(h)
    /\ pc[p] = "ens_rename" => acct[p] \in Account /\ born[acct[p]] = Tg(who[p])

(* The account of an update goes back to its sender, or to somebody who    *)
(* has had the same Telegram username.                                     *)
MetByName ==
  \A t \in Person : \A a \in AccountsOf(t) :
    \/ born[a] = Tg(t)
    \/ \E h \in past[t] \ {NoHandle} :
         \/ born[a] = At(h)
         \/ \E u \in Person \ {t} : born[a] = Tg(u) /\ h \in past[u]

KnownAsOpened ==
  \A a \in Account, n \in Name, s \in Secret \cup {NoSecret} :
    <<a, n, s>> \in known => born[a] = n /\ hash[a] = s

Inv ==
  /\ TypeOK
  /\ UniqueNames
  /\ LifeOfARow
  /\ HandlesHeld
  /\ CallsInOrder
  /\ MetByName
  /\ KnownAsOpened
  /\ TokensAreEarned

-------------------------------------------------------------------------------
(* What the comment on EnsureTelegramUser says, "creates a user for a      *)
(* telegram id if missing": an id that has a user gets no other.           *)
OneAccountPerTelegramId ==
  \A t \in Person : \A a, b \in AccountsOf(t) : a = b
===============================================================================
