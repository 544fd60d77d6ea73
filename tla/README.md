# corpstore in TLA+

corpstore is a small file store written in Go: accounts upload files, download
them, share them with other accounts and delete them, over HTTP and through a
Telegram bot. File contents live in a directory, everything else in Postgres.
This directory holds a specification of that program, the configurations that
model-check it, and machine-checked proofs about it.

## 1. The system

| Component | Source | State it keeps | Operations |
|---|---|---|---|
| Local byte store | `internal/filestore/local` | one file per id in a directory | Save (create, write), Get, Delete |
| File service | `internal/files` | table `files` (id, owner) | Save, Get, GetMeta, GetForOwner, ListByOwner, DeleteForOwner |
| Permissions | `internal/fileaccess` | table `files_permissions` (file, account), duplicates allowed | Grant, HasAccess, Revoke, RevokeAllByFile, two lists |
| Users | `internal/users` | table `users` (id, unique username, password hash) | Create, GetByUsername, Exists, UpdateUsername |
| File use cases | `internal/usecase/files.go` | none | UploadMultipart, SaveRaw, GetForOwner, GetForUser, DeleteForOwner, ShareByUsername, RevokeShare, RevokeShareByUsername, lists |
| Accounts | `internal/usecase/auth.go`, `internal/auth` | none (tokens are stateless) | Register, Login, ParseToken, EnsureTelegramUser, JWT middleware |
| HTTP handlers | `internal/handlers` | none | one per route; map results to statuses |
| Telegram bot | `internal/telegram/bot.go` | none | one goroutine per update: uploads, buttons, the share dialogue |
| Session store | `internal/telegram/session.go` | in-memory map chat -> session | Get, Set, Clear under a mutex |
| Health, wiring, deployment | `internal/handlers/health.go`, `cmd/main.go`, `k8s/` | none | constant answers, start-up |

**How they interact.** Every HTTP request and every Telegram update runs in a
goroutine of its own and calls a use case. A use case issues statements on the
tables and calls the file service, which issues a statement on `files` and a
system call on the directory. No transaction spans two statements and there is
no lock anywhere above the session store, so any other goroutine may run
between two statements of a request.

**What is hard.** Two stores that are written one after the other, with a
compensation that can fail; a check on a row and an action on it several
statements later; a foreign key and a cascade that decide the outcome of races;
a session that a handler copies, works on and writes back whole while other
handlers of the chat do the same; buttons that stay on the screen;
statements that take effect although the caller sees an error (cancelled
contexts, dropped connections); a process that stops anywhere and never looks
at unfinished work when it starts again; a username that is resolved each time
it is used. `PROJECT.json` lists each of these as a hazard at its line.

**What makes each component correct.**

- *Byte store and file service*: a file that was reported as stored has all of
  its bytes while it has a row; bytes without a row only after a failure; a
  confirmed removal is final and is confirmed once; a read is never of half a
  file; only the owner removes.
- *Permissions and file use cases*: a read is served or refused rightly for
  some moment of the request; who may read changes only at the owner's
  command; a revocation takes every duplicate; nothing of a share outlives its
  file; a removal is not blocked by a share; an upload that answers with ids
  has stored every file, and one that fails nothing after the part that failed.
- *Accounts*: an account keeps the password that it was opened with, none if
  the bot opened it; a token needs the password; a Telegram user whose username
  does not change has one account, which no other Telegram user gets while no
  username passes from one to the other. An account that was registered over
  HTTP as `@h` is reached by its password and by the Telegram user `h`, by
  design of the lookup.
- *Lists*: the readers of a file are shown to its owner and to nobody else.
- *Telegram bot and sessions*: a button and the username dialogue act on the
  file they were shown for, for an account of the person who used them; a prompt
  for a username is not undone by a failed call, a change of account or another
  button, and is void after a restart; a dialogue ends; no copy of a session
  reaches another chat.

## 2. The modules

| Module | What it is |
|---|---|
| `FileRegistry` | abstract: a catalog of files with owners; published once, retired once by the owner, told to callers truthfully |
| `FileService` | the byte store, the table `files` and `files.Service`, one action per statement; its invariants, its refinement of `FileRegistry` |
| `FileServiceProofs` | the proofs about `FileService` |
| `AccessPolicy` | abstract: owners and readers of files, changed by the owner's commands |
| `Usernames` | abstract: the column `users.username`; a row stays, a username is one account's, and only a name with `@` replaces another |
| `FilesUseCase` | the use cases over the service, `files_permissions` and `Usernames`, with the answers of the handlers; its refinements of `FileService` and `AccessPolicy` |
| `FilesUseCaseProofs` | the proofs about `FilesUseCase` |
| `ShareNames` | `FilesUseCase` with a memory of the names that shares were made by |
| `ShareNamesProofs` | when a revocation by name undoes a share |
| `FileLists` | `FilesUseCase` with the three lists |
| `FileListsProofs` | the safety proofs about `FileLists` |
| `FileListsLiveness` | the proofs that removals complete and that requests are answered |
| `TelegramBot` | the bot's handlers over the session store, with what a chat shows; its refinement of `AccessPolicy` |
| `TelegramBotProofs` | the safety proofs about `TelegramBot` |
| `TelegramBotLiveness` | the proofs that handlers and dialogues end |
| `Identity` | registration, login, tokens and the bot's accounts over the table `users`, while Telegram usernames change; its refinement of `Usernames` |
| `IdentityProofs` | the proofs about `Identity` |
| `MCFileService`, `MCFilesUseCase`, `MCIdentity`, `MCTelegramBot` | symmetry sets for TLC |

### FileService

State: `blobs` is the directory, where a file is `"absent"`, `"partial"` (from
`os.Create` to the end of `Write`) or `"full"`; `rows` is the owner column of
`files`, `NoUser` where there is no row; `used` are the ids that `uuid` has
drawn. A goroutine `p` has a label `pc[p]`, the statement it is about to
execute or the outcome it returns, and the arguments `user[p]` and `file[p]`.
`acked`, `torn`, `gone` and `leaked` are history: ids whose `Save` succeeded,
whose INSERT was committed but reported as failed, whose removal succeeded,
and whose bytes a failing step or a crash gave up on. No guard reads them, but
for `CallGet`, whose callers have seen the row.

`Save` is `CallSave`, `SaveCreate`, `SaveWrite`, `SaveInsert` and, when the
INSERT fails, `SaveUndo`; `GetForOwner` is `GetMeta` and `GetBlob`;
`DeleteForOwner` is `DeleteMeta`, `DeleteRow` and `DeleteBlob`. Each statement
has a twin for each way it can fail. The constant `Faults` says which failures
occur: `"query"` (an error without an effect), `"ack"` (an error after the
effect), `"disk"` (a system call fails), `"crash"` (the process stops and
starts again; the directory and the database stay).

### FilesUseCase

It shares the variables of `FileService` and uses its actions as they are
(`Svc!...`), so that a goroutine is at a statement of the use case, at one of the
service, or holds the status of its answer. It adds `names` (the column
`users.username`), `perms` (how many rows of `files_permissions` there are for
a file and an account), the request that a goroutine serves (`op`, `typed`,
`target`, `batch`) and two history variables, `held` and `lost`, that record for a
read under way whether its account was entitled at some moment, and whether it
was not.

A row of `files` that goes away takes its permissions along (`Cascade`), a
permission for a file that is gone cannot be inserted (`ShareGrantOrphan`), and
a username can be registered once (`Register`): what the schema enforces.
`Register` and `Rename` are those of `Usernames`, the environment of the use
cases here: accounts are opened, and usernames change, between any two
statements of a request, so that lookups by name and checks of the caller's
account race them. `Usernames` lets any account take a free name with `@`, where
the bot renames those of Telegram users only; that `Identity` implements it
makes the properties of the use cases, which hold in this larger environment,
hold in the program's. `Status` maps results to statuses as the handlers do. The
bot reaches the same use cases; `BeginRevokeUser`, revocation by account id, is
the one it alone offers.

### Identity

State: `name` and `hash` are the table `users` (`NoName` where there is no row;
a password stands for its hash, `NoSecret` for the empty one that the bot
writes); `tokens` are the tokens in circulation, each with the password that was
given for it. `handle` is Telegram's: the current username of each Telegram
user, or none. A username of the table is a pair, `At(h)` for `"@"` and a
Telegram username, `Tg(t)` for `"tg:"` and a Telegram id, and the realm `""` for
all others, so that names of different forms are never equal and registration
over HTTP can take a name of any form (`Realms`). A goroutine has its statement
`pc[p]`, the sender `who[p]`, the name `want[p]`, the password `secret[p]` and
the account `acct[p]`. History: `born` (the name that a row was inserted with),
`past` (the usernames a Telegram user has had), `met` (the accounts that updates
of a Telegram user ran for) and `known` (accounts whose INSERT was told, over
HTTP or by the bot, with their name and password).

`EnsureTelegramUser` is `BeginUpdate`, `LookUpAt`, `LookUpFallback` and then
`RenameAccount` or `CreateAccount`; an update carries the username its sender
had when it began, and `ChangeHandle` may strike at any moment after. The
UPDATE is by id, as in the code, so two updates can rename one row in turn.
`Register` and `CreateAccount` fail on a name that is taken (`Insert`,
`InsertRefused`), which is the UNIQUE constraint of the schema. `BeginRequest` and
`Authenticate` are a request with a valid token, `Expire` its end.

`ImplementsUsernames` says that `Insert` and `RenameAccount`, the two
statements that write usernames, are `Register` and `Rename` of `Usernames`
whichever registrations and updates overlap: what `FilesUseCase` assumes about
accounts is what this module shows of them, where passwords and Telegram ids
are seen to play no part for files.

### FileLists

`GET /files`, `GET /files/shared` and `GET /files/:id/shared-users` change
nothing, so they extend `FilesUseCase` instead of being part of it: a lister has
a statement (`step`), the account that asks (`asker`), the file it asks about
(`about`) and the answer (`shown`), and takes its steps between those of all
other requests. The two lists of files are one query each (`ListByOwner`,
`ListSharedFiles`, with its JOIN on `files`); the list of readers is
`GrantedCheck` and then `ListGrantedUsers`, whose query does not look at `files`
again. The order of a list, and the rows that a repeated share lists twice, are
left out.

### TelegramBot

State: `sess` is the map of the session store, with the account, the mode and
the selected file of a session; a chat without an entry has `NoSession`, and a
private chat has the id of its person, as in Telegram. A goroutine has its step
`pc[p]`, the update `upd[p]`, the account `acct[p]` that `EnsureTelegramUser`
gave it and `snap[p]`, its copy of the session. `prompt` and `lists` are what
the chat shows: the file whose "Share: enter username" is open, and the
"Revoke" buttons with the file they were listed for, which the program does
not know. An update carries the same: the `file` of a text is that of the
prompt it was typed at, the `file` of a "Revoke" button the one it was listed
for. No handler reads them; the properties compare them with what is done.
`picked` (the files selected in a chat) and `asked` (the chats that were asked
for a username) are history since the start of the bot.

A step is one `Get` or `Set` of the store or one call of a use case. An update
goes through `ensureTelegramSession` (`Ensure`, `SessionGet`, and `SessionSet`
if the account is new or another), a text then through `handleAuthFlow`
(`FlowNone`, `FlowCancel`, `FlowShare`, `ShareByUsername` or `ShareRefused`,
`DialogueEnd`), everything else to its handler (`HandlerGet`, then
`SelectToShare`, `SelectGrants`, `ShowFiles`, `Fetch`, `Upload`, `Delete` or
`RevokeShare`; `GrantsGet` and `GrantsShow` are `sendGrantedUsers`). Which of
the accounts of a person `EnsureTelegramUser` finds is open at each update
(`Alias`): `Identity` shows that it may change. What a call of a use case does
to `owner` and `readers` is what `AccessPolicy` promises of it, in one step,
which is what the refinement of `FilesUseCase` is for; with `"call"` in `Faults`
it may also fail, before or after its effect or in the middle of a removal.
`Crash` empties the store and ends the goroutines, and leaves prompts and
buttons on the screens: people type and press them afterwards as before.

Merged into one step are a `Set` and the answer sent right after it, and
`isLoggedIn` with the `Get` that follows it. The answer that a failed share
gets *before* its `Set` is a step of its own (`ShareRefused`).

Three constants say how people use the bot. With `Waits = "end"` a person sends
the next update to a chat when the handler of the last has ended, with
`"answer"` when it has answered, with `"no"` at any time. With `Focused` a
person answers or cancels a prompt for a username before asking for the
readers of another file, and uses the "Revoke" buttons of the last list only.
`Group` are group chats.

Operators called a *broken variant* in the modules are not part of the
specification. Each is a plausible mistake in one action; putting it in the
place of that action makes a property fail, which shows that the property can.

## 3. What is checked

| Run | Configuration | Properties | Bounds |
|---|---|---|---|
| `service` | `MCFileService.cfg` | `TypeOK`, `Inv`, `AckedRowHasBytes`, `DanglingOnlyIfTorn`, `NoSilentLeak`, `RemovalIsFinal`, `NoTornRead`, `OneRemovalConfirmed`, `ImplementsRegistry` | 2 goroutines, 2 accounts, 2 files, all failures |
| `reading` | `Reading.cfg` | `TypeOK`, `Inv`, `ServedOnlyEntitled`, `RefusedOnlyLapsed`, `ImplementsAccessPolicy` | 2 goroutines, 2 accounts, 2 names (one with `@`), 1 file, 2 equal permissions, all failures |
| `uploading` | `Uploading.cfg` | `UploadReported`, `ImplementsFileService` | 2 goroutines, 1 account, 2 files in up to 2 uploads, all failures |
| `removal` | `Removal.cfg` | `DeleteCompletes`, `RequestsEnd` (liveness), `NeverBlocked`, `ListsInv`, `ReadersShownToOwner` | 2 goroutines, 1 lister, 2 accounts, 1 file, no failures but those of lists |
| `people` | `People.cfg` | `TypeOK`, `PeopleKeptApart`, `OneAccountPerName` | 2 goroutines, 2 Telegram users, 2 Telegram usernames that may change hands, 3 accounts, failing queries |
| `names` | `Names.cfg` | `Inv`, `AccountsAsOpened`, `TokensAreEarned`, `ImplementsUsernames` | 2 goroutines, 1 Telegram user, 3 names, one of each form, 2 passwords, 2 accounts, all failures |
| `bot_focused` | `BotFocused.cfg` | `TypeOK`, `FocusInv`, `PromptIsKept`, `ImplementsAccessPolicy` | 2 goroutines, 1 person with 2 accounts, 2 files, failing calls, restarts; waits and is focused |
| `bot_chats` | `BotChats.cfg` | `ActsForSender`, `SelectedFirst`, `OwnersDecide` | 2 goroutines, 2 people with a private chat each, 1 file; usernames, uploads, shares, revocations, removals; they wait for an answer only |
| `bot_overlap` | `BotOverlap.cfg` | `Inv`, `NeverBlocked`, `HandlersEnd`, `DialogueEnds` (liveness) | 2 goroutines, 1 person, 1 file, failing calls, restarts; does not wait |
| `bot_retarget` | `BotRetarget.cfg` | `SharesPrompted`, violated | 2 goroutines, 1 person, 2 files; waits, is not focused |
| `telegram_ids` | `TelegramIds.cfg` | `OneAccountPerTelegramId`, violated | 1 goroutine, 1 Telegram user, 2 Telegram usernames |
| `share_names` | `ShareNames.cfg` | `RevokeUndoesShare`, violated | 1 goroutine, 3 accounts, 4 names |

The bounds. Every hazard here is a race of two requests or a failure within one,
so two goroutines show them; a second file matters where one upload has several
parts, or where two files could be mixed up (`service`, `uploading`). Two equal
permissions (`MaxRows`) tell a revocation that takes all from one that takes
one. Each file id is uploaded once, so `File` bounds the uploads; all other
requests repeat without bound, and the state spaces are finite without a
constraint. In `bot_focused` a second file is what a session can be wrong about,
and a second account what `EnsureTelegramUser` can change to; `bot_chats` needs
a second chat, whose person can be an owner, a reader or a stranger to the file;
where one chat is enough there is one person. `Ops` names the requests a run
makes: a run leaves out those that its properties do not meet. `Account` bounds
the rows of `users`: when they are used up an INSERT fails, which is one of the
failures of a statement anyway. Three rows (`people`) are the two that a race
can open for one Telegram user and one of somebody else; two (`names`) are a row
of the bot and one that was registered, or two registered ones, and with a third
name there is one to move to. Of two passwords one is wrong for an account, and
one could overwrite the other. For all of the safety properties the proofs of
section 4 remove the bounds altogether.

Goroutines, accounts, people, ids and plain names are interchangeable in the
runs with symmetry; the two runs with liveness properties (`removal`,
`bot_overlap`) use none.

Fairness (`FairSpec`, used by `bot_overlap`, and `ListsFairSpec`, used by
`removal`): each goroutine that can take a step
eventually does. The Go scheduler is preemptive and each step is a call that
returns; nothing obliges a caller to send requests or a person to send
updates, and `Request` and `Send` are not fair. Weak fairness is enough because
no step of one goroutine can take away the step of another for good:
`NeverBlocked` says that whoever serves a request, or handles an update, has a
step to take at every moment.
`removal` excludes failures, since a statement that fails ends the removal by
design; `RequestsEnd` does not depend on that, and section 4 proves it for any
failures.

Deadlock is checked everywhere: a goroutine that is idle can start a request,
and any other can finish its own.

### The findings

In the run `telegram_ids` a Telegram user with the username `h1` sends an
update, which opens the account `@h1`; the user gives the username up; the
next update finds no `tg:` row, since an account that is opened under an
`@` name never had one, and opens a second account. The files of the first
can no longer be reached through the bot. The comment on the function promises
that it "creates a user for a telegram id if missing"
(`src/internal/usecase/auth.go:46`). `OneAccountPerName` says when it does
hold.

`ShareByUsername` and `RevokeShareByUsername` resolve the name they get when
they run, first as given and then with `@` in front; the permission keeps the
account only. In the run `share_names`, a file is shared by `bob` when only
`@bob` exists, somebody then registers as `bob`, and revoking `bob` answers 204
after deleting the (absent) permissions of the new account. The README of the
repository says of that route: "Revokes access for a username"
(`src/README.md:271`). `RevocationsUndoShares` says when it does hold: no name
belongs to one account as it is and to another with `@` in front
(`Unambiguous`), and no account is renamed (`NamesKept`). Neither is enough
alone: with a rename, the name of a share can pass to a third account.

In the run `bot_retarget` a person presses "Share" on one file, which prompts
for a username, looks at "Shared with" of another file, and then types the
username: the other file is shared. `filegrants:` overwrites the file of the
session and leaves its mode (`bot.go:257`). The README of the repository says:
"From file details, press `Share` and enter target username."
(`src/README.md:452`). For people who use the bot as described next it is
true (`SharesArePrompted`).

### What the bot needs of its users

`bot_focused` passes under three conditions, and each of them can be seen to be
needed by changing it in `BotFocused.cfg` and leaving out `FocusInv`, which
states them:

- `Focused = FALSE`: TLC refutes `ImplementsAccessPolicy` as in `bot_retarget`.
  For the same reason a "Revoke" button, which carries the account only
  (`bot.go:596`), revokes access to the file that was selected last
  (`bot.go:408`), although it stands under the list of another.
- `Waits = "answer"` or `"no"`: a failed share is answered (`bot.go:467`) before
  its session is written back (`bot.go:482`). What the person starts on that
  answer works on the old session or is overwritten: TLC refutes
  `ImplementsAccessPolicy`, and `PromptIsKept`: a username can be taken for a
  command.
- a group in `Group`, with two people: the session is the chat's, and
  `ensureTelegramSession` (`bot.go:641`) and the handler read it separately. TLC
  refutes `PromptIsKept`; an update of another member in between makes a handler
  act for that member's account. For this reason TLC refutes `OwnersDecide` in
  `BotChats.cfg` as well, once it has a group: it is stated for private chats.

Without any condition, `ActsForSender` (in private chats), `SelectedFirst` and
`DialogueEnds` hold, and so do `NeverBlocked` and `HandlersEnd`. So does
`OwnersDecide` where there are private chats only: if `ImplementsAccessPolicy`
fails there, the command was not meant for this file, but it was one of the
file's owner, and it changes the access of nobody but the account that it named,
or removes the file.

A restart voids the prompts on the screens. `PromptIsKept` says that what is
typed at one is taken for a command, and `ImplementsAccessPolicy` that it
shares nothing, unless the person has been asked anew and so has a prompt for
the file that is then shared.

### What the checks say about the code

The rest holds. Among accounts the UNIQUE username does the work: of two first
updates one opens the account and the other is answered with an error, and
neither a registration nor an update takes over the name or the password of an
account that is there. That two Telegram users never meet in one account needs
the assumption that a Telegram username has not passed from one to the other;
the property states it. Nor is the account of a Telegram user the user's alone
if somebody has registered its name over HTTP before. For files, the order of
the statements does the work: bytes before the row in `Save`, the row before the
bytes in `DeleteForOwner`, an early return where a statement failed; the foreign
key and its cascade settle the race of a share with a removal. What the design
accepts is stated by the properties, not hidden: bytes can be stranded by a
failure (`leaked`), and a row can lose its bytes when its INSERT is committed
but reported as failed (`torn`).

## 4. What is proved

`FileServiceProofs` proves, with TLAPS, for any sets `Proc`, `User` and `File`
and any `Faults`, under `FileServiceAssumption` (`NoUser` is not an account,
`NoFile` not an id, the faults are of the four kinds):

- `Invariance`: `Spec => []Inv`, with `Inv` inductive;
- `TypeCorrect`, `AckedRowsKeepTheirBytes`, `DanglingRowsAreTorn`,
  `RemovalsAreFinal`: consequences of `Inv`;
- `NoLeakWithoutFailure`: `NoSilentLeak`, inductive relative to `Inv`;
- `ReadsAreWhole`, `RemovalsConfirmedOnce`: the two action properties, by
  `StepsToOk`, which names the only steps that lead to an `"ok"`;
- `RegistryImplemented`: `Spec => RegistryOf!Spec`, step by step.

None of the wanted invariants is inductive alone. That acknowledged rows have
bytes needs to know that a goroutine about to remove bytes has seen the row go
(`PastTheRow`), that a row cannot come back, because the one INSERT of an id
happens before it is published (`SavesApart`, `LifeOfAnId`), and that a
goroutine which undoes a `Save` has an id that was not acknowledged. `Inv`
is the conjunction of these parts. For the refinement, `PastTheRow` supplies
that a removal deletes the row of its own account although it looked at the
owner an arbitrary number of steps earlier.

`FilesUseCaseProofs` proves about `FilesUseCase`, for any sets of goroutines,
accounts, names and ids, any `Faults`, `Ops`, `MaxRows` and `MaxBatch`, under
`UseCaseAssumption`:

- `Invariance`: `Spec => []Inv`, with `Inv` inductive; `TypeCorrect`;
- `ServedAreEntitled`, `RefusedAreLapsed`, `UploadsAreReported`: consequences
  of `Inv`;
- `FileServiceImplemented`: `Spec => ServiceOf!Spec`;
- `AccessPolicyImplemented`: `Spec => PolicyOf!Spec`.

The argument goes through the refinement. Each step of a request is a step of
`FileService`, as that module sees it, or leaves it alone (`StepRefines`). So
the theorems about `FileService` apply to the stores below the use cases
(`Below` instantiates them, `StoresNext` cites them), and its invariant is one
conjunct of `Inv`; nothing about saves and removals is proved twice. The other
conjuncts are about the requests: `RequestsInOrder` (which statements an
operation comes through, with which arguments), `PastTheCheck` (what a request
has read from a row holds until the row goes), `GrantsNeedRows` (no permission
without a file), `UploadsApart` (no two uploads draw the same id, and one
accounts for those it has drawn: they are published, but for the one in hand or
the one that failed) and `ReadsWatched` (what a read has noted about its
entitlement at each statement). There is a lemma for each, with one case per
action. `ServiceMoves` says once what a step of the service can do, and `Others`
that a goroutine does not touch the request of another.

What `FileService` promises is then true of the program above it:
`StoresKept`, `CallsKept` and `RegistryKept` carry the invariants, the action
properties and the refinement of `FileRegistry` over to `FilesUseCase`, where
requests of several statements, registrations and renames run in between.

The two refinements need the invariant where a check and its use are apart:
`GetForUser` reads the bytes of a file that was published, although its row may
have gone in between; `Grant`, `Revoke` and the removal act for the account
that was the owner statements ago, and is still, or the row is gone. The
bounds `MaxRows` and `MaxBatch` are arbitrary positive numbers in the proofs.

`IdentityProofs` proves about `Identity`, for any sets of goroutines, accounts,
Telegram users, names and passwords, any `Realms`, `Ops`, `Reassign` and
`Faults`, under `IdentityAssumption`: `Invariance`, `TypeCorrect`,
`PeopleApart`, `OneAccountEach`, `AccountsStayAsOpened` and `TokensEarned`, and
`UsernamesImplemented`, the refinement `Spec => UsernamesOf!Spec`. The inductive
invariant relates a row to the name it was inserted with (`LifeOfARow`: only a
fallback name is ever changed, to a username that its person has had), a
goroutine to the person whose update it handles (`CallsInOrder`), and an account
that an update ran for to the person, by its name at birth (`MetByName`) and not
by its current one, which a slow goroutine may still change. `HandlesHeld`
supplies that a Telegram username which somebody has always had was nobody
else's. The proofs look at three kinds of steps on the table (`TableMoves`)
rather than at all actions. For the refinement the invariant supplies that the
account an update found under a fallback name is still a row when it is renamed,
and that the name it gets is one with `@` (`CallsInOrder`).

`FileListsProofs` proves about `FileLists`, for any listers and everything that
`FilesUseCaseProofs` leaves open: `ListsChangeNothing` (`ListsSpec => Spec`, so
that all theorems about `FilesUseCase` hold with listers as well),
`ListsInvariance` and `ReadersToldToOwner`. Between the check and the query the
row can only go away (`RowsNext`), and then no permission is left
(`GrantsNeedRows`).

`FileListsLiveness` proves `RemovalsComplete`: if `Faults` is empty,
`ListsFairSpec /\ []NeverBlocked => DeleteCompletes`, for any number of requests
and listers. A removal that has passed its check is at one of three statements.
Weak fairness takes it from each to the next, because no other request can move
it and the row it is about can only go (`RemovalNext`, `StatementPasses`,
`RowGoes`). Two removals of one file can both get there; the row then goes with
the first, and the bytes of a file without a row are in the hands of some
goroutine that takes them away (`BytesInHand`, from `NoSilentLeak`, and
`BytesTaken`), whichever it is.

The module also proves that requests are answered, if `ListsFairSpec /\
[]NeverBlocked`, whatever fails and wherever the process is killed. Every
statement has a `Stage`, and each step of a request leads to a lower one until
the request is answered or an upload takes up its next part (`Onwards`,
`ServeDescends`, `ComesToRest`): `RequestsProceed`. In particular a name that is
looked up a second time, with `@` in front, is not looked up a third time. An
upload takes a part of its body up once, so one less is left each time it comes
around (`OneLessLeft`, `PartEnds`). `RequestsAnswered` is the result for
requests with no part left, and so for all but uploads; `RequestsAreAnswered` is
`ListsFairSpec /\ []NeverBlocked => RequestsEnd`, for a finite set `File` and
bodies of at most eight parts (`MaxBatch`). The step from `k` parts to `k + 1`
is proved for every `k` (`OnePartMore`); an induction over a formula with
temporal operators is what the provers cannot do, so it is taken as many times
as the bound says. No other theorem bounds a number.

`ShareNamesProofs` proves `RevocationsUndoShares`, that is
`NamesSpec /\ []Unambiguous /\ NamesKept => RevokeUndoesShare`. A share that is
still in the table was made to the account that its name leads to now, and a
revocation under way has resolved the same name to the same account.

`TelegramBotProofs` proves about `TelegramBot`, for any sets of goroutines,
people, groups, aliases and files, any `Ops` and `Faults`, under
`BotAssumption`:

- for any `Waits`, `Focused` and `Group`: `Invariance`, `TypeCorrect`,
  `CallsForSender` and `NothingUnselected`. `Inv` says which updates come
  through a step and with what kind of copy (`HandlersInOrder`), and that each
  session, and each copy of one in the hands of a goroutine, has an account of
  its chat's person and a file that was selected in its chat
  (`SessionsOfChats`): copies may be stale, but they never leave their chat.
- under `Disciplined` (`Waits = "end"`, `Focused`, no groups), assumed by name
  in each theorem: `FocusedInvariance`, `PromptsKept`, `SharesArePrompted` and
  `AccessPolicyImplemented`. `FocusInv` adds that one handler at a time is busy
  in a chat (`OneAtATime`), so that its copy is the session (`CopiesFresh`);
  that a prompt given since the start is the dialogue of the session, and one
  from before is no dialogue's (`PromptsTrue`); and that the buttons in use are
  for the selected file (`ListsTrue`). With these a share, a revocation or a
  removal is a step of `AccessPolicy`: the command that the person asked for.

The proofs have one case per action; those about `FocusInv` look at a chat or
a goroutine at a time (`Prompts(c)`, `Answers(p)`, ...), because an action
disturbs one of each.

`OwnersAlone` (`Spec => OwnersDecide`) assumes `Group = {}` and is for any
`Waits` and `Focused` again. It needs no more than `Inv`: the account of a call
is one of its sender (`CallOfSender`), the use case compares it with the owner
itself, and then changes what the call names (`OwnerDecides`), whatever the copy
of the session says.

`TelegramBotLiveness` proves, for any `Waits`, `Focused`, `Group`, `Ops` and
`Faults`, that `FairSpec /\ []NeverBlocked` implies `HandlersEnd`
(`UpdatesAreDone`) and `DialogueEnds` (`DialoguesEnd`). The steps of a handler
are numbered so that each leads to a later one or to the end, whatever copy of
the session it read; a goroutine is left alone by all others, or ended by a
restart. At the last stage of a text that was taken for a username the write of
the session closes the dialogue, also where another handler has written since.

Only model-checked: `NeverBlocked`. It says that a step is enabled, and the
prover has no rules to look into `ENABLED`; the liveness theorems have it as a
hypothesis, by name, and the runs `removal` and `bot_overlap` check it. TLC also
confirms it with every request, or every kind of update, in `Ops` (one file;
some minutes longer). That it is the right hypothesis can be seen from its
broken variants `SessionGetLocked` and `ServiceStepLocked`, where handlers and
requests wait for each other.

## 5. What is not modelled

- Filenames, the Telegram names kept with a permission, wording and
  formatting of answers; checks on empty parameters, which answer 400 or 401
  before any statement.
- A statement that takes effect only after its error was answered: one that
  fails takes effect before, or not at all.
- Durability below a returned write or COMMIT, and the loss of the directory (an
  `emptyDir` in `k8s/deployment.yaml`): it breaks every promise about bytes at
  once, and no code handles it.
- Health endpoints, which answer 200 without looking at anything, and start-up.
- How bcrypt and JWT work: a password is compared for equality, and requests
  without a valid token, which are answered with 401 before any statement, do
  not appear.
- In the bot: updates without a sender (channel posts), answers that Telegram
  does not deliver, the download of a document from Telegram, which fails like
  any call, and `setSessionMode`, `Clear` and the four modes of registration and
  login, which nothing uses. The order in which Telegram delivers the updates of
  a chat does not matter, since each is handled in a goroutine of its own.

## 6. Plan

Done: the modules of section 2, with every component but those of section 5.

Left:

1. Proofs: what `AccessPolicy` and `FileRegistry` promise by themselves, such as
   that a retired file has no readers for good; `RequestsEnd` for bodies of
   any number of parts, with a prover that has induction over temporal formulas.
2. Telegram's delivery of answers: a prompt that does not arrive although the
   session waits for a username.
