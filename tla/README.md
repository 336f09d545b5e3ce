# goingcrypt: TLA+ models, checks and proofs

goingcrypt shares short secrets through single-use links.  The browser encrypts
the text, the Go server stores the ciphertext with the SHA-256 of the key, hands
the ciphertext out once, and forgets it.  This directory holds TLA+ models of
the parts of that program whose correctness depends on order: what several
requests, workers and goroutines do to the same rows, what the tabs of a browser
do to one session, and what crashes, failed statements and lost answers leave
behind.

Paths below are relative to the repository root (`src/` in `PROJECT.json`).

## 1. Inventory

| Component | State | Operations | Who else touches it |
|---|---|---|---|
| Link entity, `internal/domain/link.go` | a copy of a row in a handler | CanAccess, Open, Invalidate | none: a copy is private, which is the hazard |
| Link repository, `adapters/postgres/link_repository.go`, migrations 3-4 | tables `links`, `link_access_logs` | Create, GetBySlug, Update, CreateAccessLog, InvalidateExpiredLinks, Delete, two lists | all handlers, the janitor, detached goroutines |
| Link service, `internal/core/link_service.go` | none of its own | AccessLink, CreateLink, DeleteLink, three lists | HTTP handlers call it concurrently |
| Refresh-token repository, migration 5 | table `refresh_tokens`, its row locks | Create, GetByHash, Update, DeleteExpiredAndRevoked, RevokeAllForUser (never called) | all handlers, the purge worker |
| Transactor, `adapters/postgres/transactor.go` | a transaction in a context | RunInTx | only RefreshTokens uses it |
| Auth service, `internal/core/auth_service.go` | none of its own | SignUp, Login, RefreshTokens, Logout | HTTP handlers call it concurrently |
| User repository, migrations 2 and 7 | table `users` | Create, GetByID, GetByUsername, Update, List | auth and admin services |
| Admin user service | none | GrantAdmin (read, then write the whole row), ListUsers | admin handlers |
| Access tokens, `adapters/token_manager.go`, `adapters/http/middleware.go` | a signed copy of id and role, good for 15 minutes | generate, validate, require | every request |
| Server, `cmd/api/main.go`, `adapters/postgres/db.go` | two tickers, three channels, the HTTP server, the connection pool | start, tick, serve, shut down | everything |
| Browser, `frontend/src/lib`, `App.tsx`, `screens/` | `localStorage` tokens shared by tabs; step of each screen | api with refresh on 401, login, logout, create, view | the server; other tabs |

What is hard here, and where (the full list, with lines, is `hazards` in
`PROJECT.json`):

* **Read, then write the whole copy.**  AccessLink, Logout, RefreshTokens and
  GrantAdmin read a row, decide on the copy, and write the copy back with an
  UPDATE that asks nothing of the row.  Nothing but RefreshTokens runs in a
  transaction, and even there the read comes before the transaction.
* **Several writers.**  An access, a lazy expiry, the janitor, a delete and the
  access-log goroutine meet on one link; a refresh, a logout and the purge on one
  token.
* **Partial failure.**  A statement may fail with or without effect; a response
  may find no client; the process may die between any two statements, and the
  log goroutine with it.
* **Time.**  Expiry is a strict comparison made several times per request.
* **Shared state in the browser.**  Tabs share one pair of tokens; a call spans
  up to three round trips, and its code between two awaits meets whatever the
  other tabs stored meanwhile.
* **Shutdown.**  Handlers, log goroutines, two workers and the main goroutine
  share a pool of connections that is closed at the end of `main`.

What makes each component correct:

* *Links*: a secret is only handed to requests that overlapped its first opening,
  never to a later one; a deleted link stays deleted, and only its owner deletes
  it; the text agrees with the status; the log names no link that was not opened
  or expired, and misses no delivered one unless its goroutine failed or died; an
  overdue link is marked; a request makes at most five calls.
* *Refresh tokens*: a rotated, logged-out or expired token is refused; a token and
  its replacement are never both good; the client never holds a token that was
  rolled back; a request only waits for the row lock of a transaction that is about
  to end; only the holder of a token ends its session.
* *Accounts*: there is one account per name; tokens of an account only go to the
  person whose password it stores; a role is only raised, and only by the operator
  or an administrator; a sign-in after an acknowledged promotion carries the role.
* *Lists*: a client that walks a list page by page while rows come and go misses no
  more rows than were removed, and its walk ends, whatever limit it asked for.
* *Browser session*: a signed-out browser stays signed out; calls made one at a
  time neither lose the session nor leave a good token behind; a call refreshes at
  most once.
* *Screens*: a link is only used up for the key that decrypts it; a revealed text and
  the server's 404 are true of the link; the create screen shows the key of the link
  it shows.
* *Server*: a clean shutdown cuts nothing off; a signal, or a dead listener, ends
  the process; requests do not starve for connections.

## 2. Modules

```
LinkDomain <- LinkRepository <- LinkService <- MCLinkService
                                  |  ^   ^---- LinkServiceProofs <- LinkRefinementProofs
             OneTimeSecret <------+  |                ^
           (abstract; INSTANCE)      |                |
                            SecretScreens <- MCSecretScreens
                                     ^---- SecretScreensProofs (EXTENDS SecretScreens and LinkRefinementProofs)

RefreshTokenRepository <- AuthService <- MCAuthService
                               |  ^---- AuthServiceProofs
            TokenLineage <-----+  (abstract; INSTANCE)
                 ^
                 +--- BrowserSession <- MCBrowserSession
                           ^---- BrowserSessionProofs

UserRepository <- Accounts <- MCAccounts
                     ^---- AccountsProofs

Listing <- MCListing
   ^---- ListingProofs

ServerLifecycle <- ServerLifecycleProofs
```

An arrow points to the module that is extended, or instantiated where it says
INSTANCE.  Two modules compose: SecretScreens puts the screens in front of
LinkService, step by step; BrowserSession stands on TokenLineage, which
AuthService implements.  AuthService and Accounts are two views of
`auth_service.go`: the first follows refresh tokens and takes the account as it
is, the second follows accounts and lets a refresh token be good or refused.

Definitions whose comment begins with "Faulty variant" are no part of a model:
each is a plausible bug in the definition after it, and `PROJECT.json` says under
`mutants` which property catches it.

### Links

**LinkDomain** is the entity: the fields of `domain.Link`, the predicates
IsExpired and CanAccess with the clock as parameter, and guard and result of
Open and Invalidate.  The text is `Secret` or `Erased`, the key is its own hash,
the slug is the id (the generator encodes the id injectively).

**LinkRepository** is the two tables and one operator per SQL statement.  Update
overwrites every column it sets with the caller's copy and leaves a missing row
missing; Delete cascades to the log; the UNIQUE columns and the foreign key of
the log are guards (CreateConflicts, LogAccepted).

**LinkService** is the service under concurrent requests.  `pc[h]` names the call
that handler `h` makes next, `req[h]` holds the request and the local variables
(the copy of the row, the text Open returned).  Each action is one repository
call or one reading of the clock:

| Code | Actions |
|---|---|
| `AccessLink` | BeginAccess, GetBySlug, CheckAccess (CanAccess, lazy expiry, key), UpdateExpired, OpenLink, UpdateOpened, Respond |
| its goroutine | WriteAccessLog, from the set `loggers`, independent of the handler |
| `CreateLink` | BeginCreate, InsertLink |
| `DeleteLink` | BeginDelete, GetForDelete, CheckOwner, DeleteLink |
| ticker of `main.go` | Janitor |
| time, restart | Tick, Crash (all locals and goroutines are lost, the tables stay) |

With `Failures` TRUE a read may fail, a write may fail with or without effect,
and the client may be gone at Respond.  `published`, `delivered`, `deleted` and
`lost` (links whose access log failed or died), and the field `late` of a
request, are history: no guard reads them.

**OneTimeSecret** is what the service promises, with no table and no clock: a
secret is unborn, open or closed; readers take it while it is open, and deliver
it at most once each, after it was closed to all others.  LinkService implements
it under the mapping at the end of `LinkService.tla`: a secret is open while its
row exists and waits, and its readers are the handlers that hold a copy read
while it waited.

### Refresh tokens

**RefreshTokenRepository** is `refresh_tokens` as committed, with row locks;
`replaced_by` is NULL or an id of no row, because RefreshTokens generates the id
it stores there separately from the id of the new token.  `ReplacedByFK` says
whether the column is the foreign key of migration 5.

**AuthService** is the four operations under concurrent requests:

| Code | Actions |
|---|---|
| `SignUp` | BeginSignUp, LookupNewUser, CreateUser, StoreToken, Respond |
| `Login` | BeginLogin, LookupUser, StoreToken, Respond |
| `RefreshTokens` | BeginRefresh, LookupForRefresh, CheckRefresh, GetUser, InsertChild, UpdateParent, Commit or Rollback, Respond |
| `Logout` | BeginLogout, LookupForLogout, CheckLogout, UpdateRevoked |
| hourly worker | Purge |
| time, restart | Tick, Crash (open transactions are rolled back) |

A transaction's INSERT is kept in `req[h].row` until Commit; its UPDATE takes the
row's lock, which other updates and the purge wait for (READ COMMITTED: after the
wait the statement looks at the row as it is, and a row that is gone is zero rows
and no error).  `held` is the set of tokens some response carried: a client can
only present those, since raw tokens are 32 random bytes.

**TokenLineage** is what the service promises of tokens, with no table, lock or
clock: a token is issued once, good for a while, and ends for good; a replacement
is only issued to a request that saw its token good, and ends that token.  It does
not promise that a token is replaced once: requests that see it good together are
all served (how many, ReplacementsAreOverlaps says).

### Accounts

**UserRepository** is the table `users`: Create with its two UNIQUE columns, the
look-ups, and Update, which overwrites password and role with the caller's copy
and leaves a missing row missing.

**Accounts** is who can sign in as whom and with which role, under concurrent
requests:

| Code | Actions |
|---|---|
| `SignUp` | BeginSignUp, LookupNewUser, CreateUser, IssuePair |
| `Login` | BeginLogin, LookupUser (with the comparison of the password), IssuePair |
| `RefreshTokens` | BeginRefresh, GetUser, IssuePair |
| `GrantAdmin` behind `RequireAdmin` | BeginGrant, GetTarget, UpdateRole |
| 15 minutes | Expire |
| the operator, by hand in the database | OperatorPromotes (external: no endpoint makes the first administrator) |
| restart | Crash |

A person is one password.  An access token is a copy of id and role, and the
middleware looks at nothing else: a grant is judged by the token, not by the row.
Between two statements of a request any other request may act, a failing write may
have taken effect, and the account is stored before its first pair of tokens is.
`promoted` (accounts whose promotion was acknowledged) and the field `late` of a
request (it arrived after that) are history.

### Lists

**Listing** is the four paged lists, one at a time: `GET /links`, the other link
list, users and access logs.  A parameter passes through `queryInt` (QueryInt), the
limit through the service's default (ServiceLimit), and both into `ORDER BY ...
DESC LIMIT ... OFFSET ...` (Orders, Between, and SelectLinks for the links'
repository, which builds its clauses).  Rows get their time stamp when the INSERT
starts and appear when it commits (BeginInsert, CommitInsert), and go (Remove).  A
client walks a list with BeginWalk, Query, Receive or LoseAnswer, and EndWalk at the
first empty page.  Rows with one time stamp may come in another order in each query;
`tied` keeps them apart in what the walk is promised.  The walking client is the
environment: the browser of this repository asks for one page only.

### Browser session

**BrowserSession** is `lib/api.ts`, `lib/auth.ts` and the sign-in and sign-out of
`App.tsx` and `LoginScreen.tsx`: tabs that share `store` (localStorage), each call
of `api()` with its one refresh and its repetition.  The code between two awaits is
one step; `pc[c]` says which await call `c` is at, or where at the server it is.

| Code | Actions |
|---|---|
| `handleSubmit` of LoginScreen | SubmitLogin; its end is in Finish |
| any screen's `api()` call | CallApi with kind `load` (behind RequireAuth) or `create` (POST /links) |
| `onLogout` of App | Logout, LogoutLocally (no refresh token stored); its end is in Finish |
| `api`, the 401 branch | StartRefresh, Retry (new pair stored, call repeated), GiveUp (`Auth.clear()`) |
| `api`, any other answer, and what the caller does with it | Finish |
| `LoginWrapper`, navigation | Render |
| the server | ServeLoad, ServeCreate, ServeLogin, CheckLogout, EndLogout, CheckRefresh, RotatePair, ServerFails |
| 15 minutes (`token_manager.go:14`), 30 days (`auth_service.go:18`) | AccessExpires, RefreshExpires |
| a rejected fetch, a tab that is closed | Lose |

The server half acts through TokenLineage's Issue, Claim and Rotate, which is all
a browser can notice of it: a Rotate by each of two calls that present the same
token, and a 500 after a commit, are among its steps.  `calm` (calls never
overlapped, none failed) and `stragglers` (calls in flight when the store was
cleared) are history.  Recycle is no code: a pair that nothing refers to any more
stands for one not yet issued, which keeps the number of pairs finite.

### Screens

**SecretScreens** is the create screen, the view screen and what people carry
between them, in front of LinkService:

| Code | Actions |
|---|---|
| `handleEncrypt` of CreateScreen | HandleEncrypt, FinishCreate |
| copy buttons, new secret | Share, NewSecret |
| a received URL, the key field | Visit (the key of a full link is filled in), Paste (channel 2 as received) |
| `handleDecrypt` of ViewSecretScreen | HandleDecrypt, FinishDecrypt |
| try again, confirm and leave | TryAgain, ConfirmAndLeave |
| closing or reloading the page | Leave |
| a fetch that rejects, or is answered by a proxy | LoseCreate, LoseAccess |
| LinkHandler | Serve (a step of LinkService; when the handler returns, Status is its answer) |
| SecretsScreen's invalidation | Discard |
| the server by itself | Background, CrashServer |

A click and the arrival of its request are one step, and so are a response and
what the screen makes of it.  In between, the browser only uses constants of the
handler function and the screen is disabled, so a longer way of the request only
delays what the server does; that a request or a response may never arrive is
LoseCreate, LoseAccess and Leave.  `errMsg` tells three messages apart: the text of
the server's 404, the sentence that the screen itself has for an answer without a
reason ("no reason"), and any other ("failed").  The 404 is only answered where the
handler finds `ErrLinkNotFound`: an Open that fails because the link expired after
CanAccess is a 500.  AES-GCM is abstracted to which key decrypts
(`sealed`); the key with its `#` is another text than the key.  `shared` stands
for the messages people send: they may be used in any order, again and again, by
several readers, and mixed up between links.  Senders are signed in: what a
lapsed session does is the subject of BrowserSession.

### Server

**ServerLifecycle** is the process of `cmd/api/main.go`:

| Code | Actions |
|---|---|
| `main` | StartFails, NewDB, Notify, Spawn, TakeServerErr, TakeSignal, CloseDone, BeginShutdown, Drained or ShutdownTimesOut, ClosePool, Return |
| the goroutine of ListenAndServe | Listen, ListenAndServeReturns, SendErr |
| the two workers | Tick, TakeTick, TakeDone, WorkerAcquires, WorkerEnds |
| net/http and the handlers | Accept, CloseIdle, ReadRequest, HandlerAcquires, TxStatement, StatementEnds, Respond, DatabaseHangs, ClientLeaves |
| the access-log goroutine | LoggerAcquires, LoggerEnds |
| the operating system | Signal, Kill |

What the statements do is the subject of the other modules; here they hold one of
`MaxOpenConns` connections.  A transaction holds one from BEGIN to COMMIT.  A
client's connection is accepted, idle, or carries a request; kept alive, it may carry
another one even when the server no longer accepts.  The accept loop may take a
connection after Shutdown was called; Shutdown waits for the loop first, and closes
what it finds without a request.  That net/http decides both without a gap is taken
from its documentation.

## 3. Checks

Run any of them in this directory with `tlc -config <run>.cfg <module>`; the
module and a sentence on each run are in `PROJECT.json`.

| Run | Instance | Checks |
|---|---|---|
| LinkConcurrent | 2 handlers, 1 link, 2 keys, 2 accounts, lifetimes -1, 0 and none, clock to 1, failures and crashes, fair | AuditInv, NoLateDelivery, DeletedStaysDeleted, TextMatchesStatus, NeverServesErased, AuditComplete, DeliveriesOverlap, EndsForCause, ImplementsOneTimeSecret, ExpiryEnforced |
| AuthConcurrent | 2 handlers, 3 tokens, 1 account, clock to 3, failures and crashes | AuthInv, RotationAtomic, NoLateRotation, EndedStaysEnded, WaitsEnd, SessionEndsByHolder, ImplementsTokenLineage |
| Accounts | 3 handlers, 2 ids, 2 names, 2 people, failures and crashes | AccountsInv, PairsGoToOwner, RoleIsCurrent, RolesByAdmins |
| Listing | each of the 4 lists, 3 rows, 2 owners, clock to 2, LIMIT 1 and 2, fair | TypeOK, MissesOnlyForRemovals, WalkEnds |
| BrowserSession | 2 tabs, 2 calls at a time, 2 accounts, 3 pairs | TypeOK, NoOrphans, SignedOutStaysOut, RefreshKeepsSession, CallsEnd |
| SecretScreens | 1 sender, 1 reader, 2 handlers, 2 links and 2 keys, 1 link passed on, clock to 1, failures and crashes | ScreensInv, OnlyTheKeyOpens, RevealedIsGone, RefusalIsTrue, DoneShowsItsKey |
| ServerLifecycle | 2 requests, 1 worker, 1 connection, 2 statements a request, fair | TypeOK, NothingCutOff, SignalEndsServer, DeafServerExits, AcceptedEnds |

AuditInv (which contains IInv of LinkService and its TypeOK), AuthInv, AccountsInv
and ScreensInv are the inductive invariants of the proofs; the runs check them as
invariants, so that a proof never rests on a formula that TLC refutes.

EndsForCause says when a link may stop being accessible: its time is up, or a request
that brought its key is about to write that it was opened, or one whose user may
delete it does; a row only disappears in the last case.  MissesOnlyForRemovals counts
rows twice: those that the walk has passed and not shown, and, when an empty page ends
it, all those that were there from the beginning and were never shown.

That requests end is no liveness property of the services: a handler's statements have
no deadline, so nothing justifies the fairness (ServerLifecycle looks at what a hanging
database does to the process).  That their calls have no loop is proved (RequestsOnlyAdvance
of LinkServiceProofs, five at most, and of AuthServiceProofs, seven at most).  For the
auth service WaitsEnd says the part that could go wrong.  The calls of a request are a sequence without a
loop, a statement returns or fails unless it waits for a row lock, and a lock always
belongs to a transaction whose next step (Commit or Rollback) waits for nothing; so
no two requests, and no request and the purge, wait for each other.

### Where the code and the documents disagree

Each of these runs ends in a counterexample; `findings` in `PROJECT.json` quotes
the document.

| Run | What happens |
|---|---|
| DocSingleUse | Two accesses read the waiting link, both open their copies, both updates succeed, both responses carry the secret. |
| DocErasedOnceServed | An access decides that the link has expired on a copy with the text; another one, a moment earlier, opened it; the lazy expiry writes the text back. |
| DocRefreshReturnsPair | The UPDATE of the rotation sets `replaced_by` to an id that is in no row: the foreign key refuses it and the rotation is rolled back.  In the migrated schema this is the outcome of *every* refresh whose row still exists. |
| DocCreatorsOwn | POST /links treats an expired access token as none: the link of a signed-in user belongs to nobody, and the browser is not told to refresh. |
| DocTwoChannels | The button of channel 2 copies `#key`; the view screen sends what was pasted, `#` included; its hash is another one and the answer is "not found". |

The first two promises are proved where they do hold: with one request at a time a
secret is delivered once and stays erased (SingleUseWithoutOverlap,
ErasedWithoutOverlap), and when no link has a lifetime a delivered secret stays erased
however requests overlap (ErasedWhenNothingExpires).  So an overlap is the only cause
of DocSingleUse, and an overlap with a lazy expiry the only one of DocErasedOnceServed.
DocCreatorsOwn has one cause as well: without the expiry of an access token a signed-in
user owns what she creates (CreatorsOwnUntilExpiry), and at worst nobody does, never
another account (LinksGoToCallerOrNobody).  The other two are no races at all: with the
foreign key no stored token is ever replaced (SchemaRefusesRotations), and a pasted
`#key` never opens a link (PastedFragmentNeverOpens).

Seen while modelling, and left without a run of their own:

* The same stale writes change a terminal status: OPENED becomes EXPIRED, or
  EXPIRED becomes OPENED.
* The loser of a race between two sign-ups gets 500, not the 409 that
  `signup.bru:43` gives for a name in use; an account whose first pair of tokens
  could not be stored is kept, and its owner is told of an error.
* A token with the role of an administrator is judged without the row: nothing takes
  the role away today, and RolesByAdmins would fail if something did.
* A limit of 0 or less is the default, not an empty page; rows with one time stamp
  have no second sort key, so that two pages may repeat one and skip another.
* When the purge takes the row between the check and the UPDATE of a refresh, the
  UPDATE changes nothing, is no error, and the rotation commits; two refreshes of
  one token, or a refresh and an acknowledged logout, overlap that way.
* A delivered secret has no access log when the process crashed, or was shut down
  cleanly, before the goroutine's INSERT, or when that failed.
* A link created anonymously is deleted by any account (`link_service.go:157`;
  `delete-link.bru:19` says only its creator).
* A call that a tab began as one account is repeated as another one, if a second
  tab signed in as that meanwhile.
* A logout whose fetch rejects leaves the pair stored; a refresh in flight when
  the store is cleared stores its new pair.
* The screen's own sentence for an answer without a reason, "not found, expired or
  already accessed" (`ViewSecretScreen.tsx:60`), may be untrue: an error page of a proxy
  (`helpers.go:87` reckons with one, `vite.config.ts` sets one up) is shown as that while the
  link still waits.  RefusalIsTrue is therefore about the server's own 404 alone.
* An access whose link expires between CanAccess and Open is answered 500, not 404
  (`link_service.go:48-51`, `link_handler.go:141-148`).
* `README.md:21` says that the key never reaches the server; both screens POST it.
* Two reloads of a list whose answers arrive in the other order show the older one
  (`SecretsScreen.tsx:90`, `AdminScreen.tsx:99`); a failed load of the admin
  screen is not repeated; "Total criados" counts at most one page of 50.
* Deleting a link deletes its access log with it (ON DELETE CASCADE).
* `docker-compose.yml` sets no `stop_grace_period`: Docker's default of 10 seconds
  ends before the 30 seconds that Shutdown is given.

### Bounds

*Links and tokens.*  Two handlers are enough for every race between a read and a
write of the code, since each such race is between one stale copy and one other
actor; the janitor, the purge, the log goroutines, the clock and the crash are
further actors that no bound limits but the clock's.  One link is enough because
no operation touches two.  With `MaxNow` 1 a link of lifetime 0 is good when it is
stored and overdue after a tick, anywhere within a request; the lifetime -1 is a
link that is overdue when it is stored (the handler accepts negative durations).
LinkConcurrent has liveness among its properties and takes no symmetry.  In
AuthConcurrent TTL is 2 and PurgeAge 0, so that a revoked token may be purged from
the tick after its issue on, before or after it would have expired, and an expired
one at 3.  Three tokens allow two rotations of one token at a time.  Ids are never
reused, so their number bounds the requests that store something; accesses,
deletions and logouts are not bounded.

*Accounts.*  Three requests at a time let two race for a name, or for a row, while a
third signs in, refreshes or grants.  Two people and two names make a wrong owner
possible; the requests, the promotions and the tokens that expire are not bounded.

*Lists.*  Three rows and a LIMIT of 1 make a walk of several pages with insertions
before, between and after the rows shown; a clock of three values lets all three be apart or tied.
The default limits 50 and 100 are 1 and 2, the values asked for are one that
`queryInt` refuses and one that the service replaces; no parameter is larger, since a
larger limit is a walk of fewer pages.  MaxOffset, the number of rows there ever were,
bounds the offset; the pages of the code never pass it (WalksStayWithinRows), so that
it cuts no walk short.

Because of the foreign key, a rotation in the migrated schema only commits when
the purge removed its row.  AuthConcurrent takes `ReplacedByFK` FALSE with
`Failures` TRUE: an UPDATE may succeed or fail, so the behaviours of the migrated
schema, where it fails, are among those checked, and so are those of a database
that accepts it, for which the unit tests' mocks stand.  DocRefreshReturnsPair
takes the foreign key and no other failure.

*Browser.*  Two calls at a time are what two refreshes of one token, or a refresh
and a logout, need; three pairs are the stored one and one for each.  PairsLeft
lets a call begin only when a pair is left for each call that may still be issued
one; Recycle makes that no bound on the length of a behaviour.  CallsEnd is stated
as a rank that each step of a call lowers, not as liveness: fairness of a server
that may never answer would not be justified.

*Screens.*  Two requests let a reader's answer be overtaken by the invalidation, or by
an older request of its own that it no longer waits for, which to the service is
another reader's.  Two links and two keys let a create call be lost and repeated with
another key while the first is still on its way, which DoneShowsItsKey is about.
MaxShared 1 means that once one of the links was passed on, the other is neither passed
on nor invalidated; it stays on the sender's screen.  Several readers, and several
links in the hands of readers, are left to the proofs, which cover any number.

*Server.*  MaxStatements bounds the statements of a request (the code makes three or
four, a transaction counted as one; what matters is whether another one follows
while others wait).  One connection is the smallest pool; a value of 0 for `DB_MAX_OPEN_CONNS`
means no limit to `database/sql` and is left out, since nobody waits then.

DocRefreshReturnsPair and ServerLifecycle allow deadlock: in the first, ids and
clock can be used up; in the second, the process exits.  Symmetry is declared only
in runs whose properties are all safety properties (ImplementsTokenLineage is: the
abstract specification has no fairness).

### Fairness

* LinkService: time passes, and the ticker fires again and again, with a statement
  that gets through at last (the worker gives each 30 seconds and goes on).  Nothing is
  assumed of requests and log goroutines: they may hang in the middle for ever.
* Listing: the server answers a query, and not every answer of a walk is lost.
  Nothing is assumed of insertions and removals.
* ServerLifecycle: every goroutine that can run does; `database/sql` serves the
  goroutines that wait for a connection in turn, hence strong fairness of
  HandlerAcquires; the deadlines of Shutdown (30 s), of the workers (30 s) and of
  the log (5 s) pass.  Not assumed: that a statement of a handler ever returns
  once the database hangs, that clients leave, that signals come.
* The other runs check safety only and assume none.

## 4. Proofs

TLAPS proves the following for every value of the constants, from the named
assumptions of the modules only (Nil is no id, no row, no pair and no screen; the
clock's and the pool's bounds are natural numbers; `Failures` is a Boolean; senders
are no readers; the keys that can be typed are the generated ones, with and without
`#`, which is no character of a key), and from the hypotheses that a row of the table
names.

| Module | Theorem | Says |
|---|---|---|
| LinkServiceProofs | TypeCorrect, InductiveInvariant | `Spec => []TypeOK`, `Spec => []IInv` |
| | LateRequestsRefused | `Spec => []NoLateDelivery` |
| | DeletionIsFinal | `Spec => []DeletedStaysDeleted` |
| | TextFollowsStatus | `Spec => []TextMatchesStatus` |
| | ResponsesCarrySecret | `Spec => []NeverServesErased` |
| | AuditInvariant, AuditIsSound, AuditIsComplete | `Spec => []AuditInv`, `Spec => []AuditSound`, `Spec => []AuditComplete` |
| | LinksEndForCause | `Spec => EndsForCause` |
| | RequestsOnlyAdvance | `Spec => RequestsAdvance`: at most five calls for a request, none twice |
| LinkRefinementProofs | LinkServiceIsOneTimeSecret | `Spec => ImplementsOneTimeSecret` |
| | DeliveriesAreOverlaps | `Spec => []DeliveriesOverlap`, for finitely many handlers |
| | SingleUseWithoutOverlap | `Spec => []SingleUse`, for one handler |
| | ErasedWhenNothingExpires, ErasedWithoutOverlap | `Spec => []ErasedOnceServed`, without lifetimes, and for one handler |
| AuthServiceProofs | AuthInvariant | `Spec => []AuthInv` |
| | RotationIsAtomic, LateIsRefused | `Spec => []RotationAtomic`, `Spec => []NoLateRotation` |
| | EndedIsFinal | `Spec => []EndedStaysEnded` |
| | WaitingEnds | `Spec => []WaitsEnd` |
| | SessionsEndByHolder | `Spec => SessionEndsByHolder` |
| | AuthServiceIsTokenLineage | `Spec => ImplementsTokenLineage` |
| | ReplacementsAreOverlaps | `Spec => []ReplacementsOverlap`, for finitely many handlers |
| | SchemaRefusesRotations | `Spec => []ReplacesNoRow`, when `ReplacedByFK`: a token that is stored has no replacement |
| | RotationsKeepUser | `Spec => []LineageKeepsUser`: a token and its replacement have one user while both are stored |
| | RequestsOnlyAdvance | `Spec => RequestsAdvance`: at most seven calls for a request, none twice |
| AccountsProofs | AccountsAgree | `Spec => []AccountsInv` |
| | PairsReachOwners, RolesAreCurrent | `Spec => []PairsGoToOwner`, `Spec => []RoleIsCurrent` |
| | OnlyAdminsPromote | `Spec => RolesByAdmins` |
| BrowserSessionProofs | SessionTypeOK, SessionInvariant | `Spec => []TypeOK`, `Spec => []IInv` |
| | SignOutIsFinal | `Spec => SignedOutStaysOut` |
| | CallsAreFinite | `Spec => CallsEnd` |
| | NoneIsOrphaned, RefreshesKeepSession | `Spec => []NoOrphans`, `Spec => RefreshKeepsSession` |
| | LinksGoToCallerOrNobody | `Spec => []CallerOrNobody`: a link's creator is the account of the token that came with it, or nobody if that was missing or expired |
| | CreatorsOwnUntilExpiry | `[]CreatorsOwn` in every behaviour of `Spec` in which no access token expires |
| | BrowserUsesLineage | `Spec => UsesLineage`: each step is one of TokenLineage, or forgets a token that has ended and is not claimed |
| ListingProofs | ListingTypes | `Spec => []TypeOK` |
| | WalksMissOnlyForRemovals | `Spec => []MissesOnlyForRemovals` |
| | WalksStayWithinRows | `Spec => []PagesWithinRows`: no page ends beyond the rows there ever were |
| SecretScreensProofs | ScreensTypeCorrect, ScreensInvariant | `ScreensSpec => []ScreensTypeOK`, `ScreensSpec => []ScreensInv` |
| | ScreensUseService | `ScreensSpec => Spec` of LinkService |
| | NoWrongKeyOpens | `ScreensSpec => []OnlyTheKeyOpens` |
| | RevealedForGood | `ScreensSpec => []RevealedIsGone` |
| | RefusalsAreTrue | `ScreensSpec => []RefusalIsTrue` |
| | DoneKeyMatchesRow | `ScreensSpec => []DoneShowsItsKey` |
| | DeliveriesSeenOnce | `ScreensSpec => []SeenOnce`: no more screens show a secret than were served it, for finitely many readers |
| | ViewersAreOverlaps | `ScreensSpec => []ViewersOverlap`: screens that show it and requests that hold it are at most as many as the handlers, for finitely many of each |
| | PastedFragmentNeverOpens | `ScreensSpec => []FragmentOpensNothing`: no request with a pasted `#key` passes the comparison, no screen with one shows a text |
| ServerLifecycleProofs | LifecycleTypeOK | `Spec => []TypeOK` |
| | CleanShutdown | `Spec => []NothingCutOff` |
| | ServerErrorArrives | `Spec => []ErrorArrives`: the send of the server's error never blocks, and the error waits for `main` or the process is over |
| | HandlersAdvance | `Spec => []RankOK /\ [][RanksFall]_vars`: each step of a request lowers its rank, a natural number |

**LinkService.**  NoLateDelivery is not inductive: it says nothing of the copy a
handler will act on later.  `IInv` adds, for every handler, what its copy holds
at each call (CopyFits), what the copy and the row share while the row exists
(CopyCurrent: the expiry, the creator and the hash of the key never change), and what a late request
can still meet (LateRefused); for the tables, that a row is inserted once, by the
handler that generated its id (BornOnce), and that a delivered link, or one whose
log is pending, is closed for good (SpentForGood).  The key lemma is
`EvolvesNext`: whatever stale copy is written, a row that is not waiting never
waits again, because both writers of AccessLink write a status other than
WAITING, and the expiry in the copy is the row's.  So a closed link stays closed
(ClosedStable) and a dead one stays dead (DeadStable), and a request that arrives
late finds it dead.  AuditComplete needs one more step of history: a response is
accounted for before it leaves (AuditInv).  EndsForCause needs that the owner on the
copy was compared (OwnerChecked), that a request past CheckAccess brought the key of
its copy, that the copy of a lazy expiry had expired (both in CopyFits), and CopyCurrent
for why a copy is good enough.  RequestsAdvance ranks the calls of a request: each step
of a handler that is not idle lowers its rank, and no other actor touches it.

**Refinement.**  HoldsOrigin is the heart: a handler only comes to hold a secret by
reading the row while it waits.  With it, every step either publishes, takes or
delivers one secret (PublishStep, TakeStep, DeliverStep), or only drops readers and
closes secrets (OtherwiseClose).  DeliveriesOverlap follows by counting: before the
first delivery the holders are at most all handlers; from then on the link is closed,
no read makes a holder, and each delivery takes its own away.  With one handler that
bound is SingleUse.  The erased text comes back only when a lazy expiry writes a copy
that still has it over a row that was opened; without lifetimes no such copy exists
(NothingExpires), and with one handler the copy has the text of its row (CopyHasText).

**AuthService.**  RotationAtomic and NoLateRotation are not inductive: a handler
writes back a copy that it read earlier.  AuthInv adds what each handler's variables
hold at each call (LocalsFit), that an id is given to one request and its row is
committed once (IdsUnique), that the parent of a committed token has ended, and what
a late refresh can still meet (LateRefused).  A step of one handler leaves the locals
of the others alone and makes rows only worse, never good again (OthersFit,
WorseRows): both UPDATEs write a copy that is revoked.  Hence one lemma per action,
each of which only shows that the handler's own new locals fit.  WaitingEnds rests on
LockSteps: a lock is taken by UpdateParent alone, for the request's own token, and
given back when that request ends.  For the refinement, a handler only comes to claim
a token by reading it while it is good (ClaimOrigin), and each step issues, claims or
replaces one token, or only drops claims and ends tokens (ClaimStep, IssueStep,
RotateStep, PhasesEnd).  ReplacementsOverlap counts like DeliveriesOverlap: a commit
gives up its request's claim for the new token (RotationPays), and a token that was
replaced is claimed by nobody else (ReplacedNotClaimed), so that the replacements of a
token and the requests that may still replace it are at most as many as the handlers:
that an already-used token is answered 401 (`refresh.bru:35`) holds up to overlap.  LineageKeepsUser needs that the copy of the parent, and the row
that waits to be inserted, have the user of the parent's row while that exists
(CopyHasUser).  With the foreign key SchemaInv is inductive: no stored row, no copy and no
row that waits to be inserted has a `replaced_by`, and a transaction that gets to its
COMMIT found that the purge had deleted its row, which no id brings back (GoneForGood).

**Accounts.**  The rows only grow: an account is stored once, its name and password
never change, its role is only raised, and that holds of a stale copy that GrantAdmin
writes back because it can only differ from the row in the role.  What handlers that
wait have read therefore goes on fitting (WaitingFits), and each action is a step of
one handler under StepKeeps.

**BrowserSession.**  SignedOutStaysOut needs that a refresh that meets an empty
store was in flight when it was cleared (RefreshesAreStragglers): a refresh begins
with a stored token, the two tokens of a pair are stored and removed together
(StoredTogether), and clearing makes stragglers of all calls in flight.
AnswersCarryPairs says that what a tab stores is a pair.  CallsEnd follows from the
order of a call's stages and the `refreshed` option.  NoOrphans and
RefreshKeepsSession follow a calm session's only call through its stages (CalmInv): a
login meets an empty store; a logout presents the stored token, and refreshes only
after that was refused, in vain; a refresh presents the stored token, which is no
longer good once it is answered; an answer that carries a pair carries one of the
account whose name is shown.  BrowserUsesLineage discharges what the composition with
TokenLineage takes for granted: a call presents tokens that were issued (RefersKnown,
LogoutsPresent), a claim belongs to the call that is about to use it (ClaimsHeld), and so
every answer is an Issue, Claim, Rotate or End of one of its Requests, and Recycle only
renames a token that has ended, that no request claims and that nothing refers to.
CallerOrNobody looks at one action, the server's creation (CreatorServed), and at what
may happen before the answer is taken: a header stays with its owner, and an access
token that has expired is not good again, while the answer is under way
(HeadersKeepOwner).  CreatorsOwn adds that, as long as none expires, every issued access
token is good (IssuedFresh).

**Listing.**  Rows are counted: those above a row are as many as its number in every
order that the database may give, if no time stamp is shared (RankCounts,
UntiedHasPlace), and a page is a stretch of at least one position after the offset
(AnswerIsBetween, PageBound).  So a page carries every such row between the offset and
its last one (QueryKeeps).  A row that comes moves others down and is none that the
walk looks for (InsertsKeep).  A removal brings at most one row above the offset, for
two with different time stamps have different counts (OneIsNext) and a walk that has
asked knows which time stamps are shared (TiesKnown); that row is paid for by the one
removed (RemoveKeeps), which no walk counts twice because rows do not come back
(RowsOnce).  An empty page means that the offset has passed all rows, so
the same count holds of all that were never shown (EmptyPageIsLast).

**SecretScreens.**  `Lift` shows that every step of the screens is one of
LinkService or leaves its variables alone, so IInv and all theorems above hold
behind the screens.  ScreensInv then relates the two sides: rows and copies carry
the hash of the key that decrypts, and past the comparison of AccessLink that is
also the request's key (KeyInv); a screen waits for at most one handler, which
serves what it asked for (CallInv); a copy that was missing or did not wait is one
of a link that is gone for good (CopyInv); what a screen shows was published and,
once answered 404 or revealed, is dead or closed (SenderInv, ReaderInv).  ClosedStable
and DeadStable of the service make these last.  A screen comes to show a text only by a
response that was counted as a delivery, one for each (ViewerOrigin), which carries
DeliveriesOverlap to the screens; its key is then the one that decrypts, and it keeps
that key while it shows the text (ShownKeepsKey), so that no screen that shows one holds
a fragment, which is no key.

**ServerLifecycle.**  Stages ties the way the process ends to what `main` has done;
CleanIsClosed says that after Drained no connection is open and the accept loop has
ended, which is inductive because a server that is stopping does not listen again: so
no request can begin that would meet a closed pool.  ErrorArrives needs that the goroutine of
the server is spawned once (Started).  The rank of a request is five for each statement
it may still make, less the steps made of the present one; a statement under way is one
that it had left (StatementsLeft), so that giving up, when the client goes away, lowers
it too.

Only model-checked: liveness and what rests on ENABLED, which are beyond the prover
(ExpiryEnforced, WalkEnds, SignalEndsServer, DeafServerExits, AcceptedEnds).  Of two of
them the half without fairness is proved: ErrorArrives of DeafServerExits, RanksFall of
AcceptedEnds.

## 5. Not modelled

* Cryptography and random numbers (hasher, generator, Web Crypto): fresh ids and
  injective encodings are assumptions.
* Decoding, validation and formatting in `adapters/http`, and the health check:
  they keep no state.  GetLink, which reads one row and returns it.
* What the list and admin screens show: they display the last answer.  Of SecretsScreen
  the invalidation is modelled; answers out of order are among the observations above.
* `LinkFilter` by status or expiry: no code sets it.
* The signature of access tokens (a library's).
* `RevokeAllForUser`, `User.Delete` and `User.UnDelete`: no code calls them.
* Configuration, the Dockerfile, the migration command.

## 6. Plan

Done: the modules of section 2, the runs of section 3, the proofs of section 4.
Next:

* **List and admin screens**: reloads whose answers arrive out of order.
