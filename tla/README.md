# A TLA+ model of the Pinterest MCP server

TLA+ modules, TLC configurations and TLAPS proofs for the stateful parts of this
repository: the two-stage credential handoff between the identity broker and the
credential database, which runs as concurrent database transactions, the replay
protection in front of it, the older ingress without a handoff, the broker that drives
the handoff, the tokens and the rate limit of the Pinterest client, the authorisation
command and the token file it shares with servers, and the server itself: its settings,
routes, guards, calls, resumable streams and its end.

## The system

| Part | State it keeps | Operations | Interacts with |
|---|---|---|---|
| Pending-credential transactions (`persistence/pending.py`) | rows of `pending_credentials`, `oauth_completion_receipts` | stage, complete, cancel, expire | repositories, advisory and row locks |
| Private ingress (`persistence/ingress_app.py`) | one maintenance task | handoff requests, cleanup, 30 s sweep | authentication, pending transactions |
| Ingress (`persistence/ingress.py`) | the nonce store (memory or Redis) | check freshness and signature, consume nonce, install tokens directly | broker, repositories |
| Repositories (`persistence/repository.py`, `models.py`) | `users`, `pinterest_connections`, `immediate_operations` | create user, save, renew, disconnect, reconnect, record operations | pending transactions |
| Keycloak broker (`PinterestIdentityProvider.java`) | the login session's transaction id, binding and deadline | stage after the callback, complete on login, cancel | ingress, over HTTP |
| Pinterest client (`client.py`) | tokens, expiry, refresh lock, pin timestamps, token file | refresh, request, rate-limited create | Pinterest API, other processes through the file |
| Event store (`event_store.py`) | per-stream deques and an index | store, replay | HTTP transport |
| Authorisation flow (`auth.py`) | the future of the code, connections to its port | listen, judge redirects, time out, exchange the code, save | browser, Pinterest, token file |
| Token file (`security.py`) | the file and temporary files | atomic replacement | authorisation, servers |
| Encryption (`persistence/encryption.py`) | key rings, one for each process | seal, open | repositories |
| Settings (`config.py`) | none over time | validators, derived values | HTTP server |
| Server (`app.py`, `http_app.py`, `oauth.py`, `stdio_main.py`) | the shared client, calls and streams | route, guard, call, stop | client, event store |
| Input checks, logging, migrations | none over time | functions of one call | all |

What is hard: requests, the sweep and disconnects interleave between any two
statements; each of them reads under one lock and writes later; locks are waited
for while deadlines pass; transactions roll back at any point; bulk updates can
deadlock; signed requests are delivered twice or late; the client's coroutines
check and act on two sides of an `await`; processes share a file; redirects come twice,
late or to the wrong run; a server ends while calls are in progress. What makes the parts correct:

- handoff: one owner per account, tokens only from the owner's own login, no
  install on a version that was not seen, nothing after the deadline or after a
  disconnect, ciphertext erased in the end, every request answered;
- authentication: a signed request is processed at most once, and the direct ingress
  keeps ownership, receipts and readability without a lock;
- repository: a renewal replaces the version it has seen, and a disconnected
  connection holds nothing usable (neither holds, see *Findings*);
- client: one refresh per expiry, a rotated token is never lost, at most ten pins a
  minute; event store: a replay sends exactly what followed the last seen event;
- authorisation: one accepted callback, of the run's own page; the token file is whole
  at every moment, and a save is one step of it;
- server: only callers whom its settings call for (health paths can be a way past that,
  see *Findings*), reachable surfaces, honest readiness, no call on a closed client, and a
  stop that ends.

## Modules

| Module | What it is |
|---|---|
| `CredentialLedger` | abstract specification: what the service promises, one step per operation, no locks, clock or concurrency |
| `CredentialVault` | the transactions that the code runs, under advisory locks and row locks |
| `MCCredentialVault` | instances for TLC |
| `CredentialVaultProofs` | the inductive invariant and its theorems |
| `CredentialStepProofs` | what the steps do: `CredentialVault` implements `CredentialLedger`, who may end a login, that nothing lapsed is installed, and what renewals leave intact |
| `CredentialRenewal`, `MCCredentialRenewal` | the vault with the token renewals of the repository added |
| `HandoffNonce` | freshness check and nonce stores under duplicated and delayed delivery |
| `DirectIngress`, `MCDirectIngress` | `HandoffNonce` with the ingress that installs tokens at once, disconnects and key rings |
| `DirectIngressProofs` | `HandoffNonce` accepts a request at most once, the ingress inherits that, and what its tables keep |
| `BrokerHandoff`, `MCBrokerHandoff` | the broker's login over an unreliable network, composed with `CredentialLedger` |
| `BrokerHandoffProofs` | broker and service agree on owners |
| `TokenClient`, `MCTokenClient` | access and refresh tokens in memory and in the token file, refresh lock, rotation, restarts |
| `TokenClientProofs` | one refresh at a time and only when needed, what a restart can rely on, and that no dead token is sent |
| `PinRateLimiter`, `MCPinRateLimiter` | the limit on created pins |
| `PinRateLimiterProofs` | one caller keeps the limit, and nobody sleeps needlessly |
| `EventStore` | bounded streams, their index, replays |
| `TokenRegister` | abstract specification: the token file as a register, in which a save is one step |
| `TokenFile` | the replacement of the token file by the system calls of several processes |
| `Authorisation`, `MCAuthorisation` | `pinterest-mcp-auth` on top of `TokenFile` |
| `AuthorisationProofs` | the token file is whole and implements the register; a run keeps its own page's code |
| `Settings` | validators and derived settings, as operators |
| `HttpServer`, `MCHttpServer` | a server from its settings to its end, on top of `Settings` and `EventStore` |
| `HttpServerProofs` | index and replays of the event store, callers, surfaces, readiness and the shared client of the server |

### CredentialVault and the code

The committed tables are `users`, `conns`, `rows` (pending credentials) and
`receipts`. A process is a transaction of an ingress worker (`Workers`) or of the
maintenance task (`Sweeper`); `pc` says where it is, `req` what it serves, `at` the
clock value it uses, `seen` and `due` what it has read. The actions follow the code:

| Actions | Code |
|---|---|
| `Receive`, `LockRow`, `CommitCleanup` | `handoff`: the cleanup transaction of its own, then the next one begins |
| `StartMaintenance`, `LockRow`, `CommitMaintenance` | `maintain`, `expire_pending` |
| `LockAccount` | `lock_account` and the second reading of the clock |
| `ReadForStage`, `CommitStage` | the stage branch: its checks, the version it records, the insert |
| `ReadForComplete`, `CommitComplete` | the complete branch: its checks, then user, connection, receipt and row in one commit |
| `CancelPending` | the cancel branch |
| `AnswerUnchanged` | every rejection, and every repeat that is answered from the stored row |
| `RefusedInsert` | a unique constraint refuses an insert at the flush |
| `FindConnection`, `RefreshConnection`, `LockRow`, `CommitDisconnect` | `disconnect_connection` |
| `Abort` | crash, outage, cancelled request: rollback |
| `DeadlockVictim` | PostgreSQL breaks a circle of row locks |

The steps of a transaction are cut where another transaction could see or change
something it depends on: at each lock it may wait for, at its reads, and at the
commit. Its flushes are part of the commit, because other transactions see them only
then; `Flushed` is the ORM's rule that a flush writes the columns that changed since
the load. PostgreSQL runs at READ COMMITTED, as the engine is created with no other
isolation level. A row lock is a lock on a row that exists: an absent row locks
nothing, which is why two transactions for different accounts can stage one
transaction identifier, and only the primary key stops the second.

Abstracted: token payloads are `Grants`, known by their lifetime; the payload hash
is the envelope's identity, so that a repeat with other tokens and a repeat with the
same both leave the tables alone; there is one issuer, because the ingress refuses
any other; encryption opens for the values a ciphertext was sealed with; users are
never deactivated (no code does it). `disconnect_connection` is a repository method
that this repository's tests call; it runs here beside the ingress, as its account
lock is meant for. The reply of a request carries no state and is left out, and
requests may arrive in any order and any number of times.

`CredentialLedger` is reached by the mapping at the end of `CredentialVault`:
cancelled and expired rows are void, a connection's version and tokens are the
ledger's `version` and `live`.

### CredentialRenewal and the code

`StartRenewal` is the caller that decrypts an active connection's tokens and remembers its
version, `LoadForRenewal` and `VersionConflict` are the read and the comparison of
`update_tokens_versioned`, `CommitRenewal` its flush and commit. Between the two lies whatever
other transactions do, as no lock is taken. Renewed tokens are known by the worker, the
connection and the version that they were made for.

### HandoffNonce and the code

`Sign` is the broker's `sendHandoff`: one nonce per request and no automatic retry.
`Verify` is the freshness check of `verify_hmac_signature`, `Consume` the call of
the store that follows it after an `await`. The memory store keeps a nonce up to and
including its expiry (it deletes `exp < now`), Redis up to but excluding it:
`KeepsAtExpiry`. The clock of the store and of the ingress is one clock. The code's
601 s against 2 x 300 s leaves less than a second between check and consumption:
`TtlAssumption` names that margin, `MaxStall`. A stall longer than that in the event
loop or on the way to Redis is outside the model.

### DirectIngress and the code

`Authenticate` and `Begin` are `authenticate_ingress` on both sides of its `await`, as
`Verify` and `Consume` of `HandoffNonce`; a job is the transaction that follows in
`process_credential_ingress`: `CheckReceipt`, `FindUser` and `FindAccountOwner` are its
queries in their order, `Commit` its flushes and the commit, `RefusedInsert` the
`IntegrityError`, `Abort` a rollback without an answer. `LoadToDisconnect` and
`CommitDisconnect` are `disconnect_connection`; its account lock keeps other
disconnects away, and the ingress does not ask for it. `NewConnection`, `Changed` and
`Flushed` are the rows that repository methods write, column by column: what was loaded
and has not changed is not written. A subject stands for an issuer and a subject. A
ciphertext is known by the key it names, the owner and the account it is bound to, and
the request it came with; `None` in the column of the access token is the tombstone.
The column `key_id` stays what the first insert made of it; nothing reads it, because
a ciphertext names its own key.

`Ring` is `CredentialCipher.from_env`; `RingAssumption` says how keys are changed: a
process seals with a key that every process can open, and keeps old ones. `InstalledOnce`
counts commits, not requests, so the receipt's key matters even for two different
nonces of one payload.

### BrokerHandoff and the code

The module extends `CredentialLedger` and uses its steps as the service: the vault
is shown to implement that ledger, and `HandoffNonce` that a call is processed at
most once. A browser's authentication session keeps the notes of `performLogin`
(`note`) and the brokered context with its pending reference (`context`); each
handoff call in progress is a record with its place (`under_way`), its reply and
whether a thread still `waits`. `GetFederatedIdentity` sends the stage call and `KeepContext`
is the code behind its reply; `ImportNewUser` and `UpdateBrokeredUser` are the two
hooks, `Matches` their comparison of reference and note, `Heard` the reply that
`sendHandoff` accepts. `Abort` is every exception, timeout and crash. A reply may be
a 503, after a commit as well as after a rollback, and a call that was given up may
arrive later. Keycloak's part (`CommitLogin`, and a user that is gone after `Abort`)
is external: the hook runs inside Keycloak's transaction, as the handoff document has
it ("Any error aborts the broker hook"). A token response, profile or endpoint that
fails its checks ends the request before anything is sent, and needs no action.

### TokenClient and the code

A server is a process with its `_client`; `Home` says which server runs a call, so
that calls of one server share its memory and its `_refresh_lock` (`queue`: the
holder first, then the waiters, in the order of `asyncio.Lock`), and all servers
share the token file. `Boot` is the constructor's choice between environment and
file, `StartCall` is `_ensure_token` up to its first `await`, `Locked` the second
look at the expiry, `Grant` Pinterest's side of a refresh, `StoreGrant` the code
behind the reply, up to the end of the lock, with a save that may fail. `EndCall` is
any exception or cancellation in a call, `Stop` a shutdown or crash, `Authorize`
the command `pinterest-mcp-auth`. Whether Pinterest rotates refresh tokens is its
own policy (`rotates`): the code handles both. Time is what is left of each
lifetime, which needs no clock and no bound. A server never reads the file again
while it runs; after a rotation elsewhere it fails until it is restarted, and the
model has that behaviour.

`orphaned` and `rejected` are history: refresh tokens that were spent for a reply
nobody saved, and servers whose access token the API has refused.

### PinRateLimiter and the code

`Count` is the synchronous part of `_rate_limited_pin`, `Wake` its return from the
sleep, `Acknowledge` the stamp after the reply. `Arrive` is the moment that matters
to Pinterest, between the request and its reply; `created` counts from there. The
loop of `bulk_create_pins` goes from one pin to the next without an `await`, so that
no other coroutine runs in between (`LoopFree`). A request that fails leaves no
stamp, even when Pinterest has created the pin; `WithinLimit` counts the pins that
are acknowledged or about to be. A call that is cancelled while it sleeps has no action:
it leaves stamps and pins as they are, as a call that is still asleep does.

### EventStore and the code

`Store` and the search of `Replay` have no `await` and are atomic; `Send` is one turn
of the loop around the callback, so that events are stored and evicted between two
turns. `Resume` and `Disconnect` are what the SDK makes of a client that comes back
with its last event, or is lost again. `log` is history: all that a stream ever had.

`Boot` and `Kill` of `HttpServer` empty the store (`StoreLost`) while clients and the
log remember: a client may come back to a new process.

### TokenFile, Authorisation and the code

A name leads to an inode, a process that has a file open keeps its inode, and each
system call of `save_atomic_token_file` is a step: `OpenTmp`, `WriteTmp` or
`FailWrite`, `Replace` or `NothingToReplace`. A write starts at the beginning of its
file, so that two writers of one file can leave a part of the longer record. The code
calls no `fsync`; the loss of power, after which a file system may show a renamed file
without its content, is outside the model. `Pid` is `os.getpid()`, alike for two
processes when each is process 1 of its container.

A run of `pinterest-mcp-auth` is known by its number, which stands for the random
`state`. `Redirects` are all that Pinterest has sent a browser to so far, and each may
arrive again and at any later run. `Callback` and `OtherRequest` are
`_process_callback_request` with the answer, which have no `await` between the check of
the future and setting it. `welcomed` is a set of codes: that the answer to one redirect
is sent twice would not show. `TimeOut` may find a code that was set in the same turn of
the loop: the run fails although its browser was told that it is authorised, and
`OneWelcome` is stated so as to allow that. `Closed` is `server.close` and `wait_closed`,
which waits for open connections; `Exchange` and `ExchangeFails` are the request of
`run_auth_flow`, with a code that Pinterest redeems once; `ServerSaves` is a server's `_save_token_file`.

### Settings, HttpServer and the code

`Settings` has the validators of the class (`Valid`), what is derived from settings
(`AuthMode`, `EffectiveHosts`, `EffectiveOrigins`), the readiness of credentials, and the
tokens that the client's constructor takes from settings and file. A path is its
sequence of segments. `HttpServer` takes `Routes` in the order of `create_http_app`,
`Target` is the first that fits, and a request gets to an endpoint when it passes the
bearer middleware, the OAuth wrapper and the transport security (`Passes`). `Doors` is
computed once for each setting: what kinds of request get through, and who their
`Caller` is: somebody `Trusted`, which is stated from the settings alone, somebody who has
no token and uses a health path of a server that wants one, or a stranger. A token file
that can be read has one or both tokens (`TokenFiles`).

`PostCall` is a tool call by a POST, `HealthCall` the same by a health path without the token.
`call[k]` is a stream or a tool call, `held` whether a caller waits for it, `of` the
stream that it is answered on. `Dispatch` is `call_tool` up to its first `await`, which
makes the shared client if there is none. `Stop` is a signal or the end of input,
`Drained` uvicorn's wait, `TakeClient` and `Closed` the two sides of the `await` in
`close_client`; the sessions end between them, with their calls. A process may then boot
again, with other settings, and make another client. MCP sessions, Starlette and uvicorn
are external. CORS answers, the metadata route and redirects of slashes lead to no
endpoint and are left out.

## Runs

| Run | Question | Size |
|---|---|---|
| `vault_safety` | Do ownership, receipts, ciphertext and versions stay consistent, and is the ledger implemented? | 644 thousand states |
| `vault_live` | Who ends a login, does waiting ever extend it, is ciphertext erased, is every request answered? | 58 thousand states |
| `ingress_direct` | What does the ingress without account locks keep? | 1.24 million states |
| `broker_handoff` | Do Keycloak and the service agree on owners, whatever is lost or late? | 588 thousand states |
| `pins_bulk` | Does the limit hold for one call at a time, without needless sleep, and does every call end? | 4 thousand states |
| `tokens_shared` | Is there one refresh at a time, is a sent token alive, can a restart refresh? | 227 thousand states |
| `authorisation` | Does a run use its own code, welcome one browser and end, and is the token file a register? | 284 thousand states |
| `http_server` | Who gets in, what is reachable, is readiness honest, are calls and replays sound, does a stop end? | 468 thousand states |
| `renewal_versions` | Does a renewal replace the version that it has seen? (No.) | violation |
| `pins_concurrent` | Does the limit hold for two calls at once? (No.) | violation |
| `tokens_env` | Is a rejected token renewed? (Not one from the environment.) | violation |
| `token_file_containers` | Is the token file whole when containers share it? (No.) | violation |

Bounds. `vault_safety` has two requests in flight besides the sweep, two transaction
identifiers, two accounts and two subjects, so that two logins race for one account,
one subject comes with two accounts, one identifier is staged for two accounts, and
a disconnect meets a stage, a completion and a sweep. Every interference is between
two transactions and at most one sweep; a third request would wait at the same
locks. One clock step is enough for a deadline to pass during a request.
`vault_live` has one worker beside the sweep, two logins of one account in two browser
sessions, and provider tokens that live no longer than one step: a worker's cleanup and
the sweep lock the same two rows in opposite orders, which is a deadlock that has to be
broken before anybody is answered. Two workers that compete are covered by the
invariants and the deadlock check of `vault_safety`, not by liveness. `MaxVersion` only stops the requests for new disconnects; two allow
connect, disconnect and reconnect. `Window` is larger than the clock of the
instances: the upper limit of deadlines refuses nothing there. `vault_safety` uses
symmetry and has no liveness property.

`ingress_direct` has two requests and two handlers with different key rings, so that
two copies of one request, two requests of one transaction, two owners of one account
and one owner with two accounts meet at every query, beside a disconnect. Its clock is
small (no difference in age is accepted, a nonce is kept for one step): two steps suffice for a nonce
to be accepted, forgotten and delivered again. It has no stall between the check of the
age and the nonce (`MaxStall` 0), and no age to spare (`MaxAge` 0): those edges rest on
`NonceSafety`, which is proved for every window and stall. `MaxVersion` 2 lets a request reconnect what was disconnected. The deadlock check is
off: the clock is bounded, nonces are used up and nobody has to send.

`broker_handoff` has two sessions, two transactions and three calls in progress for one
account: enough for two first logins that race, for a first and a returning login,
and for a tab that starts over under an open page. Transactions are used up, so the
deadlock check is off. Accounts share no state of the broker; `vault_safety` has two.

`pins_bulk` has bulks of up to four pins with a limit of three, so that a bulk
sleeps, and sleeps again when it follows another; a window of four moments leaves
room for replies of every delay. `tokens_shared` runs two calls in one server, which
compete for its lock, and a third in another, which competes for the file; two
grants on top of the first ones let each server rotate, or one rotate and a new
authorisation intervene; a lifetime of two with a margin of one gives tokens that
are fresh, stale and dead. `tokens_env` needs one server only.

`authorisation` has two runs, so that a page of the first can be finished in the second,
two codes, so that a page can be agreed to twice, one connection at a time (the judging
of a request is atomic, so that a second connection only adds somebody to wait for), a
server that saves, and three files: the token file and a temporary file for each writer.
Runs and codes are used up, so the deadlock check is off.

`http_server` starts from more than fifty settings: every transport, listener and kind of
authentication, and one or two beside each validator and each route that the others do not
tell apart; a token and OAuth are also combined with surfaces at the root, and a token with
surfaces at a health path. Its requests cross ten credentials with eight paths, two methods, two hosts and
an origin. Two slots give a call beside a stream or another call, two clients a
successor of the first. Streams hold two of three events, so that an eviction passes by a
running replay, and a second stream shows that nothing leaks between them. Once events
were stored, only resumable servers are booted: to the others the store is unreachable.

Fairness (`vault_live`): time passes; a worker's and the sweep's
next statement is eventually run if it can be run again and again (asyncio schedules
every task, and PostgreSQL queues its lock requests, so none starves); deadlocks are
detected; outages end (`OutagesEnd`), from which point transactions are not lost.
No request has to arrive. The maintenance loop survives its own exceptions and
comes back every 30 s, which is the fairness of `StartMaintenance`.

Fairness of `PinRateLimiter`: time passes, a coroutine that can go on is scheduled,
and a request is answered or fails, because httpx bounds it by a timeout. Wake-ups
and replies have strong fairness: another caller's synchronous stretch disables them
again and again, but asyncio's queue serves each in its turn. `Authorisation`: the event
loop of the command runs what can run, its timers fire, a connection is closed after its
answer or after five seconds, and httpx bounds the exchange; nobody has to connect or to
agree. `HttpServer`: the loop dispatches queued calls, a handler returns because httpx
bounds what it waits for, and the ending sessions cancel what is left; nobody has to
close a stream, so `StopsWhenLeft` speaks of a server whose callers have. `TokenClient`,
`EventStore` and `DirectIngress` have no liveness property.

Each property has a mutant: a definition with the suffix of what it gets wrong
(`MayComplete_AnyVersion`, `LockAccount_OldClock`, ...), placed before the
definition it would replace. No run uses them.

## Proofs

All proofs are for every value of the constants, under the named assumptions of the
modules. `None` and the words for stages are none of the values, the sweep is no worker, lifetimes
are positive, bounds are naturals. The ones with content: `TtlAssumption`, a nonce is kept
longer than any copy is fresh; `TokenAssumption`, a reply's way
is no longer than the margin of 60 s, and a lifetime is longer than that way. The timeout of a
request is 30 s unless it is set, and `config.py` accepts up to 300 s: beyond the margin
`UsableWhenSent` is not claimed, since a token may then be sent when it is dead;
`RingAssumption`, keys are rolled out before they are used, and kept.
`ServerAssumption` and `StoreAssumption` say that settings, requests and files are of
their types, and that a deque has room for one event.

Four theorems have a hypothesis of their own:

- `TokenFileIsWhole` and `FileIsRegister`: `DistinctPids`. `token_file_containers`
  shows what happens without it.
- `LimitTheorem`: one caller. `pins_concurrent` shows what happens with two.
- `SurfacesTheorem`: `MessagesBelow`, the message path ends with a slash, as its default
  does. The redirect that Starlette makes for a path without one is not modelled.

TLC checks on every run of `http_server` that its settings meet the last one
(`InstanceOfTheorem`), and on every run of the limiter that `Recent`, which is written as
what it drops, is the filter of the code (`RecentIsFilter`).

| Theorem | Says |
|---|---|
| `VaultInvariance` | `VaultInv` always holds |
| `VaultTypeCorrect` | type correctness |
| `VaultIsolation` | one owner per account, tokens only from the owner's own completed login |
| `VaultRecords` | receipts match completions; ciphertext exists while pending |
| `VaultFreshWrites` | what a transaction is about to write is based on what is still there |
| `VaultImplementsLedger` | every run of the transactions is a run of the abstract ledger |
| `VaultSameSession` | a login is ended by its session, its owner's disconnect or its deadline |
| `VaultLapses` | a login that lapses while nobody works on its account is never installed, however long requests wait |
| `RenewalsKeepOwners` | with renewals too: one owner per account, tokens only of the owner's own connection, receipts and erasure |
| `NonceSafety` | a signed request is processed at most once |
| `BrokerTypeCorrect` | type correctness of the broker with the ledger |
| `LinkedTheorem` | whoever Keycloak lets in to an account owns it in the service |
| `StrandedTheorem` | an owned account without a login is left only by an unheard completion |
| `LoginTheorem` | a committed login has installed its own callback's tokens |
| `TokenTypeCorrect` | type correctness; a lock's queue holds each waiting call of its server once |
| `OneRefreshTheorem` | a server has one refresh under way at a time, by the holder of its lock |
| `RefreshNeeded` | nobody refreshes a token that is fresh, after a wait neither |
| `RestartTheorem` | a restart's refresh token is good unless a reply for it was never saved |
| `UsableTheorem` | no access token with a known expiry is sent dead |
| `LimitTheorem` | one caller keeps the limit, for every length of a bulk and every delay of a reply |
| `SleepsTheorem` | nobody sleeps with room left, nor longer than until there is room |
| `AuthorisationTypes` | type correctness of the command, its port and the files |
| `TokenFileIsWhole` | the token file holds one complete record at every moment |
| `FileIsRegister` | every run of the writers' system calls is a run of `TokenRegister` |
| `CodeIsOfOwnPage` | a run goes on with a code of its own page only |
| `OneBrowserIsWelcomed` | exactly the browser whose code a run holds is told so |
| `RequestsAcceptedOnce` | the direct ingress inherits the replay protection |
| `TokensInstalledOnce` | a transaction installs its tokens at most once |
| `AccountsHaveOneOwner` | an account has one owner, and the tables agree on it, without a lock |
| `AnswersAreTrue` | who is told that a payload is persisted can rely on it |
| `TokensReadable` | every process can open what every connection holds |
| `ServerTypeCorrect` | type correctness; a running server has valid settings, and no deque exceeds its limit |
| `IndexTheorem` | index and deques of the event store say the same |
| `ReplayTheorem` | a resumption has no gap, no repetition and nothing of another stream |
| `TrustTheorem` | every stream and call came from a caller whom the settings call for, or by a health path of a server that has a surface there or at the root |
| `SurfacesTheorem` | no route hides a surface that `/healthz` names |
| `ReadyTheorem` | `/readyz` and the client of the next call agree about credentials |
| `ClientsTheorem` | a call in hand has an open client, and a stopped server leaves none open |

Argument. None of the properties is inductive: what a commit does depends on what
its transaction read many steps before. `VaultInv` adds what each process relies
on: its request fits its place (`ProcessShape`), it holds its account's lock and a
completion holds its row, and locked rows are pending (`LocksHeld`), and what it has
read is still so (`StageSnapshot`, `CompletionSnapshot`, `DisconnectSnapshot`). The
last part is an assume-guarantee argument: `OthersUnmoved`, `RowsRespected` and
`AccountsRespected` state what a step of one process leaves alone (the other
processes, rows locked by others, accounts locked by others), each action is shown
to respect them, and a snapshot survives every step that does. One case is weaker:
while a completion for a new subject waits to commit, the same subject may become the
owner of another account, because the account locks differ. Then `InsertsAllowed`
fails: the unique constraint on issuer and subject is what protects the tables
there, and `CompletionSnapshot` says so. `StageEffect`, `CompleteEffect` and
`DisconnectEffect` then tell what a commit really writes, which gives both the
invariants of the tables and the steps of the ledger. `VaultSameSession` needs one
more invariant, `DueLapsed`: deadlines do not change, so the rows a cleanup has
selected are past theirs when it commits.

`VaultLapses` speaks of a moment and of all that follow it, so that its invariant `Gone` is
about a login for which that moment has come: it is given up, or past its deadline
and every completion of it has yet to read the clock or has read one that is too late
(`LateWorker`). A worker reads the clock once it holds the account's lock, and keeps it
(`ClockKept`): a login that lapses while the lock is free has no completion behind it.

`RenewalsKeepOwners` cannot rest on `VaultInv`: a renewal takes no lock, so that what a
transaction has read of a connection may be gone when it writes. `RenewalInv` says nothing of
versions, of tokens that somebody has read, or of account locks. What is left is enough: a
completion holds the lock of its row, a user row never changes once it is there, a flush
leaves the account alone (`Gentle`), and a new owner meets the unique keys (`Completing`). So
the owners and receipts of the vault need the row locks and the keys; the account locks are there for the
versions and the deadlines.

`NonceSafety` rests on `IndInv`: a copy in flight was fresh at most `MaxStall` ago,
and an accepted nonce is kept until no copy of it can be fresh plus `MaxStall`.

`BrokerHandoffProofs` rests on two facts. What the service has done stays done
(`Kept`: an owner, a completed login, an envelope's account), so a good reply is still
true when Keycloak commits on it (`CallsOK`); and a completion that is under way with
nobody waiting is already counted as unheard, so that it may install an owner late.

`TokenClientProofs` has one invariant, `TokenInv`. What a process or the file holds
has been issued (`KnownIssued`) and dies at Pinterest no sooner than its recorded
expiry minus the longest way of a reply (`ExpiriesHonest`); a reply in flight will
give tokens of that kind (`RepliesGood`), and where Pinterest rotates nobody else
knows its refresh token (`RepliesUnheard`), so that no other call can spend it on the
way. `StartCovered` is what a restart would read: good, being replaced, or orphaned.
The margin being no shorter than a reply's way is what
turns an honest expiry into a live token.

The lock has an invariant of its own, `QueueInv`: the calls in a server's queue are those that wait,
refresh or have been granted tokens (`Seated`), each once, and who is past the wait is the
first and works with the token in memory (`Holding`). A cancelled call leaves the queue
from any place; the one behind a holder that left looks at the expiry before it refreshes,
which is `RefreshNeeded`.

`PinRateLimiterProofs` counts stamps and pins from the newest backwards. `Stamped`
compares the two lists place by place: a pin in the window has a stamp in its place which is
no older, as the stamp is made after the reply. A sleeper's rest is what the oldest
counted stamp still needs (`Sleepers`). With one caller, `Room` says that the stamp that
would be one too many is out of the window while a pin is on its way, or will be when the
sleep ends; a second caller could stamp during the sleep, and `Room` is lost.
`Recent` returns the list from its first recent stamp on: that this is the filter of the code
needs the order of the list (`Ordered`).

`AuthorisationProofs` has `FileInv`: a name of a temporary file leads to a file that
no other name leads to (`NamesApart`), and a save's name still leads to the file it has
open, with the content it gave it (`SavesApart`). That is where the process
numbers enter: a second writer with the same name would find the file and empty it.
`FileIsRegister` maps the register to the content of the inode that the token file's name leads
to, and what a writer wants to the record of its save: opening begins a save, the rename installs
it, a failure or a kill gives it up, and a write changes no inode that the token file leads to. What
is proved of a run rests on `RunInv`, which needs nothing of the process numbers.

`DirectIngressProofs` shows first that every step is a step of `HandoffNonce` or none of its
concern, which gives `RequestsAcceptedOnce` from `IndInv`. `IngressInv` then says of every
row that is there now or that a transaction has loaded, that it names its owner's account
and holds what was sealed for it (`RowsHeld`, `JobsInv`). A flush mixes columns of a loaded,
a wanted and a current row, and all three are of that kind, so that whatever mixture results
is too. Ownership needs no lock because a `users` row never changes once it is there
and each way to a second one meets a unique key.

`HttpServerProofs` has three invariants. `StoreInv` is about the store: events of a log are
in order and in no other log (`LogsOrdered`, `LogsApart`), a deque is the end of its
log (`DequesEnd`), and the index names the deque that holds an event (`IndexExact`).
`IndexTheorem` is its last part; the others are why an eviction takes the right name out of
the index. `ClientInv` is about the clients: one that lost a stream belongs to one log
(`AtHome`), has exactly its messages between the event where it lost the stream and its
last one (`Knows`), and its replay has still to send what follows, in order (`Behind`). No event
is in two logs, so a client's last event leads back to its own stream, and an event that was
evicted meanwhile refuses the resumption instead of leaving a gap. `Sharing` is about
the client of the server: open are the shared one and the one that is being closed, a
running call has the shared one, and a server that closes has no calls.

Who gets in and what is reachable depends on the settings alone. `RouteList` writes
the list of routes out, `FirstRoute` says when an endpoint's route is the first that
fits, and lemmas about prefixes compare paths. `HealthTakenInside` goes through the routes:
what takes a request of a health path, and is not the health route itself, is the
streamable surface at that path or at the root, or the message mount at the root. An SSE
stream at a health path is none of them, because the health route takes its method too.
`DoorsAreGuarded` concludes that whoever gets through a door is `Admitted`, and `TrustStep`
that calls come through doors only, and that a server keeps its settings while it has
calls. `ReadyIsTokens` compares what `/readyz` and the constructor
of the client make of settings and file.

Only model-checked: the liveness properties (`EnvelopesErased`, `RequestsAnswered`,
`CallsEnd`, `RunEnds`, `StopsWhenLeft`), because fairness and `ENABLED` are out of
the prover's reach, and the violations, each of which is a counterexample. Every other property of
a passing run is a theorem; `RenewalsKeepOwners` is one that no run states, since the only run of
`CredentialRenewal` is the one for the violation. Limits of the prover that shape the models: it has no facts about
`SelectSeq`, and none about recursive definitions or folds, so that lists are described by their
elements; a least index is found by well-founded induction on the naturals.

## Findings

- `update_tokens_versioned` promises "optimistic concurrency control on
  credential_version", but compares the version in Python and updates by primary
  key, under no lock. `renewal_versions` shows two renewals from one version that
  both commit. For the same reason a renewal that loaded its row before a disconnect
  can put ciphertext into the disconnected row, and a version can go back. It cannot give an
  owner another's connection or tokens (`RenewalsKeepOwners`).
- `_rate_limited_pin` promises "10/min", and the tool's description repeats it. It
  counts before it awaits and records after the reply: `pins_concurrent` shows two
  tool calls that both find room. One call at a time keeps the limit (`pins_bulk`).
- A supplied access token "remains usable until the API rejects it", and the refresh
  token is there "for auto-renewal". `tokens_env` shows an access token from the
  environment sent again after its rejection, with a valid refresh token unused.

- The privacy page says that token files "are written atomically via temporary files and
  os.replace() to prevent partial writes or corruption" (`docs/privacy.html:92`). The temporary
  name has the process number in it, `docker-compose.yml` gives its services one volume for the
  token file, and the program is process 1 of each container: `token_file_containers` shows a
  save that empties the file another save is about to move, and a token file that is
  empty or torn. Processes of one host keep it whole (`TokenFileIsWhole`).
- The validator of the listener promises to "refuse to expose an unauthenticated MCP endpoint
  beyond loopback" (`config.py:205`). The bearer middleware lets `/healthz` and `/readyz`
  through for every method (`http_app.py` 54 and 255), the health routes take GET alone
  (lines 232-233), and the validators accept an `MCP_PATH` of `/` or of a health path beside
  `MCP_AUTH_TOKEN`. A POST of `/healthz` without the token then goes on to the route of line
  144 or the mount of line 151. `http_server` has such servers and such calls: they are the
  action `HealthCall`, which the run takes, and `CallersTrusted` has to name them
  (`HealthInside`) to hold. A message mount at the root is open likewise, to who knows a
  session. The default paths are not concerned, nor is OAuth, whose wrapper is around each
  endpoint and exempts no path: `TrustTheorem` says that there is no other way past
  authentication, for any settings.

No document says what becomes of an account whose first completion was committed but
not heard: Keycloak has no user, the service has an owner, and each later login is
refused because its new subject is not that owner. `StrandedOnlyUnheard` shows that
nothing else leads there.

Met on the way, and no disagreement with a document that a run could show, or one whose
code only tests call:

- A disconnect and a request of the direct ingress overwrite each other column by column:
  a disconnected row can hold a refresh token, although `disconnect_connection` promises to
  "clear usable ciphertext", an active row can hold the tombstone, and a row can hold the
  access token of one request with the refresh token of another. `Readable` and `OneOwner`
  are what holds in spite of that.
- An `MCP_PATH` of `/`, or one that is above another surface's path, hides that surface:
  validators accept it and `/healthz` names the hidden surface. `SurfacesLead` is stated for
  paths that are apart (`Apart`). With a token such a path does more: see the findings.
- `/readyz` says that it is ready on a refresh token of the settings although a token file with
  neither token is there, and the client's constructor lets that file replace the token
  (`config.py` 371-384, `client.py` 116-123). The program writes no such file, and
  `TokenFiles` has none.
- `/readyz` looks at the token file again and again, a running server does not: it may say that
  it is ready, with a client that holds spent tokens until a restart.
- A renewal, `rotate_key` and the operations of `immediate_operations` have no caller outside
  the tests.

The first finding needs callers that run concurrently on the same owner; in this
repository only tests call that method. The last two need a deployment with a shared
volume, or with those paths. All other properties that the runs check hold.

## Plan

Done: all modules of the table above, and a theorem for every safety property that a
passing run checks. What is left, in this order:

| Subject | Properties |
|---|---|
| the event store as an unbounded list of each stream | a replay is the rest of the list or a refusal, as a refinement |
| `immediate_operations`, once something calls them | one record for each key and owner |
| a larger instance of `DirectIngress` | three requests of one account |

## Not modelled

- Input checks (URLs, addresses, paths, image formats, the pinned transport): functions of
  one call that keep no state.
- Cryptography and the formats of ciphertext, tokens and signatures: a signature, a seal or a
  JWT is known by what it was made for, and opens or verifies when that fits.
- Logging and its redaction, tool schemas, the wording of errors, and the flag that marks a
  result as an error.
- `immediate_operations`: each operation is one insert or update of one row by its key, and
  nothing outside the tests calls them.
- Migrations run offline, once, before the program; what they result in, the unique keys, is modelled.
- The Pinterest endpoints without state: boards, analytics, users. Each is a token check
  and one exchange, the stage `using` of `TokenClient`.
- The loss of power, and clocks that disagree between the ingress and Redis.
- Deployment files, documents and vendored metadata hold no behaviour of the program.
