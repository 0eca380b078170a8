# NovaIIM: TLA+ specifications

NovaIIM is an instant-messaging system in C++: a server (`src/server`), a client SDK
(`src/client/nova_sdk`) with desktop and mobile front ends, an admin HTTP server inside
the server process, and a shared wire protocol (`src/protocol`).  This directory holds
TLA+ models of the parts where several threads, several database statements or several
messages have to work together, TLC configurations that check them on small instances,
and TLAPS proofs of the most important invariants for every size.

## 1. Inventory

Threads of the server: libhv's IO threads (one loop per gateway worker), the workers of
`ThreadPool`, the admin HTTP thread, the message-bus thread.  Threads of a client: the
application's threads, libhv's network thread, a timer thread for time-outs and one for
reconnecting.

| Component | State | Operations | What is hard | What makes it correct |
|---|---|---|---|---|
| `MPMCQueue` (core/mpmc_queue.h) | ring of cells with sequence numbers, `head_`, `tail_` | `Push`, `Pop` | lock-free: every atomic access interleaves | bounded FIFO, no data race on a cell, honest "full" and "empty" |
| `ThreadPool` (core/thread_pool.h) | queue, semaphore, `stop_`, threads | `Submit`, `WorkerLoop`, `Stop` | a token and its task travel apart; stop while submitting | each task at most once, all accepted tasks before `Stop` returns, no waiting task with all workers asleep |
| `ConnManager`, gateways, `UserService` login and logout, admin user actions, `AdminKickUser` subscriber | user → connections, online counter, `user_id_` and device of each connection, `users.status`, bus | open, message, close, `HandleLogin`, `HandleLogout`, ban, unban, delete, kick | five kinds of threads, and a login that is a dozen steps | exact online counter, limit per user, one session per device type, blocked users offline, closed connections removed |
| `MsgService`, `ConvService` delete | conversations, messages, members' receipts, de-duplication cache, in-flight marks | send, recall, deliver ack, read ack, hide | retry, failed statement, restart, time-out of the in-flight mark, two handlers on one conversation | unique `server_seq`, stored once, acknowledged means stored, receipts only go forward |
| Client session (`TcpClient`, `ClientContext`, `RequestManager`, `ReconnectManager`, `AuthService`, `NovaClient`) | connection state, business state, pending requests, timers | connect, request, login, response, time-out, kick, disconnect, shutdown | four threads, callbacks under locks | one outcome per request, requests settle, state shown = state of the network, kick is final |
| `FriendService` | friend requests, friendship rows, private conversations and their members | add, accept, reject, delete, block, unblock | six writes in one transaction, a unique index, requests older than a block | rows, requests and conversations agree, one pending request, a block outlives an older request, a deleted friend cannot write |
| `GroupService` | groups, roles, join requests, members | create, dissolve, join, answer, leave, kick, roles | shares the table of members with `FriendService`; requests older than a dissolution; a request may name any conversation | one owner per group who is a member, the member limit, nobody in a dissolved group, an applicant is not a member |
| `SyncService` | none of its own; the client's cursor | pull a page, count unread | reads while numbers are drawn and not yet stored | a client that follows the pages skips nothing; the unread count is exact |
| `RateLimiter` (core/rate_limiter.h) | an entry per key, write counter | allow, record a failure, reset, purge | check and record are apart: a password is hashed in between | failures in a window are bounded whatever is purged |
| Admin sessions and roles (admin_server.cpp, RBAC and session DAOs) | accounts, roles, permissions, sessions, RBAC cache | login, logout, accounts, roles, purge | a cache with a time to live beside tables that change; logout against purge and login | judged by current permissions, disabled admins out at once, logged-out tokens stay out |
| `Snowflake`, MySQL pool | clock and counter, free connections | next id, acquire and return | see section 5 | not modelled |
| Files, wire protocol, client cache, view models, front ends, configuration, logging, hashing | | | I/O, encoding, presentation | not modelled |

How they interact: a gateway reads a packet on an IO thread and submits it to the pool;
a worker dispatches it through the router to a service; the service opens a database
session, executes statements and pushes packets to the connections it finds in
`ConnManager`.  The admin server changes rows itself and asks for a kick over the
message bus.  With SQLite, `dao().Session()` holds one mutex, so handlers exclude each
other; with MySQL it takes a pooled connection and handlers interleave at every
statement.  This difference is the constant `Exclusive` of `ConnSession` and the variable
`exclusive` of `MsgService`, which Init chooses once.

The hazards, each at its source line and with the properties that would catch it, are
in `PROJECT.json`.

## 2. Modules

| Module | Models | Role |
|---|---|---|
| `BoundedFIFO` | what the queue promises | abstract specification |
| `MPMCQueue` | mpmc_queue.h | one action per atomic access or plain access of a cell |
| `MPMCQueueProofs` | | proofs |
| `ThreadPool` | thread_pool.h | composes the pool with the queue's steps (`INSTANCE MPMCQueue`) |
| `ThreadPoolProofs` | | proofs, on top of the queue's (`INSTANCE MPMCQueueProofs`) |
| `ConnSession` | conn_manager.cpp, connection.h, gateway.cpp, ws_gateway.cpp, router.cpp, user_service.cpp (login, logout), admin_server.cpp (ban, unban, delete, kick), application.cpp (subscriber) | who is logged in on which connection |
| `ConnSessionProofs` | | proofs |
| `MsgService` | msg_service.cpp, conv_service.cpp (delete), message and conversation DAO | sending, recalling, receipts, hiding |
| `MsgServiceProofs` | | proofs |
| `SyncService` | sync_service.cpp, `GetAfterSeq` | extends `MsgService`: paging clients and unread counts beside the senders |
| `SyncServiceProofs` | | proofs, and that `SyncSpec` implements `MsgService`'s `Spec` |
| `FriendService` | friend_service.cpp, friend DAO, group_service.cpp (leave), account status | requests, friendship rows, private conversations |
| `GroupService` | group_service.cpp, group and conversation DAO | extends `FriendService` over the shared table of members |
| `GroupServiceProofs` | | proofs of `FriendService`, of `GroupService`, and of their composition |
| `RateLimiter` | rate_limiter.h and its callers' protocol | windows, purge, callers between `Allow` and `RecordFailure` |
| `AdminServer` | admin_server.cpp (login, logout, `AuthMiddleware`, accounts, roles), jwt_utils.cpp, RBAC, account and session DAO, seed.h | extends `RateLimiter`: sessions, permissions and the RBAC cache |
| `AdminServerProofs` | | proofs of `RateLimiter` and of `AdminServer` |
| `ClientSession` | tcp_client.cpp, client_context.cpp, request_manager.cpp, reconnect_manager.cpp, auth_service.cpp, nova_client.cpp | one client |
| `ClientSessionProofs` | | proofs |
| `MC…` | | small sets and symmetry for TLC |

Variables keep the source's names (`head_` is `head`, `online_count_` is `online`,
`user_id_` is `user_id`, `dedup_order_` is `dedup_order`).  A handler is a sequence of
actions; a program counter (`pc`, `at[w]`, `todo[t]`) says where each thread is.  The
grain is one action per atomic access (`MPMCQueue`), per critical section, store to a
shared field, or database statement (`ConnSession`, `MsgService`), and per lock, atomic
exchange or callback (`ClientSession`).  Definitions under a comment `Mutant:` are
faulty variants used to show that each property can fail; no specification uses them.

**MPMCQueue.**  `Push` is `PushCall`, `PushLoad` (load of the cell's sequence number and
the three-way comparison), `PushClaim` (the CAS succeeds), `PushRetry` (the CAS fails,
also spuriously, or the position is stale), `PushWrite`, `PushPublish`; `Pop` likewise.
Positions are unbounded naturals (a `size_t` does not wrap in the life of a server),
and memory is sequentially consistent: the acquire and release pairs on `seq` order the
plain accesses, which is what `CellExclusive` is about.

**ThreadPool.**  `Submit` is a test of `stop_`, the steps of `Push`, and on success a
release of the semaphore.  `WorkerLoop` acquires, tests `stop_`, pops, runs, and after
`stop_` drains.  `Stop` sets `stop_`, releases once per worker, joins.

**ConnSession.**  `OnOpen`, `OnClose` and `OnMessage` are the gateway callbacks;
`Dispatch` is the router with its authentication guard; `LoginSession` … `LoginDone` and
`LogoutRead` … `LogoutClose` are the handlers; `Add` and `Remove` are `ConnManager`'s
critical sections with same-device replacement, eviction of the oldest and the online
counter; `BlockUser`, `HandleUnbanUser`, `HandleKickUser` are the admin requests;
`KickSnapshot` and `KickOne` the subscriber.  Rate limit, password and body checks are one
nondeterministic rejection.

**MsgService.**  `SendCached`, `SendBusy`, `SendMark`, `SendRefused`, `SendGenerateSeq`,
`SendInsert`, `SendInsertFailed`, `SendCache`, `SendUnhide`, `SendPush` are
`HandleSendMsg` in order; recalls, receipts and hiding follow the same scheme.  A
statement fails with `Fault`, a handler outlives `kInflightTimeout` with
`InflightExpires`, the process is restarted with `Restart`, which keeps the database and
loses the cache, the marks and the handlers.

**FriendService.**  One action per handler.  Only `SqliteDaoFactory` implements
`BeginTransaction`; the default returns false, so with MySQL accepting and deleting always
answer `kDatabaseError` and there is nothing to interleave, and with SQLite the session
mutex excludes other handlers.  `HandleRequest` is three actions: accept, reject, and an
accept whose transaction is rolled back because a statement fails; a friendship row that
exists makes the insert fail (`Insertable`).  A friendship row is never deleted, only its
status changes.  `HandleLeaveGroup` is included because it takes any conversation.
`parted` is a history variable: the conversations a deletion has closed.

**SyncService.**  `HandleSyncMsg` is one action, since only `GetAfterSeq` reads what others
write: it returns the lowest stored numbers above the client's cursor, as many as
`PageLimit` allows, and the client moves its cursor to the last one.  `HandleSyncUnread`
changes nothing and is the operator `Unread`.  The rest of `SyncNext` is `MsgService`'s
`Next`.  Two history variables record what users have read: a receipt that moves
`last_read` covers the messages stored by then (`read`), and `early` marks a receipt that met a
conversation without messages.

**GroupService.**  One action per handler (creating, dissolving and accepting open
transactions, so the same argument as for `FriendService` applies); the roles are the
sets `owners` and `admins` of pairs of a conversation and a user.  The steps of
`FriendService` run beside them; the rows of members they remove take their roles along.
`dissolved` is a history variable.

**RateLimiter.**  `Allow` and `RecordFailure` are critical sections of their own;
`checking[t]` is the key a caller was allowed and has not reported on.  `MaybePurge` is
part of `RecordFailure`.  `failures` records the times of the failures of the last `Window` ticks.

**AdminServer.**  The HTTP server has one thread, so a request with its `AuthMiddleware` is
one action, and a login, during which the password is hashed, takes two with the clock
and the purger in between.  The middleware's reading and filling of the RBAC cache
(`Known`, `Filled`, `Evicted`) is part of every handler.  A token is its admin and the
second it was signed in: two logins in one second sign the same token.  `HandleLogout`
answers OK whether the row could be revoked or not, so it is two disjuncts.  `tidy` says that
requests have named existing roles so far; `out` are the tokens that a logout revoked, and
`renewed` those of them that were signed again in their second when the purger had deleted
their row.

**ClientSession.**  A thread's call is a sequence of steps in `todo[t]`.  `Exchange` and
`Notify` are the two halves of `SetState`: the atomic exchange and the callback;
`Register` and `Send` the two halves of `SendRequest`; `CheckTimeouts` and `Timeout` the
two halves of the time-out check.  `Lock` and `Join` are `Disconnect`, which stops
libhv's client while it holds `send_mutex`.

## 3. Runs

| Run | Question | Result |
|---|---|---|
| `queue` | Two producers, two consumers, two cells, four items | holds: `CellExclusive`, `WindowBounded`, `PopTakesItsPosition`, `FailureIsHonest`, refinement `ImplementsFIFO` |
| `pool` | Two submitting threads, two workers, three tasks, two cells, `Stop` at any time | holds: `RunsAtMostOnce`, `TokensMatchTasks`, `StopDrains`, `StopWakesEveryWorker` |
| `pool_wakeup` | "no lost-wakeup risk" (thread_pool.h:17) | violated |
| `sessions` | SQLite; one user, three connections, two workers, limit two, three packets, one admin request | holds: `OnlineCountExact`, `ConnsBounded`, `OneSessionPerType`, `LoggedInIsRegistered`, `BlockedIsOffline` |
| `sessions_ghost` | "DISCONNECTED → ConnManager.Remove" (software_design.md:254) | violated |
| `messages` | Both databases; two workers, a cache of one entry for two keys, four requests, a fault, a stall, a restart, and clients that page through the conversation meanwhile | holds: `StoredOnce`, `SeqUnique`, `NoInflightLeak`, `AckedIsStored`, `CacheConsistent`, `NewMessageUnhides`, `PushedInOrder`, `ReceiptsNeverGoBack`, `NothingSkipped`, `UnreadExact` |
| `groups` | Four users, a group of at most three, a join request, two friend requests, accounts banned and deleted | holds: `AcceptedAreFriends`, `OnePending`, `PartedCannotTalk`, `BlockSurvivesAccept`, `GroupIsSound`, `DissolvedIsEmpty`, `ApplicantsAreOutside` |
| `admin` | Two admins, two roles, two logins, a cache that expires, failing logins, the purger | holds: `CacheIsCurrent`, `DisabledIsOut`, `LoggedOutStaysOut`, `FailuresBounded` |
| `admin_role` | "find the id of the role just created" (admin_server.cpp:1425) | violated |
| `client` | Two application threads, a login, a sync request, two sockets, a kick and a close, fair | holds: `OneOutcome`, `KickIsFinal`, `LoggedInIsConnected`, `StatesAgree`, `RequestsSettle` |
| `client_redial` | automatic reconnection (sequence_diagrams.md:247) | violated |
| `client_close` | `Disconnect` returns (sequence_diagrams.md:690) | violated |

What the violated ones show:

* `pool_wakeup`: `WorkerLoop` ignores that `Pop` returned false.  `Pop` also does so while
  an earlier `Push` has claimed the oldest cell and not published it, although a later
  `Push` is complete and has released its token.  The token is used up, and the task
  waits until the next `Submit` although all workers sleep.
* `sessions_ghost`: the close callback removes a connection only if it is authenticated.
  A login in progress authenticates and registers it afterwards, and no later event
  removes it: the user counts as online and cannot log in from the same device again.
* `client_redial`: after a loss the context enters `kReconnecting` and passes that state
  to `ReconnectManager::OnStateChanged`, which schedules only for `kDisconnected`.  With
  one application thread the reconnect timer is never armed.
* `client_close`: the network thread, in the state callback of a `LoginAck`, waits for
  `send_mutex`, which `Disconnect` holds while it joins the network thread.
* `admin_role`: `HandleCreateRole` looks up the role it has just inserted by its name and
  takes the first one.  Only `roles.code` is unique, and the seeded role's name differs
  from its code: creating a role under that name succeeds, answers with id 1 and replaces
  the permissions of the seeded role, without invalidating the RBAC cache.

### Bounds

Two threads of each kind are enough for every race of two; where three matter (two
producers and a consumer, two handlers and a crash) the other kinds supply them.

* Queue: four items in two cells wrap the ring and fill it.  Pool: three tasks in two
  cells make `Submit` fail.
* Sessions: three connections with a limit of two reach eviction; the request set has the
  same device again, the same type on another device, and no device.
* Messages: four requests allow a send, its retry, and two requests in between; the cache
  of one entry with two keys reaches eviction.  A number drawn before and stored after
  another one, pages of one and of two messages, and a receipt ahead of the conversation
  are all in reach, and so is one that meets a conversation without messages.  1.9 million
  states.
* Groups: conversations are numbered in the order of their creation, so a private
  conversation and a group may come in either order; `MaxMembers = 3` with four users
  reaches the limit, a group of two is refused.  260 thousand states.
* Admin: times to live of one tick and a clock of two ticks let tokens, cache entries and
  windows expire; role lists name a role before it exists and after it is deleted.
  A logout, a purge and a second login within one tick are in reach.  1.9 million states.
* Client: two sockets reach reconnecting by hand and late answers of the first socket.
  430 thousand states.

The bounds `MaxPackets`, `MaxAdminOps`, `MaxRequests`, `MaxFaults`, `MaxStalls`,
`MaxCrashes`, `MaxGroups`, `MaxJoins`, `MaxTime`, `MaxLogins`, `MaxConnects` and `MaxCloses`
only limit inputs and faults; the proofs hold for any value of them.  Deadlock is not
checked where the bounded inputs run out (every run but `queue`).

### Fairness

Only `ClientSession` states fairness (`FairSpec`): every thread that can go on does, both
timers fire (libhv runs them periodically), every expired request is taken by some
`CheckTimeouts`, and a socket that is dialled or stopped gets there (the connect time-out
bounds it).  The application, the server and the network owe nothing: no answer has to
arrive, no connection has to stay up.

## 4. Proofs

All proofs are for every value of the constants, under the `ASSUME`s of the modules:
`Capacity >= 2`, disjoint thread sets, finite sets of users, connections, callers and pool
threads, a limit of at least one connection, positive windows, cache sizes and page limits,
the client's three own threads distinct from each other and from the application's, and null
values that are not members of the sets they extend.  Every safety property of a passing run
is proved, as a theorem named below.  Every type invariant is proved, none is in a run.

**MPMCQueueProofs.**  `TypeCorrect`, `DataRaceFree`, `Bounded`, `TakesInOrder`.  The
inductive invariant describes the window `tail .. tail + Capacity - 1`: each position is
*full* (sequence number `n + 1`, data equal to the item its `Push` claimed it for), *free*
(`n`, possibly claimed by a writing producer), or *emptying* (still owned by the `Pop` of
the previous round); with what each producer and consumer knows at its program counter,
and that two owners never hold the same position.  None of the four properties is
inductive without it: exclusiveness of cells follows from distinct positions inside one
window, and that needs arithmetic on `pos % Capacity` (`SlotInjective`, `SlotShift`).  Two results
rest on it:

* `FailsHonestly`: only a load of a cell's sequence number fails, and what the invariant says
  of the cell at `head` or `tail` tells why it was too old.
* `Implements`, step by step: the successful CAS of `head_` is `Enq`, that of `tail_` is
  `Deq`, a consumer's next call is `Drop`, every other step is a stutter; that `Enq` has
  room and `Deq` finds an item is `WindowBounded` after the step.

**ThreadPoolProofs.**  `AtMostOnce`, `StopWakes`, `TokensAreTasks`, `Drains`,
`TasksLeaveInOrder`.  The queue's invariant is taken over with `INSTANCE`: the lemmas
`PushStepEffect` and `PopStepEffect` reduce each queue step to what the pool depends on, and
the pool's invariants are about tasks:

* `TaskInv`: a task is new, in one `Submit`, in the log of claimed positions once, or
  rejected.  `HoldInv`: the task of a popped position was executed once, or one worker holds
  that position.  Together they give `RunsAtMostOnce`.
* `TicketInv`: the semaphore's count, the workers that still have a token to use, and the
  threads that have claimed a position and not released the semaphore are at most
  `head - tail`.  `TokensMatchTasks` alone is not inductive: it does not see the third group.
* `DrainInv`: a worker that found the queue empty after `stop_` left nothing behind, if no
  `Submit` overlapped `Stop`, for then no cell is claimed and unpublished.  `Drains` assumes
  `Workers # {}`: with `worker_threads: 0`, which the code accepts, `Stop` returns at once
  and leaves the queue as it is.
* `TasksLeaveInOrder`: the queue inside the pool still implements `BoundedFIFO`, although
  a worker also leaves it without calling `Pop` again (a `Drop`).

**ConnSessionProofs.**  `TypeCorrect`, `OnlineExact`, `Bounded`.  The invariant `IndInv` has four
parts: the map with its counter, the connection counter against the sockets that are
open or closing, the job of a busy worker, and the types.  The lemmas say what
`Remove`, `Add` and the selection of a sub-vector do to range, length and the number of
non-empty entries.  The theorems hold for both databases, so the counter is exact under
any interleaving, not only under SQLite's mutex.  On top of it:

* `RegisteredAlways`, also for both databases: a connection that is open, logged in and not
  in its user's vector is one that some handler is about to log out, to register or to
  close (`Registered`, `Excused`); everything a handler takes out of a vector it closes.
* `BlockedStaysOffline`, for SQLite: one login is under way at a time and no admin request
  beside it (`SessionHeld`), so the status it checked holds until it ends (`StatusHolds`),
  and what a blocked user still has is what the bus thread is about to remove
  (`BlockedLeave`).
* `OneSession`, for SQLite: what is left of the device type while a login kicks is on its
  list (`Replacing`), and every step but three only takes connections and labels away
  (`Mild`).  `OneSessionPerType` leaves out a connection between its stores of `user_id_`
  and of the device: it may carry the label of an earlier login until the second store.

**MsgServiceProofs.**  Each theorem adds what it needs to the common invariant `IndInv`:

* `SequenceNumbersUnique`: `DrawnIsFree`, a number that a handler has drawn and not stored
  is at most `max_seq`, unused, and drawn by nobody else.
* `CacheCorrect`, `MarksAreErased`, `TypeCorrect`: lemmas about moving a key to the end of a
  sequence without duplicates and dropping its head.
* `ReceiptsMonotone`; `AcksAreTrue`, which assumes that no two requests share a
  `client_msg_id`: the cache is keyed by that id alone.
* `SentAgainStoredOnce` (`OnceInv`): a marked key has one worker; what is cached is stored;
  and, as long as the stored keys fit in the cache, a stored key is cached or about to be,
  so nobody is about to store it again.  That nothing is evicted is a counting argument
  (`NoEviction`): the list is an injection into the stored keys but one.
* `BroadcastsOrdered` (`PushInv`, `RecallInv`): with SQLite a handler in progress is alone
  (`SessionHeld`), so the number it drew is above all that were pushed, and a message it
  found not recalled still is not.
* `NewMessagesShow` (`HideInv`): holds for both databases, because hiding records a
  `max_seq` that no later message is below.

**SyncServiceProofs.**  `SyncOnlyReads` shows that `SyncSpec` implements `MsgService`'s
`Spec`, so the theorems above hold beside clients that sync.  `PagesSkipNothing` rests on
`DrawnIsLater`: with SQLite a number that is drawn and not stored is above every cursor,
so what is stored later is on a later page; and on a lemma that the lowest `limit`
elements of a finite set, if they are fewer than `limit`, are all of it.  `UnreadIsExact`
rests on `NumbersAccounted`, without failures every number up to `max_seq` is stored or
about to be, and on `ReadUpToReceipt`, what a user has read is what is stored up to his
receipt.  The latter holds because the limit of a receipt is still good when it is stored
(`LimitHeld`) and no receipt reaches a number that is drawn and not stored (`DrawnIsUnread`).

**GroupServiceProofs.**  First `FriendService` alone: `TypeCorrect`, `AcceptIsAtomic`, `PendingUnique`,
`PartedStaysClosed`, `BlocksHold`.  The invariant joins the four properties with two facts:
nobody requests himself, and a friend's row has a conversation.  They need each other:
that a deletion empties the conversation rests on nobody but the two being a member,
which rests on the new conversation's id being used by no other row; that an acceptance
leaves no second pending request rests on there having been one.  `AcceptIsAtomic` says
that an accepted request, both rows and the conversation come together; it leaves open
whether a pair may accept again after a deletion.  `OtherStep` says what
every step but an acceptance leaves alone, so each invariant has two cases.

Then the two services together: `GroupTypes`, `GroupsAreSound`, `DissolvedStaysEmpty`,
`AcceptNeverCollides`, and the four theorems of `FriendService` again for the composed
system (`FriendsBesideGroups` and its siblings).  Both services write the members of
conversations they did not create, so neither invariant is inductive alone; `Separate`
(no friendship row names a conversation that is or was a group's) is what keeps them
apart, and `OneApplication` what makes accepting an applicant safe.

**AdminServerProofs.**  First the limiter alone, for any number of callers:

* `CountIsBounded`: `RoomForWaiting` says that an entry's count and the callers that were
  allowed and have not reported are together at most `WindowLimit`, which is `MaxAttempts`
  and one for each other caller.
* `FailuresAreBounded`: `FailInv` says that the recorded failures of a key are those its
  entry counts and, before its window's start, fewer than `WindowLimit` of the window before;
  so two windows bound any interval.

Then the admin server: `AdminTypes`, `CacheCurrent`, `DisabledLockedOut`, `LogoutIsFinal`.
`LogoutIsFinal` covers the tokens that a logout did revoke, but for those in `renewed`: a
login in the same second adds the second row of its token, and `IsRevoked` looks at the first
(`LoginKeepsOthersOut`), unless there is no row left.
A live cache entry's status is the account's (`CacheStatus`) with no assumption; that
its permissions are current needs that every assigned role exists (`AssignedExist`), since
creating a role invalidates nothing, and so holds while `tidy` does.  `LoginsKeepProtocol`
shows that `AdminSpec` implements `LimiterSpec`, so the limiter's theorems hold beside every
other request (`AdminFailures`).

**ClientSessionProofs.**  `CallsAreWellFormed`, `RequestsHaveOneOutcome`,
`ReconnectingEndsWithKick`, `LoginNeedsConnection`, `LayersAgree`.

* `TodoInv`: what is left of a thread's call is a sequence of steps that this thread takes
  and in which each one follows the one before it in the code (`Takes`, `Follows`).  Every
  other invariant needs it, since a step's successor is read off `todo[t]`.
* `OutcomeInv`: an issued request is in `pending_`, with the network thread that answers it,
  in the time-out check's set, called back, or swept, and at one of these places only.
* `KickInv`: a kick leaves the reconnect manager stopped, and nothing starts it again.
* `SoloInv`, for `LoggedInIsConnected` and `StatesAgree`: as long as the application's calls do
  not overlap, one of them is under way at most, no reconnecting is (`Settled`; this is
  `client_redial` from the other side), and network thread, socket, `TcpClient` and
  `ClientContext` agree up to the report that is under way (`NetworkInv`, `CallInv`,
  `ReportInv`).

Only model-checked: liveness (`RequestsSettle`, and the two violated ones), which is out of the
prover's reach, and the runs that end in a violation.

## 5. Not modelled

Third-party code under `src/thirdparty` (TLS, JSON Web Tokens, the network library, the
database drivers) is most of the repository's lines and none of its logic; it appears
only as what the services' calls to it do.  Of the program itself:

* Encoding and packet framing: no state.  Passwords, configuration and logging likewise.
* `Snowflake`: one critical section around a clock and a counter; when the clock goes back
  it waits in a loop.  Nothing interleaves.
* The MySQL connection pool: below the abstraction of a session, which is either
  exclusive or not.
* Files: upload and download are file I/O, with one metadata row that no other operation
  reads.
* Registration, search and profile, the lists of conversations, friends and groups, mute
  and pin, `HandleUpdateGroup`: single statements, or reads, of columns that no other
  operation depends on.
* Admin: creating users, resetting passwords and recalling a message.  `HandleRecallMessage`
  of admin_server.cpp sets the status without checking whether it is set already.
* The client's local database, view models and front ends: they forward results.
  Heartbeats, the length of time-outs and the growth of the back-off delay.
* Weak memory behaviour beyond the acquire and release pairs of the queue, and the
  destruction of an `hv::TcpClient` that another thread is using.

Behaviour that the models have and no property forbids, some of it against what the
repository says of itself, worth knowing:

* `client_msg_id` de-duplication is in memory only: a retry after a restart, after the
  eviction of its key or after `kInflightTimeout` is stored again (`StoredOnce` names
  these conditions), and the same id in a second conversation is answered from the
  cache (`AcksAreTrue` assumes distinct ids).
* A read receipt for a conversation without messages is stored without the limit that the
  comment at msg_service.cpp:421 states (line 424 skips it while `max_seq` is 0): its first
  messages count as read although nobody has read them.  `UnreadExact` leaves such receipts
  out (`early`) and shows that every other one leaves the count exact.
* With MySQL, a ban between a login's status check and its registration leaves the user
  online (`BlockedIsOffline` is checked and proved for SQLite), pushes may leave out of order, a
  message may be recalled twice, and a client that syncs between the storing of two
  numbers in the wrong order skips one (`NothingSkipped` is stated for SQLite).
* `HandleSyncMsg` accepts a negative `last_seq`, which docs/im_server/api.md:138 says it rejects; the
  answer is the first page.
* After a deletion or an unblocking two users never become friends again: the old rows
  make the insert of an accepted request fail on UNIQUE(user_id, friend_id), and the
  request stays pending.  The documents say otherwise: software_design.md:489-490 has
  `UpsertFriendship`, its state machine goes from deleted to requested again (lines 513 and
  516), and protocol.md:429 lets an unblocked user request anew.  `AcceptedAreFriends` holds
  of the code as it is and would hold with the rows replaced.
* Deleting a friend overwrites the block the other user may have set
  (friend_service.cpp:371), and unblocking leaves the other user's row and both
  memberships of the private conversation as they were.
* The limiter's window is called sliding and starts at a first failure: an interval of its
  length may see nearly twice as many failures (`FailuresBounded`).
* Roles may be assigned, and permissions set, under ids that do not exist yet; the role
  created later under such an id has them at once, and the cache does not know.
* An admin who logs out and in again within one second gets the same token, whose first
  row is revoked, and is refused until the next second.  If the purger deleted that row in
  between (MySQL without strict mode), the token is accepted again: against
  admin_server/api_design.md:128, by which a token that was logged out cannot be used again.
  So is the token of a logout whose revocation failed, which `HandleLogout` answers with OK
  (admin_server.cpp:544).  `LoggedOutStaysOut` names both exceptions.
* `PurgeExpired` compares the text `expires_at` with a number: with SQLite it deletes
  nothing, so the table grows; with MySQL it fails or, without strict mode, deletes every
  session, which logs every admin out.
* `CancelAll` drops requests without a callback, and a time-out taken out of the table
  before a disconnect calls back after it.

## 6. What is left

* That a worker executes what the FIFO handed it is in `HoldInv`; a theorem that the pool
  implements an abstract executor (a set of accepted tasks, each executed once) would say it
  in one formula.
* An abstract specification of who is online that `ConnSession` implements, and one of a
  conversation's log for `MsgService` with SQLite.
* A model of the client's upload life cycle and of registration under its unique index,
  if they grow more than one statement.
