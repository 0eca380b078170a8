---------------------------- MODULE ConnSession ----------------------------
(***************************************************************************)
(* Who is logged in on which connection: the gateways' open and close      *)
(* callbacks (IO threads), ConnManager, UserService's HandleLogin and      *)
(* HandleLogout (pool workers), the admin server's ban, unban, delete and  *)
(* kick (HTTP thread) and the AdminKickUser subscriber (bus thread).       *)
(*                                                                         *)
(* One action per critical section of ConnManager, per store to a          *)
(* Connection and per Close().  HandleLogin runs under dao().Session():    *)
(* with SQLite that is one mutex for all handlers (Exclusive = TRUE), with *)
(* MySQL a pooled connection that excludes nobody.  HandleLogout, the      *)
(* close callback and the bus subscriber take no session.                  *)
(***************************************************************************)
EXTENDS Naturals, Sequences, FiniteSets, Functions

CONSTANTS
    Users,       \* internal user ids
    Conns,       \* connections, each opened at most once
    Workers,     \* threads of the pool
    Requests,    \* the LoginReq bodies clients send: records [user, device_id, device_type]
    NoUser,      \* user_id_ = 0
    NoConn,      \* the connection of an idle worker
    Empty,       \* the empty string, as a device_id or device_type
    NoWorker,    \* nobody holds the session
    MaxConns,    \* kMaxConnsPerUser
    Exclusive,   \* TRUE: SQLite, FALSE: MySQL
    MaxPackets,  \* bound: packets sent by all clients
    MaxAdminOps  \* bound: admin requests

ASSUME UsersAssumption == IsFiniteSet(Users) /\ NoUser \notin Users
ASSUME WorkersAssumption == NoWorker \notin Workers
ASSUME ConnsAssumption == IsFiniteSet(Conns)
ASSUME MaxConnsAssumption == MaxConns \in Nat \ {0}
ASSUME RequestsAssumption == \A r \in Requests : r.user \in Users

VARIABLES
    sock,        \* sock[c]: "new", "open", "closing" (Close() called) or "closed" (callback ran)
    connections, \* ServerContext's connection counter
    user_id,     \* user_id[c]: Connection::user_id_
    device,      \* device[c]: [id, type], the device_id_ and device_type_ of the connection
    conns,       \* conns[u]: ConnManager's vector of user u, << >> if the map has no entry
    online,      \* online_count_
    status,      \* status[u]: users.status
    tasks,       \* packets submitted to the pool and not picked up yet
    sent,        \* number of packets sent
    session,     \* the worker that holds the SQLite mutex
    at,          \* at[w]: where worker w is
    job,         \* job[w]: [conn, req] of the packet worker w is handling
    seen,        \* seen[w]: the user_id HandleLogout read
    todo,        \* todo[w]: connections worker w still has to kick or to close
    bus,         \* users in published AdminKickUser events, oldest first
    kicking,     \* [user, conns]: what the subscriber is working on
    adminOps     \* number of admin requests so far

connVars == <<sock, connections, user_id, device>>
mgrVars == <<conns, online>>
workerVars == <<tasks, sent, session, at, job, seen, todo>>
adminVars == <<status, bus, kicking, adminOps>>
vars == <<connVars, mgrVars, workerVars, adminVars>>

NoDevice == [id |-> Empty, type |-> Empty]
NoRequest == [user |-> NoUser, device_id |-> Empty, device_type |-> Empty]
LogoutReq == NoRequest   \* a packet is a LoginReq or, with this body, a Logout
Packets == [conn : Conns, req : Requests \cup {LogoutReq}]
NoJob == [conn |-> NoConn, req |-> NoRequest]
NotKicking == [user |-> NoUser, conns |-> << >>]
LoginStages == {"login", "relogin", "clear", "check", "device", "kick", "label", "add", "evict"}
LogoutStages == {"logout", "leave", "forget", "goodbye"}

\* The elements of vec that are in S, or not in S, in their order: SelectSeq, in a form
\* that the proofs can reason about.
Within(vec, S) ==
    LET here == {i \in DOMAIN vec : vec[i] \in S}
        rank == [i \in here |-> Cardinality({k \in here : k <= i})]
    IN  [j \in 1 .. Cardinality(here) |-> vec[CHOOSE i \in here : rank[i] = j]]
Without(vec, S) == Within(vec, Range(vec) \ S)

Init ==
    /\ sock = [c \in Conns |-> "new"]
    /\ connections = 0
    /\ user_id = [c \in Conns |-> NoUser]
    /\ device = [c \in Conns |-> NoDevice]
    /\ conns = [u \in Users |-> << >>]
    /\ online = 0
    /\ status = [u \in Users |-> "normal"]
    /\ tasks = << >>
    /\ sent = 0
    /\ session = NoWorker
    /\ at = [w \in Workers |-> "idle"]
    /\ job = [w \in Workers |-> NoJob]
    /\ seen = [w \in Workers |-> NoUser]
    /\ todo = [w \in Workers |-> << >>]
    /\ bus = << >>
    /\ kicking = NotKicking
    /\ adminOps = 0

-----------------------------------------------------------------------------
\* ConnManager (each under the lock of the user's shard)

\* The map entry goes when the vector is empty, and the user is offline then.
Remove(u, c) ==
    IF u = NoUser \/ conns[u] = << >> THEN UNCHANGED mgrVars
    ELSE LET vec == Without(conns[u], {c})
         IN  /\ conns' = [conns EXCEPT ![u] = vec]
             /\ online' = IF vec = << >> THEN online - 1 ELSE online

\* Connections of the same non-empty device go, then the oldest above the limit.
SameDevice(u, c) ==
    {d \in Range(conns[u]) : device[c].id # Empty /\ device[d].id = device[c].id}
\* Mutant: lets one connection too many stay.
EvictedOffByOne(u, c) ==
    LET vec == Without(conns[u], SameDevice(u, c))
        n   == IF Len(vec) > MaxConns THEN Len(vec) - MaxConns ELSE 0
    IN  SubSeq(vec, 1, n)

Evicted(u, c) ==
    LET vec == Without(conns[u], SameDevice(u, c))
        n   == IF Len(vec) >= MaxConns THEN Len(vec) - MaxConns + 1 ELSE 0
    IN  SubSeq(vec, 1, n)
Kept(u, c) ==
    LET vec == Without(conns[u], SameDevice(u, c))
    IN  SubSeq(vec, Len(Evicted(u, c)) + 1, Len(vec))
ToClose(u, c) ==
    Within(conns[u], SameDevice(u, c)) \o Evicted(u, c)

\* Mutant: decides whether the user was offline after the old connections are gone.
AddCountsAfter(u, c) ==
    /\ conns' = [conns EXCEPT ![u] = Append(Kept(u, c), c)]
    /\ online' = IF Kept(u, c) = << >> THEN online + 1 ELSE online

\* Whether the user was offline is decided before anything is removed.
Add(u, c) ==
    /\ conns' = [conns EXCEPT ![u] = Append(Kept(u, c), c)]
    /\ online' = IF conns[u] = << >> THEN online + 1 ELSE online

\* Connection::Close(): the close callback follows, on the IO thread.
Close(S) == sock' = [c \in Conns |-> IF c \in S /\ sock[c] = "open" THEN "closing" ELSE sock[c]]

-----------------------------------------------------------------------------
\* Gateway and WsGateway

OnOpen(c) ==
    /\ sock[c] = "new"
    /\ sock' = [sock EXCEPT ![c] = "open"]
    /\ connections' = connections + 1
    /\ UNCHANGED <<user_id, device, mgrVars, workerVars, adminVars>>

\* The peer is gone, was silent for too long, or Close() was called.  The two reads of
\* user_id_ and the Remove are one step: a store to user_id_ between them comes from a
\* handler of the same connection that does its own Remove or Add of that user.
OnClose(c) ==
    /\ sock[c] \in {"open", "closing"}
    /\ sock' = [sock EXCEPT ![c] = "closed"]
    /\ connections' = connections - 1
    /\ Remove(user_id[c], c)
    /\ UNCHANGED <<user_id, device, workerVars, adminVars>>

\* OnMessage: a packet that arrives is submitted to the pool.
OnMessage(c, r) ==
    /\ sock[c] = "open"
    /\ sent < MaxPackets
    /\ sent' = sent + 1
    /\ tasks' = Append(tasks, [conn |-> c, req |-> r])
    /\ UNCHANGED <<connVars, mgrVars, session, at, job, seen, todo, adminVars>>

-----------------------------------------------------------------------------
\* Router::Dispatch on a worker

Step(w, here, there) == at[w] = here /\ at' = [at EXCEPT ![w] = there]

\* A Logout of a connection that is not logged in is answered with an error.
Dispatch(w) ==
    /\ tasks # << >>
    /\ LET p == Head(tasks)
       IN  /\ job' = [job EXCEPT ![w] = p]
           /\ Step(w, "idle", IF p.req # LogoutReq THEN "login"
                              ELSE IF user_id[p.conn] = NoUser THEN "idle" ELSE "logout")
    /\ tasks' = Tail(tasks)
    /\ UNCHANGED <<connVars, mgrVars, sent, session, seen, todo, adminVars>>

-----------------------------------------------------------------------------
\* UserService::HandleLogin

Finish(w, here) ==
    /\ Step(w, here, "idle")
    /\ job' = [job EXCEPT ![w] = NoJob]
    /\ session' = IF session = w THEN NoWorker ELSE session

LoginSession(w) ==
    /\ Step(w, "login", "relogin")
    /\ Exclusive => session = NoWorker
    /\ session' = IF Exclusive THEN w ELSE session
    /\ UNCHANGED <<connVars, mgrVars, tasks, sent, job, seen, todo, adminVars>>

\* A connection that is logged in is taken out of its old session first.
LoginRelogin(w) ==
    LET c == job[w].conn
    IN  /\ Step(w, "relogin", IF user_id[c] = NoUser THEN "check" ELSE "clear")
        /\ Remove(user_id[c], c)
        /\ UNCHANGED <<connVars, tasks, sent, session, job, seen, todo, adminVars>>

LoginClear(w) ==
    LET c == job[w].conn
    IN  /\ Step(w, "clear", "check")
        /\ user_id' = [user_id EXCEPT ![c] = NoUser]
        /\ device' = [device EXCEPT ![c] = NoDevice]
        /\ UNCHANGED <<sock, connections, mgrVars, tasks, sent, session, job, seen, todo, adminVars>>

\* Bad body, rate limit, unknown or blocked user, wrong password: answer and close.
LoginRejected(w) ==
    /\ Finish(w, "check")
    /\ Close({job[w].conn})
    /\ UNCHANGED <<connections, user_id, device, mgrVars, tasks, sent, seen, todo, adminVars>>

\* Mutant: does not look at users.status.
LoginVerifiedAnyStatus(w) ==
    /\ Step(w, "check", "device")
    /\ UNCHANGED <<connVars, mgrVars, tasks, sent, session, job, seen, todo, adminVars>>

LoginVerified(w) ==
    /\ Step(w, "check", "device")
    /\ status[job[w].req.user] = "normal"
    /\ UNCHANGED <<connVars, mgrVars, tasks, sent, session, job, seen, todo, adminVars>>

\* The account is already logged in on this device: answer and close.
LoginDuplicate(w) ==
    LET r == job[w].req
    IN  /\ r.device_id # Empty
        /\ \E d \in Range(conns[r.user]) : device[d].id = r.device_id
        /\ Finish(w, "device")
        /\ Close({job[w].conn})
        /\ UNCHANGED <<connections, user_id, device, mgrVars, tasks, sent, seen, todo, adminVars>>

\* Mutant: does not look for old connections of the same device type.
LoginSnapshotNone(w) ==
    LET r == job[w].req
    IN  /\ Step(w, "device", "kick")
        /\ ~ (r.device_id # Empty /\ \E d \in Range(conns[r.user]) : device[d].id = r.device_id)
        /\ UNCHANGED <<connVars, mgrVars, tasks, sent, session, job, seen, todo, adminVars>>

\* Otherwise take a snapshot of the user's connections of the same device type.
LoginSnapshot(w) ==
    LET r == job[w].req
    IN  /\ Step(w, "device", "kick")
        /\ ~ (r.device_id # Empty /\ \E d \in Range(conns[r.user]) : device[d].id = r.device_id)
        /\ todo' = [todo EXCEPT ![w] =
              Within(conns[r.user],
                     {d \in Conns : r.device_type # Empty /\ device[d].type = r.device_type})]
        /\ UNCHANGED <<connVars, mgrVars, tasks, sent, session, job, seen, adminVars>>

\* KickNotify, Remove and Close of one old connection.
LoginKick(w) ==
    /\ at[w] = "kick"
    /\ todo[w] # << >>
    /\ Remove(job[w].req.user, Head(todo[w]))
    /\ Close({Head(todo[w])})
    /\ todo' = [todo EXCEPT ![w] = Tail(@)]
    /\ UNCHANGED <<connections, user_id, device, tasks, sent, session, at, job, seen, adminVars>>

LoginSetUser(w) ==
    /\ Step(w, "kick", "label")
    /\ todo[w] = << >>
    /\ user_id' = [user_id EXCEPT ![job[w].conn] = job[w].req.user]
    /\ UNCHANGED <<sock, connections, device, mgrVars, tasks, sent, session, job, seen, todo, adminVars>>

LoginSetDevice(w) ==
    /\ Step(w, "label", "add")
    /\ device' = [device EXCEPT ![job[w].conn] =
                     [id |-> job[w].req.device_id, type |-> job[w].req.device_type]]
    /\ UNCHANGED <<sock, connections, user_id, mgrVars, tasks, sent, session, job, seen, todo, adminVars>>

LoginAdd(w) ==
    LET c == job[w].conn
        u == job[w].req.user
    IN  /\ Step(w, "add", "evict")
        /\ Add(u, c)
        /\ todo' = [todo EXCEPT ![w] = ToClose(u, c)]
        /\ UNCHANGED <<connVars, tasks, sent, session, job, seen, adminVars>>

\* Mutant: forgets to close the evicted connections.
LoginDoneNoClose(w) ==
    /\ Finish(w, "evict")
    /\ todo' = [todo EXCEPT ![w] = << >>]
    /\ UNCHANGED <<connVars, mgrVars, tasks, sent, seen, adminVars>>

\* The evicted connections are closed outside the lock; UpsertDevice and LoginAck follow.
LoginDone(w) ==
    /\ Finish(w, "evict")
    /\ Close(Range(todo[w]))
    /\ todo' = [todo EXCEPT ![w] = << >>]
    /\ UNCHANGED <<connections, user_id, device, mgrVars, tasks, sent, seen, adminVars>>

-----------------------------------------------------------------------------
\* UserService::HandleLogout

LogoutRead(w) ==
    LET u == user_id[job[w].conn]
    IN  /\ Step(w, "logout", IF u = NoUser THEN "goodbye" ELSE "leave")
        /\ seen' = [seen EXCEPT ![w] = u]
        /\ UNCHANGED <<connVars, mgrVars, tasks, sent, session, job, todo, adminVars>>

LogoutRemove(w) ==
    /\ Step(w, "leave", "forget")
    /\ Remove(seen[w], job[w].conn)
    /\ UNCHANGED <<connVars, tasks, sent, session, job, seen, todo, adminVars>>

LogoutClear(w) ==
    LET c == job[w].conn
    IN  /\ Step(w, "forget", "goodbye")
        /\ user_id' = [user_id EXCEPT ![c] = NoUser]
        /\ device' = [device EXCEPT ![c] = NoDevice]
        /\ UNCHANGED <<sock, connections, mgrVars, tasks, sent, session, job, seen, todo, adminVars>>

LogoutClose(w) ==
    /\ Finish(w, "goodbye")
    /\ Close({job[w].conn})
    /\ seen' = [seen EXCEPT ![w] = NoUser]
    /\ UNCHANGED <<connections, user_id, device, mgrVars, tasks, sent, todo, adminVars>>

-----------------------------------------------------------------------------
\* AdminServer: the handlers run one at a time, under a session

AdminRequest ==
    /\ adminOps < MaxAdminOps
    /\ adminOps' = adminOps + 1
    /\ Exclusive => session = NoWorker
    /\ UNCHANGED <<connVars, mgrVars, workerVars, kicking>>

\* KickAllConns publishes only if the user has connections.
KickAllConns(u) == bus' = IF conns[u] = << >> THEN bus ELSE Append(bus, u)

\* HandleBanUser and HandleDeleteUser: a deleted user is not found any more.
BlockUser(u, s) ==
    /\ AdminRequest
    /\ status[u] # "deleted"
    /\ status' = [status EXCEPT ![u] = s]
    /\ KickAllConns(u)

HandleUnbanUser(u) ==
    /\ AdminRequest
    /\ status[u] # "deleted"
    /\ status' = [status EXCEPT ![u] = "normal"]
    /\ UNCHANGED bus

HandleKickUser(u) ==
    /\ AdminRequest
    /\ status[u] # "deleted"
    /\ KickAllConns(u)
    /\ UNCHANGED status

-----------------------------------------------------------------------------
\* The AdminKickUser subscriber, on the bus thread

KickSnapshot ==
    /\ bus # << >>
    /\ kicking = NotKicking
    /\ kicking' = [user |-> Head(bus), conns |-> conns[Head(bus)]]
    /\ bus' = Tail(bus)
    /\ UNCHANGED <<connVars, mgrVars, workerVars, status, adminOps>>

KickOne ==
    /\ kicking # NotKicking
    /\ IF kicking.conns = << >>
       THEN kicking' = NotKicking /\ UNCHANGED <<sock, mgrVars>>
       ELSE /\ Remove(kicking.user, Head(kicking.conns))
            /\ Close({Head(kicking.conns)})
            /\ kicking' = [kicking EXCEPT !.conns = Tail(@)]
    /\ UNCHANGED <<connections, user_id, device, workerVars, status, bus, adminOps>>

-----------------------------------------------------------------------------
HandleLogin(w) ==
    \/ LoginSession(w) \/ LoginRelogin(w) \/ LoginClear(w)
    \/ LoginRejected(w) \/ LoginVerified(w) \/ LoginDuplicate(w)
    \/ LoginSnapshot(w) \/ LoginKick(w)
    \/ LoginSetUser(w) \/ LoginSetDevice(w) \/ LoginAdd(w) \/ LoginDone(w)

HandleLogout(w) == LogoutRead(w) \/ LogoutRemove(w) \/ LogoutClear(w) \/ LogoutClose(w)

Next ==
    \/ \E c \in Conns : OnOpen(c) \/ OnClose(c) \/ \E r \in Requests \cup {LogoutReq} : OnMessage(c, r)
    \/ \E w \in Workers : Dispatch(w) \/ HandleLogin(w) \/ HandleLogout(w)
    \/ \E u \in Users : \/ BlockUser(u, "banned") \/ BlockUser(u, "deleted")
                        \/ HandleUnbanUser(u) \/ HandleKickUser(u)
    \/ KickSnapshot
    \/ KickOne

Spec == Init /\ [][Next]_vars

-----------------------------------------------------------------------------
TypeOK ==
    /\ sock \in [Conns -> {"new", "open", "closing", "closed"}]
    /\ connections \in 0 .. Cardinality(Conns)
    /\ user_id \in [Conns -> Users \cup {NoUser}]
    /\ DOMAIN device = Conns
    /\ conns \in [Users -> Seq(Conns)]
    /\ online \in Nat
    /\ status \in [Users -> {"normal", "banned", "deleted"}]
    /\ tasks \in Seq(Packets)
    /\ session \in Workers \cup {NoWorker}
    /\ at \in [Workers -> {"idle"} \cup LoginStages \cup LogoutStages]
    /\ job \in [Workers -> [conn : Conns \cup {NoConn}, req : Requests \cup {NoRequest}]]
    /\ seen \in [Workers -> Users \cup {NoUser}]
    /\ todo \in [Workers -> Seq(Conns)]
    /\ bus \in Seq(Users)
    /\ kicking \in [user : Users \cup {NoUser}, conns : Seq(Conns)]

\* online_count_ is the number of users that have a connection, whatever mix of logins,
\* logouts, closes, evictions and kicks hits the map: the dashboard's figure never drifts.
OnlineCountExact == online = Cardinality({u \in Users : conns[u] # << >>})

\* The number of connections of a user stays within kMaxConnsPerUser.
ConnsBounded == \A u \in Users : Len(conns[u]) <= MaxConns

\* Connection c has its new user_id_ and still the device of an earlier login.
Relabelled(c) == \E w \in Workers : at[w] = "label" /\ job[w].conn = c

\* A user is logged in at most once per device type: the latest login of a type replaces
\* the older ones, whoever else logs in, logs out or closes meanwhile.
OneSessionPerType ==
    \A u \in Users : \A c, d \in Range(conns[u]) :
        /\ user_id[c] = u /\ ~ Relabelled(c)
        /\ user_id[d] = u /\ ~ Relabelled(d)
        /\ device[c].type # Empty /\ device[c].type = device[d].type
        => c = d

\* Nobody works on connection c.
Quiet(c) ==
    /\ \A w \in Workers : (at[w] # "idle" => job[w].conn # c) /\ c \notin Range(todo[w])
    /\ c \notin Range(kicking.conns)

\* An open connection that is logged in is registered, so it gets the user's pushes and
\* an admin can kick it: no eviction, kick or logout takes it out and leaves it open.
LoggedInIsRegistered ==
    \A c \in Conns : sock[c] = "open" /\ user_id[c] # NoUser /\ Quiet(c)
                        => c \in Range(conns[user_id[c]])

\* "POST /users/:id/ban: bans the user and kicks it offline": once the kick event is
\* handled, a banned or deleted user has no connection left, and none logs in again.
BlockedIsOffline ==
    \A u \in Users : status[u] # "normal" /\ u \notin Range(bus) /\ kicking.user # u
                        => conns[u] = << >>

\* "DISCONNECTED -> ConnManager.Remove(conn)": a connection whose close callback has
\* run is not registered any more once the handlers working on it have ended.
ClosedIsRemoved ==
    \A c \in Conns : sock[c] = "closed" /\ Quiet(c)
                        => \A u \in Users : c \notin Range(conns[u])
=============================================================================
