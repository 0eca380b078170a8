---------------------------- MODULE ClientSession ----------------------------
(***************************************************************************)
(* One client of nova_sdk: TcpClient, ClientContext, RequestManager,       *)
(* ReconnectManager and the part of AuthService and NovaClient that drives  *)
(* them.  Four kinds of threads run the code: application threads that call *)
(* the public interface, libhv's network thread that runs the connection    *)
(* and data callbacks, the context's timer thread that runs CheckTimeouts,  *)
(* and the reconnect timer's thread.                                        *)
(*                                                                          *)
(* A call is a sequence of steps; todo[t] holds the steps thread t still    *)
(* has to take, and between two steps any other thread may run.  A step is  *)
(* what one lock, one atomic exchange or one run-to-completion callback     *)
(* protects.  Heartbeats are left out: they are sends whose loss and        *)
(* failure nothing reads.                                                   *)
(***************************************************************************)
EXTENDS Naturals, Sequences

CONSTANTS
    App,          \* application threads
    IO,           \* libhv's network thread
    Checker,      \* the thread of ClientContext::timer_
    Reconnector,  \* the thread of ReconnectManager::timer_
    Logins,       \* seq numbers of login requests
    Others,       \* seq numbers of the application's other requests
    Syncs,        \* seq numbers of the requests Init's state callback sends
    NoThread,     \* send_mutex is free
    None,         \* a step without argument
    MaxConnects,  \* bound: sockets ever created
    MaxCloses,    \* bound: application calls of Disconnect and Shutdown
    Kicks         \* whether the server may send a KickNotify

Threads == App \cup {IO, Checker, Reconnector}
Requests == Logins \cup Others \cup Syncs

ASSUME ClientAssumption ==
    /\ {IO, Checker, Reconnector} \cap App = {}
    /\ IO # Checker /\ IO # Reconnector /\ Checker # Reconnector
    /\ Logins \cap Others = {} /\ Syncs \cap (Logins \cup Others) = {}
    /\ MaxConnects \in Nat /\ MaxCloses \in Nat

VARIABLES
    tcp,       \* TcpClient::Impl::state
    hv,        \* TcpClient::Impl::client and its socket
    sendMutex, \* the holder of TcpClient::Impl::send_mutex
    state,     \* ClientContext::state_
    uid,       \* whether ClientContext::uid_ is set
    stopped,   \* ReconnectManager::stopped_, which Stop sets with enabled_ = false
    timer,     \* whether ReconnectManager::pending_timer_ is armed
    checking,  \* whether timeout_checker_id_ is set
    pending,   \* RequestManager::pending_
    wire,      \* requests on the current socket the server may still answer
    todo,      \* todo[t]: the steps left of the call that thread t makes
    issued,    \* history: requests ever registered
    calls,     \* history: calls[r]: callbacks run for request r
    kicked,    \* history: a KickNotify was handled
    solo,      \* history: no two calls of the application have overlapped
    connects,  \* sockets created
    closes     \* Disconnect and Shutdown calls made

netVars == <<tcp, hv, sendMutex>>
ctxVars == <<state, uid, stopped, timer, checking>>
reqVars == <<pending, wire>>
history == <<issued, calls, kicked, solo, connects, closes>>
vars == <<netVars, ctxVars, reqVars, todo, history>>

Step(op, arg) == [op |-> op, arg |-> arg]

Init ==
    /\ tcp = "disconnected"
    /\ hv = "none"
    /\ sendMutex = NoThread
    /\ state = "disconnected"
    /\ uid = FALSE
    /\ stopped = FALSE
    /\ timer = FALSE
    /\ checking = TRUE
    /\ pending = {}
    /\ wire = {}
    /\ todo = [t \in Threads |-> <<>>]
    /\ issued = {}
    /\ calls = [r \in Requests |-> 0]
    /\ kicked = FALSE
    /\ solo = TRUE
    /\ connects = 0
    /\ closes = 0

\* Thread t makes a call.
Call(t, steps) == todo[t] = <<>> /\ todo' = [todo EXCEPT ![t] = steps]

\* Thread t is about to take step op.
At(t, op) == todo[t] # <<>> /\ Head(todo[t]).op = op
Arg(t) == Head(todo[t]).arg

\* Thread t has taken its step and goes on with these before the rest of its call.
Goes(t, steps) == todo' = [todo EXCEPT ![t] = steps \o Tail(@)]

-----------------------------------------------------------------------------
\* TcpClient

\* Connect tests the state first and returns unless it is kDisconnected.
ConnectStart(t) ==
    /\ At(t, "connect")
    /\ Goes(t, IF tcp = "disconnected"
               THEN <<Step("exchange", "connecting"), Step("create", None)>>
               ELSE <<>>)
    /\ UNCHANGED <<netVars, ctxVars, reqVars, history>>

\* Impl::SetState: the exchange; the callback follows only if the state changed.
Exchange(t) ==
    /\ At(t, "exchange")
    /\ tcp' = Arg(t)
    /\ Goes(t, IF tcp = Arg(t) THEN <<>> ELSE <<Step("notify", Arg(t))>>)
    /\ UNCHANGED <<hv, sendMutex, ctxVars, reqVars, history>>

\* A new hv::TcpClient replaces the old one, whose destructor joins its loop thread.
\* createsocket may fail; otherwise the loop thread starts and dials.
Create(t) ==
    /\ At(t, "create")
    /\ todo[IO] = <<>>
    /\ connects < MaxConnects
    /\ connects' = connects + 1
    /\ wire' = {}
    /\ \/ hv' = "closed" /\ Goes(t, <<Step("exchange", "disconnected")>>)
       \/ hv' = "dialing" /\ Goes(t, <<>>)
    /\ UNCHANGED <<tcp, sendMutex, ctxVars, pending, issued, calls, kicked, solo, closes>>

\* onConnection on the network thread: the dial succeeds, or fails, or the socket closes.
DialUp ==
    /\ hv = "dialing"
    /\ hv' = "up"
    /\ Call(IO, <<Step("exchange", "connected")>>)
    /\ UNCHANGED <<tcp, sendMutex, ctxVars, reqVars, history>>

SocketDown ==
    /\ hv \in {"dialing", "up"}
    /\ hv' = "closed"
    /\ wire' = {}
    /\ Call(IO, <<Step("exchange", "disconnected")>>)
    /\ UNCHANGED <<tcp, sendMutex, ctxVars, pending, history>>

\* Disconnect takes send_mutex and stops the client while it holds it ...
Lock(t) ==
    /\ At(t, "lock")
    /\ sendMutex = NoThread
    /\ sendMutex' = t
    /\ hv' = IF hv \in {"dialing", "up"} THEN "stopping" ELSE hv
    /\ Goes(t, <<Step("join", None)>>)
    /\ UNCHANGED <<tcp, ctxVars, reqVars, history>>

\* ... the network thread closes the socket, with or without a last onConnection ...
LoopStops ==
    /\ hv = "stopping"
    /\ hv' = "closed"
    /\ wire' = {}
    /\ \E steps \in {<<>>, <<Step("exchange", "disconnected")>>} : Call(IO, steps)
    /\ UNCHANGED <<tcp, sendMutex, ctxVars, pending, history>>

\* ... and stop returns once that thread has ended; then client is reset.
Join(t) ==
    /\ At(t, "join")
    /\ hv \in {"none", "closed"}
    /\ todo[IO] = <<>>
    /\ hv' = "none"
    /\ sendMutex' = NoThread
    /\ Goes(t, <<>>)
    /\ UNCHANGED <<tcp, ctxVars, reqVars, history>>

\* Send, under send_mutex; SendRequest ignores its result.
Send(t) ==
    /\ At(t, "send")
    /\ sendMutex = NoThread
    /\ wire' = IF tcp = "connected" /\ hv = "up" THEN wire \cup {Arg(t)} ELSE wire
    /\ Goes(t, <<>>)
    /\ UNCHANGED <<netVars, ctxVars, pending, history>>

-----------------------------------------------------------------------------
\* ClientContext and ReconnectManager

\* ReconnectManager::OnStateChanged with the new business state: only kDisconnected
\* schedules, and only while reconnecting is enabled and not stopped.
OnStateChanged(s) == timer' = (timer \/ (s = "disconnected" /\ ~stopped))

\* Mutant: a stopped client keeps the state it had.
DownStateKept == IF ~stopped /\ state # "disconnected" THEN "reconnecting" ELSE state

\* The business state after the network went down.
DownState == IF ~stopped /\ state # "disconnected" THEN "reconnecting" ELSE "disconnected"

\* Mutant: the uid survives the loss of the connection.
NotifyKeepsUid(t) ==
    /\ At(t, "notify")
    /\ LET down == Arg(t) = "disconnected"
           s == IF down THEN DownState ELSE Arg(t)
       IN  /\ state' = s
           /\ pending' = IF down THEN {} ELSE pending
           /\ OnStateChanged(s)
    /\ Goes(t, <<>>)
    /\ UNCHANGED <<netVars, uid, stopped, checking, wire, issued, calls, kicked, solo, connects, closes>>

\* The callback Init registers with TcpClient.
Notify(t) ==
    /\ At(t, "notify")
    /\ LET down == Arg(t) = "disconnected"
           s == IF down THEN DownState ELSE Arg(t)
       IN  /\ state' = s
           /\ uid' = (uid /\ ~down)
           /\ pending' = IF down THEN {} ELSE pending
           /\ OnStateChanged(s)
    /\ Goes(t, <<>>)
    /\ UNCHANGED <<netVars, stopped, checking, wire, issued, calls, kicked, solo, connects, closes>>

\* The reconnect timer fires.
TimerFires ==
    /\ timer
    /\ timer' = FALSE
    /\ Call(Reconnector, IF stopped THEN <<>> ELSE <<Step("connect", None)>>)
    /\ UNCHANGED <<netVars, state, uid, stopped, checking, reqVars, history>>

\* ReconnectManager::Stop, which kills the pending timer; in Shutdown the timeout
\* checker is stopped before it.
Stop(t) ==
    /\ At(t, "stop")
    /\ checking' = FALSE
    /\ stopped' = TRUE
    /\ timer' = FALSE
    /\ Goes(t, <<>>)
    /\ UNCHANGED <<netVars, state, uid, reqVars, history>>

\* The rest of Shutdown after Disconnect: CancelAll, then uid_ and state_.
Cancel(t) ==
    /\ At(t, "cancel")
    /\ pending' = {}
    /\ Goes(t, <<>>)
    /\ UNCHANGED <<netVars, ctxVars, wire, history>>

Down(t) ==
    /\ At(t, "down")
    /\ uid' = FALSE
    /\ state' = "disconnected"
    /\ Goes(t, <<>>)
    /\ UNCHANGED <<netVars, stopped, timer, checking, reqVars, history>>

\* Mutant: reconnecting is not stopped.
KickNotifyKeepsTimer ==
    /\ Kicks
    /\ hv = "up"
    /\ Call(IO, <<>>)
    /\ uid' = FALSE
    /\ state' = "disconnected"
    /\ kicked' = TRUE
    /\ UNCHANGED <<netVars, stopped, timer, checking, reqVars, issued, calls, solo, connects, closes>>

\* SetupPacketDispatch's KickNotify case.
KickNotify ==
    /\ Kicks
    /\ hv = "up"
    /\ Call(IO, <<>>)
    /\ stopped' = TRUE
    /\ timer' = FALSE
    /\ uid' = FALSE
    /\ state' = "disconnected"
    /\ kicked' = TRUE
    /\ UNCHANGED <<netVars, checking, reqVars, issued, calls, solo, connects, closes>>

-----------------------------------------------------------------------------
\* RequestManager

\* SendRequest registers the callbacks, then sends.
Register(t) ==
    /\ At(t, "register")
    /\ issued' = issued \cup {Arg(t)}
    /\ pending' = pending \cup {Arg(t)}
    /\ Goes(t, <<Step("send", Arg(t))>>)
    /\ UNCHANGED <<netVars, ctxVars, wire, calls, kicked, solo, connects, closes>>

\* The callback of request r runs.
RunCallback(r) == calls' = [calls EXCEPT ![r] = @ + 1]

\* HandleResponse on the network thread takes the request out of the table; an
\* answer that matches nothing falls through the dispatch and is dropped.
HandleResponse(r) ==
    /\ hv = "up"
    /\ r \in wire
    /\ wire' = wire \ {r}
    /\ pending' = pending \ {r}
    /\ Call(IO, IF r \in pending THEN <<Step("answer", r)>> ELSE <<>>)
    /\ UNCHANGED <<netVars, ctxVars, history>>

\* on_resp.  A successful login sets uid_ and state_, and the state callback that
\* NovaClient::Init registered sends the sync requests from this thread.
Answer(t) ==
    /\ At(t, "answer")
    /\ RunCallback(Arg(t))
    /\ \/ /\ Arg(t) \in Logins
          /\ uid' = TRUE
          /\ state' = "authenticated"
          /\ Goes(t, IF state = "authenticated" THEN <<>> ELSE <<Step("sync", None)>>)
       \/ Goes(t, <<>>) /\ UNCHANGED <<uid, state>>   \* another request, or code # 0
    /\ UNCHANGED <<netVars, stopped, timer, checking, reqVars, issued, kicked, solo, connects, closes>>

\* One request stands for the three that Init's callback sends.
SyncSend(t) ==
    /\ At(t, "sync")
    /\ \/ \E s \in Syncs \ issued : Goes(t, <<Step("register", s)>>)
       \/ Syncs \subseteq issued /\ Goes(t, <<>>)
    /\ UNCHANGED <<netVars, ctxVars, reqVars, history>>

\* Mutants: the expired requests stay in the table, or only sent ones expire.
CheckTimeoutsKeeps ==
    /\ checking
    /\ \E expired \in (SUBSET pending) \ {{}} : Call(Checker, <<Step("timeout", expired)>>)
    /\ UNCHANGED <<netVars, ctxVars, reqVars, history>>

CheckTimeoutsSentOnly ==
    /\ checking
    /\ \E expired \in (SUBSET (pending \cap wire)) \ {{}} :
        /\ pending' = pending \ expired
        /\ Call(Checker, <<Step("timeout", expired)>>)
    /\ UNCHANGED <<netVars, ctxVars, wire, history>>

\* CheckTimeouts moves the expired requests out of the table under the lock ...
CheckTimeouts ==
    /\ checking
    /\ \E expired \in (SUBSET pending) \ {{}} :
        /\ pending' = pending \ expired
        /\ Call(Checker, <<Step("timeout", expired)>>)
    /\ UNCHANGED <<netVars, ctxVars, wire, history>>

\* ... and runs their on_timeout after it, one after the other.
Timeout(t) ==
    /\ At(t, "timeout")
    /\ \E r \in Arg(t) :
        /\ RunCallback(r)
        /\ Goes(t, IF Arg(t) = {r} THEN <<>> ELSE <<Step("timeout", Arg(t) \ {r})>>)
    /\ UNCHANGED <<netVars, ctxVars, reqVars, issued, kicked, solo, connects, closes>>

-----------------------------------------------------------------------------
\* The application's calls

AppCalls(a, steps) ==
    /\ Call(a, steps)
    /\ solo' = (solo /\ \A b \in App : todo[b] = <<>>)

CallConnect(a) ==
    /\ connects < MaxConnects
    /\ AppCalls(a, <<Step("connect", None)>>)
    /\ UNCHANGED <<netVars, ctxVars, reqVars, issued, calls, kicked, connects, closes>>

CallRequest(a, r) ==
    /\ r \in (Logins \cup Others) \ issued
    /\ \A b \in App : ~(At(b, "register") /\ Arg(b) = r)   \* NextSeq is atomic
    /\ AppCalls(a, <<Step("register", r)>>)
    /\ UNCHANGED <<netVars, ctxVars, reqVars, issued, calls, kicked, connects, closes>>

CloseSteps == <<Step("lock", None), Step("exchange", "disconnected")>>

CallDisconnect(a) ==
    /\ closes < MaxCloses
    /\ closes' = closes + 1
    /\ AppCalls(a, CloseSteps)
    /\ UNCHANGED <<netVars, ctxVars, reqVars, issued, calls, kicked, connects>>

\* ClientContext::Shutdown, from NovaClient::Shutdown or AuthService::Logout.
CallShutdown(a) ==
    /\ closes < MaxCloses
    /\ closes' = closes + 1
    /\ AppCalls(a, <<Step("stop", None)>> \o CloseSteps \o <<Step("cancel", None), Step("down", None)>>)
    /\ UNCHANGED <<netVars, ctxVars, reqVars, issued, calls, kicked, connects>>

AppCall(a) ==
    \/ CallConnect(a)
    \/ CallDisconnect(a)
    \/ CallShutdown(a)
    \/ \E r \in Requests : CallRequest(a, r)

\* A thread goes on with its call.
Proceed(t) ==
    \/ ConnectStart(t) \/ Exchange(t) \/ Create(t) \/ Notify(t)
    \/ Lock(t) \/ Join(t) \/ Send(t) \/ Register(t)
    \/ Answer(t) \/ SyncSend(t) \/ Timeout(t)
    \/ Stop(t) \/ Cancel(t) \/ Down(t)

Network ==
    \/ DialUp
    \/ SocketDown
    \/ LoopStops
    \/ KickNotify
    \/ \E r \in Requests : HandleResponse(r)

Next ==
    \/ \E a \in App : AppCall(a)
    \/ \E t \in Threads : Proceed(t)
    \/ Network
    \/ TimerFires
    \/ CheckTimeouts

Spec == Init /\ [][Next]_vars

\* Every thread that can go on does, both timers fire, and a socket that is being
\* opened or stopped gets there.  The application, the server and the network owe
\* nothing.
FairSpec ==
    /\ Spec
    /\ \A t \in Threads : WF_vars(Proceed(t))
    /\ WF_vars(TimerFires)
    /\ \A r \in Requests : WF_vars(CheckTimeouts /\ r \in pending /\ r \notin pending')
    /\ WF_vars(DialUp \/ (hv = "dialing" /\ SocketDown))
    /\ WF_vars(LoopStops)

-----------------------------------------------------------------------------
\* Properties

\* A request is answered at most once: of the response on the network thread, the
\* timeout on the timer thread and the cleanup on a disconnect, one takes the entry
\* out of pending_ and only that one may run a callback (request_manager.cpp).
OneOutcome == \A r \in Requests : calls[r] <= 1

\* Some thread is about to tell the context that the connection is gone.
DownUnderway == \E t \in Threads : At(t, "notify") /\ Arg(t) = "disconnected"

\* If the application's calls do not overlap, whoever IsLoggedIn() reports as logged in
\* has a connection: a login answer handled by the network thread never outlives the
\* disconnect that Disconnect, Shutdown or the network causes.
LoggedInIsConnected == solo /\ uid => tcp = "connected" \/ DownUnderway

\* If the application's calls do not overlap, the state shown to it agrees with the
\* network layer whenever no state change is being reported.  Two reports may cross
\* while a new socket is being opened: the network thread's report of the old loss
\* may come after the application's report of the new dial.
StatesAgree ==
    solo /\ (\A t \in Threads : ~At(t, "notify")) =>
        CASE tcp = "disconnected" -> state \in {"disconnected", "reconnecting"}
          [] tcp = "connecting" -> state \notin {"connected", "authenticated"}
          [] tcp = "connected" -> state \in {"connected", "authenticated"} \/ kicked

\* A kicked client does not fight the device that replaced it: no reconnect timer
\* is armed after a KickNotify, whatever the network and the application do next.
KickIsFinal == kicked => ~timer

\* Every request leaves pending_: it is answered, times out or is swept, unless the
\* application shuts the client down, which ends the timeout checks for good.
RequestsSettle == \A r \in Requests : r \in pending ~> r \notin pending \/ ~checking

\* sequence_diagrams.md on automatic reconnection: after the connection is lost the
\* client dials again.
LostIsRedialed == state = "reconnecting" ~> tcp # "disconnected"

\* sequence_diagrams.md on shutdown: Disconnect returns and the rest follows.
CloseReturns == \A a \in App : sendMutex = a ~> sendMutex # a
=============================================================================
