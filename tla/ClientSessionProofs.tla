------------------------ MODULE ClientSessionProofs ------------------------
(***************************************************************************)
(* The client for any number of application threads and requests and any   *)
(* number of connections and shutdowns.                                    *)
(***************************************************************************)
EXTENDS ClientSession, SequenceTheorems, TLAPS

-----------------------------------------------------------------------------
\* The calls in progress

NetStates == {"disconnected", "connecting", "connected"}
Plain == {"connect", "create", "lock", "join", "stop", "cancel", "down", "sync"}

Steps == [op : Plain, arg : {None}]
         \cup [op : {"exchange", "notify"}, arg : NetStates]
         \cup [op : {"register", "send", "answer"}, arg : Requests]
         \cup [op : {"timeout"}, arg : SUBSET Requests]

\* The steps that a thread takes.
Takes(t, s) ==
    /\ s \in Steps
    /\ s.op \in {"connect", "create"} => t \in App \cup {Reconnector}
    /\ s.op \in {"lock", "join", "stop", "cancel", "down"} => t \in App
    /\ s.op \in {"sync", "answer"} => t = IO
    /\ s.op = "timeout" => t = Checker
    /\ s.op \in {"exchange", "notify"} /\ s.arg = "connecting" => t \in App \cup {Reconnector}
    /\ s.op \in {"exchange", "notify"} /\ s.arg = "connected" => t = IO
    /\ s.op \in {"exchange", "notify"} /\ s.arg = "disconnected" => t # Checker
    /\ s.op \in {"register", "send"} => IF s.arg \in Syncs THEN t = IO ELSE t \in App

\* The step after s, if the call has not come to its end.
Follows(s, x) ==
    \/ s.op \in {"exchange", "notify"} /\ s.arg = "connecting" /\ x = Step("create", None)
    \/ s.op \in {"exchange", "notify"} /\ s.arg = "disconnected" /\ x = Step("cancel", None)
    \/ s.op = "stop" /\ x = Step("lock", None)
    \/ s.op \in {"lock", "join"} /\ x = Step("exchange", "disconnected")
    \/ s.op = "cancel" /\ x = Step("down", None)

Well(t, steps) ==
    /\ steps \in Seq(Steps)
    /\ \A i \in 1 .. Len(steps) : Takes(t, steps[i])
    /\ \A i \in 1 .. Len(steps) - 1 : Follows(steps[i], steps[i + 1])

TodoInv ==
    /\ DOMAIN todo = Threads
    /\ \A t \in Threads : Well(t, todo[t])

\* Thread t is about to exchange, or to report, network state s.
Exchanging(t, s) == At(t, "exchange") /\ Arg(t) = s
Reporting(t, s) == At(t, "notify") /\ Arg(t) = s

-----------------------------------------------------------------------------
\* Where a request is

Answering(r) == At(IO, "answer") /\ Arg(IO) = r
Expiring(r) == At(Checker, "timeout") /\ r \in Arg(Checker)
Registering(t, r) == At(t, "register") /\ Arg(t) = r

\* A request is new, in pending_, with the thread that answers it, with the one that times
\* it out, answered, or dropped: it is at one of these places only.
OutcomeInv ==
    /\ issued \subseteq Requests /\ pending \subseteq issued
    /\ calls \in [Requests -> {0, 1}]
    /\ \A r \in pending : ~ Answering(r) /\ ~ Expiring(r) /\ calls[r] = 0
    /\ \A r \in Requests : Answering(r) => r \in issued /\ ~ Expiring(r) /\ calls[r] = 0
    /\ \A r \in Requests : Expiring(r) => r \in issued /\ calls[r] = 0
    /\ \A r \in Requests \ issued : calls[r] = 0
    /\ \A t \in Threads, r \in Requests : Registering(t, r) =>
          r \notin issued /\ \A u \in Threads : Registering(u, r) => u = t

-----------------------------------------------------------------------------
\* Reconnecting after a kick

KickInv == kicked => stopped /\ ~ timer

-----------------------------------------------------------------------------
\* What the layers know of each other while the application's calls do not overlap

Closed == hv \in {"none", "closed"}
Live == hv \in {"up", "stopping"}
Idle(t) == todo[t] = << >>

\* The network thread and the socket agree with TcpClient's state.
NetworkInv ==
    /\ Idle(IO) => /\ hv = "dialing" => tcp = "connecting"
                   /\ hv = "up" => tcp = "connected"
    /\ ~ Closed => tcp # "disconnected"
    /\ Exchanging(IO, "connected") => tcp = "connecting" /\ Live
    /\ Reporting(IO, "connected") => tcp = "connected" /\ Live
    /\ Exchanging(IO, "disconnected") => tcp # "disconnected" /\ hv = "closed"
    /\ Reporting(IO, "disconnected") => tcp # "connected" /\ hv = "closed"
    /\ At(IO, "answer") \/ At(IO, "sync") \/ At(IO, "register") \/ At(IO, "send") =>
          tcp = "connected" /\ Live

\* A call of the application that changes the connection is alone with it.
CallInv(a) ==
    /\ Exchanging(a, "connecting") => tcp = "disconnected"
    /\ Reporting(a, "connecting") \/ At(a, "create") => tcp = "connecting"
    /\ Exchanging(a, "connecting") \/ Reporting(a, "connecting") \/ At(a, "create") =>
          Closed /\ (Idle(IO) \/ Reporting(IO, "disconnected"))
    /\ Exchanging(a, "disconnected") => Closed /\ Idle(IO)
    /\ Reporting(a, "disconnected") \/ At(a, "cancel") \/ At(a, "down") =>
          Closed /\ Idle(IO) /\ tcp = "disconnected"

\* The reported state follows the network's.
ReportInv ==
    /\ uid \/ state \in {"connected", "authenticated"} => tcp = "connected" \/ DownUnderway
    /\ tcp = "connected" /\ ~ Reporting(IO, "connected") =>
          state \in {"connected", "authenticated"} \/ kicked
    /\ tcp = "disconnected" => state \in {"disconnected", "reconnecting"} \/ DownUnderway
    /\ state = "disconnected" /\ ~ stopped =>
          /\ ~ DownUnderway
          /\ tcp = "disconnected" \/ \E a \in App : Reporting(a, "connecting")

\* No thread dials again, and the application makes one call at a time.
Settled ==
    /\ ~ timer /\ Idle(Reconnector)
    /\ \A a, b \in App : ~ Idle(a) /\ ~ Idle(b) => a = b
    /\ NetworkInv
    /\ \A a \in App : CallInv(a)
    /\ ReportInv

SoloInv == solo => Settled

StateTypeOK ==
    /\ tcp \in NetStates
    /\ hv \in {"none", "dialing", "up", "stopping", "closed"}
    /\ state \in NetStates \cup {"authenticated", "reconnecting"}
    /\ uid \in BOOLEAN /\ timer \in BOOLEAN /\ stopped \in BOOLEAN
    /\ pending \subseteq Requests

-----------------------------------------------------------------------------
\* How the calls go on

LEMMA Distinct ==
    /\ IO \in Threads /\ Checker \in Threads /\ Reconnector \in Threads /\ App \subseteq Threads
    /\ IO \notin App /\ Checker \notin App /\ Reconnector \notin App
    /\ IO # Checker /\ IO # Reconnector /\ Checker # Reconnector
BY ClientAssumption DEF Threads

\* What the first step of a call tells of the thread, by the step's operation.
LEMMA TakesFacts ==
    ASSUME NEW t, NEW s, Takes(t, s)
    PROVE  /\ s \in Steps
           /\ s.op \in Plain \cup {"exchange", "notify", "register", "send", "answer", "timeout"}
           /\ s.op \in {"exchange", "notify"} => s.arg \in NetStates
           /\ s.op \in {"register", "send", "answer"} => s.arg \in Requests
           /\ s.op = "timeout" => s.arg \in SUBSET Requests
BY DEF Takes, Steps, Plain

\* A record is the step that its fields name.
LEMMA StepFields ==
    ASSUME NEW op, NEW arg
    PROVE  Step(op, arg).op = op /\ Step(op, arg).arg = arg
BY DEF Step

\* The empty call is well-formed.
LEMMA WellNil ==
    ASSUME NEW t
    PROVE  Well(t, << >>)
BY DEF Well

\* The rest of a well-formed call is well-formed, and its first step follows the one taken.
LEMMA WellTail ==
    ASSUME NEW t, NEW q, Well(t, q), q # << >>
    PROVE  /\ Takes(t, Head(q))
           /\ Well(t, Tail(q))
           /\ Tail(q) # << >> => Follows(Head(q), Head(Tail(q))) /\ Takes(t, Head(Tail(q)))
<1>1. q \in Seq(Steps) /\ Len(q) \in Nat /\ Len(q) > 0 /\ Head(q) = q[1]
    BY EmptySeq DEF Well
<1>2. Tail(q) \in Seq(Steps) /\ Len(Tail(q)) = Len(q) - 1
    BY <1>1
<1>3. \A i \in 1 .. Len(Tail(q)) : Tail(q)[i] = q[i + 1]
    BY <1>1
<1>4. Takes(t, Head(q))
    BY <1>1 DEF Well
<1>5. Well(t, Tail(q))
    BY <1>1, <1>2, <1>3 DEF Well
<1>6. ASSUME Tail(q) # << >>
      PROVE  Follows(Head(q), Head(Tail(q))) /\ Takes(t, Head(Tail(q)))
    <2>1. Len(Tail(q)) > 0 /\ Head(Tail(q)) = Tail(q)[1]
        BY <1>2, <1>6, EmptySeq
    <2>2. Head(Tail(q)) = q[2] /\ 1 \in 1 .. Len(q) - 1 /\ 2 \in 1 .. Len(q)
        BY <1>1, <1>2, <1>3, <2>1
    <2> QED BY <1>1, <2>2 DEF Well
<1> QED BY <1>4, <1>5, <1>6

\* A step put before a well-formed call, if the call's first step follows it.
LEMMA WellCons ==
    ASSUME NEW t, NEW q, Well(t, q), NEW s, Takes(t, s), q # << >> => Follows(s, Head(q))
    PROVE  /\ Well(t, <<s>> \o q)
           /\ <<s>> \o q # << >> /\ Head(<<s>> \o q) = s /\ Tail(<<s>> \o q) = q
<1> DEFINE r == <<s>> \o q
<1>1. q \in Seq(Steps) /\ Len(q) \in Nat /\ s \in Steps
    BY DEF Well, Takes
<1>2. r \in Seq(Steps) /\ Len(r) = Len(q) + 1 /\ r[1] = s
    BY <1>1
<1>3. \A i \in 2 .. Len(r) : r[i] = q[i - 1]
    BY <1>1
<1>4. r # << >> /\ Head(r) = s /\ Tail(r) = q
    BY <1>1
<1> HIDE DEF r
<1>5. ASSUME NEW i \in 1 .. Len(r)
      PROVE  Takes(t, r[i])
    <2>1. CASE i = 1
        BY <1>2, <2>1
    <2>2. CASE i # 1
        <3>1. i \in 2 .. Len(r) /\ i - 1 \in 1 .. Len(q)
            BY <1>1, <1>2, <2>2
        <3> QED BY <1>3, <3>1 DEF Well
    <2> QED BY <2>1, <2>2
<1>6. ASSUME NEW i \in 1 .. Len(r) - 1
      PROVE  Follows(r[i], r[i + 1])
    <2>1. CASE i = 1
        <3>1. Len(q) > 0 /\ q # << >> /\ Head(q) = q[1] /\ r[2] = q[1]
            BY <1>1, <1>2, <1>3, <2>1
        <3> QED BY <1>2, <2>1, <3>1
    <2>2. CASE i # 1
        <3>1. /\ i \in 2 .. Len(r) /\ i + 1 \in 2 .. Len(r)
              /\ i - 1 \in 1 .. Len(q) - 1 /\ (i + 1) - 1 = (i - 1) + 1
            BY <1>1, <1>2, <2>2
        <3>2. r[i] = q[i - 1] /\ r[i + 1] = q[(i - 1) + 1]
            BY <1>3, <3>1
        <3> QED BY <3>1, <3>2 DEF Well
    <2> QED BY <2>1, <2>2
<1>7. Well(t, r)
    BY <1>2, <1>5, <1>6 DEF Well
<1> QED BY <1>4, <1>7 DEF r

\* A call of one step.
LEMMA WellOne ==
    ASSUME NEW t, NEW s, Takes(t, s)
    PROVE  Well(t, <<s>>) /\ <<s>> # << >> /\ Head(<<s>>) = s
BY DEF Well, Takes

\* A call of two steps.
LEMMA WellTwo ==
    ASSUME NEW t, NEW s, NEW x, Takes(t, s), Takes(t, x), Follows(s, x)
    PROVE  Well(t, <<s, x>>) /\ <<s, x>> # << >> /\ Head(<<s, x>>) = s
<1>1. s \in Steps /\ x \in Steps
    BY DEF Takes
<1>2. <<s, x>> \in Seq(Steps) /\ Len(<<s, x>>) = 2 /\ <<s, x>>[1] = s /\ <<s, x>>[2] = x
    BY <1>1
<1>3. \A i \in 1 .. 2 : Takes(t, <<s, x>>[i])
    BY <1>2
<1>4. \A i \in 1 .. 1 : Follows(<<s, x>>[i], <<s, x>>[i + 1])
    BY <1>2
<1> QED BY <1>1, <1>2, <1>3, <1>4 DEF Well

\* A thread that makes a call has its steps to take, and no other thread's call changes.
LEMMA CallStep ==
    ASSUME TodoInv, NEW t \in Threads, NEW q, Well(t, q), Call(t, q)
    PROVE  /\ TodoInv'
           /\ Idle(t) /\ todo'[t] = q
           /\ \A u \in Threads \ {t} : todo'[u] = todo[u]
BY DEF TodoInv, Call, Idle

\* The same for a thread that goes on with its call.
LEMMA GoesStep ==
    ASSUME TodoInv, NEW t \in Threads, NEW q, Well(t, q \o Tail(todo[t])), Goes(t, q)
    PROVE  /\ TodoInv'
           /\ todo'[t] = q \o Tail(todo[t])
           /\ \A u \in Threads \ {t} : todo'[u] = todo[u]
BY DEF TodoInv, Goes

\* A step without a sequel: the thread's call goes on with the step that follows, or ends.
LEMMA StepEnds ==
    ASSUME TodoInv, NEW t \in Threads, ~ Idle(t), Goes(t, << >>)
    PROVE  /\ TodoInv'
           /\ Takes(t, Head(todo[t]))
           /\ todo'[t] # << >> => Follows(Head(todo[t]), Head(todo'[t])) /\ Takes(t, Head(todo'[t]))
           /\ \A u \in Threads \ {t} : todo'[u] = todo[u]
<1>1. Well(t, todo[t]) /\ todo[t] # << >>
    BY DEF TodoInv, Idle
<1>2. /\ Takes(t, Head(todo[t])) /\ Well(t, Tail(todo[t]))
      /\ Tail(todo[t]) # << >> => /\ Follows(Head(todo[t]), Head(Tail(todo[t])))
                                  /\ Takes(t, Head(Tail(todo[t])))
    BY <1>1, WellTail
<1>3. << >> \o Tail(todo[t]) = Tail(todo[t])
    <2>1. Tail(todo[t]) \in Seq(Steps)
        BY <1>2 DEF Well
    <2> QED BY <2>1
<1>4. /\ TodoInv' /\ todo'[t] = Tail(todo[t])
      /\ \A u \in Threads \ {t} : todo'[u] = todo[u]
    <2>1. Well(t, << >> \o Tail(todo[t]))
        BY <1>2, <1>3
    <2> QED BY <1>3, <2>1, GoesStep
<1> QED BY <1>2, <1>4

\* A step with a sequel s that the rest of the call may follow.
LEMMA StepLeads ==
    ASSUME TodoInv, NEW t \in Threads, ~ Idle(t), NEW s, Takes(t, s), Goes(t, <<s>>),
           \A x : Follows(Head(todo[t]), x) => Follows(s, x)
    PROVE  /\ TodoInv'
           /\ Takes(t, Head(todo[t]))
           /\ todo'[t] # << >> /\ Head(todo'[t]) = s
           /\ \A u \in Threads \ {t} : todo'[u] = todo[u]
<1>1. Well(t, todo[t]) /\ todo[t] # << >>
    BY DEF TodoInv, Idle
<1>2. /\ Takes(t, Head(todo[t])) /\ Well(t, Tail(todo[t]))
      /\ Tail(todo[t]) # << >> => Follows(Head(todo[t]), Head(Tail(todo[t])))
    BY <1>1, WellTail
<1> DEFINE q == Tail(todo[t])
<1>3. Well(t, q) /\ (q # << >> => Follows(s, Head(q)))
    BY <1>2
<1>4. Well(t, <<s>> \o q) /\ <<s>> \o q # << >> /\ Head(<<s>> \o q) = s
    <2> HIDE DEF q
    <2> QED BY <1>3, WellCons
<1>5. /\ TodoInv' /\ todo'[t] = <<s>> \o q
      /\ \A u \in Threads \ {t} : todo'[u] = todo[u]
    BY <1>4, GoesStep
<1> QED BY <1>2, <1>4, <1>5

\* The step that starts a connection leads to two.
LEMMA ConnectLeads ==
    ASSUME TodoInv, NEW t \in Threads, At(t, "connect"),
           Goes(t, <<Step("exchange", "connecting"), Step("create", None)>>)
    PROVE  /\ TodoInv'
           /\ Takes(t, Head(todo[t]))
           /\ todo'[t] # << >> /\ Head(todo'[t]) = Step("exchange", "connecting")
           /\ \A u \in Threads \ {t} : todo'[u] = todo[u]
<1> DEFINE s == Step("exchange", "connecting")
           x == Step("create", None)
           q == Tail(todo[t])
<1>1. Well(t, todo[t]) /\ todo[t] # << >> /\ Head(todo[t]).op = "connect"
    BY DEF TodoInv, At
<1>2. /\ Takes(t, Head(todo[t])) /\ Well(t, q)
      /\ q # << >> => Follows(Head(todo[t]), Head(q))
    BY <1>1, WellTail
<1>3. q = << >>
    BY <1>1, <1>2 DEF Follows
<1>4. Takes(t, s) /\ Takes(t, x) /\ Follows(s, x)
    BY <1>1, <1>2 DEF Takes, Follows, Steps, Step, Plain, NetStates
<1>5. <<s, x>> \o q = <<s, x>>
    <2> HIDE DEF s, x, q
    <2>1. s \in Steps /\ x \in Steps
        BY <1>4 DEF Takes
    <2>2. <<s, x>> \in Seq(Steps)
        BY <2>1
    <2> QED BY <1>3, <2>2, ConcatEmptySeq
<1>6. Well(t, <<s, x>>) /\ <<s, x>> # << >> /\ Head(<<s, x>>) = s
    <2> HIDE DEF s, x
    <2> QED BY <1>4, WellTwo
<1>7. Well(t, <<s, x>> \o q)
    BY <1>5, <1>6
<1>8. /\ TodoInv' /\ todo'[t] = <<s, x>> \o q
      /\ \A u \in Threads \ {t} : todo'[u] = todo[u]
    BY <1>7, GoesStep
<1> QED BY <1>2, <1>5, <1>6, <1>8

\* The calls of Disconnect and Shutdown are well-formed.
LEMMA WellClose ==
    ASSUME NEW a \in App
    PROVE  /\ Well(a, CloseSteps) /\ CloseSteps # << >> /\ Head(CloseSteps).op = "lock"
           /\ LET q == <<Step("stop", None)>> \o CloseSteps
                       \o <<Step("cancel", None), Step("down", None)>>
              IN  Well(a, q) /\ q # << >> /\ Head(q).op = "stop"
<1> DEFINE lock == Step("lock", None)
           ex == Step("exchange", "disconnected")
           cancel == Step("cancel", None)
           down == Step("down", None)
           stop == Step("stop", None)
<1>1. /\ Takes(a, lock) /\ Takes(a, ex) /\ Takes(a, cancel) /\ Takes(a, down) /\ Takes(a, stop)
    BY Distinct DEF Takes, Steps, Step, Plain, NetStates
<1>2. Follows(stop, lock) /\ Follows(lock, ex) /\ Follows(ex, cancel) /\ Follows(cancel, down)
    BY DEF Follows, Step
<1>3. lock.op = "lock" /\ stop.op = "stop"
    BY DEF Step
<1> HIDE DEF lock, ex, cancel, down, stop
<1>4. Well(a, <<lock, ex>>) /\ <<lock, ex>> # << >> /\ Head(<<lock, ex>>) = lock
    BY <1>1, <1>2, WellTwo
<1>5. /\ stop \in Steps /\ lock \in Steps /\ ex \in Steps /\ cancel \in Steps /\ down \in Steps
    BY <1>1 DEF Takes
<1> DEFINE q == <<stop>> \o <<lock, ex>> \o <<cancel, down>>
           r == <<stop>> \o <<lock, ex>>
<1>6. /\ r \in Seq(Steps) /\ Len(r) = 3
      /\ r[1] = stop /\ r[2] = lock /\ r[3] = ex
    BY <1>5
<1>7. /\ q \in Seq(Steps) /\ Len(q) = 5 /\ q # << >> /\ Head(q) = stop
      /\ q[1] = stop /\ q[2] = lock /\ q[3] = ex /\ q[4] = cancel /\ q[5] = down
    <2>1. <<cancel, down>> \in Seq(Steps) /\ Len(<<cancel, down>>) = 2
        BY <1>5
    <2>2. q = r \o <<cancel, down>>
        OBVIOUS
    <2> HIDE DEF r
    <2>3. q \in Seq(Steps) /\ Len(q) = 5
        BY <1>6, <2>1, <2>2
    <2>4. q[1] = stop /\ q[2] = lock /\ q[3] = ex /\ q[4] = cancel /\ q[5] = down
        BY <1>6, <2>1, <2>2
    <2> HIDE DEF q
    <2>5. q # << >> /\ Head(q) = stop
        BY <2>3, <2>4, EmptySeq
    <2> QED BY <2>3, <2>4, <2>5
<1> HIDE DEF q
<1>8. ASSUME NEW i \in 1 .. Len(q)
      PROVE  Takes(a, q[i])
    <2>1. i = 1 \/ i = 2 \/ i = 3 \/ i = 4 \/ i = 5
        BY <1>7
    <2> QED BY <1>1, <1>7, <2>1
<1>9. ASSUME NEW i \in 1 .. Len(q) - 1
      PROVE  Follows(q[i], q[i + 1])
    <2>1. i = 1 \/ i = 2 \/ i = 3 \/ i = 4
        BY <1>7
    <2> QED BY <1>2, <1>7, <2>1
<1>10. Well(a, q)
    BY <1>7, <1>8, <1>9 DEF Well
<1> QED BY <1>3, <1>4, <1>7, <1>10 DEF CloseSteps, q, lock, ex, cancel, down, stop

-----------------------------------------------------------------------------
\* What each step makes of the thread's call

\* The other threads stay where they are in their calls.
OnlyMoves(t) == TodoInv' /\ \A u \in Threads \ {t} : todo'[u] = todo[u]

\* Thread t ends its call or goes on with a step of S.
GoesOn(t, S) == todo'[t] = << >> \/ (todo'[t] # << >> /\ Head(todo'[t]) \in S)

\* Thread t goes on with step s.
GoesTo(t, s) == todo'[t] # << >> /\ Head(todo'[t]) = s

\* The facts about the thread that takes a step.
LEMMA StepTaken ==
    ASSUME TodoInv, NEW t \in Threads, NEW op, At(t, op)
    PROVE  /\ ~ Idle(t) /\ Takes(t, Head(todo[t])) /\ Head(todo[t]).op = op
           /\ Head(todo[t]).arg = Arg(t)
<1>1. Well(t, todo[t]) /\ todo[t] # << >>
    BY DEF TodoInv, At
<1> QED BY <1>1, WellTail DEF At, Arg, Idle

\* Connect starts to dial if it finds the client disconnected.
LEMMA ConnectStartCalls ==
    ASSUME TodoInv, NEW t \in Threads, ConnectStart(t)
    PROVE  /\ OnlyMoves(t)
           /\ t \in App \cup {Reconnector}
           /\ IF tcp = "disconnected" THEN GoesTo(t, Step("exchange", "connecting")) ELSE todo'[t] = << >>
<1>1. At(t, "connect")
    BY DEF ConnectStart
<1>2. ~ Idle(t) /\ Takes(t, Head(todo[t])) /\ Head(todo[t]).op = "connect"
    BY <1>1, StepTaken
<1>3. CASE tcp = "disconnected"
    <2>1. Goes(t, <<Step("exchange", "connecting"), Step("create", None)>>)
        BY <1>3 DEF ConnectStart
    <2> QED BY <1>1, <1>2, <1>3, <2>1, ConnectLeads DEF OnlyMoves, GoesTo, Takes
<1>4. CASE tcp # "disconnected"
    <2>1. Goes(t, << >>)
        BY <1>4 DEF ConnectStart
    <2>2. OnlyMoves(t) /\ (todo'[t] # << >> => Follows(Head(todo[t]), Head(todo'[t])))
        BY <1>2, <2>1, StepEnds DEF OnlyMoves
    <2> QED BY <1>2, <1>4, <2>2 DEF Follows, Takes
<1> QED BY <1>3, <1>4

\* An exchange that changes the state is reported; one that does not lets the call go on.
LEMMA ExchangeCalls ==
    ASSUME TodoInv, NEW t \in Threads, Exchange(t)
    PROVE  /\ OnlyMoves(t)
           /\ t # Checker /\ Arg(t) \in NetStates /\ tcp' = Arg(t)
           /\ Arg(t) = "connecting" => t \in App \cup {Reconnector}
           /\ Arg(t) = "connected" => t = IO
           /\ IF tcp # Arg(t) THEN GoesTo(t, Step("notify", Arg(t)))
              ELSE \/ todo'[t] = << >>
                   \/ Arg(t) = "connecting" /\ GoesTo(t, Step("create", None))
                   \/ Arg(t) = "disconnected" /\ t \in App /\ GoesTo(t, Step("cancel", None))
<1>1. At(t, "exchange") /\ tcp' = Arg(t)
    BY DEF Exchange
<1>2. /\ ~ Idle(t) /\ Takes(t, Head(todo[t])) /\ Head(todo[t]).op = "exchange"
      /\ Head(todo[t]).arg = Arg(t)
    BY <1>1, StepTaken
<1>3. /\ t # Checker /\ Arg(t) \in NetStates
      /\ Arg(t) = "connecting" => t \in App \cup {Reconnector}
      /\ Arg(t) = "connected" => t = IO
    BY <1>2, TakesFacts, Distinct DEF Takes, NetStates
<1>4. CASE tcp = Arg(t)
    <2>1. Goes(t, << >>)
        BY <1>4 DEF Exchange
    <2>2. OnlyMoves(t) /\ (todo'[t] # << >> => /\ Follows(Head(todo[t]), Head(todo'[t]))
                                              /\ Takes(t, Head(todo'[t])))
        BY <1>2, <2>1, StepEnds DEF OnlyMoves
    <2>3. \/ todo'[t] = << >>
          \/ Arg(t) = "connecting" /\ GoesTo(t, Step("create", None))
          \/ Arg(t) = "disconnected" /\ GoesTo(t, Step("cancel", None))
        BY <1>2, <2>2 DEF Follows, GoesTo
    <2>4. GoesTo(t, Step("cancel", None)) => t \in App
        BY <2>2 DEF GoesTo, Takes, Step
    <2> QED BY <1>1, <1>3, <1>4, <2>2, <2>3, <2>4
<1>5. CASE tcp # Arg(t)
    <2>1. Goes(t, <<Step("notify", Arg(t))>>)
        BY <1>5 DEF Exchange
    <2>2. Takes(t, Step("notify", Arg(t)))
        BY <1>2, <1>3 DEF Takes, Steps, Step, NetStates
    <2>3. \A x : Follows(Head(todo[t]), x) => Follows(Step("notify", Arg(t)), x)
        BY <1>2 DEF Follows, Step
    <2>4. OnlyMoves(t) /\ GoesTo(t, Step("notify", Arg(t)))
        BY <1>2, <2>1, <2>2, <2>3, StepLeads DEF OnlyMoves, GoesTo
    <2> QED BY <1>1, <1>3, <1>5, <2>4
<1> QED BY <1>4, <1>5

\* A socket that cannot be created leads to an exchange; otherwise the call ends.
LEMMA CreateCalls ==
    ASSUME TodoInv, NEW t \in Threads, Create(t)
    PROVE  /\ OnlyMoves(t)
           /\ t \in App \cup {Reconnector}
           /\ \/ hv' = "closed" /\ GoesTo(t, Step("exchange", "disconnected"))
              \/ hv' = "dialing" /\ todo'[t] = << >>
<1>1. At(t, "create")
    BY DEF Create
<1>2. ~ Idle(t) /\ Takes(t, Head(todo[t])) /\ Head(todo[t]).op = "create"
    BY <1>1, StepTaken
<1>3. t \in App \cup {Reconnector}
    BY <1>2 DEF Takes
<1>4. CASE hv' = "closed" /\ Goes(t, <<Step("exchange", "disconnected")>>)
    <2>1. Takes(t, Step("exchange", "disconnected"))
        BY <1>3, Distinct DEF Takes, Steps, Step, NetStates
    <2>2. \A x : Follows(Head(todo[t]), x) => Follows(Step("exchange", "disconnected"), x)
        BY <1>2 DEF Follows
    <2> QED BY <1>2, <1>3, <1>4, <2>1, <2>2, StepLeads DEF OnlyMoves, GoesTo
<1>5. CASE hv' = "dialing" /\ Goes(t, << >>)
    <2>1. OnlyMoves(t) /\ (todo'[t] # << >> => Follows(Head(todo[t]), Head(todo'[t])))
        BY <1>2, <1>5, StepEnds DEF OnlyMoves
    <2> QED BY <1>2, <1>3, <1>5, <2>1 DEF Follows
<1> QED BY <1>4, <1>5 DEF Create

\* A report lets the call go on.
LEMMA NotifyCalls ==
    ASSUME TodoInv, NEW t \in Threads, Notify(t)
    PROVE  /\ OnlyMoves(t)
           /\ t # Checker /\ Arg(t) \in NetStates
           /\ Arg(t) = "connecting" => t \in App \cup {Reconnector}
           /\ Arg(t) = "connected" => t = IO
           /\ \/ todo'[t] = << >>
              \/ Arg(t) = "connecting" /\ GoesTo(t, Step("create", None))
              \/ Arg(t) = "disconnected" /\ t \in App /\ GoesTo(t, Step("cancel", None))
<1>1. At(t, "notify") /\ Goes(t, << >>)
    BY DEF Notify
<1>2. /\ ~ Idle(t) /\ Takes(t, Head(todo[t])) /\ Head(todo[t]).op = "notify"
      /\ Head(todo[t]).arg = Arg(t)
    BY <1>1, StepTaken
<1>3. /\ t # Checker /\ Arg(t) \in NetStates
      /\ Arg(t) = "connecting" => t \in App \cup {Reconnector}
      /\ Arg(t) = "connected" => t = IO
    BY <1>2, TakesFacts, Distinct DEF Takes, NetStates
<1>4. OnlyMoves(t) /\ (todo'[t] # << >> => /\ Follows(Head(todo[t]), Head(todo'[t]))
                                          /\ Takes(t, Head(todo'[t])))
    BY <1>1, <1>2, StepEnds DEF OnlyMoves
<1>5. \/ todo'[t] = << >>
      \/ Arg(t) = "connecting" /\ GoesTo(t, Step("create", None))
      \/ Arg(t) = "disconnected" /\ GoesTo(t, Step("cancel", None))
    BY <1>2, <1>4 DEF Follows, GoesTo
<1>6. GoesTo(t, Step("cancel", None)) => t \in App
    BY <1>4 DEF GoesTo, Takes, Step
<1> QED BY <1>3, <1>4, <1>5, <1>6

\* Disconnect goes on to wait for the network thread.
LEMMA LockCalls ==
    ASSUME TodoInv, NEW t \in Threads, Lock(t)
    PROVE  /\ OnlyMoves(t)
           /\ t \in App
           /\ GoesTo(t, Step("join", None))
<1>1. At(t, "lock") /\ Goes(t, <<Step("join", None)>>)
    BY DEF Lock
<1>2. /\ ~ Idle(t) /\ Takes(t, Head(todo[t])) /\ Head(todo[t]).op = "lock"
      /\ Head(todo[t]).arg = Arg(t)
    BY <1>1, StepTaken
<1>3. /\ Takes(t, Step("join", None))
      /\ \A x : Follows(Head(todo[t]), x) => Follows(Step("join", None), x)
    BY <1>2 DEF Takes, Follows, Steps, Step, Plain, NetStates
<1>4. OnlyMoves(t) /\ GoesTo(t, Step("join", None))
    BY <1>1, <1>2, <1>3, StepLeads DEF OnlyMoves, GoesTo
<1> QED BY <1>2, <1>4 DEF Takes, Steps

\* Disconnect goes on to report the disconnect.
LEMMA JoinCalls ==
    ASSUME TodoInv, NEW t \in Threads, Join(t)
    PROVE  /\ OnlyMoves(t)
           /\ t \in App
           /\ GoesOn(t, {Step("exchange", "disconnected")})
<1>1. At(t, "join") /\ Goes(t, << >>)
    BY DEF Join
<1>2. /\ ~ Idle(t) /\ Takes(t, Head(todo[t])) /\ Head(todo[t]).op = "join"
      /\ Head(todo[t]).arg = Arg(t)
    BY <1>1, StepTaken
<1>3. /\ OnlyMoves(t)
      /\ todo'[t] # << >> => Follows(Head(todo[t]), Head(todo'[t]))
    BY <1>1, <1>2, StepEnds DEF OnlyMoves
<1> QED BY <1>2, <1>3 DEF Takes, Follows, GoesOn, Steps

\* A request that is sent ends its call.
LEMMA SendCalls ==
    ASSUME TodoInv, NEW t \in Threads, Send(t)
    PROVE  /\ OnlyMoves(t)
           /\ t \in App \cup {IO}
           /\ todo'[t] = << >>
           /\ Arg(t) \in Requests
<1>1. At(t, "send") /\ Goes(t, << >>)
    BY DEF Send
<1>2. /\ ~ Idle(t) /\ Takes(t, Head(todo[t])) /\ Head(todo[t]).op = "send"
      /\ Head(todo[t]).arg = Arg(t)
    BY <1>1, StepTaken
<1>3. /\ OnlyMoves(t)
      /\ todo'[t] # << >> => Follows(Head(todo[t]), Head(todo'[t]))
    BY <1>1, <1>2, StepEnds DEF OnlyMoves
<1>4. Arg(t) \in Requests
    BY <1>2, TakesFacts
<1>5. t \in App \cup {IO}
    BY <1>2 DEF Takes
<1>6. todo'[t] = << >>
    BY <1>2, <1>3 DEF Follows
<1> QED BY <1>3, <1>4, <1>5, <1>6

\* A registered request is sent.
LEMMA RegisterCalls ==
    ASSUME TodoInv, NEW t \in Threads, Register(t)
    PROVE  /\ OnlyMoves(t)
           /\ t \in App \cup {IO} /\ Arg(t) \in Requests
           /\ GoesTo(t, Step("send", Arg(t)))
<1>1. At(t, "register") /\ Goes(t, <<Step("send", Arg(t))>>)
    BY DEF Register
<1>2. /\ ~ Idle(t) /\ Takes(t, Head(todo[t])) /\ Head(todo[t]).op = "register"
      /\ Head(todo[t]).arg = Arg(t)
    BY <1>1, StepTaken
<1>3. Arg(t) \in Requests
    BY <1>2, TakesFacts
<1>4. IF Arg(t) \in Syncs THEN t = IO ELSE t \in App
    BY <1>2 DEF Takes
<1>5. Takes(t, Step("send", Arg(t)))
    BY <1>3, <1>4 DEF Takes, Steps, Step
<1>6. \A x : Follows(Head(todo[t]), x) => Follows(Step("send", Arg(t)), x)
    BY <1>2 DEF Follows
<1>7. OnlyMoves(t) /\ GoesTo(t, Step("send", Arg(t)))
    BY <1>1, <1>2, <1>5, <1>6, StepLeads DEF OnlyMoves, GoesTo
<1> QED BY <1>3, <1>4, <1>7

\* An answer ends the callback or, after a login, goes on to synchronise.
LEMMA AnswerCalls ==
    ASSUME TodoInv, NEW t \in Threads, Answer(t)
    PROVE  /\ OnlyMoves(t)
           /\ t = IO /\ Arg(t) \in Requests
           /\ GoesOn(t, {Step("sync", None)})
<1>1. At(t, "answer")
    BY DEF Answer
<1>2. /\ ~ Idle(t) /\ Takes(t, Head(todo[t])) /\ Head(todo[t]).op = "answer"
      /\ Head(todo[t]).arg = Arg(t)
    BY <1>1, StepTaken
<1>3. t = IO /\ Arg(t) \in Requests
    BY <1>2, TakesFacts DEF Takes
<1>4. CASE Goes(t, << >>)
    <2>1. OnlyMoves(t) /\ (todo'[t] # << >> => Follows(Head(todo[t]), Head(todo'[t])))
        BY <1>2, <1>4, StepEnds DEF OnlyMoves
    <2> QED BY <1>2, <1>3, <2>1 DEF Follows, GoesOn
<1>5. CASE Goes(t, <<Step("sync", None)>>)
    <2>1. Takes(t, Step("sync", None))
        BY <1>3 DEF Takes, Steps, Step, Plain
    <2>2. \A x : Follows(Head(todo[t]), x) => Follows(Step("sync", None), x)
        BY <1>2 DEF Follows
    <2> QED BY <1>2, <1>3, <1>5, <2>1, <2>2, StepLeads DEF OnlyMoves, GoesOn
<1> QED BY <1>4, <1>5 DEF Answer

\* The state callback sends a sync request that was not sent before, if there is one.
LEMMA SyncSendCalls ==
    ASSUME TodoInv, NEW t \in Threads, SyncSend(t)
    PROVE  /\ OnlyMoves(t)
           /\ t = IO
           /\ \/ todo'[t] = << >>
              \/ \E s \in Syncs \ issued : GoesTo(t, Step("register", s))
<1>1. At(t, "sync")
    BY DEF SyncSend
<1>2. /\ ~ Idle(t) /\ Takes(t, Head(todo[t])) /\ Head(todo[t]).op = "sync"
    BY <1>1, StepTaken
<1>3. t = IO
    BY <1>2 DEF Takes
<1>4. CASE Goes(t, << >>)
    <2>1. OnlyMoves(t) /\ (todo'[t] # << >> => Follows(Head(todo[t]), Head(todo'[t])))
        BY <1>2, <1>4, StepEnds DEF OnlyMoves
    <2> QED BY <1>2, <1>3, <2>1 DEF Follows
<1>5. ASSUME NEW s \in Syncs \ issued, Goes(t, <<Step("register", s)>>)
      PROVE  OnlyMoves(t) /\ GoesTo(t, Step("register", s))
    <2>1. Takes(t, Step("register", s))
        BY <1>3, <1>5, Distinct DEF Takes, Steps, Step, Plain, Requests
    <2>2. \A x : Follows(Head(todo[t]), x) => Follows(Step("register", s), x)
        BY <1>2 DEF Follows
    <2> QED BY <1>2, <1>5, <2>1, <2>2, StepLeads DEF OnlyMoves, GoesTo
<1> QED BY <1>3, <1>4, <1>5 DEF SyncSend

\* The timeouts are reported one after the other.
LEMMA TimeoutCalls ==
    ASSUME TodoInv, NEW t \in Threads, Timeout(t)
    PROVE  /\ OnlyMoves(t)
           /\ t = Checker /\ Arg(t) \subseteq Requests
           /\ \E r \in Arg(t) :
                 /\ RunCallback(r)
                 /\ \/ Arg(t) = {r} /\ todo'[t] = << >>
                    \/ Arg(t) # {r} /\ GoesTo(t, Step("timeout", Arg(t) \ {r}))
<1>1. At(t, "timeout")
    BY DEF Timeout
<1>2. /\ ~ Idle(t) /\ Takes(t, Head(todo[t])) /\ Head(todo[t]).op = "timeout"
      /\ Head(todo[t]).arg = Arg(t)
    BY <1>1, StepTaken
<1>3. t = Checker /\ Arg(t) \subseteq Requests
    BY <1>2, TakesFacts DEF Takes
<1>4. PICK r \in Arg(t) :
          /\ RunCallback(r)
          /\ Goes(t, IF Arg(t) = {r} THEN << >> ELSE <<Step("timeout", Arg(t) \ {r})>>)
    BY DEF Timeout
<1>5. CASE Arg(t) = {r}
    <2>1. Goes(t, << >>)
        BY <1>4, <1>5
    <2>2. OnlyMoves(t) /\ (todo'[t] # << >> => Follows(Head(todo[t]), Head(todo'[t])))
        BY <1>2, <2>1, StepEnds DEF OnlyMoves
    <2>3. todo'[t] = << >>
        BY <1>2, <2>2 DEF Follows
    <2> QED BY <1>3, <1>4, <1>5, <2>2, <2>3
<1>6. CASE Arg(t) # {r}
    <2>1. Goes(t, <<Step("timeout", Arg(t) \ {r})>>)
        BY <1>4, <1>6
    <2>2. Takes(t, Step("timeout", Arg(t) \ {r}))
        BY <1>3 DEF Takes, Steps, Step, Plain
    <2>3. \A x : Follows(Head(todo[t]), x) => Follows(Step("timeout", Arg(t) \ {r}), x)
        BY <1>2 DEF Follows
    <2>4. OnlyMoves(t) /\ GoesTo(t, Step("timeout", Arg(t) \ {r}))
        BY <1>2, <2>1, <2>2, <2>3, StepLeads DEF OnlyMoves, GoesTo
    <2> QED BY <1>3, <1>4, <1>6, <2>4
<1> QED BY <1>5, <1>6

\* Shutdown goes on with Disconnect.
LEMMA StopCalls ==
    ASSUME TodoInv, NEW t \in Threads, Stop(t)
    PROVE  /\ OnlyMoves(t)
           /\ t \in App
           /\ GoesOn(t, {Step("lock", None)})
<1>1. At(t, "stop") /\ Goes(t, << >>)
    BY DEF Stop
<1>2. /\ ~ Idle(t) /\ Takes(t, Head(todo[t])) /\ Head(todo[t]).op = "stop"
      /\ Head(todo[t]).arg = Arg(t)
    BY <1>1, StepTaken
<1>3. /\ OnlyMoves(t)
      /\ todo'[t] # << >> => Follows(Head(todo[t]), Head(todo'[t]))
    BY <1>1, <1>2, StepEnds DEF OnlyMoves
<1> QED BY <1>2, <1>3 DEF Takes, Follows, GoesOn, Steps

\* Shutdown goes on to clear uid_ and state_.
LEMMA CancelCalls ==
    ASSUME TodoInv, NEW t \in Threads, Cancel(t)
    PROVE  /\ OnlyMoves(t)
           /\ t \in App
           /\ GoesOn(t, {Step("down", None)})
<1>1. At(t, "cancel") /\ Goes(t, << >>)
    BY DEF Cancel
<1>2. /\ ~ Idle(t) /\ Takes(t, Head(todo[t])) /\ Head(todo[t]).op = "cancel"
      /\ Head(todo[t]).arg = Arg(t)
    BY <1>1, StepTaken
<1>3. /\ OnlyMoves(t)
      /\ todo'[t] # << >> => Follows(Head(todo[t]), Head(todo'[t]))
    BY <1>1, <1>2, StepEnds DEF OnlyMoves
<1> QED BY <1>2, <1>3 DEF Takes, Follows, GoesOn, Steps

\* Shutdown ends.
LEMMA DownCalls ==
    ASSUME TodoInv, NEW t \in Threads, Down(t)
    PROVE  /\ OnlyMoves(t)
           /\ t \in App
           /\ todo'[t] = << >>
<1>1. At(t, "down") /\ Goes(t, << >>)
    BY DEF Down
<1>2. /\ ~ Idle(t) /\ Takes(t, Head(todo[t])) /\ Head(todo[t]).op = "down"
      /\ Head(todo[t]).arg = Arg(t)
    BY <1>1, StepTaken
<1>3. /\ OnlyMoves(t)
      /\ todo'[t] # << >> => Follows(Head(todo[t]), Head(todo'[t]))
    BY <1>1, <1>2, StepEnds DEF OnlyMoves
<1> QED BY <1>2, <1>3 DEF Takes, Follows, GoesOn, Steps

\* A thread that makes a call of one step.
LEMMA CallOne ==
    ASSUME TodoInv, NEW t \in Threads, NEW s, Takes(t, s), Call(t, <<s>>)
    PROVE  OnlyMoves(t) /\ Idle(t) /\ GoesTo(t, s)
<1>1. Well(t, <<s>>) /\ <<s>> # << >> /\ Head(<<s>>) = s
    BY WellOne
<1> QED BY <1>1, CallStep DEF OnlyMoves, GoesTo

\* A callback that leaves its thread nothing to do.
LEMMA CallNone ==
    ASSUME TodoInv, NEW t \in Threads, Call(t, << >>)
    PROVE  OnlyMoves(t) /\ Idle(t) /\ todo'[t] = << >>
BY WellNil, CallStep DEF OnlyMoves

\* The network thread reports a connection that came up ...
LEMMA DialUpCalls ==
    ASSUME TodoInv, DialUp
    PROVE  OnlyMoves(IO) /\ Idle(IO) /\ GoesTo(IO, Step("exchange", "connected"))
<1>1. Takes(IO, Step("exchange", "connected"))
    BY Distinct DEF Takes, Steps, Step, NetStates
<1> QED BY <1>1, CallOne, Distinct DEF DialUp

\* ... and one that failed or went down ...
LEMMA TakesDown == Takes(IO, Step("exchange", "disconnected"))
BY Distinct DEF Takes, Steps, Step, NetStates

LEMMA SocketDownCalls ==
    ASSUME TodoInv, SocketDown
    PROVE  OnlyMoves(IO) /\ Idle(IO) /\ GoesTo(IO, Step("exchange", "disconnected"))
BY TakesDown, CallOne, Distinct DEF SocketDown

\* ... but not always one that the application closes.
LEMMA LoopStopsCalls ==
    ASSUME TodoInv, LoopStops
    PROVE  /\ OnlyMoves(IO) /\ Idle(IO)
           /\ todo'[IO] = << >> \/ GoesTo(IO, Step("exchange", "disconnected"))
<1>1. CASE Call(IO, << >>)
    BY <1>1, CallNone, Distinct
<1>2. CASE Call(IO, <<Step("exchange", "disconnected")>>)
    BY <1>2, TakesDown, CallOne, Distinct
<1> QED BY <1>1, <1>2 DEF LoopStops

\* A kick is dealt with in the callback.
LEMMA KickNotifyCalls ==
    ASSUME TodoInv, KickNotify
    PROVE  OnlyMoves(IO) /\ Idle(IO) /\ todo'[IO] = << >>
BY CallNone, Distinct DEF KickNotify

\* A response is answered if its request is still in pending_.
LEMMA HandleResponseCalls ==
    ASSUME TodoInv, NEW r \in Requests, HandleResponse(r)
    PROVE  /\ OnlyMoves(IO) /\ Idle(IO)
           /\ IF r \in pending THEN GoesTo(IO, Step("answer", r)) ELSE todo'[IO] = << >>
<1>1. CASE r \in pending
    <2>1. Takes(IO, Step("answer", r))
        BY DEF Takes, Steps, Step
    <2>2. Call(IO, <<Step("answer", r)>>)
        BY <1>1 DEF HandleResponse
    <2> QED BY <1>1, <2>1, <2>2, CallOne, Distinct
<1>2. CASE r \notin pending
    <2>1. Call(IO, << >>)
        BY <1>2 DEF HandleResponse
    <2> QED BY <1>2, <2>1, CallNone, Distinct
<1> QED BY <1>1, <1>2

\* The reconnect timer dials, unless reconnecting was stopped.
LEMMA TimerFiresCalls ==
    ASSUME TodoInv, TimerFires
    PROVE  /\ OnlyMoves(Reconnector) /\ Idle(Reconnector)
           /\ GoesOn(Reconnector, {Step("connect", None)})
<1>1. CASE stopped
    <2>1. Call(Reconnector, << >>)
        BY <1>1 DEF TimerFires
    <2> QED BY <2>1, CallNone, Distinct DEF GoesOn
<1>2. CASE ~ stopped
    <2>1. Takes(Reconnector, Step("connect", None))
        BY Distinct DEF Takes, Steps, Step, Plain
    <2>2. Call(Reconnector, <<Step("connect", None)>>)
        BY <1>2 DEF TimerFires
    <2> QED BY <2>1, <2>2, CallOne, Distinct DEF GoesOn, GoesTo
<1> QED BY <1>1, <1>2

\* The timeout checker takes the expired requests along.
LEMMA CheckTimeoutsCalls ==
    ASSUME TodoInv, pending \subseteq Requests, CheckTimeouts
    PROVE  /\ OnlyMoves(Checker) /\ Idle(Checker)
           /\ \E expired \in (SUBSET pending) \ {{}} :
                 pending' = pending \ expired /\ GoesTo(Checker, Step("timeout", expired))
<1>1. PICK expired \in (SUBSET pending) \ {{}} :
          pending' = pending \ expired /\ Call(Checker, <<Step("timeout", expired)>>)
    BY DEF CheckTimeouts
<1>2. Takes(Checker, Step("timeout", expired))
    BY <1>1 DEF Takes, Steps, Step
<1>3. OnlyMoves(Checker) /\ Idle(Checker) /\ GoesTo(Checker, Step("timeout", expired))
    BY <1>1, <1>2, CallOne, Distinct
<1> QED BY <1>1, <1>3

\* The application's calls: Connect ...
LEMMA CallConnectCalls ==
    ASSUME TodoInv, NEW a \in App, CallConnect(a)
    PROVE  OnlyMoves(a) /\ Idle(a) /\ GoesTo(a, Step("connect", None))
<1>1. Takes(a, Step("connect", None)) /\ a \in Threads
    BY Distinct DEF Takes, Steps, Step, Plain
<1> QED BY <1>1, CallOne DEF CallConnect, AppCalls

\* ... a request ...
LEMMA CallRequestCalls ==
    ASSUME TodoInv, NEW a \in App, NEW r \in Requests, CallRequest(a, r)
    PROVE  OnlyMoves(a) /\ Idle(a) /\ GoesTo(a, Step("register", r))
<1>1. r \notin Syncs
    BY ClientAssumption DEF CallRequest
<1>2. Takes(a, Step("register", r)) /\ a \in Threads
    BY <1>1, Distinct DEF Takes, Steps, Step
<1> QED BY <1>2, CallOne DEF CallRequest, AppCalls

\* ... Disconnect, and Shutdown, which begins with the stop of the reconnecting.
LEMMA CallDisconnectCalls ==
    ASSUME TodoInv, NEW a \in App, CallDisconnect(a)
    PROVE  OnlyMoves(a) /\ Idle(a) /\ todo'[a] # << >> /\ Head(todo'[a]).op = "lock"
BY WellClose, CallStep, Distinct DEF CallDisconnect, AppCalls, OnlyMoves

LEMMA CallShutdownCalls ==
    ASSUME TodoInv, NEW a \in App, CallShutdown(a)
    PROVE  OnlyMoves(a) /\ Idle(a) /\ todo'[a] # << >> /\ Head(todo'[a]).op = "stop"
<1> DEFINE q == <<Step("stop", None)>> \o CloseSteps \o <<Step("cancel", None), Step("down", None)>>
<1>1. Well(a, q) /\ q # << >> /\ Head(q).op = "stop"
    BY WellClose
<1>2. Call(a, q)
    BY DEF CallShutdown, AppCalls
<1> HIDE DEF q
<1> QED BY <1>1, <1>2, CallStep, Distinct DEF OnlyMoves

-----------------------------------------------------------------------------
\* Types: every call is in one of its states

LEMMA TypesInit == Init => TodoInv /\ StateTypeOK
BY WellNil DEF Init, TodoInv, StateTypeOK, NetStates

LEMMA TypesStep ==
    ASSUME TodoInv, StateTypeOK, [Next]_vars
    PROVE  TodoInv' /\ StateTypeOK'
<1>0. pending \subseteq Requests
    BY DEF StateTypeOK
<1>1. ASSUME NEW a \in App, CallConnect(a) PROVE TodoInv' /\ StateTypeOK'
    BY <1>1, CallConnectCalls
       DEF OnlyMoves, StateTypeOK, CallConnect, AppCalls, netVars, ctxVars, reqVars
<1>2. ASSUME NEW a \in App, CallDisconnect(a) PROVE TodoInv' /\ StateTypeOK'
    BY <1>2, CallDisconnectCalls
       DEF OnlyMoves, StateTypeOK, CallDisconnect, AppCalls, netVars, ctxVars, reqVars
<1>3. ASSUME NEW a \in App, CallShutdown(a) PROVE TodoInv' /\ StateTypeOK'
    BY <1>3, CallShutdownCalls
       DEF OnlyMoves, StateTypeOK, CallShutdown, AppCalls, netVars, ctxVars, reqVars
<1>4. ASSUME NEW a \in App, NEW r \in Requests, CallRequest(a, r) PROVE TodoInv' /\ StateTypeOK'
    BY <1>4, CallRequestCalls
       DEF OnlyMoves, StateTypeOK, CallRequest, AppCalls, netVars, ctxVars, reqVars
<1>5. ASSUME NEW t \in Threads, ConnectStart(t) PROVE TodoInv' /\ StateTypeOK'
    BY <1>5, ConnectStartCalls DEF OnlyMoves, StateTypeOK, ConnectStart, netVars, ctxVars, reqVars
<1>6. ASSUME NEW t \in Threads, Exchange(t) PROVE TodoInv' /\ StateTypeOK'
    BY <1>6, ExchangeCalls
       DEF OnlyMoves, StateTypeOK, Exchange, netVars, ctxVars, reqVars, NetStates
<1>7. ASSUME NEW t \in Threads, Create(t) PROVE TodoInv' /\ StateTypeOK'
    BY <1>7, CreateCalls DEF OnlyMoves, StateTypeOK, Create, netVars, ctxVars, reqVars
<1>8. ASSUME NEW t \in Threads, Notify(t) PROVE TodoInv' /\ StateTypeOK'
    BY <1>8, NotifyCalls
       DEF OnlyMoves, StateTypeOK, Notify, netVars, ctxVars, reqVars, DownState, OnStateChanged,
           NetStates
<1>9. ASSUME NEW t \in Threads, Lock(t) PROVE TodoInv' /\ StateTypeOK'
    BY <1>9, LockCalls DEF OnlyMoves, StateTypeOK, Lock, netVars, ctxVars, reqVars
<1>10. ASSUME NEW t \in Threads, Join(t) PROVE TodoInv' /\ StateTypeOK'
    BY <1>10, JoinCalls DEF OnlyMoves, StateTypeOK, Join, netVars, ctxVars, reqVars
<1>11. ASSUME NEW t \in Threads, Send(t) PROVE TodoInv' /\ StateTypeOK'
    BY <1>11, SendCalls DEF OnlyMoves, StateTypeOK, Send, netVars, ctxVars, reqVars
<1>12. ASSUME NEW t \in Threads, Register(t) PROVE TodoInv' /\ StateTypeOK'
    BY <1>12, RegisterCalls DEF OnlyMoves, StateTypeOK, Register, netVars, ctxVars, reqVars
<1>13. ASSUME NEW t \in Threads, Answer(t) PROVE TodoInv' /\ StateTypeOK'
    BY <1>13, AnswerCalls DEF OnlyMoves, StateTypeOK, Answer, netVars, ctxVars, reqVars
<1>14. ASSUME NEW t \in Threads, SyncSend(t) PROVE TodoInv' /\ StateTypeOK'
    BY <1>14, SyncSendCalls DEF OnlyMoves, StateTypeOK, SyncSend, netVars, ctxVars, reqVars
<1>15. ASSUME NEW t \in Threads, Timeout(t) PROVE TodoInv' /\ StateTypeOK'
    BY <1>15, TimeoutCalls DEF OnlyMoves, StateTypeOK, Timeout, netVars, ctxVars, reqVars
<1>16. ASSUME NEW t \in Threads, Stop(t) PROVE TodoInv' /\ StateTypeOK'
    BY <1>16, StopCalls DEF OnlyMoves, StateTypeOK, Stop, netVars, ctxVars, reqVars
<1>17. ASSUME NEW t \in Threads, Cancel(t) PROVE TodoInv' /\ StateTypeOK'
    BY <1>17, CancelCalls DEF OnlyMoves, StateTypeOK, Cancel, netVars, ctxVars, reqVars
<1>18. ASSUME NEW t \in Threads, Down(t) PROVE TodoInv' /\ StateTypeOK'
    BY <1>18, DownCalls DEF OnlyMoves, StateTypeOK, Down, netVars, ctxVars, reqVars, NetStates
<1>19. CASE DialUp
    BY <1>19, DialUpCalls DEF OnlyMoves, StateTypeOK, DialUp, netVars, ctxVars, reqVars
<1>20. CASE SocketDown
    BY <1>20, SocketDownCalls DEF OnlyMoves, StateTypeOK, SocketDown, netVars, ctxVars, reqVars
<1>21. CASE LoopStops
    BY <1>21, LoopStopsCalls DEF OnlyMoves, StateTypeOK, LoopStops, netVars, ctxVars, reqVars
<1>22. CASE KickNotify
    BY <1>22, KickNotifyCalls
       DEF OnlyMoves, StateTypeOK, KickNotify, netVars, ctxVars, reqVars, NetStates
<1>23. ASSUME NEW r \in Requests, HandleResponse(r) PROVE TodoInv' /\ StateTypeOK'
    BY <1>23, HandleResponseCalls
       DEF OnlyMoves, StateTypeOK, HandleResponse, netVars, ctxVars, reqVars
<1>24. CASE TimerFires
    BY <1>24, TimerFiresCalls DEF OnlyMoves, StateTypeOK, TimerFires, netVars, ctxVars, reqVars
<1>25. CASE CheckTimeouts
    BY <1>0, <1>25, CheckTimeoutsCalls
       DEF OnlyMoves, StateTypeOK, CheckTimeouts, netVars, ctxVars, reqVars
<1>26. CASE UNCHANGED vars
    BY <1>26 DEF vars, TodoInv, StateTypeOK, netVars, ctxVars, reqVars
<1> QED
    BY <1>1, <1>2, <1>3, <1>4, <1>5, <1>6, <1>7, <1>8, <1>9, <1>10, <1>11, <1>12, <1>13, <1>14,
       <1>15, <1>16, <1>17, <1>18, <1>19, <1>20, <1>21, <1>22, <1>23, <1>24, <1>25, <1>26
    DEF Next, AppCall, Proceed, Network

\* Every thread's call is in a state that the code of the call can be in, and the fields
\* hold values of their types.
THEOREM CallsAreWellFormed == Spec => [](TodoInv /\ StateTypeOK)
<1>1. TodoInv /\ StateTypeOK /\ [Next]_vars => (TodoInv /\ StateTypeOK)'
    BY TypesStep
<1> QED BY TypesInit, <1>1, PTL DEF Spec

-----------------------------------------------------------------------------
\* KickIsFinal

\* KickNotify stops the reconnecting, nothing starts it again, and only a report of a lost
\* connection arms the timer, if reconnecting was not stopped.
LEMMA KickStep ==
    ASSUME KickInv, [Next]_vars
    PROVE  KickInv'
<1>1. ASSUME NEW a \in App, CallConnect(a) PROVE KickInv'
    BY <1>1 DEF KickInv, CallConnect, AppCalls, ctxVars, history
<1>2. ASSUME NEW a \in App, CallDisconnect(a) PROVE KickInv'
    BY <1>2 DEF KickInv, CallDisconnect, AppCalls, ctxVars, history
<1>3. ASSUME NEW a \in App, CallShutdown(a) PROVE KickInv'
    BY <1>3 DEF KickInv, CallShutdown, AppCalls, ctxVars, history
<1>4. ASSUME NEW a \in App, NEW r \in Requests, CallRequest(a, r) PROVE KickInv'
    BY <1>4 DEF KickInv, CallRequest, AppCalls, ctxVars, history
<1>5. ASSUME NEW t \in Threads, ConnectStart(t) PROVE KickInv'
    BY <1>5 DEF KickInv, ConnectStart, ctxVars, history
<1>6. ASSUME NEW t \in Threads, Exchange(t) PROVE KickInv'
    BY <1>6 DEF KickInv, Exchange, ctxVars, history
<1>7. ASSUME NEW t \in Threads, Create(t) PROVE KickInv'
    BY <1>7 DEF KickInv, Create, ctxVars, history
<1>8. ASSUME NEW t \in Threads, Notify(t) PROVE KickInv'
    BY <1>8 DEF KickInv, Notify, OnStateChanged, ctxVars, history
<1>9. ASSUME NEW t \in Threads, Lock(t) PROVE KickInv'
    BY <1>9 DEF KickInv, Lock, ctxVars, history
<1>10. ASSUME NEW t \in Threads, Join(t) PROVE KickInv'
    BY <1>10 DEF KickInv, Join, ctxVars, history
<1>11. ASSUME NEW t \in Threads, Send(t) PROVE KickInv'
    BY <1>11 DEF KickInv, Send, ctxVars, history
<1>12. ASSUME NEW t \in Threads, Register(t) PROVE KickInv'
    BY <1>12 DEF KickInv, Register, ctxVars, history
<1>13. ASSUME NEW t \in Threads, Answer(t) PROVE KickInv'
    BY <1>13 DEF KickInv, Answer, ctxVars, history
<1>14. ASSUME NEW t \in Threads, SyncSend(t) PROVE KickInv'
    BY <1>14 DEF KickInv, SyncSend, ctxVars, history
<1>15. ASSUME NEW t \in Threads, Timeout(t) PROVE KickInv'
    BY <1>15 DEF KickInv, Timeout, ctxVars, history
<1>16. ASSUME NEW t \in Threads, Stop(t) PROVE KickInv'
    BY <1>16 DEF KickInv, Stop, ctxVars, history
<1>17. ASSUME NEW t \in Threads, Cancel(t) PROVE KickInv'
    BY <1>17 DEF KickInv, Cancel, ctxVars, history
<1>18. ASSUME NEW t \in Threads, Down(t) PROVE KickInv'
    BY <1>18 DEF KickInv, Down, ctxVars, history
<1>19. CASE DialUp
    BY <1>19 DEF KickInv, DialUp, ctxVars, history
<1>20. CASE SocketDown
    BY <1>20 DEF KickInv, SocketDown, ctxVars, history
<1>21. CASE LoopStops
    BY <1>21 DEF KickInv, LoopStops, ctxVars, history
<1>22. CASE KickNotify
    BY <1>22 DEF KickInv, KickNotify, ctxVars, history
<1>23. ASSUME NEW r \in Requests, HandleResponse(r) PROVE KickInv'
    BY <1>23 DEF KickInv, HandleResponse, ctxVars, history
<1>24. CASE TimerFires
    BY <1>24 DEF KickInv, TimerFires, ctxVars, history
<1>25. CASE CheckTimeouts
    BY <1>25 DEF KickInv, CheckTimeouts, ctxVars, history
<1>26. CASE UNCHANGED vars
    BY <1>26 DEF vars, KickInv, ctxVars, history
<1> QED
    BY <1>1, <1>2, <1>3, <1>4, <1>5, <1>6, <1>7, <1>8, <1>9, <1>10, <1>11, <1>12, <1>13, <1>14,
       <1>15, <1>16, <1>17, <1>18, <1>19, <1>20, <1>21, <1>22, <1>23, <1>24, <1>25, <1>26
    DEF Next, AppCall, Proceed, Network

\* No reconnect timer is armed after a KickNotify, for any number of threads, requests,
\* connections and shutdowns.
THEOREM ReconnectingEndsWithKick == Spec => []KickIsFinal
<1>1. Init => KickInv
    BY DEF Init, KickInv
<1>2. KickInv /\ [Next]_vars => KickInv'
    BY KickStep
<1>3. KickInv => KickIsFinal
    BY DEF KickInv, KickIsFinal
<1> QED BY <1>1, <1>2, <1>3, PTL DEF Spec

-----------------------------------------------------------------------------
\* OneOutcome

\* The network thread registers the sync requests, the application's threads the others.
LEMMA RegisteringThread ==
    ASSUME TodoInv, NEW t \in Threads, NEW r, Registering(t, r)
    PROVE  IF r \in Syncs THEN t = IO ELSE t \in App
<1>1. Takes(t, Head(todo[t])) /\ Head(todo[t]).op = "register" /\ Head(todo[t]).arg = r
    BY StepTaken DEF Registering
<1> QED BY <1>1 DEF Takes

\* A step that neither registers, answers nor times out a request.
LEMMA QuietStep ==
    ASSUME TodoInv, OutcomeInv, NEW t \in Threads, OnlyMoves(t),
           todo'[t] # << >> => Head(todo'[t]).op \notin {"answer", "timeout", "register"},
           issued' = issued, calls' = calls, pending' \subseteq pending
    PROVE  OutcomeInv'
<1>1. \A x \in Requests : (Answering(x)' => Answering(x)) /\ (Expiring(x)' => Expiring(x))
    BY Distinct DEF OnlyMoves, Answering, Expiring, At, Arg
<1>2. \A u \in Threads, x \in Requests : Registering(u, x)' => Registering(u, x)
    BY DEF OnlyMoves, Registering, At, Arg
<1> QED BY <1>1, <1>2 DEF OutcomeInv

\* A request has at most one place: only the thread that takes it out of pending_ runs its
\* callback, and a request is registered by one thread, once.
LEMMA OutcomeStep ==
    ASSUME TodoInv, OutcomeInv, [Next]_vars
    PROVE  OutcomeInv'
<1>1. ASSUME NEW a \in App, CallConnect(a) PROVE OutcomeInv'
    <2>1. issued' = issued /\ pending' \subseteq pending /\ calls' = calls
        BY <1>1 DEF CallConnect, AppCalls, reqVars, history
    <2> QED BY <1>1, <2>1, CallConnectCalls, QuietStep, Distinct DEF GoesOn, GoesTo, Step
<1>2. ASSUME NEW a \in App, CallDisconnect(a) PROVE OutcomeInv'
    <2>1. issued' = issued /\ pending' \subseteq pending /\ calls' = calls
        BY <1>2 DEF CallDisconnect, AppCalls, reqVars, history
    <2> QED BY <1>2, <2>1, CallDisconnectCalls, QuietStep, Distinct DEF GoesOn, GoesTo, Step
<1>3. ASSUME NEW a \in App, CallShutdown(a) PROVE OutcomeInv'
    <2>1. issued' = issued /\ pending' \subseteq pending /\ calls' = calls
        BY <1>3 DEF CallShutdown, AppCalls, reqVars, history
    <2> QED BY <1>3, <2>1, CallShutdownCalls, QuietStep, Distinct DEF GoesOn, GoesTo, Step
<1>4. ASSUME NEW a \in App, NEW r \in Requests, CallRequest(a, r) PROVE OutcomeInv'
    <2>1. OnlyMoves(a) /\ GoesTo(a, Step("register", r)) /\ a \in Threads
        BY <1>4, CallRequestCalls, Distinct
    <2>2. /\ issued' = issued /\ pending' = pending /\ calls' = calls /\ r \notin issued
          /\ \A b \in App : ~ Registering(b, r)
        BY <1>4 DEF CallRequest, AppCalls, reqVars, Registering, At, Arg
    <2>3. \A u \in Threads : ~ Registering(u, r)
        <3>1. r \notin Syncs
            BY <1>4, ClientAssumption DEF CallRequest
        <3> QED BY <2>2, <3>1, RegisteringThread
    <2>4. \A x \in Requests : Answering(x)' = Answering(x) /\ Expiring(x)' = Expiring(x)
        BY <2>1, Distinct DEF OnlyMoves, Answering, Expiring, At, Arg
    <2>5. \A u \in Threads, x \in Requests :
              Registering(u, x)' => (Registering(u, x) /\ u # a) \/ (u = a /\ x = r)
        BY <2>1 DEF OnlyMoves, GoesTo, Registering, At, Arg, Step
    <2> QED BY <2>2, <2>3, <2>4, <2>5 DEF OutcomeInv
<1>5. ASSUME NEW t \in Threads, ConnectStart(t) PROVE OutcomeInv'
    <2>1. issued' = issued /\ pending' \subseteq pending /\ calls' = calls
        BY <1>5 DEF ConnectStart, reqVars, history
    <2> QED BY <1>5, <2>1, ConnectStartCalls, QuietStep, Distinct DEF GoesOn, GoesTo, Step
<1>6. ASSUME NEW t \in Threads, Exchange(t) PROVE OutcomeInv'
    <2>1. issued' = issued /\ pending' \subseteq pending /\ calls' = calls
        BY <1>6 DEF Exchange, reqVars, history
    <2>2. OnlyMoves(t) /\ (todo'[t] # << >> => Head(todo'[t]).op \in {"notify", "create", "cancel"})
        <3>1. CASE tcp # Arg(t)
            <4>1. OnlyMoves(t) /\ GoesTo(t, Step("notify", Arg(t)))
                BY <1>6, <3>1, ExchangeCalls
            <4> QED BY <4>1 DEF GoesTo, Step
        <3>2. CASE tcp = Arg(t)
            <4>1. /\ OnlyMoves(t)
                  /\ \/ todo'[t] = << >> \/ GoesTo(t, Step("create", None))
                     \/ GoesTo(t, Step("cancel", None))
                BY <1>6, <3>2, ExchangeCalls
            <4> QED BY <4>1 DEF GoesTo, Step
        <3> QED BY <3>1, <3>2
    <2> QED BY <2>1, <2>2, QuietStep
<1>7. ASSUME NEW t \in Threads, Create(t) PROVE OutcomeInv'
    <2>1. issued' = issued /\ pending' \subseteq pending /\ calls' = calls
        BY <1>7 DEF Create, reqVars, history
    <2> QED BY <1>7, <2>1, CreateCalls, QuietStep, Distinct DEF GoesOn, GoesTo, Step
<1>8. ASSUME NEW t \in Threads, Notify(t) PROVE OutcomeInv'
    <2>1. issued' = issued /\ pending' \subseteq pending /\ calls' = calls
        BY <1>8 DEF Notify, reqVars, history
    <2> QED BY <1>8, <2>1, NotifyCalls, QuietStep, Distinct DEF GoesOn, GoesTo, Step
<1>9. ASSUME NEW t \in Threads, Lock(t) PROVE OutcomeInv'
    <2>1. issued' = issued /\ pending' \subseteq pending /\ calls' = calls
        BY <1>9 DEF Lock, reqVars, history
    <2> QED BY <1>9, <2>1, LockCalls, QuietStep, Distinct DEF GoesOn, GoesTo, Step
<1>10. ASSUME NEW t \in Threads, Join(t) PROVE OutcomeInv'
    <2>1. issued' = issued /\ pending' \subseteq pending /\ calls' = calls
        BY <1>10 DEF Join, reqVars, history
    <2> QED BY <1>10, <2>1, JoinCalls, QuietStep, Distinct DEF GoesOn, GoesTo, Step
<1>11. ASSUME NEW t \in Threads, Send(t) PROVE OutcomeInv'
    <2>1. issued' = issued /\ pending' \subseteq pending /\ calls' = calls
        BY <1>11 DEF Send, reqVars, history
    <2> QED BY <1>11, <2>1, SendCalls, QuietStep, Distinct DEF GoesOn, GoesTo, Step
<1>12. ASSUME NEW t \in Threads, Register(t) PROVE OutcomeInv'
    <2> DEFINE r == Arg(t)
    <2>1. OnlyMoves(t) /\ GoesTo(t, Step("send", r)) /\ r \in Requests /\ Registering(t, r)
        BY <1>12, RegisterCalls DEF Register, Registering
    <2>2. issued' = issued \cup {r} /\ pending' = pending \cup {r} /\ calls' = calls
        BY <1>12 DEF Register
    <2>3. r \notin issued /\ \A u \in Threads : Registering(u, r) => u = t
        BY <2>1 DEF OutcomeInv
    <2>4. \A x \in Requests : (Answering(x)' => Answering(x)) /\ (Expiring(x)' => Expiring(x))
        BY <2>1, Distinct DEF OnlyMoves, GoesTo, Step, Answering, Expiring, At, Arg
    <2>5. \A u \in Threads, x \in Requests : Registering(u, x)' => Registering(u, x) /\ u # t
        BY <2>1 DEF OnlyMoves, GoesTo, Step, Registering, At, Arg
    <2> HIDE DEF r
    <2> QED BY <2>1, <2>2, <2>3, <2>4, <2>5 DEF OutcomeInv
<1>13. ASSUME NEW t \in Threads, Answer(t) PROVE OutcomeInv'
    <2> DEFINE r == Arg(t)
    <2>1. OnlyMoves(t) /\ GoesOn(t, {Step("sync", None)}) /\ t = IO /\ r \in Requests
        BY <1>13, AnswerCalls
    <2>2. Answering(r) /\ issued' = issued /\ pending' = pending
        BY <1>13, <2>1 DEF Answer, Answering, reqVars
    <2>3. calls' = [calls EXCEPT ![r] = @ + 1]
        BY <1>13 DEF Answer, RunCallback
    <2>4. r \in issued /\ r \notin pending /\ ~ Expiring(r) /\ calls[r] = 0
        BY <2>1, <2>2 DEF OutcomeInv
    <2>5. calls'[r] = 1 /\ (\A x \in Requests \ {r} : calls'[x] = calls[x]) /\ calls' \in [Requests -> {0, 1}]
        BY <2>1, <2>3, <2>4 DEF OutcomeInv
    <2>6. \A x \in Requests : ~ Answering(x)' /\ Expiring(x)' = Expiring(x)
        BY <2>1, Distinct DEF OnlyMoves, GoesOn, Step, Answering, Expiring, At, Arg
    <2>7. \A u \in Threads, x \in Requests : Registering(u, x)' => Registering(u, x)
        BY <2>1 DEF OnlyMoves, GoesOn, Step, Registering, At, Arg
    <2> HIDE DEF r
    <2> QED BY <2>1, <2>2, <2>4, <2>5, <2>6, <2>7 DEF OutcomeInv
<1>14. ASSUME NEW t \in Threads, SyncSend(t) PROVE OutcomeInv'
    <2>1. /\ OnlyMoves(t) /\ t = IO
          /\ todo'[t] = << >> \/ \E s \in Syncs \ issued : GoesTo(t, Step("register", s))
        BY <1>14, SyncSendCalls
    <2>2. issued' = issued /\ pending' = pending /\ calls' = calls
        BY <1>14 DEF SyncSend, reqVars, history
    <2>3. CASE todo'[t] = << >>
        BY <2>1, <2>2, <2>3, QuietStep
    <2>4. ASSUME NEW s \in Syncs \ issued, GoesTo(t, Step("register", s))
          PROVE  OutcomeInv'
        <3>1. s \in Requests /\ \A u \in Threads : Registering(u, s) => u = IO
            BY RegisteringThread DEF Requests
        <3>2. \A x \in Requests : ~ Answering(x)' /\ Expiring(x)' = Expiring(x)
            BY <2>1, <2>4, Distinct DEF OnlyMoves, GoesTo, Step, Answering, Expiring, At, Arg
        <3>3. \A u \in Threads, x \in Requests :
                  Registering(u, x)' => (Registering(u, x) /\ u # IO) \/ (u = IO /\ x = s)
            BY <2>1, <2>4 DEF OnlyMoves, GoesTo, Step, Registering, At, Arg
        <3> QED BY <2>2, <3>1, <3>2, <3>3 DEF OutcomeInv
    <2> QED BY <2>1, <2>3, <2>4
<1>15. ASSUME NEW t \in Threads, Timeout(t) PROVE OutcomeInv'
    <2>1. OnlyMoves(t) /\ t = Checker /\ Arg(t) \subseteq Requests
        BY <1>15, TimeoutCalls
    <2>2. PICK r \in Arg(t) :
              /\ RunCallback(r)
              /\ \/ Arg(t) = {r} /\ todo'[t] = << >>
                 \/ Arg(t) # {r} /\ GoesTo(t, Step("timeout", Arg(t) \ {r}))
        BY <1>15, TimeoutCalls
    <2>3. At(t, "timeout") /\ issued' = issued /\ pending' = pending
        BY <1>15 DEF Timeout, reqVars
    <2>4. Expiring(r) /\ r \in Requests
        BY <2>1, <2>2, <2>3 DEF Expiring
    <2>5. r \in issued /\ r \notin pending /\ ~ Answering(r) /\ calls[r] = 0
        BY <2>4 DEF OutcomeInv
    <2>6. calls'[r] = 1 /\ (\A x \in Requests \ {r} : calls'[x] = calls[x]) /\ calls' \in [Requests -> {0, 1}]
        BY <2>2, <2>4, <2>5 DEF OutcomeInv, RunCallback
    <2>7. \A x \in Requests : Answering(x)' = Answering(x)
        BY <2>1, Distinct DEF OnlyMoves, Answering, At, Arg
    <2>8. \A x \in Requests : Expiring(x)' => Expiring(x) /\ x # r
        BY <2>1, <2>2, <2>3 DEF GoesTo, Step, Expiring, At, Arg
    <2>9. \A u \in Threads, x \in Requests : Registering(u, x)' => Registering(u, x)
        BY <2>1, <2>2 DEF OnlyMoves, GoesTo, Step, Registering, At, Arg
    <2> QED BY <2>3, <2>4, <2>5, <2>6, <2>7, <2>8, <2>9 DEF OutcomeInv
<1>16. ASSUME NEW t \in Threads, Stop(t) PROVE OutcomeInv'
    <2>1. issued' = issued /\ pending' \subseteq pending /\ calls' = calls
        BY <1>16 DEF Stop, reqVars, history
    <2> QED BY <1>16, <2>1, StopCalls, QuietStep, Distinct DEF GoesOn, GoesTo, Step
<1>17. ASSUME NEW t \in Threads, Cancel(t) PROVE OutcomeInv'
    <2>1. issued' = issued /\ pending' \subseteq pending /\ calls' = calls
        BY <1>17 DEF Cancel, reqVars, history
    <2> QED BY <1>17, <2>1, CancelCalls, QuietStep, Distinct DEF GoesOn, GoesTo, Step
<1>18. ASSUME NEW t \in Threads, Down(t) PROVE OutcomeInv'
    <2>1. issued' = issued /\ pending' \subseteq pending /\ calls' = calls
        BY <1>18 DEF Down, reqVars, history
    <2> QED BY <1>18, <2>1, DownCalls, QuietStep, Distinct DEF GoesOn, GoesTo, Step
<1>19. CASE DialUp
    <2>1. issued' = issued /\ pending' \subseteq pending /\ calls' = calls
        BY <1>19 DEF DialUp, reqVars, history
    <2> QED BY <1>19, <2>1, DialUpCalls, QuietStep, Distinct DEF GoesOn, GoesTo, Step
<1>20. CASE SocketDown
    <2>1. issued' = issued /\ pending' \subseteq pending /\ calls' = calls
        BY <1>20 DEF SocketDown, reqVars, history
    <2> QED BY <1>20, <2>1, SocketDownCalls, QuietStep, Distinct DEF GoesOn, GoesTo, Step
<1>21. CASE LoopStops
    <2>1. issued' = issued /\ pending' \subseteq pending /\ calls' = calls
        BY <1>21 DEF LoopStops, reqVars, history
    <2> QED BY <1>21, <2>1, LoopStopsCalls, QuietStep, Distinct DEF GoesOn, GoesTo, Step
<1>22. CASE KickNotify
    <2>1. issued' = issued /\ pending' \subseteq pending /\ calls' = calls
        BY <1>22 DEF KickNotify, reqVars, history
    <2> QED BY <1>22, <2>1, KickNotifyCalls, QuietStep, Distinct DEF GoesOn, GoesTo, Step
<1>23. ASSUME NEW r \in Requests, HandleResponse(r) PROVE OutcomeInv'
    <2>1. /\ OnlyMoves(IO) /\ Idle(IO)
          /\ IF r \in pending THEN GoesTo(IO, Step("answer", r)) ELSE todo'[IO] = << >>
        BY <1>23, HandleResponseCalls
    <2>2. issued' = issued /\ pending' = pending \ {r} /\ calls' = calls
        BY <1>23 DEF HandleResponse, history
    <2>3. CASE r \notin pending
        BY <2>1, <2>2, <2>3, QuietStep, Distinct
    <2>4. CASE r \in pending
        <3>1. r \in issued /\ ~ Expiring(r) /\ calls[r] = 0
            BY <2>4 DEF OutcomeInv
        <3>2. \A x \in Requests : Answering(x)' => x = r
            BY <2>1, <2>4 DEF GoesTo, Step, Answering, At, Arg
        <3>3. \A x \in Requests : Expiring(x)' = Expiring(x)
            BY <2>1, Distinct DEF OnlyMoves, Expiring, At, Arg
        <3>4. \A u \in Threads, x \in Requests : Registering(u, x)' => Registering(u, x)
            BY <2>1, <2>4 DEF OnlyMoves, GoesTo, Step, Registering, At, Arg
        <3> QED BY <2>2, <3>1, <3>2, <3>3, <3>4 DEF OutcomeInv
    <2> QED BY <2>3, <2>4
<1>24. CASE TimerFires
    <2>1. issued' = issued /\ pending' \subseteq pending /\ calls' = calls
        BY <1>24 DEF TimerFires, reqVars, history
    <2> QED BY <1>24, <2>1, TimerFiresCalls, QuietStep, Distinct DEF GoesOn, GoesTo, Step
<1>25. CASE CheckTimeouts
    <2>1. pending \subseteq Requests
        BY DEF OutcomeInv
    <2>2. OnlyMoves(Checker) /\ Idle(Checker)
        BY <2>1, <1>25, CheckTimeoutsCalls
    <2>3. PICK expired \in (SUBSET pending) \ {{}} :
              pending' = pending \ expired /\ GoesTo(Checker, Step("timeout", expired))
        BY <2>1, <1>25, CheckTimeoutsCalls
    <2>4. issued' = issued /\ calls' = calls
        BY <1>25 DEF CheckTimeouts, history
    <2>5. \A x \in Requests : Answering(x)' = Answering(x)
        BY <2>2, Distinct DEF OnlyMoves, Answering, At, Arg
    <2>6. \A x \in Requests : Expiring(x)' => x \in expired
        BY <2>3 DEF GoesTo, Step, Expiring, At, Arg
    <2>7. \A u \in Threads, x \in Requests : Registering(u, x)' => Registering(u, x)
        BY <2>2, <2>3 DEF OnlyMoves, GoesTo, Step, Registering, At, Arg
    <2> QED BY <2>3, <2>4, <2>5, <2>6, <2>7 DEF OutcomeInv
<1>26. CASE UNCHANGED vars
    BY <1>26 DEF vars, reqVars, history, OutcomeInv, Answering, Expiring, Registering, At, Arg
<1> QED
    BY <1>1, <1>2, <1>3, <1>4, <1>5, <1>6, <1>7, <1>8, <1>9, <1>10, <1>11, <1>12, <1>13, <1>14,
       <1>15, <1>16, <1>17, <1>18, <1>19, <1>20, <1>21, <1>22, <1>23, <1>24, <1>25, <1>26
    DEF Next, AppCall, Proceed, Network

\* A request's callbacks run at most once, for any number of threads, requests, connections
\* and shutdowns: the answer, the timeout and the sweep of a disconnect exclude each other.
THEOREM RequestsHaveOneOutcome == Spec => []OneOutcome
<1>1. Init => OutcomeInv
    BY DEF Init, OutcomeInv, Answering, Expiring, Registering, At, Threads
<1>2. TodoInv /\ OutcomeInv /\ [Next]_vars => OutcomeInv'
    BY OutcomeStep
<1>3. OutcomeInv => OneOutcome
    BY DEF OutcomeInv, OneOutcome
<1> QED BY <1>1, <1>2, <1>3, CallsAreWellFormed, PTL DEF Spec

-----------------------------------------------------------------------------
\* LoggedInIsConnected and StatesAgree

\* Where a thread is that goes on with a step ...
LEMMA AtStep ==
    ASSUME NEW t, NEW op, NEW arg, GoesTo(t, Step(op, arg))
    PROVE  /\ ~ Idle(t)'
           /\ \A o : At(t, o)' <=> o = op
           /\ \A s : /\ Exchanging(t, s)' <=> op = "exchange" /\ s = arg
                     /\ Reporting(t, s)' <=> op = "notify" /\ s = arg
BY DEF GoesTo, Step, Idle, At, Arg, Exchanging, Reporting

\* ... or has come to the end of its call ...
LEMMA AtEnd ==
    ASSUME NEW t, todo'[t] = << >>
    PROVE  /\ Idle(t)'
           /\ \A o : ~ At(t, o)'
           /\ \A s : ~ Exchanging(t, s)' /\ ~ Reporting(t, s)'
BY DEF Idle, At, Exchanging, Reporting

\* ... or is about to take a step ...
LEMMA AtNow ==
    ASSUME NEW t, NEW op, At(t, op)
    PROVE  /\ ~ Idle(t)
           /\ \A o : At(t, o) <=> o = op
           /\ \A s : /\ Exchanging(t, s) <=> op = "exchange" /\ s = Arg(t)
                     /\ Reporting(t, s) <=> op = "notify" /\ s = Arg(t)
BY DEF Idle, At, Exchanging, Reporting

\* ... or stays where it is while another thread takes its step.
LEMMA OthersAt ==
    ASSUME NEW t, OnlyMoves(t), NEW u \in Threads, u # t
    PROVE  /\ Idle(u)' <=> Idle(u)
           /\ \A o : At(u, o)' <=> At(u, o)
           /\ \A s : /\ Exchanging(u, s)' <=> Exchanging(u, s)
                     /\ Reporting(u, s)' <=> Reporting(u, s)
BY DEF OnlyMoves, Idle, At, Arg, Exchanging, Reporting

\* The network thread reports, answers a request or sends the sync requests.
LEMMA IOSteps ==
    ASSUME TodoInv, ~ Idle(IO)
    PROVE  \/ Exchanging(IO, "connected") \/ Exchanging(IO, "disconnected")
           \/ Reporting(IO, "connected") \/ Reporting(IO, "disconnected")
           \/ At(IO, "answer") \/ At(IO, "sync") \/ At(IO, "register") \/ At(IO, "send")
<1> DEFINE op == Head(todo[IO]).op
<1>1. At(IO, op)
    BY DEF At, Idle
<1>2. Takes(IO, Head(todo[IO])) /\ Head(todo[IO]).arg = Arg(IO)
    BY <1>1, StepTaken, Distinct
<1>3. op \in Plain \cup {"exchange", "notify", "register", "send", "answer", "timeout"}
    BY <1>2, TakesFacts
<1>4. op \in {"exchange", "notify"} => Arg(IO) \in {"connected", "disconnected"}
    BY <1>2, TakesFacts, Distinct DEF Takes, NetStates
<1>5. op \in {"exchange", "notify", "answer", "sync", "register", "send"}
    BY <1>2, <1>3, Distinct DEF Takes, Plain
<1> HIDE DEF op
<1> QED BY <1>1, <1>4, <1>5 DEF Exchanging, Reporting

\* The network thread and the socket as they were.
LEMMA NetworkFrame ==
    ASSUME NetworkInv, todo'[IO] = todo[IO], tcp' = tcp, hv' = hv
    PROVE  NetworkInv'
<1>1. /\ Idle(IO)' <=> Idle(IO)
      /\ \A o : At(IO, o)' <=> At(IO, o)
      /\ \A s : (Exchanging(IO, s)' <=> Exchanging(IO, s)) /\ (Reporting(IO, s)' <=> Reporting(IO, s))
    BY DEF Idle, At, Arg, Exchanging, Reporting
<1> QED BY <1>1 DEF NetworkInv, Closed, Live

\* The network thread serves a connection that is up.
LEMMA NetworkServes ==
    ASSUME tcp = "connected", Live, tcp' = tcp, hv' = hv,
           todo'[IO] # << >> => Head(todo'[IO]).op \in {"answer", "sync", "register", "send"}
    PROVE  NetworkInv'
<1>1. \A s : ~ Exchanging(IO, s)' /\ ~ Reporting(IO, s)'
    BY DEF Exchanging, Reporting, At
<1> QED BY <1>1 DEF NetworkInv, Closed, Live

\* Every call of the application's threads that is in progress keeps to its state, unless the
\* connection changes.
LEMMA CallFrame ==
    ASSUME NEW b \in App, CallInv(b), todo'[b] = todo[b], tcp' = tcp, Closed => Closed',
           Idle(IO) => Idle(IO)',
           Reporting(IO, "disconnected") => Idle(IO)' \/ Reporting(IO, "disconnected")'
    PROVE  CallInv(b)'
<1>1. /\ \A o : At(b, o)' <=> At(b, o)
      /\ \A s : (Exchanging(b, s)' <=> Exchanging(b, s)) /\ (Reporting(b, s)' <=> Reporting(b, s))
    BY DEF At, Arg, Exchanging, Reporting
<1> QED BY <1>1 DEF CallInv

\* A call that does not touch the connection says nothing of it ...
LEMMA CallAside ==
    ASSUME NEW b \in App,
           todo'[b] # << >> => Head(todo'[b]).op \notin {"exchange", "notify", "create", "cancel", "down"}
    PROVE  CallInv(b)'
BY DEF CallInv, Exchanging, Reporting, At

\* ... nor does a thread that is in no call while another thread of the application is ...
LEMMA CallOther ==
    ASSUME Settled, NEW t \in App, NEW op, At(t, op), OnlyMoves(t), NEW b \in App, b # t
    PROVE  CallInv(b)'
<1>1. todo'[b] = << >>
    <2>1. ~ Idle(t)
        BY AtNow
    <2>2. todo[b] = << >>
        BY <2>1 DEF Settled, Idle
    <2> QED BY <2>2, Distinct DEF OnlyMoves
<1> QED BY <1>1, CallAside

\* ... and while the network thread is in a callback that reports nothing, none does.
LEMMA CallBusy ==
    ASSUME Settled, NEW op, At(IO, op), op # "notify", OnlyMoves(IO), NEW b \in App
    PROVE  CallInv(b)'
<1>1. ~ Idle(IO) /\ ~ Reporting(IO, "disconnected")
    BY AtNow
<1>2. /\ ~ Exchanging(b, "connecting") /\ ~ Reporting(b, "connecting") /\ ~ At(b, "create")
      /\ ~ Exchanging(b, "disconnected") /\ ~ Reporting(b, "disconnected")
      /\ ~ At(b, "cancel") /\ ~ At(b, "down")
    BY <1>1 DEF Settled, CallInv
<1>3. /\ \A o : At(b, o)' <=> At(b, o)
      /\ \A s : (Exchanging(b, s)' <=> Exchanging(b, s)) /\ (Reporting(b, s)' <=> Reporting(b, s))
    BY OthersAt, Distinct
<1> QED BY <1>2, <1>3 DEF CallInv

\* Only the application's threads and the network thread change the state and report it.
LEMMA ReportsOf ==
    ASSUME Settled, NEW t \in Threads, t # Checker, NEW op, At(t, op),
           Arg(t) = "connecting" => t \in App \cup {Reconnector}
    PROVE  t \in App \cup {IO} /\ (Arg(t) = "connecting" => t # IO)
<1>1. ~ Idle(t)
    BY AtNow
<1> QED BY <1>1, Distinct DEF Settled, Threads

\* What a thread's step makes of the reports underway.
LEMMA DownMoves ==
    ASSUME NEW t \in Threads, OnlyMoves(t)
    PROVE  /\ DownUnderway => DownUnderway' \/ Reporting(t, "disconnected")
           /\ DownUnderway' => DownUnderway \/ Reporting(t, "disconnected")'
           /\ Reporting(t, "disconnected")' => DownUnderway'
           /\ Reporting(t, "disconnected") => DownUnderway
BY DEF OnlyMoves, DownUnderway, Reporting, At, Arg

\* The report of a dial of the application is underway.
DialUnderway == \E a \in App : Reporting(a, "connecting")

LEMMA DialMoves ==
    ASSUME NEW t \in Threads, OnlyMoves(t)
    PROVE  /\ DialUnderway => DialUnderway' \/ Reporting(t, "connecting")
           /\ DialUnderway' => DialUnderway \/ (t \in App /\ Reporting(t, "connecting")')
           /\ t \in App /\ Reporting(t, "connecting")' => DialUnderway'
           /\ t \in App /\ Reporting(t, "connecting") => DialUnderway
BY Distinct DEF OnlyMoves, DialUnderway, Reporting, At, Arg

\* The parts of ReportInv, before a step and after it.
LEMMA ReportDial ==
    ASSUME ReportInv
    PROVE  /\ uid \/ state \in {"connected", "authenticated"} => tcp = "connected" \/ DownUnderway
           /\ tcp = "disconnected" => state \in {"disconnected", "reconnecting"} \/ DownUnderway
           /\ state = "disconnected" /\ ~ stopped =>
                 ~ DownUnderway /\ (tcp = "disconnected" \/ DialUnderway)
BY DEF ReportInv, DialUnderway

LEMMA ReportParts ==
    ASSUME uid' \/ state' \in {"connected", "authenticated"} => tcp' = "connected" \/ DownUnderway',
           tcp' = "connected" /\ ~ Reporting(IO, "connected")' =>
               state' \in {"connected", "authenticated"} \/ kicked',
           tcp' = "disconnected" => state' \in {"disconnected", "reconnecting"} \/ DownUnderway',
           state' = "disconnected" /\ ~ stopped' =>
               ~ DownUnderway' /\ (tcp' = "disconnected" \/ DialUnderway')
    PROVE  ReportInv'
BY DEF ReportInv, DialUnderway

\* A step that neither reports nor changes the network's state or the context's.
LEMMA ReportFrame ==
    ASSUME ReportInv, NEW t \in Threads, OnlyMoves(t), ~ At(t, "notify"), ~ At(t, "notify")',
           tcp' = tcp, state' = state, uid' = uid, stopped => stopped', kicked' = kicked
    PROVE  ReportInv'
<1>1. \A s : ~ Reporting(t, s) /\ ~ Reporting(t, s)'
    BY DEF Reporting
<1>2. DownUnderway' <=> DownUnderway
    BY <1>1, DownMoves
<1>3. DialUnderway' <=> DialUnderway
    BY <1>1, DialMoves
<1>4. Reporting(IO, "connected")' <=> Reporting(IO, "connected")
    BY <1>1, OthersAt, Distinct
<1>5. tcp = "connected" /\ ~ Reporting(IO, "connected") =>
          state \in {"connected", "authenticated"} \/ kicked
    BY DEF ReportInv
<1> QED BY <1>2, <1>3, <1>4, <1>5, ReportDial, ReportParts

\* The reconnect timer stays idle: a connection is reported lost only while the state is not
\* kDisconnected, or after Shutdown or a kick stopped the reconnecting.
LEMMA QuietNext ==
    ASSUME TodoInv, StateTypeOK, Settled, [Next]_vars, solo'
    PROVE  ~ timer' /\ Idle(Reconnector)'
<1>0. pending \subseteq Requests
    BY DEF StateTypeOK
<1>1. ASSUME NEW a \in App, CallConnect(a) PROVE ~ timer' /\ Idle(Reconnector)'
    BY <1>1, CallConnectCalls, Distinct
       DEF CallConnect, AppCalls, OnlyMoves, GoesTo, GoesOn, Step, netVars, ctxVars, Settled,
           ReportInv, Exchanging, Reporting, At, Arg, Idle, Closed, Live, DownUnderway,
           OnStateChanged, DownState
<1>2. ASSUME NEW a \in App, CallDisconnect(a) PROVE ~ timer' /\ Idle(Reconnector)'
    BY <1>2, CallDisconnectCalls, Distinct
       DEF CallDisconnect, AppCalls, OnlyMoves, GoesTo, GoesOn, Step, netVars, ctxVars, Settled,
           ReportInv, Exchanging, Reporting, At, Arg, Idle, Closed, Live, DownUnderway,
           OnStateChanged, DownState
<1>3. ASSUME NEW a \in App, CallShutdown(a) PROVE ~ timer' /\ Idle(Reconnector)'
    BY <1>3, CallShutdownCalls, Distinct
       DEF CallShutdown, AppCalls, OnlyMoves, GoesTo, GoesOn, Step, netVars, ctxVars, Settled,
           ReportInv, Exchanging, Reporting, At, Arg, Idle, Closed, Live, DownUnderway,
           OnStateChanged, DownState
<1>4. ASSUME NEW a \in App, NEW r \in Requests, CallRequest(a, r)
      PROVE  ~ timer' /\ Idle(Reconnector)'
    BY <1>4, CallRequestCalls, Distinct
       DEF CallRequest, AppCalls, OnlyMoves, GoesTo, GoesOn, Step, netVars, ctxVars, Settled,
           ReportInv, Exchanging, Reporting, At, Arg, Idle, Closed, Live, DownUnderway,
           OnStateChanged, DownState
<1>5. ASSUME NEW t \in Threads, ConnectStart(t) PROVE ~ timer' /\ Idle(Reconnector)'
    BY <1>5, ConnectStartCalls, Distinct
       DEF ConnectStart, OnlyMoves, GoesTo, GoesOn, Step, netVars, ctxVars, Settled, ReportInv,
           Exchanging, Reporting, At, Arg, Idle, Closed, Live, DownUnderway, OnStateChanged,
           DownState
<1>6. ASSUME NEW t \in Threads, Exchange(t) PROVE ~ timer' /\ Idle(Reconnector)'
    BY <1>6, ExchangeCalls, Distinct
       DEF Exchange, OnlyMoves, GoesTo, GoesOn, Step, netVars, ctxVars, Settled, ReportInv,
           Exchanging, Reporting, At, Arg, Idle, Closed, Live, DownUnderway, OnStateChanged,
           DownState
<1>7. ASSUME NEW t \in Threads, Create(t) PROVE ~ timer' /\ Idle(Reconnector)'
    BY <1>7, CreateCalls, Distinct
       DEF Create, OnlyMoves, GoesTo, GoesOn, Step, netVars, ctxVars, Settled, ReportInv,
           Exchanging, Reporting, At, Arg, Idle, Closed, Live, DownUnderway, OnStateChanged,
           DownState
<1>8. ASSUME NEW t \in Threads, Notify(t) PROVE ~ timer' /\ Idle(Reconnector)'
    BY <1>8, NotifyCalls, Distinct
       DEF Notify, OnlyMoves, GoesTo, GoesOn, Step, netVars, ctxVars, Settled, ReportInv,
           Exchanging, Reporting, At, Arg, Idle, Closed, Live, DownUnderway, OnStateChanged,
           DownState
<1>9. ASSUME NEW t \in Threads, Lock(t) PROVE ~ timer' /\ Idle(Reconnector)'
    BY <1>9, LockCalls, Distinct
       DEF Lock, OnlyMoves, GoesTo, GoesOn, Step, netVars, ctxVars, Settled, ReportInv,
           Exchanging, Reporting, At, Arg, Idle, Closed, Live, DownUnderway, OnStateChanged,
           DownState
<1>10. ASSUME NEW t \in Threads, Join(t) PROVE ~ timer' /\ Idle(Reconnector)'
    BY <1>10, JoinCalls, Distinct
       DEF Join, OnlyMoves, GoesTo, GoesOn, Step, netVars, ctxVars, Settled, ReportInv,
           Exchanging, Reporting, At, Arg, Idle, Closed, Live, DownUnderway, OnStateChanged,
           DownState
<1>11. ASSUME NEW t \in Threads, Send(t) PROVE ~ timer' /\ Idle(Reconnector)'
    BY <1>11, SendCalls, Distinct
       DEF Send, OnlyMoves, GoesTo, GoesOn, Step, netVars, ctxVars, Settled, ReportInv,
           Exchanging, Reporting, At, Arg, Idle, Closed, Live, DownUnderway, OnStateChanged,
           DownState
<1>12. ASSUME NEW t \in Threads, Register(t) PROVE ~ timer' /\ Idle(Reconnector)'
    BY <1>12, RegisterCalls, Distinct
       DEF Register, OnlyMoves, GoesTo, GoesOn, Step, netVars, ctxVars, Settled, ReportInv,
           Exchanging, Reporting, At, Arg, Idle, Closed, Live, DownUnderway, OnStateChanged,
           DownState
<1>13. ASSUME NEW t \in Threads, Answer(t) PROVE ~ timer' /\ Idle(Reconnector)'
    BY <1>13, AnswerCalls, Distinct
       DEF Answer, OnlyMoves, GoesTo, GoesOn, Step, netVars, ctxVars, Settled, ReportInv,
           Exchanging, Reporting, At, Arg, Idle, Closed, Live, DownUnderway, OnStateChanged,
           DownState
<1>14. ASSUME NEW t \in Threads, SyncSend(t) PROVE ~ timer' /\ Idle(Reconnector)'
    BY <1>14, SyncSendCalls, Distinct
       DEF SyncSend, OnlyMoves, GoesTo, GoesOn, Step, netVars, ctxVars, Settled, ReportInv,
           Exchanging, Reporting, At, Arg, Idle, Closed, Live, DownUnderway, OnStateChanged,
           DownState
<1>15. ASSUME NEW t \in Threads, Timeout(t) PROVE ~ timer' /\ Idle(Reconnector)'
    BY <1>15, TimeoutCalls, Distinct
       DEF Timeout, OnlyMoves, GoesTo, GoesOn, Step, netVars, ctxVars, Settled, ReportInv,
           Exchanging, Reporting, At, Arg, Idle, Closed, Live, DownUnderway, OnStateChanged,
           DownState
<1>16. ASSUME NEW t \in Threads, Stop(t) PROVE ~ timer' /\ Idle(Reconnector)'
    BY <1>16, StopCalls, Distinct
       DEF Stop, OnlyMoves, GoesTo, GoesOn, Step, netVars, ctxVars, Settled, ReportInv,
           Exchanging, Reporting, At, Arg, Idle, Closed, Live, DownUnderway, OnStateChanged,
           DownState
<1>17. ASSUME NEW t \in Threads, Cancel(t) PROVE ~ timer' /\ Idle(Reconnector)'
    BY <1>17, CancelCalls, Distinct
       DEF Cancel, OnlyMoves, GoesTo, GoesOn, Step, netVars, ctxVars, Settled, ReportInv,
           Exchanging, Reporting, At, Arg, Idle, Closed, Live, DownUnderway, OnStateChanged,
           DownState
<1>18. ASSUME NEW t \in Threads, Down(t) PROVE ~ timer' /\ Idle(Reconnector)'
    BY <1>18, DownCalls, Distinct
       DEF Down, OnlyMoves, GoesTo, GoesOn, Step, netVars, ctxVars, Settled, ReportInv,
           Exchanging, Reporting, At, Arg, Idle, Closed, Live, DownUnderway, OnStateChanged,
           DownState
<1>19. CASE DialUp
    BY <1>19, DialUpCalls, Distinct
       DEF DialUp, OnlyMoves, GoesTo, GoesOn, Step, netVars, ctxVars, Settled, ReportInv,
           Exchanging, Reporting, At, Arg, Idle, Closed, Live, DownUnderway, OnStateChanged,
           DownState
<1>20. CASE SocketDown
    BY <1>20, SocketDownCalls, Distinct
       DEF SocketDown, OnlyMoves, GoesTo, GoesOn, Step, netVars, ctxVars, Settled, ReportInv,
           Exchanging, Reporting, At, Arg, Idle, Closed, Live, DownUnderway, OnStateChanged,
           DownState
<1>21. CASE LoopStops
    BY <1>21, LoopStopsCalls, Distinct
       DEF LoopStops, OnlyMoves, GoesTo, GoesOn, Step, netVars, ctxVars, Settled, ReportInv,
           Exchanging, Reporting, At, Arg, Idle, Closed, Live, DownUnderway, OnStateChanged,
           DownState
<1>22. CASE KickNotify
    BY <1>22, KickNotifyCalls, Distinct
       DEF KickNotify, OnlyMoves, GoesTo, GoesOn, Step, netVars, ctxVars, Settled, ReportInv,
           Exchanging, Reporting, At, Arg, Idle, Closed, Live, DownUnderway, OnStateChanged,
           DownState
<1>23. ASSUME NEW r \in Requests, HandleResponse(r) PROVE ~ timer' /\ Idle(Reconnector)'
    BY <1>23, HandleResponseCalls, Distinct
       DEF HandleResponse, OnlyMoves, GoesTo, GoesOn, Step, netVars, ctxVars, Settled,
           ReportInv, Exchanging, Reporting, At, Arg, Idle, Closed, Live, DownUnderway,
           OnStateChanged, DownState
<1>24. CASE TimerFires
    BY <1>24, TimerFiresCalls, Distinct
       DEF TimerFires, OnlyMoves, GoesTo, GoesOn, Step, netVars, ctxVars, Settled, ReportInv,
           Exchanging, Reporting, At, Arg, Idle, Closed, Live, DownUnderway, OnStateChanged,
           DownState
<1>25. CASE CheckTimeouts
    BY <1>0, <1>25, CheckTimeoutsCalls, Distinct
       DEF CheckTimeouts, OnlyMoves, GoesTo, GoesOn, Step, netVars, ctxVars, Settled, ReportInv,
           Exchanging, Reporting, At, Arg, Idle, Closed, Live, DownUnderway, OnStateChanged,
           DownState
<1>26. CASE UNCHANGED vars
    BY <1>26
       DEF vars, netVars, ctxVars, reqVars, history, Settled, ReportInv, Exchanging, Reporting,
           At, Arg, Idle, Closed, Live, DownUnderway
<1> QED
    BY <1>1, <1>2, <1>3, <1>4, <1>5, <1>6, <1>7, <1>8, <1>9, <1>10, <1>11, <1>12, <1>13, <1>14,
       <1>15, <1>16, <1>17, <1>18, <1>19, <1>20, <1>21, <1>22, <1>23, <1>24, <1>25, <1>26
    DEF Next, AppCall, Proceed, Network

\* At most one thread of the application is in a call.
LEMMA AloneNext ==
    ASSUME TodoInv, StateTypeOK, Settled, [Next]_vars, solo'
    PROVE  \A a, b \in App : ~ Idle(a)' /\ ~ Idle(b)' => a = b
<1> SUFFICES ASSUME NEW b \in App, NEW c \in App, ~ Idle(b)', ~ Idle(c)'
             PROVE  b = c
    OBVIOUS
<1>0. pending \subseteq Requests
    BY DEF StateTypeOK
<1>1. ASSUME NEW a \in App, CallConnect(a) PROVE b = c
    BY <1>1, CallConnectCalls, Distinct
       DEF CallConnect, AppCalls, OnlyMoves, GoesTo, GoesOn, Step, netVars, ctxVars, Settled,
           ReportInv, Exchanging, Reporting, At, Arg, Idle, Closed, Live, history
<1>2. ASSUME NEW a \in App, CallDisconnect(a) PROVE b = c
    BY <1>2, CallDisconnectCalls, Distinct
       DEF CallDisconnect, AppCalls, OnlyMoves, GoesTo, GoesOn, Step, netVars, ctxVars, Settled,
           ReportInv, Exchanging, Reporting, At, Arg, Idle, Closed, Live, history
<1>3. ASSUME NEW a \in App, CallShutdown(a) PROVE b = c
    BY <1>3, CallShutdownCalls, Distinct
       DEF CallShutdown, AppCalls, OnlyMoves, GoesTo, GoesOn, Step, netVars, ctxVars, Settled,
           ReportInv, Exchanging, Reporting, At, Arg, Idle, Closed, Live, history
<1>4. ASSUME NEW a \in App, NEW r \in Requests, CallRequest(a, r) PROVE b = c
    BY <1>4, CallRequestCalls, Distinct
       DEF CallRequest, AppCalls, OnlyMoves, GoesTo, GoesOn, Step, netVars, ctxVars, Settled,
           ReportInv, Exchanging, Reporting, At, Arg, Idle, Closed, Live, history
<1>5. ASSUME NEW t \in Threads, ConnectStart(t) PROVE b = c
    BY <1>5, ConnectStartCalls, Distinct
       DEF ConnectStart, OnlyMoves, GoesTo, GoesOn, Step, netVars, ctxVars, Settled, ReportInv,
           Exchanging, Reporting, At, Arg, Idle, Closed, Live, history
<1>6. ASSUME NEW t \in Threads, Exchange(t) PROVE b = c
    <2>1. OnlyMoves(t) /\ ~ Idle(t)
        BY <1>6, ExchangeCalls DEF Exchange, At, Idle
    <2>2. ~ Idle(b) /\ ~ Idle(c)
        BY <2>1, Distinct DEF OnlyMoves, Idle
    <2> QED BY <2>2 DEF Settled
<1>7. ASSUME NEW t \in Threads, Create(t) PROVE b = c
    BY <1>7, CreateCalls, Distinct
       DEF Create, OnlyMoves, GoesTo, GoesOn, Step, netVars, ctxVars, Settled, ReportInv,
           Exchanging, Reporting, At, Arg, Idle, Closed, Live, history
<1>8. ASSUME NEW t \in Threads, Notify(t) PROVE b = c
    <2>1. OnlyMoves(t) /\ ~ Idle(t)
        BY <1>8, NotifyCalls DEF Notify, At, Idle
    <2>2. ~ Idle(b) /\ ~ Idle(c)
        BY <2>1, Distinct DEF OnlyMoves, Idle
    <2> QED BY <2>2 DEF Settled
<1>9. ASSUME NEW t \in Threads, Lock(t) PROVE b = c
    BY <1>9, LockCalls, Distinct
       DEF Lock, OnlyMoves, GoesTo, GoesOn, Step, netVars, ctxVars, Settled, ReportInv,
           Exchanging, Reporting, At, Arg, Idle, Closed, Live, history
<1>10. ASSUME NEW t \in Threads, Join(t) PROVE b = c
    BY <1>10, JoinCalls, Distinct
       DEF Join, OnlyMoves, GoesTo, GoesOn, Step, netVars, ctxVars, Settled, ReportInv,
           Exchanging, Reporting, At, Arg, Idle, Closed, Live, history
<1>11. ASSUME NEW t \in Threads, Send(t) PROVE b = c
    BY <1>11, SendCalls, Distinct
       DEF Send, OnlyMoves, GoesTo, GoesOn, Step, netVars, ctxVars, Settled, ReportInv,
           Exchanging, Reporting, At, Arg, Idle, Closed, Live, history
<1>12. ASSUME NEW t \in Threads, Register(t) PROVE b = c
    BY <1>12, RegisterCalls, Distinct
       DEF Register, OnlyMoves, GoesTo, GoesOn, Step, netVars, ctxVars, Settled, ReportInv,
           Exchanging, Reporting, At, Arg, Idle, Closed, Live, history
<1>13. ASSUME NEW t \in Threads, Answer(t) PROVE b = c
    BY <1>13, AnswerCalls, Distinct
       DEF Answer, OnlyMoves, GoesTo, GoesOn, Step, netVars, ctxVars, Settled, ReportInv,
           Exchanging, Reporting, At, Arg, Idle, Closed, Live, history
<1>14. ASSUME NEW t \in Threads, SyncSend(t) PROVE b = c
    BY <1>14, SyncSendCalls, Distinct
       DEF SyncSend, OnlyMoves, GoesTo, GoesOn, Step, netVars, ctxVars, Settled, ReportInv,
           Exchanging, Reporting, At, Arg, Idle, Closed, Live, history
<1>15. ASSUME NEW t \in Threads, Timeout(t) PROVE b = c
    BY <1>15, TimeoutCalls, Distinct
       DEF Timeout, OnlyMoves, GoesTo, GoesOn, Step, netVars, ctxVars, Settled, ReportInv,
           Exchanging, Reporting, At, Arg, Idle, Closed, Live, history
<1>16. ASSUME NEW t \in Threads, Stop(t) PROVE b = c
    BY <1>16, StopCalls, Distinct
       DEF Stop, OnlyMoves, GoesTo, GoesOn, Step, netVars, ctxVars, Settled, ReportInv,
           Exchanging, Reporting, At, Arg, Idle, Closed, Live, history
<1>17. ASSUME NEW t \in Threads, Cancel(t) PROVE b = c
    BY <1>17, CancelCalls, Distinct
       DEF Cancel, OnlyMoves, GoesTo, GoesOn, Step, netVars, ctxVars, Settled, ReportInv,
           Exchanging, Reporting, At, Arg, Idle, Closed, Live, history
<1>18. ASSUME NEW t \in Threads, Down(t) PROVE b = c
    BY <1>18, DownCalls, Distinct
       DEF Down, OnlyMoves, GoesTo, GoesOn, Step, netVars, ctxVars, Settled, ReportInv,
           Exchanging, Reporting, At, Arg, Idle, Closed, Live, history
<1>19. CASE DialUp
    BY <1>19, DialUpCalls, Distinct
       DEF DialUp, OnlyMoves, GoesTo, GoesOn, Step, netVars, ctxVars, Settled, ReportInv,
           Exchanging, Reporting, At, Arg, Idle, Closed, Live, history
<1>20. CASE SocketDown
    BY <1>20, SocketDownCalls, Distinct
       DEF SocketDown, OnlyMoves, GoesTo, GoesOn, Step, netVars, ctxVars, Settled, ReportInv,
           Exchanging, Reporting, At, Arg, Idle, Closed, Live, history
<1>21. CASE LoopStops
    BY <1>21, LoopStopsCalls, Distinct
       DEF LoopStops, OnlyMoves, GoesTo, GoesOn, Step, netVars, ctxVars, Settled, ReportInv,
           Exchanging, Reporting, At, Arg, Idle, Closed, Live, history
<1>22. CASE KickNotify
    BY <1>22, KickNotifyCalls, Distinct
       DEF KickNotify, OnlyMoves, GoesTo, GoesOn, Step, netVars, ctxVars, Settled, ReportInv,
           Exchanging, Reporting, At, Arg, Idle, Closed, Live, history
<1>23. ASSUME NEW r \in Requests, HandleResponse(r) PROVE b = c
    BY <1>23, HandleResponseCalls, Distinct
       DEF HandleResponse, OnlyMoves, GoesTo, GoesOn, Step, netVars, ctxVars, Settled,
           ReportInv, Exchanging, Reporting, At, Arg, Idle, Closed, Live, history
<1>24. CASE TimerFires
    BY <1>24, TimerFiresCalls, Distinct
       DEF TimerFires, OnlyMoves, GoesTo, GoesOn, Step, netVars, ctxVars, Settled, ReportInv,
           Exchanging, Reporting, At, Arg, Idle, Closed, Live, history
<1>25. CASE CheckTimeouts
    BY <1>0, <1>25, CheckTimeoutsCalls, Distinct
       DEF CheckTimeouts, OnlyMoves, GoesTo, GoesOn, Step, netVars, ctxVars, Settled, ReportInv,
           Exchanging, Reporting, At, Arg, Idle, Closed, Live, history
<1>26. CASE UNCHANGED vars
    BY <1>26
       DEF vars, netVars, ctxVars, reqVars, history, Settled, ReportInv, Exchanging, Reporting,
           At, Arg, Idle, Closed, Live, DownUnderway
<1> QED
    BY <1>1, <1>2, <1>3, <1>4, <1>5, <1>6, <1>7, <1>8, <1>9, <1>10, <1>11, <1>12, <1>13, <1>14,
       <1>15, <1>16, <1>17, <1>18, <1>19, <1>20, <1>21, <1>22, <1>23, <1>24, <1>25, <1>26
    DEF Next, AppCall, Proceed, Network

\* The network thread and the socket go on to agree with TcpClient's state.
LEMMA NetworkNext ==
    ASSUME TodoInv, StateTypeOK, Settled, [Next]_vars, solo'
    PROVE  NetworkInv'
<1>0. pending \subseteq Requests
    BY DEF StateTypeOK
<1>1. ASSUME NEW a \in App, CallConnect(a) PROVE NetworkInv'
    BY <1>1, CallConnectCalls, Distinct
       DEF CallConnect, AppCalls, OnlyMoves, GoesTo, GoesOn, Step, netVars, ctxVars, Settled,
           NetworkInv, CallInv, Exchanging, Reporting, At, Arg, Idle, Closed, Live
<1>2. ASSUME NEW a \in App, CallDisconnect(a) PROVE NetworkInv'
    BY <1>2, CallDisconnectCalls, Distinct
       DEF CallDisconnect, AppCalls, OnlyMoves, GoesTo, GoesOn, Step, netVars, ctxVars, Settled,
           NetworkInv, CallInv, Exchanging, Reporting, At, Arg, Idle, Closed, Live
<1>3. ASSUME NEW a \in App, CallShutdown(a) PROVE NetworkInv'
    BY <1>3, CallShutdownCalls, Distinct
       DEF CallShutdown, AppCalls, OnlyMoves, GoesTo, GoesOn, Step, netVars, ctxVars, Settled,
           NetworkInv, CallInv, Exchanging, Reporting, At, Arg, Idle, Closed, Live
<1>4. ASSUME NEW a \in App, NEW r \in Requests, CallRequest(a, r) PROVE NetworkInv'
    BY <1>4, CallRequestCalls, Distinct
       DEF CallRequest, AppCalls, OnlyMoves, GoesTo, GoesOn, Step, netVars, ctxVars, Settled,
           NetworkInv, CallInv, Exchanging, Reporting, At, Arg, Idle, Closed, Live
<1>5. ASSUME NEW t \in Threads, ConnectStart(t) PROVE NetworkInv'
    BY <1>5, ConnectStartCalls, Distinct
       DEF ConnectStart, OnlyMoves, GoesTo, GoesOn, Step, netVars, ctxVars, Settled, NetworkInv,
           CallInv, Exchanging, Reporting, At, Arg, Idle, Closed, Live
<1>6. ASSUME NEW t \in Threads, Exchange(t) PROVE NetworkInv'
    <2>1. /\ OnlyMoves(t) /\ At(t, "exchange") /\ Arg(t) \in NetStates /\ tcp' = Arg(t) /\ hv' = hv
          /\ t \in App \cup {IO} /\ (Arg(t) = "connecting" => t # IO) /\ (Arg(t) = "connected" => t = IO)
          /\ tcp # Arg(t) => GoesTo(t, Step("notify", Arg(t)))
        BY <1>6, ExchangeCalls, StepTaken, Distinct DEF Exchange, Settled, Threads
    <2>2. Exchanging(t, Arg(t)) /\ Live' = Live /\ Closed' = Closed
        BY <2>1 DEF Exchanging, Live, Closed
    <2>3. CASE t = IO
        <3>1. Arg(t) = "connected" \/ Arg(t) = "disconnected"
            BY <2>1, <2>3 DEF NetStates
        <3>2. tcp # Arg(t) /\ (Arg(t) = "connected" => Live) /\ (Arg(t) = "disconnected" => hv = "closed")
            BY <2>2, <2>3, <3>1 DEF Settled, NetworkInv
        <3>3. /\ ~ Idle(IO)' /\ (\A o : At(IO, o)' <=> o = "notify")
              /\ \A s : ~ Exchanging(IO, s)' /\ (Reporting(IO, s)' <=> s = Arg(t))
            BY <2>1, <2>3, <3>2, AtStep
        <3> QED BY <2>1, <2>2, <3>1, <3>2, <3>3 DEF NetworkInv, Closed, Live
    <2>4. CASE t # IO
        <3>1. /\ Closed /\ (Idle(IO) \/ Reporting(IO, "disconnected"))
              /\ Arg(t) = "disconnected" => Idle(IO)
            BY <2>1, <2>2, <2>4 DEF NetStates, Settled, CallInv
        <3>2. CASE Idle(IO)
            <4>1. Idle(IO)' /\ (\A o : ~ At(IO, o)') /\ \A s : ~ Exchanging(IO, s)' /\ ~ Reporting(IO, s)'
                BY <2>1, <2>4, <3>2, AtEnd, Distinct DEF OnlyMoves, Idle
            <4> QED BY <2>1, <2>2, <3>1, <4>1 DEF NetworkInv, Closed
        <3>3. CASE ~ Idle(IO)
            <4>1. Reporting(IO, "disconnected") /\ Arg(t) = "connecting" /\ hv = "closed"
                BY <2>1, <2>4, <3>1, <3>3 DEF NetStates, Settled, NetworkInv
            <4>2. At(IO, "notify") /\ Arg(IO) = "disconnected"
                BY <4>1 DEF Reporting
            <4>3. ~ Idle(IO) /\ (\A o : At(IO, o) <=> o = "notify")
                  /\ \A s : ~ Exchanging(IO, s) /\ (Reporting(IO, s) <=> s = "disconnected")
                BY <4>2, AtNow
            <4>4. ~ Idle(IO)' /\ (\A o : At(IO, o)' <=> o = "notify")
                  /\ \A s : ~ Exchanging(IO, s)' /\ (Reporting(IO, s)' <=> s = "disconnected")
                BY <2>1, <2>4, <4>3, OthersAt, Distinct
            <4> QED BY <2>1, <2>2, <3>1, <4>1, <4>4 DEF NetworkInv, Closed
        <3> QED BY <3>2, <3>3
    <2> QED BY <2>3, <2>4
<1>7. ASSUME NEW t \in Threads, Create(t) PROVE NetworkInv'
    BY <1>7, CreateCalls, Distinct
       DEF Create, OnlyMoves, GoesTo, GoesOn, Step, netVars, ctxVars, Settled, NetworkInv,
           CallInv, Exchanging, Reporting, At, Arg, Idle, Closed, Live
<1>8. ASSUME NEW t \in Threads, Notify(t) PROVE NetworkInv'
    <2>1. /\ OnlyMoves(t) /\ At(t, "notify") /\ tcp' = tcp /\ hv' = hv /\ Arg(t) \in NetStates
          /\ Arg(t) = "connecting" => t # IO
        BY <1>8, NotifyCalls, Distinct DEF Notify, netVars
    <2>2. CASE t = IO
        <3>1. Reporting(IO, Arg(t)) /\ (Arg(t) = "connected" \/ Arg(t) = "disconnected")
            BY <2>1, <2>2 DEF Reporting, NetStates
        <3>2. (Live /\ tcp = "connected") \/ hv = "closed"
            BY <3>1 DEF Settled, NetworkInv
        <3>3. todo'[IO] = << >>
            BY <1>8, <2>2, <3>1, NotifyCalls, Distinct
        <3>4. Idle(IO)' /\ (\A o : ~ At(IO, o)') /\ \A s : ~ Exchanging(IO, s)' /\ ~ Reporting(IO, s)'
            BY <3>3, AtEnd
        <3> QED BY <2>1, <3>2, <3>4 DEF Settled, NetworkInv, Live, Closed
    <2>3. CASE t # IO
        BY <2>1, <2>3, NetworkFrame, Distinct DEF OnlyMoves, Settled
    <2> QED BY <2>2, <2>3
<1>9. ASSUME NEW t \in Threads, Lock(t) PROVE NetworkInv'
    BY <1>9, LockCalls, Distinct
       DEF Lock, OnlyMoves, GoesTo, GoesOn, Step, netVars, ctxVars, Settled, NetworkInv,
           CallInv, Exchanging, Reporting, At, Arg, Idle, Closed, Live
<1>10. ASSUME NEW t \in Threads, Join(t) PROVE NetworkInv'
    BY <1>10, JoinCalls, Distinct
       DEF Join, OnlyMoves, GoesTo, GoesOn, Step, netVars, ctxVars, Settled, NetworkInv,
           CallInv, Exchanging, Reporting, At, Arg, Idle, Closed, Live
<1>11. ASSUME NEW t \in Threads, Send(t) PROVE NetworkInv'
    BY <1>11, SendCalls, Distinct
       DEF Send, OnlyMoves, GoesTo, GoesOn, Step, netVars, ctxVars, Settled, NetworkInv,
           CallInv, Exchanging, Reporting, At, Arg, Idle, Closed, Live
<1>12. ASSUME NEW t \in Threads, Register(t) PROVE NetworkInv'
    <2>1. OnlyMoves(t) /\ At(t, "register") /\ tcp' = tcp /\ hv' = hv
        BY <1>12, RegisterCalls DEF Register, netVars
    <2>2. CASE t = IO
        <3>1. tcp = "connected" /\ Live
            BY <2>1, <2>2 DEF Settled, NetworkInv
        <3>2. todo'[t] # << >> => Head(todo'[t]).op \in {"answer", "sync", "register", "send"}
            <4>1. GoesTo(t, Step("send", Arg(t)))
                BY <1>12, RegisterCalls
            <4> QED BY <4>1, StepFields DEF GoesTo, GoesOn
        <3> QED BY <2>1, <2>2, <3>1, <3>2, NetworkServes
    <2>3. CASE t # IO
        BY <2>1, <2>3, NetworkFrame, Distinct DEF OnlyMoves, Settled
    <2> QED BY <2>2, <2>3
<1>13. ASSUME NEW t \in Threads, Answer(t) PROVE NetworkInv'
    <2>1. OnlyMoves(t) /\ At(t, "answer") /\ tcp' = tcp /\ hv' = hv
        BY <1>13, AnswerCalls DEF Answer, netVars
    <2>2. CASE t = IO
        <3>1. tcp = "connected" /\ Live
            BY <2>1, <2>2 DEF Settled, NetworkInv
        <3>2. todo'[t] # << >> => Head(todo'[t]).op \in {"answer", "sync", "register", "send"}
            <4>1. GoesOn(t, {Step("sync", None)})
                BY <1>13, AnswerCalls
            <4> QED BY <4>1, StepFields DEF GoesTo, GoesOn
        <3> QED BY <2>1, <2>2, <3>1, <3>2, NetworkServes
    <2>3. CASE t # IO
        BY <2>1, <2>3, NetworkFrame, Distinct DEF OnlyMoves, Settled
    <2> QED BY <2>2, <2>3
<1>14. ASSUME NEW t \in Threads, SyncSend(t) PROVE NetworkInv'
    <2>1. OnlyMoves(t) /\ At(t, "sync") /\ tcp' = tcp /\ hv' = hv
        BY <1>14, SyncSendCalls DEF SyncSend, netVars
    <2>2. CASE t = IO
        <3>1. tcp = "connected" /\ Live
            BY <2>1, <2>2 DEF Settled, NetworkInv
        <3>2. todo'[t] # << >> => Head(todo'[t]).op \in {"answer", "sync", "register", "send"}
            <4>1. todo'[t] = << >> \/ \E s \in Syncs \ issued : GoesTo(t, Step("register", s))
                BY <1>14, SyncSendCalls
            <4> QED BY <4>1, StepFields DEF GoesTo, GoesOn
        <3> QED BY <2>1, <2>2, <3>1, <3>2, NetworkServes
    <2>3. CASE t # IO
        BY <2>1, <2>3, NetworkFrame, Distinct DEF OnlyMoves, Settled
    <2> QED BY <2>2, <2>3
<1>15. ASSUME NEW t \in Threads, Timeout(t) PROVE NetworkInv'
    BY <1>15, TimeoutCalls, Distinct
       DEF Timeout, OnlyMoves, GoesTo, GoesOn, Step, netVars, ctxVars, Settled, NetworkInv,
           CallInv, Exchanging, Reporting, At, Arg, Idle, Closed, Live
<1>16. ASSUME NEW t \in Threads, Stop(t) PROVE NetworkInv'
    BY <1>16, StopCalls, Distinct
       DEF Stop, OnlyMoves, GoesTo, GoesOn, Step, netVars, ctxVars, Settled, NetworkInv,
           CallInv, Exchanging, Reporting, At, Arg, Idle, Closed, Live
<1>17. ASSUME NEW t \in Threads, Cancel(t) PROVE NetworkInv'
    BY <1>17, CancelCalls, Distinct
       DEF Cancel, OnlyMoves, GoesTo, GoesOn, Step, netVars, ctxVars, Settled, NetworkInv,
           CallInv, Exchanging, Reporting, At, Arg, Idle, Closed, Live
<1>18. ASSUME NEW t \in Threads, Down(t) PROVE NetworkInv'
    BY <1>18, DownCalls, Distinct
       DEF Down, OnlyMoves, GoesTo, GoesOn, Step, netVars, ctxVars, Settled, NetworkInv,
           CallInv, Exchanging, Reporting, At, Arg, Idle, Closed, Live
<1>19. CASE DialUp
    BY <1>19, DialUpCalls, Distinct
       DEF DialUp, OnlyMoves, GoesTo, GoesOn, Step, netVars, ctxVars, Settled, NetworkInv,
           CallInv, Exchanging, Reporting, At, Arg, Idle, Closed, Live
<1>20. CASE SocketDown
    BY <1>20, SocketDownCalls, Distinct
       DEF SocketDown, OnlyMoves, GoesTo, GoesOn, Step, netVars, ctxVars, Settled, NetworkInv,
           CallInv, Exchanging, Reporting, At, Arg, Idle, Closed, Live
<1>21. CASE LoopStops
    BY <1>21, LoopStopsCalls, Distinct
       DEF LoopStops, OnlyMoves, GoesTo, GoesOn, Step, netVars, ctxVars, Settled, NetworkInv,
           CallInv, Exchanging, Reporting, At, Arg, Idle, Closed, Live
<1>22. CASE KickNotify
    BY <1>22, KickNotifyCalls, Distinct
       DEF KickNotify, OnlyMoves, GoesTo, GoesOn, Step, netVars, ctxVars, Settled, NetworkInv,
           CallInv, Exchanging, Reporting, At, Arg, Idle, Closed, Live
<1>23. ASSUME NEW r \in Requests, HandleResponse(r) PROVE NetworkInv'
    BY <1>23, HandleResponseCalls, Distinct
       DEF HandleResponse, OnlyMoves, GoesTo, GoesOn, Step, netVars, ctxVars, Settled,
           NetworkInv, CallInv, Exchanging, Reporting, At, Arg, Idle, Closed, Live
<1>24. CASE TimerFires
    BY <1>24, TimerFiresCalls, Distinct
       DEF TimerFires, OnlyMoves, GoesTo, GoesOn, Step, netVars, ctxVars, Settled, NetworkInv,
           CallInv, Exchanging, Reporting, At, Arg, Idle, Closed, Live
<1>25. CASE CheckTimeouts
    BY <1>0, <1>25, CheckTimeoutsCalls, Distinct
       DEF CheckTimeouts, OnlyMoves, GoesTo, GoesOn, Step, netVars, ctxVars, Settled,
           NetworkInv, CallInv, Exchanging, Reporting, At, Arg, Idle, Closed, Live
<1>26. CASE UNCHANGED vars
    BY <1>26
       DEF vars, netVars, ctxVars, reqVars, history, Settled, NetworkInv, CallInv, Exchanging,
           Reporting, At, Arg, Idle, Closed, Live, DownUnderway
<1> QED
    BY <1>1, <1>2, <1>3, <1>4, <1>5, <1>6, <1>7, <1>8, <1>9, <1>10, <1>11, <1>12, <1>13, <1>14,
       <1>15, <1>16, <1>17, <1>18, <1>19, <1>20, <1>21, <1>22, <1>23, <1>24, <1>25, <1>26
    DEF Next, AppCall, Proceed, Network

\* A call that changes the connection stays alone with it.
LEMMA CallNext ==
    ASSUME TodoInv, StateTypeOK, Settled, [Next]_vars, solo'
    PROVE  \A b \in App : CallInv(b)'
<1> SUFFICES ASSUME NEW b \in App
             PROVE  CallInv(b)'
    OBVIOUS
<1>0. pending \subseteq Requests
    BY DEF StateTypeOK
<1>1. ASSUME NEW a \in App, CallConnect(a) PROVE CallInv(b)'
    <2>1. OnlyMoves(a) /\ \A c \in App : todo[c] = << >>
        BY <1>1, CallConnectCalls DEF CallConnect, AppCalls
    <2>2. todo'[a] # << >> /\ Head(todo'[a]).op \in {"connect", "lock", "stop", "register"}
        <3>1. GoesTo(a, Step("connect", None))
            BY <1>1, CallConnectCalls
        <3> QED BY <3>1, StepFields DEF GoesTo
    <2>3. b # a => todo'[b] = << >>
        BY <2>1, Distinct DEF OnlyMoves
    <2> QED BY <2>2, <2>3, CallAside
<1>2. ASSUME NEW a \in App, CallDisconnect(a) PROVE CallInv(b)'
    <2>1. OnlyMoves(a) /\ \A c \in App : todo[c] = << >>
        BY <1>2, CallDisconnectCalls DEF CallDisconnect, AppCalls
    <2>2. todo'[a] # << >> /\ Head(todo'[a]).op \in {"connect", "lock", "stop", "register"}
        BY <1>2, CallDisconnectCalls
    <2>3. b # a => todo'[b] = << >>
        BY <2>1, Distinct DEF OnlyMoves
    <2> QED BY <2>2, <2>3, CallAside
<1>3. ASSUME NEW a \in App, CallShutdown(a) PROVE CallInv(b)'
    <2>1. OnlyMoves(a) /\ \A c \in App : todo[c] = << >>
        BY <1>3, CallShutdownCalls DEF CallShutdown, AppCalls
    <2>2. todo'[a] # << >> /\ Head(todo'[a]).op \in {"connect", "lock", "stop", "register"}
        BY <1>3, CallShutdownCalls
    <2>3. b # a => todo'[b] = << >>
        BY <2>1, Distinct DEF OnlyMoves
    <2> QED BY <2>2, <2>3, CallAside
<1>4. ASSUME NEW a \in App, NEW r \in Requests, CallRequest(a, r) PROVE CallInv(b)'
    <2>1. OnlyMoves(a) /\ \A c \in App : todo[c] = << >>
        BY <1>4, CallRequestCalls DEF CallRequest, AppCalls
    <2>2. todo'[a] # << >> /\ Head(todo'[a]).op \in {"connect", "lock", "stop", "register"}
        <3>1. GoesTo(a, Step("register", r))
            BY <1>4, CallRequestCalls
        <3> QED BY <3>1, StepFields DEF GoesTo
    <2>3. b # a => todo'[b] = << >>
        BY <2>1, Distinct DEF OnlyMoves
    <2> QED BY <2>2, <2>3, CallAside
<1>5. ASSUME NEW t \in Threads, ConnectStart(t) PROVE CallInv(b)'
    <2>1. /\ OnlyMoves(t) /\ At(t, "connect") /\ t \in App /\ hv' = hv /\ tcp' = tcp
          /\ IF tcp = "disconnected" THEN GoesTo(t, Step("exchange", "connecting")) ELSE todo'[t] = << >>
        BY <1>5, ConnectStartCalls DEF ConnectStart, netVars, Settled, At, Idle
    <2>2. CASE b # t
        BY <2>1, <2>2, CallOther
    <2>3. CASE b = t /\ tcp = "disconnected"
        <3>1. Closed /\ (Idle(IO) \/ Reporting(IO, "disconnected"))
            BY <2>3, IOSteps DEF Settled, NetworkInv
        <3>2. Closed' /\ (Idle(IO)' \/ Reporting(IO, "disconnected")')
            BY <2>1, <3>1, OthersAt, Distinct DEF Closed
        <3>3. GoesTo(b, Step("exchange", "connecting"))
            BY <2>1, <2>3
        <3>4. /\ \A o : At(b, o)' <=> o = "exchange"
              /\ \A s : (Exchanging(b, s)' <=> s = "connecting") /\ ~ Reporting(b, s)'
            BY <3>3, AtStep
        <3> QED BY <2>1, <2>3, <3>2, <3>4 DEF CallInv
    <2>4. CASE b = t /\ tcp # "disconnected"
        BY <2>1, <2>4, CallAside
    <2> QED BY <2>2, <2>3, <2>4
<1>6. ASSUME NEW t \in Threads, Exchange(t) PROVE CallInv(b)'
    <2>1. /\ OnlyMoves(t) /\ At(t, "exchange") /\ Arg(t) \in NetStates /\ tcp' = Arg(t) /\ hv' = hv
          /\ t \in App \cup {IO} /\ (Arg(t) = "connected" => t = IO)
          /\ IF tcp # Arg(t) THEN GoesTo(t, Step("notify", Arg(t)))
                            ELSE \/ todo'[t] = << >>
                                 \/ Arg(t) = "connecting" /\ GoesTo(t, Step("create", None))
                                 \/ Arg(t) = "disconnected" /\ GoesTo(t, Step("cancel", None))
        BY <1>6, ExchangeCalls, StepTaken, Distinct DEF Exchange, Settled, Threads
    <2>2. Exchanging(t, Arg(t)) /\ Closed' = Closed
        BY <2>1 DEF Exchanging, Closed
    <2>3. CASE t = IO
        BY <2>1, <2>3, CallBusy
    <2>4. CASE t # IO /\ b # t
        BY <2>1, <2>4, CallOther
    <2>5. CASE b = t
        <3>1. CASE Arg(t) = "connecting"
            <4>1. tcp = "disconnected" /\ Closed /\ (Idle(IO) \/ Reporting(IO, "disconnected"))
                BY <2>2, <2>5, <3>1 DEF Settled, CallInv
            <4>2. Closed' /\ (Idle(IO)' \/ Reporting(IO, "disconnected")')
                BY <2>1, <2>2, <2>5, <4>1, OthersAt, Distinct
            <4>3. GoesTo(b, Step("notify", "connecting"))
                BY <2>1, <2>5, <3>1, <4>1
            <4>4. /\ \A o : At(b, o)' <=> o = "notify"
                  /\ \A s : ~ Exchanging(b, s)' /\ (Reporting(b, s)' <=> s = "connecting")
                BY <4>3, AtStep
            <4> QED BY <2>1, <3>1, <4>2, <4>4 DEF CallInv
        <3>2. CASE Arg(t) = "disconnected"
            <4>1. Closed /\ Idle(IO)
                BY <2>2, <2>5, <3>2 DEF Settled, CallInv
            <4>2. Closed' /\ Idle(IO)' /\ tcp' = "disconnected"
                BY <2>1, <2>2, <2>5, <3>2, <4>1, OthersAt, Distinct
            <4>3. \/ GoesTo(b, Step("notify", "disconnected"))
                  \/ todo'[b] = << >>
                  \/ GoesTo(b, Step("cancel", None))
                BY <2>1, <2>5, <3>2
            <4>4. /\ ~ At(b, "create")'
                  /\ ~ Exchanging(b, "connecting")' /\ ~ Reporting(b, "connecting")'
                  /\ ~ Exchanging(b, "disconnected")'
                <5>1. CASE GoesTo(b, Step("notify", "disconnected"))
                    BY <5>1, AtStep
                <5>2. CASE todo'[b] = << >>
                    BY <5>2, AtEnd
                <5>3. CASE GoesTo(b, Step("cancel", None))
                    BY <5>3, AtStep
                <5> QED BY <4>3, <5>1, <5>2, <5>3
            <4> QED BY <4>2, <4>4 DEF CallInv
        <3>3. Arg(t) = "connecting" \/ Arg(t) = "disconnected"
            BY <2>1, <2>5, Distinct DEF NetStates
        <3> QED BY <3>1, <3>2, <3>3
    <2> QED BY <2>3, <2>4, <2>5
<1>7. ASSUME NEW t \in Threads, Create(t) PROVE CallInv(b)'
    <2>1. /\ OnlyMoves(t) /\ At(t, "create") /\ t \in App /\ Idle(IO)
          /\ \/ hv' = "closed" /\ GoesTo(t, Step("exchange", "disconnected"))
             \/ hv' = "dialing" /\ todo'[t] = << >>
        BY <1>7, CreateCalls DEF Create, Settled, At, Idle
    <2>2. CASE b # t
        BY <2>1, <2>2, CallOther
    <2>3. CASE b = t /\ todo'[t] = << >>
        BY <2>3, CallAside
    <2>4. CASE b = t /\ todo'[t] # << >>
        <3>1. hv' = "closed" /\ GoesTo(b, Step("exchange", "disconnected")) /\ Closed'
            BY <2>1, <2>4 DEF Closed
        <3>2. Idle(IO)'
            BY <2>1, OthersAt, Distinct
        <3>3. /\ \A o : At(b, o)' <=> o = "exchange"
              /\ \A s : (Exchanging(b, s)' <=> s = "disconnected") /\ ~ Reporting(b, s)'
            BY <3>1, AtStep
        <3> QED BY <3>1, <3>2, <3>3 DEF CallInv
    <2> QED BY <2>2, <2>3, <2>4
<1>8. ASSUME NEW t \in Threads, Notify(t) PROVE CallInv(b)'
    <2>1. /\ OnlyMoves(t) /\ At(t, "notify") /\ tcp' = tcp /\ hv' = hv /\ Arg(t) \in NetStates
          /\ t \in App \cup {IO} /\ (Arg(t) = "connecting" => t # IO) /\ (Arg(t) = "connected" => t = IO)
          /\ \/ todo'[t] = << >>
             \/ Arg(t) = "connecting" /\ GoesTo(t, Step("create", None))
             \/ Arg(t) = "disconnected" /\ t \in App /\ GoesTo(t, Step("cancel", None))
        <3>1. At(t, "notify") /\ tcp' = tcp /\ hv' = hv
            BY <1>8 DEF Notify, netVars
        <3>2. t \in App \cup {IO} /\ (Arg(t) = "connecting" => t # IO)
            BY <1>8, <3>1, NotifyCalls, ReportsOf
        <3> QED BY <1>8, <3>1, <3>2, NotifyCalls
    <2>2. Reporting(t, Arg(t)) /\ Closed' = Closed
        BY <2>1 DEF Reporting, Closed
    <2>3. CASE t = IO /\ Arg(t) = "connected"
        <3>1. Live
            BY <2>2, <2>3 DEF Settled, NetworkInv
        <3>2. ~ Closed
            BY <3>1 DEF Live, Closed
        <3>3. b # t /\ todo'[b] = todo[b]
            BY <2>1, <2>3, Distinct DEF OnlyMoves
        <3>4. (Idle(IO) => Idle(IO)') /\ (Reporting(IO, "disconnected") => Idle(IO)')
            BY <2>1, <2>3, Distinct, AtEnd
        <3> QED BY <2>1, <2>2, <3>3, <3>4, CallFrame DEF Settled
    <2>4. CASE t = IO /\ Arg(t) = "disconnected"
        <3>1. todo'[IO] = << >> /\ todo'[b] = todo[b]
            BY <2>1, <2>4, Distinct DEF OnlyMoves
        <3> QED BY <2>1, <2>2, <3>1, CallFrame DEF Settled, Idle
    <2>5. CASE t # IO /\ b # t
        BY <2>1, <2>5, CallOther
    <2>6. CASE t # IO /\ b = t
        <3>1. (Idle(IO)' <=> Idle(IO)) /\ (Reporting(IO, "disconnected")' <=> Reporting(IO, "disconnected"))
            BY <2>1, <2>6, OthersAt, Distinct
        <3>2. CASE todo'[b] = << >>
            BY <3>2, CallAside
        <3>3. CASE Arg(t) = "connecting" /\ GoesTo(b, Step("create", None))
            <4>1. /\ \A o : At(b, o)' <=> o = "create"
                  /\ \A s : ~ Exchanging(b, s)' /\ ~ Reporting(b, s)'
                BY <3>3, AtStep
            <4> QED BY <2>1, <2>2, <2>6, <3>1, <3>3, <4>1 DEF Settled, CallInv
        <3>4. CASE Arg(t) = "disconnected" /\ GoesTo(b, Step("cancel", None))
            <4>1. /\ \A o : At(b, o)' <=> o = "cancel"
                  /\ \A s : ~ Exchanging(b, s)' /\ ~ Reporting(b, s)'
                BY <3>4, AtStep
            <4> QED BY <2>1, <2>2, <2>6, <3>1, <3>4, <4>1 DEF Settled, CallInv
        <3> QED BY <2>1, <2>6, <3>2, <3>3, <3>4
    <2>7. Arg(t) \in {"connecting", "connected", "disconnected"}
        BY <2>1 DEF NetStates
    <2> QED BY <2>1, <2>3, <2>4, <2>5, <2>6, <2>7
<1>9. ASSUME NEW t \in Threads, Lock(t) PROVE CallInv(b)'
    BY <1>9, LockCalls, Distinct
       DEF Lock, OnlyMoves, GoesTo, GoesOn, Step, netVars, ctxVars, Settled, NetworkInv,
           CallInv, Exchanging, Reporting, At, Arg, Idle, Closed, Live
<1>10. ASSUME NEW t \in Threads, Join(t) PROVE CallInv(b)'
    BY <1>10, JoinCalls, Distinct
       DEF Join, OnlyMoves, GoesTo, GoesOn, Step, netVars, ctxVars, Settled, NetworkInv,
           CallInv, Exchanging, Reporting, At, Arg, Idle, Closed, Live
<1>11. ASSUME NEW t \in Threads, Send(t) PROVE CallInv(b)'
    BY <1>11, SendCalls, Distinct
       DEF Send, OnlyMoves, GoesTo, GoesOn, Step, netVars, ctxVars, Settled, NetworkInv,
           CallInv, Exchanging, Reporting, At, Arg, Idle, Closed, Live
<1>12. ASSUME NEW t \in Threads, Register(t) PROVE CallInv(b)'
    <2>1. OnlyMoves(t) /\ At(t, "register") /\ tcp' = tcp /\ hv' = hv /\ t \in App \cup {IO}
        BY <1>12, RegisterCalls DEF Register, netVars
    <2>2. todo'[t] # << >> /\ Head(todo'[t]).op = "send"
        <3>1. GoesTo(t, Step("send", Arg(t)))
            BY <1>12, RegisterCalls
        <3> QED BY <3>1, StepFields DEF GoesTo
    <2>3. CASE t = IO
        BY <2>1, <2>3, CallBusy
    <2>4. CASE t # IO /\ b # t
        BY <2>1, <2>4, CallOther
    <2>5. CASE b = t
        BY <2>2, <2>5, CallAside
    <2> QED BY <2>3, <2>4, <2>5
<1>13. ASSUME NEW t \in Threads, Answer(t) PROVE CallInv(b)'
    BY <1>13, AnswerCalls, Distinct
       DEF Answer, OnlyMoves, GoesTo, GoesOn, Step, netVars, ctxVars, Settled, NetworkInv,
           CallInv, Exchanging, Reporting, At, Arg, Idle, Closed, Live
<1>14. ASSUME NEW t \in Threads, SyncSend(t) PROVE CallInv(b)'
    BY <1>14, SyncSendCalls, Distinct
       DEF SyncSend, OnlyMoves, GoesTo, GoesOn, Step, netVars, ctxVars, Settled, NetworkInv,
           CallInv, Exchanging, Reporting, At, Arg, Idle, Closed, Live
<1>15. ASSUME NEW t \in Threads, Timeout(t) PROVE CallInv(b)'
    BY <1>15, TimeoutCalls, Distinct
       DEF Timeout, OnlyMoves, GoesTo, GoesOn, Step, netVars, ctxVars, Settled, NetworkInv,
           CallInv, Exchanging, Reporting, At, Arg, Idle, Closed, Live
<1>16. ASSUME NEW t \in Threads, Stop(t) PROVE CallInv(b)'
    <2>1. OnlyMoves(t) /\ At(t, "stop") /\ t \in App
        BY <1>16, StopCalls DEF Stop
    <2>2. todo'[t] # << >> => Head(todo'[t]).op = "lock"
        BY <1>16, StopCalls DEF GoesOn, Step
    <2>3. CASE b # t
        BY <2>1, <2>3, CallOther
    <2>4. CASE b = t
        BY <2>2, <2>4, CallAside
    <2> QED BY <2>3, <2>4
<1>17. ASSUME NEW t \in Threads, Cancel(t) PROVE CallInv(b)'
    BY <1>17, CancelCalls, Distinct
       DEF Cancel, OnlyMoves, GoesTo, GoesOn, Step, netVars, ctxVars, Settled, NetworkInv,
           CallInv, Exchanging, Reporting, At, Arg, Idle, Closed, Live
<1>18. ASSUME NEW t \in Threads, Down(t) PROVE CallInv(b)'
    BY <1>18, DownCalls, Distinct
       DEF Down, OnlyMoves, GoesTo, GoesOn, Step, netVars, ctxVars, Settled, NetworkInv,
           CallInv, Exchanging, Reporting, At, Arg, Idle, Closed, Live
<1>19. CASE DialUp
    BY <1>19, DialUpCalls, Distinct
       DEF DialUp, OnlyMoves, GoesTo, GoesOn, Step, netVars, ctxVars, Settled, NetworkInv,
           CallInv, Exchanging, Reporting, At, Arg, Idle, Closed, Live
<1>20. CASE SocketDown
    BY <1>20, SocketDownCalls, Distinct
       DEF SocketDown, OnlyMoves, GoesTo, GoesOn, Step, netVars, ctxVars, Settled, NetworkInv,
           CallInv, Exchanging, Reporting, At, Arg, Idle, Closed, Live
<1>21. CASE LoopStops
    BY <1>21, LoopStopsCalls, Distinct
       DEF LoopStops, OnlyMoves, GoesTo, GoesOn, Step, netVars, ctxVars, Settled, NetworkInv,
           CallInv, Exchanging, Reporting, At, Arg, Idle, Closed, Live
<1>22. CASE KickNotify
    BY <1>22, KickNotifyCalls, Distinct
       DEF KickNotify, OnlyMoves, GoesTo, GoesOn, Step, netVars, ctxVars, Settled, NetworkInv,
           CallInv, Exchanging, Reporting, At, Arg, Idle, Closed, Live
<1>23. ASSUME NEW r \in Requests, HandleResponse(r) PROVE CallInv(b)'
    BY <1>23, HandleResponseCalls, Distinct
       DEF HandleResponse, OnlyMoves, GoesTo, GoesOn, Step, netVars, ctxVars, Settled,
           NetworkInv, CallInv, Exchanging, Reporting, At, Arg, Idle, Closed, Live
<1>24. CASE TimerFires
    BY <1>24, TimerFiresCalls, Distinct
       DEF TimerFires, OnlyMoves, GoesTo, GoesOn, Step, netVars, ctxVars, Settled, NetworkInv,
           CallInv, Exchanging, Reporting, At, Arg, Idle, Closed, Live
<1>25. CASE CheckTimeouts
    BY <1>0, <1>25, CheckTimeoutsCalls, Distinct
       DEF CheckTimeouts, OnlyMoves, GoesTo, GoesOn, Step, netVars, ctxVars, Settled,
           NetworkInv, CallInv, Exchanging, Reporting, At, Arg, Idle, Closed, Live
<1>26. CASE UNCHANGED vars
    BY <1>26, CallFrame DEF vars, netVars, Settled, Closed, Idle, Reporting, At, Arg
<1> QED
    BY <1>1, <1>2, <1>3, <1>4, <1>5, <1>6, <1>7, <1>8, <1>9, <1>10, <1>11, <1>12, <1>13, <1>14,
       <1>15, <1>16, <1>17, <1>18, <1>19, <1>20, <1>21, <1>22, <1>23, <1>24, <1>25, <1>26
    DEF Next, AppCall, Proceed, Network

\* The reported state goes on to follow the network's.
LEMMA ReportNext ==
    ASSUME TodoInv, StateTypeOK, Settled, [Next]_vars, solo'
    PROVE  ReportInv'
<1>0. pending \subseteq Requests
    BY DEF StateTypeOK
<1>1. ASSUME NEW a \in App, CallConnect(a) PROVE ReportInv'
    <2>1. OnlyMoves(a) /\ ~ At(a, "notify")
        BY <1>1, CallConnectCalls, AtNow DEF CallConnect, AppCalls, Idle, At
    <2>2. ~ At(a, "notify")'
        BY <1>1, CallConnectCalls, AtStep, AtEnd DEF GoesTo, GoesOn, At, Step
    <2>3. tcp' = tcp /\ state' = state /\ uid' = uid /\ (stopped => stopped') /\ kicked' = kicked
        BY <1>1 DEF CallConnect, AppCalls, netVars, ctxVars, history
    <2> QED BY <2>1, <2>2, <2>3, ReportFrame, Distinct DEF Settled
<1>2. ASSUME NEW a \in App, CallDisconnect(a) PROVE ReportInv'
    <2>1. OnlyMoves(a) /\ ~ At(a, "notify")
        BY <1>2, CallDisconnectCalls, AtNow DEF CallDisconnect, AppCalls, Idle, At
    <2>2. ~ At(a, "notify")'
        BY <1>2, CallDisconnectCalls, AtStep, AtEnd DEF GoesTo, GoesOn, At, Step
    <2>3. tcp' = tcp /\ state' = state /\ uid' = uid /\ (stopped => stopped') /\ kicked' = kicked
        BY <1>2 DEF CallDisconnect, AppCalls, netVars, ctxVars, history
    <2> QED BY <2>1, <2>2, <2>3, ReportFrame, Distinct DEF Settled
<1>3. ASSUME NEW a \in App, CallShutdown(a) PROVE ReportInv'
    <2>1. OnlyMoves(a) /\ ~ At(a, "notify")
        BY <1>3, CallShutdownCalls, AtNow DEF CallShutdown, AppCalls, Idle, At
    <2>2. ~ At(a, "notify")'
        BY <1>3, CallShutdownCalls, AtStep, AtEnd DEF GoesTo, GoesOn, At, Step
    <2>3. tcp' = tcp /\ state' = state /\ uid' = uid /\ (stopped => stopped') /\ kicked' = kicked
        BY <1>3 DEF CallShutdown, AppCalls, netVars, ctxVars, history
    <2> QED BY <2>1, <2>2, <2>3, ReportFrame, Distinct DEF Settled
<1>4. ASSUME NEW a \in App, NEW r \in Requests, CallRequest(a, r) PROVE ReportInv'
    <2>1. OnlyMoves(a) /\ ~ At(a, "notify")
        BY <1>4, CallRequestCalls, AtNow DEF CallRequest, AppCalls, Idle, At
    <2>2. ~ At(a, "notify")'
        <3>1. GoesTo(a, Step("register", r))
            BY <1>4, CallRequestCalls
        <3> QED BY <3>1, AtStep, AtEnd
    <2>3. tcp' = tcp /\ state' = state /\ uid' = uid /\ (stopped => stopped') /\ kicked' = kicked
        BY <1>4 DEF CallRequest, AppCalls, netVars, ctxVars, history
    <2> QED BY <2>1, <2>2, <2>3, ReportFrame, Distinct DEF Settled
<1>5. ASSUME NEW t \in Threads, ConnectStart(t) PROVE ReportInv'
    <2>1. OnlyMoves(t) /\ ~ At(t, "notify")
        BY <1>5, ConnectStartCalls, AtNow DEF ConnectStart, Idle, At
    <2>2. ~ At(t, "notify")'
        BY <1>5, ConnectStartCalls, AtStep, AtEnd DEF GoesTo, GoesOn, At, Step
    <2>3. tcp' = tcp /\ state' = state /\ uid' = uid /\ (stopped => stopped') /\ kicked' = kicked
        BY <1>5 DEF ConnectStart, netVars, ctxVars, history
    <2> QED BY <2>1, <2>2, <2>3, ReportFrame, Distinct DEF Settled
<1>6. ASSUME NEW t \in Threads, Exchange(t) PROVE ReportInv'
    <2>1. /\ OnlyMoves(t) /\ At(t, "exchange") /\ Arg(t) \in NetStates /\ tcp' = Arg(t)
          /\ state' = state /\ uid' = uid /\ stopped' = stopped /\ kicked' = kicked
          /\ t \in App \cup {IO} /\ (Arg(t) = "connecting" => t # IO) /\ (Arg(t) = "connected" => t = IO)
          /\ IF tcp # Arg(t) THEN GoesTo(t, Step("notify", Arg(t)))
                            ELSE \/ todo'[t] = << >>
                                 \/ Arg(t) = "connecting" /\ GoesTo(t, Step("create", None))
                                 \/ Arg(t) = "disconnected" /\ GoesTo(t, Step("cancel", None))
        <3>1. At(t, "exchange") /\ state' = state /\ uid' = uid /\ stopped' = stopped /\ kicked' = kicked
            BY <1>6 DEF Exchange, ctxVars, history
        <3>2. t \in App \cup {IO} /\ (Arg(t) = "connecting" => t # IO)
            BY <1>6, <3>1, ExchangeCalls, ReportsOf
        <3>3. /\ tcp = Arg(t) =>
                    \/ todo'[t] = << >>
                    \/ Arg(t) = "connecting" /\ GoesTo(t, Step("create", None))
                    \/ Arg(t) = "disconnected" /\ GoesTo(t, Step("cancel", None))
              /\ tcp # Arg(t) => GoesTo(t, Step("notify", Arg(t)))
            BY <1>6, ExchangeCalls
        <3> QED BY <1>6, <3>1, <3>2, <3>3, ExchangeCalls
    <2>2. Exchanging(t, Arg(t)) /\ \A s : ~ Reporting(t, s)
        BY <2>1, AtNow
    <2>3. CASE tcp = Arg(t)
        <3>1. ~ At(t, "notify") /\ ~ At(t, "notify")'
            BY <2>1, <2>3, AtNow, AtStep, AtEnd
        <3> QED BY <2>1, <2>3, <3>1, ReportFrame DEF Settled
    <2>4. CASE tcp # Arg(t)
        <3>1. \A s : Reporting(t, s)' <=> s = Arg(t)
            BY <2>1, <2>4, AtStep
        <3>2. Arg(t) # "connecting" => ~ (state = "disconnected" /\ ~ stopped)
            <4> SUFFICES ASSUME Arg(t) # "connecting", state = "disconnected", ~ stopped
                         PROVE  FALSE
                OBVIOUS
            <4>1. CASE tcp = "disconnected"
                <5>1. t = IO /\ Arg(t) = "connected"
                    BY <2>1, <2>4, <4>1 DEF NetStates
                <5> QED BY <2>2, <4>1, <5>1 DEF Settled, NetworkInv
            <4>2. CASE tcp # "disconnected"
                <5>1. PICK a \in App : Reporting(a, "connecting")
                    BY <4>2, ReportDial DEF Settled, DialUnderway
                <5>2. a # t /\ ~ Idle(a) /\ ~ Idle(t)
                    BY <2>1, <2>2, <5>1 DEF Reporting, At, Idle
                <5>3. t = IO
                    BY <2>1, <5>2 DEF Settled
                <5>4. Closed /\ (Idle(IO) \/ Reporting(IO, "disconnected"))
                    BY <5>1 DEF Settled, CallInv
                <5> QED BY <2>2, <5>2, <5>3, <5>4
            <4> QED BY <4>1, <4>2
        <3>3. Arg(t) = "disconnected" => DownUnderway'
            BY <2>1, <3>1, DownMoves
        <3>4. CASE Arg(t) = "connecting"
            <4>1. t \in App /\ tcp = "disconnected"
                BY <2>1, <2>2, <3>4 DEF Settled, CallInv
            <4>2. (DownUnderway' <=> DownUnderway) /\ DialUnderway'
                BY <2>1, <2>2, <3>1, <3>4, <4>1, DownMoves, DialMoves
            <4> QED BY <2>1, <3>4, <4>1, <4>2, ReportParts, ReportDial DEF Settled
        <3>5. CASE Arg(t) = "connected"
            <4>1. Reporting(IO, "connected")'
                BY <2>1, <3>1, <3>5
            <4> QED BY <2>1, <3>2, <3>5, <4>1, ReportParts
        <3>6. CASE Arg(t) = "disconnected"
            BY <2>1, <3>2, <3>3, <3>6, ReportParts
        <3> QED BY <2>1, <3>4, <3>5, <3>6 DEF NetStates
    <2> QED BY <2>3, <2>4
<1>7. ASSUME NEW t \in Threads, Create(t) PROVE ReportInv'
    BY <1>7, CreateCalls, Distinct
       DEF Create, OnlyMoves, GoesTo, GoesOn, Step, netVars, ctxVars, Settled, ReportInv,
           NetworkInv, CallInv, Exchanging, Reporting, At, Arg, Idle, Closed, Live,
           DownUnderway, DownState
<1>8. ASSUME NEW t \in Threads, Notify(t) PROVE ReportInv'
    <2> DEFINE down == Arg(t) = "disconnected"
    <2>1. /\ OnlyMoves(t) /\ At(t, "notify") /\ tcp' = tcp /\ Arg(t) \in NetStates
          /\ state' = (IF down THEN DownState ELSE Arg(t)) /\ uid' = (uid /\ ~ down)
          /\ stopped' = stopped /\ kicked' = kicked
          /\ t \in App \cup {IO} /\ (Arg(t) = "connecting" => t # IO) /\ (Arg(t) = "connected" => t = IO)
        <3>1. /\ At(t, "notify") /\ tcp' = tcp /\ uid' = (uid /\ ~ down)
              /\ state' = (IF down THEN DownState ELSE Arg(t)) /\ stopped' = stopped /\ kicked' = kicked
            BY <1>8 DEF Notify, netVars
        <3>2. t \in App \cup {IO} /\ (Arg(t) = "connecting" => t # IO)
            BY <1>8, <3>1, NotifyCalls, ReportsOf
        <3> HIDE DEF down
        <3> QED BY <1>8, <3>1, <3>2, NotifyCalls
    <2>2. Reporting(t, Arg(t)) /\ \A s : Reporting(t, s) => s = Arg(t)
        BY <2>1, AtNow
    <2>3. CASE Arg(t) = "connected"
        <3>1. tcp = "connected" /\ state' = "connected"
            BY <2>1, <2>2, <2>3 DEF Settled, NetworkInv
        <3> QED BY <2>1, <3>1, ReportParts
    <2>4. CASE Arg(t) = "connecting"
        <3>1. tcp = "connecting" /\ state' = "connecting" /\ uid' = uid
            BY <2>1, <2>2, <2>4 DEF Settled, CallInv, StateTypeOK
        <3>2. uid => DownUnderway
            BY <3>1 DEF Settled, ReportInv
        <3>3. DownUnderway => DownUnderway'
            BY <2>1, <2>2, <2>4, DownMoves
        <3> QED BY <2>1, <3>1, <3>2, <3>3, ReportParts
    <2>5. CASE Arg(t) = "disconnected"
        <3>1. tcp # "connected"
            BY <2>1, <2>2, <2>5 DEF Settled, NetworkInv, CallInv
        <3>2. ~ (state = "disconnected" /\ ~ stopped)
            BY <2>1, <2>2, <2>5, DownMoves, ReportDial DEF Settled
        <3>3. /\ state' \in {"disconnected", "reconnecting"} /\ uid' = FALSE
              /\ state' = "disconnected" => stopped'
            BY <2>1, <2>5, <3>2 DEF DownState
        <3> QED BY <2>1, <3>1, <3>3, ReportParts
    <2> QED BY <2>1, <2>3, <2>4, <2>5 DEF NetStates
<1>9. ASSUME NEW t \in Threads, Lock(t) PROVE ReportInv'
    <2>1. OnlyMoves(t) /\ ~ At(t, "notify")
        BY <1>9, LockCalls, AtNow DEF Lock, Idle, At
    <2>2. ~ At(t, "notify")'
        BY <1>9, LockCalls, AtStep, AtEnd DEF GoesTo, GoesOn, At, Step
    <2>3. tcp' = tcp /\ state' = state /\ uid' = uid /\ (stopped => stopped') /\ kicked' = kicked
        BY <1>9 DEF Lock, netVars, ctxVars, history
    <2> QED BY <2>1, <2>2, <2>3, ReportFrame, Distinct DEF Settled
<1>10. ASSUME NEW t \in Threads, Join(t) PROVE ReportInv'
    <2>1. OnlyMoves(t) /\ ~ At(t, "notify")
        BY <1>10, JoinCalls, AtNow DEF Join, Idle, At
    <2>2. ~ At(t, "notify")'
        BY <1>10, JoinCalls, AtStep, AtEnd DEF GoesTo, GoesOn, At, Step
    <2>3. tcp' = tcp /\ state' = state /\ uid' = uid /\ (stopped => stopped') /\ kicked' = kicked
        BY <1>10 DEF Join, netVars, ctxVars, history
    <2> QED BY <2>1, <2>2, <2>3, ReportFrame, Distinct DEF Settled
<1>11. ASSUME NEW t \in Threads, Send(t) PROVE ReportInv'
    <2>1. OnlyMoves(t) /\ ~ At(t, "notify")
        BY <1>11, SendCalls, AtNow DEF Send, Idle, At
    <2>2. ~ At(t, "notify")'
        BY <1>11, SendCalls, AtStep, AtEnd DEF GoesTo, GoesOn, At, Step
    <2>3. tcp' = tcp /\ state' = state /\ uid' = uid /\ (stopped => stopped') /\ kicked' = kicked
        BY <1>11 DEF Send, netVars, ctxVars, history
    <2> QED BY <2>1, <2>2, <2>3, ReportFrame, Distinct DEF Settled
<1>12. ASSUME NEW t \in Threads, Register(t) PROVE ReportInv'
    <2>1. OnlyMoves(t) /\ ~ At(t, "notify")
        BY <1>12, RegisterCalls, AtNow DEF Register, Idle, At
    <2>2. ~ At(t, "notify")'
        <3>1. GoesTo(t, Step("send", Arg(t)))
            BY <1>12, RegisterCalls
        <3> QED BY <3>1, AtStep, AtEnd
    <2>3. tcp' = tcp /\ state' = state /\ uid' = uid /\ (stopped => stopped') /\ kicked' = kicked
        BY <1>12 DEF Register, netVars, ctxVars, history
    <2> QED BY <2>1, <2>2, <2>3, ReportFrame, Distinct DEF Settled
<1>13. ASSUME NEW t \in Threads, Answer(t) PROVE ReportInv'
    BY <1>13, AnswerCalls, Distinct
       DEF Answer, OnlyMoves, GoesTo, GoesOn, Step, netVars, ctxVars, Settled, ReportInv,
           NetworkInv, CallInv, Exchanging, Reporting, At, Arg, Idle, Closed, Live,
           DownUnderway, DownState
<1>14. ASSUME NEW t \in Threads, SyncSend(t) PROVE ReportInv'
    <2>1. OnlyMoves(t) /\ ~ At(t, "notify")
        BY <1>14, SyncSendCalls, AtNow DEF SyncSend, Idle, At
    <2>2. ~ At(t, "notify")'
        <3>1. todo'[t] = << >> \/ \E s \in Syncs : GoesTo(t, Step("register", s))
            BY <1>14, SyncSendCalls
        <3> QED BY <3>1, AtStep, AtEnd
    <2>3. tcp' = tcp /\ state' = state /\ uid' = uid /\ (stopped => stopped') /\ kicked' = kicked
        BY <1>14 DEF SyncSend, netVars, ctxVars, history
    <2> QED BY <2>1, <2>2, <2>3, ReportFrame, Distinct DEF Settled
<1>15. ASSUME NEW t \in Threads, Timeout(t) PROVE ReportInv'
    <2>1. OnlyMoves(t) /\ ~ At(t, "notify")
        BY <1>15, TimeoutCalls, AtNow DEF Timeout, Idle, At
    <2>2. ~ At(t, "notify")'
        <3>1. todo'[t] = << >> \/ \E x : GoesTo(t, Step("timeout", x))
            BY <1>15, TimeoutCalls
        <3> QED BY <3>1, AtStep, AtEnd
    <2>3. tcp' = tcp /\ state' = state /\ uid' = uid /\ (stopped => stopped') /\ kicked' = kicked
        BY <1>15 DEF Timeout, netVars, ctxVars, history
    <2> QED BY <2>1, <2>2, <2>3, ReportFrame, Distinct DEF Settled
<1>16. ASSUME NEW t \in Threads, Stop(t) PROVE ReportInv'
    <2>1. OnlyMoves(t) /\ ~ At(t, "notify")
        BY <1>16, StopCalls, AtNow DEF Stop, Idle, At
    <2>2. ~ At(t, "notify")'
        BY <1>16, StopCalls, AtStep, AtEnd DEF GoesTo, GoesOn, At, Step
    <2>3. tcp' = tcp /\ state' = state /\ uid' = uid /\ (stopped => stopped') /\ kicked' = kicked
        BY <1>16 DEF Stop, netVars, ctxVars, history
    <2> QED BY <2>1, <2>2, <2>3, ReportFrame, Distinct DEF Settled
<1>17. ASSUME NEW t \in Threads, Cancel(t) PROVE ReportInv'
    <2>1. OnlyMoves(t) /\ ~ At(t, "notify")
        BY <1>17, CancelCalls, AtNow DEF Cancel, Idle, At
    <2>2. ~ At(t, "notify")'
        BY <1>17, CancelCalls, AtStep, AtEnd DEF GoesTo, GoesOn, At, Step
    <2>3. tcp' = tcp /\ state' = state /\ uid' = uid /\ (stopped => stopped') /\ kicked' = kicked
        BY <1>17 DEF Cancel, netVars, ctxVars, history
    <2> QED BY <2>1, <2>2, <2>3, ReportFrame, Distinct DEF Settled
<1>18. ASSUME NEW t \in Threads, Down(t) PROVE ReportInv'
    <2>1. /\ OnlyMoves(t) /\ At(t, "down") /\ t \in App /\ todo'[t] = << >>
          /\ tcp' = tcp /\ state' = "disconnected" /\ uid' = FALSE
        BY <1>18, DownCalls DEF Down, netVars
    <2>2. tcp = "disconnected" /\ Idle(IO)
        BY <2>1 DEF Settled, CallInv
    <2>3. \A s : ~ Reporting(t, s) /\ ~ Reporting(t, s)'
        BY <2>1, AtNow, AtEnd
    <2>4. ~ DownUnderway
        <3> SUFFICES ASSUME NEW u \in Threads, Reporting(u, "disconnected")
                     PROVE  FALSE
            BY DEF DownUnderway, Reporting
        <3>1. At(u, "notify") /\ Arg(u) = "disconnected" /\ ~ Idle(u) /\ ~ Idle(t) /\ u # t
            BY <2>1, <2>3 DEF Reporting, At, Idle
        <3>2. u # Checker
            BY <3>1, StepTaken DEF Takes
        <3>3. u \in App
            BY <2>2, <3>1, <3>2 DEF Settled, Threads
        <3> QED BY <2>1, <3>1, <3>3 DEF Settled
    <2>5. ~ DownUnderway'
        BY <2>1, <2>3, <2>4, DownMoves
    <2> QED BY <2>1, <2>2, <2>5, ReportParts
<1>19. CASE DialUp
    BY <1>19, DialUpCalls, Distinct
       DEF DialUp, OnlyMoves, GoesTo, GoesOn, Step, netVars, ctxVars, Settled, ReportInv,
           NetworkInv, CallInv, Exchanging, Reporting, At, Arg, Idle, Closed, Live,
           DownUnderway, DownState
<1>20. CASE SocketDown
    <2>1. OnlyMoves(IO) /\ ~ At(IO, "notify")
        BY <1>20, SocketDownCalls, AtNow DEF SocketDown, Idle, At
    <2>2. ~ At(IO, "notify")'
        BY <1>20, SocketDownCalls, AtStep, AtEnd DEF GoesTo, GoesOn, At, Step
    <2>3. tcp' = tcp /\ state' = state /\ uid' = uid /\ (stopped => stopped') /\ kicked' = kicked
        BY <1>20 DEF SocketDown, netVars, ctxVars, history
    <2> QED BY <2>1, <2>2, <2>3, ReportFrame, Distinct DEF Settled
<1>21. CASE LoopStops
    <2>1. OnlyMoves(IO) /\ ~ At(IO, "notify")
        BY <1>21, LoopStopsCalls, AtNow DEF LoopStops, Idle, At
    <2>2. ~ At(IO, "notify")'
        BY <1>21, LoopStopsCalls, AtStep, AtEnd DEF GoesTo, GoesOn, At, Step
    <2>3. tcp' = tcp /\ state' = state /\ uid' = uid /\ (stopped => stopped') /\ kicked' = kicked
        BY <1>21 DEF LoopStops, netVars, ctxVars, history
    <2> QED BY <2>1, <2>2, <2>3, ReportFrame, Distinct DEF Settled
<1>22. CASE KickNotify
    BY <1>22, KickNotifyCalls, Distinct
       DEF KickNotify, OnlyMoves, GoesTo, GoesOn, Step, netVars, ctxVars, Settled, ReportInv,
           NetworkInv, CallInv, Exchanging, Reporting, At, Arg, Idle, Closed, Live,
           DownUnderway, DownState
<1>23. ASSUME NEW r \in Requests, HandleResponse(r) PROVE ReportInv'
    <2>1. OnlyMoves(IO) /\ ~ At(IO, "notify")
        BY <1>23, HandleResponseCalls, AtNow DEF HandleResponse, Idle, At
    <2>2. ~ At(IO, "notify")'
        <3>1. todo'[IO] = << >> \/ GoesTo(IO, Step("answer", r))
            BY <1>23, HandleResponseCalls
        <3> QED BY <3>1, AtStep, AtEnd
    <2>3. tcp' = tcp /\ state' = state /\ uid' = uid /\ (stopped => stopped') /\ kicked' = kicked
        BY <1>23 DEF HandleResponse, netVars, ctxVars, history
    <2> QED BY <2>1, <2>2, <2>3, ReportFrame, Distinct DEF Settled
<1>24. CASE TimerFires
    BY <1>24, TimerFiresCalls, Distinct
       DEF TimerFires, OnlyMoves, GoesTo, GoesOn, Step, netVars, ctxVars, Settled, ReportInv,
           NetworkInv, CallInv, Exchanging, Reporting, At, Arg, Idle, Closed, Live,
           DownUnderway, DownState
<1>25. CASE CheckTimeouts
    <2>1. OnlyMoves(Checker) /\ ~ At(Checker, "notify")
        BY <1>0, <1>25, CheckTimeoutsCalls, AtNow DEF CheckTimeouts, Idle, At
    <2>2. ~ At(Checker, "notify")'
        <3>1. \E x : GoesTo(Checker, Step("timeout", x))
            BY <1>0, <1>25, CheckTimeoutsCalls
        <3> QED BY <3>1, AtStep, AtEnd
    <2>3. tcp' = tcp /\ state' = state /\ uid' = uid /\ (stopped => stopped') /\ kicked' = kicked
        BY <1>25 DEF CheckTimeouts, netVars, ctxVars, history
    <2> QED BY <2>1, <2>2, <2>3, ReportFrame, Distinct DEF Settled
<1>26. CASE UNCHANGED vars
    BY <1>26
       DEF vars, netVars, ctxVars, history, Settled, ReportInv, Reporting, At, Arg, DownUnderway
<1> QED
    BY <1>1, <1>2, <1>3, <1>4, <1>5, <1>6, <1>7, <1>8, <1>9, <1>10, <1>11, <1>12, <1>13, <1>14,
       <1>15, <1>16, <1>17, <1>18, <1>19, <1>20, <1>21, <1>22, <1>23, <1>24, <1>25, <1>26
    DEF Next, AppCall, Proceed, Network

\* An overlap of the application's calls is never forgotten.
LEMMA SoloOnly ==
    ASSUME [Next]_vars, solo'
    PROVE  solo
BY
   DEF Next, vars, history, AppCall, CallConnect, CallRequest, CallDisconnect, CallShutdown,
       AppCalls,
   Proceed, ConnectStart, Exchange, Create, Notify, Lock, Join, Send, Register, Answer, SyncSend,
   Timeout, Stop, Cancel, Down, Network, DialUp, SocketDown, LoopStops, KickNotify, HandleResponse,
   TimerFires, CheckTimeouts

LEMMA SoloStep ==
    ASSUME TodoInv, StateTypeOK, SoloInv, [Next]_vars
    PROVE  SoloInv'
<1> SUFFICES ASSUME solo'
             PROVE  Settled'
    BY DEF SoloInv
<1>1. Settled
    BY SoloOnly DEF SoloInv
<1>2. ~ timer' /\ Idle(Reconnector)'
    BY <1>1, QuietNext
<1>3. \A a, b \in App : ~ Idle(a)' /\ ~ Idle(b)' => a = b
    BY <1>1, AloneNext
<1>4. NetworkInv'
    BY <1>1, NetworkNext
<1>5. \A b \in App : CallInv(b)'
    BY <1>1, CallNext
<1>6. ReportInv'
    BY <1>1, ReportNext
<1> QED BY <1>2, <1>3, <1>4, <1>5, <1>6 DEF Settled

LEMMA SoloInit == Init => SoloInv
BY Distinct
   DEF Init, SoloInv, Settled, NetworkInv, CallInv, ReportInv, DownUnderway, Exchanging,
       Reporting,
   At, Idle, Closed, Live, Threads

LEMMA SoloHolds == Spec => []SoloInv
<1>1. TodoInv /\ StateTypeOK /\ SoloInv /\ [Next]_vars => SoloInv'
    BY SoloStep
<1> QED BY SoloInit, <1>1, CallsAreWellFormed, PTL DEF Spec

\* Whoever is logged in has a connection or is about to be told of its loss, as long as the
\* application's calls do not overlap: for any number of threads, requests, connections and
\* shutdowns, and whatever the server and the network do.
THEOREM LoginNeedsConnection == Spec => []LoggedInIsConnected
<1>1. SoloInv => LoggedInIsConnected
    BY DEF SoloInv, Settled, ReportInv, LoggedInIsConnected
<1> QED BY <1>1, SoloHolds, PTL

\* The state shown to the application agrees with the network layer's between two reports, as
\* long as the application's calls do not overlap.
THEOREM LayersAgree == Spec => []StatesAgree
<1>1. StateTypeOK /\ SoloInv => StatesAgree
    <2> SUFFICES ASSUME StateTypeOK, SoloInv, solo, \A t \in Threads : ~ At(t, "notify")
                 PROVE  CASE tcp = "disconnected" -> state \in {"disconnected", "reconnecting"}
                          [] tcp = "connecting" -> state \notin {"connected", "authenticated"}
                          [] tcp = "connected" -> state \in {"connected", "authenticated"} \/ kicked
        BY DEF StatesAgree
    <2>1. ReportInv /\ ~ DownUnderway /\ ~ Reporting(IO, "connected")
        BY Distinct DEF SoloInv, Settled, DownUnderway, Reporting
    <2>2. tcp = "disconnected" => state \in {"disconnected", "reconnecting"}
        BY <2>1 DEF ReportInv
    <2>3. tcp = "connecting" => state \notin {"connected", "authenticated"}
        BY <2>1 DEF ReportInv
    <2>4. tcp = "connected" => state \in {"connected", "authenticated"} \/ kicked
        BY <2>1 DEF ReportInv
    <2>5. tcp = "disconnected" \/ tcp = "connecting" \/ tcp = "connected"
        BY DEF StateTypeOK, NetStates
    <2> QED BY <2>2, <2>3, <2>4, <2>5
<1> QED BY <1>1, SoloHolds, CallsAreWellFormed, PTL
=============================================================================
