-------------------------- MODULE ConnSessionProofs --------------------------
(***************************************************************************)
(* Theorems about ConnSession for any number of users, connections and     *)
(* workers, any limit of connections per user and both databases.          *)
(***************************************************************************)
EXTENDS ConnSession, FiniteSetTheorems, FunctionTheorems, SequenceTheorems, TLAPS

-----------------------------------------------------------------------------
\* Selecting from a vector

LEMMA IntervalSize ==
    ASSUME NEW n \in Nat
    PROVE  IsFiniteSet(1 .. n) /\ Cardinality(1 .. n) = n
<1>1. IsFiniteSet(1 .. n) /\ Cardinality(1 .. n) = IF 1 > n THEN 0 ELSE n - 1 + 1
    BY FS_Interval
<1> QED BY <1>1

\* Within keeps the chosen elements and no others, and the vector does not grow.
LEMMA WithinProperties ==
    ASSUME NEW A, NEW vec \in Seq(A), NEW S
    PROVE  /\ Within(vec, S) \in Seq(A)
           /\ Len(Within(vec, S)) <= Len(vec)
           /\ Range(Within(vec, S)) = Range(vec) \cap S
<1> DEFINE here == {i \in DOMAIN vec : vec[i] \in S}
           upto(i) == {k \in here : k <= i}
           rank == [i \in here |-> Cardinality(upto(i))]
           n == Cardinality(here)
           nth(j) == CHOOSE i \in here : rank[i] = j
           res == [j \in 1 .. n |-> vec[nth(j)]]
<1>1. DOMAIN vec = 1 .. Len(vec) /\ Len(vec) \in Nat /\ \A i \in 1 .. Len(vec) : vec[i] \in A
    OBVIOUS
<1>2. here \subseteq 1 .. Len(vec) /\ here \subseteq Nat
    BY <1>1
<1>3. IsFiniteSet(here) /\ n \in Nat /\ n <= Len(vec)
  <2>1. IsFiniteSet(1 .. Len(vec)) /\ Cardinality(1 .. Len(vec)) = Len(vec)
      BY <1>1, IntervalSize
  <2>2. IsFiniteSet(here) /\ Cardinality(here) <= Cardinality(1 .. Len(vec))
      BY <1>2, <2>1, FS_Subset
  <2> QED BY <2>1, <2>2, FS_CardinalityType
<1> HIDE DEF here
<1>4. \A i \in here : IsFiniteSet(upto(i)) /\ Cardinality(upto(i)) \in 1 .. n
  <2> TAKE i \in here
  <2>1. upto(i) \in SUBSET here /\ i \in upto(i)
      BY <1>2
  <2>2. IsFiniteSet(upto(i)) /\ Cardinality(upto(i)) <= n
      BY <1>3, <2>1, FS_Subset
  <2>3. Cardinality(upto(i)) \in Nat /\ Cardinality(upto(i)) # 0
      BY <2>1, <2>2, FS_CardinalityType, FS_EmptySet
  <2> QED BY <1>3, <2>2, <2>3
<1>5. ASSUME NEW i \in here, NEW j \in here, i < j
      PROVE  Cardinality(upto(i)) # Cardinality(upto(j))
  <2>0. \A k \in here : k <= i => k <= j
      BY <1>2, <1>5
  <2>1. upto(i) \in SUBSET upto(j) /\ j \in upto(j) /\ j \notin upto(i)
    <3>1. j <= j /\ ~ (j <= i)
        BY <1>2, <1>5
    <3> QED BY <2>0, <3>1
  <2>2. IsFiniteSet(upto(j))
      BY <1>4
  <2> HIDE DEF upto
  <2>3. Cardinality(upto(j)) = Cardinality(upto(i)) => upto(j) = upto(i)
      BY <2>1, <2>2, FS_Subset
  <2> QED BY <2>1, <2>3
<1>6. rank \in Injection(here, 1 .. n)
  <2>1. rank \in [here -> 1 .. n]
      BY <1>4
  <2>2. \A i, j \in here : rank[i] = rank[j] => i = j
    <3> HIDE DEF upto
    <3>1. \A i, j \in here : i < j \/ j < i \/ i = j
        BY <1>2
    <3> QED BY <1>5, <3>1
  <2> HIDE DEF rank
  <2> QED BY <2>1, <2>2, Fun_IsInj
<1>7. rank \in Surjection(here, 1 .. n)
  <2>1. IsFiniteSet(1 .. n) /\ Cardinality(1 .. n) = n
      BY <1>3, IntervalSize
  <2> HIDE DEF rank
  <2> QED BY <1>6, <2>1, FS_Injection
<1> HIDE DEF rank
<1>8. \A j \in 1 .. n : nth(j) \in here /\ rank[nth(j)] = j
  <2> TAKE j \in 1 .. n
  <2>1. \E i \in here : rank[i] = j
      BY <1>7 DEF Surjection
  <2> QED BY <2>1
<1>9. \A i \in here : rank[i] \in 1 .. n /\ nth(rank[i]) = i
  <2> TAKE i \in here
  <2>1. rank[i] \in 1 .. n /\ \A k, j \in here : rank[k] = rank[j] => k = j
      BY <1>6 DEF Injection, IsInjective
  <2> QED BY <1>8, <2>1
<1> HIDE DEF nth
<1>10. \A j \in 1 .. n : res[j] \in A
    BY <1>1, <1>2, <1>8
<1>11. res \in Seq(A) /\ Len(res) = n /\ DOMAIN res = 1 .. n
  <2>1. res \in [1 .. n -> A]
      BY <1>10
  <2>2. res \in Seq(A)
      BY <1>3, <2>1, SeqDef
  <2> QED BY <1>3, <2>1, <2>2
<1>12. Range(res) = Range(vec) \cap S
  <2>1. ASSUME NEW x \in Range(res) PROVE x \in Range(vec) \cap S
    <3>1. PICK j \in 1 .. n : x = res[j]
        BY <1>11, <2>1 DEF Range
    <3>2. x = vec[nth(j)] /\ nth(j) \in here
        BY <1>8, <3>1
    <3> QED BY <3>2 DEF here, Range
  <2>2. ASSUME NEW x \in Range(vec), x \in S PROVE x \in Range(res)
    <3>1. PICK i \in DOMAIN vec : x = vec[i]
        BY <2>2 DEF Range
    <3>2. i \in here
        BY <2>2, <3>1 DEF here
    <3>3. rank[i] \in 1 .. n /\ res[rank[i]] = x
        BY <1>9, <3>1, <3>2
    <3> QED BY <1>11, <3>3 DEF Range
  <2> QED BY <2>1, <2>2
<1>13. Within(vec, S) = res
    BY DEF Within, here, rank, nth
<1> HIDE DEF res
<1> QED BY <1>3, <1>11, <1>12, <1>13

LEMMA WithoutProperties ==
    ASSUME NEW A, NEW vec \in Seq(A), NEW S
    PROVE  /\ Without(vec, S) \in Seq(A)
           /\ Len(Without(vec, S)) <= Len(vec)
           /\ Range(Without(vec, S)) = Range(vec) \ S
BY WithinProperties DEF Without

-----------------------------------------------------------------------------
\* The inductive invariant

\* ConnManager: the vectors, the counter and what they owe each other.
MgrInv ==
    /\ conns \in [Users -> Seq(Conns)]
    /\ online \in Nat
    /\ OnlineCountExact
    /\ ConnsBounded

\* Every open socket is counted once, also one that Close() was called on.
SockInv ==
    /\ sock \in [Conns -> {"new", "open", "closing", "closed"}]
    /\ connections = Cardinality({c \in Conns : sock[c] \in {"open", "closing"}})

\* A worker that handles a packet has one, and in HandleLogin it is a login.
JobInv ==
    /\ at \in [Workers -> {"idle"} \cup LoginStages \cup LogoutStages]
    /\ job \in [Workers -> [conn : Conns \cup {NoConn}, req : Requests \cup {NoRequest}]]
    /\ \A w \in Workers : at[w] # "idle" => job[w] \in Packets
    /\ \A w \in Workers : at[w] \in LoginStages => job[w].req \in Requests

DataInv ==
    /\ user_id \in [Conns -> Users \cup {NoUser}]
    /\ DOMAIN device = Conns
    /\ status \in [Users -> {"normal", "banned", "deleted"}]
    /\ tasks \in Seq(Packets)
    /\ session \in Workers \cup {NoWorker}
    /\ seen \in [Workers -> Users \cup {NoUser}]
    /\ todo \in [Workers -> Seq(Conns)]
    /\ bus \in Seq(Users)
    /\ kicking \in [user : Users \cup {NoUser}, conns : Seq(Conns)]

IndInv == MgrInv /\ SockInv /\ JobInv /\ DataInv

-----------------------------------------------------------------------------
\* What the critical sections of ConnManager preserve

\* The users that have an entry in the map are counted exactly after one vector changes,
\* if the counter follows the vector's becoming empty or non-empty.
LEMMA CountFollows ==
    ASSUME MgrInv, NEW u \in Users, NEW vec \in Seq(Conns), Len(vec) <= MaxConns,
           conns' = [conns EXCEPT ![u] = vec],
           online' = IF conns[u] = << >> /\ vec # << >> THEN online + 1
                     ELSE IF conns[u] # << >> /\ vec = << >> THEN online - 1
                     ELSE online
    PROVE  MgrInv'
<1> DEFINE S == {v \in Users : conns[v] # << >>}
           T == {v \in Users : conns'[v] # << >>}
<1>1. conns' \in [Users -> Seq(Conns)] /\ conns'[u] = vec
      /\ \A v \in Users : v # u => conns'[v] = conns[v]
    BY DEF MgrInv
<1>2. ConnsBounded'
    BY <1>1 DEF ConnsBounded, MgrInv
<1>3. online = Cardinality(S) /\ online \in Nat
    BY DEF MgrInv, OnlineCountExact
<1>4. IsFiniteSet(S)
  <2>1. S \in SUBSET Users
      OBVIOUS
  <2> HIDE DEF S
  <2> QED BY <2>1, UsersAssumption, FS_Subset
<1>5. CASE conns[u] = << >> /\ vec # << >>
  <2>1. T = S \cup {u} /\ u \notin S
      BY <1>1, <1>5
  <2> HIDE DEF S, T
  <2>2. online' = Cardinality(T)
      BY <1>3, <1>4, <1>5, <2>1, FS_AddElement
  <2> QED BY <1>1, <1>2, <1>3, <1>5, <2>2 DEF MgrInv, OnlineCountExact, T
<1>6. CASE conns[u] # << >> /\ vec = << >>
  <2>1. T = S \ {u} /\ u \in S
      BY <1>1, <1>6
  <2> HIDE DEF S, T
  <2>2. Cardinality(T) = Cardinality(S) - 1 /\ IsFiniteSet(T)
      BY <1>4, <2>1, FS_RemoveElement
  <2>3. online' = Cardinality(T) /\ online' \in Nat
      BY <1>3, <1>6, <2>2, FS_CardinalityType
  <2> QED BY <1>1, <1>2, <2>3 DEF MgrInv, OnlineCountExact, T
<1>7. CASE (conns[u] = << >>) <=> (vec = << >>)
  <2>1. T = S
      BY <1>1, <1>7
  <2>2. online' = Cardinality(T)
      BY <1>3, <1>7, <2>1
  <2> QED BY <1>1, <1>2, <1>3, <1>7, <2>2 DEF MgrInv, OnlineCountExact
<1> QED BY <1>5, <1>6, <1>7

\* ConnManager::Remove, also for user 0, an unknown user and an unknown connection.
LEMMA RemoveExact ==
    ASSUME MgrInv, NEW u \in Users \cup {NoUser}, NEW c, Remove(u, c)
    PROVE  MgrInv'
<1>1. CASE u = NoUser \/ conns[u] = << >>
    BY <1>1 DEF Remove, mgrVars, MgrInv, OnlineCountExact, ConnsBounded
<1>2. CASE u # NoUser /\ conns[u] # << >>
  <2> DEFINE vec == Without(conns[u], {c})
  <2>1. u \in Users /\ conns[u] \in Seq(Conns) /\ Len(conns[u]) <= MaxConns
      BY <1>2 DEF MgrInv, ConnsBounded
  <2>2. vec \in Seq(Conns) /\ Len(vec) <= Len(conns[u])
      BY <2>1, WithoutProperties
  <2>3. /\ conns' = [conns EXCEPT ![u] = vec]
        /\ online' = IF vec = << >> THEN online - 1 ELSE online
      BY <1>2 DEF Remove
  <2> HIDE DEF vec
  <2>4. Len(vec) <= MaxConns
      BY <2>1, <2>2, MaxConnsAssumption
  <2> QED BY <1>2, <2>1, <2>2, <2>3, <2>4, CountFollows
<1> QED BY <1>1, <1>2

\* What Add keeps, evicts and closes, and that there is room for one more connection.
LEMMA KeptProperties ==
    ASSUME MgrInv, NEW u \in Users, NEW c
    PROVE  /\ Kept(u, c) \in Seq(Conns)
           /\ Len(Kept(u, c)) < MaxConns
           /\ ToClose(u, c) \in Seq(Conns)
<1> DEFINE vec == Without(conns[u], SameDevice(u, c))
           n   == IF Len(vec) >= MaxConns THEN Len(vec) - MaxConns + 1 ELSE 0
           old == Within(conns[u], SameDevice(u, c))
<1>1. conns[u] \in Seq(Conns)
    BY DEF MgrInv
<1>2. vec \in Seq(Conns) /\ old \in Seq(Conns)
    BY <1>1, WithoutProperties, WithinProperties
<1>3. /\ Evicted(u, c) = SubSeq(vec, 1, n)
      /\ Kept(u, c) = SubSeq(vec, Len(Evicted(u, c)) + 1, Len(vec))
      /\ ToClose(u, c) = old \o Evicted(u, c)
    BY DEF Evicted, Kept, ToClose
<1> HIDE DEF vec, old
<1>4. Len(vec) \in Nat /\ n \in Nat /\ n <= Len(vec) /\ Len(vec) - n < MaxConns
    BY <1>2, MaxConnsAssumption
<1> HIDE DEF n
<1>5. SubSeq(vec, 1, n) \in Seq(Conns) /\ Len(SubSeq(vec, 1, n)) = n
    BY <1>2, <1>4, SubSeqProperties
<1>6. SubSeq(vec, n + 1, Len(vec)) \in Seq(Conns) /\ Len(SubSeq(vec, n + 1, Len(vec))) = Len(vec) - n
    BY <1>2, <1>4, SubSeqProperties
<1>7. Kept(u, c) = SubSeq(vec, n + 1, Len(vec))
    BY <1>3, <1>5
<1>8. old \o Evicted(u, c) \in Seq(Conns)
    BY <1>2, <1>3, <1>5, ConcatProperties
<1> QED BY <1>3, <1>4, <1>6, <1>7, <1>8

LEMMA AddExact ==
    ASSUME MgrInv, NEW u \in Users, NEW c \in Conns, Add(u, c)
    PROVE  MgrInv'
<1> DEFINE kept == Kept(u, c)
           vec == Append(kept, c)
<1>1. kept \in Seq(Conns) /\ Len(kept) < MaxConns
    BY KeptProperties
<1>2. /\ conns' = [conns EXCEPT ![u] = vec]
      /\ online' = IF conns[u] = << >> THEN online + 1 ELSE online
    BY DEF Add
<1> HIDE DEF kept
<1>3. vec \in Seq(Conns) /\ Len(vec) = Len(kept) + 1 /\ vec # << >>
    BY <1>1, AppendProperties
<1>4. Len(vec) <= MaxConns
    BY <1>1, <1>3, MaxConnsAssumption
<1> HIDE DEF vec
<1> QED BY <1>2, <1>3, <1>4, CountFollows

LEMMA MgrUnchanged ==
    ASSUME MgrInv, UNCHANGED mgrVars
    PROVE  MgrInv'
BY DEF mgrVars, MgrInv, OnlineCountExact, ConnsBounded

-----------------------------------------------------------------------------
\* What the gateways' callbacks and Close() preserve

LEMMA CloseCounts ==
    ASSUME SockInv, NEW S, Close(S), UNCHANGED connections
    PROVE  SockInv'
<1>1. sock' \in [Conns -> {"new", "open", "closing", "closed"}]
    BY DEF SockInv, Close
<1>2. \A c \in Conns : (sock'[c] \in {"open", "closing"}) <=> (sock[c] \in {"open", "closing"})
    BY DEF SockInv, Close
<1>3. {c \in Conns : sock'[c] \in {"open", "closing"}} = {c \in Conns : sock[c] \in {"open", "closing"}}
    BY <1>2
<1> QED BY <1>1, <1>3 DEF SockInv

LEMMA OpenCounts ==
    ASSUME SockInv, NEW c \in Conns, OnOpen(c)
    PROVE  SockInv'
<1> DEFINE S == {d \in Conns : sock[d] \in {"open", "closing"}}
           T == {d \in Conns : sock'[d] \in {"open", "closing"}}
<1>1. sock' \in [Conns -> {"new", "open", "closing", "closed"}]
    BY DEF SockInv, OnOpen
<1>2. T = S \cup {c} /\ c \notin S /\ S \in SUBSET Conns
    BY DEF SockInv, OnOpen
<1>3. connections = Cardinality(S) /\ connections' = connections + 1
    BY DEF SockInv, OnOpen
<1> HIDE DEF S
<1>4. IsFiniteSet(S)
    BY <1>2, ConnsAssumption, FS_Subset
<1>5. Cardinality(T) = connections'
    BY <1>2, <1>3, <1>4, FS_AddElement
<1> QED BY <1>1, <1>5 DEF SockInv

LEMMA CloseCallbackCounts ==
    ASSUME SockInv, NEW c \in Conns, OnClose(c)
    PROVE  SockInv'
<1> DEFINE S == {d \in Conns : sock[d] \in {"open", "closing"}}
           T == {d \in Conns : sock'[d] \in {"open", "closing"}}
<1>1. sock' \in [Conns -> {"new", "open", "closing", "closed"}]
    BY DEF SockInv, OnClose
<1>2. T = S \ {c} /\ c \in S /\ S \in SUBSET Conns
    BY DEF SockInv, OnClose
<1>3. connections = Cardinality(S) /\ connections' = connections - 1
    BY DEF SockInv, OnClose
<1> HIDE DEF S
<1>4. IsFiniteSet(S)
    BY <1>2, ConnsAssumption, FS_Subset
<1>5. Cardinality(T) = connections'
    BY <1>2, <1>3, <1>4, FS_RemoveElement
<1> QED BY <1>1, <1>5 DEF SockInv

-----------------------------------------------------------------------------
\* What a worker's steps preserve

\* A handler goes from stage to stage with the same packet.
LEMMA JobMoves ==
    ASSUME JobInv, NEW w \in Workers, NEW here \in LoginStages \cup LogoutStages,
           NEW there \in LoginStages \cup LogoutStages,
           there \in LoginStages => here \in LoginStages,
           Step(w, here, there), UNCHANGED job
    PROVE  JobInv'
BY DEF JobInv, Step, LoginStages, LogoutStages

LEMMA JobStays ==
    ASSUME JobInv, UNCHANGED <<at, job>>
    PROVE  JobInv'
BY DEF JobInv

LEMMA JobEnds ==
    ASSUME JobInv, DataInv, NEW w \in Workers, NEW here, Finish(w, here)
    PROVE  JobInv' /\ session' \in Workers \cup {NoWorker}
<1>1. /\ at' = [at EXCEPT ![w] = "idle"]
      /\ job' = [job EXCEPT ![w] = NoJob]
    BY DEF Finish, Step
<1>2. NoJob \in [conn : Conns \cup {NoConn}, req : Requests \cup {NoRequest}]
    BY DEF NoJob
<1>3. "idle" \notin LoginStages
    BY DEF LoginStages
<1>4. job' \in [Workers -> [conn : Conns \cup {NoConn}, req : Requests \cup {NoRequest}]]
    BY <1>1, <1>2 DEF JobInv
<1>5. at' \in [Workers -> {"idle"} \cup LoginStages \cup LogoutStages] /\ at'[w] = "idle"
    BY <1>1 DEF JobInv
<1>6. \A v \in Workers : v # w => at'[v] = at[v] /\ job'[v] = job[v]
    BY <1>1 DEF JobInv
<1>7. JobInv'
    BY <1>3, <1>4, <1>5, <1>6 DEF JobInv
<1>8. session' \in Workers \cup {NoWorker}
    BY DEF Finish, DataInv
<1> QED BY <1>7, <1>8

\* The packet a handler works on: its connection, and the user of a login.
LEMMA JobHas ==
    ASSUME JobInv, NEW w \in Workers, at[w] # "idle"
    PROVE  /\ job[w].conn \in Conns
           /\ at[w] \in LoginStages => job[w].req.user \in Users
BY RequestsAssumption DEF JobInv, Packets

LEMMA DispatchKeeps ==
    ASSUME IndInv, NEW w \in Workers, Dispatch(w)
    PROVE  JobInv' /\ tasks' \in Seq(Packets)
<1> DEFINE p == Head(tasks)
           there == IF p.req # LogoutReq THEN "login"
                    ELSE IF user_id[p.conn] = NoUser THEN "idle" ELSE "logout"
<1>1. p \in Packets /\ tasks' \in Seq(Packets)
    BY HeadTailProperties DEF Dispatch, IndInv, DataInv
<1>2. at' = [at EXCEPT ![w] = there] /\ job' = [job EXCEPT ![w] = p]
    BY DEF Dispatch, Step
<1> HIDE DEF p
<1>3. p \in [conn : Conns \cup {NoConn}, req : Requests \cup {NoRequest}]
    BY <1>1 DEF Packets, LogoutReq
<1>4. there \in {"idle"} \cup LoginStages \cup LogoutStages
    BY DEF LoginStages, LogoutStages
<1>5. there \in LoginStages => p.req \in Requests
    BY <1>1 DEF Packets, LoginStages
<1> HIDE DEF there
<1>6. at' \in [Workers -> {"idle"} \cup LoginStages \cup LogoutStages] /\ at'[w] = there
    BY <1>2, <1>4 DEF IndInv, JobInv
<1>7. /\ job' \in [Workers -> [conn : Conns \cup {NoConn}, req : Requests \cup {NoRequest}]]
      /\ job'[w] = p
    BY <1>2, <1>3 DEF IndInv, JobInv
<1>8. \A v \in Workers : v # w => at'[v] = at[v] /\ job'[v] = job[v]
    BY <1>2 DEF IndInv, JobInv
<1> QED BY <1>1, <1>5, <1>6, <1>7, <1>8 DEF IndInv, JobInv

-----------------------------------------------------------------------------
\* The actions, one lemma per component

LEMMA GatewayStep ==
    ASSUME IndInv, NEW c \in Conns,
           OnOpen(c) \/ OnClose(c) \/ \E r \in Requests \cup {LogoutReq} : OnMessage(c, r)
    PROVE  IndInv'
<1> USE DEF IndInv
<1>1. CASE OnOpen(c)
  <2>1. MgrInv' /\ JobInv'
      BY <1>1, MgrUnchanged, JobStays DEF OnOpen, workerVars
  <2>2. DataInv'
      BY <1>1 DEF OnOpen, DataInv, workerVars, adminVars
  <2> QED BY <1>1, <2>1, <2>2, OpenCounts
<1>2. CASE OnClose(c)
  <2>1. user_id[c] \in Users \cup {NoUser}
      BY DEF DataInv
  <2>2. MgrInv'
      BY <1>2, <2>1, RemoveExact DEF OnClose
  <2>3. JobInv'
      BY <1>2, JobStays DEF OnClose, workerVars
  <2>4. DataInv'
      BY <1>2 DEF OnClose, DataInv, workerVars, adminVars
  <2> QED BY <1>2, <2>2, <2>3, <2>4, CloseCallbackCounts
<1>3. ASSUME NEW r \in Requests \cup {LogoutReq}, OnMessage(c, r) PROVE IndInv'
  <2>1. MgrInv' /\ JobInv'
      BY <1>3, MgrUnchanged, JobStays DEF OnMessage
  <2>2. SockInv'
      BY <1>3 DEF OnMessage, SockInv, connVars
  <2>3. [conn |-> c, req |-> r] \in Packets
      BY DEF Packets
  <2>4. tasks' \in Seq(Packets)
      BY <1>3, <2>3, AppendProperties DEF OnMessage, DataInv
  <2>5. DataInv'
      BY <1>3, <2>4 DEF OnMessage, DataInv, connVars, adminVars
  <2> QED BY <2>1, <2>2, <2>5
<1> QED BY <1>1, <1>2, <1>3

LEMMA LogoutStep ==
    ASSUME IndInv, NEW w \in Workers, HandleLogout(w)
    PROVE  IndInv'
<1> USE DEF IndInv
<1> DEFINE c == job[w].conn
<1>1. CASE LogoutRead(w)
  <2>1. at[w] = "logout" /\ "logout" # "idle"
      BY <1>1 DEF LogoutRead, Step
  <2>2. user_id[c] \in Users \cup {NoUser}
      BY <2>1, JobHas DEF DataInv
  <2>3. MgrInv' /\ SockInv'
      BY <1>1, MgrUnchanged DEF LogoutRead, SockInv, connVars
  <2>4. JobInv'
      BY <1>1, JobMoves DEF LogoutRead, LoginStages, LogoutStages
  <2>5. DataInv'
      BY <1>1, <2>2 DEF LogoutRead, DataInv, connVars, adminVars
  <2> QED BY <2>3, <2>4, <2>5
<1>2. CASE LogoutRemove(w)
  <2>1. MgrInv'
      BY <1>2, RemoveExact DEF LogoutRemove, DataInv
  <2>2. SockInv' /\ DataInv'
      BY <1>2 DEF LogoutRemove, SockInv, DataInv, connVars, adminVars
  <2>3. JobInv'
      BY <1>2, JobMoves DEF LogoutRemove, LoginStages, LogoutStages
  <2> QED BY <2>1, <2>2, <2>3
<1>3. CASE LogoutClear(w)
  <2>1. MgrInv' /\ SockInv'
      BY <1>3, MgrUnchanged DEF LogoutClear, SockInv
  <2>2. DataInv'
      BY <1>3 DEF LogoutClear, DataInv, adminVars
  <2>3. JobInv'
      BY <1>3, JobMoves DEF LogoutClear, LoginStages, LogoutStages
  <2> QED BY <2>1, <2>2, <2>3
<1>4. CASE LogoutClose(w)
  <2>1. MgrInv' /\ SockInv'
      BY <1>4, MgrUnchanged, CloseCounts DEF LogoutClose
  <2>2. JobInv' /\ session' \in Workers \cup {NoWorker}
      BY <1>4, JobEnds DEF LogoutClose
  <2>3. DataInv'
      BY <1>4, <2>2 DEF LogoutClose, DataInv, adminVars
  <2> QED BY <2>1, <2>2, <2>3
<1> QED BY <1>1, <1>2, <1>3, <1>4 DEF HandleLogout

LEMMA AdminStep ==
    ASSUME IndInv, NEW u \in Users,
           \/ BlockUser(u, "banned") \/ BlockUser(u, "deleted")
           \/ HandleUnbanUser(u) \/ HandleKickUser(u)
    PROVE  IndInv'
<1> USE DEF IndInv
<1>1. UNCHANGED <<connVars, mgrVars, workerVars, kicking>>
    BY DEF BlockUser, HandleUnbanUser, HandleKickUser, AdminRequest
<1>2. MgrInv' /\ SockInv' /\ JobInv'
    BY <1>1, MgrUnchanged, JobStays DEF SockInv, connVars, workerVars
<1>3. status' \in [Users -> {"normal", "banned", "deleted"}]
    BY DEF BlockUser, HandleUnbanUser, HandleKickUser, DataInv
<1>4. bus' = bus \/ bus' = Append(bus, u)
    BY DEF BlockUser, HandleUnbanUser, HandleKickUser, KickAllConns
<1>5. bus' \in Seq(Users)
  <2>1. bus \in Seq(Users)
      BY DEF DataInv
  <2>2. Append(bus, u) \in Seq(Users)
      BY <2>1, AppendProperties
  <2> QED BY <1>4, <2>1, <2>2
<1>6. DataInv'
    BY <1>1, <1>3, <1>5 DEF DataInv, connVars, workerVars
<1> QED BY <1>2, <1>6

LEMMA SubscriberStep ==
    ASSUME IndInv, KickSnapshot \/ KickOne
    PROVE  IndInv'
<1> USE DEF IndInv
<1>1. CASE KickSnapshot
  <2>1. MgrInv' /\ SockInv' /\ JobInv'
      BY <1>1, MgrUnchanged, JobStays DEF KickSnapshot, SockInv, connVars, workerVars
  <2>2. Head(bus) \in Users /\ bus' \in Seq(Users)
      BY <1>1, HeadTailProperties DEF KickSnapshot, DataInv
  <2>3. conns[Head(bus)] \in Seq(Conns)
      BY <2>2 DEF MgrInv
  <2>4. kicking' \in [user : Users \cup {NoUser}, conns : Seq(Conns)]
      BY <1>1, <2>2, <2>3 DEF KickSnapshot
  <2>5. DataInv'
      BY <1>1, <2>2, <2>4 DEF KickSnapshot, DataInv, connVars, workerVars
  <2> QED BY <2>1, <2>5
<1>2. CASE KickOne
  <2>1. JobInv'
      BY <1>2, JobStays DEF KickOne, workerVars
  <2>2. CASE kicking.conns = << >>
    <3>1. MgrInv' /\ SockInv'
        BY <1>2, <2>2, MgrUnchanged DEF KickOne, SockInv
    <3>2. NotKicking \in [user : Users \cup {NoUser}, conns : Seq(Conns)]
      <4>1. << >> \in Seq(Conns)
          BY EmptySeq
      <4> QED BY <4>1 DEF NotKicking
    <3>3. DataInv'
        BY <1>2, <2>2, <3>2 DEF KickOne, DataInv, workerVars
    <3> QED BY <2>1, <3>1, <3>3
  <2>3. CASE kicking.conns # << >>
    <3>1. kicking.user \in Users \cup {NoUser} /\ kicking.conns \in Seq(Conns)
        BY DEF DataInv
    <3>2. MgrInv' /\ SockInv'
        BY <1>2, <2>3, <3>1, RemoveExact, CloseCounts DEF KickOne
    <3>3. Tail(kicking.conns) \in Seq(Conns)
        BY <2>3, <3>1, HeadTailProperties
    <3>4. kicking' \in [user : Users \cup {NoUser}, conns : Seq(Conns)]
        BY <1>2, <2>3, <3>3 DEF KickOne, DataInv
    <3>5. DataInv'
        BY <1>2, <3>4 DEF KickOne, DataInv, workerVars
    <3> QED BY <2>1, <3>2, <3>5
  <2> QED BY <2>2, <2>3
<1> QED BY <1>1, <1>2

LEMMA LoginStep ==
    ASSUME IndInv, NEW w \in Workers, HandleLogin(w)
    PROVE  IndInv'
<1> USE DEF IndInv
<1> DEFINE c == job[w].conn
           u == job[w].req.user
<1>1. ASSUME LoginSession(w) \/ LoginVerified(w)
      PROVE  IndInv'
  <2>1. MgrInv' /\ SockInv'
      BY <1>1, MgrUnchanged DEF LoginSession, LoginVerified, SockInv, connVars
  <2>2. JobInv'
      BY <1>1, JobMoves DEF LoginSession, LoginVerified, LoginStages
  <2>3. DataInv'
      BY <1>1 DEF LoginSession, LoginVerified, DataInv, connVars, adminVars
  <2> QED BY <2>1, <2>2, <2>3
<1>2. CASE LoginRelogin(w)
  <2>1. at[w] = "relogin" /\ "relogin" # "idle"
      BY <1>2 DEF LoginRelogin, Step
  <2>2. user_id[c] \in Users \cup {NoUser}
      BY <2>1, JobHas DEF DataInv
  <2>3. MgrInv'
      BY <1>2, <2>2, RemoveExact DEF LoginRelogin
  <2>4. SockInv' /\ DataInv'
      BY <1>2 DEF LoginRelogin, SockInv, DataInv, connVars, adminVars
  <2>5. JobInv'
      BY <1>2, JobMoves DEF LoginRelogin, LoginStages
  <2> QED BY <2>3, <2>4, <2>5
<1>3. CASE LoginClear(w)
  <2>1. MgrInv' /\ SockInv'
      BY <1>3, MgrUnchanged DEF LoginClear, SockInv
  <2>2. DataInv'
      BY <1>3 DEF LoginClear, DataInv, adminVars
  <2>3. JobInv'
      BY <1>3, JobMoves DEF LoginClear, LoginStages
  <2> QED BY <2>1, <2>2, <2>3
<1>4. ASSUME LoginRejected(w) \/ LoginDuplicate(w)
      PROVE  IndInv'
  <2>1. Close({c}) /\ (Finish(w, "check") \/ Finish(w, "device"))
        /\ UNCHANGED <<connections, user_id, device, mgrVars, tasks, sent, seen, todo, adminVars>>
      BY <1>4 DEF LoginRejected, LoginDuplicate
  <2>2. MgrInv' /\ SockInv'
      BY <2>1, MgrUnchanged, CloseCounts
  <2>3. JobInv' /\ session' \in Workers \cup {NoWorker}
      BY <2>1, JobEnds
  <2>4. DataInv'
      BY <2>1, <2>3 DEF DataInv, adminVars
  <2> QED BY <2>2, <2>3, <2>4
<1>5. CASE LoginSnapshot(w)
  <2> DEFINE S == {d \in Conns : job[w].req.device_type # Empty
                                    /\ device[d].type = job[w].req.device_type}
  <2>1. at[w] = "device" /\ "device" \in LoginStages /\ "device" # "idle"
      BY <1>5 DEF LoginSnapshot, Step, LoginStages
  <2>2. conns[u] \in Seq(Conns)
      BY <2>1, JobHas DEF MgrInv
  <2>3. todo' = [todo EXCEPT ![w] = Within(conns[u], S)]
      BY <1>5 DEF LoginSnapshot
  <2> HIDE DEF S
  <2>4. Within(conns[u], S) \in Seq(Conns)
      BY <2>2, WithinProperties
  <2>5. todo' \in [Workers -> Seq(Conns)]
      BY <2>3, <2>4 DEF DataInv
  <2>6. MgrInv' /\ SockInv'
      BY <1>5, MgrUnchanged DEF LoginSnapshot, SockInv, connVars
  <2>7. JobInv'
      BY <1>5, JobMoves DEF LoginSnapshot, LoginStages
  <2>8. DataInv'
      BY <1>5, <2>5 DEF LoginSnapshot, DataInv, connVars, adminVars
  <2> QED BY <2>6, <2>7, <2>8
<1>6. CASE LoginKick(w)
  <2>1. at[w] = "kick" /\ "kick" \in LoginStages /\ "kick" # "idle"
      BY <1>6 DEF LoginKick, LoginStages
  <2>2. u \in Users
      BY <2>1, JobHas
  <2>3. Remove(u, Head(todo[w])) /\ Close({Head(todo[w])}) /\ UNCHANGED connections
      BY <1>6 DEF LoginKick
  <2>4. MgrInv' /\ SockInv'
      BY <2>2, <2>3, RemoveExact, CloseCounts
  <2>5. todo[w] \in Seq(Conns) /\ todo[w] # << >>
      BY <1>6 DEF LoginKick, DataInv
  <2>6. Tail(todo[w]) \in Seq(Conns)
      BY <2>5, HeadTailProperties
  <2>7. todo' \in [Workers -> Seq(Conns)]
      BY <1>6, <2>6 DEF LoginKick, DataInv
  <2>8. JobInv'
      BY <1>6, JobStays DEF LoginKick
  <2>9. DataInv'
      BY <1>6, <2>7 DEF LoginKick, DataInv, adminVars
  <2> QED BY <2>4, <2>8, <2>9
<1>7. CASE LoginSetUser(w)
  <2>1. at[w] = "kick" /\ "kick" \in LoginStages /\ "kick" # "idle"
      BY <1>7 DEF LoginSetUser, Step, LoginStages
  <2>2. user_id' \in [Conns -> Users \cup {NoUser}]
      BY <1>7, <2>1, JobHas DEF LoginSetUser, DataInv
  <2>3. MgrInv' /\ SockInv'
      BY <1>7, MgrUnchanged DEF LoginSetUser, SockInv
  <2>4. JobInv'
      BY <1>7, JobMoves DEF LoginSetUser, LoginStages
  <2>5. DataInv'
      BY <1>7, <2>2 DEF LoginSetUser, DataInv, adminVars
  <2> QED BY <2>3, <2>4, <2>5
<1>8. CASE LoginSetDevice(w)
  <2>1. MgrInv' /\ SockInv'
      BY <1>8, MgrUnchanged DEF LoginSetDevice, SockInv
  <2>2. JobInv'
      BY <1>8, JobMoves DEF LoginSetDevice, LoginStages
  <2>3. DataInv'
      BY <1>8 DEF LoginSetDevice, DataInv, adminVars
  <2> QED BY <2>1, <2>2, <2>3
<1>9. CASE LoginAdd(w)
  <2>1. at[w] = "add" /\ "add" \in LoginStages /\ "add" # "idle"
      BY <1>9 DEF LoginAdd, Step, LoginStages
  <2>2. u \in Users /\ c \in Conns
      BY <2>1, JobHas
  <2>3. Add(u, c) /\ todo' = [todo EXCEPT ![w] = ToClose(u, c)]
      BY <1>9 DEF LoginAdd
  <2>4. MgrInv' /\ ToClose(u, c) \in Seq(Conns)
      BY <2>2, <2>3, AddExact, KeptProperties
  <2>5. todo' \in [Workers -> Seq(Conns)]
      BY <2>3, <2>4 DEF DataInv
  <2>6. SockInv'
      BY <1>9 DEF LoginAdd, SockInv, connVars
  <2>7. JobInv'
      BY <1>9, JobMoves DEF LoginAdd, LoginStages
  <2>8. DataInv'
      BY <1>9, <2>5 DEF LoginAdd, DataInv, connVars, adminVars
  <2> QED BY <2>4, <2>6, <2>7, <2>8
<1>10. CASE LoginDone(w)
  <2>1. MgrInv' /\ SockInv'
      BY <1>10, MgrUnchanged, CloseCounts DEF LoginDone
  <2>2. JobInv' /\ session' \in Workers \cup {NoWorker}
      BY <1>10, JobEnds DEF LoginDone
  <2>3. << >> \in Seq(Conns)
      BY EmptySeq
  <2>4. todo' \in [Workers -> Seq(Conns)]
      BY <1>10, <2>3 DEF LoginDone, DataInv
  <2>5. DataInv'
      BY <1>10, <2>2, <2>4 DEF LoginDone, DataInv, adminVars
  <2> QED BY <2>1, <2>2, <2>5
<1> QED BY <1>1, <1>2, <1>3, <1>4, <1>5, <1>6, <1>7, <1>8, <1>9, <1>10 DEF HandleLogin

LEMMA WorkerStep ==
    ASSUME IndInv, NEW w \in Workers, Dispatch(w) \/ HandleLogin(w) \/ HandleLogout(w)
    PROVE  IndInv'
<1>1. CASE Dispatch(w)
  <2>1. MgrInv' /\ SockInv'
      BY <1>1, MgrUnchanged DEF Dispatch, SockInv, connVars, IndInv
  <2>2. JobInv' /\ tasks' \in Seq(Packets)
      BY <1>1, DispatchKeeps
  <2>3. DataInv'
      BY <1>1, <2>2 DEF Dispatch, DataInv, connVars, adminVars, IndInv
  <2> QED BY <2>1, <2>2, <2>3 DEF IndInv
<1> QED BY <1>1, LoginStep, LogoutStep

-----------------------------------------------------------------------------
LEMMA InitEstablishes == Init => IndInv
<1> SUFFICES ASSUME Init PROVE IndInv
    OBVIOUS
<1> USE DEF Init
<1>1. MgrInv
  <2>1. << >> \in Seq(Conns) /\ Len(<< >>) = 0
      BY EmptySeq
  <2>2. conns \in [Users -> Seq(Conns)] /\ ConnsBounded
      BY <2>1, MaxConnsAssumption DEF ConnsBounded
  <2>3. {u \in Users : conns[u] # << >>} = {}
      OBVIOUS
  <2>4. OnlineCountExact
      BY <2>3, FS_EmptySet DEF OnlineCountExact
  <2> QED BY <2>2, <2>4 DEF MgrInv
<1>2. SockInv
  <2>1. {c \in Conns : sock[c] \in {"open", "closing"}} = {}
      OBVIOUS
  <2> QED BY <2>1, FS_EmptySet DEF SockInv
<1>3. JobInv
  <2>1. NoJob \in [conn : Conns \cup {NoConn}, req : Requests \cup {NoRequest}]
      BY DEF NoJob
  <2> QED BY <2>1 DEF JobInv, LoginStages
<1>4. DataInv
  <2>1. << >> \in Seq(Conns) /\ << >> \in Seq(Users) /\ << >> \in Seq(Packets)
      BY EmptySeq
  <2>2. kicking \in [user : Users \cup {NoUser}, conns : Seq(Conns)]
      BY <2>1 DEF NotKicking
  <2> QED BY <2>1, <2>2 DEF DataInv
<1> QED BY <1>1, <1>2, <1>3, <1>4 DEF IndInv

LEMMA NextPreserves == IndInv /\ [Next]_vars => IndInv'
<1> SUFFICES ASSUME IndInv, [Next]_vars PROVE IndInv'
    OBVIOUS
<1>1. CASE UNCHANGED vars
  <2>1. MgrInv' /\ SockInv' /\ JobInv'
      BY <1>1, MgrUnchanged, JobStays DEF vars, IndInv, SockInv, connVars, workerVars
  <2>2. DataInv'
      BY <1>1 DEF vars, IndInv, DataInv, connVars, workerVars, adminVars
  <2> QED BY <2>1, <2>2 DEF IndInv
<1>2. CASE Next
    BY <1>2, GatewayStep, WorkerStep, AdminStep, SubscriberStep DEF Next
<1> QED BY <1>1, <1>2

\* The inductive invariant: the vectors of ConnManager, its counter, the counter of
\* connections and the packets of the workers agree in every reachable state.
THEOREM Invariance == Spec => []IndInv
<1> QED BY InitEstablishes, NextPreserves, PTL DEF Spec

\* The state of gateways, ConnManager, handlers and subscriber has its type; the counter
\* of connections never goes below zero or above the number of connections.
THEOREM TypeCorrect == Spec => []TypeOK
<1>1. IndInv => TypeOK
  <2> SUFFICES ASSUME IndInv PROVE TypeOK
      OBVIOUS
  <2> DEFINE S == {c \in Conns : sock[c] \in {"open", "closing"}}
  <2>1. S \in SUBSET Conns
      OBVIOUS
  <2>2. connections = Cardinality(S)
      BY DEF IndInv, SockInv
  <2> HIDE DEF S
  <2>3. Cardinality(S) \in Nat /\ Cardinality(Conns) \in Nat /\ Cardinality(S) <= Cardinality(Conns)
      BY <2>1, ConnsAssumption, FS_Subset, FS_CardinalityType
  <2>4. connections \in 0 .. Cardinality(Conns)
      BY <2>2, <2>3
  <2> QED BY <2>4 DEF IndInv, MgrInv, SockInv, JobInv, DataInv, TypeOK
<1> QED BY <1>1, Invariance, PTL

\* online_count_ is exact: no interleaving of Add, Remove, logins, logouts, closes and
\* kicks makes the dashboard's figure drift.
THEOREM OnlineExact == Spec => []OnlineCountExact
<1>1. IndInv => OnlineCountExact
    BY DEF IndInv, MgrInv
<1> QED BY <1>1, Invariance, PTL

\* Add's eviction keeps every user within kMaxConnsPerUser.
THEOREM Bounded == Spec => []ConnsBounded
<1>1. IndInv => ConnsBounded
    BY DEF IndInv, MgrInv
<1> QED BY <1>1, Invariance, PTL
-----------------------------------------------------------------------------
\* The ranges of the vectors

LEMMA RangeTail ==
    ASSUME NEW A, NEW s \in Seq(A), s # << >>
    PROVE  Range(s) = {Head(s)} \cup Range(Tail(s))
<1>1. /\ DOMAIN s = 1 .. Len(s) /\ Len(s) \in Nat \ {0} /\ Head(s) = s[1]
      /\ DOMAIN Tail(s) = 1 .. (Len(s) - 1)
      /\ \A i \in 1 .. (Len(s) - 1) : Tail(s)[i] = s[i + 1]
    BY HeadTailProperties, LenProperties, EmptySeq
<1>2. ASSUME NEW x \in Range(s) PROVE x \in {Head(s)} \cup Range(Tail(s))
  <2>1. PICK i \in 1 .. Len(s) : x = s[i]
      BY <1>1, <1>2 DEF Range
  <2>2. CASE i = 1
      BY <1>1, <2>1, <2>2
  <2>3. CASE i # 1
    <3>1. i - 1 \in 1 .. (Len(s) - 1) /\ (i - 1) + 1 = i
        BY <1>1, <2>1, <2>3
    <3>2. Tail(s)[i - 1] = x
        BY <1>1, <2>1, <3>1
    <3> QED BY <1>1, <3>1, <3>2 DEF Range
  <2> QED BY <2>2, <2>3
<1>3. Head(s) \in Range(s)
    BY <1>1 DEF Range
<1>4. ASSUME NEW x \in Range(Tail(s)) PROVE x \in Range(s)
  <2>1. PICK i \in 1 .. (Len(s) - 1) : x = Tail(s)[i]
      BY <1>1, <1>4 DEF Range
  <2>2. i + 1 \in 1 .. Len(s) /\ x = s[i + 1]
      BY <1>1, <2>1
  <2> QED BY <1>1, <2>2 DEF Range
<1> QED BY <1>2, <1>3, <1>4

LEMMA RangeAppend ==
    ASSUME NEW A, NEW s \in Seq(A), NEW x \in A
    PROVE  Range(Append(s, x)) = Range(s) \cup {x}
<1>1. Append(s, x) = s \o <<x>> /\ <<x>> \in Seq(A)
    BY AppendIsConcat
<1>2. Range(s \o <<x>>) = Range(s) \cup Range(<<x>>)
    BY <1>1, RangeConcatenation
<1>3. Range(<<x>>) = {x}
    BY DEF Range
<1> QED BY <1>1, <1>2, <1>3

LEMMA RangeSplit ==
    ASSUME NEW A, NEW vec \in Seq(A), NEW n \in 0 .. Len(vec)
    PROVE  /\ SubSeq(vec, 1, n) \in Seq(A) /\ Len(SubSeq(vec, 1, n)) = n
           /\ SubSeq(vec, n + 1, Len(vec)) \in Seq(A)
           /\ Range(vec) = Range(SubSeq(vec, 1, n)) \cup Range(SubSeq(vec, n + 1, Len(vec)))
<1>0. Len(vec) \in Nat
    BY LenProperties
<1>1. SubSeq(vec, 1, n) \in Seq(A) /\ Len(SubSeq(vec, 1, n)) = n
    BY <1>0, SubSeqProperties
<1>2. SubSeq(vec, n + 1, Len(vec)) \in Seq(A)
    BY <1>0, SubSeqProperties
<1>3. SubSeq(vec, 1, n) \o SubSeq(vec, n + 1, Len(vec)) = SubSeq(vec, 1, Len(vec))
  <2>1. 1 \in 1 .. Len(vec) + 1 /\ n \in 1 - 1 .. Len(vec) /\ Len(vec) \in n .. Len(vec)
      BY <1>0
  <2> QED BY <2>1, ConcatAdjacentSubSeq
<1>4. SubSeq(vec, 1, Len(vec)) = vec
    BY SubSeqFull
<1> DEFINE x == SubSeq(vec, 1, n)
           y == SubSeq(vec, n + 1, Len(vec))
<1>5. x \in Seq(A) /\ y \in Seq(A) /\ vec = x \o y
    BY <1>1, <1>2, <1>3, <1>4
<1> HIDE DEF x, y
<1>6. Range(vec) = Range(x) \cup Range(y)
    BY <1>5, RangeConcatenation
<1> QED BY <1>1, <1>2, <1>6 DEF x, y

\* Remove takes one connection out of one user's vector.
LEMMA RemoveRange ==
    ASSUME MgrInv, NEW u \in Users \cup {NoUser}, NEW c, Remove(u, c), NEW v \in Users
    PROVE  Range(conns'[v]) = IF v = u THEN Range(conns[v]) \ {c} ELSE Range(conns[v])
<1>1. conns[v] \in Seq(Conns)
    BY DEF MgrInv
<1>2. CASE u = NoUser \/ conns[u] = << >>
  <2>1. conns' = conns
      BY <1>2 DEF Remove, mgrVars
  <2>2. Range(<< >>) = {}
      BY DEF Range
  <2> QED BY <1>2, <2>1, <2>2, UsersAssumption
<1>3. CASE u # NoUser /\ conns[u] # << >>
  <2>1. conns' = [conns EXCEPT ![u] = Without(conns[u], {c})]
      BY <1>3 DEF Remove
  <2>2. conns'[v] = IF v = u THEN Without(conns[v], {c}) ELSE conns[v]
      BY <2>1 DEF MgrInv
  <2>3. Range(Without(conns[v], {c})) = Range(conns[v]) \ {c}
      BY <1>1, WithoutProperties
  <2> QED BY <2>2, <2>3
<1> QED BY <1>2, <1>3

LEMMA RemoveKeeps ==
    ASSUME MgrInv, NEW u \in Users \cup {NoUser}, NEW c, Remove(u, c),
           NEW v \in Users, NEW d, d # c, d \in Range(conns[v])
    PROVE  d \in Range(conns'[v])
<1>1. Range(conns'[v]) = IF v = u THEN Range(conns[v]) \ {c} ELSE Range(conns[v])
    BY RemoveRange
<1> QED BY <1>1

\* Add takes in the new connection, and what it drops is what it has to close.
LEMMA AddRange ==
    ASSUME MgrInv, NEW u \in Users, NEW c \in Conns, Add(u, c)
    PROVE  /\ c \in Range(conns'[u])
           /\ Range(conns'[u]) \subseteq Range(conns[u]) \cup {c}
           /\ Range(conns[u]) \subseteq Range(conns'[u]) \cup Range(ToClose(u, c))
           /\ \A v \in Users : v # u => conns'[v] = conns[v]
<1> DEFINE D == SameDevice(u, c)
           vec == Without(conns[u], D)
           n   == IF Len(vec) >= MaxConns THEN Len(vec) - MaxConns + 1 ELSE 0
           old == Within(conns[u], D)
<1>1. conns[u] \in Seq(Conns)
    BY DEF MgrInv
<1>2. /\ vec \in Seq(Conns) /\ Range(vec) = Range(conns[u]) \ D
      /\ old \in Seq(Conns) /\ Range(old) = Range(conns[u]) \cap D
    BY <1>1, WithoutProperties, WithinProperties
<1>3. /\ Evicted(u, c) = SubSeq(vec, 1, n)
      /\ Kept(u, c) = SubSeq(vec, Len(Evicted(u, c)) + 1, Len(vec))
      /\ ToClose(u, c) = old \o Evicted(u, c)
    BY DEF Evicted, Kept, ToClose
<1>4. conns' = [conns EXCEPT ![u] = Append(Kept(u, c), c)]
    BY DEF Add
<1> HIDE DEF vec, old, D
<1>5. n \in 0 .. Len(vec)
  <2>1. Len(vec) \in Nat
      BY <1>2, LenProperties
  <2> QED BY <2>1, MaxConnsAssumption
<1> HIDE DEF n
<1> DEFINE ev == SubSeq(vec, 1, n)
           kp == SubSeq(vec, n + 1, Len(vec))
<1>6. /\ ev \in Seq(Conns) /\ Len(ev) = n /\ kp \in Seq(Conns)
      /\ Range(vec) = Range(ev) \cup Range(kp)
    BY <1>2, <1>5, RangeSplit
<1>7. Kept(u, c) = kp /\ ToClose(u, c) = old \o ev
    BY <1>3, <1>6
<1> HIDE DEF ev, kp
<1>8. Range(old \o ev) = Range(old) \cup Range(ev)
    BY <1>2, <1>6, RangeConcatenation
<1>9. Range(Append(kp, c)) = Range(kp) \cup {c}
    BY <1>6, RangeAppend
<1>10. /\ conns'[u] = Append(kp, c)
       /\ \A v \in Users : v # u => conns'[v] = conns[v]
    BY <1>4, <1>7 DEF MgrInv
<1> QED BY <1>2, <1>6, <1>7, <1>8, <1>9, <1>10

-----------------------------------------------------------------------------
\* Logged in means registered

\* A connection is opened before anybody sends or handles a packet of it.
Opened ==
    /\ \A c \in Conns : sock[c] = "new" => user_id[c] = NoUser
    /\ \A p \in Range(tasks) : sock[p.conn] # "new"
    /\ \A w \in Workers : at[w] # "idle" => sock[job[w].conn] # "new"

\* Worker w is about to log connection c out, to register it or to close it.
Excused(w, c) ==
    \/ job[w].conn = c /\ at[w] \in {"clear", "forget", "goodbye"}
    \/ job[w].conn = c /\ at[w] \in {"label", "add"} /\ job[w].req.user = user_id[c]
    \/ at[w] = "evict" /\ c \in Range(todo[w])

Covered(c) == c \in Range(conns[user_id[c]]) \/ \E w \in Workers : Excused(w, c)

Registered == \A c \in Conns : sock[c] = "open" /\ user_id[c] # NoUser => Covered(c)

LEMMA CloseOpens ==
    ASSUME SockInv, NEW S, Close(S), NEW c \in Conns
    PROVE  /\ sock'[c] = "new" <=> sock[c] = "new"
           /\ sock'[c] = "open" => sock[c] = "open" /\ c \notin S
BY DEF SockInv, Close

\* A step of worker w changes what the others excuse only through user_id_.
LEMMA CoverageFollows ==
    ASSUME Registered, NEW w \in Workers, NEW c \in Conns,
           \A v \in Workers : v # w => at'[v] = at[v] /\ job'[v] = job[v] /\ todo'[v] = todo[v],
           sock[c] = "open", user_id[c] # NoUser, user_id'[c] = user_id[c],
           c \in Range(conns[user_id[c]]) => Covered(c)',
           Excused(w, c) => Covered(c)'
    PROVE  Covered(c)'
<1>1. CASE c \in Range(conns[user_id[c]])
    BY <1>1
<1>2. ASSUME NEW v \in Workers, Excused(v, c) PROVE Covered(c)'
  <2>1. CASE v = w
      BY <1>2, <2>1
  <2>2. CASE v # w
    <3>1. Excused(v, c)'
        BY <1>2, <2>2 DEF Excused
    <3> QED BY <3>1 DEF Covered
  <2> QED BY <2>1, <2>2
<1> QED BY <1>1, <1>2 DEF Registered, Covered

\* The same for a step that is not a worker's.
LEMMA CoverageStays ==
    ASSUME Registered, NEW c \in Conns, UNCHANGED <<at, job, todo>>,
           sock[c] = "open", user_id[c] # NoUser, user_id'[c] = user_id[c],
           c \in Range(conns[user_id[c]]) => c \in Range(conns'[user_id[c]])
    PROVE  Covered(c)'
<1>1. CASE c \in Range(conns[user_id[c]])
    BY <1>1 DEF Covered
<1>2. ASSUME NEW v \in Workers, Excused(v, c) PROVE Covered(c)'
  <2>1. Excused(v, c)'
      BY <1>2 DEF Excused
  <2> QED BY <2>1 DEF Covered
<1> QED BY <1>1, <1>2 DEF Registered, Covered

LEMMA RegisteredGateway ==
    ASSUME IndInv, Opened, Registered, NEW c \in Conns,
           OnOpen(c) \/ OnClose(c) \/ \E r \in Requests \cup {LogoutReq} : OnMessage(c, r)
    PROVE  Registered'
<1> USE DEF IndInv
<1> SUFFICES ASSUME NEW d \in Conns, sock'[d] = "open", user_id'[d] # NoUser
             PROVE  Covered(d)'
    BY DEF Registered
<1>1. user_id' = user_id /\ UNCHANGED <<at, job, todo>>
    BY DEF OnOpen, OnClose, OnMessage, workerVars, connVars
<1>2. CASE OnOpen(c)
  <2>1. conns' = conns /\ sock' = [sock EXCEPT ![c] = "open"] /\ sock[c] = "new"
      BY <1>2 DEF OnOpen, mgrVars
  <2>2. d # c
      BY <1>1, <2>1 DEF Opened
  <2>3. sock[d] = "open"
      BY <2>1, <2>2 DEF SockInv
  <2> QED BY <1>1, <2>1, <2>3, CoverageStays
<1>3. CASE OnClose(c)
  <2>1. sock' = [sock EXCEPT ![c] = "closed"] /\ Remove(user_id[c], c)
      BY <1>3 DEF OnClose
  <2>2. d # c /\ sock[d] = "open"
      BY <2>1 DEF SockInv
  <2>3. user_id[c] \in Users \cup {NoUser} /\ user_id[d] \in Users
      BY <1>1 DEF DataInv
  <2>4. d \in Range(conns[user_id[d]]) => d \in Range(conns'[user_id[d]])
      BY <2>1, <2>2, <2>3, RemoveKeeps
  <2> QED BY <1>1, <2>2, <2>4, CoverageStays
<1>4. CASE \E r \in Requests \cup {LogoutReq} : OnMessage(c, r)
  <2>1. conns' = conns /\ sock' = sock
      BY <1>4 DEF OnMessage, mgrVars, connVars
  <2> QED BY <1>1, <2>1, CoverageStays
<1> QED BY <1>2, <1>3, <1>4

LEMMA RegisteredSubscriber ==
    ASSUME IndInv, Registered, KickSnapshot \/ KickOne
    PROVE  Registered'
<1> USE DEF IndInv
<1> SUFFICES ASSUME NEW d \in Conns, sock'[d] = "open", user_id'[d] # NoUser
             PROVE  Covered(d)'
    BY DEF Registered
<1>1. user_id' = user_id /\ UNCHANGED <<at, job, todo>>
    BY DEF KickSnapshot, KickOne, workerVars, connVars
<1>2. CASE conns' = conns /\ sock' = sock
    BY <1>1, <1>2, CoverageStays
<1>3. CASE KickOne /\ kicking.conns # << >>
  <2>1. Remove(kicking.user, Head(kicking.conns)) /\ Close({Head(kicking.conns)})
      BY <1>3 DEF KickOne
  <2>2. sock[d] = "open" /\ d # Head(kicking.conns)
      BY <2>1, CloseOpens
  <2>3. kicking.user \in Users \cup {NoUser} /\ user_id[d] \in Users
      BY <1>1 DEF DataInv
  <2>4. d \in Range(conns[user_id[d]]) => d \in Range(conns'[user_id[d]])
      BY <2>1, <2>2, <2>3, RemoveKeeps
  <2> QED BY <1>1, <2>2, <2>4, CoverageStays
<1> QED BY <1>2, <1>3 DEF KickSnapshot, KickOne, connVars, mgrVars

\* The worker's own step leaves the other workers alone.
LEMMA OthersStay ==
    ASSUME IndInv, NEW w \in Workers, Dispatch(w) \/ HandleLogin(w) \/ HandleLogout(w)
    PROVE  \A v \in Workers : v # w => at'[v] = at[v] /\ job'[v] = job[v] /\ todo'[v] = todo[v]
<1> USE DEF IndInv, JobInv, DataInv, Step, Finish
<1>1. CASE Dispatch(w)
    BY <1>1 DEF Dispatch
<1>2. CASE HandleLogout(w)
    BY <1>2 DEF HandleLogout, LogoutRead, LogoutRemove, LogoutClear, LogoutClose
<1>3. CASE HandleLogin(w)
    BY <1>3 DEF HandleLogin, LoginSession, LoginRelogin, LoginClear, LoginRejected, LoginVerified,
        LoginDuplicate, LoginSnapshot, LoginKick, LoginSetUser, LoginSetDevice, LoginAdd, LoginDone
<1> QED BY <1>1, <1>2, <1>3

LEMMA RegisteredLogin ==
    ASSUME IndInv, Registered, NEW w \in Workers, HandleLogin(w)
    PROVE  Registered'
<1> USE DEF IndInv
<1> DEFINE c == job[w].conn
           u == job[w].req.user
<1> SUFFICES ASSUME NEW d \in Conns, sock'[d] = "open", user_id'[d] # NoUser
             PROVE  Covered(d)'
    BY DEF Registered
<1>1. \A v \in Workers : v # w => at'[v] = at[v] /\ job'[v] = job[v] /\ todo'[v] = todo[v]
    BY OthersStay
<1>2. at[w] # "idle" /\ at[w] \in LoginStages
    BY DEF HandleLogin, LoginSession, LoginRelogin, LoginClear, LoginRejected, LoginVerified,
        LoginDuplicate, LoginSnapshot, LoginKick, LoginSetUser, LoginSetDevice, LoginAdd, LoginDone,
        Step, Finish, LoginStages
<1>3. c \in Conns /\ u \in Users
    BY <1>2, JobHas
<1>4. ASSUME \/ LoginSession(w) \/ LoginVerified(w) \/ LoginSnapshot(w)
             \/ LoginRejected(w) \/ LoginDuplicate(w)
      PROVE  Covered(d)'
  <2>1. conns' = conns /\ user_id' = user_id
      BY <1>4 DEF LoginSession, LoginVerified, LoginSnapshot, LoginRejected, LoginDuplicate,
          mgrVars, connVars
  <2>2. sock[d] = "open"
    <3>1. CASE LoginRejected(w) \/ LoginDuplicate(w)
        BY <3>1, CloseOpens DEF LoginRejected, LoginDuplicate
    <3> QED BY <1>4, <3>1 DEF LoginSession, LoginVerified, LoginSnapshot, connVars
  <2>3. ~ Excused(w, d)
      BY <1>4 DEF LoginSession, LoginVerified, LoginSnapshot, LoginRejected, LoginDuplicate,
          Step, Finish, Excused
  <2> QED BY <1>1, <2>1, <2>2, <2>3, CoverageFollows DEF Covered
<1>5. CASE LoginRelogin(w)
  <2>1. /\ at[w] = "relogin" /\ Remove(user_id[c], c) /\ user_id' = user_id /\ sock' = sock
        /\ job' = job /\ at'[w] = IF user_id[c] = NoUser THEN "check" ELSE "clear"
      BY <1>5 DEF LoginRelogin, Step, connVars, JobInv
  <2>2. CASE d = c
    <3>1. Excused(w, d)'
        BY <2>1, <2>2 DEF Excused
    <3> QED BY <3>1 DEF Covered
  <2>3. CASE d # c
    <3>1. ~ Excused(w, d)
        BY <2>1 DEF Excused
    <3>2. user_id[c] \in Users \cup {NoUser} /\ user_id[d] \in Users
        BY <1>3, <2>1 DEF DataInv
    <3>3. d \in Range(conns[user_id[d]]) => d \in Range(conns'[user_id[d]])
        BY <2>1, <2>3, <3>2, RemoveKeeps
    <3> QED BY <1>1, <2>1, <3>1, <3>3, CoverageFollows DEF Covered
  <2> QED BY <2>2, <2>3
<1>6. CASE LoginClear(w)
  <2>1. /\ at[w] = "clear" /\ conns' = conns /\ sock' = sock
        /\ user_id' = [user_id EXCEPT ![c] = NoUser]
      BY <1>6 DEF LoginClear, Step, mgrVars
  <2>2. d # c /\ user_id'[d] = user_id[d]
      BY <1>3, <2>1 DEF DataInv
  <2>3. ~ Excused(w, d)
      BY <2>1, <2>2 DEF Excused
  <2> QED BY <1>1, <2>1, <2>2, <2>3, CoverageFollows DEF Covered
<1>7. CASE LoginKick(w)
  <2>1. /\ at[w] = "kick" /\ Remove(u, Head(todo[w])) /\ Close({Head(todo[w])})
        /\ user_id' = user_id
      BY <1>7 DEF LoginKick
  <2>2. sock[d] = "open" /\ d # Head(todo[w])
      BY <2>1, CloseOpens
  <2>3. user_id[d] \in Users
      BY <2>1 DEF DataInv
  <2>4. d \in Range(conns[user_id[d]]) => d \in Range(conns'[user_id[d]])
      BY <1>3, <2>1, <2>2, <2>3, RemoveKeeps
  <2>5. ~ Excused(w, d)
      BY <2>1 DEF Excused
  <2> QED BY <1>1, <2>1, <2>2, <2>4, <2>5, CoverageFollows DEF Covered
<1>8. CASE LoginSetUser(w)
  <2>1. /\ at[w] = "kick" /\ at'[w] = "label" /\ conns' = conns /\ sock' = sock /\ job' = job
        /\ user_id' = [user_id EXCEPT ![c] = u]
      BY <1>8 DEF LoginSetUser, Step, mgrVars, JobInv
  <2>2. CASE d = c
    <3>1. user_id'[d] = u
        BY <1>3, <2>1, <2>2 DEF DataInv
    <3>2. Excused(w, d)'
        BY <2>1, <2>2, <3>1 DEF Excused
    <3> QED BY <3>2 DEF Covered
  <2>3. CASE d # c
    <3>1. user_id'[d] = user_id[d] /\ ~ Excused(w, d)
        BY <2>1, <2>3 DEF DataInv, Excused
    <3> QED BY <1>1, <2>1, <3>1, CoverageFollows DEF Covered
  <2> QED BY <2>2, <2>3
<1>9. CASE LoginSetDevice(w)
  <2>1. /\ at[w] = "label" /\ at'[w] = "add" /\ conns' = conns /\ sock' = sock /\ job' = job
        /\ user_id' = user_id
      BY <1>9 DEF LoginSetDevice, Step, mgrVars, JobInv
  <2>2. Excused(w, d) => Excused(w, d)'
      BY <2>1 DEF Excused
  <2> QED BY <1>1, <2>1, <2>2, CoverageFollows DEF Covered
<1>10. CASE LoginAdd(w)
  <2>1. /\ at[w] = "add" /\ at'[w] = "evict" /\ Add(u, c) /\ sock' = sock
        /\ user_id' = user_id /\ todo'[w] = ToClose(u, c)
      BY <1>10 DEF LoginAdd, Step, connVars, JobInv, DataInv
  <2>2. user_id[d] \in Users
      BY <2>1 DEF DataInv
  <2>3. /\ c \in Range(conns'[u])
        /\ Range(conns[u]) \subseteq Range(conns'[u]) \cup Range(ToClose(u, c))
        /\ \A v \in Users : v # u => conns'[v] = conns[v]
      BY <1>3, <2>1, AddRange
  <2>4. ASSUME d \in Range(conns[user_id[d]]) PROVE Covered(d)'
    <3>1. CASE d \in Range(conns'[user_id[d]])
        BY <2>1, <3>1 DEF Covered
    <3>2. CASE d \notin Range(conns'[user_id[d]])
      <4>1. d \in Range(ToClose(u, c))
          BY <2>2, <2>3, <2>4, <3>2
      <4>2. Excused(w, d)'
          BY <2>1, <4>1 DEF Excused
      <4> QED BY <4>2 DEF Covered
    <3> QED BY <3>1, <3>2
  <2>5. ASSUME Excused(w, d) PROVE Covered(d)'
    <3>1. d = c /\ user_id[d] = u
        BY <2>1, <2>5 DEF Excused
    <3> QED BY <2>1, <2>3, <3>1 DEF Covered
  <2> QED BY <1>1, <2>1, <2>4, <2>5, CoverageFollows
<1>11. CASE LoginDone(w)
  <2>1. at[w] = "evict" /\ Close(Range(todo[w])) /\ user_id' = user_id /\ conns' = conns
      BY <1>11 DEF LoginDone, Finish, Step, mgrVars
  <2>2. sock[d] = "open" /\ d \notin Range(todo[w])
      BY <2>1, CloseOpens
  <2>3. ~ Excused(w, d)
      BY <2>1, <2>2 DEF Excused
  <2> QED BY <1>1, <2>1, <2>2, <2>3, CoverageFollows DEF Covered
<1> QED BY <1>4, <1>5, <1>6, <1>7, <1>8, <1>9, <1>10, <1>11 DEF HandleLogin

LEMMA RegisteredLogout ==
    ASSUME IndInv, Registered, NEW w \in Workers, HandleLogout(w)
    PROVE  Registered'
<1> USE DEF IndInv
<1> DEFINE c == job[w].conn
<1> SUFFICES ASSUME NEW d \in Conns, sock'[d] = "open", user_id'[d] # NoUser
             PROVE  Covered(d)'
    BY DEF Registered
<1>1. \A v \in Workers : v # w => at'[v] = at[v] /\ job'[v] = job[v] /\ todo'[v] = todo[v]
    BY OthersStay
<1>2. at[w] # "idle"
    BY DEF HandleLogout, LogoutRead, LogoutRemove, LogoutClear, LogoutClose, Step, Finish
<1>3. c \in Conns
    BY <1>2, JobHas
<1>4. CASE LogoutRead(w)
  <2>1. at[w] = "logout" /\ conns' = conns /\ sock' = sock /\ user_id' = user_id
      BY <1>4 DEF LogoutRead, Step, mgrVars, connVars
  <2>2. ~ Excused(w, d)
      BY <2>1 DEF Excused
  <2> QED BY <1>1, <2>1, <2>2, CoverageFollows DEF Covered
<1>5. CASE LogoutRemove(w)
  <2>1. /\ at[w] = "leave" /\ at'[w] = "forget" /\ Remove(seen[w], c) /\ job' = job
        /\ sock' = sock /\ user_id' = user_id /\ seen[w] \in Users \cup {NoUser}
      BY <1>5 DEF LogoutRemove, Step, connVars, JobInv, DataInv
  <2>2. CASE d = c
    <3>1. Excused(w, d)'
        BY <2>1, <2>2 DEF Excused
    <3> QED BY <3>1 DEF Covered
  <2>3. CASE d # c
    <3>1. ~ Excused(w, d)
        BY <2>1 DEF Excused
    <3>2. user_id[d] \in Users
        BY <2>1 DEF DataInv
    <3>3. d \in Range(conns[user_id[d]]) => d \in Range(conns'[user_id[d]])
        BY <2>1, <2>3, <3>2, RemoveKeeps
    <3> QED BY <1>1, <2>1, <3>1, <3>3, CoverageFollows DEF Covered
  <2> QED BY <2>2, <2>3
<1>6. CASE LogoutClear(w)
  <2>1. /\ at[w] = "forget" /\ conns' = conns /\ sock' = sock
        /\ user_id' = [user_id EXCEPT ![c] = NoUser]
      BY <1>6 DEF LogoutClear, Step, mgrVars
  <2>2. d # c /\ user_id'[d] = user_id[d]
      BY <1>3, <2>1 DEF DataInv
  <2>3. ~ Excused(w, d)
      BY <2>1, <2>2 DEF Excused
  <2> QED BY <1>1, <2>1, <2>2, <2>3, CoverageFollows DEF Covered
<1>7. CASE LogoutClose(w)
  <2>1. at[w] = "goodbye" /\ Close({c}) /\ user_id' = user_id /\ conns' = conns
      BY <1>7 DEF LogoutClose, Finish, Step, mgrVars
  <2>2. sock[d] = "open" /\ d # c
      BY <2>1, CloseOpens
  <2>3. ~ Excused(w, d)
      BY <2>1, <2>2 DEF Excused
  <2> QED BY <1>1, <2>1, <2>2, <2>3, CoverageFollows DEF Covered
<1> QED BY <1>4, <1>5, <1>6, <1>7 DEF HandleLogout

LEMMA RegisteredStep ==
    ASSUME IndInv, Opened, Registered, [Next]_vars
    PROVE  Registered'
<1> USE DEF IndInv
<1>1. ASSUME UNCHANGED <<at, job, todo, conns, sock, user_id>> PROVE Registered'
    BY <1>1 DEF Registered, Covered, Excused
<1>2. ASSUME NEW w \in Workers, Dispatch(w) PROVE Registered'
  <2>1. at[w] = "idle" /\ conns' = conns /\ sock' = sock /\ user_id' = user_id
      BY <1>2 DEF Dispatch, Step, mgrVars, connVars
  <2>2. \A v \in Workers : v # w => at'[v] = at[v] /\ job'[v] = job[v] /\ todo'[v] = todo[v]
      BY <1>2, OthersStay
  <2> SUFFICES ASSUME NEW d \in Conns, sock'[d] = "open", user_id'[d] # NoUser
               PROVE  Covered(d)'
      BY DEF Registered
  <2>3. ~ Excused(w, d)
      BY <2>1 DEF Excused
  <2> QED BY <2>1, <2>2, <2>3, CoverageFollows DEF Covered
<1>3. ASSUME NEW u \in Users, \/ BlockUser(u, "banned") \/ BlockUser(u, "deleted")
                              \/ HandleUnbanUser(u) \/ HandleKickUser(u)
      PROVE  Registered'
    BY <1>1, <1>3 DEF BlockUser, HandleUnbanUser, HandleKickUser, AdminRequest,
        workerVars, connVars, mgrVars
<1>4. CASE UNCHANGED vars
    BY <1>1, <1>4 DEF vars, workerVars, connVars, mgrVars
<1> QED BY <1>2, <1>3, <1>4, RegisteredGateway, RegisteredLogin, RegisteredLogout,
        RegisteredSubscriber DEF Next

\* What a step may do to a connection that is not open yet: open it, nothing else.
LEMMA OpenedFollows ==
    ASSUME IndInv, Opened,
           \A c \in Conns : sock'[c] = "new" => sock[c] = "new" /\ user_id'[c] = user_id[c],
           Range(tasks') \subseteq Range(tasks),
           \A w \in Workers : at'[w] # "idle" => at[w] # "idle" /\ job'[w] = job[w]
    PROVE  Opened'
<1>1. \A p \in Range(tasks) : p.conn \in Conns
  <2>1. Range(tasks) \subseteq Packets
      BY RangeOfSeq DEF IndInv, DataInv
  <2> QED BY <2>1 DEF Packets
<1>2. \A w \in Workers : at[w] # "idle" => job[w].conn \in Conns
    BY JobHas DEF IndInv
<1> QED BY <1>1, <1>2 DEF Opened

LEMMA OpenedStep ==
    ASSUME IndInv, Opened, [Next]_vars
    PROVE  Opened'
<1> USE DEF IndInv
<1>1. ASSUME NEW c \in Conns, OnOpen(c) \/ OnClose(c) PROVE Opened'
  <2>1. \A d \in Conns : sock'[d] = "new" => sock[d] = "new" /\ user_id'[d] = user_id[d]
      BY <1>1 DEF OnOpen, OnClose, SockInv
  <2> QED BY <1>1, <2>1, OpenedFollows DEF OnOpen, OnClose, workerVars
<1>2. ASSUME NEW c \in Conns, NEW r \in Requests \cup {LogoutReq}, OnMessage(c, r) PROVE Opened'
  <2> DEFINE p == [conn |-> c, req |-> r]
  <2>1. sock[c] = "open" /\ UNCHANGED <<sock, user_id, at, job>> /\ tasks' = Append(tasks, p)
      BY <1>2 DEF OnMessage, connVars
  <2>2. p \in Packets /\ p.conn = c
      BY DEF Packets
  <2> HIDE DEF p
  <2>3. Range(tasks') = Range(tasks) \cup {p}
      BY <2>1, <2>2, RangeAppend DEF DataInv
  <2> QED BY <2>1, <2>2, <2>3 DEF Opened
<1>3. ASSUME NEW w \in Workers, Dispatch(w) PROVE Opened'
  <2>1. /\ UNCHANGED <<sock, user_id>> /\ tasks # << >> /\ tasks' = Tail(tasks)
        /\ job' = [job EXCEPT ![w] = Head(tasks)]
        /\ \A v \in Workers : v # w => at'[v] = at[v]
      BY <1>3, OthersStay DEF Dispatch, connVars
  <2>2. Range(tasks) = {Head(tasks)} \cup Range(Tail(tasks))
      BY <2>1, RangeTail DEF DataInv
  <2>3. job'[w] = Head(tasks) /\ \A v \in Workers : v # w => job'[v] = job[v]
      BY <2>1 DEF JobInv
  <2> QED BY <2>1, <2>2, <2>3 DEF Opened
<1>4. ASSUME NEW w \in Workers, HandleLogin(w) \/ HandleLogout(w) PROVE Opened'
  <2>1. at[w] # "idle" /\ job[w].conn \in Conns
    <3>1. at[w] # "idle"
        BY <1>4 DEF HandleLogin, HandleLogout, LoginSession, LoginRelogin, LoginClear,
            LoginRejected, LoginVerified, LoginDuplicate, LoginSnapshot, LoginKick, LoginSetUser,
            LoginSetDevice, LoginAdd, LoginDone, LogoutRead, LogoutRemove, LogoutClear,
            LogoutClose, Step, Finish
    <3> QED BY <3>1, JobHas
  <2>2. sock[job[w].conn] # "new"
      BY <2>1 DEF Opened
  <2>3. \A d \in Conns : sock'[d] = "new" => sock[d] = "new"
      BY <1>4, CloseOpens DEF HandleLogin, HandleLogout, LoginSession, LoginRelogin, LoginClear,
          LoginRejected, LoginVerified, LoginDuplicate, LoginSnapshot, LoginKick, LoginSetUser,
          LoginSetDevice, LoginAdd, LoginDone, LogoutRead, LogoutRemove, LogoutClear,
          LogoutClose, connVars
  <2>4. \A d \in Conns : d # job[w].conn => user_id'[d] = user_id[d]
      BY <1>4 DEF HandleLogin, HandleLogout, LoginSession, LoginRelogin, LoginClear,
          LoginRejected, LoginVerified, LoginDuplicate, LoginSnapshot, LoginKick, LoginSetUser,
          LoginSetDevice, LoginAdd, LoginDone, LogoutRead, LogoutRemove, LogoutClear,
          LogoutClose, connVars, DataInv
  <2>5. tasks' = tasks
      BY <1>4 DEF HandleLogin, HandleLogout, LoginSession, LoginRelogin, LoginClear,
          LoginRejected, LoginVerified, LoginDuplicate, LoginSnapshot, LoginKick, LoginSetUser,
          LoginSetDevice, LoginAdd, LoginDone, LogoutRead, LogoutRemove, LogoutClear, LogoutClose
  <2>6. at'[w] # "idle" => job'[w] = job[w]
      BY <1>4 DEF HandleLogin, HandleLogout, LoginSession, LoginRelogin, LoginClear,
          LoginRejected, LoginVerified, LoginDuplicate, LoginSnapshot, LoginKick, LoginSetUser,
          LoginSetDevice, LoginAdd, LoginDone, LogoutRead, LogoutRemove, LogoutClear,
          LogoutClose, Step, Finish, JobInv
  <2>7. \A v \in Workers : at'[v] # "idle" => at[v] # "idle" /\ job'[v] = job[v]
      BY <1>4, <2>1, <2>6, OthersStay
  <2>8. \A d \in Conns : sock'[d] = "new" => sock[d] = "new" /\ user_id'[d] = user_id[d]
      BY <2>2, <2>3, <2>4
  <2> QED BY <2>5, <2>7, <2>8, OpenedFollows
<1>5. ASSUME UNCHANGED <<sock, user_id, tasks, at, job>> PROVE Opened'
    BY <1>5 DEF Opened
<1>6. ASSUME KickSnapshot \/ KickOne PROVE Opened'
  <2>1. \A d \in Conns : sock'[d] = "new" => sock[d] = "new"
      BY <1>6, CloseOpens DEF KickSnapshot, KickOne, connVars
  <2> QED BY <1>6, <2>1, OpenedFollows DEF KickSnapshot, KickOne, connVars, workerVars
<1>7. ASSUME NEW u \in Users, \/ BlockUser(u, "banned") \/ BlockUser(u, "deleted")
                              \/ HandleUnbanUser(u) \/ HandleKickUser(u)
      PROVE  Opened'
    BY <1>5, <1>7 DEF BlockUser, HandleUnbanUser, HandleKickUser, AdminRequest,
        workerVars, connVars
<1>8. CASE UNCHANGED vars
    BY <1>5, <1>8 DEF vars, workerVars, connVars
<1> QED BY <1>1, <1>2, <1>3, <1>4, <1>6, <1>7, <1>8 DEF Next

\* An open connection that is logged in is registered, whatever logins, logouts, closes,
\* evictions and kicks interleave, also with MySQL: it gets the user's pushes, and a ban
\* finds it.
THEOREM RegisteredAlways == Spec => []LoggedInIsRegistered
<1>1. Init => Opened /\ Registered
  <2> SUFFICES ASSUME Init PROVE Opened /\ Registered
      OBVIOUS
  <2>1. Range(tasks) = {}
      BY DEF Init, Range
  <2> QED BY <2>1 DEF Init, Opened, Registered
<1>2. IndInv /\ Opened /\ Registered /\ [Next]_vars => (Opened /\ Registered)'
    BY OpenedStep, RegisteredStep
<1>3. IndInv /\ Registered => LoggedInIsRegistered
  <2> SUFFICES ASSUME IndInv, Registered, NEW c \in Conns, sock[c] = "open",
                      user_id[c] # NoUser, Quiet(c)
               PROVE  c \in Range(conns[user_id[c]])
      BY DEF LoggedInIsRegistered
  <2>1. \A w \in Workers : ~ Excused(w, c)
      BY DEF Quiet, Excused
  <2> QED BY <2>1 DEF Registered, Covered
<1> QED BY <1>1, <1>2, <1>3, Invariance, PTL DEF Spec

-----------------------------------------------------------------------------
\* What SQLite's session adds: no two logins, and no login and admin request, overlap

Protected == LoginStages \ {"login"}

SessionHeld == \A w \in Workers : at[w] \in Protected => session = w

LEMMA Alone ==
    ASSUME SessionHeld, NEW v \in Workers, NEW w \in Workers,
           at[v] \in Protected, at[w] \in Protected
    PROVE  v = w
BY DEF SessionHeld

LEMMA SessionStep ==
    ASSUME Exclusive, IndInv, SessionHeld, [Next]_vars
    PROVE  SessionHeld'
<1> USE DEF IndInv
<1>1. ASSUME UNCHANGED <<at, session>> PROVE SessionHeld'
    BY <1>1 DEF SessionHeld
<1>2. ASSUME NEW w \in Workers, HandleLogin(w) \/ HandleLogout(w) \/ Dispatch(w)
      PROVE  SessionHeld'
  <2>1. \A v \in Workers : v # w => at'[v] = at[v]
      BY <1>2, OthersStay
  <2>2. CASE UNCHANGED session /\ (at'[w] \in Protected => at[w] \in Protected)
      BY <2>1, <2>2 DEF SessionHeld
  <2>3. CASE LoginSession(w)
    <3>1. session = NoWorker /\ session' = w
        BY <2>3 DEF LoginSession
    <3>2. \A v \in Workers : at[v] \notin Protected
        BY <3>1, WorkersAssumption DEF SessionHeld
    <3> QED BY <2>1, <3>1, <3>2 DEF SessionHeld
  <2>4. ASSUME NEW here, Finish(w, here) PROVE SessionHeld'
    <3>1. at'[w] = "idle" /\ session' = IF session = w THEN NoWorker ELSE session
        BY <2>4 DEF Finish, Step, JobInv
    <3>2. "idle" \notin Protected
        BY DEF Protected, LoginStages
    <3>3. ASSUME NEW v \in Workers, at'[v] \in Protected PROVE session' = v
      <4>1. v # w
          BY <3>1, <3>2, <3>3
      <4>2. session = v
          BY <2>1, <3>3, <4>1 DEF SessionHeld
      <4> QED BY <3>1, <4>1, <4>2
    <3> QED BY <3>3 DEF SessionHeld
  <2>5. CASE Dispatch(w) \/ LogoutRead(w) \/ LogoutRemove(w) \/ LogoutClear(w)
      BY <2>2, <2>5 DEF Dispatch, LogoutRead, LogoutRemove, LogoutClear, Step, JobInv,
          Protected, LoginStages
  <2>6. CASE \/ LoginRelogin(w) \/ LoginClear(w) \/ LoginVerified(w) \/ LoginSnapshot(w)
             \/ LoginKick(w) \/ LoginSetUser(w) \/ LoginSetDevice(w) \/ LoginAdd(w)
      BY <2>2, <2>6 DEF LoginRelogin, LoginClear, LoginVerified, LoginSnapshot, LoginKick,
          LoginSetUser, LoginSetDevice, LoginAdd, Step, JobInv, Protected, LoginStages
  <2> QED BY <1>2, <2>3, <2>4, <2>5, <2>6 DEF HandleLogin, HandleLogout, LoginRejected,
          LoginDuplicate, LoginDone, LogoutClose
<1>3. ASSUME NEW c \in Conns, \/ OnOpen(c) \/ OnClose(c)
                              \/ \E r \in Requests \cup {LogoutReq} : OnMessage(c, r)
      PROVE  SessionHeld'
    BY <1>1, <1>3 DEF OnOpen, OnClose, OnMessage, workerVars
<1>4. ASSUME NEW u \in Users, \/ BlockUser(u, "banned") \/ BlockUser(u, "deleted")
                              \/ HandleUnbanUser(u) \/ HandleKickUser(u)
      PROVE  SessionHeld'
    BY <1>1, <1>4 DEF BlockUser, HandleUnbanUser, HandleKickUser, AdminRequest, workerVars
<1>5. CASE KickSnapshot \/ KickOne \/ UNCHANGED vars
    BY <1>1, <1>5 DEF KickSnapshot, KickOne, vars, workerVars
<1> QED BY <1>2, <1>3, <1>4, <1>5 DEF Next

-----------------------------------------------------------------------------
\* A blocked user is offline

\* The check of users.status holds until the login ends.
StatusHolds ==
    \A w \in Workers : at[w] \in {"device", "kick", "label", "add", "evict"}
                          => status[job[w].req.user] = "normal"

\* A blocked user whose kick is not pending has the connections the subscriber still
\* has to remove, and no others.
Leaving(u) ==
    status[u] # "normal" /\ u \notin Range(bus)
        => Range(conns[u]) \subseteq IF kicking.user = u THEN Range(kicking.conns) ELSE {}
BlockedLeave == \A u \in Users : Leaving(u)

LEMMA StatusStep ==
    ASSUME Exclusive, IndInv, SessionHeld, StatusHolds, [Next]_vars
    PROVE  StatusHolds'
<1> USE DEF IndInv
<1>1. ASSUME UNCHANGED <<at, job, status>> PROVE StatusHolds'
    BY <1>1 DEF StatusHolds
<1>2. ASSUME NEW w \in Workers, HandleLogin(w) \/ HandleLogout(w) \/ Dispatch(w)
      PROVE  StatusHolds'
  <2> DEFINE late == {"device", "kick", "label", "add", "evict"}
  <2>1. \A v \in Workers : v # w => at'[v] = at[v] /\ job'[v] = job[v]
      BY <1>2, OthersStay
  <2>2. status' = status
      BY <1>2 DEF Dispatch, HandleLogin, HandleLogout, LoginSession, LoginRelogin, LoginClear,
          LoginRejected, LoginVerified, LoginDuplicate, LoginSnapshot, LoginKick, LoginSetUser,
          LoginSetDevice, LoginAdd, LoginDone, LogoutRead, LogoutRemove, LogoutClear,
          LogoutClose, adminVars
  <2>3. at'[w] \in late => job'[w] = job[w] /\ (at[w] \in late \/ LoginVerified(w))
      BY <1>2 DEF Dispatch, HandleLogin, HandleLogout, LoginSession, LoginRelogin, LoginClear,
          LoginRejected, LoginDuplicate, LoginSnapshot, LoginKick, LoginSetUser, LoginVerified,
          LoginSetDevice, LoginAdd, LoginDone, LogoutRead, LogoutRemove, LogoutClear,
          LogoutClose, Step, Finish, JobInv
  <2>4. LoginVerified(w) => status[job[w].req.user] = "normal"
      BY DEF LoginVerified
  <2> QED BY <2>1, <2>2, <2>3, <2>4 DEF StatusHolds
<1>3. ASSUME NEW u \in Users, \/ BlockUser(u, "banned") \/ BlockUser(u, "deleted")
                              \/ HandleUnbanUser(u) \/ HandleKickUser(u)
      PROVE  StatusHolds'
  <2>1. session = NoWorker /\ at' = at
      BY <1>3 DEF BlockUser, HandleUnbanUser, HandleKickUser, AdminRequest, workerVars
  <2>2. \A v \in Workers : at[v] \notin Protected
      BY <2>1, WorkersAssumption DEF SessionHeld
  <2> QED BY <2>1, <2>2 DEF StatusHolds, Protected, LoginStages
<1>4. ASSUME NEW c \in Conns, \/ OnOpen(c) \/ OnClose(c)
                              \/ \E r \in Requests \cup {LogoutReq} : OnMessage(c, r)
      PROVE  StatusHolds'
    BY <1>1, <1>4 DEF OnOpen, OnClose, OnMessage, workerVars, adminVars
<1>5. CASE KickSnapshot \/ KickOne \/ UNCHANGED vars
    BY <1>1, <1>5 DEF KickSnapshot, KickOne, vars, workerVars, adminVars
<1> QED BY <1>2, <1>3, <1>4, <1>5 DEF Next

\* Steps that at most take connections away keep BlockedLeave.
LEMMA LeavingShrinks ==
    ASSUME BlockedLeave, UNCHANGED <<status, bus, kicking>>,
           \A u \in Users : status[u] # "normal" => Range(conns'[u]) \subseteq Range(conns[u])
    PROVE  BlockedLeave'
BY DEF BlockedLeave, Leaving

LEMMA RemoveShrinks ==
    ASSUME MgrInv, NEW u \in Users \cup {NoUser}, NEW c, Remove(u, c)
    PROVE  \A v \in Users : Range(conns'[v]) \subseteq Range(conns[v])
<1> SUFFICES ASSUME NEW v \in Users PROVE Range(conns'[v]) \subseteq Range(conns[v])
    OBVIOUS
<1>1. Range(conns'[v]) = IF v = u THEN Range(conns[v]) \ {c} ELSE Range(conns[v])
    BY RemoveRange
<1> QED BY <1>1

LEMMA BlockedStep ==
    ASSUME Exclusive, IndInv, SessionHeld, StatusHolds, BlockedLeave, [Next]_vars
    PROVE  BlockedLeave'
<1> USE DEF IndInv
<1>1. ASSUME UNCHANGED <<conns, status, bus, kicking>> PROVE BlockedLeave'
    BY <1>1 DEF BlockedLeave, Leaving
<1>2. ASSUME NEW c \in Conns, \/ OnOpen(c) \/ OnClose(c)
                              \/ \E r \in Requests \cup {LogoutReq} : OnMessage(c, r)
      PROVE  BlockedLeave'
  <2>1. CASE OnClose(c)
    <3>1. Remove(user_id[c], c) /\ user_id[c] \in Users \cup {NoUser}
        BY <2>1 DEF OnClose, DataInv
    <3>2. \A v \in Users : Range(conns'[v]) \subseteq Range(conns[v])
        BY <3>1, RemoveShrinks
    <3> QED BY <2>1, <3>2, LeavingShrinks DEF OnClose, adminVars
  <2> QED BY <1>1, <1>2, <2>1 DEF OnOpen, OnMessage, mgrVars, adminVars
<1>3. ASSUME NEW w \in Workers, HandleLogin(w) PROVE BlockedLeave'
  <2> DEFINE c == job[w].conn
             u == job[w].req.user
  <2>1. at[w] # "idle" /\ at[w] \in LoginStages /\ UNCHANGED <<status, bus, kicking>>
      BY <1>3 DEF HandleLogin, LoginSession, LoginRelogin, LoginClear, LoginRejected,
          LoginVerified, LoginDuplicate, LoginSnapshot, LoginKick, LoginSetUser, LoginSetDevice,
          LoginAdd, LoginDone, Step, Finish, LoginStages, adminVars
  <2>2. c \in Conns /\ u \in Users
      BY <2>1, JobHas
  <2>3. CASE LoginRelogin(w) \/ LoginKick(w)
    <3>1. PICK x \in Users \cup {NoUser} : \E y : Remove(x, y)
        BY <2>2, <2>3 DEF LoginRelogin, LoginKick, DataInv
    <3>2. \A v \in Users : Range(conns'[v]) \subseteq Range(conns[v])
        BY <3>1, RemoveShrinks
    <3> QED BY <2>1, <3>2, LeavingShrinks
  <2>4. CASE LoginAdd(w)
    <3>1. status[u] = "normal"
        BY <2>4 DEF LoginAdd, Step, StatusHolds
    <3>2. Add(u, c)
        BY <2>4 DEF LoginAdd
    <3>3. \A v \in Users : v # u => conns'[v] = conns[v]
        BY <2>2, <3>2, AddRange
    <3> QED BY <2>1, <3>1, <3>3, LeavingShrinks
  <2>5. CASE ~ (LoginRelogin(w) \/ LoginKick(w) \/ LoginAdd(w))
    <3>1. conns' = conns
        BY <1>3, <2>5 DEF HandleLogin, LoginSession, LoginClear, LoginRejected, LoginVerified,
            LoginDuplicate, LoginSnapshot, LoginSetUser, LoginSetDevice, LoginDone, mgrVars
    <3> QED BY <1>1, <2>1, <3>1
  <2> QED BY <2>3, <2>4, <2>5
<1>4. ASSUME NEW w \in Workers, HandleLogout(w) \/ Dispatch(w) PROVE BlockedLeave'
  <2>1. CASE LogoutRemove(w)
    <3>1. Remove(seen[w], job[w].conn) /\ seen[w] \in Users \cup {NoUser}
        BY <2>1 DEF LogoutRemove, DataInv
    <3>2. \A v \in Users : Range(conns'[v]) \subseteq Range(conns[v])
        BY <3>1, RemoveShrinks
    <3> QED BY <2>1, <3>2, LeavingShrinks DEF LogoutRemove, adminVars
  <2> QED BY <1>1, <1>4, <2>1 DEF HandleLogout, Dispatch, LogoutRead, LogoutClear, LogoutClose,
          mgrVars, adminVars
<1>5. ASSUME NEW u \in Users, \/ BlockUser(u, "banned") \/ BlockUser(u, "deleted")
                              \/ HandleUnbanUser(u) \/ HandleKickUser(u)
      PROVE  BlockedLeave'
  <2>1. conns' = conns /\ kicking' = kicking
      BY <1>5 DEF BlockUser, HandleUnbanUser, HandleKickUser, AdminRequest, mgrVars
  <2>2. Range(Append(bus, u)) = Range(bus) \cup {u} /\ Range(<< >>) = {}
    <3>1. Range(<< >>) = {}
        BY DEF Range
    <3> QED BY <3>1, RangeAppend DEF DataInv
  <2>3. \/ bus' = Append(bus, u)
        \/ bus' = bus /\ (conns[u] = << >> \/ status'[u] = "normal" \/ status' = status)
      BY <1>5 DEF BlockUser, HandleUnbanUser, HandleKickUser, KickAllConns, DataInv
  <2>4. \A v \in Users : v # u => status'[v] = status[v]
      BY <1>5 DEF BlockUser, HandleUnbanUser, HandleKickUser, DataInv
  <2>5. CASE bus' = Append(bus, u)
      BY <2>1, <2>2, <2>4, <2>5 DEF BlockedLeave, Leaving
  <2>6. CASE bus' = bus /\ (conns[u] = << >> \/ status'[u] = "normal" \/ status' = status)
      BY <2>1, <2>2, <2>4, <2>6 DEF BlockedLeave, Leaving
  <2> QED BY <2>3, <2>5, <2>6
<1>6. CASE KickSnapshot
  <2>1. /\ bus # << >> /\ kicking.user = NoUser /\ UNCHANGED <<conns, status>>
        /\ kicking' = [user |-> Head(bus), conns |-> conns[Head(bus)]] /\ bus' = Tail(bus)
      BY <1>6 DEF KickSnapshot, NotKicking, mgrVars
  <2>2. Range(bus) = {Head(bus)} \cup Range(Tail(bus))
      BY <2>1, RangeTail DEF DataInv
  <2>3. kicking'.user = Head(bus) /\ kicking'.conns = conns[Head(bus)]
      BY <2>1
  <2> SUFFICES ASSUME NEW u \in Users, status[u] # "normal", u \notin Range(bus')
               PROVE  Range(conns[u]) \subseteq IF kicking'.user = u THEN Range(kicking'.conns) ELSE {}
      BY <2>1 DEF BlockedLeave, Leaving
  <2>4. CASE u = Head(bus)
      BY <2>3, <2>4
  <2>5. CASE u # Head(bus)
    <3>1. u \notin Range(bus) /\ kicking.user # u
        BY <2>1, <2>2, <2>5, UsersAssumption
    <3> QED BY <3>1 DEF BlockedLeave, Leaving
  <2> QED BY <2>4, <2>5
<1>7. CASE KickOne
  <2>1. status' = status /\ bus' = bus
      BY <1>7 DEF KickOne
  <2>2. CASE kicking.conns = << >>
    <3>1. conns' = conns /\ Range(<< >>) = {}
        BY <1>7, <2>2 DEF KickOne, mgrVars, Range
    <3> QED BY <2>1, <2>2, <3>1 DEF BlockedLeave, Leaving
  <2>3. CASE kicking.conns # << >>
    <3>1. /\ Remove(kicking.user, Head(kicking.conns))
          /\ kicking' = [kicking EXCEPT !.conns = Tail(@)]
        BY <1>7, <2>3 DEF KickOne
    <3>2. /\ kicking.user \in Users \cup {NoUser} /\ kicking.conns \in Seq(Conns)
          /\ kicking'.user = kicking.user /\ kicking'.conns = Tail(kicking.conns)
        BY <3>1 DEF DataInv
    <3>3. Range(kicking.conns) = {Head(kicking.conns)} \cup Range(Tail(kicking.conns))
        BY <2>3, <3>2, RangeTail
    <3> SUFFICES ASSUME NEW u \in Users, status[u] # "normal", u \notin Range(bus)
                 PROVE  Range(conns'[u]) \subseteq
                            IF kicking'.user = u THEN Range(kicking'.conns) ELSE {}
        BY <2>1 DEF BlockedLeave, Leaving
    <3>4. Range(conns'[u]) = IF u = kicking.user THEN Range(conns[u]) \ {Head(kicking.conns)}
                             ELSE Range(conns[u])
        BY <3>1, <3>2, RemoveRange
    <3>5. Range(conns[u]) \subseteq IF kicking.user = u THEN Range(kicking.conns) ELSE {}
        BY DEF BlockedLeave, Leaving
    <3> QED BY <3>2, <3>3, <3>4, <3>5
  <2> QED BY <2>2, <2>3
<1>8. CASE UNCHANGED vars
    BY <1>1, <1>8 DEF vars, mgrVars, adminVars
<1> QED BY <1>2, <1>3, <1>4, <1>5, <1>6, <1>7, <1>8 DEF Next

\* With SQLite a ban or a deletion is final: once its kick event is handled the user has
\* no connection, and no login that was under way brings one back.
THEOREM BlockedStaysOffline == Exclusive => (Spec => []BlockedIsOffline)
<1> SUFFICES ASSUME Exclusive PROVE Spec => []BlockedIsOffline
    OBVIOUS
<1> DEFINE Inv == SessionHeld /\ StatusHolds /\ BlockedLeave
<1>1. Init => Inv
  <2> SUFFICES ASSUME Init PROVE Inv
      OBVIOUS
  <2>1. \A w \in Workers : at[w] = "idle"
      BY DEF Init
  <2>2. \A u \in Users : status[u] = "normal"
      BY DEF Init
  <2> QED BY <2>1, <2>2 DEF SessionHeld, StatusHolds, BlockedLeave, Leaving, Protected, LoginStages
<1>2. IndInv /\ Inv /\ [Next]_vars => Inv'
    BY SessionStep, StatusStep, BlockedStep
<1>3. IndInv /\ Inv => BlockedIsOffline
  <2> SUFFICES ASSUME IndInv, Inv, NEW u \in Users, status[u] # "normal", u \notin Range(bus),
                      kicking.user # u
               PROVE  conns[u] = << >>
      BY DEF BlockedIsOffline
  <2>1. Range(conns[u]) = {}
      BY DEF BlockedLeave, Leaving
  <2>2. conns[u] \in Seq(Conns)
      BY DEF IndInv, MgrInv
  <2>3. conns[u] # << >> => Head(conns[u]) \in Range(conns[u])
      BY <2>2, RangeTail
  <2> QED BY <2>1, <2>3
<1> HIDE DEF Inv
<1> QED BY <1>1, <1>2, <1>3, Invariance, PTL DEF Spec

-----------------------------------------------------------------------------
\* One session per device type

\* While w kicks, what is left of the type it logs in is on its list; then nothing is.
Replacing(w) ==
    at[w] \in {"kick", "label", "add"}
        => \A d \in Range(conns[job[w].req.user]) :
              /\ d # job[w].conn
              /\ job[w].req.device_type # Empty
              /\ device[d].type = job[w].req.device_type
              => at[w] = "kick" /\ d \in Range(todo[w])

\* What w has stored in its connection is there, or a logout has cleared it.
Labelled(w) ==
    /\ at[w] \in {"label", "add"} => user_id[job[w].conn] \in {job[w].req.user, NoUser}
    /\ at[w] = "add" => device[job[w].conn].type \in {job[w].req.device_type, Empty}

Replaced == \A w \in Workers : Replacing(w) /\ Labelled(w)

\* What every step but LoginSetUser, LoginSetDevice and LoginAdd does.
Mild ==
    /\ \A u \in Users : Range(conns'[u]) \subseteq Range(conns[u])
    /\ \A d \in Conns : /\ user_id'[d] \in {user_id[d], NoUser}
                        /\ device'[d].type \in {device[d].type, Empty}
    /\ \A w \in Workers : at[w] = "label" => at'[w] = "label" /\ job'[w] = job[w]

Storing(w) == LoginSetUser(w) \/ LoginSetDevice(w) \/ LoginAdd(w)

LEMMA MildWorker ==
    ASSUME IndInv, NEW w \in Workers, Dispatch(w) \/ HandleLogin(w) \/ HandleLogout(w)
    PROVE  Mild \/ Storing(w)
<1> USE DEF IndInv
<1> SUFFICES ASSUME ~ Storing(w) PROVE Mild
    OBVIOUS
<1>1. \A v \in Workers : v # w => at'[v] = at[v] /\ job'[v] = job[v]
    BY OthersStay
<1>2. at[w] # "label"
    BY DEF Storing, Dispatch, HandleLogin, HandleLogout, LoginSession, LoginRelogin, LoginClear,
        LoginRejected, LoginVerified, LoginDuplicate, LoginSnapshot, LoginKick,
        LoginDone, LogoutRead, LogoutRemove, LogoutClear, LogoutClose, Step, Finish
<1>3. \A d \in Conns : /\ user_id'[d] \in {user_id[d], NoUser}
                       /\ device'[d].type \in {device[d].type, Empty}
  <2>1. UNCHANGED <<user_id, device>>
        \/ \E c : /\ user_id' = [user_id EXCEPT ![c] = NoUser]
                  /\ device' = [device EXCEPT ![c] = NoDevice]
      BY DEF Storing, Dispatch, HandleLogin, HandleLogout, LoginSession, LoginRelogin, LoginClear,
          LoginRejected, LoginVerified, LoginDuplicate, LoginSnapshot, LoginKick,
          LoginDone, LogoutRead, LogoutRemove, LogoutClear, LogoutClose, connVars
  <2>2. NoDevice.type = Empty
      BY DEF NoDevice
  <2>3. ASSUME NEW c, NEW d \in Conns, user_id' = [user_id EXCEPT ![c] = NoUser],
               device' = [device EXCEPT ![c] = NoDevice]
        PROVE  /\ user_id'[d] = IF d = c THEN NoUser ELSE user_id[d]
               /\ device'[d] = IF d = c THEN NoDevice ELSE device[d]
      BY <2>3 DEF DataInv
  <2> QED BY <2>1, <2>2, <2>3
<1>4. conns' = conns \/ \E x \in Users \cup {NoUser} : \E y : Remove(x, y)
  <2>1. CASE LoginRelogin(w) \/ LoginKick(w)
    <3>1. job[w].conn \in Conns /\ job[w].req.user \in Users
        BY <2>1, JobHas DEF LoginRelogin, LoginKick, Step, LoginStages
    <3> QED BY <2>1, <3>1 DEF LoginRelogin, LoginKick, DataInv
  <2>2. CASE LogoutRemove(w)
      BY <2>2 DEF LogoutRemove, DataInv
  <2> QED BY <2>1, <2>2 DEF Storing, Dispatch, HandleLogin, HandleLogout, LoginSession,
          LoginClear, LoginRejected, LoginVerified, LoginDuplicate, LoginSnapshot,
          LoginDone, LogoutRead, LogoutClear, LogoutClose, mgrVars
<1>5. \A u \in Users : Range(conns'[u]) \subseteq Range(conns[u])
    BY <1>4, RemoveShrinks
<1> QED BY <1>1, <1>2, <1>3, <1>5 DEF Mild

LEMMA MildOther ==
    ASSUME IndInv,
           \/ \E c \in Conns : \/ OnOpen(c) \/ OnClose(c)
                               \/ \E r \in Requests \cup {LogoutReq} : OnMessage(c, r)
           \/ \E u \in Users : \/ BlockUser(u, "banned") \/ BlockUser(u, "deleted")
                               \/ HandleUnbanUser(u) \/ HandleKickUser(u)
           \/ KickSnapshot \/ KickOne \/ UNCHANGED vars
    PROVE  Mild /\ UNCHANGED <<at, job, todo>>
<1> USE DEF IndInv
<1>1. UNCHANGED <<at, job, todo, user_id, device>>
    BY DEF OnOpen, OnClose, OnMessage, BlockUser, HandleUnbanUser, HandleKickUser, AdminRequest,
        KickSnapshot, KickOne, vars, workerVars, connVars
<1>2. conns' = conns \/ \E x \in Users \cup {NoUser} : \E y : Remove(x, y)
    BY DEF OnOpen, OnClose, OnMessage, BlockUser, HandleUnbanUser, HandleKickUser, AdminRequest,
        KickSnapshot, KickOne, vars, mgrVars, DataInv
<1>3. \A u \in Users : Range(conns'[u]) \subseteq Range(conns[u])
    BY <1>2, RemoveShrinks
<1> QED BY <1>1, <1>3 DEF Mild

\* A mild step of somebody else keeps what worker w relies on.
LEMMA ReplacingStays ==
    ASSUME IndInv, Mild, NEW w \in Workers, Replacing(w), Labelled(w),
           at'[w] = at[w], job'[w] = job[w], todo'[w] = todo[w]
    PROVE  (Replacing(w) /\ Labelled(w))'
<1>1. at[w] \in {"kick", "label", "add"} => job[w].conn \in Conns /\ job[w].req.user \in Users
    BY JobHas DEF IndInv, LoginStages
<1>2. \A u \in Users : Range(conns[u]) \subseteq Conns
    BY RangeOfSeq DEF IndInv, MgrInv
<1>3. Replacing(w)'
  <2> SUFFICES ASSUME at[w] \in {"kick", "label", "add"},
                      NEW d \in Range(conns'[job[w].req.user]), d # job[w].conn,
                      job[w].req.device_type # Empty, device'[d].type = job[w].req.device_type
               PROVE  at[w] = "kick" /\ d \in Range(todo[w])
      BY DEF Replacing
  <2>1. d \in Range(conns[job[w].req.user]) /\ d \in Conns
      BY <1>1, <1>2 DEF Mild
  <2>2. device[d].type = job[w].req.device_type
      BY <2>1 DEF Mild
  <2> QED BY <2>1, <2>2 DEF Replacing
<1>4. Labelled(w)'
    BY <1>1 DEF Labelled, Mild
<1> QED BY <1>3, <1>4

LEMMA SessionsStay ==
    ASSUME IndInv, Mild, OneSessionPerType
    PROVE  OneSessionPerType'
<1> SUFFICES ASSUME NEW u \in Users, NEW c \in Range(conns'[u]), NEW d \in Range(conns'[u]),
                    user_id'[c] = u, ~ Relabelled(c)', user_id'[d] = u, ~ Relabelled(d)',
                    device'[c].type # Empty, device'[c].type = device'[d].type
             PROVE  c = d
    BY DEF OneSessionPerType
<1>1. c \in Range(conns[u]) /\ d \in Range(conns[u]) /\ Range(conns[u]) \subseteq Conns
    BY RangeOfSeq DEF IndInv, MgrInv, Mild
<1>2. user_id[c] = u /\ user_id[d] = u
    BY <1>1, UsersAssumption DEF Mild
<1>3. device[c].type # Empty /\ device[c].type = device[d].type
    BY <1>1 DEF Mild
<1>4. ~ Relabelled(c) /\ ~ Relabelled(d)
    BY DEF Relabelled, Mild
<1> QED BY <1>1, <1>2, <1>3, <1>4 DEF OneSessionPerType

LEMMA StoringStep ==
    ASSUME IndInv, SessionHeld, Replaced, OneSessionPerType, NEW w \in Workers, Storing(w)
    PROVE  (Replaced /\ OneSessionPerType)'
<1> USE DEF IndInv
<1> DEFINE c == job[w].conn
           u == job[w].req.user
           t == job[w].req.device_type
<1>1. at[w] \in Protected /\ at[w] \in LoginStages /\ at[w] # "idle"
    BY DEF Storing, LoginSetUser, LoginSetDevice, LoginAdd, Step, Protected, LoginStages
<1>2. c \in Conns /\ u \in Users
    BY <1>1, JobHas
<1>3. \A v \in Workers : v # w => at[v] \notin Protected /\ at'[v] = at[v] /\ job'[v] = job[v]
    BY <1>1, Alone, OthersStay DEF Storing, HandleLogin
<1>4. \A v \in Workers : v # w => (Replacing(v) /\ Labelled(v))'
    BY <1>3 DEF Replacing, Labelled, Protected, LoginStages
<1>5. \A x : Relabelled(x) => at[w] = "label" /\ x = c
    BY <1>3 DEF Relabelled, Protected, LoginStages
<1>6. \A v \in Users : Range(conns[v]) \subseteq Conns
    BY RangeOfSeq DEF MgrInv
<1>7. Replacing(w) /\ Labelled(w)
    BY DEF Replaced
<1>8. CASE LoginSetUser(w)
  <2>1. /\ at[w] = "kick" /\ at'[w] = "label" /\ todo[w] = << >> /\ job' = job
        /\ user_id' = [user_id EXCEPT ![c] = u] /\ conns' = conns /\ device' = device
      BY <1>8 DEF LoginSetUser, Step, mgrVars, JobInv
  <2>2. Range(<< >>) = {}
      BY DEF Range
  <2>3. Replacing(w)'
      BY <1>7, <2>1, <2>2 DEF Replacing
  <2>4. user_id'[c] = u /\ \A d \in Conns : d # c => user_id'[d] = user_id[d]
      BY <1>2, <2>1 DEF DataInv
  <2>5. Labelled(w)'
      BY <2>1, <2>4 DEF Labelled
  <2>6. \A x : x = c => Relabelled(x)'
      BY <2>1 DEF Relabelled
  <2>7. OneSessionPerType'
    <3> SUFFICES ASSUME NEW v \in Users, NEW x \in Range(conns'[v]), NEW y \in Range(conns'[v]),
                        user_id'[x] = v, ~ Relabelled(x)', user_id'[y] = v, ~ Relabelled(y)',
                        device'[x].type # Empty, device'[x].type = device'[y].type
                 PROVE  x = y
        BY DEF OneSessionPerType
    <3>1. x # c /\ y # c
        BY <2>6
    <3>2. user_id[x] = v /\ user_id[y] = v
        BY <1>6, <2>1, <2>4, <3>1
    <3>3. ~ Relabelled(x) /\ ~ Relabelled(y)
        BY <1>5, <3>1
    <3> QED BY <2>1, <3>2, <3>3 DEF OneSessionPerType
  <2> QED BY <1>4, <2>3, <2>5, <2>7 DEF Replaced
<1>9. CASE LoginSetDevice(w)
  <2>1. /\ at[w] = "label" /\ at'[w] = "add" /\ job' = job /\ user_id' = user_id /\ conns' = conns
        /\ device' = [device EXCEPT ![c] = [id |-> job[w].req.device_id, type |-> t]]
      BY <1>9 DEF LoginSetDevice, Step, mgrVars, JobInv
  <2>2. device'[c].type = t /\ \A d \in Conns : d # c => device'[d] = device[d]
      BY <1>2, <2>1 DEF DataInv
  <2>3. Replacing(w)'
      BY <1>2, <1>6, <1>7, <2>1, <2>2 DEF Replacing
  <2>4. Labelled(w)'
      BY <1>7, <2>1, <2>2 DEF Labelled
  <2>5. OneSessionPerType'
    <3> SUFFICES ASSUME NEW v \in Users, NEW x \in Range(conns[v]), NEW y \in Range(conns[v]),
                        user_id[x] = v, user_id[y] = v,
                        device'[x].type # Empty, device'[x].type = device'[y].type
                 PROVE  x = y
        BY <2>1 DEF OneSessionPerType
    <3>1. x \in Conns /\ y \in Conns
        BY <1>6
    <3>2. ASSUME NEW d \in Range(conns[v]), d # c, user_id[c] = v, device[d].type = t, t # Empty
          PROVE  FALSE
      <4>1. v = u
          BY <1>7, <2>1, <3>2, UsersAssumption DEF Labelled
      <4> QED BY <1>7, <2>1, <3>2, <4>1 DEF Replacing
    <3>3. CASE x # c /\ y # c
        BY <1>5, <2>2, <3>1, <3>3 DEF OneSessionPerType
    <3>4. CASE x = c /\ y # c
        BY <2>2, <3>1, <3>2, <3>4
    <3>5. CASE x # c /\ y = c
        BY <2>2, <3>1, <3>2, <3>5
    <3> QED BY <3>3, <3>4, <3>5
  <2> QED BY <1>4, <2>3, <2>4, <2>5 DEF Replaced
<1>10. CASE LoginAdd(w)
  <2>1. /\ at[w] = "add" /\ at'[w] = "evict" /\ Add(u, c) /\ user_id' = user_id /\ device' = device
      BY <1>10 DEF LoginAdd, Step, connVars, JobInv
  <2>2. /\ Range(conns'[u]) \subseteq Range(conns[u]) \cup {c}
        /\ \A v \in Users : v # u => conns'[v] = conns[v]
      BY <1>2, <2>1, AddRange
  <2>3. (Replacing(w) /\ Labelled(w))'
      BY <2>1 DEF Replacing, Labelled
  <2>4. \A x : ~ Relabelled(x)
      BY <1>5, <2>1
  <2>5. ASSUME NEW d \in Range(conns[u]), d # c, device[c].type # Empty,
               device[d].type = device[c].type
        PROVE  FALSE
    <3>1. device[c].type = t
        BY <1>7, <2>1, <2>5 DEF Labelled
    <3> QED BY <1>7, <2>1, <2>5, <3>1 DEF Replacing
  <2>6. OneSessionPerType'
    <3> SUFFICES ASSUME NEW v \in Users, NEW x \in Range(conns'[v]), NEW y \in Range(conns'[v]),
                        user_id[x] = v, user_id[y] = v,
                        device[x].type # Empty, device[x].type = device[y].type
                 PROVE  x = y
        BY <2>1 DEF OneSessionPerType
    <3>1. CASE x \in Range(conns[v]) /\ y \in Range(conns[v])
        BY <2>4, <3>1 DEF OneSessionPerType
    <3>2. CASE ~ (x \in Range(conns[v]) /\ y \in Range(conns[v]))
      <4>1. v = u /\ (x \in Range(conns[u]) \/ x = c) /\ (y \in Range(conns[u]) \/ y = c)
          BY <2>2, <3>2
      <4> QED BY <2>5, <3>2, <4>1
    <3> QED BY <3>1, <3>2
  <2> QED BY <1>4, <2>3, <2>6 DEF Replaced
<1> QED BY <1>8, <1>9, <1>10 DEF Storing

\* Taking the snapshot and kicking keep w's own promise; no other mild step needs one.
LEMMA ReplacingMoves ==
    ASSUME IndInv, NEW w \in Workers, Replacing(w), Labelled(w), ~ Storing(w),
           Dispatch(w) \/ HandleLogin(w) \/ HandleLogout(w)
    PROVE  (Replacing(w) /\ Labelled(w))'
<1> USE DEF IndInv
<1> DEFINE u == job[w].req.user
           t == job[w].req.device_type
<1>1. CASE LoginSnapshot(w)
  <2> DEFINE S == {d \in Conns : t # Empty /\ device[d].type = t}
  <2>1. /\ at[w] = "device" /\ at'[w] = "kick" /\ job' = job /\ conns' = conns /\ device' = device
        /\ todo'[w] = Within(conns[u], S)
      BY <1>1 DEF LoginSnapshot, Step, mgrVars, connVars, JobInv, DataInv
  <2>2. u \in Users
      BY <2>1, JobHas DEF LoginStages
  <2>3. conns[u] \in Seq(Conns) /\ Range(conns[u]) \subseteq Conns
      BY <2>2, RangeOfSeq DEF MgrInv
  <2> HIDE DEF S
  <2>4. Range(todo'[w]) = Range(conns[u]) \cap S
      BY <2>1, <2>3, WithinProperties
  <2>5. Replacing(w)'
      BY <2>1, <2>3, <2>4 DEF Replacing, S
  <2> QED BY <2>1, <2>5 DEF Labelled
<1>2. CASE LoginKick(w)
  <2>1. /\ at[w] = "kick" /\ at' = at /\ job' = job /\ device' = device /\ todo[w] # << >>
        /\ Remove(u, Head(todo[w])) /\ todo'[w] = Tail(todo[w])
    <3>1. todo' = [todo EXCEPT ![w] = Tail(todo[w])]
        BY <1>2 DEF LoginKick
    <3>2. todo'[w] = Tail(todo[w])
        BY <3>1 DEF DataInv
    <3> QED BY <1>2, <3>2 DEF LoginKick
  <2>2. u \in Users
      BY <2>1, JobHas DEF LoginStages
  <2>3. Range(conns'[u]) = Range(conns[u]) \ {Head(todo[w])}
    <3>1. \A v \in Users : Range(conns'[v]) = IF v = u THEN Range(conns[v]) \ {Head(todo[w])}
                                              ELSE Range(conns[v])
        BY <2>1, <2>2, RemoveRange
    <3> QED BY <2>2, <3>1
  <2>4. Range(todo[w]) = {Head(todo[w])} \cup Range(Tail(todo[w]))
      BY <2>1, RangeTail DEF DataInv
  <2>5. Replacing(w)'
      BY <2>1, <2>3, <2>4 DEF Replacing
  <2> QED BY <2>1, <2>5 DEF Labelled
<1>3. CASE ~ LoginSnapshot(w) /\ ~ LoginKick(w)
  <2>1. at'[w] \notin {"kick", "label", "add"}
      BY <1>3 DEF Storing, Dispatch, HandleLogin, HandleLogout, LoginSession, LoginRelogin,
          LoginClear, LoginRejected, LoginVerified, LoginDuplicate, LoginDone, LogoutRead,
          LogoutRemove, LogoutClear, LogoutClose, Step, Finish, JobInv
  <2> QED BY <2>1 DEF Replacing, Labelled
<1> QED BY <1>1, <1>2, <1>3

LEMMA SessionsStep ==
    ASSUME IndInv, SessionHeld, Replaced, OneSessionPerType, [Next]_vars
    PROVE  (Replaced /\ OneSessionPerType)'
<1>1. ASSUME Mild, UNCHANGED <<at, job, todo>> PROVE (Replaced /\ OneSessionPerType)'
  <2>1. ASSUME NEW v \in Workers PROVE (Replacing(v) /\ Labelled(v))'
      BY <1>1, ReplacingStays DEF Replaced
  <2> QED BY <1>1, <2>1, SessionsStay DEF Replaced
<1>2. ASSUME NEW w \in Workers, Dispatch(w) \/ HandleLogin(w) \/ HandleLogout(w)
      PROVE  (Replaced /\ OneSessionPerType)'
  <2>1. CASE Storing(w)
      BY <2>1, StoringStep
  <2>2. CASE ~ Storing(w)
    <3>1. Mild
        BY <1>2, <2>2, MildWorker
    <3>2. ASSUME NEW v \in Workers PROVE (Replacing(v) /\ Labelled(v))'
      <4>1. CASE v = w
          BY <1>2, <2>2, <4>1, ReplacingMoves DEF Replaced
      <4>2. CASE v # w
          BY <1>2, <3>1, <4>2, OthersStay, ReplacingStays DEF Replaced
      <4> QED BY <4>1, <4>2
    <3> QED BY <3>1, <3>2, SessionsStay DEF Replaced
  <2> QED BY <2>1, <2>2
<1> QED BY <1>1, <1>2, MildOther DEF Next

\* With SQLite a user has at most one session per device type, for any number of users,
\* devices and workers: the login of a type removes the older connections of that type
\* before it registers its own, and nobody adds one in between.
THEOREM OneSession == Exclusive => (Spec => []OneSessionPerType)
<1> SUFFICES ASSUME Exclusive PROVE Spec => []OneSessionPerType
    OBVIOUS
<1> DEFINE Inv == SessionHeld /\ Replaced /\ OneSessionPerType
<1>1. Init => Inv
  <2> SUFFICES ASSUME Init PROVE Inv
      OBVIOUS
  <2>1. \A w \in Workers : at[w] = "idle"
      BY DEF Init
  <2>2. \A u \in Users : Range(conns[u]) = {}
      BY DEF Init, Range
  <2> QED BY <2>1, <2>2 DEF SessionHeld, Replaced, Replacing, Labelled, OneSessionPerType,
          Protected, LoginStages
<1>2. IndInv /\ Inv /\ [Next]_vars => Inv'
    BY SessionStep, SessionsStep
<1>3. Inv => OneSessionPerType
    OBVIOUS
<1> HIDE DEF Inv
<1> QED BY <1>1, <1>2, <1>3, Invariance, PTL DEF Spec
=============================================================================
