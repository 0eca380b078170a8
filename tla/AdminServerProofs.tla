------------------------- MODULE AdminServerProofs -------------------------
(***************************************************************************)
(* RateLimiter with any number of callers: how far a window can exceed     *)
(* max_attempts_, since Allow and RecordFailure are two critical sections. *)
(* Then AdminServer on top of it, for any number of administrators, roles  *)
(* and permissions: the RBAC cache, disabled accounts, logged-out tokens.  *)
(***************************************************************************)
EXTENDS AdminServer, SequenceTheorems, FiniteSetTheorems, TLAPS

-----------------------------------------------------------------------------
\* The rate limiter

\* The callers that were allowed for k and may still report a failure.
Waiting(k) == {t \in Callers : checking[t] = k}

LimiterTypeOK ==
    /\ now \in Nat
    /\ entries \in [LimitKeys -> Entry]
    /\ checking \in [Callers -> LimitKeys \cup {NoKey}]

\* CountBounded is not inductive: an entry at the limit says nothing of the callers that
\* passed Allow before.  What is: the count with those callers.
RoomForWaiting ==
    \A k \in LimitKeys : entries[k].count + Cardinality(Waiting(k)) <= WindowLimit

LimiterInv == LimiterTypeOK /\ RoomForWaiting

\* Waiting(k) is finite, and not larger than Callers.
LEMMA WaitingFinite ==
    ASSUME NEW k
    PROVE  /\ IsFiniteSet(Waiting(k)) /\ Cardinality(Waiting(k)) \in Nat
           /\ Cardinality(Waiting(k)) <= Cardinality(Callers)
<1>1. Waiting(k) \subseteq Callers
  BY DEF Waiting
<1>2. QED
  BY <1>1, LimiterAssumption, FS_Subset, FS_CardinalityType DEF LimiterAssumption

\* The limit is a positive number.
LEMMA LimitIsNat == WindowLimit \in Nat /\ WindowLimit >= MaxAttempts /\ Cardinality(Callers) \in Nat
<1>1. Cardinality(Callers) \in Nat /\ Cardinality(Callers) # 0
  BY LimiterAssumption, FS_CardinalityType, FS_EmptySet DEF LimiterAssumption
<1>2. QED
  BY <1>1, LimiterAssumption DEF LimiterAssumption, WindowLimit

\* A caller that stops waiting leaves one caller less for its key, and as many for others.
LEMMA StopsWaiting ==
    ASSUME LimiterTypeOK, NEW t \in Callers, checking[t] # NoKey,
           checking' = [checking EXCEPT ![t] = NoKey]
    PROVE  \A k \in LimitKeys :
              /\ Cardinality(Waiting(k)') \in Nat
              /\ Cardinality(Waiting(k)') =
                    IF k = checking[t] THEN Cardinality(Waiting(k)) - 1 ELSE Cardinality(Waiting(k))
<1> SUFFICES ASSUME NEW k \in LimitKeys
             PROVE  /\ Cardinality(Waiting(k)') \in Nat
                    /\ Cardinality(Waiting(k)') =
                        IF k = checking[t] THEN Cardinality(Waiting(k)) - 1 ELSE Cardinality(Waiting(k))
  OBVIOUS
<1>1. NoKey # k
  BY LimiterAssumption DEF LimiterAssumption
<1>2. Waiting(k)' = Waiting(k) \ {t}
  BY <1>1 DEF Waiting, LimiterTypeOK
<1>3. IsFiniteSet(Waiting(k)) /\ Cardinality(Waiting(k)) \in Nat
  BY WaitingFinite
<1>4. (t \in Waiting(k)) <=> (k = checking[t])
  BY DEF Waiting
<1>5. QED
  BY <1>2, <1>3, <1>4, FS_RemoveElement, FS_CardinalityType

\* Every step keeps the invariant.
LEMMA LimiterInductive == LimiterInv /\ [LimiterNext]_limiterAll => LimiterInv'
<1> SUFFICES ASSUME LimiterInv, [LimiterNext]_limiterAll PROVE LimiterInv'
  OBVIOUS
<1> USE DEF LimiterInv
<1>0. LimiterTypeOK /\ RoomForWaiting
  OBVIOUS
<1>n. WindowLimit \in Nat /\ WindowLimit >= MaxAttempts /\ MaxAttempts \in Nat
  BY LimitIsNat, LimiterAssumption DEF LimiterAssumption
<1>w. \A k \in LimitKeys : Cardinality(Waiting(k)) \in Nat
  BY WaitingFinite
<1>e. \A k \in LimitKeys : /\ entries[k] \in Entry /\ entries[k].count \in Nat
                           /\ entries[k].start \in Nat
  BY DEF LimiterTypeOK, Entry
<1>z. NoEntry \in Entry /\ NoEntry.count = 0
  BY DEF Entry, NoEntry
<1>1. ASSUME NEW t \in Callers, NEW k \in LimitKeys, Allow(t, k) PROVE LimiterInv'
  <2>1. LimiterTypeOK'
    BY <1>1, <1>z, <1>e DEF Allow, LimiterTypeOK
  <2>2. ASSUME NEW q \in LimitKeys, q # k
        PROVE  entries'[q] = entries[q] /\ Waiting(q)' = Waiting(q)
    <3>1. entries'[q] = entries[q]
      BY <1>1, <2>2 DEF Allow, LimiterTypeOK
    <3>2. NoKey # q
      BY LimiterAssumption DEF LimiterAssumption
    <3>3. Waiting(q)' = Waiting(q)
      BY <1>1, <2>2, <3>2 DEF Allow, LimiterTypeOK, Waiting
    <3>4. QED
      BY <3>1, <3>3
  <2>3. entries'[k].count \in Nat /\ entries'[k].count < MaxAttempts
    BY <1>1, <1>e, <1>z, LimiterAssumption DEF Allow, Allowed, LimiterTypeOK, LimiterAssumption
  <2>4. entries'[k].count + Cardinality(Waiting(k)') <= WindowLimit
    <3>1. Waiting(k)' \subseteq Callers
      BY DEF Waiting
    <3>2. Cardinality(Waiting(k)') \in Nat /\ Cardinality(Waiting(k)') <= Cardinality(Callers)
      BY <3>1, LimiterAssumption, FS_Subset, FS_CardinalityType DEF LimiterAssumption
    <3>3. QED
      BY <3>2, <2>3, LimitIsNat, <1>n DEF WindowLimit
  <2>5. RoomForWaiting'
    BY <2>2, <2>4, <1>0 DEF RoomForWaiting, WindowLimit
  <2>6. QED
    BY <2>1, <2>5
<1>2. ASSUME NEW t \in Callers, RecordFailure(t) PROVE LimiterInv'
  <2> DEFINE k == checking[t]
  <2>1. k \in LimitKeys /\ checking' = [checking EXCEPT ![t] = NoKey]
    BY <1>2 DEF RecordFailure, LimiterTypeOK
  <2>2. \A q \in LimitKeys : MaybePurge[q] \in {entries[q], NoEntry}
    BY DEF MaybePurge, LimiterTypeOK
  <2>3. MaybePurge \in [LimitKeys -> Entry]
    BY <1>z, <1>e DEF MaybePurge, LimiterTypeOK
  <2>4. Counted(MaybePurge[k]) \in Entry /\ Counted(MaybePurge[k]).count <= entries[k].count + 1
    BY <2>1, <2>2, <1>e, <1>z DEF Counted, LimiterTypeOK, Entry
  <2>5. entries' = [MaybePurge EXCEPT ![k] = Counted(MaybePurge[k])]
    BY <1>2, <2>1, <2>3 DEF RecordFailure
  <2>6. LimiterTypeOK'
    BY <1>2, <2>1, <2>3, <2>4, <2>5 DEF RecordFailure, LimiterTypeOK
  <2>7. ASSUME NEW q \in LimitKeys
        PROVE  entries'[q].count + Cardinality(Waiting(q)') <= WindowLimit
    <3>1. entries[q].count + Cardinality(Waiting(q)) <= WindowLimit
      BY DEF RoomForWaiting
    <3>2. entries'[q].count \in Nat
      BY <2>6 DEF LimiterTypeOK, Entry
    <3>3. CASE q = k
      <4>1. Cardinality(Waiting(q)') = Cardinality(Waiting(q)) - 1
        BY <2>1, <3>3, StopsWaiting, LimiterAssumption DEF LimiterAssumption
      <4>2. entries'[q].count <= entries[q].count + 1
        BY <2>5, <2>4, <2>3, <3>3
      <4>3. QED
        BY <4>1, <4>2, <3>1, <3>2, <1>e, <1>w, <1>n
    <3>4. CASE q # k
      <4>1. Cardinality(Waiting(q)') = Cardinality(Waiting(q))
        BY <2>1, <3>4, StopsWaiting, LimiterAssumption DEF LimiterAssumption
      <4>2. entries'[q].count <= entries[q].count
        BY <2>5, <2>3, <2>2, <3>4, <1>z, <1>e
      <4>3. QED
        BY <4>1, <4>2, <3>1, <3>2, <1>e, <1>w, <1>n
    <3>5. QED
      BY <3>3, <3>4
  <2>8. QED
    BY <2>6, <2>7 DEF RoomForWaiting, WindowLimit
<1>3. ASSUME NEW t \in Callers, Reset(t) \/ GiveUp(t) PROVE LimiterInv'
  <2>1. checking[t] \in LimitKeys /\ checking' = [checking EXCEPT ![t] = NoKey] /\ now' = now
    BY <1>3 DEF Reset, GiveUp, LimiterTypeOK
  <2>2. entries' \in [LimitKeys -> Entry] /\ \A q \in LimitKeys : entries'[q] \in {entries[q], NoEntry}
    BY <1>3, <1>z, <2>1 DEF Reset, GiveUp, LimiterTypeOK
  <2>3. LimiterTypeOK'
    BY <2>1, <2>2 DEF LimiterTypeOK
  <2>4. ASSUME NEW q \in LimitKeys
        PROVE  entries'[q].count + Cardinality(Waiting(q)') <= WindowLimit
    <3>1. entries[q].count + Cardinality(Waiting(q)) <= WindowLimit
      BY DEF RoomForWaiting
    <3>2. Cardinality(Waiting(q)') \in Nat /\ Cardinality(Waiting(q)') <= Cardinality(Waiting(q))
      <4>1. checking[t] # NoKey
        BY <2>1, LimiterAssumption DEF LimiterAssumption
      <4>2. /\ Cardinality(Waiting(q)') \in Nat
            /\ Cardinality(Waiting(q)') =
                  IF q = checking[t] THEN Cardinality(Waiting(q)) - 1 ELSE Cardinality(Waiting(q))
        BY <4>1, <2>1, <1>0, StopsWaiting
      <4>3. QED
        BY <4>2, <1>w
    <3>3. entries'[q].count \in Nat /\ entries'[q].count <= entries[q].count
      BY <2>2, <1>e, <1>z
    <3>4. QED
      BY <3>1, <3>2, <3>3, <1>e, <1>w, <1>n
  <2>5. QED
    BY <2>3, <2>4 DEF RoomForWaiting, WindowLimit
<1>4. ASSUME Tick \/ UNCHANGED limiterAll PROVE LimiterInv'
  <2>1. now' \in Nat /\ entries' = entries /\ checking' = checking
    BY <1>4 DEF Tick, limiterAll, limiterVars, LimiterTypeOK
  <2>2. \A q : Waiting(q)' = Waiting(q)
    BY <2>1 DEF Waiting
  <2>3. QED
    BY <2>1, <2>2 DEF LimiterTypeOK, RoomForWaiting, WindowLimit
<1>5. QED
  BY <1>1, <1>2, <1>3, <1>4 DEF LimiterNext

LEMMA LimiterInitial == LimiterInit => LimiterInv
<1> SUFFICES ASSUME LimiterInit PROVE LimiterInv
  OBVIOUS
<1>1. LimiterTypeOK
  BY DEF LimiterInit, LimiterTypeOK, Entry, NoEntry
<1>2. ASSUME NEW k \in LimitKeys PROVE entries[k].count + Cardinality(Waiting(k)) <= WindowLimit
  <2>1. k # NoKey
    BY LimiterAssumption DEF LimiterAssumption
  <2>2. Waiting(k) = {}
    BY <2>1 DEF LimiterInit, Waiting
  <2>3. Cardinality(Waiting(k)) = 0 /\ entries[k].count = 0
    BY <2>2, FS_EmptySet DEF LimiterInit, NoEntry
  <2>4. QED
    BY <2>3, LimitIsNat
<1>3. QED
  BY <1>1, <1>2 DEF LimiterInv, RoomForWaiting

\* The failures of one window after another: a key without a live window keeps fewer than
\* one window counts; with one, those of the window are the last of the log, and what is
\* before them is what the window before has left.
FailShape(e, times, clock) ==
    LET n == Len(times)
    IN  /\ \A i \in 1 .. n : times[i] <= clock
        /\ IF e.count = 0 \/ clock - e.start >= Window
           THEN n <= WindowLimit - 1
           ELSE /\ e.count <= n /\ n <= WindowLimit - 1 + e.count
                /\ \A i \in 1 .. n : i <= n - e.count + 1 => times[i] <= e.start
                /\ \A i \in 1 .. n : i > n - e.count => times[i] >= e.start

FailInv ==
    /\ failures \in [LimitKeys -> Seq(Nat)]
    /\ \A k \in LimitKeys : FailShape(entries[k], failures[k], now)

\* A tick drops as many failures from the front as have expired.
LEMMA RecentDrops ==
    ASSUME now \in Nat, NEW times \in Seq(Nat), NEW m \in 0 .. Len(times)
    PROVE  \E n \in 0 .. Len(times) :
              /\ Recent(times) \in Seq(Nat) /\ Len(Recent(times)) = Len(times) - n
              /\ \A i \in 1 .. Len(times) - n : Recent(times)[i] = times[i + n]
              /\ (\A i \in 1 .. m : now + 1 - times[i] >= Window) => n >= m
              /\ (\A i \in m + 1 .. Len(times) : now + 1 - times[i] < Window) => n <= m
<1> DEFINE n == Cardinality(Expired(times))
<1>1. Len(times) \in Nat /\ DOMAIN times = 1 .. Len(times)
      /\ \A i \in 1 .. Len(times) : times[i] \in Nat
  BY ElementOfSeq, LenProperties
<1>2. \A j \in 0 .. Len(times) : IsFiniteSet(1 .. j) /\ Cardinality(1 .. j) = j
  BY <1>1, FS_Interval
<1>3. Expired(times) \in SUBSET (1 .. Len(times))
  BY <1>1 DEF Expired
<1>4. IsFiniteSet(Expired(times)) /\ n \in 0 .. Len(times)
  <2>1. IsFiniteSet(Expired(times)) /\ n <= Len(times)
    BY <1>1, <1>2, <1>3, FS_Subset
  <2> QED
    BY <1>1, <2>1, FS_CardinalityType
<1>5. (\A i \in 1 .. m : now + 1 - times[i] >= Window) => n >= m
  <2> SUFFICES ASSUME \A i \in 1 .. m : now + 1 - times[i] >= Window PROVE n >= m
    OBVIOUS
  <2>1. 1 .. m \in SUBSET Expired(times)
    BY <1>1 DEF Expired
  <2>2. Cardinality(1 .. m) <= n
    BY <2>1, <1>4, FS_Subset
  <2> QED
    BY <1>2, <1>4, <2>2
<1>6. (\A i \in m + 1 .. Len(times) : now + 1 - times[i] < Window) => n <= m
  <2> SUFFICES ASSUME \A i \in m + 1 .. Len(times) : now + 1 - times[i] < Window PROVE n <= m
    OBVIOUS
  <2>1. \A i \in Expired(times) : i \in 1 .. m
    <3> SUFFICES ASSUME NEW i \in Expired(times), i \notin 1 .. m PROVE FALSE
      OBVIOUS
    <3>1. i \in 1 .. Len(times) /\ now + 1 - times[i] >= Window
      BY <1>1 DEF Expired
    <3>2. i \in m + 1 .. Len(times)
      BY <1>1, <3>1
    <3>3. now + 1 - times[i] < Window
      BY <3>2
    <3> QED
      BY <1>1, <3>1, <3>3, LimiterAssumption
  <2>2. Expired(times) \in SUBSET (1 .. m)
    BY <2>1
  <2>3. IsFiniteSet(1 .. m) /\ n <= Cardinality(1 .. m)
    BY <2>2, <1>2, FS_Subset
  <2> QED
    BY <1>2, <2>3
<1>7. /\ Recent(times) \in Seq(Nat) /\ Len(Recent(times)) = Len(times) - n
      /\ \A i \in 1 .. Len(times) - n : Recent(times)[i] = times[i + n]
  <2> HIDE DEF n
  <2>1. Recent(times) = SubSeq(times, n + 1, Len(times))
    BY DEF Recent, n
  <2>2. n + 1 \in Int /\ Len(times) \in Int /\ \A i \in n + 1 .. Len(times) : times[i] \in Nat
    BY <1>1, <1>4
  <2>3. /\ Recent(times) \in Seq(Nat)
        /\ Len(Recent(times)) = IF n + 1 <= Len(times) THEN Len(times) - (n + 1) + 1 ELSE 0
        /\ \A i \in 1 .. Len(times) - (n + 1) + 1 : Recent(times)[i] = times[n + 1 + i - 1]
    BY <2>1, <2>2, SubSeqProperties
  <2>4. Len(Recent(times)) = Len(times) - n
    <3>1. n \in Nat /\ Len(times) \in Nat /\ n <= Len(times)
      BY <1>1, <1>4
    <3>2. CASE n + 1 <= Len(times)
      <4>1. Len(Recent(times)) = Len(times) - (n + 1) + 1
        BY <2>3, <3>2
      <4> QED
        BY <3>1, <4>1
    <3>3. CASE ~ (n + 1 <= Len(times))
      <4>1. Len(Recent(times)) = 0
        BY <2>3, <3>3
      <4>2. n = Len(times)
        BY <3>1, <3>3
      <4> QED
        BY <3>1, <4>1, <4>2
    <3> QED
      BY <3>2, <3>3
  <2>5. \A i \in 1 .. Len(times) - n : n + 1 + i - 1 = i + n
    BY <1>1, <1>4
  <2>6. 1 .. Len(times) - n = 1 .. Len(times) - (n + 1) + 1
    BY <1>1, <1>4
  <2> QED
    BY <2>3, <2>4, <2>5, <2>6
<1> QED
  BY <1>4, <1>5, <1>6, <1>7

\* A window's limit and length are positive.
LEMMA WindowFacts == WindowLimit \in Nat /\ WindowLimit >= 1 /\ Window \in Nat /\ Window >= 1
BY LimitIsNat, LimiterAssumption

\* One more failure, in the window that is live or in a new one.
LEMMA ShapeCounted ==
    ASSUME NEW e \in Entry, NEW times \in Seq(Nat), now \in Nat, FailShape(e, times, now)
    PROVE  FailShape(Counted(e), Append(times, now), now)
<1> DEFINE n == Len(times)
           more == Append(times, now)
<1>1. /\ n \in Nat /\ \A i \in 1 .. n : times[i] \in Nat
      /\ Len(more) = n + 1 /\ more[n + 1] = now /\ \A i \in 1 .. n : more[i] = times[i]
  BY ElementOfSeq, LenProperties, AppendProperties
<1>2. e.count \in Nat /\ e.start \in Nat
  BY DEF Entry
<1>3. \A i \in 1 .. n : times[i] <= now
  BY DEF FailShape
<1>4. \A i \in 1 .. n + 1 : more[i] <= now /\ more[i] \in Nat
  BY <1>1, <1>3
<1> HIDE DEF more
<1>5. CASE e.count = 0 \/ now - e.start >= Window
  <2>1. Counted(e) = [start |-> now, count |-> 1]
    BY <1>5 DEF Counted, Over
  <2>2. n <= WindowLimit - 1
    BY <1>5 DEF FailShape
  <2>3. ~ (1 = 0 \/ now - now >= Window)
    BY WindowFacts
  <2>4. 1 <= n + 1 /\ n + 1 <= WindowLimit - 1 + 1
    BY <1>1, <2>2, WindowFacts
  <2>5. \A i \in 1 .. n + 1 : i > n + 1 - 1 => more[i] >= now
    BY <1>1
  <2>6. Counted(e).start = now /\ Counted(e).count = 1
    BY <2>1
  <2>7. FailShape(Counted(e), more, now)
    BY <1>1, <1>4, <2>3, <2>4, <2>5, <2>6 DEF FailShape
  <2> QED
    BY <2>7 DEF more
<1>6. CASE ~ (e.count = 0 \/ now - e.start >= Window)
  <2>1. Counted(e).count = e.count + 1 /\ Counted(e).start = e.start
    BY <1>6 DEF Counted, Over, Entry
  <2>2. /\ e.count <= n /\ n <= WindowLimit - 1 + e.count
        /\ \A i \in 1 .. n : i <= n - e.count + 1 => times[i] <= e.start
        /\ \A i \in 1 .. n : i > n - e.count => times[i] >= e.start
    BY <1>6 DEF FailShape
  <2>3. ~ (e.count + 1 = 0 \/ now - e.start >= Window)
    BY <1>2, <1>6
  <2>4. e.count + 1 <= n + 1 /\ n + 1 <= WindowLimit - 1 + (e.count + 1)
    BY <1>1, <1>2, <2>2, WindowFacts
  <2>5. \A i \in 1 .. n + 1 : i <= n + 1 - (e.count + 1) + 1 => more[i] <= e.start
    <3>1. \A i \in 1 .. n + 1 : i <= n + 1 - (e.count + 1) + 1 => i \in 1 .. n /\ i <= n - e.count + 1
      BY <1>1, <1>2, <1>6
    <3> QED
      BY <1>1, <2>2, <3>1
  <2>6. now >= e.start
    <3>1. n \in 1 .. n /\ n > n - e.count
      BY <1>1, <1>2, <1>6, <2>2
    <3>2. times[n] >= e.start /\ times[n] <= now /\ times[n] \in Nat
      BY <1>1, <1>3, <2>2, <3>1
    <3> QED
      BY <1>2, <3>2
  <2>7. \A i \in 1 .. n + 1 : i > n + 1 - (e.count + 1) => more[i] >= e.start
    <3>1. \A i \in 1 .. n + 1 : i > n + 1 - (e.count + 1) => i = n + 1 \/ (i \in 1 .. n /\ i > n - e.count)
      BY <1>1, <1>2
    <3> QED
      BY <1>1, <2>2, <2>6, <3>1
  <2>8. ~ (Counted(e).count = 0 \/ now - Counted(e).start >= Window)
    BY <2>1, <2>3
  <2>9. Counted(e).count <= Len(more) /\ Len(more) <= WindowLimit - 1 + Counted(e).count
    BY <1>1, <2>1, <2>4
  <2>a. \A i \in 1 .. Len(more) : i <= Len(more) - Counted(e).count + 1 => more[i] <= Counted(e).start
    BY <1>1, <1>2, <2>1, <2>5
  <2>b. \A i \in 1 .. Len(more) : i > Len(more) - Counted(e).count => more[i] >= Counted(e).start
    BY <1>1, <1>2, <2>1, <2>7
  <2>10. \A i \in 1 .. Len(more) : more[i] <= now
    BY <1>1, <1>4
  <2>11. FailShape(Counted(e), more, now)
    BY <2>8, <2>9, <2>a, <2>b, <2>10 DEF FailShape
  <2> QED
    BY <2>11 DEF more
<1> QED
  BY <1>5, <1>6

\* The two shapes: without a live window and with one.
LEMMA ShapeOver ==
    ASSUME NEW e \in Entry, NEW times \in Seq(Nat), NEW clock \in Nat,
           \A i \in 1 .. Len(times) : times[i] <= clock,
           e.count = 0 \/ clock - e.start >= Window,
           Len(times) <= WindowLimit - 1
    PROVE  FailShape(e, times, clock)
BY DEF FailShape

LEMMA ShapeLive ==
    ASSUME NEW e \in Entry, NEW times \in Seq(Nat), NEW clock \in Nat,
           \A i \in 1 .. Len(times) : times[i] <= clock,
           ~ (e.count = 0 \/ clock - e.start >= Window),
           e.count <= Len(times), Len(times) <= WindowLimit - 1 + e.count,
           \A i \in 1 .. Len(times) : i <= Len(times) - e.count + 1 => times[i] <= e.start,
           \A i \in 1 .. Len(times) : i > Len(times) - e.count => times[i] >= e.start
    PROVE  FailShape(e, times, clock)
BY DEF FailShape

\* A tick, while the window lives on, when it ends, and without one.
LEMMA ShapeTick ==
    ASSUME NEW e \in Entry, e.count <= WindowLimit, NEW times \in Seq(Nat), now \in Nat,
           FailShape(e, times, now), NEW clock \in Nat, clock = now + 1
    PROVE  Recent(times) \in Seq(Nat) /\ FailShape(e, Recent(times), clock)
<1> DEFINE len == Len(times)
           rest == Recent(times)
           none == e.count = 0 \/ now - e.start >= Window
           late == clock - e.start >= Window
           m == IF none THEN 0 ELSE IF late THEN len - e.count + 1 ELSE len - e.count
<1>1. /\ len \in Nat /\ e.count \in Nat /\ e.start \in Nat
      /\ \A i \in 1 .. len : times[i] \in Nat /\ times[i] <= now
  BY ElementOfSeq, LenProperties DEF Entry, FailShape
<1>2. CASE none
  <2>1. len <= WindowLimit - 1
    BY <1>2 DEF FailShape
  <2>2. PICK n \in 0 .. len :
            /\ rest \in Seq(Nat) /\ Len(rest) = len - n
            /\ \A i \in 1 .. len - n : rest[i] = times[i + n]
    <3>1. 0 \in 0 .. len
      BY <1>1
    <3> QED
      BY <3>1, RecentDrops
  <2> HIDE DEF rest
  <2>3. \A i \in 1 .. len - n : i + n \in 1 .. len
    BY <1>1
  <2>4. \A i \in 1 .. Len(rest) : rest[i] <= clock
    <3> SUFFICES ASSUME NEW i \in 1 .. len - n PROVE times[i + n] <= clock
      BY <2>2
    <3>1. times[i + n] \in Nat /\ times[i + n] <= now
      BY <1>1, <2>3
    <3> QED
      BY <3>1
  <2>5. Len(rest) <= WindowLimit - 1
    BY <1>1, <2>1, <2>2, WindowFacts
  <2>6. e.count = 0 \/ clock - e.start >= Window
    BY <1>1, <1>2, WindowFacts
  <2>7. FailShape(e, rest, clock)
    BY <1>1, <2>2, <2>4, <2>5, <2>6, ShapeOver
  <2> QED
    BY <2>2, <2>7 DEF rest
<1>3. CASE ~ none
  <2>1. /\ e.count >= 1 /\ e.count <= len /\ len <= WindowLimit - 1 + e.count
        /\ \A i \in 1 .. len : i <= len - e.count + 1 => times[i] <= e.start
        /\ \A i \in 1 .. len : i > len - e.count => times[i] >= e.start
    BY <1>1, <1>3 DEF FailShape
  <2>2. m \in 0 .. len
    <3>1. len - e.count + 1 \in 0 .. len /\ len - e.count \in 0 .. len
      BY <1>1, <2>1
    <3> QED
      BY <1>3, <3>1
  <2>3. PICK n \in 0 .. len :
            /\ rest \in Seq(Nat) /\ Len(rest) = len - n
            /\ \A i \in 1 .. len - n : rest[i] = times[i + n]
            /\ (\A i \in 1 .. m : now + 1 - times[i] >= Window) => n >= m
            /\ (\A i \in m + 1 .. len : now + 1 - times[i] < Window) => n <= m
    BY <2>2, RecentDrops
  <2> HIDE DEF rest
  <2>4. \A i \in 1 .. len - n : i + n \in 1 .. len
    BY <1>1
  <2>5. \A i \in 1 .. Len(rest) : rest[i] <= clock
    <3> SUFFICES ASSUME NEW i \in 1 .. len - n PROVE times[i + n] <= clock
      BY <2>3
    <3>1. times[i + n] \in Nat /\ times[i + n] <= now
      BY <1>1, <2>4
    <3> QED
      BY <3>1
  <2>6. CASE late
    <3>1. m = len - e.count + 1
      BY <1>3, <2>6
    <3> HIDE DEF m
    <3>2. \A i \in 1 .. m : now + 1 - times[i] >= Window
      <4> SUFFICES ASSUME NEW i \in 1 .. m PROVE now + 1 - times[i] >= Window
        OBVIOUS
      <4>1. i \in 1 .. len /\ i <= len - e.count + 1
        BY <1>1, <2>1, <3>1
      <4>2. times[i] <= e.start /\ times[i] \in Nat
        BY <1>1, <2>1, <4>1
      <4> QED
        BY <1>1, <2>6, <4>2, WindowFacts
    <3>3. n >= m
      BY <2>3, <3>2
    <3>4. Len(rest) <= WindowLimit - 1
      <4>1. n >= len - e.count + 1 /\ n \in Nat /\ len \in Nat /\ e.count \in Nat
        BY <1>1, <3>1, <3>3
      <4>2. Len(rest) = len - n
        BY <2>3
      <4> HIDE DEF len
      <4>3. len - n <= WindowLimit - 1
        BY <4>1, WindowFacts
      <4> QED
        BY <4>2, <4>3
    <3>5. FailShape(e, rest, clock)
      BY <1>1, <2>3, <2>5, <2>6, <3>4, ShapeOver
    <3> QED
      BY <2>3, <3>5 DEF rest
  <2>7. CASE ~ late
    <3>1. m = len - e.count
      BY <1>3, <2>7
    <3> HIDE DEF m
    <3>2. \A i \in m + 1 .. len : now + 1 - times[i] < Window
      <4> SUFFICES ASSUME NEW i \in m + 1 .. len PROVE now + 1 - times[i] < Window
        OBVIOUS
      <4>1. i \in 1 .. len /\ i > len - e.count
        BY <1>1, <2>1, <3>1
      <4>2. times[i] >= e.start /\ times[i] \in Nat
        BY <1>1, <2>1, <4>1
      <4> QED
        BY <1>1, <2>7, <4>2, WindowFacts
    <3>3. n <= len - e.count
      BY <2>3, <3>1, <3>2
    <3>4. e.count <= Len(rest) /\ Len(rest) <= WindowLimit - 1 + e.count
      <4>1. n <= len - e.count /\ n \in Nat /\ len \in Nat /\ e.count \in Nat
            /\ e.count <= len /\ len <= WindowLimit - 1 + e.count
        BY <1>1, <2>1, <3>3
      <4>2. Len(rest) = len - n
        BY <2>3
      <4> HIDE DEF len
      <4>3. e.count <= len - n /\ len - n <= WindowLimit - 1 + e.count
        BY <4>1, WindowFacts
      <4> QED
        BY <4>2, <4>3
    <3>5. \A i \in 1 .. Len(rest) : i <= Len(rest) - e.count + 1 => rest[i] <= e.start
      <4> SUFFICES ASSUME NEW i \in 1 .. len - n, i <= len - n - e.count + 1
                   PROVE  times[i + n] <= e.start
        BY <2>3
      <4>1. i + n \in 1 .. len /\ i + n <= len - e.count + 1
        BY <1>1, <2>4
      <4> QED
        BY <2>1, <4>1
    <3>6. \A i \in 1 .. Len(rest) : i > Len(rest) - e.count => rest[i] >= e.start
      <4> SUFFICES ASSUME NEW i \in 1 .. len - n, i > len - n - e.count
                   PROVE  times[i + n] >= e.start
        BY <2>3
      <4>1. i + n \in 1 .. len /\ i + n > len - e.count
        BY <1>1, <2>4
      <4> QED
        BY <2>1, <4>1
    <3>7. ~ (e.count = 0 \/ clock - e.start >= Window)
      BY <1>3, <2>7
    <3> HIDE DEF late, none
    <3>8. FailShape(e, rest, clock)
      BY <1>1, <2>3, <2>5, <3>4, <3>5, <3>6, <3>7, ShapeLive
    <3> QED
      BY <2>3, <3>8 DEF rest
  <2> QED
    BY <2>6, <2>7
<1> QED
  BY <1>2, <1>3

\* No entry: a new one, or one that was erased when its window was over.
LEMMA ShapeErased ==
    ASSUME NEW times, now \in Nat,
           \/ times = << >>
           \/ \E e \in Entry : FailShape(e, times, now) /\ (e.count = 0 \/ Over(e))
    PROVE  FailShape(NoEntry, times, now)
<1>1. NoEntry.count = 0
  BY DEF NoEntry
<1>2. CASE times = << >>
  <2>1. Len(times) = 0
    BY <1>2
  <2> QED
    BY <1>1, <2>1, WindowFacts DEF FailShape
<1>3. ASSUME NEW e \in Entry, FailShape(e, times, now), e.count = 0 \/ Over(e)
      PROVE  FailShape(NoEntry, times, now)
  BY <1>1, <1>3 DEF FailShape, Over
<1> QED
  BY <1>2, <1>3

LEMMA FailStep == LimiterInv /\ FailInv /\ [LimiterNext]_limiterAll => FailInv'
<1> SUFFICES ASSUME LimiterInv, FailInv, [LimiterNext]_limiterAll PROVE FailInv'
  OBVIOUS
<1>0. /\ now \in Nat /\ failures \in [LimitKeys -> Seq(Nat)]
      /\ entries \in [LimitKeys -> Entry]
      /\ checking \in [Callers -> LimitKeys \cup {NoKey}]
      /\ \A k \in LimitKeys : FailShape(entries[k], failures[k], now)
  BY DEF LimiterInv, LimiterTypeOK, FailInv
\* Every key's entry stays or is erased when its window is over; the failures stay.
<1>1. ASSUME UNCHANGED <<now, failures>>,
             \A k \in LimitKeys : \/ entries'[k] = entries[k]
                                  \/ entries'[k] = NoEntry /\ Over(entries[k])
      PROVE  FailInv'
  <2>1. ASSUME NEW k \in LimitKeys PROVE FailShape(entries'[k], failures[k], now)
    <3>1. CASE entries'[k] = entries[k]
      BY <1>0, <3>1
    <3>2. CASE entries'[k] = NoEntry /\ Over(entries[k])
      BY <1>0, <3>2, ShapeErased
    <3> QED
      BY <1>1, <3>1, <3>2
  <2> QED
    BY <1>0, <1>1, <2>1 DEF FailInv
<1>2. ASSUME NEW t \in Callers, NEW k \in LimitKeys, Allow(t, k) PROVE FailInv'
  BY <1>0, <1>1, <1>2 DEF Allow
<1>3. ASSUME NEW t \in Callers, RecordFailure(t) PROVE FailInv'
  <2> DEFINE k == checking[t]
  <2>1. /\ k \in LimitKeys /\ now' = now /\ failures' = [failures EXCEPT ![k] = Append(@, now)]
        /\ entries' = [MaybePurge EXCEPT ![k] = Counted(@)]
    BY <1>0, <1>3 DEF RecordFailure
  <2>2. NoEntry \in Entry
    BY DEF NoEntry, Entry
  <2>3. ASSUME NEW q \in LimitKeys
        PROVE  MaybePurge[q] \in Entry /\ FailShape(MaybePurge[q], failures[q], now)
    <3>1. MaybePurge[q] = entries[q] \/ (MaybePurge[q] = NoEntry /\ Over(entries[q]))
      BY DEF MaybePurge
    <3> QED
      BY <1>0, <2>2, <3>1, ShapeErased
  <2>4. DOMAIN MaybePurge = LimitKeys
    BY <1>0 DEF MaybePurge
  <2> HIDE DEF k
  <2>5. ASSUME NEW q \in LimitKeys
        PROVE  failures'[q] \in Seq(Nat) /\ FailShape(entries'[q], failures'[q], now)
    <3>1. CASE q = k
      <4>1. entries'[q] = Counted(MaybePurge[q]) /\ failures'[q] = Append(failures[q], now)
        BY <1>0, <2>1, <2>4, <3>1
      <4>2. Append(failures[q], now) \in Seq(Nat)
        BY <1>0, AppendProperties
      <4> QED
        BY <1>0, <2>3, <4>1, <4>2, ShapeCounted
    <3>2. CASE q # k
      <4>1. entries'[q] = MaybePurge[q] /\ failures'[q] = failures[q]
        BY <1>0, <2>1, <2>4, <3>2
      <4> QED
        BY <1>0, <2>3, <4>1
    <3> QED
      BY <3>1, <3>2
  <2>6. failures' \in [LimitKeys -> Seq(Nat)]
    BY <1>0, <2>1, <2>5
  <2> QED
    BY <2>1, <2>5, <2>6 DEF FailInv
<1>4. ASSUME NEW t \in Callers, Reset(t) PROVE FailInv'
  <2> DEFINE k == checking[t]
  <2>1. /\ k \in LimitKeys /\ now' = now /\ failures' = [failures EXCEPT ![k] = << >>]
        /\ entries' = [entries EXCEPT ![k] = NoEntry]
    BY <1>0, <1>4 DEF Reset
  <2> HIDE DEF k
  <2>2. ASSUME NEW q \in LimitKeys PROVE FailShape(entries'[q], failures'[q], now)
    <3>1. CASE q = k
      BY <1>0, <2>1, <3>1, ShapeErased
    <3>2. CASE q # k
      BY <1>0, <2>1, <3>2
    <3> QED
      BY <3>1, <3>2
  <2>3. failures' \in [LimitKeys -> Seq(Nat)]
    BY <1>0, <2>1
  <2> QED
    BY <2>1, <2>2, <2>3 DEF FailInv
<1>5. ASSUME NEW t \in Callers, GiveUp(t) PROVE FailInv'
  BY <1>1, <1>5 DEF GiveUp
<1>6. CASE UNCHANGED limiterAll
  BY <1>1, <1>6 DEF limiterAll, limiterVars
<1>7. CASE Tick
  <2>1. now' = now + 1 /\ entries' = entries /\ failures' = [k \in LimitKeys |-> Recent(failures[k])]
    BY <1>7 DEF Tick
  <2>2. ASSUME NEW k \in LimitKeys
        PROVE  Recent(failures[k]) \in Seq(Nat) /\ FailShape(entries[k], Recent(failures[k]), now')
    <3>1. entries[k] \in Entry /\ entries[k].count \in Nat
      BY <1>0 DEF Entry
    <3>2. entries[k].count + Cardinality(Waiting(k)) <= WindowLimit /\ Cardinality(Waiting(k)) \in Nat
      BY WaitingFinite DEF LimiterInv, RoomForWaiting
    <3>3. entries[k].count <= WindowLimit
      BY <3>1, <3>2, WindowFacts
    <3> QED
      BY <1>0, <2>1, <3>1, <3>3, ShapeTick
  <2> QED
    BY <2>1, <2>2 DEF FailInv
<1> QED
  BY <1>2, <1>3, <1>4, <1>5, <1>6, <1>7 DEF LimiterNext

LEMMA LimiterInvariant == LimiterSpec => [](LimiterInv /\ FailInv)
<1>1. LimiterInit => FailInv
  <2> SUFFICES ASSUME LimiterInit PROVE FailInv
    OBVIOUS
  <2>1. now \in Nat /\ \A k \in LimitKeys : entries[k] = NoEntry /\ failures[k] = << >>
    BY DEF LimiterInit
  <2>2. failures \in [LimitKeys -> Seq(Nat)]
    BY DEF LimiterInit
  <2> QED
    BY <2>1, <2>2, ShapeErased DEF FailInv
<1> QED
  BY <1>1, LimiterInitial, LimiterInductive, FailStep, PTL DEF LimiterSpec

\* An entry of the limiter counts at most max_attempts_ failures and one more for each
\* other thread that handles logins, whatever they interleave.
THEOREM CountIsBounded == LimiterSpec => []CountBounded
<1>1. LimiterInv => CountBounded
  <2> SUFFICES ASSUME LimiterInv, NEW k \in LimitKeys PROVE entries[k].count <= WindowLimit
    BY DEF CountBounded
  <2>1. Cardinality(Waiting(k)) \in Nat /\ entries[k].count \in Nat
    BY WaitingFinite DEF LimiterInv, LimiterTypeOK, Entry
  <2> QED
    BY <2>1, LimitIsNat DEF LimiterInv, RoomForWaiting
<1> QED
  BY <1>1, LimiterInvariant, PTL

\* Any interval as long as the window sees fewer failures than two windows count: the
\* limiter's window does not slide, but no purge, reset or late failure makes it forget more.
THEOREM FailuresAreBounded == LimiterSpec => []FailuresBounded
<1>1. LimiterInv /\ FailInv => FailuresBounded
  <2> SUFFICES ASSUME LimiterInv, FailInv, NEW k \in LimitKeys
               PROVE  Len(failures[k]) <= 2 * WindowLimit - 1
    BY DEF FailuresBounded
  <2>1. /\ entries[k].count \in Nat /\ Len(failures[k]) \in Nat
        /\ entries[k].count + Cardinality(Waiting(k)) <= WindowLimit /\ Cardinality(Waiting(k)) \in Nat
    BY WaitingFinite, LenProperties DEF LimiterInv, LimiterTypeOK, RoomForWaiting, FailInv, Entry
  <2>2. \/ Len(failures[k]) <= WindowLimit - 1
        \/ Len(failures[k]) <= WindowLimit - 1 + entries[k].count
    BY DEF FailInv, FailShape
  <2> QED
    BY <2>1, <2>2, WindowFacts
<1> QED
  BY <1>1, LimiterInvariant, PTL

-----------------------------------------------------------------------------
\* The admin server

Types == now \in Nat /\ AdminTypeOK

\* Role 1 is the only one named SeedName, and ids are given out in order.
RolesInOrder ==
    /\ role_name[1] \in {SeedName, NoName}
    /\ \A r \in RoleIds : r >= next_role => role_name[r] = NoName

\* The assignments name roles, as long as requests do.
AssignedExist == tidy => \A a \in Admins : admin_roles[a] \subseteq Roles

\* A live cache entry is of an account that exists and has that status.
CacheStatus == \A a \in Admins : Hit(a) => rbac_cache[a].status = status[a] /\ FindById(a)

\* The inductive invariant.
AdminInv ==
    /\ Types
    /\ RolesInOrder
    /\ AssignedExist
    /\ CacheStatus
    /\ CacheIsCurrent
    /\ LoggedOutStaysOut

-----------------------------------------------------------------------------
\* Lemmas

\* No entry is not a live one.
LEMMA NoCachedFacts ==
    NoCached \in CacheEntry /\ NoCached.expires = 0 /\ (now \in Nat => ~(NoCached.expires > now))
BY DEF NoCached, CacheEntry, Status

\* An element of a sequence.
LEMMA InSeq ==
    ASSUME NEW S, NEW s \in Seq(S), NEW i \in DOMAIN s
    PROVE  i \in 1 .. Len(s) /\ s[i] \in S
OBVIOUS

\* The tokens of requests are tokens.
LEMMA SignedAreTokens ==
    ASSUME Types, NEW t \in Signed
    PROVE  t \in Token /\ t.admin \in Admins
<1>1. CASE t \in out
  BY <1>1 DEF Types, AdminTypeOK, Token
<1>2. CASE t \in {sessions[i].token : i \in DOMAIN sessions}
  <2>1. PICK i \in DOMAIN sessions : t = sessions[i].token
    BY <1>2
  <2>2. sessions \in Seq([token : Token, revoked : BOOLEAN])
    BY DEF Types, AdminTypeOK
  <2>3. i \in 1 .. Len(sessions) /\ sessions[i] \in [token : Token, revoked : BOOLEAN]
    BY <2>2, InSeq, Zenon
  <2>4. t \in Token
    BY <2>1, <2>3
  <2>5. QED
    BY <2>4 DEF Token
<1>3. QED
  BY <1>1, <1>2 DEF Signed

\* What the middleware leaves in the cache has the type of a cache.
LEMMA FilledType ==
    ASSUME Types, NEW a \in Admins
    PROVE  Filled(a) \in [Admins -> CacheEntry]
<1>1. Known(a) \in CacheEntry
  <2>1. GetUserPermissions(a) \in SUBSET Perms
    BY DEF Types, AdminTypeOK, GetUserPermissions
  <2>2. now + RbacCacheTtl \in Nat
    BY AdminAssumption DEF Types, AdminAssumption
  <2>3. QED
    BY <2>1, <2>2 DEF Known, Types, AdminTypeOK, CacheEntry
<1>2. Evicted \in [Admins -> CacheEntry]
  BY NoCachedFacts DEF Evicted, Types, AdminTypeOK
<1>3. QED
  BY <1>1, <1>2 DEF Filled, Types, AdminTypeOK

\* Every live entry after the middleware was live before, or is the one it has just read.
LEMMA FilledEntry ==
    ASSUME Types, NEW a \in Admins, NEW b \in Admins, Filled(a)[b].expires > now
    PROVE  \/ Hit(b) /\ Filled(a)[b] = rbac_cache[b]
           \/ b = a /\ ~Hit(b) /\ Filled(a)[b] = Known(b)
<1>1. CASE Hit(a)
  BY <1>1 DEF Filled, Hit
<1>2. CASE ~Hit(a)
  <2>1. Filled(a) = [Evicted EXCEPT ![a] = Known(a)]
    BY <1>2 DEF Filled
  <2>2. Evicted \in [Admins -> CacheEntry] /\ Evicted[b] \in {rbac_cache[b], NoCached}
    BY NoCachedFacts DEF Evicted, Types, AdminTypeOK
  <2>3. CASE b = a
    BY <2>1, <2>2, <2>3, <1>2
  <2>4. CASE b # a
    <3>1. Filled(a)[b] = Evicted[b]
      BY <2>1, <2>2, <2>4
    <3>2. Filled(a)[b] = rbac_cache[b]
      BY <3>1, <2>2, NoCachedFacts DEF Types
    <3>3. QED
      BY <3>2 DEF Hit
  <2>5. QED
    BY <2>3, <2>4
<1>3. QED
  BY <1>1, <1>2

\* What the middleware leaves in the cache is what the database says.
LEMMA FilledFresh ==
    ASSUME Types, CacheStatus, CacheIsCurrent, NEW t \in Signed, Authenticated(t),
           NEW b \in Admins, Filled(t.admin)[b].expires > now
    PROVE  /\ Filled(t.admin)[b].status = status[b] /\ FindById(b)
           /\ tidy => Filled(t.admin)[b].perms = GetUserPermissions(b)
<1>1. t.admin \in Admins
  BY SignedAreTokens
<1>2. \/ Hit(b) /\ Filled(t.admin)[b] = rbac_cache[b]
      \/ b = t.admin /\ ~Hit(b) /\ Filled(t.admin)[b] = Known(b)
  BY <1>1, FilledEntry
<1>3. CASE Hit(b) /\ Filled(t.admin)[b] = rbac_cache[b]
  BY <1>3 DEF CacheStatus, CacheIsCurrent
<1>4. CASE b = t.admin /\ ~Hit(b) /\ Filled(t.admin)[b] = Known(b)
  BY <1>4 DEF Known, Authenticated
<1>5. QED
  BY <1>2, <1>3, <1>4

\* A request that changes no account and invalidates some entries, or none, leaves every
\* live entry with the account's status.
LEMMA StatusKept ==
    ASSUME Types, CacheStatus, CacheIsCurrent, NEW t \in Signed, Authenticated(t),
           now' = now,
           \A b \in Admins : \/ rbac_cache'[b] = NoCached
                             \/ rbac_cache'[b] = Filled(t.admin)[b] /\ status'[b] = status[b]
    PROVE  CacheStatus'
<1> SUFFICES ASSUME NEW b \in Admins, Hit(b)'
             PROVE  rbac_cache'[b].status = status'[b] /\ FindById(b)'
  BY DEF CacheStatus
<1>1. rbac_cache'[b].expires > now
  BY DEF Hit
<1>2. rbac_cache'[b] = Filled(t.admin)[b] /\ status'[b] = status[b]
  BY <1>1, NoCachedFacts DEF Types
<1>3. Filled(t.admin)[b].status = status[b] /\ FindById(b)
  BY <1>1, <1>2, FilledFresh
<1>4. QED
  BY <1>2, <1>3 DEF FindById

\* ... and with the admin's permissions, if it changed no others.
LEMMA PermsKept ==
    ASSUME Types, CacheStatus, CacheIsCurrent, NEW t \in Signed, Authenticated(t),
           now' = now, tidy' => tidy,
           \A b \in Admins :
              \/ rbac_cache'[b] = NoCached
              \/ /\ rbac_cache'[b] = Filled(t.admin)[b]
                 /\ tidy' => GetUserPermissions(b)' = GetUserPermissions(b)
    PROVE  CacheIsCurrent'
<1> SUFFICES ASSUME tidy', NEW b \in Admins, Hit(b)'
             PROVE  rbac_cache'[b].perms = GetUserPermissions(b)'
  BY DEF CacheIsCurrent
<1>1. rbac_cache'[b].expires > now
  BY DEF Hit
<1>2. rbac_cache'[b] = Filled(t.admin)[b] /\ GetUserPermissions(b)' = GetUserPermissions(b)
  BY <1>1, NoCachedFacts DEF Types
<1>3. QED
  BY <1>1, <1>2, FilledFresh

\* A step that leaves accounts, roles and the cache alone.
LEMMA NothingJudged ==
    ASSUME AdminInv, now' \in Nat, now' >= now, UNCHANGED <<accountVars, roleVars, rbac_cache>>
    PROVE  RolesInOrder' /\ AssignedExist' /\ CacheStatus' /\ CacheIsCurrent'
<1> USE DEF AdminInv, accountVars, roleVars
<1>1. RolesInOrder' /\ AssignedExist'
  BY DEF RolesInOrder, AssignedExist, Roles
<1>2. \A a \in Admins : Hit(a)' => Hit(a)
  <2> SUFFICES ASSUME NEW a \in Admins, rbac_cache[a].expires > now' PROVE rbac_cache[a].expires > now
    BY DEF Hit
  <2>1. rbac_cache[a].expires \in Nat /\ now \in Nat
    BY DEF Types, AdminTypeOK, CacheEntry
  <2>2. QED
    BY <2>1
<1>3. CacheStatus'
  BY <1>2 DEF CacheStatus, FindById
<1>4. CacheIsCurrent'
  BY <1>2 DEF CacheIsCurrent, GetUserPermissions
<1>5. QED
  BY <1>1, <1>3, <1>4

\* Rows of sessions that keep their tokens and are only ever revoked keep a token out.
LEMMA RowsKept ==
    ASSUME NEW t, IsRevoked(t), DOMAIN sessions' = DOMAIN sessions,
           \A i \in DOMAIN sessions : /\ sessions'[i].token = sessions[i].token
                                      /\ sessions[i].revoked => sessions'[i].revoked
    PROVE  IsRevoked(t)'
<1> SUFFICES ASSUME NEW i \in DOMAIN sessions, FirstRow(i, t)', ~sessions'[i].revoked
             PROVE  FALSE
  BY Zenon DEF IsRevoked
<1>1. FirstRow(i, t)
  BY DEF FirstRow
<1>2. ~sessions[i].revoked
  BY Zenon
<1>3. QED
  BY <1>1, <1>2, Zenon DEF IsRevoked

\* A login adds the last row: it is the first one of its own token only, and only if there
\* was none.
LEMMA LoginKeepsOthersOut ==
    ASSUME Types, LoggedOutStaysOut, NEW row \in [token : Token, revoked : BOOLEAN],
           sessions' = Append(sessions, row), out' = out,
           renewed' = IF row.token \in out /\ ~HasRow(row.token)
                      THEN renewed \cup {row.token} ELSE renewed
    PROVE  LoggedOutStaysOut'
<1> SUFFICES ASSUME NEW t \in out, t \notin renewed, t # row.token \/ HasRow(t)
             PROVE  IsRevoked(t)'
  <2>1. \A t : t \in out /\ t \notin renewed' => t \notin renewed /\ (t # row.token \/ HasRow(t))
    OBVIOUS
  <2>2. QED
    BY <2>1 DEF LoggedOutStaysOut
<1>1. sessions \in Seq([token : Token, revoked : BOOLEAN])
  BY DEF Types, AdminTypeOK
<1>2. /\ DOMAIN sessions' = 1 .. Len(sessions) + 1 /\ DOMAIN sessions = 1 .. Len(sessions)
      /\ Len(sessions) \in Nat
      /\ sessions'[Len(sessions) + 1] = row
      /\ \A i \in 1 .. Len(sessions) : sessions'[i] = sessions[i]
  <2> HIDE DEF Token
  <2> DEFINE S == [token : Token, revoked : BOOLEAN]
  <2>1. sessions \in Seq(S) /\ row \in S
    BY <1>1
  <2> HIDE DEF S
  <2>2. QED
    BY <2>1
<1>3. IsRevoked(t)
  BY DEF LoggedOutStaysOut
<1>4. ASSUME NEW i \in 1 .. Len(sessions) + 1, FirstRow(i, t)', ~sessions'[i].revoked
      PROVE  FALSE
  <2>1. i \in 1 .. Len(sessions)
    <3> SUFFICES ASSUME i = Len(sessions) + 1 PROVE FALSE
      BY <1>2
    <3>1. row.token = t
      BY <1>2, <1>4 DEF FirstRow
    <3>2. PICK j \in 1 .. Len(sessions) : sessions[j].token = t
      BY <3>1, <1>2 DEF HasRow
    <3>3. j \in DOMAIN sessions' /\ j < i /\ sessions'[j] = sessions[j]
      BY <1>2
    <3>4. sessions'[j].token # t
      BY <3>3, <1>4 DEF FirstRow
    <3>5. QED
      BY <3>2, <3>3, <3>4
  <2>2. FirstRow(i, t)
    <3>1. sessions[i].token = t
      BY <2>1, <1>2, <1>4 DEF FirstRow
    <3>2. ASSUME NEW j \in 1 .. Len(sessions), j < i PROVE sessions[j].token # t
      <4>1. j \in DOMAIN sessions' /\ sessions'[j] = sessions[j]
        BY <1>2
      <4>2. QED
        BY <4>1, <3>2, <1>4 DEF FirstRow
    <3>3. QED
      BY <3>1, <3>2, <1>2 DEF FirstRow
  <2>3. ~sessions[i].revoked
    BY <2>1, <1>2, <1>4
  <2>4. QED
    BY <1>2, <1>3, <2>1, <2>2, <2>3 DEF IsRevoked
<1>5. QED
  BY <1>2, <1>4 DEF IsRevoked

\* A logout revokes the row that IsRevoked looks at.
LEMMA LogoutRevokes ==
    ASSUME Types, NEW t, RevokeByTokenHash(t)
    PROVE  /\ IsRevoked(t)'
           /\ \A u : IsRevoked(u) => IsRevoked(u)'
           /\ sessions' \in Seq([token : Token, revoked : BOOLEAN])
<1> DEFINE S == [token : Token, revoked : BOOLEAN]
<1>1. sessions \in Seq(S)
  BY DEF Types, AdminTypeOK
<1>2. \A i \in DOMAIN sessions : sessions[i] \in S
  BY <1>1, InSeq, Zenon
<1>3. \A i \in DOMAIN sessions :
        sessions'[i] = IF FirstRow(i, t) THEN [sessions[i] EXCEPT !.revoked = TRUE] ELSE sessions[i]
  BY DEF RevokeByTokenHash
<1>4. DOMAIN sessions' = DOMAIN sessions
  BY DEF RevokeByTokenHash
<1>5. \A i \in DOMAIN sessions : /\ sessions'[i] \in S
                                 /\ sessions'[i].token = sessions[i].token
                                 /\ sessions[i].revoked => sessions'[i].revoked
                                 /\ FirstRow(i, t) => sessions'[i].revoked
  BY <1>2, <1>3
<1>6. \A i \in DOMAIN sessions : FirstRow(i, t)' => FirstRow(i, t)
  BY <1>4, <1>5 DEF FirstRow
<1>7. IsRevoked(t)'
  BY <1>4, <1>5, <1>6 DEF IsRevoked
<1>8. \A u : IsRevoked(u) => IsRevoked(u)'
  BY <1>4, <1>5, RowsKept
<1>9. sessions' \in Seq(S)
  <2>1. \E n \in Nat : DOMAIN sessions = 1 .. n
    BY <1>1
  <2>2. PICK n \in Nat : DOMAIN sessions = 1 .. n
    BY <2>1
  <2>3. sessions' \in [1 .. n -> S]
    BY <1>5, <2>2, <1>4 DEF RevokeByTokenHash
  <2> HIDE DEF S
  <2>4. QED
    BY <2>3
<1>10. QED
  BY <1>7, <1>8, <1>9

-----------------------------------------------------------------------------
\* Every handler's request has passed the middleware.
LEMMA HandlersAuthenticate ==
    ASSUME NEW t
    PROVE  /\ LetThrough(t) => Authenticated(t)
           /\ Manages(t) => Authenticated(t)
BY DEF LetThrough, Manages

\* The cache keeps its type in every request.
LEMMA CacheType ==
    ASSUME Types, NEW t \in Signed,
           \/ InvalidateNothing(t) \/ InvalidateRbacCacheAll(t)
           \/ \E a \in Admins : InvalidateRbacCache(t, a)
    PROVE  rbac_cache' \in [Admins -> CacheEntry]
<1>1. Filled(t.admin) \in [Admins -> CacheEntry] /\ NoCached \in CacheEntry
  BY SignedAreTokens, FilledType, NoCachedFacts
<1>2. QED
  BY <1>1 DEF InvalidateNothing, InvalidateRbacCache, InvalidateRbacCacheAll

\* A step that leaves the sessions alone leaves the logged-out tokens out.
LEMMA SessionsAlone ==
    ASSUME LoggedOutStaysOut, UNCHANGED <<sessions, out, renewed>>
    PROVE  LoggedOutStaysOut'
BY DEF LoggedOutStaysOut, IsRevoked, FirstRow

\* Login, logout, the clock and the purger.
LEMMA SessionStep ==
    ASSUME AdminInv,
           \/ Tick /\ UNCHANGED <<accountVars, roleVars, sessionVars, rbac_cache>>
           \/ \E ip \in LimitKeys : LoginBegins(ip)
           \/ LoginFails \/ LoginRefused
           \/ \E a \in Admins : LoginSucceeds(a) \/ LoginNotStored(a)
           \/ PurgeExpired
           \/ UNCHANGED adminVars
    PROVE  AdminInv'
<1> USE DEF AdminInv
<1>1. now \in Nat /\ AdminTypeOK /\ Types
  BY DEF Types
<1>2. now' \in Nat /\ now' >= now /\ UNCHANGED <<accountVars, roleVars, rbac_cache>>
  <2>1. now' = now \/ now' = now + 1
    BY DEF Tick, LoginBegins, LoginFails, LoginRefused, LoginSucceeds, LoginNotStored, PurgeExpired,
           Allow, RecordFailure, GiveUp, Reset, adminVars, limiterAll
  <2>2. UNCHANGED <<accountVars, roleVars, rbac_cache>>
    BY DEF LoginBegins, LoginFails, LoginRefused, LoginSucceeds, LoginNotStored, PurgeExpired,
           adminVars
  <2>3. QED
    BY <1>1, <2>1, <2>2
<1>3. RolesInOrder' /\ AssignedExist' /\ CacheStatus' /\ CacheIsCurrent'
  BY <1>2, NothingJudged
<1>4. ASSUME /\ sessions' \in Seq([token : Token, revoked : BOOLEAN])
             /\ logins' \in Nat /\ out' \subseteq Token /\ renewed' \subseteq out'
             /\ LoggedOutStaysOut'
      PROVE  AdminInv'
  BY <1>1, <1>2, <1>3, <1>4 DEF Types, AdminTypeOK, accountVars, roleVars
<1>5. CASE UNCHANGED sessionVars
  <2>1. LoggedOutStaysOut'
    BY <1>5, SessionsAlone DEF sessionVars
  <2>2. QED
    BY <1>1, <1>4, <1>5, <2>1 DEF AdminTypeOK, sessionVars
<1>6. ASSUME NEW a \in Admins, LoginSucceeds(a) PROVE AdminInv'
  <2> DEFINE S == [token : Token, revoked : BOOLEAN]
  <2> DEFINE row == [token |-> [admin |-> a, iat |-> now], revoked |-> FALSE]
  <2>1. row \in S /\ row.token = [admin |-> a, iat |-> now]
    BY <1>1 DEF Token
  <2>2. /\ sessions' = Append(sessions, row) /\ out' = out /\ logins' = logins + 1
        /\ renewed' = IF row.token \in out /\ ~HasRow(row.token)
                      THEN renewed \cup {row.token} ELSE renewed
    BY <1>6 DEF LoginSucceeds
  <2>3. LoggedOutStaysOut'
    BY <1>1, <2>1, <2>2, LoginKeepsOthersOut
  <2>4. sessions' \in Seq(S)
    <3>1. sessions \in Seq(S)
      BY <1>1 DEF AdminTypeOK
    <3> HIDE DEF S, row
    <3>2. QED
      BY <3>1, <2>1, <2>2
  <2>5. out' \subseteq Token /\ renewed' \subseteq out' /\ logins' \in Nat
    BY <1>1, <2>2 DEF AdminTypeOK
  <2>6. QED
    BY <1>4, <2>3, <2>4, <2>5
<1>7. CASE PurgeExpired
  <2>1. sessions' = << >> /\ out' = out /\ renewed' = {} /\ logins' = logins
    BY <1>7 DEF PurgeExpired
  <2>2. \A t : IsRevoked(t)'
    BY <2>1 DEF IsRevoked
  <2>3. LoggedOutStaysOut'
    BY <2>2 DEF LoggedOutStaysOut
  <2>4. QED
    BY <1>1, <1>4, <2>1, <2>3 DEF AdminTypeOK
<1>8. UNCHANGED sessionVars \/ (\E a \in Admins : LoginSucceeds(a)) \/ PurgeExpired
  BY DEF LoginBegins, LoginFails, LoginRefused, LoginNotStored, adminVars
<1>9. QED
  BY <1>5, <1>6, <1>7, <1>8

\* Requests that change no account and no role.
LEMMA ReadStep ==
    ASSUME AdminInv, NEW t \in Signed, HandleLogout(t) \/ HandleOther(t)
    PROVE  AdminInv'
<1> USE DEF AdminInv
<1>1. /\ Authenticated(t) /\ now' = now /\ InvalidateNothing(t)
      /\ UNCHANGED <<accountVars, roleVars, logins>>
  BY HandlersAuthenticate DEF HandleLogout, HandleOther, limiterAll, sessionVars
<1>2. rbac_cache' = Filled(t.admin) /\ status' = status /\ tidy' = tidy
  BY <1>1 DEF InvalidateNothing, accountVars, roleVars
<1>3. CacheStatus'
  BY <1>1, <1>2, StatusKept
<1>4. CacheIsCurrent'
  <2>1. \A b : GetUserPermissions(b)' = GetUserPermissions(b)
    BY <1>1 DEF roleVars, GetUserPermissions
  <2>2. QED
    BY <1>1, <1>2, <2>1, PermsKept
<1>5. RolesInOrder' /\ AssignedExist'
  BY <1>1 DEF RolesInOrder, AssignedExist, Roles, roleVars
<1>6. /\ sessions' \in Seq([token : Token, revoked : BOOLEAN])
      /\ out' \subseteq Token /\ renewed' \subseteq out'
      /\ LoggedOutStaysOut'
  <2>1. CASE UNCHANGED <<sessions, out, renewed>>
    BY <2>1, SessionsAlone DEF Types, AdminTypeOK
  <2>2. CASE RevokeByTokenHash(t) /\ out' = out \cup {t} /\ renewed' = renewed \ {t}
    <3>1. RevokeByTokenHash(t) /\ out' = out \cup {t} /\ renewed' = renewed \ {t}
      BY <2>2
    <3>2. t \in Token /\ out \subseteq Token /\ renewed \subseteq out
      BY SignedAreTokens DEF Types, AdminTypeOK
    <3>3. \A u \in out' : IsRevoked(u)' \/ u \in renewed'
      BY <3>1, LogoutRevokes DEF LoggedOutStaysOut
    <3>4. QED
      BY <3>1, <3>2, <3>3, LogoutRevokes DEF LoggedOutStaysOut
  <2>3. QED
    BY <2>1, <2>2 DEF HandleLogout, HandleOther, sessionVars
<1>7. rbac_cache' \in [Admins -> CacheEntry]
  BY <1>1, CacheType
<1>8. Types'
  BY <1>1, <1>2, <1>6, <1>7 DEF Types, AdminTypeOK, accountVars, roleVars
<1>9. QED
  BY <1>3, <1>4, <1>5, <1>6, <1>8

\* Requests that change the account of one administrator.
LEMMA AccountStep ==
    ASSUME AdminInv, NEW t \in Signed, NEW a \in Admins,
           \/ HandleCreateAdmin(t, a) \/ HandleDeleteAdmin(t, a)
           \/ HandleEnableAdmin(t, a) \/ HandleDisableAdmin(t, a)
    PROVE  AdminInv'
<1> USE DEF AdminInv
<1>1. Authenticated(t) /\ now' = now /\ UNCHANGED <<roleVars, sessionVars>>
  BY HandlersAuthenticate
     DEF HandleCreateAdmin, HandleDeleteAdmin, HandleEnableAdmin, HandleDisableAdmin, limiterAll
<1>2. PICK s \in Status : status' = [status EXCEPT ![a] = s]
  BY DEF HandleCreateAdmin, HandleDeleteAdmin, HandleEnableAdmin, HandleDisableAdmin, Status
<1>3. /\ \/ InvalidateNothing(t) /\ status[a] = "none"
         \/ InvalidateRbacCache(t, a)
  BY DEF HandleCreateAdmin, HandleDeleteAdmin, HandleEnableAdmin, HandleDisableAdmin
<1>4. Filled(t.admin) \in [Admins -> CacheEntry] /\ t.admin \in Admins
  BY SignedAreTokens, FilledType
<1>5. \A b \in Admins : b # a => status'[b] = status[b]
  BY <1>2 DEF Types, AdminTypeOK
<1>6. \A b \in Admins : rbac_cache'[b] = NoCached \/ rbac_cache'[b] = Filled(t.admin)[b]
  BY <1>3, <1>4 DEF InvalidateNothing, InvalidateRbacCache
<1>7. CacheStatus'
  <2>1. CASE InvalidateRbacCache(t, a)
    <3>1. rbac_cache'[a] = NoCached
      BY <2>1, <1>4 DEF InvalidateRbacCache
    <3>2. QED
      BY <3>1, <1>1, <1>5, <1>6, StatusKept
  <2>2. CASE InvalidateNothing(t) /\ status[a] = "none"
    <3> SUFFICES ASSUME NEW b \in Admins, Hit(b)'
                 PROVE  rbac_cache'[b].status = status'[b] /\ FindById(b)'
      BY DEF CacheStatus
    <3>1. rbac_cache'[b] = Filled(t.admin)[b] /\ Filled(t.admin)[b].expires > now
      BY <2>2, <1>1 DEF InvalidateNothing, Hit
    <3>2. Filled(t.admin)[b].status = status[b] /\ FindById(b)
      BY <3>1, <1>1, FilledFresh
    <3>3. b # a
      BY <3>2, <2>2 DEF FindById
    <3>4. QED
      BY <3>1, <3>2, <3>3, <1>5 DEF FindById
  <2>3. QED
    BY <1>3, <2>1, <2>2
<1>8. CacheIsCurrent'
  <2>1. tidy' = tidy /\ \A b : GetUserPermissions(b)' = GetUserPermissions(b)
    BY <1>1 DEF roleVars, GetUserPermissions
  <2>2. QED
    BY <1>1, <1>6, <2>1, PermsKept
<1>9. RolesInOrder' /\ AssignedExist'
  BY <1>1 DEF RolesInOrder, AssignedExist, Roles, roleVars
<1>10. LoggedOutStaysOut'
  BY <1>1, SessionsAlone DEF sessionVars
<1>11. Types'
  <2>1. rbac_cache' \in [Admins -> CacheEntry]
    BY <1>3, CacheType
  <2>2. status' \in [Admins -> Status]
    BY <1>2 DEF Types, AdminTypeOK
  <2>3. QED
    BY <1>1, <2>1, <2>2 DEF Types, AdminTypeOK, roleVars, sessionVars
<1>12. QED
  BY <1>7, <1>8, <1>9, <1>10, <1>11

\* What the steps on roles have in common.
LEMMA RoleStepCommon ==
    ASSUME AdminInv, NEW t \in Signed, Manages(t),
           UNCHANGED <<limiterAll, accountVars, sessionVars>>,
           \/ InvalidateNothing(t) \/ InvalidateRbacCacheAll(t)
           \/ \E a \in Admins : InvalidateRbacCache(t, a)
    PROVE  /\ Authenticated(t) /\ now' = now /\ now' \in Nat
           /\ rbac_cache' \in [Admins -> CacheEntry]
           /\ \A b \in Admins : rbac_cache'[b] = NoCached \/ rbac_cache'[b] = Filled(t.admin)[b]
           /\ CacheStatus' /\ LoggedOutStaysOut'
<1> USE DEF AdminInv
<1>1. Authenticated(t) /\ now' = now /\ now' \in Nat /\ status' = status
  BY HandlersAuthenticate DEF limiterAll, accountVars, Types
<1>2. rbac_cache' \in [Admins -> CacheEntry]
  BY CacheType
<1>3. Filled(t.admin) \in [Admins -> CacheEntry]
  BY SignedAreTokens, FilledType
<1>4. \A b \in Admins : rbac_cache'[b] = NoCached \/ rbac_cache'[b] = Filled(t.admin)[b]
  BY <1>3 DEF InvalidateNothing, InvalidateRbacCache, InvalidateRbacCacheAll
<1>5. CacheStatus'
  BY <1>1, <1>4, StatusKept
<1>6. LoggedOutStaysOut'
  BY SessionsAlone DEF sessionVars
<1>7. QED
  BY <1>1, <1>2, <1>4, <1>5, <1>6

\* HandleSetAdminRoles.
LEMMA AssignStep ==
    ASSUME AdminInv, NEW t \in Signed, NEW a \in Admins, NEW ids \in RoleSets,
           HandleSetAdminRoles(t, a, ids)
    PROVE  AdminInv'
<1> USE DEF AdminInv
<1>1. /\ Manages(t) /\ InvalidateRbacCache(t, a)
      /\ UNCHANGED <<limiterAll, accountVars, sessionVars>>
      /\ UNCHANGED <<role_name, next_role, role_perms>>
      /\ admin_roles' = [admin_roles EXCEPT ![a] = (@ \ Roles) \cup ids]
      /\ tidy' = (tidy /\ ids \subseteq Roles)
  BY DEF HandleSetAdminRoles
<1>2. /\ Authenticated(t) /\ now' = now /\ now' \in Nat
      /\ rbac_cache' \in [Admins -> CacheEntry]
      /\ \A b \in Admins : rbac_cache'[b] = NoCached \/ rbac_cache'[b] = Filled(t.admin)[b]
      /\ CacheStatus' /\ LoggedOutStaysOut'
  BY <1>1, RoleStepCommon
<1>3. rbac_cache'[a] = NoCached
  BY <1>1, SignedAreTokens, FilledType DEF InvalidateRbacCache
<1>4. \A b \in Admins : b # a => admin_roles'[b] = admin_roles[b]
  BY <1>1 DEF Types, AdminTypeOK
<1>5. CacheIsCurrent'
  <2>1. \A b \in Admins : b # a => GetUserPermissions(b)' = GetUserPermissions(b)
    BY <1>1, <1>4 DEF GetUserPermissions
  <2>2. tidy' => tidy
    BY <1>1
  <2>3. QED
    BY <1>2, <1>3, <2>1, <2>2, PermsKept
<1>6. AssignedExist'
  <2>1. Roles' = Roles
    BY <1>1 DEF Roles
  <2>2. admin_roles'[a] = (admin_roles[a] \ Roles) \cup ids
    BY <1>1 DEF Types, AdminTypeOK
  <2>3. QED
    BY <2>1, <2>2, <1>1, <1>4 DEF AssignedExist
<1>7. RolesInOrder'
  BY <1>1 DEF RolesInOrder
<1>8. Types'
  <2>1. ids \subseteq RoleIds
    BY AdminAssumption DEF AdminAssumption, RoleIds
  <2>2. admin_roles' \in [Admins -> SUBSET RoleIds]
    BY <2>1, <1>1 DEF Types, AdminTypeOK
  <2>3. tidy' \in BOOLEAN
    BY <1>1
  <2>4. QED
    BY <1>1, <1>2, <2>2, <2>3 DEF Types, AdminTypeOK, accountVars, sessionVars
<1>9. QED
  BY <1>2, <1>5, <1>6, <1>7, <1>8

\* HandleUpdateRole and HandleDeleteRole empty the cache.
LEMMA ChangeStep ==
    ASSUME AdminInv, NEW t \in Signed, NEW r \in RoleIds,
           HandleDeleteRole(t, r) \/ \E perms \in PermSets : HandleUpdateRole(t, r, perms)
    PROVE  AdminInv'
<1> USE DEF AdminInv
<1>1. /\ Manages(t) /\ InvalidateRbacCacheAll(t) /\ next_role' = next_role
      /\ UNCHANGED <<limiterAll, accountVars, sessionVars>>
  BY DEF HandleDeleteRole, HandleUpdateRole
<1>2. /\ now' = now /\ now' \in Nat /\ rbac_cache' \in [Admins -> CacheEntry]
      /\ CacheStatus' /\ LoggedOutStaysOut'
  BY <1>1, RoleStepCommon
<1>3. CacheIsCurrent'
  <2>1. \A b \in Admins : rbac_cache'[b] = NoCached
    BY <1>1 DEF InvalidateRbacCacheAll
  <2>2. \A b \in Admins : ~Hit(b)'
    BY <2>1, <1>2, NoCachedFacts DEF Hit
  <2>3. QED
    BY <2>2 DEF CacheIsCurrent
<1>4. CASE \E perms \in PermSets : HandleUpdateRole(t, r, perms)
  <2>1. PICK perms \in PermSets : HandleUpdateRole(t, r, perms)
    BY <1>4
  <2>2. /\ role_perms' \in {role_perms, [role_perms EXCEPT ![r] = perms]}
        /\ tidy' = (tidy /\ r \in Roles)
        /\ role_name' = role_name /\ admin_roles' = admin_roles
    BY <2>1 DEF HandleUpdateRole
  <2>3. RolesInOrder' /\ AssignedExist'
    BY <2>2, <1>1 DEF RolesInOrder, AssignedExist, Roles
  <2>4. perms \subseteq Perms
    BY AdminAssumption DEF AdminAssumption
  <2>5. role_perms' \in [RoleIds -> SUBSET Perms]
    BY <2>2, <2>4 DEF Types, AdminTypeOK
  <2>6. tidy' \in BOOLEAN
    BY <2>2
  <2>7. Types'
    BY <1>1, <1>2, <2>2, <2>5, <2>6 DEF Types, AdminTypeOK, accountVars, sessionVars
  <2>8. QED
    BY <1>2, <1>3, <2>3, <2>7
<1>5. CASE HandleDeleteRole(t, r)
  <2>1. /\ role_perms' = [role_perms EXCEPT ![r] = {}]
        /\ admin_roles' = [a \in Admins |-> admin_roles[a] \ {r}]
        /\ role_name' = [role_name EXCEPT ![r] = NoName]
        /\ tidy' = tidy
    BY <1>5 DEF HandleDeleteRole
  <2>2. /\ role_perms' \in [RoleIds -> SUBSET Perms]
        /\ admin_roles' \in [Admins -> SUBSET RoleIds]
        /\ role_name' \in [RoleIds -> Names \cup {SeedName, NoName}]
    BY <2>1 DEF Types, AdminTypeOK
  <2>3. 1 \in RoleIds
    BY AdminAssumption DEF AdminAssumption, RoleIds
  <2>4. RolesInOrder'
    BY <1>1, <2>1, <2>3 DEF RolesInOrder, Types, AdminTypeOK
  <2>5. Roles' = Roles \ {r}
    BY <2>1 DEF Roles, Types, AdminTypeOK
  <2>6. AssignedExist'
    BY <2>1, <2>5 DEF AssignedExist
  <2>7. Types'
    BY <1>1, <1>2, <2>1, <2>2 DEF Types, AdminTypeOK, accountVars, sessionVars
  <2>8. QED
    BY <1>2, <1>3, <2>4, <2>6, <2>7
<1>6. QED
  BY <1>4, <1>5

\* HandleCreateRole invalidates nothing: nobody has the new role yet, and its name is new.
LEMMA CreateStep ==
    ASSUME AdminInv, NEW t \in Signed, NEW name \in Names, NEW perms \in PermSets,
           HandleCreateRole(t, name, perms)
    PROVE  AdminInv'
<1> USE DEF AdminInv
<1> DEFINE names == [role_name EXCEPT ![next_role] = name]
<1> DEFINE q == NamedRole(names, name)
<1>1. /\ Manages(t) /\ InvalidateNothing(t) /\ next_role \in RoleIds
      /\ \A r \in Roles : role_name[r] = name => r = 1
      /\ role_name' = names /\ next_role' = next_role + 1
      /\ role_perms' \in {role_perms, [role_perms EXCEPT ![q] = perms]}
      /\ tidy' = (tidy /\ name # SeedName)
      /\ admin_roles' = admin_roles
      /\ UNCHANGED <<limiterAll, accountVars, sessionVars>>
  BY DEF HandleCreateRole
<1>2. /\ Authenticated(t) /\ now' = now /\ now' \in Nat
      /\ rbac_cache' \in [Admins -> CacheEntry]
      /\ \A b \in Admins : rbac_cache'[b] = NoCached \/ rbac_cache'[b] = Filled(t.admin)[b]
      /\ CacheStatus' /\ LoggedOutStaysOut'
  BY <1>1, RoleStepCommon
<1>3. /\ MaxRoles \in Nat /\ next_role \in 2 .. MaxRoles /\ name # NoName /\ perms \subseteq Perms
      /\ 1 \in RoleIds /\ \A r \in RoleIds : r \in Nat
  BY <1>1, AdminAssumption DEF AdminAssumption, RoleIds, Types, AdminTypeOK, NoName
<1>4. /\ names \in [RoleIds -> Names \cup {SeedName, NoName}]
      /\ names[next_role] = name
      /\ \A r \in RoleIds : r # next_role => names[r] = role_name[r]
  BY <1>1 DEF Types, AdminTypeOK
<1>5. ASSUME tidy' PROVE q = next_role
  <2>1. \A r \in RoleIds : names[r] = name <=> r = next_role
    <3> SUFFICES ASSUME NEW r \in RoleIds, r # next_role PROVE names[r] # name
      BY <1>4
    <3>1. CASE r = 1
      BY <3>1, <1>1, <1>3, <1>4, <1>5 DEF RolesInOrder
    <3>2. CASE r # 1
      BY <3>2, <1>1, <1>3, <1>4 DEF Roles
    <3>3. QED
      BY <3>1, <3>2
  <2>2. \A r \in RoleIds :
          (names[r] = name /\ \A p \in RoleIds : names[p] = name => r <= p) <=> r = next_role
    BY <2>1, <1>1, <1>3
  <2> HIDE DEF names
  <2>3. QED
    BY <2>2, <1>1 DEF NamedRole
<1>6. AssignedExist'
  <2>1. Roles \subseteq Roles'
    BY <1>1, <1>3, <1>4 DEF Roles
  <2>2. QED
    BY <2>1, <1>1 DEF AssignedExist
<1>7. CacheIsCurrent'
  <2>1. ASSUME tidy', NEW b \in Admins PROVE GetUserPermissions(b)' = GetUserPermissions(b)
    <3>1. admin_roles[b] \subseteq Roles
      BY <2>1, <1>1 DEF AssignedExist
    <3>2. next_role \notin Roles
      BY <1>1, <1>3 DEF RolesInOrder, Roles
    <3>3. \A r \in admin_roles[b] : role_perms'[r] = role_perms[r]
      <4>1. \A r \in admin_roles[b] : r \in RoleIds /\ r # next_role
        BY <3>1, <3>2 DEF Roles
      <4>2. q = next_role
        BY <2>1, <1>5
      <4> HIDE DEF q
      <4>3. QED
        BY <4>1, <4>2, <1>1 DEF Types, AdminTypeOK
    <3>4. QED
      BY <3>3, <1>1 DEF GetUserPermissions
  <2>2. tidy' => tidy
    BY <1>1
  <2>3. QED
    BY <1>2, <2>1, <2>2, PermsKept
<1>8. RolesInOrder'
  BY <1>1, <1>3, <1>4 DEF RolesInOrder
<1>9. Types'
  <2>1. role_perms' \in [RoleIds -> SUBSET Perms]
    <3> HIDE DEF q
    <3>1. QED
      BY <1>1, <1>3 DEF Types, AdminTypeOK
  <2>2. next_role' \in 2 .. MaxRoles + 1
    BY <1>1, <1>3
  <2>3. tidy' \in BOOLEAN
    BY <1>1
  <2>4. role_name' \in [RoleIds -> Names \cup {SeedName, NoName}]
    BY <1>1, <1>4
  <2>5. QED
    BY <1>1, <1>2, <2>1, <2>2, <2>3, <2>4 DEF Types, AdminTypeOK, accountVars, sessionVars
<1>10. QED
  BY <1>2, <1>6, <1>7, <1>8, <1>9

-----------------------------------------------------------------------------
\* Theorems

\* The invariant holds initially.
LEMMA AdminInitial == AdminInit => AdminInv
<1> SUFFICES ASSUME AdminInit PROVE AdminInv
  OBVIOUS
<1>1. MaxRoles \in Nat /\ MaxRoles >= 1 /\ 1 \in RoleIds
  BY AdminAssumption DEF AdminAssumption, RoleIds
<1>2. Types
  <2>1. now \in Nat
    BY DEF AdminInit, LimiterInit
  <2>2. QED
    BY <2>1, <1>1, NoCachedFacts DEF AdminInit, Types, AdminTypeOK, Status
<1>3. RolesInOrder
  BY <1>1 DEF AdminInit, RolesInOrder, RoleIds
<1>4. AssignedExist
  BY <1>1, AdminAssumption DEF AdminInit, AssignedExist, Roles, AdminAssumption, NoName
<1>5. \A a \in Admins : ~Hit(a)
  BY <1>2, NoCachedFacts DEF AdminInit, Hit, Types
<1>6. LoggedOutStaysOut
  BY DEF AdminInit, LoggedOutStaysOut
<1>7. QED
  BY <1>2, <1>3, <1>4, <1>5, <1>6 DEF AdminInv, CacheStatus, CacheIsCurrent

\* The invariant is inductive.
LEMMA AdminInductive == AdminInv /\ [AdminNext]_adminVars => AdminInv'
<1> SUFFICES ASSUME AdminInv, [AdminNext]_adminVars PROVE AdminInv'
  OBVIOUS
<1>1. ASSUME NEW t \in Signed, NEW r \in RoleIds, NEW perms \in PermSets, HandleUpdateRole(t, r, perms)
      PROVE  AdminInv'
  BY <1>1, ChangeStep
<1>2. QED
  BY <1>1, SessionStep, ReadStep, AccountStep, AssignStep, ChangeStep, CreateStep DEF AdminNext

LEMMA AdminInvariant == AdminSpec => []AdminInv
BY AdminInitial, AdminInductive, PTL DEF AdminSpec

\* The accounts, roles, sessions and the cache keep their types.
THEOREM AdminTypes == AdminSpec => []AdminTypeOK
<1>1. AdminInv => AdminTypeOK
  BY DEF AdminInv, Types
<1>2. QED
  BY <1>1, AdminInvariant, PTL

\* AuthMiddleware never judges a request by outdated permissions, for any number of
\* administrators and roles, as long as requests name existing roles.
THEOREM CacheCurrent == AdminSpec => []CacheIsCurrent
<1>1. AdminInv => CacheIsCurrent
  BY DEF AdminInv
<1>2. QED
  BY <1>1, AdminInvariant, PTL

\* A disabled or deleted administrator is locked out at once, with no assumption on roles.
THEOREM DisabledLockedOut == AdminSpec => []DisabledIsOut
<1>1. AdminInv => DisabledIsOut
  <2> SUFFICES ASSUME AdminInv, NEW t \in Signed, LetThrough(t) PROVE status[t.admin] = "normal"
    BY DEF DisabledIsOut
  <2>1. t.admin \in Admins
    BY SignedAreTokens DEF AdminInv
  <2>2. QED
    BY <2>1 DEF LetThrough, Known, AdminInv, CacheStatus
<1>2. QED
  BY <1>1, AdminInvariant, PTL

\* A token that a logout revoked is not accepted again, through any purges, logins and
\* logouts, unless the purger deletes its row and its admin then logs in within the second
\* in which it was signed.  A logout whose revocation failed is not covered.
THEOREM LogoutIsFinal == AdminSpec => []LoggedOutStaysOut
<1>1. AdminInv => LoggedOutStaysOut
  BY DEF AdminInv
<1>2. QED
  BY <1>1, AdminInvariant, PTL

\* HandleLogin keeps to the limiter's protocol, and no other request touches the limiter:
\* every step of the admin server is one of the limiter's or leaves it alone.
THEOREM LoginsKeepProtocol == AdminSpec => LimiterSpec
<1>1. AdminInit => LimiterInit
  BY DEF AdminInit
<1>2. [AdminNext]_adminVars => [LimiterNext]_limiterAll
  <2> SUFFICES ASSUME [AdminNext]_adminVars PROVE [LimiterNext]_limiterAll
    OBVIOUS
  <2>0. Http \in Callers
    BY AdminAssumption
  <2>1. ASSUME NEW ip \in LimitKeys, LoginBegins(ip) PROVE LimiterNext
    BY <2>0, <2>1 DEF LoginBegins, LimiterNext
  <2>2. ASSUME LoginFails \/ LoginRefused PROVE LimiterNext
    BY <2>0, <2>2 DEF LoginFails, LoginRefused, LimiterNext
  <2>3. ASSUME NEW a \in Admins, LoginSucceeds(a) \/ LoginNotStored(a) PROVE LimiterNext
    BY <2>0, <2>3 DEF LoginSucceeds, LoginNotStored, LimiterNext
  <2>4. ASSUME PurgeExpired \/ UNCHANGED adminVars PROVE UNCHANGED limiterAll
    BY <2>4 DEF PurgeExpired, adminVars
  <2>5. ASSUME NEW t \in Signed, HandleLogout(t) \/ HandleOther(t) PROVE UNCHANGED limiterAll
    BY <2>5 DEF HandleLogout, HandleOther
  <2>6. ASSUME NEW t \in Signed, NEW a \in Admins,
               HandleCreateAdmin(t, a) \/ HandleDeleteAdmin(t, a) \/ HandleEnableAdmin(t, a)
                 \/ HandleDisableAdmin(t, a) \/ \E ids \in RoleSets : HandleSetAdminRoles(t, a, ids)
        PROVE  UNCHANGED limiterAll
    BY <2>6 DEF HandleCreateAdmin, HandleDeleteAdmin, HandleEnableAdmin, HandleDisableAdmin,
                HandleSetAdminRoles
  <2>7. ASSUME NEW t \in Signed, NEW name \in Names, NEW perms \in PermSets,
               HandleCreateRole(t, name, perms)
        PROVE  UNCHANGED limiterAll
    BY <2>7 DEF HandleCreateRole
  <2>8. ASSUME NEW t \in Signed, NEW r \in RoleIds,
               HandleDeleteRole(t, r) \/ \E perms \in PermSets : HandleUpdateRole(t, r, perms)
        PROVE  UNCHANGED limiterAll
    BY <2>8 DEF HandleDeleteRole, HandleUpdateRole
  <2>9. Tick => LimiterNext
    BY DEF LimiterNext
  <2> QED
    BY <2>1, <2>2, <2>3, <2>4, <2>5, <2>6, <2>7, <2>8, <2>9 DEF AdminNext
<1> QED
  BY <1>1, <1>2, PTL DEF AdminSpec, LimiterSpec

\* The admin login cannot be tried more often than the limiter promises, whatever the
\* administrators do meanwhile.
THEOREM AdminFailures == AdminSpec => []FailuresBounded
BY LoginsKeepProtocol, FailuresAreBounded, PTL
=============================================================================
