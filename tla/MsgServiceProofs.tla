-------------------------- MODULE MsgServiceProofs --------------------------
(***************************************************************************)
(* Theorems about MsgService for any number of users, conversations,       *)
(* client_msg_ids and workers, any cache size, both databases, and any     *)
(* number of failed statements, stalls and restarts.                       *)
(***************************************************************************)
EXTENDS MsgService, SequenceTheorems, FiniteSetTheorems, TLAPS

-----------------------------------------------------------------------------
\* The inductive invariant

\* A sequence number that a handler has drawn and not stored yet is below max_seq, is
\* in no stored message, and no other handler has drawn it.
DrawnIsFree ==
    \A w \in Workers : at[w] = "insert" =>
        /\ got[w] <= max_seq[job[w].conv]
        /\ \A m \in messages : m.conv = job[w].conv => m.seq # got[w]
        /\ \A v \in Workers :
              at[v] = "insert" /\ job[v].conv = job[w].conv /\ got[v] = got[w] => v = w

SeqInv == SeqUnique /\ DrawnIsFree

\* A number above zero is drawn before anything is stored or cached.
PositiveDraws ==
    \A w \in Workers : at[w] \in {"insert", "cache"} => got[w] > 0

IndInv ==
    /\ TypeOK
    /\ CacheConsistent
    /\ PositiveDraws
    /\ SeqInv
    /\ NoInflightLeak

-----------------------------------------------------------------------------
\* The list of the de-duplication cache

\* What a cache list is: keys without repetition, within the limit.
IsLRU(order) ==
    /\ order \in Seq(Keys)
    /\ \A i, j \in 1 .. Len(order) : order[i] = order[j] => i = j

Elems(order) == {order[i] : i \in 1 .. Len(order)}

\* Removing one position of a list without repetitions and appending its element keeps
\* the elements and the length.
LEMMA MoveToEnd ==
    ASSUME NEW order, IsLRU(order), NEW i \in 1 .. Len(order)
    PROVE  LET new == Append(SubSeq(order, 1, i - 1) \o SubSeq(order, i + 1, Len(order)), order[i])
           IN  IsLRU(new) /\ Len(new) = Len(order) /\ Elems(new) = Elems(order)
<1> DEFINE n == Len(order)
           before == SubSeq(order, 1, i - 1)
           after == SubSeq(order, i + 1, n)
           mid == before \o after
           new == Append(mid, order[i])
<1>1. order \in Seq(Keys) /\ n \in Nat /\ i \in 1 .. n
    BY DEF IsLRU
<1>2. before \in Seq(Keys) /\ Len(before) = i - 1 /\ \A j \in 1 .. i - 1 : before[j] = order[j]
    BY <1>1
<1>3. after \in Seq(Keys) /\ Len(after) = n - i /\ \A j \in 1 .. n - i : after[j] = order[i + j]
    BY <1>1
<1>4. /\ mid \in Seq(Keys) /\ Len(mid) = n - 1
      /\ \A j \in 1 .. n - 1 : mid[j] = IF j < i THEN order[j] ELSE order[j + 1]
  <2> HIDE DEF before, after
  <2>0. /\ mid \in Seq(Keys) /\ Len(mid) = Len(before) + Len(after)
        /\ \A j \in 1 .. Len(before) + Len(after) :
              mid[j] = IF j <= Len(before) THEN before[j] ELSE after[j - Len(before)]
      BY <1>2, <1>3, ConcatProperties
  <2> HIDE DEF mid
  <2>1. mid \in Seq(Keys) /\ Len(mid) = n - 1
      BY <1>1, <1>2, <1>3, <2>0
  <2>2. \A j \in 1 .. n - 1 : mid[j] = IF j <= i - 1 THEN before[j] ELSE after[j - (i - 1)]
    <3>1. Len(before) + Len(after) = n - 1
        BY <1>1, <1>2, <1>3
    <3> QED BY <1>2, <2>0, <3>1
  <2>3. ASSUME NEW j \in 1 .. n - 1, j < i
        PROVE  mid[j] = order[j]
    <3>1. j <= i - 1 /\ j \in 1 .. i - 1
        BY <1>1, <2>3
    <3>2. mid[j] = before[j]
        BY <2>2, <3>1
    <3> QED BY <1>2, <3>1, <3>2
  <2>4. ASSUME NEW j \in 1 .. n - 1, ~ (j < i)
        PROVE  mid[j] = order[j + 1]
    <3> DEFINE k == j - (i - 1)
    <3>1. ~ (j <= i - 1) /\ k \in 1 .. n - i /\ i + k = j + 1
        BY <1>1, <2>4
    <3>2. mid[j] = after[k]
        BY <2>2, <3>1
    <3> HIDE DEF k
    <3>3. after[k] = order[i + k]
        BY <1>3, <3>1
    <3> QED BY <3>1, <3>2, <3>3
  <2> QED BY <2>1, <2>3, <2>4
<1>5. /\ new \in Seq(Keys) /\ Len(new) = n
      /\ \A j \in 1 .. n : new[j] = IF j < i THEN order[j] ELSE IF j < n THEN order[j + 1] ELSE order[i]
  <2> HIDE DEF mid
  <2>1. order[i] \in Keys
      BY <1>1
  <2>2. new \in Seq(Keys) /\ Len(new) = n /\ new[n] = order[i] /\ \A j \in 1 .. n - 1 : new[j] = mid[j]
      BY <1>1, <1>4, <2>1
  <2> QED BY <1>1, <1>4, <2>2
<1> DEFINE From(j) == IF j < i THEN j ELSE IF j < n THEN j + 1 ELSE i
           To(j) == IF j < i THEN j ELSE IF j = i THEN n ELSE j - 1
<1>6. \A j \in 1 .. n : From(j) \in 1 .. n /\ new[j] = order[From(j)]
  <2> HIDE DEF new
  <2> QED BY <1>1, <1>5
<1>7. \A j \in 1 .. n : To(j) \in 1 .. n /\ From(To(j)) = j
    BY <1>1
<1>8. \A j, k \in 1 .. n : From(j) = From(k) => j = k
    BY <1>1
<1>9. IsLRU(new)
  <2>1. \A j, k \in 1 .. n : order[j] = order[k] => j = k
      BY DEF IsLRU
  <2> HIDE DEF new, From
  <2>2. \A j, k \in 1 .. n : new[j] = new[k] => j = k
      BY <1>6, <1>8, <2>1
  <2> QED BY <1>5, <2>2 DEF IsLRU
<1>10. Elems(new) = Elems(order)
  <2> HIDE DEF new, From, To
  <2>1. ASSUME NEW x \in Elems(new) PROVE x \in Elems(order)
      BY <1>1, <1>5, <1>6, <2>1 DEF Elems
  <2>2. ASSUME NEW x \in Elems(order) PROVE x \in Elems(new)
    <3>1. PICK j \in 1 .. n : x = order[j]
        BY <1>1, <2>2 DEF Elems
    <3>2. To(j) \in 1 .. n /\ new[To(j)] = order[j]
        BY <1>6, <1>7, <3>1
    <3> QED BY <1>5, <3>1, <3>2 DEF Elems
  <2> QED BY <2>1, <2>2
<1> QED BY <1>5, <1>9, <1>10

\* Appending a new key to a list without repetitions.
LEMMA AppendNew ==
    ASSUME NEW order, IsLRU(order), NEW k \in Keys, k \notin Elems(order)
    PROVE  /\ IsLRU(Append(order, k))
           /\ Len(Append(order, k)) = Len(order) + 1
           /\ Elems(Append(order, k)) = Elems(order) \cup {k}
<1> DEFINE new == Append(order, k)
           n == Len(order)
<1>1. order \in Seq(Keys) /\ n \in Nat /\ \A i, j \in 1 .. n : order[i] = order[j] => i = j
    BY DEF IsLRU
<1>2. new \in Seq(Keys) /\ Len(new) = n + 1 /\ new[n + 1] = k /\ \A i \in 1 .. n : new[i] = order[i]
    BY <1>1, AppendProperties
<1> HIDE DEF new
<1>3. \A i \in 1 .. n : order[i] # k
    BY DEF Elems
<1>4. \A i, j \in 1 .. n + 1 : new[i] = new[j] => i = j
    BY <1>1, <1>2, <1>3
<1>5. IsLRU(new)
    BY <1>2, <1>4 DEF IsLRU
<1>6. Elems(new) = Elems(order) \cup {k}
  <2>1. ASSUME NEW x \in Elems(new) PROVE x \in Elems(order) \cup {k}
    <3>1. PICK i \in 1 .. n + 1 : x = new[i]
        BY <1>2 DEF Elems
    <3>2. CASE i = n + 1
        BY <1>2, <3>1, <3>2
    <3>3. CASE i # n + 1
        BY <1>1, <1>2, <3>1, <3>3 DEF Elems
    <3> QED BY <3>2, <3>3
  <2>2. ASSUME NEW x \in Elems(order) PROVE x \in Elems(new)
    <3>1. PICK i \in 1 .. n : x = order[i]
        BY DEF Elems
    <3>2. i \in 1 .. Len(new) /\ new[i] = x
        BY <1>1, <1>2, <3>1
    <3> QED BY <3>2 DEF Elems
  <2>3. k \in Elems(new)
    <3>1. n + 1 \in 1 .. Len(new)
        BY <1>1, <1>2
    <3> QED BY <1>2, <3>1 DEF Elems
  <2> QED BY <2>1, <2>2, <2>3
<1> QED BY <1>2, <1>5, <1>6 DEF new

\* Dropping the oldest key.
LEMMA DropOldest ==
    ASSUME NEW order, IsLRU(order), order # << >>
    PROVE  /\ IsLRU(Tail(order))
           /\ Len(Tail(order)) = Len(order) - 1
           /\ Elems(Tail(order)) = Elems(order) \ {Head(order)}
           /\ Head(order) \in Keys
<1> DEFINE rest == Tail(order)
           n == Len(order)
<1>1. /\ order \in Seq(Keys) /\ n \in Nat /\ n > 0
      /\ \A i, j \in 1 .. n : order[i] = order[j] => i = j
    BY DEF IsLRU
<1>2. rest \in Seq(Keys) /\ Len(rest) = n - 1 /\ \A i \in 1 .. n - 1 : rest[i] = order[i + 1]
    BY <1>1
<1>3. Head(order) = order[1] /\ order[1] \in Keys
    BY <1>1
<1> HIDE DEF rest
<1>4. IsLRU(rest)
    BY <1>1, <1>2 DEF IsLRU
<1>5. Elems(rest) = Elems(order) \ {order[1]}
  <2>1. ASSUME NEW x \in Elems(rest) PROVE x \in Elems(order) \ {order[1]}
    <3>1. PICK i \in 1 .. n - 1 : x = rest[i]
        BY <1>2 DEF Elems
    <3>2. i + 1 \in 1 .. n /\ i + 1 # 1 /\ 1 \in 1 .. n /\ x = order[i + 1]
        BY <1>1, <1>2, <3>1
    <3> QED BY <1>1, <3>2 DEF Elems
  <2>2. ASSUME NEW x \in Elems(order), x # order[1] PROVE x \in Elems(rest)
    <3>1. PICK i \in 1 .. n : x = order[i]
        BY DEF Elems
    <3>2. i - 1 \in 1 .. n - 1 /\ rest[i - 1] = order[i]
        BY <1>1, <1>2, <2>2, <3>1
    <3> QED BY <1>2, <3>1, <3>2 DEF Elems
  <2> QED BY <2>1, <2>2
<1> QED BY <1>2, <1>3, <1>4, <1>5 DEF rest

-----------------------------------------------------------------------------
\* The cache as a whole

\* The part of TypeOK and CacheConsistent that is about the cache.
CacheInv ==
    /\ dedup_index \in [Keys -> Nat]
    /\ IsLRU(dedup_order)
    /\ {k \in Keys : dedup_index[k] # 0} = Elems(dedup_order)
    /\ Len(dedup_order) <= DedupSize

LEMMA CacheInvIs == TypeOK /\ CacheConsistent => CacheInv
BY DEF TypeOK, CacheConsistent, CacheInv, IsLRU, Elems

LEMMA CacheInvGives == CacheInv => CacheConsistent /\ dedup_index \in [Keys -> Nat] /\ dedup_order \in Seq(Keys)
BY DEF CacheConsistent, CacheInv, IsLRU, Elems

\* DedupFind of a cached key.
LEMMA TouchKeeps ==
    ASSUME CacheInv, NEW k \in Keys, dedup_index[k] # 0, DedupTouch(k)
    PROVE  /\ IsLRU(dedup_order')
           /\ Len(dedup_order') = Len(dedup_order)
           /\ Elems(dedup_order') = Elems(dedup_order)
<1>1. k \in Elems(dedup_order)
    BY DEF CacheInv
<1>2. DedupPlace(k) \in 1 .. Len(dedup_order) /\ dedup_order[DedupPlace(k)] = k
    BY <1>1 DEF Elems, DedupPlace
<1> HIDE DEF DedupPlace
<1> QED BY <1>2, MoveToEnd DEF DedupTouch, CacheInv

\* DedupInsert keeps the two halves of the cache in step and the cache in its limit.
LEMMA InsertKeeps ==
    ASSUME CacheInv, NEW k \in Keys, NEW n \in Nat, n > 0, DedupInsert(k, n)
    PROVE  CacheInv'
<1> USE DedupSizeAssumption
<1>0. /\ dedup_index \in [Keys -> Nat] /\ IsLRU(dedup_order)
      /\ {j \in Keys : dedup_index[j] # 0} = Elems(dedup_order)
      /\ Len(dedup_order) \in Nat /\ Len(dedup_order) <= DedupSize
    BY DEF CacheInv, IsLRU
<1>1. CASE DedupSize = 0
    BY <1>0, <1>1 DEF DedupInsert, CacheInv, IsLRU, Elems
<1>2. CASE DedupSize # 0 /\ dedup_index[k] # 0
  <2>1. DedupTouch(k) /\ dedup_index' = [dedup_index EXCEPT ![k] = n]
      BY <1>2 DEF DedupInsert
  <2>2. /\ IsLRU(dedup_order') /\ Len(dedup_order') = Len(dedup_order)
        /\ Elems(dedup_order') = Elems(dedup_order)
      BY <1>2, <2>1, TouchKeeps
  <2>3. dedup_index' \in [Keys -> Nat] /\ \A j \in Keys : dedup_index'[j] # 0 <=> dedup_index[j] # 0
      BY <1>0, <1>2, <2>1
  <2>4. {j \in Keys : dedup_index'[j] # 0} = Elems(dedup_order')
      BY <1>0, <2>2, <2>3
  <2> QED BY <1>0, <2>2, <2>3, <2>4 DEF CacheInv, IsLRU, Elems
<1>3. CASE DedupSize # 0 /\ dedup_index[k] = 0 /\ Len(dedup_order) < DedupSize
  <2>1. dedup_order' = Append(dedup_order, k) /\ dedup_index' = [dedup_index EXCEPT ![k] = n]
      BY <1>3 DEF DedupInsert
  <2>2. k \notin Elems(dedup_order)
      BY <1>0, <1>3
  <2>3. /\ IsLRU(dedup_order') /\ Len(dedup_order') = Len(dedup_order) + 1
        /\ Elems(dedup_order') = Elems(dedup_order) \cup {k}
      BY <1>0, <2>1, <2>2, AppendNew
  <2>4. /\ dedup_index' \in [Keys -> Nat]
        /\ \A j \in Keys : dedup_index'[j] # 0 <=> j = k \/ dedup_index[j] # 0
      BY <1>0, <2>1
  <2>5. {j \in Keys : dedup_index'[j] # 0} = Elems(dedup_order')
      BY <1>0, <2>3, <2>4
  <2>6. Len(dedup_order') <= DedupSize
      BY <1>0, <1>3, <2>3
  <2> QED BY <2>3, <2>4, <2>5, <2>6 DEF CacheInv, IsLRU, Elems
<1>4. CASE DedupSize # 0 /\ dedup_index[k] = 0 /\ ~ (Len(dedup_order) < DedupSize)
  <2> DEFINE old == Head(dedup_order)
             rest == Tail(dedup_order)
  <2>1. dedup_order' = Append(rest, k) /\ dedup_index' = [dedup_index EXCEPT ![old] = 0, ![k] = n]
      BY <1>4 DEF DedupInsert
  <2>2. k \notin Elems(dedup_order)
      BY <1>0, <1>4
  <2>3. Len(dedup_order) = DedupSize /\ dedup_order # << >>
      BY <1>0, <1>4
  <2>4. /\ IsLRU(rest) /\ Len(rest) = Len(dedup_order) - 1
        /\ Elems(rest) = Elems(dedup_order) \ {old} /\ old \in Keys
      BY <1>0, <2>3, DropOldest
  <2> HIDE DEF old, rest
  <2>5. /\ IsLRU(dedup_order') /\ Len(dedup_order') = Len(rest) + 1
        /\ Elems(dedup_order') = Elems(rest) \cup {k}
      BY <2>1, <2>2, <2>4, AppendNew
  <2>6. /\ dedup_index' \in [Keys -> Nat]
        /\ \A j \in Keys : dedup_index'[j] # 0 <=> j = k \/ (j # old /\ dedup_index[j] # 0)
      BY <1>0, <2>1, <2>4
  <2>7. {j \in Keys : dedup_index'[j] # 0} = Elems(dedup_order')
      BY <1>0, <2>4, <2>5, <2>6
  <2>8. Len(dedup_order') <= DedupSize
      BY <1>0, <2>3, <2>4, <2>5
  <2> QED BY <2>5, <2>6, <2>7, <2>8 DEF CacheInv, IsLRU, Elems
<1> QED BY <1>1, <1>2, <1>3, <1>4

-----------------------------------------------------------------------------
\* Every step is one of these

\* A step of worker w, by the variables it can disturb: a handler begins ...
BeginStep(w) ==
    \E u \in Users, c \in Convs, k \in Keys \cup {NoKey}, n \in Nat :
        \E where \in {"dedup", "find", "clamp", "deliver", "hide"} : Begin(w, u, c, k, n, where)

\* ... or goes on.
HandlerStep(w) ==
    \/ SendCached(w) \/ SendBusy(w) \/ SendMark(w)
    \/ SendRefused(w) \/ SendGenerateSeq(w)
    \/ SendInsert(w) \/ SendInsertFailed(w)
    \/ SendCache(w) \/ SendUnhide(w) \/ SendPush(w)
    \/ RecallRefused(w) \/ RecallFound(w) \/ RecallUpdate(w)
    \/ ReadRefused(w) \/ ReadClamp(w) \/ ReadUpdate(w)
    \/ DeliverUpdate(w) \/ HideUpdate(w)

LEMMA StepCases ==
    ASSUME TypeOK, Next
    PROVE  \/ \E w \in Workers : BeginStep(w) \/ HandlerStep(w)
           \/ \E k \in Keys : InflightExpires(k)
           \/ Restart
<1>1. ASSUME NEW w \in Workers, Arrival(w) PROVE BeginStep(w)
  <2>1. ASSUME NEW r \in SendRequests, SendBegin(w, r) PROVE BeginStep(w)
    <3>1. r.user \in Users /\ r.conv \in Convs /\ r.key \in Keys \cup {NoKey} /\ 0 \in Nat
        BY SendRequestsAssumption
    <3> QED BY <2>1, <3>1 DEF SendBegin, BeginStep
  <2>2. ASSUME NEW m \in messages, NEW u \in Users, RecallBegin(w, u, m.conv, m.seq) PROVE BeginStep(w)
    <3>1. m.conv \in Convs /\ m.seq \in Nat
        BY DEF TypeOK
    <3> QED BY <2>2, <3>1 DEF RecallBegin, BeginStep
  <2>3. ASSUME NEW u \in Users, NEW c \in Convs, HideBegin(w, u, c) PROVE BeginStep(w)
    <3>1. 0 \in Nat
        OBVIOUS
    <3> QED BY <2>3, <3>1 DEF HideBegin, BeginStep
  <2>4. ASSUME NEW u \in Users, NEW c \in Convs, NEW n \in ReadSeqs,
               ReadBegin(w, u, c, n) \/ DeliverBegin(w, u, c, n)
        PROVE  BeginStep(w)
    <3>1. n \in Nat
        BY ReadSeqsAssumption
    <3> QED BY <2>4, <3>1 DEF ReadBegin, DeliverBegin, BeginStep
  <2> QED BY <1>1, <2>1, <2>2, <2>3, <2>4 DEF Arrival
<1> QED BY <1>1 DEF Next, HandlerStep, HandleSendMsg, HandleRecallMsg, HandleReadAck

-----------------------------------------------------------------------------
\* The cache part

LEMMA CacheUnchanged ==
    ASSUME CacheInv, UNCHANGED <<dedup_index, dedup_order>>
    PROVE  CacheInv'
BY DEF CacheInv, IsLRU, Elems

LEMMA CacheStep ==
    ASSUME IndInv, [Next]_vars
    PROVE  CacheInv'
<1>0. CacheInv /\ TypeOK /\ PositiveDraws
    BY CacheInvIs DEF IndInv
<1>1. CASE UNCHANGED vars
    BY <1>0, <1>1, CacheUnchanged DEF vars, cacheVars
<1>2. ASSUME NEW w \in Workers, BeginStep(w) PROVE CacheInv'
    BY <1>0, <1>2, CacheUnchanged DEF BeginStep, Begin, cacheVars
<1>3. ASSUME NEW w \in Workers, SendCached(w) PROVE CacheInv'
  <2>1. job[w].key \in Keys
      BY <1>0, <1>3 DEF SendCached, Return, TypeOK, Jobs
  <2>2. dedup_index[job[w].key] # 0 /\ DedupTouch(job[w].key) /\ UNCHANGED dedup_index
      BY <1>3 DEF SendCached
  <2>3. /\ IsLRU(dedup_order') /\ Len(dedup_order') = Len(dedup_order)
        /\ Elems(dedup_order') = Elems(dedup_order)
      BY <1>0, <2>1, <2>2, TouchKeeps
  <2> QED BY <1>0, <2>2, <2>3 DEF CacheInv, IsLRU, Elems
<1>4. ASSUME NEW w \in Workers, SendCache(w) PROVE CacheInv'
  <2>1. CASE job[w].key = NoKey
      BY <1>0, <1>4, <2>1, CacheUnchanged DEF SendCache
  <2>2. CASE job[w].key # NoKey
    <3>1. job[w].key \in Keys /\ got[w] \in Nat /\ got[w] > 0
        BY <1>0, <1>4, <2>2 DEF SendCache, Goto, TypeOK, Jobs, PositiveDraws
    <3>2. DedupInsert(job[w].key, got[w])
        BY <1>4, <2>2 DEF SendCache
    <3> QED BY <1>0, <3>1, <3>2, InsertKeeps
  <2> QED BY <2>1, <2>2
<1>5. ASSUME NEW w \in Workers, HandlerStep(w), ~ SendCached(w), ~ SendCache(w) PROVE CacheInv'
  <2>1. UNCHANGED <<dedup_index, dedup_order>>
      BY <1>5 DEF HandlerStep, cacheVars, SendBusy, SendMark, SendRefused, SendGenerateSeq, SendInsert, SendInsertFailed, SendUnhide, SendPush, RecallRefused, RecallFound, RecallUpdate, ReadRefused, ReadClamp, ReadUpdate, DeliverUpdate, HideUpdate
  <2> QED BY <1>0, <2>1, CacheUnchanged
<1>6. ASSUME NEW k \in Keys, InflightExpires(k) PROVE CacheInv'
    BY <1>0, <1>6, CacheUnchanged DEF InflightExpires
<1>7. CASE Restart
  <2>1. dedup_order' = << >> /\ dedup_index' = [k \in Keys |-> 0]
      BY <1>7 DEF Restart
  <2>2. dedup_order' \in Seq(Keys) /\ Len(dedup_order') = 0
      BY <2>1
  <2> QED BY <2>1, <2>2, DedupSizeAssumption DEF CacheInv, IsLRU, Elems
<1> QED BY <1>0, <1>1, <1>2, <1>3, <1>4, <1>5, <1>6, <1>7, StepCases

-----------------------------------------------------------------------------
\* Types

\* Updating one entry of a table of tables.
LEMMA UpdateEntry ==
    ASSUME NEW A, NEW B, NEW S, NEW f \in [A -> [B -> S]], NEW a \in A, NEW b \in B, NEW v \in S
    PROVE  [f EXCEPT ![a][b] = v] \in [A -> [B -> S]]
<1>1. [f[a] EXCEPT ![b] = v] \in [B -> S]
    OBVIOUS
<1> QED BY <1>1

LEMMA TypeStep ==
    ASSUME IndInv, [Next]_vars
    PROVE  TypeOK'
<1>0. TypeOK
    BY DEF IndInv
<1>b. exclusive' \in BOOLEAN
    BY <1>0 DEF TypeOK, Next, vars
<1>c. /\ exclusive' \in BOOLEAN
      /\ dedup_index' \in [Keys -> Nat] /\ dedup_order' \in Seq(Keys)
    BY <1>b, CacheStep, CacheInvGives DEF CacheInv, IsLRU
<1>1. CASE UNCHANGED vars
    BY <1>0, <1>1 DEF TypeOK, Jobs, vars, dbVars, cacheVars, workerVars, historyVars
<1>2. ASSUME NEW w \in Workers, BeginStep(w) PROVE TypeOK'
  <2>1. PICK u \in Users, c \in Convs, k \in Keys \cup {NoKey}, n \in Nat,
             where \in {"dedup", "find", "clamp", "deliver", "hide"} : Begin(w, u, c, k, n, where)
      BY <1>2 DEF BeginStep
  <2> QED BY <1>0, <1>c, <2>1 DEF Begin, TypeOK, Jobs, dbVars, cacheVars, historyVars
<1>3. ASSUME NEW w \in Workers, SendCached(w) PROVE TypeOK'
  <2>1. job[w] \in Jobs /\ job[w].key # NoKey
      BY <1>0, <1>3 DEF SendCached, Return, TypeOK
  <2>2. dedup_index[job[w].key] \in Nat
      BY <1>0, <2>1 DEF TypeOK, Jobs
  <2>3. acks' \subseteq [user : Users, conv : Convs, key : Keys \cup {NoKey}, seq : Nat]
      BY <1>0, <1>3, <2>1, <2>2 DEF SendCached, Ack, TypeOK, Jobs
  <2>4. Return(w, "dedup") /\ UNCHANGED <<dbVars, in_flight>>
      BY <1>3 DEF SendCached
  <2> QED BY <1>0, <1>c, <2>3, <2>4 DEF Return, TypeOK, dbVars
<1>4. ASSUME NEW w \in Workers, SendBusy(w) PROVE TypeOK'
    BY <1>0, <1>c, <1>4 DEF SendBusy, Return, TypeOK, Jobs, dbVars, cacheVars, historyVars
<1>5. ASSUME NEW w \in Workers, SendMark(w) PROVE TypeOK'
    BY <1>0, <1>c, <1>5 DEF SendMark, Goto, TypeOK, Jobs, dbVars, cacheVars, historyVars
<1>6. ASSUME NEW w \in Workers, SendRefused(w) PROVE TypeOK'
    BY <1>0, <1>c, <1>6 DEF SendRefused, Return, EraseInflight, TypeOK, Jobs, dbVars, cacheVars, historyVars
<1>7. ASSUME NEW w \in Workers, SendGenerateSeq(w) PROVE TypeOK'
    BY <1>0, <1>c, <1>7 DEF SendGenerateSeq, Goto, TypeOK, Jobs, dbVars, cacheVars, historyVars
<1>8. ASSUME NEW w \in Workers, SendInsert(w) PROVE TypeOK'
  <2>1. job[w] \in Jobs /\ got[w] \in Nat
      BY <1>0, <1>8 DEF SendInsert, Goto, TypeOK
  <2>2. messages' \subseteq [conv : Convs, seq : Nat, user : Users, key : Keys \cup {NoKey}]
      BY <1>0, <1>8, <2>1 DEF SendInsert, TypeOK, Jobs
  <2>3. messages \subseteq messages'
      BY <1>8 DEF SendInsert
  <2> QED BY <1>0, <1>c, <1>8, <2>2, <2>3 DEF SendInsert, Goto, TypeOK, cacheVars, historyVars
<1>9. ASSUME NEW w \in Workers, SendInsertFailed(w) PROVE TypeOK'
    BY <1>0, <1>c, <1>9 DEF SendInsertFailed, Return, EraseInflight, TypeOK, Jobs, dbVars, cacheVars, historyVars
<1>10. ASSUME NEW w \in Workers, SendCache(w) PROVE TypeOK'
  <2>1. job[w] \in Jobs /\ got[w] \in Nat
      BY <1>0, <1>10 DEF SendCache, Goto, TypeOK
  <2>2. in_flight' \in [Keys -> {"none", "fresh", "stale"}]
      BY <1>0, <1>10, <2>1 DEF SendCache, EraseInflight, TypeOK, Jobs
  <2>3. acks' \subseteq [user : Users, conv : Convs, key : Keys \cup {NoKey}, seq : Nat]
      BY <1>0, <1>10, <2>1 DEF SendCache, Ack, TypeOK, Jobs
  <2>4. at[w] = "cache" /\ at' = [at EXCEPT ![w] = "unhide"] /\ UNCHANGED <<session, job, got, dbVars>>
      BY <1>10 DEF SendCache, Goto
  <2> QED BY <1>0, <1>c, <2>2, <2>3, <2>4 DEF TypeOK, dbVars
<1>11. ASSUME NEW w \in Workers, SendUnhide(w) PROVE TypeOK'
  <2>1. job[w].conv \in Convs /\ job[w] \in Jobs
      BY <1>0, <1>11 DEF SendUnhide, Goto, TypeOK, Jobs
  <2>2. PICK failed \in SUBSET Members[job[w].conv] :
           hidden' = [hidden EXCEPT ![job[w].conv] =
              [u \in Users |-> IF u \in Members[job[w].conv] \ failed THEN Visible
                               ELSE hidden[job[w].conv][u]]]
      BY <1>11 DEF SendUnhide
  <2>3. hidden' \in [Convs -> [Users -> Nat \cup {Visible}]]
      BY <1>0, <2>1, <2>2 DEF TypeOK
  <2> QED BY <1>0, <1>c, <1>11, <2>3 DEF SendUnhide, Goto, TypeOK, cacheVars, historyVars
<1>12. ASSUME NEW w \in Workers, SendPush(w) PROVE TypeOK'
    BY <1>0, <1>c, <1>12 DEF SendPush, Return, TypeOK, Jobs, dbVars, cacheVars, historyVars
<1>13. ASSUME NEW w \in Workers, RecallRefused(w) PROVE TypeOK'
    BY <1>0, <1>c, <1>13 DEF RecallRefused, Return, TypeOK, Jobs, dbVars, cacheVars, historyVars
<1>14. ASSUME NEW w \in Workers, RecallFound(w) PROVE TypeOK'
    BY <1>0, <1>c, <1>14 DEF RecallFound, Goto, TypeOK, Jobs, dbVars, cacheVars, historyVars
<1>15. ASSUME NEW w \in Workers, RecallUpdate(w) PROVE TypeOK'
    BY <1>0, <1>c, <1>15 DEF RecallUpdate, Return, Target, TypeOK, Jobs, dbVars, cacheVars, historyVars
<1>16. ASSUME NEW w \in Workers, ReadRefused(w) PROVE TypeOK'
    BY <1>0, <1>c, <1>16 DEF ReadRefused, Return, TypeOK, Jobs, dbVars, cacheVars, historyVars
<1>17. ASSUME NEW w \in Workers, ReadClamp(w) PROVE TypeOK'
    BY <1>0, <1>c, <1>17 DEF ReadClamp, Goto, TypeOK, Jobs, dbVars, cacheVars, historyVars
<1>18. ASSUME NEW w \in Workers, ReadUpdate(w) PROVE TypeOK'
  <2>1. job[w] \in Jobs /\ got[w] \in Nat
      BY <1>0, <1>18 DEF ReadUpdate, Return, TypeOK
  <2>2. job[w].conv \in Convs /\ job[w].user \in Users /\ max_seq[job[w].conv] \in Nat
      BY <1>0, <2>1 DEF Jobs, TypeOK
  <2>3. last_read' \in [Convs -> [Users -> Nat]]
    <3> DEFINE v == IF last_read[job[w].conv][job[w].user] < got[w] THEN got[w] ELSE last_read[job[w].conv][job[w].user]
    <3>1. v \in Nat /\ last_read \in [Convs -> [Users -> Nat]]
        BY <1>0, <2>1, <2>2 DEF TypeOK
    <3>2. [last_read EXCEPT ![job[w].conv][job[w].user] = v] \in [Convs -> [Users -> Nat]]
      <4> HIDE DEF v
      <4> QED BY <2>2, <3>1, UpdateEntry
    <3>3. last_read' = last_read \/ last_read' = [last_read EXCEPT ![job[w].conv][job[w].user] = v]
        BY <1>18 DEF ReadUpdate
    <3> HIDE DEF v
    <3> QED BY <3>1, <3>2, <3>3
  <2> QED BY <1>0, <1>c, <1>18, <2>3 DEF ReadUpdate, Return, TypeOK, dbVars, cacheVars, historyVars
<1>19. ASSUME NEW w \in Workers, DeliverUpdate(w) PROVE TypeOK'
  <2>1. job[w] \in Jobs /\ got[w] \in Nat
      BY <1>0, <1>19 DEF DeliverUpdate, Return, TypeOK
  <2>2. job[w].conv \in Convs /\ job[w].user \in Users /\ max_seq[job[w].conv] \in Nat
      BY <1>0, <2>1 DEF Jobs, TypeOK
  <2>3. last_ack' \in [Convs -> [Users -> Nat]]
    <3> DEFINE v == IF last_ack[job[w].conv][job[w].user] < got[w] THEN got[w] ELSE last_ack[job[w].conv][job[w].user]
    <3>1. v \in Nat /\ last_ack \in [Convs -> [Users -> Nat]]
        BY <1>0, <2>1, <2>2 DEF TypeOK
    <3>2. [last_ack EXCEPT ![job[w].conv][job[w].user] = v] \in [Convs -> [Users -> Nat]]
      <4> HIDE DEF v
      <4> QED BY <2>2, <3>1, UpdateEntry
    <3>3. last_ack' = last_ack \/ last_ack' = [last_ack EXCEPT ![job[w].conv][job[w].user] = v]
        BY <1>19 DEF DeliverUpdate
    <3> HIDE DEF v
    <3> QED BY <3>1, <3>2, <3>3
  <2> QED BY <1>0, <1>c, <1>19, <2>3 DEF DeliverUpdate, Return, TypeOK, dbVars, cacheVars, historyVars
<1>20. ASSUME NEW w \in Workers, HideUpdate(w) PROVE TypeOK'
  <2>1. job[w] \in Jobs /\ got[w] \in Nat
      BY <1>0, <1>20 DEF HideUpdate, Return, TypeOK
  <2>2. job[w].conv \in Convs /\ job[w].user \in Users /\ max_seq[job[w].conv] \in Nat
      BY <1>0, <2>1 DEF Jobs, TypeOK
  <2>3. hidden' \in [Convs -> [Users -> Nat \cup {Visible}]]
    <3> DEFINE v == max_seq[job[w].conv]
    <3>1. v \in Nat \cup {Visible} /\ hidden \in [Convs -> [Users -> Nat \cup {Visible}]]
        BY <1>0, <2>1, <2>2 DEF TypeOK
    <3>2. [hidden EXCEPT ![job[w].conv][job[w].user] = v] \in [Convs -> [Users -> Nat \cup {Visible}]]
      <4> HIDE DEF v
      <4> QED BY <2>2, <3>1, UpdateEntry
    <3>3. hidden' = hidden \/ hidden' = [hidden EXCEPT ![job[w].conv][job[w].user] = v]
        BY <1>20 DEF HideUpdate
    <3> HIDE DEF v
    <3> QED BY <3>1, <3>2, <3>3
  <2> QED BY <1>0, <1>c, <1>20, <2>3 DEF HideUpdate, Return, TypeOK, dbVars, cacheVars, historyVars
<1>21. ASSUME NEW k \in Keys, InflightExpires(k) PROVE TypeOK'
    BY <1>0, <1>b, <1>21 DEF InflightExpires, TypeOK, Jobs, dbVars, workerVars, historyVars
<1>22. CASE Restart
    BY <1>0, <1>c, <1>22 DEF Restart, TypeOK, Jobs, dbVars, historyVars
<1> QED BY <1>0, <1>1, <1>2, <1>3, <1>4, <1>5, <1>6, <1>7, <1>8, <1>9, <1>10, <1>11, <1>12, <1>13, <1>14, <1>15, <1>16, <1>17, <1>18, <1>19, <1>20, <1>21, <1>22, StepCases DEF HandlerStep

-----------------------------------------------------------------------------
\* Sequence numbers

\* Nobody draws a number, and nothing is stored.
LEMMA SeqQuiet ==
    ASSUME SeqInv, UNCHANGED <<max_seq, messages>>,
           \A v \in Workers : at'[v] = "insert" =>
               at[v] = "insert" /\ job'[v] = job[v] /\ got'[v] = got[v]
    PROVE  SeqInv'
BY DEF SeqInv, SeqUnique, DrawnIsFree

\* What the handler steps other than the three that matter do to the workers.
LEMMA OtherSteps ==
    ASSUME TypeOK, NEW w \in Workers, HandlerStep(w),
           ~ SendGenerateSeq(w), ~ SendInsert(w)
    PROVE  /\ UNCHANGED <<max_seq, messages>>
           /\ \A v \in Workers : at'[v] \in {"insert", "cache"} =>
                  at'[v] = at[v] /\ job'[v] = job[v] /\ got'[v] = got[v]
<1>1. at = [v \in Workers |-> at[v]] /\ job \in [Workers -> Jobs \cup {NoRequest}] /\ got \in [Workers -> Nat]
    BY DEF TypeOK
<1>2. CASE SendCached(w)
    BY <1>1, <1>2 DEF SendCached, Return, dbVars
<1>3. CASE SendBusy(w)
    BY <1>1, <1>3 DEF SendBusy, Return, dbVars
<1>4. CASE SendMark(w)
    BY <1>1, <1>4 DEF SendMark, Goto, dbVars
<1>5. CASE SendRefused(w)
    BY <1>1, <1>5 DEF SendRefused, Return, dbVars
<1>6. CASE SendInsertFailed(w)
    BY <1>1, <1>6 DEF SendInsertFailed, Return, dbVars
<1>7. CASE SendCache(w)
    BY <1>1, <1>7 DEF SendCache, Goto, dbVars
<1>8. CASE SendUnhide(w)
    BY <1>1, <1>8 DEF SendUnhide, Goto, dbVars
<1>9. CASE SendPush(w)
    BY <1>1, <1>9 DEF SendPush, Return, dbVars
<1>10. CASE RecallRefused(w)
    BY <1>1, <1>10 DEF RecallRefused, Return, dbVars
<1>11. CASE RecallFound(w)
    BY <1>1, <1>11 DEF RecallFound, Goto, dbVars
<1>12. CASE RecallUpdate(w)
    BY <1>1, <1>12 DEF RecallUpdate, Return, dbVars
<1>13. CASE ReadRefused(w)
    BY <1>1, <1>13 DEF ReadRefused, Return, dbVars
<1>14. CASE ReadClamp(w)
    BY <1>1, <1>14 DEF ReadClamp, Goto, dbVars
<1>15. CASE ReadUpdate(w)
    BY <1>1, <1>15 DEF ReadUpdate, Return, dbVars
<1>16. CASE DeliverUpdate(w)
    BY <1>1, <1>16 DEF DeliverUpdate, Return, dbVars
<1>17. CASE HideUpdate(w)
    BY <1>1, <1>17 DEF HideUpdate, Return, dbVars
<1> QED BY <1>2, <1>3, <1>4, <1>5, <1>6, <1>7, <1>8, <1>9, <1>10, <1>11, <1>12, <1>13, <1>14, <1>15, <1>16, <1>17 DEF HandlerStep

LEMMA SeqStep ==
    ASSUME IndInv, [Next]_vars
    PROVE  SeqInv'
<1>0. TypeOK /\ SeqInv
    BY DEF IndInv
<1>1. CASE UNCHANGED vars
    BY <1>0, <1>1, SeqQuiet DEF vars, dbVars, workerVars
<1>2. ASSUME NEW w \in Workers, BeginStep(w) PROVE SeqInv'
  <2>1. PICK u \in Users, c \in Convs, k \in Keys \cup {NoKey}, n \in Nat,
             where \in {"dedup", "find", "clamp", "deliver", "hide"} : Begin(w, u, c, k, n, where)
      BY <1>2 DEF BeginStep
  <2>2. UNCHANGED <<max_seq, messages>>
      BY <2>1 DEF Begin, dbVars
  <2>3. \A v \in Workers : at'[v] = "insert" => at[v] = "insert" /\ job'[v] = job[v] /\ got'[v] = got[v]
      BY <1>0, <2>1 DEF Begin, TypeOK
  <2> QED BY <1>0, <2>2, <2>3, SeqQuiet
<1>3. ASSUME NEW w \in Workers, SendGenerateSeq(w) PROVE SeqInv'
  <2> DEFINE c == job[w].conv
             n == max_seq[c] + 1
  <2>1. c \in Convs /\ max_seq[c] \in Nat
      BY <1>0, <1>3 DEF SendGenerateSeq, Goto, TypeOK, Jobs
  <2>2. /\ messages' = messages /\ job' = job
        /\ max_seq' = [max_seq EXCEPT ![c] = n]
        /\ got' = [got EXCEPT ![w] = n]
        /\ at' = [at EXCEPT ![w] = "insert"]
      BY <1>3 DEF SendGenerateSeq, Goto
  <2>3. \A d \in Convs : max_seq[d] \in Nat /\ max_seq'[d] \in Nat /\ max_seq[d] <= max_seq'[d]
      BY <1>0, <2>1, <2>2 DEF TypeOK
  <2>4. \A m \in messages : m.conv \in Convs /\ m.seq \in Nat /\ m.seq <= max_seq[m.conv]
      BY <1>0 DEF TypeOK, SeqInv, SeqUnique
  <2>5. SeqUnique'
      BY <1>0, <2>2, <2>3, <2>4 DEF SeqInv, SeqUnique
  <2>6. \A v \in Workers : at[v] = "insert" => job[v].conv \in Convs /\ got[v] \in Nat
      BY <1>0 DEF TypeOK, Jobs
  <2>7. got'[w] = n /\ at'[w] = "insert" /\ max_seq'[c] = n /\ n > max_seq[c] /\ n \in Nat
      BY <1>0, <2>1, <2>2 DEF TypeOK
  <2>8. \A v \in Workers : v # w => at'[v] = at[v] /\ got'[v] = got[v]
      BY <1>0, <2>2 DEF TypeOK
  <2>9. ASSUME NEW v \in Workers, at'[v] = "insert", v # w
        PROVE  /\ got'[v] <= max_seq'[job'[v].conv]
               /\ \A m \in messages' : m.conv = job'[v].conv => m.seq # got'[v]
               /\ job[v].conv = c => got'[v] < n
    <3>1. at[v] = "insert" /\ got'[v] = got[v] /\ job'[v] = job[v] /\ job[v].conv \in Convs /\ got[v] \in Nat
        BY <2>2, <2>6, <2>8, <2>9
    <3>2. /\ got[v] <= max_seq[job[v].conv]
          /\ \A m \in messages : m.conv = job[v].conv => m.seq # got[v]
        BY <1>0, <3>1 DEF SeqInv, DrawnIsFree
    <3> QED BY <2>1, <2>2, <2>3, <3>1, <3>2
  <2>10. \A m \in messages' : m.conv = c => m.seq # n
      BY <2>1, <2>2, <2>4
  <2>11. ASSUME NEW v \in Workers, NEW x \in Workers, at'[v] = "insert", at'[x] = "insert",
                job'[v].conv = job'[x].conv, got'[v] = got'[x]
         PROVE  v = x
    <3>1. CASE v = w /\ x # w
        BY <2>2, <2>6, <2>7, <2>8, <2>9, <2>11, <3>1
    <3>2. CASE v # w /\ x = w
        BY <2>2, <2>6, <2>7, <2>8, <2>9, <2>11, <3>2
    <3>3. CASE v # w /\ x # w
        BY <1>0, <2>2, <2>8, <2>11, <3>3 DEF SeqInv, DrawnIsFree
    <3> QED BY <3>1, <3>2, <3>3
  <2> HIDE DEF c, n
  <2>12. got'[w] <= max_seq'[job'[w].conv] /\ \A m \in messages' : m.conv = job'[w].conv => m.seq # got'[w]
      BY <2>2, <2>7, <2>10 DEF c
  <2>13. DrawnIsFree'
      BY <2>9, <2>11, <2>12 DEF DrawnIsFree
  <2> QED BY <2>5, <2>13 DEF SeqInv
<1>4. ASSUME NEW w \in Workers, SendInsert(w) PROVE SeqInv'
  <2> DEFINE new == [conv |-> job[w].conv, seq |-> got[w], user |-> job[w].user, key |-> job[w].key]
  <2>1. /\ at[w] = "insert" /\ at' = [at EXCEPT ![w] = "cache"]
        /\ UNCHANGED <<job, got, max_seq>> /\ messages' = messages \cup {new}
      BY <1>4 DEF SendInsert, Goto
  <2>2. /\ got[w] <= max_seq[job[w].conv]
        /\ \A m \in messages : m.conv = job[w].conv => m.seq # got[w]
      BY <1>0, <2>1 DEF SeqInv, DrawnIsFree
  <2>3. new.conv = job[w].conv /\ new.seq = got[w]
      OBVIOUS
  <2>4. \A v \in Workers : at'[v] = "insert" => v # w /\ at[v] = "insert"
      BY <1>0, <2>1 DEF TypeOK
  <2> HIDE DEF new
  <2>5. SeqUnique'
      BY <1>0, <2>1, <2>2, <2>3 DEF SeqInv, SeqUnique
  <2>6. \A v \in Workers : at'[v] = "insert" /\ job[v].conv = new.conv => got[v] # new.seq
      BY <1>0, <2>1, <2>3, <2>4 DEF SeqInv, DrawnIsFree
  <2>7. DrawnIsFree'
      BY <1>0, <2>1, <2>4, <2>6 DEF SeqInv, DrawnIsFree
  <2> QED BY <2>5, <2>7 DEF SeqInv
<1>5. ASSUME NEW w \in Workers, HandlerStep(w), ~ SendGenerateSeq(w), ~ SendInsert(w) PROVE SeqInv'
    BY <1>0, <1>5, OtherSteps, SeqQuiet
<1>6. ASSUME NEW k \in Keys, InflightExpires(k) PROVE SeqInv'
    BY <1>0, <1>6, SeqQuiet DEF InflightExpires, dbVars, workerVars
<1>7. CASE Restart
    BY <1>0, <1>7, SeqQuiet DEF Restart, dbVars
<1> QED BY <1>0, <1>1, <1>2, <1>3, <1>4, <1>5, <1>6, <1>7, StepCases

LEMMA PositiveStep ==
    ASSUME IndInv, [Next]_vars
    PROVE  PositiveDraws'
<1>0. TypeOK /\ PositiveDraws
    BY DEF IndInv
<1>1. CASE UNCHANGED vars
    BY <1>0, <1>1 DEF vars, workerVars, PositiveDraws
<1>2. ASSUME NEW w \in Workers, BeginStep(w) PROVE PositiveDraws'
    BY <1>0, <1>2 DEF BeginStep, Begin, TypeOK, PositiveDraws
<1>3. ASSUME NEW w \in Workers, SendGenerateSeq(w) PROVE PositiveDraws'
  <2>1. max_seq[job[w].conv] + 1 > 0
      BY <1>0, <1>3 DEF SendGenerateSeq, Goto, TypeOK, Jobs
  <2> QED BY <1>0, <1>3, <2>1 DEF SendGenerateSeq, Goto, TypeOK, PositiveDraws
<1>4. ASSUME NEW w \in Workers, SendInsert(w) PROVE PositiveDraws'
    BY <1>0, <1>4 DEF SendInsert, Goto, TypeOK, PositiveDraws
<1>5. ASSUME NEW w \in Workers, HandlerStep(w), ~ SendGenerateSeq(w), ~ SendInsert(w) PROVE PositiveDraws'
    BY <1>0, <1>5, OtherSteps DEF PositiveDraws
<1>6. ASSUME NEW k \in Keys, InflightExpires(k) PROVE PositiveDraws'
    BY <1>0, <1>6 DEF InflightExpires, workerVars, PositiveDraws
<1>7. CASE Restart
    BY <1>0, <1>7 DEF Restart, PositiveDraws
<1> QED BY <1>0, <1>1, <1>2, <1>3, <1>4, <1>5, <1>6, <1>7, StepCases

-----------------------------------------------------------------------------
\* In-flight marks

Marked == {"seq", "insert", "cache"}

\* A step that adds no mark and takes no handler out of the part that holds one.
LEMMA InflightQuiet ==
    ASSUME NoInflightLeak, UNCHANGED in_flight,
           \A v \in Workers : at[v] \in Marked => at'[v] \in Marked /\ job'[v] = job[v]
    PROVE  NoInflightLeak'
BY DEF NoInflightLeak, Marked

\* A handler that leaves that part has erased its mark.
LEMMA InflightErased ==
    ASSUME NoInflightLeak, TypeOK, NEW w \in Workers, at[w] \in Marked,
           EraseInflight(job[w].key),
           \A v \in Workers : v # w /\ at[v] \in Marked => at'[v] \in Marked /\ job'[v] = job[v]
    PROVE  NoInflightLeak'
<1>1. job[w].key \in Keys \cup {NoKey}
    BY DEF TypeOK, Jobs, Marked
<1>2. ASSUME NEW k \in Keys, in_flight'[k] # "none"
      PROVE  \E v \in Workers : at'[v] \in Marked /\ job'[v].key = k
  <2>1. k # job[w].key /\ in_flight[k] # "none"
      BY <1>1, <1>2, KeysAssumption DEF EraseInflight, TypeOK
  <2>2. PICK v \in Workers : at[v] \in Marked /\ job[v].key = k
      BY <2>1 DEF NoInflightLeak, Marked
  <2> QED BY <2>1, <2>2
<1> QED BY <1>2 DEF NoInflightLeak, Marked

LEMMA InflightStep ==
    ASSUME IndInv, [Next]_vars
    PROVE  NoInflightLeak'
<1>0. /\ TypeOK /\ NoInflightLeak
      /\ at = [v \in Workers |-> at[v]] /\ job = [v \in Workers |-> job[v]]
    BY DEF IndInv, TypeOK
<1>1. CASE UNCHANGED vars
    BY <1>0, <1>1, InflightQuiet DEF vars, cacheVars, workerVars
<1>2. ASSUME NEW w \in Workers, BeginStep(w) PROVE NoInflightLeak'
    BY <1>0, <1>2, InflightQuiet DEF BeginStep, Begin, cacheVars, Marked
<1>3. ASSUME NEW w \in Workers, SendMark(w) PROVE NoInflightLeak'
  <2>1. /\ at[w] = "dedup" /\ at' = [at EXCEPT ![w] = "seq"] /\ job' = job
        /\ in_flight' = in_flight \/ in_flight' = [in_flight EXCEPT ![job[w].key] = "fresh"]
      BY <1>3 DEF SendMark, Goto
  <2>2. ASSUME NEW k \in Keys, in_flight'[k] # "none"
        PROVE  \E v \in Workers : at'[v] \in Marked /\ job'[v].key = k
    <3>1. CASE k = job[w].key
        BY <1>0, <2>1, <3>1 DEF Marked
    <3>2. CASE k # job[w].key
      <4>1. in_flight[k] # "none"
          BY <1>0, <2>1, <2>2, <3>2 DEF TypeOK
      <4>2. PICK v \in Workers : at[v] \in Marked /\ job[v].key = k
          BY <1>0, <4>1 DEF NoInflightLeak, Marked
      <4> QED BY <1>0, <2>1, <4>2 DEF Marked
    <3> QED BY <3>1, <3>2
  <2> QED BY <2>2 DEF NoInflightLeak, Marked
<1>4. ASSUME NEW w \in Workers, SendRefused(w) PROVE NoInflightLeak'
    BY <1>0, <1>4, InflightErased DEF SendRefused, Return, Marked
<1>5. ASSUME NEW w \in Workers, SendInsertFailed(w) PROVE NoInflightLeak'
    BY <1>0, <1>5, InflightErased DEF SendInsertFailed, Return, Marked
<1>6. ASSUME NEW w \in Workers, SendCache(w) PROVE NoInflightLeak'
    BY <1>0, <1>6, InflightErased DEF SendCache, Goto, Marked
<1>7. ASSUME NEW w \in Workers, SendGenerateSeq(w) \/ SendInsert(w) PROVE NoInflightLeak'
    BY <1>0, <1>7, InflightQuiet DEF SendGenerateSeq, SendInsert, Goto, cacheVars, Marked
<1>8. ASSUME NEW w \in Workers, HandlerStep(w), ~ SendMark(w), ~ SendRefused(w),
             ~ SendInsertFailed(w), ~ SendCache(w), ~ SendGenerateSeq(w), ~ SendInsert(w)
      PROVE  NoInflightLeak'
  <2>1. /\ UNCHANGED in_flight
        /\ \A v \in Workers : at[v] \in Marked => at'[v] \in Marked /\ job'[v] = job[v]
      BY <1>0, <1>8 DEF HandlerStep, Return, Goto, cacheVars, Marked,
         SendCached, SendBusy, SendUnhide, SendPush, RecallRefused, RecallFound,
         RecallUpdate, ReadRefused, ReadClamp, ReadUpdate, DeliverUpdate, HideUpdate
  <2> QED BY <1>0, <2>1, InflightQuiet
<1>9. ASSUME NEW k \in Keys, InflightExpires(k) PROVE NoInflightLeak'
  <2>1. \A j \in Keys : in_flight'[j] # "none" => in_flight[j] # "none"
      BY <1>0, <1>9 DEF InflightExpires, TypeOK
  <2> QED BY <1>0, <1>9, <2>1 DEF InflightExpires, workerVars, NoInflightLeak
<1>10. CASE Restart
    BY <1>10 DEF Restart, NoInflightLeak
<1> QED BY <1>0, <1>1, <1>2, <1>3, <1>4, <1>5, <1>6, <1>7, <1>8, <1>9, <1>10, StepCases

-----------------------------------------------------------------------------
\* Theorems

LEMMA InitInv == Init => IndInv
<1> SUFFICES ASSUME Init PROVE IndInv
    OBVIOUS
<1>1. TypeOK
    BY DEF Init, TypeOK, Visible
<1>2. CacheConsistent
  <2>1. dedup_order = << >> /\ Len(dedup_order) = 0 /\ \A k \in Keys : dedup_index[k] = 0
      BY DEF Init
  <2> QED BY <2>1, DedupSizeAssumption DEF CacheConsistent
<1>3. PositiveDraws /\ SeqInv /\ NoInflightLeak
    BY DEF Init, PositiveDraws, SeqInv, SeqUnique, DrawnIsFree, NoInflightLeak
<1> QED BY <1>1, <1>2, <1>3 DEF IndInv

\* The conjunction of the parts above is an invariant of the message service.
THEOREM Invariance == Spec => []IndInv
<1>1. Init => IndInv
    BY InitInv
<1>2. IndInv /\ [Next]_vars => IndInv'
  <2> SUFFICES ASSUME IndInv, [Next]_vars PROVE IndInv'
      OBVIOUS
  <2>1. CacheConsistent'
      BY CacheStep DEF CacheInv, CacheConsistent, IsLRU, Elems
  <2> QED BY <2>1, TypeStep, PositiveStep, SeqStep, InflightStep DEF IndInv
<1> QED BY <1>1, <1>2, PTL DEF Spec

\* Every variable of the message service keeps its type.
THEOREM TypeCorrect == Spec => []TypeOK
<1>1. IndInv => TypeOK
    BY DEF IndInv
<1> QED BY <1>1, Invariance, PTL

\* server_seq is unique within a conversation and never above max_seq, for any number
\* of concurrent senders, on either database, through failed inserts and restarts.
THEOREM SequenceNumbersUnique == Spec => []SeqUnique
<1>1. IndInv => SeqUnique
    BY DEF IndInv, SeqInv
<1> QED BY <1>1, Invariance, PTL

\* The index and the list of the LRU cache always hold the same keys, each once, and at
\* most max_dedup_cache_size_ of them.
THEOREM CacheCorrect == Spec => []CacheConsistent
<1>1. IndInv => CacheConsistent
    BY DEF IndInv
<1> QED BY <1>1, Invariance, PTL

\* No way out of HandleSendMsg leaves an in-flight mark behind.
THEOREM MarksAreErased == Spec => []NoInflightLeak
<1>1. IndInv => NoInflightLeak
    BY DEF IndInv
<1> QED BY <1>1, Invariance, PTL

-----------------------------------------------------------------------------
\* Receipts

\* Raising one entry of a table lowers none.
LEMMA RaiseEntry ==
    ASSUME NEW A, NEW B, NEW f \in [A -> [B -> Nat]], NEW a \in A, NEW b \in B, NEW n \in Nat,
           NEW c \in A, NEW u \in B
    PROVE  [f EXCEPT ![a][b] = IF f[a][b] < n THEN n ELSE f[a][b]][c][u] >= f[c][u]
<1> DEFINE v == IF f[a][b] < n THEN n ELSE f[a][b]
           g == [f EXCEPT ![a][b] = v]
<1>1. v \in Nat /\ v >= f[a][b] /\ f[c][u] \in Nat
    OBVIOUS
<1> HIDE DEF v
<1>2. g[c][u] = IF c = a /\ u = b THEN v ELSE f[c][u]
    OBVIOUS
<1> QED BY <1>1, <1>2 DEF v

LEMMA ReceiptsStep ==
    ASSUME IndInv, [Next]_vars, NEW c \in Convs, NEW u \in Users
    PROVE  last_read'[c][u] >= last_read[c][u] /\ last_ack'[c][u] >= last_ack[c][u]
<1>0. TypeOK /\ last_read[c][u] \in Nat /\ last_ack[c][u] \in Nat
    BY DEF IndInv, TypeOK
<1>1. CASE UNCHANGED <<last_read, last_ack>>
    BY <1>0, <1>1
<1>2. ASSUME NEW w \in Workers, ReadUpdate(w)
      PROVE  last_read'[c][u] >= last_read[c][u] /\ last_ack' = last_ack
  <2>1. job[w].conv \in Convs /\ job[w].user \in Users /\ got[w] \in Nat
      BY <1>0, <1>2 DEF ReadUpdate, Return, TypeOK, Jobs
  <2> DEFINE old == last_read[job[w].conv][job[w].user]
             new == [last_read EXCEPT ![job[w].conv][job[w].user] = IF old < got[w] THEN got[w] ELSE old]
  <2>2. last_read \in [Convs -> [Users -> Nat]]
      BY <1>0 DEF TypeOK
  <2>3. new[c][u] >= last_read[c][u]
      BY <2>1, <2>2, RaiseEntry
  <2>4. (last_read' = last_read \/ last_read' = new) /\ last_ack' = last_ack
      BY <1>2 DEF ReadUpdate
  <2> HIDE DEF new
  <2> QED BY <1>0, <2>3, <2>4
<1>3. ASSUME NEW w \in Workers, DeliverUpdate(w)
      PROVE  last_ack'[c][u] >= last_ack[c][u] /\ last_read' = last_read
  <2>1. job[w].conv \in Convs /\ job[w].user \in Users /\ got[w] \in Nat
      BY <1>0, <1>3 DEF DeliverUpdate, Return, TypeOK, Jobs
  <2> DEFINE old == last_ack[job[w].conv][job[w].user]
             new == [last_ack EXCEPT ![job[w].conv][job[w].user] = IF old < got[w] THEN got[w] ELSE old]
  <2>2. last_ack \in [Convs -> [Users -> Nat]]
      BY <1>0 DEF TypeOK
  <2>3. new[c][u] >= last_ack[c][u]
      BY <2>1, <2>2, RaiseEntry
  <2>4. (last_ack' = last_ack \/ last_ack' = new) /\ last_read' = last_read
      BY <1>3 DEF DeliverUpdate
  <2> HIDE DEF new
  <2> QED BY <1>0, <2>3, <2>4
<1>4. ASSUME NEW w \in Workers, HandlerStep(w), ~ ReadUpdate(w), ~ DeliverUpdate(w)
      PROVE  UNCHANGED <<last_read, last_ack>>
    BY <1>4 DEF HandlerStep, dbVars, SendCached, SendBusy, SendMark, SendRefused, SendGenerateSeq,
       SendInsert, SendInsertFailed, SendCache, SendUnhide, SendPush, RecallRefused, RecallFound,
       RecallUpdate, ReadRefused, ReadClamp, HideUpdate
<1>5. ASSUME NEW w \in Workers, BeginStep(w) PROVE UNCHANGED <<last_read, last_ack>>
    BY <1>5 DEF BeginStep, Begin, dbVars
<1>6. ASSUME NEW k \in Keys, InflightExpires(k) PROVE UNCHANGED <<last_read, last_ack>>
    BY <1>6 DEF InflightExpires, dbVars
<1>7. Restart \/ UNCHANGED vars => UNCHANGED <<last_read, last_ack>>
    BY DEF Restart, vars, dbVars
<1> QED BY <1>0, <1>1, <1>2, <1>3, <1>4, <1>5, <1>6, <1>7, StepCases

\* A user's read and delivery positions only move forward, in whatever order the
\* receipts of several devices are handled.
THEOREM ReceiptsMonotone == Spec => ReceiptsNeverGoBack
<1>1. IndInv /\ [Next]_vars =>
        [\A c \in Convs, u \in Users :
            last_read'[c][u] >= last_read[c][u] /\ last_ack'[c][u] >= last_ack[c][u]]_vars
    BY ReceiptsStep
<1> QED BY <1>1, Invariance, PTL DEF Spec, ReceiptsNeverGoBack

-----------------------------------------------------------------------------
\* Acknowledgements

\* What the clients must see to: a client_msg_id belongs to one sender and conversation.
\* The cache is keyed by client_msg_id alone, so without this the theorem is false.
KeysAreDistinct ==
    \A r, t \in SendRequests : r.key = t.key /\ r.key # NoKey => r = t

Row(j, n) == [conv |-> j.conv, seq |-> n, user |-> j.user, key |-> j.key]

\* Behind every answer, given, cached or about to be given, there is a stored message.
AckInv ==
    /\ AckedIsStored
    /\ \A w \in Workers : at[w] \in {"dedup", "seq", "insert", "cache"} => job[w] \in SendRequests
    /\ \A w \in Workers : at[w] = "cache" => Row(job[w], got[w]) \in messages
    /\ \A k \in Keys : dedup_index[k] # 0 =>
          \E r \in SendRequests : r.key = k /\ Row(r, dedup_index[k]) \in messages

\* Stored messages stay, so an answer that was right stays right.
LEMMA AckQuiet ==
    ASSUME AckInv, messages \subseteq messages', UNCHANGED <<acks, dedup_index>>,
           \A v \in Workers : at'[v] \in {"dedup", "seq", "insert", "cache"} =>
               \/ job'[v] \in SendRequests /\ at'[v] # "cache"
               \/ at'[v] = at[v] /\ job'[v] = job[v] /\ got'[v] = got[v]
               \/ at'[v] = "cache" /\ job'[v] \in SendRequests /\ Row(job'[v], got'[v]) \in messages'
    PROVE  AckInv'
BY DEF AckInv, AckedIsStored, Row

\* One more answer, with its message stored.
LEMMA AckAdded ==
    ASSUME AckedIsStored, messages' = messages, NEW w \in Workers, NEW n, Ack(w, n),
           Row(job[w], n) \in messages
    PROVE  AckedIsStored'
<1> DEFINE a == [user |-> job[w].user, conv |-> job[w].conv, key |-> job[w].key, seq |-> n]
<1>1. acks' = acks \cup {a}
    BY DEF Ack
<1>2. a.user = job[w].user /\ a.conv = job[w].conv /\ a.key = job[w].key /\ a.seq = n
    OBVIOUS
<1> HIDE DEF a
<1>3. [conv |-> a.conv, seq |-> a.seq, user |-> a.user, key |-> a.key] \in messages
    BY <1>2 DEF Row
<1> QED BY <1>1, <1>3 DEF AckedIsStored

LEMMA AckStep ==
    ASSUME KeysAreDistinct, IndInv, AckInv, [Next]_vars
    PROVE  AckInv'
<1>0. /\ TypeOK /\ at = [v \in Workers |-> at[v]] /\ job = [v \in Workers |-> job[v]]
      /\ got \in [Workers -> Nat]
    BY DEF IndInv, TypeOK
<1>1. CASE UNCHANGED vars
    BY <1>1, AckQuiet DEF vars, dbVars, cacheVars, workerVars, historyVars
<1>2. ASSUME NEW w \in Workers, NEW r \in SendRequests, SendBegin(w, r) PROVE AckInv'
  <2>1. r \in Jobs
      BY SendRequestsAssumption DEF Jobs
  <2>2. [user |-> r.user, conv |-> r.conv, key |-> r.key] = r
      BY <2>1 DEF Jobs
  <2>3. /\ at' = [at EXCEPT ![w] = "dedup"] /\ job' = [job EXCEPT ![w] = r]
        /\ got' = [got EXCEPT ![w] = 0] /\ UNCHANGED <<messages, acks, dedup_index>>
      BY <1>2, <2>2 DEF SendBegin, Begin, dbVars, cacheVars, historyVars
  <2>4. \A v \in Workers : v # w => at'[v] = at[v] /\ job'[v] = job[v] /\ got'[v] = got[v]
      BY <1>0, <2>3
  <2>5. at'[w] = "dedup" /\ job'[w] = r
      BY <1>0, <2>3
  <2> QED BY <2>3, <2>4, <2>5, AckQuiet
<1>3. ASSUME NEW w \in Workers, NEW u, NEW c, NEW n,
             \/ RecallBegin(w, u, c, n) \/ HideBegin(w, u, c)
             \/ ReadBegin(w, u, c, n) \/ DeliverBegin(w, u, c, n)
      PROVE  AckInv'
  <2>1. /\ \A v \in Workers : v # w => at'[v] = at[v] /\ job'[v] = job[v] /\ got'[v] = got[v]
        /\ at'[w] \in {"find", "hide", "clamp", "deliver"}
        /\ UNCHANGED <<messages, acks, dedup_index>>
      BY <1>0, <1>3 DEF RecallBegin, HideBegin, ReadBegin, DeliverBegin, Begin, dbVars, cacheVars, historyVars
  <2> QED BY <2>1, AckQuiet
<1>4. ASSUME NEW w \in Workers, SendCached(w) PROVE AckInv'
  <2> DEFINE k == job[w].key
  <2>1. k \in Keys /\ k # NoKey /\ job[w] \in SendRequests /\ dedup_index[k] # 0
      BY <1>0, <1>4 DEF SendCached, Return, TypeOK, Jobs, AckInv
  <2>2. PICK r \in SendRequests : r.key = k /\ Row(r, dedup_index[k]) \in messages
      BY <2>1 DEF AckInv
  <2>3. r = job[w]
      BY <2>1, <2>2 DEF KeysAreDistinct
  <2>4. AckedIsStored'
      BY <1>4, <2>2, <2>3, AckAdded DEF SendCached, dbVars, AckInv
  <2>5. /\ UNCHANGED <<messages, dedup_index>> /\ at' = [at EXCEPT ![w] = "idle"]
        /\ \A v \in Workers : v # w => job'[v] = job[v] /\ got'[v] = got[v]
      BY <1>0, <1>4 DEF SendCached, Return, dbVars
  <2> HIDE DEF k
  <2> QED BY <1>0, <2>4, <2>5 DEF AckInv
<1>5. ASSUME NEW w \in Workers, SendMark(w) PROVE AckInv'
  <2>1. at[w] = "dedup" /\ at' = [at EXCEPT ![w] = "seq"] /\ UNCHANGED <<job, got, messages, acks, dedup_index>>
      BY <1>5 DEF SendMark, Goto, dbVars, historyVars
  <2> QED BY <1>0, <2>1, AckQuiet DEF AckInv
<1>6. ASSUME NEW w \in Workers, SendGenerateSeq(w) PROVE AckInv'
  <2>1. /\ at[w] = "seq" /\ at' = [at EXCEPT ![w] = "insert"]
        /\ UNCHANGED <<job, messages, acks, dedup_index>>
        /\ \A v \in Workers : v # w => got'[v] = got[v]
      BY <1>0, <1>6 DEF SendGenerateSeq, Goto, cacheVars, historyVars
  <2> QED BY <1>0, <2>1, AckQuiet DEF AckInv
<1>7. ASSUME NEW w \in Workers, SendInsert(w) PROVE AckInv'
  <2>1. /\ at[w] = "insert" /\ at' = [at EXCEPT ![w] = "cache"]
        /\ UNCHANGED <<job, got, acks, dedup_index>>
        /\ messages' = messages \cup {Row(job[w], got[w])}
      BY <1>7 DEF SendInsert, Goto, cacheVars, historyVars, Row
  <2>2. job[w] \in SendRequests
      BY <2>1 DEF AckInv
  <2> QED BY <1>0, <2>1, <2>2, AckQuiet
<1>8. ASSUME NEW w \in Workers, SendCache(w) PROVE AckInv'
  <2> DEFINE k == job[w].key
  <2>1. /\ at[w] = "cache" /\ at' = [at EXCEPT ![w] = "unhide"] /\ UNCHANGED <<job, got, messages>>
        /\ job[w] \in SendRequests /\ Row(job[w], got[w]) \in messages
      BY <1>8 DEF SendCache, Goto, dbVars, AckInv
  <2>2. AckedIsStored'
      BY <1>8, <2>1, AckAdded DEF SendCache, AckInv
  <2>3. \A j \in Keys : dedup_index'[j] = 0 \/ dedup_index'[j] = dedup_index[j]
                            \/ (j = k /\ dedup_index'[j] = got[w])
      BY <1>0, <1>8 DEF SendCache, DedupInsert, TypeOK
  <2>4. \A j \in Keys : dedup_index'[j] # 0 =>
           \E r \in SendRequests : r.key = j /\ Row(r, dedup_index'[j]) \in messages
      BY <2>1, <2>3 DEF AckInv
  <2> HIDE DEF k
  <2> QED BY <1>0, <2>1, <2>2, <2>4 DEF AckInv
<1>9. ASSUME NEW w \in Workers, HandlerStep(w), ~ SendCached(w), ~ SendMark(w),
             ~ SendGenerateSeq(w), ~ SendInsert(w), ~ SendCache(w)
      PROVE  AckInv'
  <2>1. /\ UNCHANGED <<messages, acks, dedup_index>>
        /\ at'[w] \notin {"dedup", "seq", "insert", "cache"}
        /\ \A v \in Workers : v # w => at'[v] = at[v] /\ job'[v] = job[v] /\ got'[v] = got[v]
      BY <1>0, <1>9 DEF HandlerStep, Return, Goto, dbVars, cacheVars, historyVars,
         SendBusy, SendRefused, SendInsertFailed, SendUnhide, SendPush, RecallRefused, RecallFound,
         RecallUpdate, ReadRefused, ReadClamp, ReadUpdate, DeliverUpdate, HideUpdate
  <2> QED BY <2>1, AckQuiet
<1>10. ASSUME NEW k \in Keys, InflightExpires(k) PROVE AckInv'
    BY <1>10, AckQuiet DEF InflightExpires, dbVars, workerVars, historyVars
<1>11. CASE Restart
  <2>1. /\ UNCHANGED <<messages, acks>> /\ \A k \in Keys : dedup_index'[k] = 0
        /\ \A v \in Workers : at'[v] = "idle"
      BY <1>11 DEF Restart, dbVars, historyVars
  <2> QED BY <2>1 DEF AckInv, AckedIsStored
<1>12. ASSUME NEW w \in Workers, Arrival(w) PROVE AckInv'
    BY <1>2, <1>3, <1>12 DEF Arrival
<1> QED BY <1>1, <1>4, <1>5, <1>6, <1>7, <1>8, <1>9, <1>10, <1>11, <1>12
        DEF Next, HandlerStep, HandleSendMsg, HandleRecallMsg, HandleReadAck

\* If a client_msg_id is used for one conversation only, a successful SendMsgAck always
\* names the message the client asked to store, also when it comes from the cache,
\* after evictions, concurrent retries, failures and restarts.
THEOREM AcksAreTrue == KeysAreDistinct => (Spec => []AckedIsStored)
<1> SUFFICES ASSUME KeysAreDistinct PROVE Spec => []AckedIsStored
    OBVIOUS
<1>1. Init => AckInv
    BY DEF Init, AckInv, AckedIsStored
<1>2. IndInv /\ AckInv /\ [Next]_vars => AckInv'
    BY AckStep
<1>3. AckInv => AckedIsStored
    BY DEF AckInv
<1> QED BY <1>1, <1>2, <1>3, Invariance, PTL DEF Spec

-----------------------------------------------------------------------------
\* The session

\* With SQLite a handler has the session from its first statement to its last.
SessionHeld == exclusive => \A w \in Workers : at[w] # "idle" => session = w

\* A handler keeps the session until it returns.
LEMMA SessionStep ==
    ASSUME TypeOK, SessionHeld, Next
    PROVE  SessionHeld'
<1>0. /\ at = [v \in Workers |-> at[v]] /\ exclusive' = exclusive /\ NoWorker \notin Workers
    BY WorkersAssumption DEF TypeOK, Next
<1>1. ASSUME NEW w \in Workers, BeginStep(w) PROVE SessionHeld'
    BY <1>0, <1>1 DEF BeginStep, Begin, SessionHeld
<1>2. ASSUME NEW w \in Workers, NEW here, NEW there, here # "idle", Goto(w, here, there)
      PROVE  SessionHeld'
    BY <1>0, <1>2 DEF Goto, SessionHeld
<1>3. ASSUME NEW w \in Workers, NEW here, here # "idle", Return(w, here) PROVE SessionHeld'
    BY <1>0, <1>3 DEF Return, SessionHeld
<1>4. ASSUME NEW w \in Workers, HandlerStep(w) PROVE SessionHeld'
    BY <1>2, <1>3, <1>4 DEF HandlerStep, SendCached, SendBusy, SendMark, SendRefused,
       SendGenerateSeq, SendInsert, SendInsertFailed, SendCache, SendUnhide, SendPush,
       RecallRefused, RecallFound, RecallUpdate, ReadRefused, ReadClamp, ReadUpdate,
       DeliverUpdate, HideUpdate
<1>5. ASSUME NEW k \in Keys, InflightExpires(k) PROVE SessionHeld'
    BY <1>0, <1>5 DEF InflightExpires, workerVars, SessionHeld
<1>6. ASSUME Restart PROVE SessionHeld'
    BY <1>6 DEF Restart, SessionHeld
<1> QED
    BY <1>1, <1>4, <1>5, <1>6, StepCases

LEMMA SessionInvariant == Spec => []SessionHeld
<1>1. Init => SessionHeld
    BY DEF Init, SessionHeld
<1>2. IndInv /\ SessionHeld /\ [Next]_vars => SessionHeld'
  <2>1. ASSUME SessionHeld, UNCHANGED vars PROVE SessionHeld'
      BY <2>1 DEF SessionHeld, vars, workerVars
  <2> QED BY <2>1, SessionStep DEF IndInv
<1> QED BY <1>1, <1>2, Invariance, PTL DEF Spec

-----------------------------------------------------------------------------
\* Hiding

\* Somebody is on the way from storing message <<c, n>> to unhiding its conversation.
Unhiding(c, n) ==
    \E w \in Workers : at[w] \in {"cache", "unhide"} /\ got[w] = n /\ job[w].conv = c

HideInv ==
    /\ NewMessageUnhides
    /\ faults \in Nat /\ crashes \in Nat

\* A step that hides nothing, stores nothing and leaves the handlers that will unhide alone.
LEMMA HideQuiet ==
    ASSUME HideInv, UNCHANGED <<messages, hidden>>,
           faults' \in {faults, faults + 1}, crashes' \in {crashes, crashes + 1},
           crashes' = crashes => \A w \in Workers : at[w] \in {"cache", "unhide"} =>
               at'[w] \in {"cache", "unhide"} /\ got'[w] = got[w] /\ job'[w] = job[w]
    PROVE  HideInv'
<1>1. faults' \in Nat /\ crashes' \in Nat
    BY DEF HideInv
<1>2. ASSUME faults' = 0, crashes' = 0
      PROVE  faults = 0 /\ crashes = 0 /\ crashes' = crashes
    BY <1>2 DEF HideInv
<1>3. NewMessageUnhides'
    BY <1>2 DEF HideInv, NewMessageUnhides
<1> QED BY <1>1, <1>3 DEF HideInv

\* Every step keeps the invariant.
LEMMA HideStep ==
    ASSUME IndInv, HideInv, [Next]_vars
    PROVE  HideInv'
<1>0. /\ TypeOK /\ faults \in Nat /\ crashes \in Nat
      /\ at = [v \in Workers |-> at[v]] /\ job = [v \in Workers |-> job[v]]
      /\ got = [v \in Workers |-> got[v]]
    BY DEF IndInv, HideInv, TypeOK
<1>a. /\ hidden \in [Convs -> [Users -> Nat \cup {Visible}]]
      /\ \A m \in messages : m.conv \in Convs /\ m.seq \in Nat /\ m.seq <= max_seq[m.conv]
      /\ \A c \in Convs : Members[c] \subseteq Users /\ max_seq[c] \in Nat
    BY MembersAssumption DEF IndInv, TypeOK, SeqInv, SeqUnique
<1>1. CASE UNCHANGED vars
    BY <1>0, <1>1, HideQuiet DEF vars, dbVars, workerVars, boundVars
<1>2. ASSUME NEW w \in Workers, BeginStep(w) PROVE HideInv'
  <2>1. /\ UNCHANGED <<messages, hidden, faults, crashes>> /\ at[w] = "idle"
        /\ \A v \in Workers : v # w => at'[v] = at[v] /\ got'[v] = got[v] /\ job'[v] = job[v]
      BY <1>0, <1>2 DEF BeginStep, Begin, dbVars
  <2> QED BY <1>0, <2>1, HideQuiet
<1>3. ASSUME NEW w \in Workers, SendInsert(w) PROVE HideInv'
  <2> DEFINE new == [conv |-> job[w].conv, seq |-> got[w], user |-> job[w].user, key |-> job[w].key]
  <2>1. /\ messages' = messages \cup {new} /\ at[w] = "insert" /\ at' = [at EXCEPT ![w] = "cache"]
        /\ UNCHANGED <<hidden, job, got, faults, crashes>>
      BY <1>3 DEF SendInsert, Goto, boundVars
  <2>2. new.conv = job[w].conv /\ new.seq = got[w]
      OBVIOUS
  <2> HIDE DEF new
  <2>3. at'[w] = "cache" /\ \A v \in Workers : v # w => at'[v] = at[v]
      BY <1>0, <2>1
  <2>4. \A c, n : Unhiding(c, n) => Unhiding(c, n)'
      BY <2>1, <2>3 DEF Unhiding
  <2>5. \A c, n : c = new.conv /\ n = new.seq => Unhiding(c, n)'
      BY <2>1, <2>2, <2>3 DEF Unhiding
  <2>6. NewMessageUnhides'
    <3> SUFFICES ASSUME faults' = 0, crashes' = 0, NEW m \in messages', NEW u \in Members[m.conv],
                        hidden'[m.conv][u] # Visible, m.seq > hidden'[m.conv][u]
                 PROVE  Unhiding(m.conv, m.seq)'
        BY DEF NewMessageUnhides, Unhiding
    <3>1. CASE m = new
        BY <2>5, <3>1
    <3>2. CASE m \in messages
      <4>1. Unhiding(m.conv, m.seq)
          BY <2>1, <3>2 DEF HideInv, NewMessageUnhides, Unhiding
      <4> QED BY <2>4, <4>1
    <3> QED BY <2>1, <3>1, <3>2
  <2> QED BY <1>0, <2>1, <2>6 DEF HideInv
<1>4. ASSUME NEW w \in Workers, SendCache(w) PROVE HideInv'
  <2>1. /\ UNCHANGED <<messages, hidden, job, got, faults, crashes>>
        /\ at' = [at EXCEPT ![w] = "unhide"]
      BY <1>4 DEF SendCache, Goto, dbVars, boundVars
  <2>2. at'[w] = "unhide" /\ \A v \in Workers : v # w => at'[v] = at[v]
      BY <1>0, <2>1
  <2> QED BY <1>0, <2>1, <2>2, HideQuiet
<1>5. ASSUME NEW w \in Workers, SendUnhide(w) PROVE HideInv'
  <2> DEFINE c == job[w].conv
  <2>1. c \in Convs
      BY <1>0, <1>5 DEF SendUnhide, Goto, TypeOK, Jobs
  <2>2. /\ UNCHANGED <<messages, job, got, crashes>>
        /\ at' = [at EXCEPT ![w] = "push"] /\ at[w] = "unhide"
        /\ faults' \in {faults, faults + 1}
        /\ \A d \in Convs : d # c => hidden'[d] = hidden[d]
        /\ faults' = faults => \A u \in Members[c] : hidden'[c][u] = Visible
      BY <1>0, <1>a, <1>5, <2>1 DEF SendUnhide, Goto, Fault
  <2>3. \A v \in Workers : v # w => at'[v] = at[v]
      BY <1>0, <2>2
  <2>4. \A d \in Convs : \A n : d # c /\ Unhiding(d, n) => Unhiding(d, n)'
      BY <2>2, <2>3 DEF Unhiding
  <2> HIDE DEF c
  <2>5. NewMessageUnhides'
    <3> SUFFICES ASSUME faults' = 0, crashes' = 0, NEW m \in messages, NEW u \in Members[m.conv],
                        hidden'[m.conv][u] # Visible, m.seq > hidden'[m.conv][u]
                 PROVE  Unhiding(m.conv, m.seq)'
        BY <2>2 DEF NewMessageUnhides, Unhiding
    <3>1. faults' = faults /\ faults = 0 /\ crashes = 0
        BY <1>0, <2>2
    <3>2. m.conv # c
        BY <2>2, <3>1
    <3>3. hidden'[m.conv] = hidden[m.conv] /\ m.conv \in Convs
        BY <1>a, <2>2, <3>2
    <3>4. Unhiding(m.conv, m.seq)
        BY <3>1, <3>3 DEF HideInv, NewMessageUnhides, Unhiding
    <3> QED BY <2>4, <3>2, <3>3, <3>4
  <2> QED BY <1>0, <2>2, <2>5 DEF HideInv
<1>6. ASSUME NEW w \in Workers, HideUpdate(w) PROVE HideInv'
  <2> DEFINE c == job[w].conv
             u == job[w].user
  <2>1. c \in Convs /\ u \in Users
      BY <1>0, <1>6 DEF HideUpdate, Return, TypeOK, Jobs
  <2>2. /\ UNCHANGED <<messages, crashes>> /\ at[w] = "hide"
        /\ faults' \in {faults, faults + 1}
        /\ hidden' = hidden \/ hidden' = [hidden EXCEPT ![c][u] = max_seq[c]]
        /\ \A v \in Workers : v # w => at'[v] = at[v] /\ got'[v] = got[v] /\ job'[v] = job[v]
      BY <1>0, <1>6 DEF HideUpdate, Return, Fault
  <2> HIDE DEF c, u
  <2>3. CASE hidden' = hidden
      BY <1>0, <2>2, <2>3, HideQuiet
  <2>4. CASE hidden' = [hidden EXCEPT ![c][u] = max_seq[c]]
    <3>1. \A d \in Convs, v \in Users :
            hidden'[d][v] = IF d = c /\ v = u THEN max_seq[c] ELSE hidden[d][v]
        BY <1>a, <2>1, <2>4
    <3>2. \A d, n : Unhiding(d, n) => Unhiding(d, n)'
        BY <2>2 DEF Unhiding
    <3>3. NewMessageUnhides'
      <4> SUFFICES ASSUME faults' = 0, crashes' = 0, NEW m \in messages, NEW v \in Members[m.conv],
                          hidden'[m.conv][v] # Visible, m.seq > hidden'[m.conv][v]
                   PROVE  Unhiding(m.conv, m.seq)'
          BY <2>2 DEF NewMessageUnhides, Unhiding
      <4>1. faults = 0 /\ crashes = 0
          BY <1>0, <2>2
      <4>2. m.conv \in Convs /\ v \in Users /\ m.seq \in Nat /\ m.seq <= max_seq[m.conv]
            /\ max_seq[m.conv] \in Nat
          BY <1>a
      <4>3. hidden'[m.conv][v] = hidden[m.conv][v]
          BY <3>1, <4>2
      <4>4. Unhiding(m.conv, m.seq)
          BY <4>1, <4>3 DEF HideInv, NewMessageUnhides, Unhiding
      <4> QED BY <3>2, <4>4
    <3> QED BY <1>0, <2>2, <3>3 DEF HideInv
  <2> QED BY <2>2, <2>3, <2>4
<1>7. ASSUME NEW w \in Workers, HandlerStep(w),
             ~ SendInsert(w), ~ SendCache(w), ~ SendUnhide(w), ~ HideUpdate(w)
      PROVE  HideInv'
  <2>1. /\ UNCHANGED <<messages, hidden, crashes>> /\ faults' \in {faults, faults + 1}
        /\ at[w] \notin {"cache", "unhide"}
        /\ \A v \in Workers : v # w => at'[v] = at[v] /\ got'[v] = got[v] /\ job'[v] = job[v]
    <3> USE <1>0, <1>7 DEF boundVars, dbVars, Fault, Return, Goto
    <3>1. CASE SendCached(w) \/ SendBusy(w) \/ SendMark(w) \/ SendRefused(w)
        BY <3>1 DEF SendCached, SendBusy, SendMark, SendRefused
    <3>2. CASE SendGenerateSeq(w) \/ SendInsertFailed(w) \/ SendPush(w)
        BY <3>2 DEF SendGenerateSeq, SendInsertFailed, SendPush
    <3>3. CASE RecallRefused(w) \/ RecallFound(w) \/ RecallUpdate(w)
        BY <3>3 DEF RecallRefused, RecallFound, RecallUpdate
    <3>4. CASE ReadRefused(w) \/ ReadClamp(w) \/ ReadUpdate(w) \/ DeliverUpdate(w)
        BY <3>4 DEF ReadRefused, ReadClamp, ReadUpdate, DeliverUpdate
    <3> QED BY <3>1, <3>2, <3>3, <3>4 DEF HandlerStep
  <2> QED BY <1>0, <2>1, HideQuiet
<1>8. ASSUME NEW k \in Keys, InflightExpires(k) PROVE HideInv'
    BY <1>0, <1>8, HideQuiet DEF InflightExpires, dbVars, workerVars
<1>9. ASSUME Restart PROVE HideInv'
  <2>1. UNCHANGED <<messages, hidden, faults>> /\ crashes' = crashes + 1
      BY <1>9 DEF Restart, dbVars
  <2> QED BY <1>0, <2>1, HideQuiet
<1> QED BY <1>0, <1>1, <1>2, <1>3, <1>4, <1>5, <1>6, <1>7, <1>8, <1>9, StepCases

\* A message that is newer than the hiding of its conversation shows it again, on either
\* database, whatever else is handled at the same time.
THEOREM NewMessagesShow == Spec => []NewMessageUnhides
<1>1. Init => HideInv
    BY DEF Init, HideInv, NewMessageUnhides
<1>2. IndInv /\ HideInv /\ [Next]_vars => HideInv'
    BY HideStep
<1>3. HideInv => NewMessageUnhides
    BY DEF HideInv
<1> QED BY <1>1, <1>2, <1>3, Invariance, PTL DEF Spec

-----------------------------------------------------------------------------
\* Broadcasts

\* Worker w has drawn a number that it will push unless a statement fails.
Sending(w) == at[w] \in {"insert", "cache", "unhide", "push"}

Increasing(s) == \A i, j \in 1 .. Len(s) : i < j => s[i] < s[j]

PushInv ==
    /\ pushes \in [Convs -> Seq(Nat)]
    /\ \A c \in Convs : \A i \in 1 .. Len(pushes[c]) : pushes[c][i] <= max_seq[c]
    /\ \A w \in Workers : Sending(w) => got[w] <= max_seq[job[w].conv]
    /\ exclusive => \A w \in Workers : Sending(w) =>
           \A i \in 1 .. Len(pushes[job[w].conv]) : pushes[job[w].conv][i] < got[w]
    /\ exclusive => \A c \in Convs : Increasing(pushes[c])

\* A recall that was allowed is of a message that no other recall has reached.
RecallInv ==
    exclusive =>
        /\ recalls \in Seq(messages)
        /\ \A w \in Workers : at[w] = "recall" => Target(w) # {} /\ Target(w) \cap recalled = {}
        /\ \A i \in 1 .. Len(recalls) : recalls[i] \in recalled
        /\ \A i, j \in 1 .. Len(recalls) : recalls[i] = recalls[j] => i = j

\* With SQLite a handler in progress is alone.
LEMMA Alone ==
    ASSUME SessionHeld, exclusive, NEW w \in Workers, at[w] # "idle", NEW v \in Workers, v # w
    PROVE  at[v] = "idle"
BY DEF SessionHeld

LEMMA PushQuiet ==
    ASSUME PushInv, UNCHANGED <<exclusive, pushes, max_seq>>,
           \A w \in Workers : Sending(w)' => Sending(w) /\ job'[w] = job[w] /\ got'[w] = got[w]
    PROVE  PushInv'
BY DEF PushInv

LEMMA RecallQuiet ==
    ASSUME RecallInv, UNCHANGED <<exclusive, recalls, recalled>>, messages \subseteq messages',
           exclusive => \A w \in Workers : at'[w] = "recall" =>
               at[w] = "recall" /\ job'[w] = job[w] /\ got'[w] = got[w] /\ messages' = messages
    PROVE  RecallInv'
<1> SUFFICES ASSUME exclusive PROVE RecallInv'
    BY DEF RecallInv
<1>1. recalls \in Seq(messages')
  <2>1. recalls \in Seq(messages)
      BY DEF RecallInv
  <2> QED BY <2>1
<1>2. \A w \in Workers : at'[w] = "recall" => Target(w)' = Target(w)
    BY DEF Target
<1> QED BY <1>1, <1>2 DEF RecallInv

\* Every step keeps the order of the broadcasts.
LEMMA PushStep ==
    ASSUME IndInv, SessionHeld, PushInv, [Next]_vars
    PROVE  PushInv'
<1>0. /\ TypeOK /\ max_seq \in [Convs -> Nat] /\ got \in [Workers -> Nat]
      /\ at = [v \in Workers |-> at[v]] /\ job = [v \in Workers |-> job[v]]
      /\ pushes \in [Convs -> Seq(Nat)]
    BY DEF IndInv, TypeOK, PushInv
<1>a. exclusive' = exclusive
    BY DEF Next, vars
<1>1. CASE UNCHANGED vars
    BY <1>1, PushQuiet DEF vars, dbVars, workerVars, historyVars, Sending
<1>2. ASSUME NEW w \in Workers, BeginStep(w) PROVE PushInv'
  <2>1. /\ UNCHANGED <<pushes, max_seq>>
        /\ at'[w] \notin {"insert", "cache", "unhide", "push"}
        /\ \A v \in Workers : v # w => at'[v] = at[v] /\ got'[v] = got[v] /\ job'[v] = job[v]
      BY <1>0, <1>2 DEF BeginStep, Begin, dbVars, historyVars
  <2> QED BY <1>a, <2>1, PushQuiet DEF Sending
<1>3. ASSUME NEW w \in Workers, SendGenerateSeq(w) PROVE PushInv'
  <2> DEFINE c == job[w].conv
  <2>1. c \in Convs /\ max_seq[c] \in Nat
      BY <1>0, <1>3 DEF SendGenerateSeq, Goto, TypeOK, Jobs
  <2>2. /\ pushes' = pushes /\ job' = job
        /\ max_seq' = [max_seq EXCEPT ![c] = max_seq[c] + 1]
        /\ got' = [got EXCEPT ![w] = max_seq[c] + 1]
        /\ at' = [at EXCEPT ![w] = "insert"]
      BY <1>3 DEF SendGenerateSeq, Goto, historyVars
  <2>3. \A d \in Convs : max_seq[d] \in Nat /\ max_seq'[d] \in {max_seq[d], max_seq[d] + 1}
      BY <1>0, <2>1, <2>2
  <2>4. /\ max_seq'[c] = max_seq[c] + 1 /\ got'[w] = max_seq[c] + 1
        /\ \A v \in Workers : v # w => at'[v] = at[v] /\ got'[v] = got[v]
      BY <1>0, <2>1, <2>2
  <2>5. \A v \in Workers : Sending(v) => job[v].conv \in Convs
      BY <1>0 DEF TypeOK, Jobs, Sending
  <2>6. \A d \in Convs : \A i \in 1 .. Len(pushes[d]) : pushes[d][i] \in Nat /\ pushes[d][i] <= max_seq[d]
      BY <1>0 DEF PushInv
  <2> HIDE DEF c
  <2>7. \A d \in Convs : \A i \in 1 .. Len(pushes[d]) : pushes[d][i] <= max_seq'[d]
      BY <2>3, <2>6
  <2>8. \A v \in Workers : Sending(v)' => got'[v] <= max_seq'[job[v].conv]
    <3> SUFFICES ASSUME NEW v \in Workers, Sending(v)', v # w
                 PROVE  got'[v] <= max_seq'[job[v].conv]
        BY <2>1, <2>4 DEF c
    <3>1. Sending(v)
        BY <2>4 DEF Sending
    <3>2. got[v] \in Nat /\ got[v] <= max_seq[job[v].conv] /\ job[v].conv \in Convs
        BY <1>0, <2>5, <3>1 DEF PushInv
    <3> QED BY <2>3, <2>4, <3>2
  <2>9. ASSUME exclusive, NEW v \in Workers, Sending(v)', NEW i \in 1 .. Len(pushes[job[v].conv])
        PROVE  pushes[job[v].conv][i] < got'[v]
    <3>1. CASE v = w
        BY <2>1, <2>4, <2>6, <2>9, <3>1 DEF c
    <3>2. CASE v # w
      <4>1. Sending(v)
          BY <2>4, <2>9, <3>2 DEF Sending
      <4> QED BY <2>4, <2>9, <3>2, <4>1 DEF PushInv
    <3> QED BY <3>1, <3>2
  <2> QED BY <1>a, <2>2, <2>7, <2>8, <2>9 DEF PushInv
<1>4. ASSUME NEW w \in Workers, SendPush(w) PROVE PushInv'
  <2> DEFINE c == job[w].conv
             n == got[w]
  <2>1. c \in Convs /\ n \in Nat /\ Sending(w) /\ at[w] # "idle"
      BY <1>0, <1>4 DEF SendPush, Return, TypeOK, Jobs, Sending
  <2>2. /\ pushes' = [pushes EXCEPT ![c] = Append(pushes[c], n)] /\ max_seq' = max_seq
        /\ at'[w] = "idle"
        /\ \A v \in Workers : v # w => at'[v] = at[v] /\ got'[v] = got[v] /\ job'[v] = job[v]
      BY <1>0, <1>4 DEF SendPush, Return, dbVars
  <2>3. n <= max_seq[c] /\ (exclusive => \A i \in 1 .. Len(pushes[c]) : pushes[c][i] < n)
      BY <2>1 DEF PushInv
  <2> HIDE DEF c, n
  <2>4. /\ pushes'[c] = Append(pushes[c], n) /\ pushes[c] \in Seq(Nat)
        /\ \A d \in Convs : d # c => pushes'[d] = pushes[d]
        /\ pushes' \in [Convs -> Seq(Nat)]
      BY <1>0, <2>1, <2>2
  <2>5. /\ Len(pushes'[c]) = Len(pushes[c]) + 1 /\ Len(pushes[c]) \in Nat
        /\ \A i \in 1 .. Len(pushes[c]) : pushes'[c][i] = pushes[c][i]
        /\ pushes'[c][Len(pushes[c]) + 1] = n
      BY <2>1, <2>4
  <2>6. \A d \in Convs : \A i \in 1 .. Len(pushes'[d]) : pushes'[d][i] <= max_seq[d]
    <3>1. \A i \in 1 .. Len(pushes'[c]) : pushes'[c][i] <= max_seq[c]
        BY <2>1, <2>3, <2>5 DEF PushInv
    <3> QED BY <2>4, <3>1 DEF PushInv
  <2>7. \A v \in Workers : Sending(v)' => v # w /\ Sending(v)
      BY <2>2 DEF Sending
  <2>8. exclusive => \A v \in Workers : ~ Sending(v)'
      BY <2>1, <2>7, Alone DEF Sending
  <2>9. exclusive => \A d \in Convs : Increasing(pushes'[d])
    <3> SUFFICES ASSUME exclusive PROVE Increasing(pushes'[c])
        BY <2>4 DEF PushInv
    <3>1. Increasing(pushes[c])
        BY <2>1 DEF PushInv
    <3> QED BY <2>3, <2>5, <3>1 DEF Increasing
  <2> QED BY <1>a, <2>2, <2>4, <2>6, <2>7, <2>8, <2>9 DEF PushInv
<1>5. ASSUME NEW w \in Workers, HandlerStep(w), ~ SendGenerateSeq(w), ~ SendPush(w) PROVE PushInv'
  <2>1. /\ UNCHANGED <<pushes, max_seq>>
        /\ Sending(w)' => Sending(w) /\ job'[w] = job[w] /\ got'[w] = got[w]
        /\ \A v \in Workers : v # w => at'[v] = at[v] /\ got'[v] = got[v] /\ job'[v] = job[v]
    <3> USE <1>0, <1>5 DEF dbVars, historyVars, Return, Goto, Sending
    <3>1. CASE SendCached(w) \/ SendBusy(w) \/ SendMark(w) \/ SendRefused(w)
        BY <3>1 DEF SendCached, SendBusy, SendMark, SendRefused
    <3>2. CASE SendInsert(w) \/ SendInsertFailed(w) \/ SendCache(w) \/ SendUnhide(w)
        BY <3>2 DEF SendInsert, SendInsertFailed, SendCache, SendUnhide
    <3>3. CASE RecallRefused(w) \/ RecallFound(w) \/ RecallUpdate(w)
        BY <3>3 DEF RecallRefused, RecallFound, RecallUpdate
    <3>4. CASE ReadRefused(w) \/ ReadClamp(w) \/ ReadUpdate(w) \/ DeliverUpdate(w) \/ HideUpdate(w)
        BY <3>4 DEF ReadRefused, ReadClamp, ReadUpdate, DeliverUpdate, HideUpdate
    <3> QED BY <3>1, <3>2, <3>3, <3>4 DEF HandlerStep
  <2> QED BY <1>a, <2>1, PushQuiet DEF Sending
<1>6. ASSUME NEW k \in Keys, InflightExpires(k) PROVE PushInv'
    BY <1>a, <1>6, PushQuiet DEF InflightExpires, dbVars, workerVars, historyVars, Sending
<1>7. ASSUME Restart PROVE PushInv'
    BY <1>a, <1>7, PushQuiet DEF Restart, dbVars, historyVars, Sending
<1> QED BY <1>0, <1>1, <1>2, <1>3, <1>4, <1>5, <1>6, <1>7, StepCases

\* Every step keeps the recalls apart.
LEMMA RecallStep ==
    ASSUME IndInv, SessionHeld, RecallInv, [Next]_vars
    PROVE  RecallInv'
<1>0. /\ TypeOK /\ at = [v \in Workers |-> at[v]] /\ job = [v \in Workers |-> job[v]]
      /\ got = [v \in Workers |-> got[v]]
    BY DEF IndInv, TypeOK
<1>a. exclusive' = exclusive
    BY DEF Next, vars
<1>1. CASE UNCHANGED vars
    BY <1>1, RecallQuiet DEF vars, dbVars, workerVars, historyVars
<1>2. ASSUME NEW w \in Workers, BeginStep(w) PROVE RecallInv'
  <2>1. /\ UNCHANGED <<recalls, recalled, messages>> /\ at'[w] # "recall"
        /\ \A v \in Workers : v # w => at'[v] = at[v] /\ got'[v] = got[v] /\ job'[v] = job[v]
      BY <1>0, <1>2 DEF BeginStep, Begin, dbVars, historyVars
  <2> QED BY <1>a, <2>1, RecallQuiet
<1>3. ASSUME NEW w \in Workers, SendInsert(w) PROVE RecallInv'
  <2>1. /\ UNCHANGED <<recalls, recalled>> /\ messages \subseteq messages'
        /\ at[w] = "insert" /\ at'[w] = "cache" /\ \A v \in Workers : v # w => at'[v] = at[v]
      BY <1>0, <1>3 DEF SendInsert, Goto, historyVars
  <2>2. exclusive => \A v \in Workers : at'[v] # "recall"
      BY <2>1, Alone
  <2> QED BY <1>a, <2>1, <2>2, RecallQuiet
<1>4. ASSUME NEW w \in Workers, RecallFound(w) PROVE RecallInv'
  <2>1. /\ UNCHANGED <<recalls, recalled, messages, job, got>>
        /\ at[w] = "find" /\ at' = [at EXCEPT ![w] = "recall"]
      BY <1>4 DEF RecallFound, Goto, dbVars, historyVars
  <2>2. PICK m \in messages : /\ m.conv = job[w].conv /\ m.seq = got[w] /\ m \notin recalled
      BY <1>4 DEF RecallFound, Recallable, Target
  <2>3. Target(w) = {m}
      BY <2>2 DEF Target, IndInv, SeqInv, SeqUnique
  <2>4. \A v \in Workers : Target(v)' = Target(v)
      BY <2>1 DEF Target
  <2>5. \A v \in Workers : at'[v] = "recall" => v = w \/ at[v] = "recall"
      BY <1>0, <2>1
  <2>6. Target(w) # {} /\ Target(w) \cap recalled = {}
      BY <2>2, <2>3
  <2> QED BY <1>a, <2>1, <2>4, <2>5, <2>6 DEF RecallInv
<1>5. ASSUME NEW w \in Workers, RecallUpdate(w) PROVE RecallInv'
  <2>1. /\ messages' = messages /\ at[w] = "recall" /\ at'[w] = "idle"
        /\ \A v \in Workers : v # w => at'[v] = at[v]
        /\ \/ /\ recalled' = recalled \cup Target(w)
              /\ recalls' = Append(recalls, CHOOSE m \in Target(w) : TRUE)
           \/ recalled' = recalled /\ recalls' = recalls
      BY <1>0, <1>5 DEF RecallUpdate, Return
  <2> SUFFICES ASSUME exclusive PROVE RecallInv'
      BY <1>a DEF RecallInv
  <2>2. \A v \in Workers : at'[v] # "recall"
      BY <2>1, Alone
  <2>3. CASE recalled' = recalled /\ recalls' = recalls
      BY <1>a, <2>1, <2>2, <2>3, RecallQuiet
  <2>4. ASSUME NEW x, x = CHOOSE m \in Target(w) : TRUE,
               recalled' = recalled \cup Target(w), recalls' = Append(recalls, x)
        PROVE  RecallInv'
    <3>1. x \in Target(w)
        BY <2>1, <2>4 DEF RecallInv
    <3>2. x \in messages /\ x \notin recalled /\ x \in recalled' /\ recalls \in Seq(messages)
        BY <2>1, <2>4, <3>1 DEF RecallInv, Target
    <3>3. /\ recalls' \in Seq(messages) /\ Len(recalls') = Len(recalls) + 1 /\ Len(recalls) \in Nat
          /\ \A i \in 1 .. Len(recalls) : recalls'[i] = recalls[i]
          /\ recalls'[Len(recalls) + 1] = x
        BY <2>4, <3>2, AppendProperties
    <3>4. /\ \A i \in 1 .. Len(recalls) : recalls[i] \in recalled
          /\ \A i, j \in 1 .. Len(recalls) : recalls[i] = recalls[j] => i = j
        BY DEF RecallInv
    <3>5. \A i \in 1 .. Len(recalls') : recalls'[i] \in recalled'
        BY <2>4, <3>2, <3>3, <3>4
    <3>6. \A i, j \in 1 .. Len(recalls') : recalls'[i] = recalls'[j] => i = j
      <4>1. \A i \in 1 .. Len(recalls') : i = Len(recalls) + 1 \/ i \in 1 .. Len(recalls)
          BY <3>3
      <4>2. \A i \in 1 .. Len(recalls) : recalls'[i] # x
          BY <3>2, <3>3, <3>4
      <4> QED BY <3>3, <3>4, <4>1, <4>2
    <3> QED BY <1>a, <2>1, <2>2, <3>3, <3>5, <3>6 DEF RecallInv
  <2> QED BY <2>1, <2>3, <2>4
<1>6. ASSUME NEW w \in Workers, HandlerStep(w), ~ SendInsert(w), ~ RecallFound(w), ~ RecallUpdate(w)
      PROVE  RecallInv'
  <2>1. /\ UNCHANGED <<recalls, recalled, messages>> /\ at'[w] # "recall"
        /\ \A v \in Workers : v # w => at'[v] = at[v] /\ got'[v] = got[v] /\ job'[v] = job[v]
    <3> USE <1>0, <1>6 DEF dbVars, historyVars, Return, Goto
    <3>1. CASE SendCached(w) \/ SendBusy(w) \/ SendMark(w) \/ SendRefused(w)
        BY <3>1 DEF SendCached, SendBusy, SendMark, SendRefused
    <3>2. CASE SendGenerateSeq(w) \/ SendInsertFailed(w) \/ SendCache(w) \/ SendUnhide(w) \/ SendPush(w)
        BY <3>2 DEF SendGenerateSeq, SendInsertFailed, SendCache, SendUnhide, SendPush
    <3>3. CASE RecallRefused(w)
        BY <3>3 DEF RecallRefused
    <3>4. CASE ReadRefused(w) \/ ReadClamp(w) \/ ReadUpdate(w) \/ DeliverUpdate(w) \/ HideUpdate(w)
        BY <3>4 DEF ReadRefused, ReadClamp, ReadUpdate, DeliverUpdate, HideUpdate
    <3> QED BY <3>1, <3>2, <3>3, <3>4 DEF HandlerStep
  <2> QED BY <1>a, <2>1, RecallQuiet
<1>7. ASSUME NEW k \in Keys, InflightExpires(k) PROVE RecallInv'
    BY <1>a, <1>7, RecallQuiet DEF InflightExpires, dbVars, workerVars, historyVars
<1>8. ASSUME Restart PROVE RecallInv'
    BY <1>a, <1>8, RecallQuiet DEF Restart, dbVars, historyVars
<1> QED BY <1>0, <1>1, <1>2, <1>3, <1>4, <1>5, <1>6, <1>7, <1>8, StepCases

\* With SQLite the broadcasts of a conversation leave in the order of server_seq, and a
\* message is recalled once, for any number of workers.
THEOREM BroadcastsOrdered == Spec => []PushedInOrder
<1>1. Init => PushInv /\ RecallInv
  <2> SUFFICES ASSUME Init PROVE PushInv /\ RecallInv
      OBVIOUS
  <2>1. PushInv
      BY DEF Init, PushInv, Sending, Increasing
  <2>2. RecallInv
      BY DEF Init, RecallInv
  <2> QED BY <2>1, <2>2
<1>2. IndInv /\ SessionHeld /\ PushInv /\ RecallInv /\ [Next]_vars => PushInv' /\ RecallInv'
    BY PushStep, RecallStep
<1>3. PushInv /\ RecallInv => PushedInOrder
    BY DEF PushInv, RecallInv, PushedInOrder, Increasing
<1> QED BY <1>1, <1>2, <1>3, Invariance, SessionInvariant, PTL DEF Spec

-----------------------------------------------------------------------------
\* De-duplication

StoredKeys == {m.key : m \in messages} \ {NoKey}

\* The cache has room for every key that was ever stored, so it evicts none.
Fits == Cardinality(StoredKeys) <= DedupSize

\* Worker w works on key k, which is marked in flight.
Working(w, k) == at[w] \in {"seq", "insert", "cache"} /\ job[w].key = k

\* Without stalls no mark expires, so a marked key has one worker.
OneWorker ==
    /\ \A k \in Keys : in_flight[k] # "stale"
    /\ \A k \in Keys : \A w \in Workers : Working(w, k) =>
           in_flight[k] = "fresh" /\ \A v \in Workers : Working(v, k) => v = w

\* What is cached, or about to be, is stored.
CachedIsStored ==
    /\ \A k \in Keys : dedup_index[k] # 0 => k \in StoredKeys
    /\ \A w \in Workers : at[w] = "cache" /\ job[w].key # NoKey => job[w].key \in StoredKeys

\* A stored key is cached or about to be, so nobody is about to store it again.
StoredIsCached ==
    /\ \A k \in StoredKeys : dedup_index[k] # 0 \/ \E w \in Workers : at[w] = "cache" /\ job[w].key = k
    /\ \A w \in Workers : at[w] \in {"seq", "insert"} => job[w].key \notin StoredKeys
    /\ \A m, n \in messages : m.key # NoKey /\ m.key = n.key => m = n

OnceInv ==
    /\ stalls \in Nat /\ crashes \in Nat /\ IsFiniteSet(StoredKeys)
    /\ crashes = 0 /\ stalls = 0 =>
        OneWorker /\ CachedIsStored /\ (Fits => StoredIsCached)

\* A step that stores and caches nothing and marks nothing: a worker may go from "seq" to
\* "insert", or stop working on its key and erase the mark.
LEMMA OnceQuiet ==
    ASSUME IndInv, OnceInv, UNCHANGED <<messages, dedup_index, stalls, crashes>>, NEW w \in Workers,
           \A v \in Workers : v # w => at'[v] = at[v] /\ job'[v] = job[v],
           \/ /\ in_flight' = in_flight
              /\ at[w] \in {"seq", "insert"} /\ at'[w] \in {"seq", "insert"} /\ job'[w] = job[w]
           \/ /\ in_flight' = in_flight
              /\ at[w] \notin {"seq", "insert", "cache"} /\ at'[w] \notin {"seq", "insert", "cache"}
           \/ /\ at[w] \in {"seq", "insert"} /\ at'[w] = "idle" /\ EraseInflight(job[w].key)
    PROVE  OnceInv'
<1>0. StoredKeys' = StoredKeys /\ (Fits' <=> Fits)
    BY DEF StoredKeys, Fits
<1>1. in_flight \in [Keys -> {"none", "fresh", "stale"}]
    BY DEF IndInv, TypeOK
<1>2. \A k \in Keys : in_flight'[k] \in {in_flight[k], "none"}
    BY <1>1 DEF EraseInflight
<1>3. \A v \in Workers, k \in Keys : Working(v, k)' => Working(v, k)
    BY DEF Working
<1>4. ASSUME OneWorker, NEW k \in Keys, NEW v \in Workers, Working(v, k)'
      PROVE  in_flight'[k] = "fresh" /\ \A u \in Workers : Working(u, k)' => u = v
  <2>1. in_flight[k] = "fresh" /\ \A u \in Workers : Working(u, k) => u = v
      BY <1>3, <1>4 DEF OneWorker
  <2>2. in_flight'[k] = in_flight[k]
    <3>1. CASE in_flight' = in_flight
        BY <3>1
    <3>2. CASE at[w] \in {"seq", "insert"} /\ at'[w] = "idle" /\ EraseInflight(job[w].key)
      <4>1. v # w
          BY <1>4, <3>2 DEF Working
      <4>2. job[w].key # k
          BY <2>1, <3>2, <4>1 DEF Working
      <4> QED BY <1>1, <3>2, <4>2 DEF EraseInflight
    <3> QED BY <3>1, <3>2
  <2> QED BY <1>3, <2>1, <2>2
<1>5. \A v \in Workers : /\ at'[v] = "cache" <=> at[v] = "cache"
                         /\ at'[v] = "cache" => job'[v] = job[v]
                         /\ at'[v] \in {"seq", "insert"} => at[v] \in {"seq", "insert"} /\ job'[v] = job[v]
    OBVIOUS
<1>6. OneWorker => OneWorker'
  <2> SUFFICES ASSUME OneWorker PROVE OneWorker'
      OBVIOUS
  <2>1. \A k \in Keys : in_flight'[k] # "stale"
      BY <1>2 DEF OneWorker
  <2> QED BY <1>4, <2>1 DEF OneWorker
<1>7. CachedIsStored => CachedIsStored'
    BY <1>0, <1>5 DEF CachedIsStored
<1>8. StoredIsCached => StoredIsCached'
    BY <1>0, <1>5 DEF StoredIsCached
<1> QED BY <1>0, <1>6, <1>7, <1>8 DEF OnceInv

\* DedupInsert of a stored key evicts nothing if all stored keys fit.
LEMMA NoEviction ==
    ASSUME CacheInv, NEW k \in Keys, NEW n \in Nat \ {0}, DedupInsert(k, n),
           IsFiniteSet(StoredKeys), Fits, k \in StoredKeys,
           \A j \in Keys : dedup_index[j] # 0 => j \in StoredKeys
    PROVE  dedup_index' = [dedup_index EXCEPT ![k] = n]
<1>1. Cardinality(StoredKeys) \in Nat /\ Cardinality(StoredKeys) # 0
    BY FS_CardinalityType, FS_EmptySet
<1>2. DedupSize # 0 /\ DedupSize \in Nat /\ Cardinality(StoredKeys) <= DedupSize
    BY <1>1, DedupSizeAssumption DEF Fits
<1>3. CASE dedup_index[k] = 0
  <2> DEFINE len == Len(dedup_order)
             T == StoredKeys \ {k}
  <2>1. /\ dedup_order \in [1 .. len -> Keys] /\ len \in Nat
        /\ \A i, j \in 1 .. len : dedup_order[i] = dedup_order[j] => i = j
        /\ \A i \in 1 .. len : dedup_order[i] \in {j \in Keys : dedup_index[j] # 0}
      BY DEF CacheInv, IsLRU, Elems
  <2>2. dedup_order \in Injection(1 .. len, T)
    <3>1. \A i \in 1 .. len : dedup_order[i] \in T
        BY <1>3, <2>1
    <3>2. dedup_order \in [1 .. len -> T]
        BY <2>1, <3>1
    <3> QED BY <2>1, <3>2 DEF Injection, IsInjective
  <2>3. IsFiniteSet(T) /\ Cardinality(T) = Cardinality(StoredKeys) - 1
      BY FS_RemoveElement
  <2>4. Cardinality(1 .. len) <= Cardinality(T)
      BY <2>2, <2>3, FS_Injection
  <2>5. Cardinality(1 .. len) = len
    <3>1. \A l \in Nat : Cardinality(1 .. l) = IF 1 > l THEN 0 ELSE l - 1 + 1
      <4> TAKE l \in Nat
      <4>1. l \in Int /\ 1 \in Int
          OBVIOUS
      <4> QED BY <4>1, FS_Interval
    <3> HIDE DEF len
    <3> QED BY <2>1, <3>1
  <2>6. len < DedupSize
      BY <1>1, <1>2, <2>1, <2>3, <2>4, <2>5
  <2> QED BY <1>2, <1>3, <2>6 DEF DedupInsert
<1>4. CASE dedup_index[k] # 0
    BY <1>2, <1>4 DEF DedupInsert
<1> QED BY <1>3, <1>4

\* Whatever is evicted, DedupInsert(k, n) makes no other key cached.
LEMMA InsertAddsOne ==
    ASSUME CacheInv, NEW k \in Keys, NEW n, DedupInsert(k, n)
    PROVE  \A j \in Keys : dedup_index'[j] # 0 => j = k \/ dedup_index[j] # 0
BY DEF DedupInsert, CacheInv

\* Every step stores a key at most once.
LEMMA OnceStep ==
    ASSUME IndInv, OnceInv, [Next]_vars
    PROVE  OnceInv'
<1>0. /\ TypeOK /\ at = [v \in Workers |-> at[v]] /\ job = [v \in Workers |-> job[v]]
      /\ in_flight \in [Keys -> {"none", "fresh", "stale"}]
      /\ stalls \in Nat /\ crashes \in Nat /\ IsFiniteSet(StoredKeys)
    BY DEF IndInv, TypeOK, OnceInv
<1>a. ASSUME NEW w \in Workers, at[w] \in {"dedup", "seq", "insert", "cache"}
      PROVE  job[w].key \in Keys \cup {NoKey}
    BY <1>0, <1>a DEF TypeOK, Jobs
<1>1. CASE UNCHANGED vars
  <2>1. UNCHANGED <<messages, dedup_index, in_flight, at, job, stalls, crashes>>
      BY <1>1 DEF vars, dbVars, cacheVars, workerVars, boundVars
  <2> QED BY <2>1 DEF OnceInv, OneWorker, CachedIsStored, StoredIsCached, StoredKeys, Fits, Working
<1>2. ASSUME NEW w \in Workers, BeginStep(w) PROVE OnceInv'
  <2>1. /\ UNCHANGED <<messages, dedup_index, in_flight, stalls, crashes>>
        /\ at[w] = "idle" /\ at'[w] \notin {"seq", "insert", "cache"}
        /\ \A v \in Workers : v # w => at'[v] = at[v] /\ job'[v] = job[v]
      BY <1>0, <1>2 DEF BeginStep, Begin, dbVars, cacheVars
  <2> QED BY <2>1, OnceQuiet
<1>3. ASSUME NEW w \in Workers, SendMark(w) PROVE OnceInv'
  <2> DEFINE k == job[w].key
  <2>1. /\ UNCHANGED <<messages, dedup_index, stalls, crashes, job>>
        /\ at[w] = "dedup" /\ at' = [at EXCEPT ![w] = "seq"]
        /\ k = NoKey => in_flight' = in_flight
        /\ k # NoKey => /\ dedup_index[k] = 0 /\ in_flight[k] # "fresh"
                        /\ in_flight' = [in_flight EXCEPT ![k] = "fresh"]
      BY <1>3 DEF SendMark, Goto, dbVars, boundVars
  <2>2. k \in Keys \cup {NoKey}
      BY <1>a, <2>1
  <2>3. StoredKeys' = StoredKeys /\ (Fits' <=> Fits)
      BY <2>1 DEF StoredKeys, Fits
  <2>4. \A v \in Workers : v # w => at'[v] = at[v]
      BY <1>0, <2>1
  <2> HIDE DEF k
  <2>5. OneWorker => \A v \in Workers : k \in Keys => ~ Working(v, k)
      BY <2>1, KeysAssumption DEF OneWorker
  <2>6. OneWorker => OneWorker'
    <3> SUFFICES ASSUME OneWorker PROVE OneWorker'
        OBVIOUS
    <3>1. \A j \in Keys : in_flight'[j] = IF j = k THEN "fresh" ELSE in_flight[j]
        BY <1>0, <2>1, <2>2, KeysAssumption
    <3>2. \A v \in Workers, j \in Keys : Working(v, j)' <=> IF v = w THEN j = k ELSE Working(v, j)
        BY <1>0, <2>1, <2>4 DEF Working, k
    <3>3. \A j \in Keys : in_flight'[j] # "stale"
        BY <3>1 DEF OneWorker
    <3>4. ASSUME NEW j \in Keys, NEW v \in Workers, Working(v, j)'
          PROVE  in_flight'[j] = "fresh" /\ \A u \in Workers : Working(u, j)' => u = v
        BY <2>5, <3>1, <3>2, <3>4 DEF OneWorker
    <3> QED BY <3>3, <3>4 DEF OneWorker
  <2>7. CachedIsStored => CachedIsStored'
    <3>1. \A v \in Workers : at'[v] = "cache" => at[v] = "cache"
        BY <1>0, <2>1, <2>4
    <3> QED BY <2>1, <2>3, <3>1 DEF CachedIsStored
  <2>8. OneWorker /\ StoredIsCached => StoredIsCached'
    <3> SUFFICES ASSUME OneWorker, StoredIsCached PROVE StoredIsCached'
        OBVIOUS
    <3>1. k \notin StoredKeys
        BY <2>1, <2>2, <2>5, KeysAssumption DEF StoredIsCached, Working, StoredKeys
    <3>2. \A v \in Workers : /\ at[v] = "cache" => at'[v] = "cache"
                             /\ at'[v] \in {"seq", "insert"} => v = w \/ at[v] \in {"seq", "insert"}
        BY <1>0, <2>1, <2>4
    <3> QED BY <2>1, <2>3, <3>1, <3>2 DEF StoredIsCached, k
  <2> QED BY <2>1, <2>3, <2>6, <2>7, <2>8 DEF OnceInv
<1>4. ASSUME NEW w \in Workers, SendInsert(w) PROVE OnceInv'
  <2> DEFINE k == job[w].key
             new == [conv |-> job[w].conv, seq |-> got[w], user |-> job[w].user, key |-> k]
  <2>1. /\ UNCHANGED <<dedup_index, in_flight, stalls, crashes, job>>
        /\ at[w] = "insert" /\ at' = [at EXCEPT ![w] = "cache"]
        /\ messages' = messages \cup {new} /\ new.key = k
      BY <1>4 DEF SendInsert, Goto, cacheVars, boundVars
  <2>2. k \in Keys \cup {NoKey}
      BY <1>a, <2>1
  <2>3. \A v \in Workers : v # w => at'[v] = at[v]
      BY <1>0, <2>1
  <2> HIDE DEF k, new
  <2>4. StoredKeys' = IF k = NoKey THEN StoredKeys ELSE StoredKeys \cup {k}
      BY <2>1 DEF StoredKeys
  <2>5. IsFiniteSet(StoredKeys') /\ StoredKeys \subseteq StoredKeys'
      BY <1>0, <2>4, FS_AddElement
  <2>6. Fits' => Fits
    <3>1. /\ Cardinality(StoredKeys) <= Cardinality(StoredKeys')
          /\ Cardinality(StoredKeys) \in Nat /\ Cardinality(StoredKeys') \in Nat
        BY <1>0, <2>5, FS_Subset, FS_CardinalityType
    <3>2. Fits' <=> Cardinality(StoredKeys') <= DedupSize
        BY DEF Fits
    <3> QED BY <3>1, <3>2, DedupSizeAssumption DEF Fits
  <2>7. OneWorker => OneWorker'
    <3>1. \A v \in Workers, j \in Keys : Working(v, j)' <=> Working(v, j)
        BY <1>0, <2>1, <2>3 DEF Working
    <3> QED BY <2>1, <3>1 DEF OneWorker
  <2>8. CachedIsStored => CachedIsStored'
    <3>1. \A v \in Workers : at'[v] = "cache" => v = w \/ at[v] = "cache"
        BY <2>3
    <3>2. k # NoKey => k \in StoredKeys'
        BY <2>4
    <3> QED BY <2>1, <2>5, <3>1, <3>2 DEF CachedIsStored, k
  <2>9. OneWorker /\ StoredIsCached => StoredIsCached'
    <3> SUFFICES ASSUME OneWorker, StoredIsCached PROVE StoredIsCached'
        OBVIOUS
    <3>1. at'[w] = "cache" /\ job'[w].key = k /\ job' = job
        BY <1>0, <2>1 DEF k
    <3>2. \A j \in StoredKeys' :
            dedup_index'[j] # 0 \/ \E v \in Workers : at'[v] = "cache" /\ job'[v].key = j
      <4> SUFFICES ASSUME NEW j \in StoredKeys', j # k
                   PROVE  dedup_index'[j] # 0 \/ \E v \in Workers : at'[v] = "cache" /\ job'[v].key = j
          BY <3>1
      <4>1. j \in StoredKeys
          BY <2>4
      <4> QED BY <2>1, <2>3, <3>1, <4>1 DEF StoredIsCached
    <3>3. \A v \in Workers : at'[v] \in {"seq", "insert"} => job'[v].key \notin StoredKeys'
      <4> SUFFICES ASSUME NEW v \in Workers, at'[v] \in {"seq", "insert"}
                   PROVE  job[v].key \notin StoredKeys'
          BY <3>1
      <4>1. v # w /\ at[v] \in {"seq", "insert"}
          BY <2>3, <3>1
      <4>2. job[v].key # k \/ k = NoKey
          BY <2>1, <2>2, <4>1 DEF OneWorker, Working, k
      <4> QED BY <2>4, <4>1, <4>2 DEF StoredIsCached
    <3>4. \A m, n \in messages' : m.key # NoKey /\ m.key = n.key => m = n
      <4>1. k \notin StoredKeys
          BY <2>1 DEF StoredIsCached, k
      <4>2. \A m \in messages : m.key # NoKey => m.key # k
          BY <4>1 DEF StoredKeys
      <4> QED BY <2>1, <4>2 DEF StoredIsCached
    <3> QED BY <3>2, <3>3, <3>4 DEF StoredIsCached
  <2>10. stalls' \in Nat /\ crashes' \in Nat /\ IsFiniteSet(StoredKeys)'
      BY <1>0, <2>1, <2>5
  <2>11. crashes' = 0 /\ stalls' = 0 => OneWorker' /\ CachedIsStored' /\ (Fits' => StoredIsCached')
      BY <2>1, <2>6, <2>7, <2>8, <2>9 DEF OnceInv
  <2> QED BY <2>10, <2>11 DEF OnceInv
<1>5. ASSUME NEW w \in Workers, SendCache(w) PROVE OnceInv'
  <2> DEFINE k == job[w].key
  <2>1. /\ UNCHANGED <<messages, stalls, crashes, job>>
        /\ at[w] = "cache" /\ at' = [at EXCEPT ![w] = "unhide"]
        /\ EraseInflight(k)
        /\ k = NoKey => dedup_index' = dedup_index
        /\ k # NoKey => DedupInsert(k, got[w])
      BY <1>5 DEF SendCache, Goto, dbVars, boundVars
  <2>2. k \in Keys \cup {NoKey} /\ got[w] \in Nat \ {0} /\ CacheInv
      BY <1>0, <1>a, <2>1, CacheInvIs DEF IndInv, PositiveDraws, TypeOK
  <2>3. /\ \A v \in Workers : v # w => at'[v] = at[v]
        /\ at'[w] = "unhide"
      BY <1>0, <2>1
  <2>4. StoredKeys' = StoredKeys /\ (Fits' <=> Fits)
      BY <2>1 DEF StoredKeys, Fits
  <2> HIDE DEF k
  <2>5. OneWorker => OneWorker'
    <3> SUFFICES ASSUME OneWorker PROVE OneWorker'
        OBVIOUS
    <3>1. \A j \in Keys : in_flight'[j] = IF j = k THEN "none" ELSE in_flight[j]
        BY <1>0, <2>1, <2>2, KeysAssumption DEF EraseInflight
    <3>2. \A v \in Workers, j \in Keys : Working(v, j)' => v # w /\ Working(v, j)
        BY <2>1, <2>3 DEF Working
    <3>3. \A j \in Keys : in_flight'[j] # "stale"
        BY <3>1 DEF OneWorker
    <3>4. k \in Keys => Working(w, k)
        BY <2>1 DEF Working, k
    <3>5. ASSUME NEW j \in Keys, NEW v \in Workers, Working(v, j)'
          PROVE  in_flight'[j] = "fresh" /\ \A u \in Workers : Working(u, j)' => u = v
        BY <3>1, <3>2, <3>4, <3>5 DEF OneWorker
    <3> QED BY <3>3, <3>5 DEF OneWorker
  <2>6. CachedIsStored => k = NoKey \/ (k \in Keys /\ k \in StoredKeys)
      BY <2>1, <2>2 DEF CachedIsStored, k
  <2>7. CachedIsStored => CachedIsStored'
    <3> SUFFICES ASSUME CachedIsStored PROVE CachedIsStored'
        OBVIOUS
    <3>1. \A j \in Keys : dedup_index'[j] # 0 => j \in StoredKeys
      <4>1. CASE k = NoKey
          BY <2>1, <4>1 DEF CachedIsStored
      <4>2. CASE k # NoKey
        <5>1. \A j \in Keys : dedup_index'[j] # 0 => j = k \/ dedup_index[j] # 0
            BY <2>1, <2>2, <2>6, <4>2, InsertAddsOne
        <5> QED BY <2>6, <4>2, <5>1 DEF CachedIsStored
      <4> QED BY <4>1, <4>2
    <3>2. \A v \in Workers : at'[v] = "cache" => at[v] = "cache"
        BY <2>3
    <3> QED BY <2>1, <2>4, <3>1, <3>2 DEF CachedIsStored
  <2>8. Fits /\ CachedIsStored /\ StoredIsCached => StoredIsCached'
    <3> SUFFICES ASSUME Fits, CachedIsStored, StoredIsCached PROVE StoredIsCached'
        OBVIOUS
    <3>1. \A j \in Keys : dedup_index'[j] # 0 <=> j = k \/ dedup_index[j] # 0
      <4>1. CASE k = NoKey
          BY <2>1, <4>1, KeysAssumption
      <4>2. CASE k # NoKey
        <5>1. dedup_index' = [dedup_index EXCEPT ![k] = got[w]]
            BY <1>0, <2>1, <2>2, <2>6, <4>2, NoEviction DEF CachedIsStored
        <5> QED BY <2>2, <5>1 DEF CacheInv
      <4> QED BY <4>1, <4>2
    <3>2. StoredKeys \subseteq Keys
        BY <1>0 DEF TypeOK, StoredKeys
    <3>3. \A j \in StoredKeys :
            dedup_index'[j] # 0 \/ \E v \in Workers : at'[v] = "cache" /\ job[v].key = j
        BY <2>3, <3>1, <3>2 DEF StoredIsCached, k
    <3>4. \A v \in Workers : at'[v] \in {"seq", "insert"} => at[v] \in {"seq", "insert"}
        BY <2>3
    <3> QED BY <2>1, <2>4, <3>3, <3>4 DEF StoredIsCached
  <2> QED BY <2>1, <2>4, <2>5, <2>7, <2>8 DEF OnceInv
<1>6. ASSUME NEW w \in Workers, HandlerStep(w), ~ SendMark(w), ~ SendInsert(w), ~ SendCache(w)
      PROVE  OnceInv'
  <2>1. /\ UNCHANGED <<messages, dedup_index, stalls, crashes>>
        /\ \A v \in Workers : v # w => at'[v] = at[v] /\ job'[v] = job[v]
        /\ \/ /\ in_flight' = in_flight
              /\ at[w] \in {"seq", "insert"} /\ at'[w] \in {"seq", "insert"} /\ job'[w] = job[w]
           \/ /\ in_flight' = in_flight
              /\ at[w] \notin {"seq", "insert", "cache"} /\ at'[w] \notin {"seq", "insert", "cache"}
           \/ /\ at[w] \in {"seq", "insert"} /\ at'[w] = "idle" /\ EraseInflight(job[w].key)
    <3> USE <1>0, <1>6 DEF dbVars, cacheVars, boundVars, Return, Goto
    <3>1. CASE SendCached(w) \/ SendBusy(w) \/ SendUnhide(w) \/ SendPush(w)
        BY <3>1 DEF SendCached, SendBusy, SendUnhide, SendPush
    <3>2. CASE SendGenerateSeq(w) \/ SendRefused(w) \/ SendInsertFailed(w)
        BY <3>2 DEF SendGenerateSeq, SendRefused, SendInsertFailed
    <3>3. CASE RecallRefused(w) \/ RecallFound(w) \/ RecallUpdate(w)
        BY <3>3 DEF RecallRefused, RecallFound, RecallUpdate
    <3>4. CASE ReadRefused(w) \/ ReadClamp(w) \/ ReadUpdate(w) \/ DeliverUpdate(w) \/ HideUpdate(w)
        BY <3>4 DEF ReadRefused, ReadClamp, ReadUpdate, DeliverUpdate, HideUpdate
    <3> QED BY <3>1, <3>2, <3>3, <3>4 DEF HandlerStep
  <2> QED BY <2>1, OnceQuiet
<1>7. ASSUME NEW k \in Keys, InflightExpires(k) PROVE OnceInv'
  <2>1. messages' = messages /\ crashes' = crashes /\ stalls' = stalls + 1
      BY <1>7 DEF InflightExpires, dbVars
  <2>2. StoredKeys' = StoredKeys
      BY <2>1 DEF StoredKeys
  <2> QED BY <1>0, <2>1, <2>2 DEF OnceInv
<1>8. ASSUME Restart PROVE OnceInv'
  <2>1. messages' = messages /\ stalls' = stalls /\ crashes' = crashes + 1
      BY <1>8 DEF Restart, dbVars
  <2>2. StoredKeys' = StoredKeys
      BY <2>1 DEF StoredKeys
  <2> QED BY <1>0, <2>1, <2>2 DEF OnceInv
<1> QED BY <1>0, <1>1, <1>2, <1>3, <1>4, <1>5, <1>6, <1>7, <1>8, StepCases

\* A message is stored once however often and however concurrently its request is sent, as
\* long as the keys stored fit in the cache, no handler outlives kInflightTimeout and the
\* server does not restart; on either database, whatever statements fail.
THEOREM SentAgainStoredOnce == Spec => []StoredOnce
<1>1. Init => OnceInv
  <2> SUFFICES ASSUME Init PROVE OnceInv
      OBVIOUS
  <2>1. StoredKeys = {}
      BY DEF Init, StoredKeys
  <2>2. IsFiniteSet(StoredKeys)
      BY <2>1, FS_EmptySet
  <2>3. OneWorker /\ CachedIsStored /\ StoredIsCached
      BY <2>1 DEF Init, OneWorker, CachedIsStored, StoredIsCached, Working
  <2> QED BY <2>2, <2>3 DEF Init, OnceInv
<1>2. IndInv /\ OnceInv /\ [Next]_vars => OnceInv'
    BY OnceStep
<1>3. OnceInv => StoredOnce
    BY DEF OnceInv, StoredIsCached, StoredOnce, Fits, StoredKeys
<1> QED BY <1>1, <1>2, <1>3, Invariance, PTL DEF Spec
=============================================================================
