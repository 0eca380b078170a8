-------------------------- MODULE MPMCQueueProofs --------------------------
(***************************************************************************)
(* Safety of the lock-free queue for any number of threads, items and any  *)
(* capacity of at least two.                                               *)
(***************************************************************************)
EXTENDS MPMCQueue, SequenceTheorems, TLAPS

\* The ticket window: what the sequence number of a cell says.  Position n of the
\* window is full (published, not claimed by a Pop), free or claimed by a Push that has
\* not published it, or still being emptied by the Pop of the previous round.
Full(n) == seq[Slot(n)] = n + 1 /\ n < head /\ data[Slot(n)] = log[n + 1]
Free(n) == seq[Slot(n)] = n /\ (n < head => \E p \in Writing : pos[p] = n)
Emptying(n) ==
    seq[Slot(n)] = n + 1 - Capacity /\ head <= n /\ \E c \in Reading : pos[c] = n - Capacity

WindowInv == \A n \in tail .. tail + Capacity - 1 : Full(n) \/ Free(n) \/ Emptying(n)

ProducerOK(p) ==
    /\ pc[p] \in PushPCs => pos[p] <= head
    /\ pc[p] \in PushPCs \ {"push_publish"} => item[p] \in Items
    /\ pc[p] = "push_cas" /\ pos[p] = head => seq[Slot(pos[p])] = pos[p]
    /\ p \in Writing => tail <= pos[p] /\ pos[p] < head /\ seq[Slot(pos[p])] = pos[p]
    /\ pc[p] = "push_write" => item[p] = log[pos[p] + 1]
    /\ pc[p] = "push_publish" => data[Slot(pos[p])] = log[pos[p] + 1]

ProducerInv == \A p \in Producers : ProducerOK(p)

ConsumerOK(c) ==
    /\ pc[c] \in PopPCs => pos[c] <= tail
    /\ pc[c] = "pop_cas" /\ pos[c] = tail => seq[Slot(pos[c])] = pos[c] + 1
    /\ c \in Reading => pos[c] < tail /\ head <= pos[c] + Capacity /\ seq[Slot(pos[c])] = pos[c] + 1
    /\ pc[c] = "pop_read" => data[Slot(pos[c])] = log[pos[c] + 1]
    /\ pc[c] = "pop_release" => item[c] = log[pos[c] + 1]

ConsumerInv == \A c \in Consumers : ConsumerOK(c)

DistinctInv ==
    /\ \A p, q \in Writing : p # q => pos[p] # pos[q]
    /\ \A c, d \in Reading : c # d => pos[c] # pos[d]

IndInv ==
    /\ TypeOK
    /\ WindowBounded
    /\ Len(log) = head
    /\ WindowInv
    /\ ProducerInv
    /\ ConsumerInv
    /\ DistinctInv

-----------------------------------------------------------------------------
\* The cell of a position is a cell.
LEMMA SlotType == \A n \in Nat : Slot(n) \in Cells
BY CapacityAssumption DEF Slot, Cells

\* Division with remainder, for a positive divisor.
LEMMA DivMod ==
    ASSUME NEW n \in Nat, NEW d \in Nat, d >= 1
    PROVE  n = d * (n \div d) + (n % d) /\ n \div d \in Int /\ n % d \in 0 .. d - 1
OBVIOUS

\* Two positions less than Capacity apart that share a cell are equal.
LEMMA SlotInjective ==
    ASSUME NEW m \in Nat, NEW n \in Nat, m <= n, n < m + Capacity, Slot(m) = Slot(n)
    PROVE  m = n
<1> DEFINE i == m \div Capacity
           j == n \div Capacity
<1>1. /\ m = Capacity * i + (m % Capacity) /\ i \in Int
      /\ n = Capacity * j + (n % Capacity) /\ j \in Int
  BY DivMod, CapacityAssumption
<1>2. n - m = Capacity * (j - i)
  BY <1>1, CapacityAssumption DEF Slot
<1>3. j - i \in Int /\ 0 <= Capacity * (j - i) /\ Capacity * (j - i) < Capacity
  BY <1>1, <1>2, CapacityAssumption
<1>4. \A k \in Int : 0 <= Capacity * k /\ Capacity * k < Capacity => k = 0
  BY CapacityAssumption, SMTT(30)
<1> QED
  BY <1>2, <1>3, <1>4, CapacityAssumption

\* The same, whichever of the two positions comes first.
LEMMA SlotSame ==
    ASSUME NEW m \in Nat, NEW n \in Nat, m < n + Capacity, n < m + Capacity, Slot(m) = Slot(n)
    PROVE  m = n
<1>1. CASE m <= n
  BY <1>1, SlotInjective
<1>2. CASE n <= m
  BY <1>2, SlotInjective
<1> QED
  BY <1>1, <1>2

\* A position shares its cell with the position one round later.
LEMMA SlotShift == \A n \in Nat : Slot(n + Capacity) = Slot(n)
<1> SUFFICES ASSUME NEW n \in Nat PROVE Slot(n + Capacity) = Slot(n)
  OBVIOUS
<1> DEFINE i == n \div Capacity
           j == (n + Capacity) \div Capacity
           r == n % Capacity
           s == (n + Capacity) % Capacity
<1>1. n = Capacity * i + r /\ i \in Int /\ r \in 0 .. Capacity - 1
  BY DivMod, CapacityAssumption
<1>2. n + Capacity = Capacity * j + s /\ j \in Int /\ s \in 0 .. Capacity - 1
  <2>1. n + Capacity \in Nat /\ Capacity \in Nat /\ Capacity >= 1
    BY CapacityAssumption
  <2> HIDE DEF j, s
  <2>2. \A m \in Nat : m = Capacity * (m \div Capacity) + (m % Capacity) /\ m \div Capacity \in Int
                          /\ m % Capacity \in 0 .. Capacity - 1
    BY <2>1, DivMod
  <2> QED
    BY <2>1, <2>2 DEF j, s
<1>3. Capacity * (j - i - 1) = r - s
  BY <1>1, <1>2, CapacityAssumption
<1>4. j - i - 1 \in Int /\ r - s > 0 - Capacity /\ r - s < Capacity
  BY <1>1, <1>2, CapacityAssumption
<1>5. \A k \in Int : 0 - Capacity < Capacity * k /\ Capacity * k < Capacity => k = 0
  BY CapacityAssumption, SMTT(30)
<1>6. j - i - 1 = 0
  BY <1>3, <1>4, <1>5
<1> QED
  BY <1>3, <1>6, <1>1, <1>2, CapacityAssumption DEF Slot

\* Neighbouring positions have different cells: this is where Capacity >= 2 is needed.
LEMMA SlotNext == \A n \in Nat : Slot(n) # Slot(n + 1)
<1> SUFFICES ASSUME NEW n \in Nat, Slot(n) = Slot(n + 1) PROVE FALSE
  OBVIOUS
<1> QED
  BY SlotInjective, CapacityAssumption

-----------------------------------------------------------------------------
LEMMA IndInvInit == Init => IndInv
<1> SUFFICES ASSUME Init PROVE IndInv
  OBVIOUS
<1> USE CapacityAssumption
<1>1. TypeOK
  BY DEF Init, TypeOK, Cells, Threads, PushPCs, PopPCs, ReadyPCs
<1>2. WindowBounded /\ Len(log) = head
  BY DEF Init, WindowBounded
<1>3. WindowInv
  <2> SUFFICES ASSUME NEW n \in tail .. tail + Capacity - 1 PROVE Free(n)
    BY DEF WindowInv
  <2>1. n \in Cells /\ Slot(n) = n
    BY DEF Init, Cells, Slot
  <2> QED
    BY <2>1 DEF Init, Free
<1>4. ProducerInv /\ ConsumerInv /\ DistinctInv
  BY DEF Init, ProducerInv, ProducerOK, ConsumerInv, ConsumerOK, DistinctInv, Writing, Reading,
         Threads, PushPCs, PopPCs
<1> QED
  BY <1>1, <1>2, <1>3, <1>4 DEF IndInv

\* The types the arithmetic of the steps below rests on.
LEMMA PositionTypes ==
    ASSUME IndInv
    PROVE  /\ head \in Nat /\ tail \in Nat /\ tail <= head /\ head <= tail + Capacity
           /\ \A t \in Threads : pos[t] \in Nat
BY DEF IndInv, TypeOK, WindowBounded

\* What the invariant says of the position of a thread that owns a cell.
LEMMA OwnedPositions ==
    ASSUME IndInv
    PROVE  /\ \A p \in Writing : /\ p \in Threads /\ pos[p] \in Nat
                                 /\ tail <= pos[p] /\ pos[p] < head /\ seq[Slot(pos[p])] = pos[p]
           /\ \A c \in Reading : /\ c \in Threads /\ pos[c] \in Nat
                                 /\ pos[c] < tail /\ head <= pos[c] + Capacity
                                 /\ seq[Slot(pos[c])] = pos[c] + 1
BY PositionTypes DEF IndInv, ProducerInv, ProducerOK, ConsumerInv, ConsumerOK, Writing, Reading, Threads

\* The invariant gives every owned cell to one thread.
LEMMA OwnersDiffer == IndInv => CellExclusive
<1> SUFFICES ASSUME IndInv, NEW t \in Writing \cup Reading, NEW u \in Writing \cup Reading,
                    t # u, Slot(pos[t]) = Slot(pos[u])
             PROVE  FALSE
  BY DEF CellExclusive
<1> USE CapacityAssumption
<1>0. pos[t] \in Nat /\ pos[u] \in Nat
  BY OwnedPositions
<1>1. pos[t] # pos[u]
  <2>1. CASE t \in Writing /\ u \in Writing
    BY <2>1 DEF IndInv, DistinctInv
  <2>2. CASE t \in Reading /\ u \in Reading
    BY <2>2 DEF IndInv, DistinctInv
  <2>3. CASE t \in Writing /\ u \in Reading
    BY <2>3, OwnedPositions, PositionTypes
  <2>4. CASE t \in Reading /\ u \in Writing
    BY <2>4, OwnedPositions, PositionTypes
  <2> QED
    BY <2>1, <2>2, <2>3, <2>4
<1>2. pos[t] < pos[u] + Capacity /\ pos[u] < pos[t] + Capacity
  BY OwnedPositions, PositionTypes
<1> QED
  BY <1>0, <1>1, <1>2, SlotSame

\* The window position of a cell that a thread owns.
LEMMA OwnedInWindow ==
    ASSUME IndInv, NEW n \in tail .. tail + Capacity - 1
    PROVE  /\ \A p \in Writing : Slot(n) = Slot(pos[p]) => n = pos[p]
           /\ \A c \in Reading : Slot(n) = Slot(pos[c]) => n = pos[c] + Capacity
<1> USE CapacityAssumption
<1>0. n \in Nat /\ tail <= n /\ n < tail + Capacity
  BY PositionTypes
<1>1. ASSUME NEW p \in Writing, Slot(n) = Slot(pos[p]) PROVE n = pos[p]
  <2>1. pos[p] \in Nat /\ n < pos[p] + Capacity /\ pos[p] < n + Capacity
    BY <1>0, OwnedPositions, PositionTypes
  <2> QED
    BY <1>0, <1>1, <2>1, SlotSame
<1>2. ASSUME NEW c \in Reading, Slot(n) = Slot(pos[c]) PROVE n = pos[c] + Capacity
  <2>1. /\ pos[c] + Capacity \in Nat
        /\ n < (pos[c] + Capacity) + Capacity /\ pos[c] + Capacity < n + Capacity
    BY <1>0, OwnedPositions, PositionTypes
  <2>2. Slot(pos[c] + Capacity) = Slot(n)
    BY <1>2, SlotShift, OwnedPositions
  <2> QED
    BY <1>0, <2>1, <2>2, SlotSame
<1> QED
  BY <1>1, <1>2

-----------------------------------------------------------------------------
\* A step that leaves the ring alone and moves thread t, which owns no cell before or
\* after it, keeps what the invariant says of the ring and of every other thread.
LEMMA LocalStep ==
    ASSUME IndInv, NEW t \in Threads,
           UNCHANGED <<seq, data, head, tail, log>>,
           \A u \in Threads \ {t} : pc'[u] = pc[u] /\ pos'[u] = pos[u] /\ item'[u] = item[u],
           t \notin Writing, t \notin Reading, t \notin Writing', t \notin Reading'
    PROVE  /\ WindowBounded' /\ (Len(log) = head)' /\ WindowInv' /\ DistinctInv'
           /\ \A p \in Producers \ {t} : ProducerOK(p)'
           /\ \A c \in Consumers \ {t} : ConsumerOK(c)'
<1> USE CapacityAssumption
<1>1. Writing' = Writing /\ Reading' = Reading
  BY DEF Writing, Reading, Threads
<1>2. \A u \in Writing \cup Reading : pos'[u] = pos[u]
  BY DEF Writing, Reading, Threads
<1>3. WindowBounded' /\ (Len(log) = head)'
  BY DEF IndInv, WindowBounded
<1>4. WindowInv'
  BY <1>1, <1>2 DEF IndInv, WindowInv, Full, Free, Emptying
<1>5. DistinctInv'
  BY <1>1, <1>2 DEF IndInv, DistinctInv
<1>6. \A p \in Producers \ {t} : ProducerOK(p)'
  BY <1>1 DEF IndInv, ProducerInv, ProducerOK, Threads
<1>7. \A c \in Consumers \ {t} : ConsumerOK(c)'
  BY <1>1 DEF IndInv, ConsumerInv, ConsumerOK, Threads
<1> QED
  BY <1>3, <1>4, <1>5, <1>6, <1>7

LEMMA PushCallInv ==
    ASSUME IndInv, NEW p \in Producers, NEW x \in fresh, PushCall(p, x)
    PROVE  IndInv'
<1> USE ThreadsAssumption
<1>1. TypeOK'
  BY DEF PushCall, IndInv, TypeOK, Threads, PushPCs, PopPCs, ReadyPCs
<1>2. /\ p \in Threads \ Consumers
      /\ pc'[p] = "push_load" /\ pos'[p] = head /\ item'[p] \in Items
      /\ p \notin Writing /\ p \notin Reading /\ p \notin Writing' /\ p \notin Reading'
  BY DEF PushCall, IndInv, TypeOK, Threads, Writing, Reading, ReadyPCs
<1>3. /\ UNCHANGED <<seq, data, head, tail, log>>
      /\ \A u \in Threads \ {p} : pc'[u] = pc[u] /\ pos'[u] = pos[u] /\ item'[u] = item[u]
  BY DEF PushCall, IndInv, TypeOK
<1>4. ProducerOK(p)'
  BY <1>2, <1>3, PositionTypes DEF ProducerOK
<1> QED
  BY <1>1, <1>2, <1>3, <1>4, LocalStep DEF IndInv, ProducerInv, ConsumerInv

LEMMA PushLoadInv ==
    ASSUME IndInv, NEW p \in Producers, PushLoad(p)
    PROVE  IndInv'
<1> USE ThreadsAssumption
<1>1. TypeOK'
  BY DEF PushLoad, IndInv, TypeOK, Threads, PushPCs, PopPCs, ReadyPCs
<1>2. /\ p \in Threads \ Consumers
      /\ pc'[p] \in {"push_cas", "push_reload", "fail"}
      /\ pc'[p] = "push_cas" => seq[Slot(pos[p])] - pos[p] = 0
      /\ pos[p] <= head /\ item[p] \in Items
      /\ p \notin Writing /\ p \notin Reading /\ p \notin Writing' /\ p \notin Reading'
  BY DEF PushLoad, IndInv, TypeOK, Threads, Writing, Reading, ProducerInv, ProducerOK, PushPCs
<1>3. /\ UNCHANGED <<seq, data, head, tail, log, pos, item>>
      /\ \A u \in Threads \ {p} : pc'[u] = pc[u] /\ pos'[u] = pos[u] /\ item'[u] = item[u]
  BY DEF PushLoad, IndInv, TypeOK
<1>4. seq[Slot(pos[p])] \in Nat
  BY <1>2, SlotType, PositionTypes DEF IndInv, TypeOK
<1>5. ProducerOK(p)'
  BY <1>2, <1>3, <1>4, PositionTypes DEF ProducerOK
<1> QED
  BY <1>1, <1>2, <1>3, <1>5, LocalStep DEF IndInv, ProducerInv, ConsumerInv

LEMMA PushRetryInv ==
    ASSUME IndInv, NEW p \in Producers, PushRetry(p)
    PROVE  IndInv'
<1> USE ThreadsAssumption
<1>1. TypeOK'
  BY DEF PushRetry, IndInv, TypeOK, Threads, PushPCs, PopPCs, ReadyPCs
<1>2. /\ p \in Threads \ Consumers
      /\ pc'[p] = "push_load" /\ pos'[p] = head /\ item'[p] \in Items
      /\ p \notin Writing /\ p \notin Reading /\ p \notin Writing' /\ p \notin Reading'
  BY DEF PushRetry, IndInv, TypeOK, Threads, Writing, Reading, ProducerInv, ProducerOK, PushPCs
<1>3. /\ UNCHANGED <<seq, data, head, tail, log>>
      /\ \A u \in Threads \ {p} : pc'[u] = pc[u] /\ pos'[u] = pos[u] /\ item'[u] = item[u]
  BY DEF PushRetry, IndInv, TypeOK
<1>4. ProducerOK(p)'
  BY <1>2, <1>3, PositionTypes DEF ProducerOK
<1> QED
  BY <1>1, <1>2, <1>3, <1>4, LocalStep DEF IndInv, ProducerInv, ConsumerInv

\* The CAS on head_ claims the cell of position head, which is free.
LEMMA PushClaimInv ==
    ASSUME IndInv, NEW p \in Producers, PushClaim(p)
    PROVE  IndInv'
<1> USE CapacityAssumption, ThreadsAssumption
<1>0. /\ p \in Threads \ Consumers
      /\ pos[p] = head /\ seq[Slot(head)] = head /\ item[p] \in Items /\ p \notin Writing
  BY DEF PushClaim, IndInv, ProducerInv, ProducerOK, PushPCs, Writing, Threads
<1>1. TypeOK'
  BY <1>0 DEF PushClaim, IndInv, TypeOK, Threads, PushPCs, PopPCs, ReadyPCs
<1>2. /\ UNCHANGED <<seq, data, tail, pos, item>>
      /\ head' = head + 1
      /\ pc'[p] = "push_write"
      /\ \A u \in Threads \ {p} : pc'[u] = pc[u]
  BY <1>0 DEF PushClaim, IndInv, TypeOK
<1>3. Len(log') = head + 1
  BY <1>0 DEF PushClaim, IndInv, TypeOK
<1>4. \A n \in Nat : n < head => log'[n + 1] = log[n + 1]
  BY <1>0 DEF PushClaim, IndInv, TypeOK
<1>5. log'[head + 1] = item[p]
  BY <1>0 DEF PushClaim, IndInv, TypeOK
<1>6. Writing' = Writing \cup {p} /\ Reading' = Reading
  BY <1>0, <1>2 DEF Threads, Writing, Reading
<1>7. head # tail + Capacity
  <2> SUFFICES ASSUME head = tail + Capacity PROVE FALSE
    OBVIOUS
  <2>1. Slot(tail) = Slot(head)
    BY SlotShift, PositionTypes
  <2>2. tail \in tail .. tail + Capacity - 1
    BY PositionTypes
  <2>3. seq[Slot(tail)] \in {tail + 1, tail, tail + 1 - Capacity}
    BY <2>2 DEF IndInv, WindowInv, Full, Free, Emptying
  <2> QED
    BY <1>0, <2>1, <2>3, PositionTypes
<1>8. WindowBounded' /\ (Len(log) = head)'
  BY <1>2, <1>3, <1>7, PositionTypes DEF WindowBounded
<1>9. WindowInv'
  <2> SUFFICES ASSUME NEW n \in tail .. tail + Capacity - 1
               PROVE  (Full(n) \/ Free(n) \/ Emptying(n))'
    BY <1>2 DEF WindowInv
  <2>0. n \in Nat /\ head \in Nat
    BY PositionTypes
  <2>1. CASE n = head
    BY <2>1, <1>0, <1>2, <1>6 DEF Free
  <2>2. CASE n # head /\ Full(n)
    BY <2>0, <2>2, <1>2, <1>4 DEF Full
  <2>3. CASE n # head /\ Free(n)
    BY <2>0, <2>3, <1>2, <1>6 DEF Free
  <2>4. CASE n # head /\ Emptying(n)
    BY <2>0, <2>4, <1>2, <1>6 DEF Emptying
  <2> QED
    BY <2>1, <2>2, <2>3, <2>4 DEF IndInv, WindowInv
<1>10. ProducerInv'
  <2> SUFFICES ASSUME NEW q \in Producers PROVE ProducerOK(q)'
    BY DEF ProducerInv
  <2>0. q \in Threads /\ ProducerOK(q) /\ pos[q] \in Nat
    BY PositionTypes DEF IndInv, ProducerInv, Threads
  <2>1. CASE q = p
    BY <2>1, <1>0, <1>2, <1>5, PositionTypes DEF ProducerOK
  <2>2. CASE q # p
    BY <2>0, <2>2, <1>0, <1>2, <1>4, <1>6, PositionTypes DEF ProducerOK, Writing, PushPCs
  <2> QED
    BY <2>1, <2>2
<1>11. ConsumerInv'
  <2> SUFFICES ASSUME NEW c \in Consumers PROVE ConsumerOK(c)'
    BY DEF ConsumerInv
  <2>1. c \in Threads \ {p} /\ ConsumerOK(c) /\ pos[c] \in Nat
    BY <1>0, PositionTypes DEF IndInv, ConsumerInv, Threads
  <2>2. c \in Reading => pos[c] + Capacity # head
    <3> SUFFICES ASSUME c \in Reading, pos[c] + Capacity = head PROVE FALSE
      OBVIOUS
    <3>1. Slot(pos[c]) = Slot(head)
      BY <2>1, SlotShift
    <3> QED
      BY <3>1, <2>1, <1>0 DEF ConsumerOK
  <2>3. c \in Reading => pos[c] < head
    BY <2>1, PositionTypes DEF ConsumerOK
  <2> QED
    BY <2>1, <2>2, <2>3, <1>2, <1>4, <1>6, PositionTypes DEF ConsumerOK, Reading
<1>12. DistinctInv'
  <2>1. \A q \in Writing : pos[q] # pos[p]
    BY <1>0, PositionTypes, OwnedPositions
  <2> QED
    BY <2>1, <1>2, <1>6 DEF IndInv, DistinctInv
<1> QED
  BY <1>1, <1>8, <1>9, <1>10, <1>11, <1>12 DEF IndInv

\* The plain write of the data: no other thread owns the cell.
LEMMA PushWriteInv ==
    ASSUME IndInv, NEW p \in Producers, PushWrite(p)
    PROVE  IndInv'
<1> USE CapacityAssumption, ThreadsAssumption
<1>0. /\ p \in Threads \ Consumers /\ p \in Writing /\ pos[p] \in Nat
      /\ seq[Slot(pos[p])] = pos[p] /\ pos[p] <= head
      /\ item[p] \in Items /\ item[p] = log[pos[p] + 1]
      /\ Slot(pos[p]) \in Cells
  BY OwnedPositions, PositionTypes, SlotType DEF PushWrite, IndInv, ProducerInv, ProducerOK, PushPCs, Writing, Threads
<1>1. TypeOK'
  BY <1>0 DEF PushWrite, IndInv, TypeOK, Threads, PushPCs, PopPCs, ReadyPCs
<1>2. /\ UNCHANGED <<seq, head, tail, pos, log>>
      /\ pc'[p] = "push_publish"
      /\ \A u \in Threads \ {p} : pc'[u] = pc[u] /\ item'[u] = item[u]
  BY <1>0 DEF PushWrite, IndInv, TypeOK
<1>3. data'[Slot(pos[p])] = item[p] /\ \A i \in Cells : i # Slot(pos[p]) => data'[i] = data[i]
  BY <1>0 DEF PushWrite, IndInv, TypeOK
<1>4. Writing' = Writing /\ Reading' = Reading
  BY <1>0, <1>2 DEF Threads, Writing, Reading
<1>5. WindowBounded' /\ (Len(log) = head)' /\ DistinctInv'
  BY <1>2, <1>4 DEF IndInv, WindowBounded, DistinctInv
<1>6. WindowInv'
  <2> SUFFICES ASSUME NEW n \in tail .. tail + Capacity - 1
               PROVE  (Full(n) \/ Free(n) \/ Emptying(n))'
    BY <1>2 DEF WindowInv
  <2>1. n \in Nat /\ Slot(n) \in Cells
    BY PositionTypes, SlotType
  <2>2. CASE Full(n)
    <3>1. Slot(n) # Slot(pos[p])
      BY <2>1, <2>2, <1>0, OwnedInWindow DEF Full
    <3> QED
      BY <3>1, <2>1, <2>2, <1>2, <1>3 DEF Full
  <2>3. CASE Free(n)
    BY <2>3, <1>2, <1>4 DEF Free
  <2>4. CASE Emptying(n)
    BY <2>4, <1>2, <1>4 DEF Emptying
  <2> QED
    BY <2>2, <2>3, <2>4 DEF IndInv, WindowInv
<1>7. ProducerInv'
  <2> SUFFICES ASSUME NEW q \in Producers PROVE ProducerOK(q)'
    BY DEF ProducerInv
  <2>0. q \in Threads /\ ProducerOK(q) /\ pos[q] \in Nat /\ Slot(pos[q]) \in Cells
    BY PositionTypes, SlotType DEF IndInv, ProducerInv, Threads
  <2>1. CASE q = p
    BY <2>0, <2>1, <1>0, <1>2, <1>3, <1>4 DEF ProducerOK
  <2>2. CASE q # p
    <3>1. pc[q] = "push_publish" => Slot(pos[q]) # Slot(pos[p])
      BY <2>2, <1>0, OwnersDiffer DEF CellExclusive, Writing
    <3> QED
      BY <3>1, <2>0, <2>2, <1>0, <1>2, <1>3, <1>4 DEF ProducerOK
  <2> QED
    BY <2>1, <2>2
<1>8. ConsumerInv'
  <2> SUFFICES ASSUME NEW c \in Consumers PROVE ConsumerOK(c)'
    BY DEF ConsumerInv
  <2>1. c \in Threads \ {p} /\ ConsumerOK(c) /\ Slot(pos[c]) \in Cells
    BY <1>0, PositionTypes, SlotType DEF IndInv, ConsumerInv, Threads
  <2>2. pc[c] = "pop_read" => Slot(pos[c]) # Slot(pos[p])
    BY <2>1, <1>0, OwnersDiffer DEF CellExclusive, Reading
  <2> QED
    BY <2>1, <2>2, <1>2, <1>3, <1>4 DEF ConsumerOK
<1> QED
  BY <1>1, <1>5, <1>6, <1>7, <1>8 DEF IndInv

\* The release store of seq: position pos[p] becomes full.
LEMMA PushPublishInv ==
    ASSUME IndInv, NEW p \in Producers, PushPublish(p)
    PROVE  IndInv'
<1> USE CapacityAssumption, ThreadsAssumption
<1>0. /\ p \in Threads \ Consumers /\ p \in Writing /\ pos[p] \in Nat
      /\ seq[Slot(pos[p])] = pos[p] /\ tail <= pos[p] /\ pos[p] < head
      /\ data[Slot(pos[p])] = log[pos[p] + 1]
      /\ Slot(pos[p]) \in Cells
  BY OwnedPositions, SlotType DEF PushPublish, IndInv, ProducerInv, ProducerOK, Writing, Threads
<1>1. TypeOK'
  BY <1>0 DEF PushPublish, IndInv, TypeOK, Threads, PushPCs, PopPCs, ReadyPCs
<1>2. /\ UNCHANGED <<data, head, tail, pos, item, log>>
      /\ pc'[p] = "ok"
      /\ \A u \in Threads \ {p} : pc'[u] = pc[u]
  BY <1>0 DEF PushPublish, IndInv, TypeOK
<1>3. seq'[Slot(pos[p])] = pos[p] + 1 /\ \A i \in Cells : i # Slot(pos[p]) => seq'[i] = seq[i]
  BY <1>0 DEF PushPublish, IndInv, TypeOK
<1>4. Writing' = Writing \ {p} /\ Reading' = Reading
  BY <1>0, <1>2 DEF Threads, Writing, Reading
<1>5. WindowBounded' /\ (Len(log) = head)' /\ DistinctInv'
  BY <1>2, <1>4 DEF IndInv, WindowBounded, DistinctInv
<1>6. WindowInv'
  <2> SUFFICES ASSUME NEW n \in tail .. tail + Capacity - 1
               PROVE  (Full(n) \/ Free(n) \/ Emptying(n))'
    BY <1>2 DEF WindowInv
  <2>1. n \in Nat /\ Slot(n) \in Cells
    BY PositionTypes, SlotType
  <2>2. CASE n = pos[p]
    BY <2>2, <1>0, <1>2, <1>3 DEF Full
  <2>3. CASE n # pos[p]
    <3>1. seq'[Slot(n)] = seq[Slot(n)]
      BY <2>1, <2>3, <1>0, <1>3, OwnedInWindow
    <3>2. CASE Full(n)
      BY <3>1, <3>2, <1>2 DEF Full
    <3>3. CASE Free(n)
      BY <3>1, <3>3, <2>3, <1>2, <1>4 DEF Free
    <3>4. CASE Emptying(n)
      BY <3>1, <3>4, <1>2, <1>4 DEF Emptying
    <3> QED
      BY <3>2, <3>3, <3>4 DEF IndInv, WindowInv
  <2> QED
    BY <2>2, <2>3
<1>7. ProducerInv'
  <2> SUFFICES ASSUME NEW q \in Producers PROVE ProducerOK(q)'
    BY DEF ProducerInv
  <2>0. q \in Threads /\ ProducerOK(q) /\ pos[q] \in Nat /\ Slot(pos[q]) \in Cells
    BY PositionTypes, SlotType DEF IndInv, ProducerInv, Threads
  <2>1. CASE q = p
    BY <2>0, <2>1, <1>0, <1>2, <1>4 DEF ProducerOK, PushPCs
  <2>2. CASE q # p
    <3>1. q \in Writing => Slot(pos[q]) # Slot(pos[p])
      BY <2>2, <1>0, OwnersDiffer DEF CellExclusive
    <3>2. pc[q] = "push_cas" /\ pos[q] = head => Slot(pos[q]) # Slot(pos[p])
      <4> SUFFICES ASSUME pc[q] = "push_cas", pos[q] = head, Slot(head) = Slot(pos[p]) PROVE FALSE
        OBVIOUS
      <4>1. seq[Slot(head)] = head
        BY <2>0 DEF ProducerOK
      <4> QED
        BY <4>1, <1>0, PositionTypes
    <3> QED
      BY <3>1, <3>2, <2>0, <2>2, <1>0, <1>2, <1>3, <1>4 DEF ProducerOK
  <2> QED
    BY <2>1, <2>2
<1>8. ConsumerInv'
  <2> SUFFICES ASSUME NEW c \in Consumers PROVE ConsumerOK(c)'
    BY DEF ConsumerInv
  <2>1. c \in Threads \ {p} /\ ConsumerOK(c) /\ pos[c] \in Nat /\ Slot(pos[c]) \in Cells
    BY <1>0, PositionTypes, SlotType DEF IndInv, ConsumerInv, Threads
  <2>2. c \in Reading => Slot(pos[c]) # Slot(pos[p])
    BY <2>1, <1>0, OwnersDiffer DEF CellExclusive
  <2>3. pc[c] = "pop_cas" /\ pos[c] = tail => Slot(pos[c]) # Slot(pos[p])
    <3> SUFFICES ASSUME pc[c] = "pop_cas", pos[c] = tail, Slot(tail) = Slot(pos[p]) PROVE FALSE
      OBVIOUS
    <3>1. seq[Slot(tail)] = tail + 1
      BY <2>1 DEF ConsumerOK
    <3>2. tail = pos[p]
      BY <1>0, OwnedInWindow, PositionTypes
    <3> QED
      BY <3>1, <3>2, <1>0, PositionTypes
  <2> QED
    BY <2>1, <2>2, <2>3, <1>2, <1>3, <1>4 DEF ConsumerOK
<1> QED
  BY <1>1, <1>5, <1>6, <1>7, <1>8 DEF IndInv

-----------------------------------------------------------------------------
LEMMA PopCallInv ==
    ASSUME IndInv, NEW c \in Consumers, PopCall(c)
    PROVE  IndInv'
<1> USE ThreadsAssumption
<1>1. TypeOK'
  BY DEF PopCall, IndInv, TypeOK, Threads, PushPCs, PopPCs, ReadyPCs
<1>2. /\ c \in Threads \ Producers
      /\ pc'[c] = "pop_load" /\ pos'[c] = tail
      /\ c \notin Writing /\ c \notin Reading /\ c \notin Writing' /\ c \notin Reading'
  BY DEF PopCall, IndInv, TypeOK, Threads, Writing, Reading, ReadyPCs
<1>3. /\ UNCHANGED <<seq, data, head, tail, log>>
      /\ \A u \in Threads \ {c} : pc'[u] = pc[u] /\ pos'[u] = pos[u] /\ item'[u] = item[u]
  BY DEF PopCall, IndInv, TypeOK
<1>4. ConsumerOK(c)'
  BY <1>2, <1>3, PositionTypes DEF ConsumerOK
<1> QED
  BY <1>1, <1>2, <1>3, <1>4, LocalStep DEF IndInv, ProducerInv, ConsumerInv

LEMMA PopLoadInv ==
    ASSUME IndInv, NEW c \in Consumers, PopLoad(c)
    PROVE  IndInv'
<1> USE ThreadsAssumption
<1>1. TypeOK'
  BY DEF PopLoad, IndInv, TypeOK, Threads, PushPCs, PopPCs, ReadyPCs
<1>2. /\ c \in Threads \ Producers
      /\ pc'[c] \in {"pop_cas", "pop_reload", "fail"}
      /\ pc'[c] = "pop_cas" => seq[Slot(pos[c])] - (pos[c] + 1) = 0
      /\ pos[c] <= tail
      /\ c \notin Writing /\ c \notin Reading /\ c \notin Writing' /\ c \notin Reading'
  BY DEF PopLoad, IndInv, TypeOK, Threads, Writing, Reading, ConsumerInv, ConsumerOK, PopPCs
<1>3. /\ UNCHANGED <<seq, data, head, tail, log, pos, item>>
      /\ \A u \in Threads \ {c} : pc'[u] = pc[u] /\ pos'[u] = pos[u] /\ item'[u] = item[u]
  BY DEF PopLoad, IndInv, TypeOK
<1>4. seq[Slot(pos[c])] \in Nat
  BY <1>2, SlotType, PositionTypes DEF IndInv, TypeOK
<1>5. ConsumerOK(c)'
  BY <1>2, <1>3, <1>4, PositionTypes DEF ConsumerOK
<1> QED
  BY <1>1, <1>2, <1>3, <1>5, LocalStep DEF IndInv, ProducerInv, ConsumerInv

LEMMA PopRetryInv ==
    ASSUME IndInv, NEW c \in Consumers, PopRetry(c)
    PROVE  IndInv'
<1> USE ThreadsAssumption
<1>1. TypeOK'
  BY DEF PopRetry, IndInv, TypeOK, Threads, PushPCs, PopPCs, ReadyPCs
<1>2. /\ c \in Threads \ Producers
      /\ pc'[c] = "pop_load" /\ pos'[c] = tail
      /\ c \notin Writing /\ c \notin Reading /\ c \notin Writing' /\ c \notin Reading'
  BY DEF PopRetry, IndInv, TypeOK, Threads, Writing, Reading
<1>3. /\ UNCHANGED <<seq, data, head, tail, log>>
      /\ \A u \in Threads \ {c} : pc'[u] = pc[u] /\ pos'[u] = pos[u] /\ item'[u] = item[u]
  BY DEF PopRetry, IndInv, TypeOK
<1>4. ConsumerOK(c)'
  BY <1>2, <1>3, PositionTypes DEF ConsumerOK
<1> QED
  BY <1>1, <1>2, <1>3, <1>4, LocalStep DEF IndInv, ProducerInv, ConsumerInv

\* The CAS on tail_ claims the cell of position tail, which is full; the window moves on.
LEMMA PopClaimInv ==
    ASSUME IndInv, NEW c \in Consumers, PopClaim(c)
    PROVE  IndInv'
<1> USE CapacityAssumption, ThreadsAssumption
<1>0. /\ c \in Threads \ Producers
      /\ pos[c] = tail /\ seq[Slot(tail)] = tail + 1 /\ c \notin Reading
  BY DEF PopClaim, IndInv, ConsumerInv, ConsumerOK, Reading, Threads
<1>1. TypeOK'
  BY <1>0 DEF PopClaim, IndInv, TypeOK, Threads, PushPCs, PopPCs, ReadyPCs
<1>2. /\ UNCHANGED <<seq, data, head, pos, item, log>>
      /\ tail' = tail + 1
      /\ pc'[c] = "pop_read"
      /\ \A u \in Threads \ {c} : pc'[u] = pc[u]
  BY <1>0 DEF PopClaim, IndInv, TypeOK
<1>3. Writing' = Writing /\ Reading' = Reading \cup {c}
  BY <1>0, <1>2 DEF Threads, Writing, Reading
<1>4. tail < head /\ data[Slot(tail)] = log[tail + 1]
  <2>1. tail \in tail .. tail + Capacity - 1
    BY PositionTypes
  <2>2. Full(tail) \/ Free(tail) \/ Emptying(tail)
    BY <2>1 DEF IndInv, WindowInv
  <2> QED
    BY <2>2, <1>0, PositionTypes DEF Full, Free, Emptying
<1>5. WindowBounded' /\ (Len(log) = head)'
  BY <1>2, <1>4, PositionTypes DEF IndInv, WindowBounded
<1>6. WindowInv'
  <2> SUFFICES ASSUME NEW n \in tail + 1 .. tail + Capacity
               PROVE  (Full(n) \/ Free(n) \/ Emptying(n))'
    BY <1>2, PositionTypes DEF WindowInv
  <2>1. CASE n = tail + Capacity
    <3>1. Slot(n) = Slot(tail)
      BY <2>1, SlotShift, PositionTypes
    <3>2. n + 1 - Capacity = tail + 1 /\ n - Capacity = tail /\ head <= n
      BY <2>1, PositionTypes
    <3> QED
      BY <3>1, <3>2, <1>0, <1>2, <1>3 DEF Emptying
  <2>2. CASE n # tail + Capacity
    <3>1. n \in tail .. tail + Capacity - 1
      BY <2>2, PositionTypes
    <3>2. CASE Full(n)
      BY <3>2, <1>2 DEF Full
    <3>3. CASE Free(n)
      BY <3>3, <1>2, <1>3 DEF Free
    <3>4. CASE Emptying(n)
      BY <3>4, <1>2, <1>3 DEF Emptying
    <3> QED
      BY <3>1, <3>2, <3>3, <3>4 DEF IndInv, WindowInv
  <2> QED
    BY <2>1, <2>2
<1>7. ProducerInv'
  <2> SUFFICES ASSUME NEW p \in Producers PROVE ProducerOK(p)'
    BY DEF ProducerInv
  <2>0. p \in Threads \ {c} /\ ProducerOK(p) /\ pos[p] \in Nat
    BY <1>0, PositionTypes DEF IndInv, ProducerInv, Threads
  <2>1. p \in Writing => pos[p] # tail
    BY <2>0, <1>0, PositionTypes DEF ProducerOK
  <2> QED
    BY <2>0, <2>1, <1>2, <1>3, PositionTypes DEF ProducerOK
<1>8. ConsumerInv'
  <2> SUFFICES ASSUME NEW d \in Consumers PROVE ConsumerOK(d)'
    BY DEF ConsumerInv
  <2>0. d \in Threads /\ ConsumerOK(d) /\ pos[d] \in Nat
    BY PositionTypes DEF IndInv, ConsumerInv, Threads
  <2>1. CASE d = c
    BY <2>1, <1>0, <1>2, <1>4, PositionTypes DEF ConsumerOK
  <2>2. CASE d # c
    BY <2>0, <2>2, <1>0, <1>2, <1>3, PositionTypes DEF ConsumerOK, PopPCs
  <2> QED
    BY <2>1, <2>2
<1>9. DistinctInv'
  <2>1. \A d \in Reading : pos[d] # pos[c]
    BY <1>0, PositionTypes, OwnedPositions
  <2> QED
    BY <2>1, <1>2, <1>3 DEF IndInv, DistinctInv
<1> QED
  BY <1>1, <1>5, <1>6, <1>7, <1>8, <1>9 DEF IndInv

\* Moving the data out: no other thread owns the cell.
LEMMA PopReadInv ==
    ASSUME IndInv, NEW c \in Consumers, PopRead(c)
    PROVE  IndInv'
<1> USE CapacityAssumption, ThreadsAssumption
<1>0. /\ c \in Threads \ Producers /\ c \in Reading /\ pos[c] \in Nat
      /\ seq[Slot(pos[c])] = pos[c] + 1
      /\ data[Slot(pos[c])] = log[pos[c] + 1]
      /\ Slot(pos[c]) \in Cells
  BY OwnedPositions, SlotType DEF PopRead, IndInv, ConsumerInv, ConsumerOK, Reading, Threads
<1>1. TypeOK'
  BY <1>0 DEF PopRead, IndInv, TypeOK, Threads, PushPCs, PopPCs, ReadyPCs
<1>2. /\ UNCHANGED <<seq, head, tail, pos, log>>
      /\ pc'[c] = "pop_release" /\ item'[c] = data[Slot(pos[c])]
      /\ \A u \in Threads \ {c} : pc'[u] = pc[u] /\ item'[u] = item[u]
  BY <1>0 DEF PopRead, IndInv, TypeOK
<1>3. \A i \in Cells : i # Slot(pos[c]) => data'[i] = data[i]
  BY <1>0 DEF PopRead, IndInv, TypeOK
<1>4. Writing' = Writing /\ Reading' = Reading
  BY <1>0, <1>2 DEF Threads, Writing, Reading
<1>5. WindowBounded' /\ (Len(log) = head)' /\ DistinctInv'
  BY <1>2, <1>4 DEF IndInv, WindowBounded, DistinctInv
<1>6. WindowInv'
  <2> SUFFICES ASSUME NEW n \in tail .. tail + Capacity - 1
               PROVE  (Full(n) \/ Free(n) \/ Emptying(n))'
    BY <1>2 DEF WindowInv
  <2>1. n \in Nat /\ Slot(n) \in Cells
    BY PositionTypes, SlotType
  <2>2. CASE Full(n)
    <3>1. Slot(n) # Slot(pos[c])
      BY <2>1, <2>2, <1>0, OwnedInWindow DEF Full
    <3> QED
      BY <3>1, <2>1, <2>2, <1>2, <1>3 DEF Full
  <2>3. CASE Free(n)
    BY <2>3, <1>2, <1>4 DEF Free
  <2>4. CASE Emptying(n)
    BY <2>4, <1>2, <1>4 DEF Emptying
  <2> QED
    BY <2>2, <2>3, <2>4 DEF IndInv, WindowInv
<1>7. ProducerInv'
  <2> SUFFICES ASSUME NEW p \in Producers PROVE ProducerOK(p)'
    BY DEF ProducerInv
  <2>0. p \in Threads \ {c} /\ ProducerOK(p) /\ Slot(pos[p]) \in Cells
    BY <1>0, PositionTypes, SlotType DEF IndInv, ProducerInv, Threads
  <2>1. pc[p] = "push_publish" => Slot(pos[p]) # Slot(pos[c])
    BY <2>0, <1>0, OwnersDiffer DEF CellExclusive, Writing
  <2> QED
    BY <2>0, <2>1, <1>2, <1>3, <1>4 DEF ProducerOK
<1>8. ConsumerInv'
  <2> SUFFICES ASSUME NEW d \in Consumers PROVE ConsumerOK(d)'
    BY DEF ConsumerInv
  <2>0. d \in Threads /\ ConsumerOK(d) /\ Slot(pos[d]) \in Cells
    BY PositionTypes, SlotType DEF IndInv, ConsumerInv, Threads
  <2>1. CASE d = c
    <3>1. pc[c] = "pop_read" /\ item'[c] = log[pos[c] + 1]
      BY <2>0, <2>1, <1>0, <1>2 DEF PopRead, ConsumerOK
    <3>2. c \in Reading'
      BY <1>0, <1>4
    <3> QED
      BY <2>0, <2>1, <3>1, <3>2, <1>0, <1>2, <1>4, PositionTypes DEF ConsumerOK, PopPCs
  <2>2. CASE d # c
    <3>1. pc[d] = "pop_read" => Slot(pos[d]) # Slot(pos[c])
      BY <2>2, <1>0, OwnersDiffer DEF CellExclusive, Reading
    <3> QED
      BY <3>1, <2>0, <2>2, <1>2, <1>3, <1>4 DEF ConsumerOK
  <2> QED
    BY <2>1, <2>2
<1> QED
  BY <1>1, <1>5, <1>6, <1>7, <1>8 DEF IndInv

\* The release store of seq: the cell is free for the next round.
LEMMA PopReleaseInv ==
    ASSUME IndInv, NEW c \in Consumers, PopRelease(c)
    PROVE  IndInv'
<1> USE CapacityAssumption, ThreadsAssumption
<1>0. /\ c \in Threads \ Producers /\ c \in Reading /\ pos[c] \in Nat
      /\ seq[Slot(pos[c])] = pos[c] + 1 /\ pos[c] < tail /\ head <= pos[c] + Capacity
      /\ Slot(pos[c]) \in Cells
  BY OwnedPositions, SlotType DEF PopRelease, IndInv, Reading, Threads
<1>1. TypeOK'
  BY <1>0 DEF PopRelease, IndInv, TypeOK, Threads, PushPCs, PopPCs, ReadyPCs
<1>2. /\ UNCHANGED <<data, head, tail, pos, item, log>>
      /\ pc'[c] = "ok"
      /\ \A u \in Threads \ {c} : pc'[u] = pc[u]
  BY <1>0 DEF PopRelease, IndInv, TypeOK
<1>3. seq'[Slot(pos[c])] = pos[c] + Capacity /\ \A i \in Cells : i # Slot(pos[c]) => seq'[i] = seq[i]
  BY <1>0 DEF PopRelease, IndInv, TypeOK
<1>4. Writing' = Writing /\ Reading' = Reading \ {c}
  BY <1>0, <1>2 DEF Threads, Writing, Reading
<1>5. WindowBounded' /\ (Len(log) = head)' /\ DistinctInv'
  BY <1>2, <1>4 DEF IndInv, WindowBounded, DistinctInv
<1>6. WindowInv'
  <2> SUFFICES ASSUME NEW n \in tail .. tail + Capacity - 1
               PROVE  (Full(n) \/ Free(n) \/ Emptying(n))'
    BY <1>2 DEF WindowInv
  <2>1. n \in Nat /\ Slot(n) \in Cells
    BY PositionTypes, SlotType
  <2>2. CASE n = pos[c] + Capacity
    <3>1. Slot(n) = Slot(pos[c])
      BY <2>2, <1>0, SlotShift
    <3> QED
      BY <3>1, <2>2, <1>0, <1>2, <1>3, PositionTypes DEF Free
  <2>3. CASE n # pos[c] + Capacity
    <3>1. seq'[Slot(n)] = seq[Slot(n)]
      BY <2>1, <2>3, <1>0, <1>3, OwnedInWindow
    <3>2. CASE Full(n)
      BY <3>1, <3>2, <1>2 DEF Full
    <3>3. CASE Free(n)
      BY <3>1, <3>3, <1>2, <1>4 DEF Free
    <3>4. CASE Emptying(n)
      BY <3>1, <3>4, <2>1, <2>3, <1>0, <1>2, <1>4 DEF Emptying
    <3> QED
      BY <3>2, <3>3, <3>4 DEF IndInv, WindowInv
  <2> QED
    BY <2>2, <2>3
<1>7. ProducerInv'
  <2> SUFFICES ASSUME NEW p \in Producers PROVE ProducerOK(p)'
    BY DEF ProducerInv
  <2>0. p \in Threads \ {c} /\ ProducerOK(p) /\ pos[p] \in Nat /\ Slot(pos[p]) \in Cells
    BY <1>0, PositionTypes, SlotType DEF IndInv, ProducerInv, Threads
  <2>1. p \in Writing => Slot(pos[p]) # Slot(pos[c])
    BY <2>0, <1>0, OwnersDiffer DEF CellExclusive
  <2>2. pc[p] = "push_cas" /\ pos[p] = head => Slot(pos[p]) # Slot(pos[c])
    <3> SUFFICES ASSUME pc[p] = "push_cas", pos[p] = head, Slot(head) = Slot(pos[c]) PROVE FALSE
      OBVIOUS
    <3>1. head = pos[c] + 1
      BY <2>0, <1>0 DEF ProducerOK
    <3> QED
      BY <3>1, <1>0, SlotNext
  <2> QED
    BY <2>0, <2>1, <2>2, <1>2, <1>3, <1>4 DEF ProducerOK
<1>8. ConsumerInv'
  <2> SUFFICES ASSUME NEW d \in Consumers PROVE ConsumerOK(d)'
    BY DEF ConsumerInv
  <2>0. d \in Threads /\ ConsumerOK(d) /\ pos[d] \in Nat /\ Slot(pos[d]) \in Cells
    BY PositionTypes, SlotType DEF IndInv, ConsumerInv, Threads
  <2>1. CASE d = c
    BY <2>0, <2>1, <1>0, <1>2, <1>4 DEF ConsumerOK, PopPCs
  <2>2. CASE d # c
    <3>1. d \in Reading => Slot(pos[d]) # Slot(pos[c])
      BY <2>2, <1>0, OwnersDiffer DEF CellExclusive
    <3>2. pc[d] = "pop_cas" /\ pos[d] = tail => Slot(pos[d]) # Slot(pos[c])
      <4> SUFFICES ASSUME pc[d] = "pop_cas", pos[d] = tail, Slot(tail) = Slot(pos[c]) PROVE FALSE
        OBVIOUS
      <4>1. seq[Slot(tail)] = tail + 1
        BY <2>0 DEF ConsumerOK
      <4> QED
        BY <4>1, <1>0, PositionTypes
    <3> QED
      BY <3>1, <3>2, <2>0, <2>2, <1>0, <1>2, <1>3, <1>4 DEF ConsumerOK
  <2> QED
    BY <2>1, <2>2
<1> QED
  BY <1>1, <1>5, <1>6, <1>7, <1>8 DEF IndInv

-----------------------------------------------------------------------------
LEMMA IndInvNext == IndInv /\ [Next]_vars => IndInv'
<1> SUFFICES ASSUME IndInv, [Next]_vars PROVE IndInv'
  OBVIOUS
<1>1. ASSUME NEW p \in Producers, NEW x \in fresh, PushCall(p, x) PROVE IndInv'
  BY <1>1, PushCallInv
<1>2. ASSUME NEW p \in Producers, PushStep(p) PROVE IndInv'
  BY <1>2, PushLoadInv, PushClaimInv, PushRetryInv, PushWriteInv, PushPublishInv DEF PushStep
<1>3. ASSUME NEW c \in Consumers, PopCall(c) PROVE IndInv'
  BY <1>3, PopCallInv
<1>4. ASSUME NEW c \in Consumers, PopStep(c) PROVE IndInv'
  BY <1>4, PopLoadInv, PopClaimInv, PopRetryInv, PopReadInv, PopReleaseInv DEF PopStep
<1>5. CASE UNCHANGED vars
  BY <1>5 DEF vars, IndInv, TypeOK, WindowBounded, WindowInv, Full, Free, Emptying, ProducerInv, ProducerOK,
              ConsumerInv, ConsumerOK, DistinctInv, Writing, Reading
<1> QED
  BY <1>1, <1>2, <1>3, <1>4, <1>5 DEF Next

\* The inductive invariant holds in every reachable state.
THEOREM Invariance == Spec => []IndInv
<1>1. Init => IndInv
  BY IndInvInit
<1>2. IndInv /\ [Next]_vars => IndInv'
  BY IndInvNext
<1> QED
  BY <1>1, <1>2, PTL DEF Spec

\* Type correctness of the queue.
THEOREM TypeCorrect == Spec => []TypeOK
<1>1. IndInv => TypeOK
  BY DEF IndInv
<1> QED
  BY <1>1, Invariance, PTL

\* Data-race freedom: at any time at most one thread is between the CAS that claims a
\* cell and the release store that gives it back, for any number of threads.
THEOREM DataRaceFree == Spec => []CellExclusive
<1> QED
  BY OwnersDiffer, Invariance, PTL

\* The ring never holds more than Capacity claimed positions and tail_ never passes head_.
THEOREM Bounded == Spec => []WindowBounded
<1>1. IndInv => WindowBounded
  BY DEF IndInv
<1> QED
  BY <1>1, Invariance, PTL

\* Every Pop returns the item whose Push claimed the same position: FIFO, nothing lost
\* and nothing returned twice.
THEOREM TakesInOrder == Spec => []PopTakesItsPosition
<1>1. IndInv => PopTakesItsPosition
  BY DEF IndInv, ConsumerInv, ConsumerOK, PopTakesItsPosition
<1> QED
  BY <1>1, Invariance, PTL

-----------------------------------------------------------------------------
\* What a sequence number that lags behind tells Push and Pop.

\* The cell of a position is its remainder.
LEMMA SlotOf ==
    ASSUME NEW q \in Int, NEW r \in 0 .. Capacity - 1, NEW m \in Nat, m = Capacity * q + r
    PROVE  Slot(m) = r
<1> DEFINE d == m \div Capacity
           s == m % Capacity
<1>1. m = Capacity * d + s /\ d \in Int /\ s \in 0 .. Capacity - 1
  <2>1. Capacity \in Nat /\ Capacity >= 1
    BY CapacityAssumption
  <2> QED
    BY <2>1, DivMod
<1> HIDE DEF d, s
<1>2. Capacity * (q - d) = s - r
  BY <1>1, CapacityAssumption
<1>3. q - d \in Int /\ s - r > 0 - Capacity /\ s - r < Capacity
  BY <1>1, CapacityAssumption
<1>4. \A k \in Int : 0 - Capacity < Capacity * k /\ Capacity * k < Capacity => k = 0
  BY CapacityAssumption, SMTT(30)
<1>5. q - d = 0
  BY <1>2, <1>3, <1>4
<1> QED
  BY <1>1, <1>2, <1>5, CapacityAssumption DEF Slot, s

\* Any Capacity consecutive positions use every cell.
LEMMA WindowPosition ==
    ASSUME NEW n \in Nat, NEW t \in Nat
    PROVE  \E m \in t .. t + Capacity - 1 : Slot(m) = Slot(n)
<1> DEFINE i == t \div Capacity
           s == t % Capacity
           r == Slot(n)
<1>1. t = Capacity * i + s /\ i \in Int /\ s \in 0 .. Capacity - 1
  <2>1. Capacity \in Nat /\ Capacity >= 1
    BY CapacityAssumption
  <2> QED
    BY <2>1, DivMod
<1>2. r \in 0 .. Capacity - 1
  BY SlotType DEF Cells
<1> HIDE DEF i, s, r
<1>3. CASE r >= s
  <2>1. Capacity * i + r \in t .. t + Capacity - 1
    BY <1>1, <1>2, <1>3, CapacityAssumption
  <2>2. Slot(Capacity * i + r) = r
    BY <1>1, <1>2, <2>1, SlotOf
  <2> QED
    BY <2>1, <2>2 DEF r
<1>4. CASE r < s
  <2>1. Capacity * (i + 1) = Capacity * i + Capacity
    BY <1>1, CapacityAssumption
  <2>2. Capacity * (i + 1) + r \in t .. t + Capacity - 1
    BY <1>1, <1>2, <1>4, <2>1, CapacityAssumption
  <2>3. Slot(Capacity * (i + 1) + r) = r
    BY <1>1, <1>2, <2>2, SlotOf
  <2> QED
    BY <2>2, <2>3 DEF r
<1> QED
  BY <1>1, <1>2, <1>3, <1>4

\* The cell of a popped position is ahead of it, that of a pushed one not behind it.
LEMMA SeqNotBehind ==
    ASSUME IndInv, NEW n \in Nat
    PROVE  /\ n < tail => seq[Slot(n)] >= n + 1
           /\ n < head => seq[Slot(n)] >= n
<1> USE CapacityAssumption
<1>1. head \in Nat /\ tail \in Nat /\ tail <= head
  BY PositionTypes
<1>2. CASE n >= tail
  <2> SUFFICES ASSUME n < head PROVE seq[Slot(n)] >= n
    BY <1>1, <1>2
  <2>1. n \in tail .. tail + Capacity - 1
    BY <1>1, <1>2, PositionTypes
  <2>2. Full(n) \/ Free(n) \/ Emptying(n)
    BY <2>1 DEF IndInv, WindowInv
  <2> QED
    BY <2>2, <1>1 DEF Full, Free, Emptying
<1>3. CASE n < tail
  <2>1. PICK m \in tail .. tail + Capacity - 1 : Slot(m) = Slot(n)
    BY <1>1, WindowPosition
  <2>2. m \in Nat /\ m >= n + 1
    BY <1>1, <1>3
  <2>3. m >= n + Capacity
    <3> SUFFICES ASSUME m < n + Capacity PROVE FALSE
      BY <2>2
    <3> QED
      BY <2>1, <2>2, SlotSame
  <2>4. Full(m) \/ Free(m) \/ Emptying(m)
    BY <2>1 DEF IndInv, WindowInv
  <2>5. seq[Slot(n)] \in {m + 1, m, m + 1 - Capacity}
    BY <2>1, <2>4 DEF Full, Free, Emptying
  <2> QED
    BY <2>2, <2>3, <2>5, <1>1, <1>3
<1> QED
  BY <1>1, <1>2, <1>3

\* Push gives up only at head_, and only if the cell there is not free.
LEMMA PushFails ==
    ASSUME IndInv, NEW p \in Producers, PushLoad(p), pc'[p] = "fail"
    PROVE  head = tail + Capacity \/ \E c \in Reading : pos[c] + Capacity = head
<1> USE CapacityAssumption
<1>1. p \in Threads /\ pos[p] \in Nat /\ pos[p] <= head /\ head \in Nat /\ tail \in Nat
      /\ tail <= head /\ head <= tail + Capacity
  BY PositionTypes DEF IndInv, ProducerInv, ProducerOK, PushLoad, PushPCs, Threads
<1>2. seq[Slot(pos[p])] \in Nat
  BY <1>1, SlotType DEF IndInv, TypeOK
<1>3. seq[Slot(pos[p])] < pos[p]
  <2>1. pc'[p] = IF seq[Slot(pos[p])] - pos[p] = 0 THEN "push_cas"
                 ELSE IF seq[Slot(pos[p])] - pos[p] < 0 THEN "fail" ELSE "push_reload"
    BY <1>1 DEF PushLoad, IndInv, TypeOK
  <2> QED
    BY <1>1, <1>2, <2>1
<1>4. pos[p] = head
  BY <1>1, <1>2, <1>3, SeqNotBehind
<1>5. CASE head < tail + Capacity
  <2>1. Full(head) \/ Free(head) \/ Emptying(head)
    BY <1>1, <1>5 DEF IndInv, WindowInv
  <2>2. Emptying(head)
    BY <2>1, <1>1, <1>3, <1>4 DEF Full, Free
  <2>3. PICK c \in Reading : pos[c] = head - Capacity
    BY <2>2 DEF Emptying
  <2> QED
    BY <2>3, <1>1
<1> QED
  BY <1>1, <1>5

\* Pop gives up only at tail_, and only if nothing is published there.
LEMMA PopFails ==
    ASSUME IndInv, NEW c \in Consumers, PopLoad(c), pc'[c] = "fail"
    PROVE  head = tail \/ \E p \in Writing : pos[p] = tail
<1> USE CapacityAssumption
<1>1. c \in Threads /\ pos[c] \in Nat /\ pos[c] <= tail /\ head \in Nat /\ tail \in Nat /\ tail <= head
  BY PositionTypes DEF IndInv, ConsumerInv, ConsumerOK, PopLoad, PopPCs, Threads
<1>2. seq[Slot(pos[c])] \in Nat
  BY <1>1, SlotType DEF IndInv, TypeOK
<1>3. seq[Slot(pos[c])] < pos[c] + 1
  <2>1. pc'[c] = IF seq[Slot(pos[c])] - (pos[c] + 1) = 0 THEN "pop_cas"
                 ELSE IF seq[Slot(pos[c])] - (pos[c] + 1) < 0 THEN "fail" ELSE "pop_reload"
    BY <1>1 DEF PopLoad, IndInv, TypeOK
  <2> QED
    BY <1>1, <1>2, <2>1
<1>4. pos[c] = tail
  BY <1>1, <1>2, <1>3, SeqNotBehind
<1>5. Full(tail) \/ Free(tail) \/ Emptying(tail)
  BY <1>1 DEF IndInv, WindowInv
<1>6. CASE Full(tail)
  BY <1>1, <1>3, <1>4, <1>6 DEF Full
<1>7. CASE Free(tail)
  BY <1>1, <1>7 DEF Free
<1>8. CASE Emptying(tail)
  BY <1>1, <1>8 DEF Emptying
<1> QED
  BY <1>5, <1>6, <1>7, <1>8

\* Which steps of the queue make a producer, or a consumer, fail.
LEMMA OnlyLoadFails ==
    ASSUME IndInv, [Next]_vars
    PROVE  /\ \A p \in Producers : pc[p] # "fail" /\ pc'[p] = "fail" => PushLoad(p)
           /\ \A c \in Consumers : pc[c] # "fail" /\ pc'[c] = "fail" => PopLoad(c)
<1> SUFFICES ASSUME NEW t \in Threads, pc[t] # "fail", pc'[t] = "fail"
             PROVE  (t \in Producers /\ PushLoad(t)) \/ (t \in Consumers /\ PopLoad(t))
  BY ThreadsAssumption DEF Threads, PushLoad, PopLoad, IndInv, TypeOK, PushPCs, PopPCs, ReadyPCs
<1> USE DEF IndInv, TypeOK
<1>1. ASSUME NEW p \in Producers, NEW x \in fresh, PushCall(p, x) PROVE FALSE
  BY <1>1 DEF PushCall
<1>2. ASSUME NEW p \in Producers, PushStep(p) PROVE t = p /\ PushLoad(p)
  BY <1>2 DEF PushStep, PushLoad, PushClaim, PushRetry, PushWrite, PushPublish
<1>3. ASSUME NEW c \in Consumers, PopCall(c) PROVE FALSE
  BY <1>3 DEF PopCall
<1>4. ASSUME NEW c \in Consumers, PopStep(c) PROVE t = c /\ PopLoad(c)
  BY <1>4 DEF PopStep, PopLoad, PopClaim, PopRetry, PopRead, PopRelease
<1>5. CASE UNCHANGED vars
  BY <1>5 DEF vars
<1> QED
  BY <1>1, <1>2, <1>3, <1>4, <1>5 DEF Next

\* Push and Pop return false only for a reason a caller can observe: no free position, or
\* a thread of the other side that is still working on the one cell that is needed.
THEOREM FailsHonestly == Spec => FailureIsHonest
<1> DEFINE PushHonest == \A p \in Producers :
                pc[p] = "push_load" /\ pc'[p] = "fail" =>
                    \/ head = tail + Capacity
                    \/ \E c \in Reading : pos[c] + Capacity = head
           PopHonest == \A c \in Consumers :
                pc[c] = "pop_load" /\ pc'[c] = "fail" =>
                    \/ head = tail
                    \/ \E p \in Writing : pos[p] = tail
<1>1. IndInv /\ [Next]_vars => [PushHonest /\ PopHonest]_vars
  BY OnlyLoadFails, PushFails, PopFails
<1> QED
  BY <1>1, Invariance, PTL DEF Spec, FailureIsHonest

-----------------------------------------------------------------------------
\* The queue implements the bounded FIFO: CAS of head_ is Enq, CAS of tail_ is Deq, the next
\* call of a consumer is Drop, and every other step changes nothing a caller can see.

\* The items of a log between two positions.
LEMMA LogWindow ==
    ASSUME NEW l \in Seq(Items), NEW t \in Nat, NEW h \in Nat, t <= h, Len(l) = h
    PROVE  /\ SubSeq(l, t + 1, h) \in Seq(Items) /\ Len(SubSeq(l, t + 1, h)) = h - t
           /\ \A i \in 1 .. h - t : SubSeq(l, t + 1, h)[i] = l[t + i]
<1>1. \A i \in t + 1 .. h : l[i] \in Items
  <2> SUFFICES ASSUME NEW i \in t + 1 .. h PROVE l[i] \in Items
    OBVIOUS
  <2>1. i \in 1 .. Len(l)
    OBVIOUS
  <2> QED
    BY <2>1, ElementOfSeq
<1>2. t + 1 \in Int /\ h \in Int
  OBVIOUS
<1>3. /\ SubSeq(l, t + 1, h) \in Seq(Items)
      /\ Len(SubSeq(l, t + 1, h)) = IF t + 1 <= h THEN h - (t + 1) + 1 ELSE 0
      /\ \A i \in 1 .. h - (t + 1) + 1 : SubSeq(l, t + 1, h)[i] = l[t + 1 + i - 1]
  BY <1>1, <1>2, SubSeqProperties
<1> QED
  BY <1>3

\* The positions between tail_ and head_ are the items of the FIFO.
LEMMA QueueBarItems ==
    ASSUME IndInv
    PROVE  /\ queueBar \in Seq(Items) /\ Len(queueBar) = head - tail
           /\ \A i \in 1 .. head - tail : queueBar[i] = log[tail + i]
<1>1. head \in Nat /\ tail \in Nat /\ tail <= head /\ log \in Seq(Items) /\ Len(log) = head
  BY DEF IndInv, TypeOK, WindowBounded
<1> QED
  BY <1>1, LogWindow DEF queueBar

\* A step that leaves the log and the claims alone, and what consumers hold, is invisible.
LEMMA Stutters ==
    ASSUME IndInv, IndInv', UNCHANGED <<log, head, tail>>,
           \A c \in Consumers : outBar'[c] = outBar[c]
    PROVE  UNCHANGED <<queueBar, outBar>>
<1>1. queueBar' = queueBar
  BY DEF queueBar
<1>2. outBar' = outBar
  BY DEF outBar
<1> QED
  BY <1>1, <1>2

\* What a consumer holds depends on its own variables and on the log before tail_.
LEMMA OutBarKept ==
    ASSUME IndInv, NEW c \in Consumers, pc'[c] = pc[c], pos'[c] = pos[c], item'[c] = item[c],
           \A n \in 1 .. head : log'[n] = log[n]
    PROVE  outBar'[c] = outBar[c]
<1>1. pc[c] = "pop_read" => log'[pos[c] + 1] = log[pos[c] + 1]
  <2> SUFFICES ASSUME pc[c] = "pop_read" PROVE pos[c] + 1 \in 1 .. head
    OBVIOUS
  <2>1. c \in Reading
    BY DEF Reading
  <2> QED
    BY <2>1, OwnedPositions, PositionTypes
<1> QED
  BY <1>1 DEF outBar

LEMMA PushCallFIFO ==
    ASSUME IndInv, IndInv', NEW p \in Producers, NEW x \in fresh, PushCall(p, x)
    PROVE  UNCHANGED <<queueBar, outBar>>
<1>1. UNCHANGED <<log, head, tail>>
  BY DEF PushCall
<1>2. ASSUME NEW c \in Consumers PROVE outBar'[c] = outBar[c]
  <2>1. c # p /\ c \in Threads /\ p \in Threads
    BY ThreadsAssumption DEF Threads
  <2> QED
    BY <1>1, <2>1, OutBarKept DEF PushCall, IndInv, TypeOK
<1> QED
  BY <1>1, <1>2, Stutters

\* Producers' other steps but the CAS on head_.
LEMMA PushQuietFIFO ==
    ASSUME IndInv, IndInv', NEW p \in Producers,
           PushLoad(p) \/ PushRetry(p) \/ PushWrite(p) \/ PushPublish(p)
    PROVE  UNCHANGED <<queueBar, outBar>>
<1>1. UNCHANGED <<log, head, tail>>
  BY DEF PushLoad, PushRetry, PushWrite, PushPublish
<1>2. ASSUME NEW c \in Consumers PROVE outBar'[c] = outBar[c]
  <2>1. c # p /\ c \in Threads /\ p \in Threads
    BY ThreadsAssumption DEF Threads
  <2>2. pc'[c] = pc[c] /\ pos'[c] = pos[c] /\ item'[c] = item[c]
    BY <2>1 DEF PushLoad, PushRetry, PushWrite, PushPublish, IndInv, TypeOK
  <2> QED
    BY <1>1, <2>2, OutBarKept
<1> QED
  BY <1>1, <1>2, Stutters

\* The CAS on head_ enqueues: there is room, since no cell of the window is free otherwise.
LEMMA PushClaimFIFO ==
    ASSUME IndInv, IndInv', NEW p \in Producers, PushClaim(p)
    PROVE  \E x \in Items : Abstract!Enq(x)
<1>0. /\ head \in Nat /\ tail \in Nat /\ tail <= head /\ log \in Seq(Items) /\ Len(log) = head
      /\ Capacity \in Nat
  BY CapacityAssumption DEF IndInv, TypeOK, WindowBounded
<1>1. item[p] \in Items /\ log' = Append(log, item[p]) /\ head' = head + 1 /\ tail' = tail
  BY DEF PushClaim, IndInv, ProducerInv, ProducerOK, PushPCs
<1>2. head - tail < Capacity
  <2>1. head' <= tail' + Capacity
    BY DEF IndInv, WindowBounded
  <2> QED
    BY <1>0, <1>1, <2>1
<1>3. /\ queueBar \in Seq(Items) /\ Len(queueBar) = head - tail
      /\ \A i \in 1 .. head - tail : queueBar[i] = log[tail + i]
  BY QueueBarItems
<1>4. /\ queueBar' \in Seq(Items) /\ Len(queueBar') = head' - tail'
      /\ \A i \in 1 .. head' - tail' : queueBar'[i] = log'[tail' + i]
  <2>1. /\ head' \in Nat /\ tail' \in Nat /\ tail' <= head'
        /\ log' \in Seq(Items) /\ Len(log') = head'
    BY DEF IndInv, TypeOK, WindowBounded
  <2> QED
    BY <2>1, LogWindow DEF queueBar
<1>5. (\A n \in 1 .. head : log'[n] = log[n]) /\ log'[head + 1] = item[p]
  BY <1>0, <1>1, AppendProperties
<1>6. queueBar' = Append(queueBar, item[p])
  <2> DEFINE a == Append(queueBar, item[p])
  <2>1. /\ a \in Seq(Items) /\ Len(a) = head - tail + 1
        /\ \A i \in 1 .. head - tail : a[i] = queueBar[i]
        /\ a[head - tail + 1] = item[p]
    BY <1>1, <1>3, AppendProperties
  <2> HIDE DEF a
  <2>2. Len(queueBar') = Len(a)
    BY <1>0, <1>1, <1>4, <2>1
  <2>3. ASSUME NEW i \in 1 .. Len(queueBar') PROVE queueBar'[i] = a[i]
    <3>1. i \in 1 .. head - tail + 1 /\ queueBar'[i] = log'[tail + i]
      BY <1>0, <1>1, <1>4
    <3>2. CASE i <= head - tail
      <4>1. tail + i \in 1 .. head /\ i \in 1 .. head - tail
        BY <1>0, <3>1, <3>2
      <4> QED
        BY <4>1, <3>1, <2>1, <1>3, <1>5
    <3>3. CASE i = head - tail + 1
      <4>1. tail + i = head + 1
        BY <1>0, <3>3
      <4> QED
        BY <4>1, <3>1, <3>3, <2>1, <1>5
    <3> QED
      BY <1>0, <3>1, <3>2, <3>3
  <2>4. queueBar' = a
    BY <1>4, <2>1, <2>2, <2>3, SeqEqual
  <2> QED
    BY <2>4 DEF a
<1>7. outBar' = outBar
  <2>1. ASSUME NEW c \in Consumers PROVE outBar'[c] = outBar[c]
    <3>1. c # p /\ c \in Threads /\ p \in Threads
      BY ThreadsAssumption DEF Threads
    <3>2. pc'[c] = pc[c] /\ pos'[c] = pos[c] /\ item'[c] = item[c]
      BY <3>1 DEF PushClaim, IndInv, TypeOK
    <3> QED
      BY <1>5, <3>2, OutBarKept
  <2> QED
    BY <2>1 DEF outBar
<1> QED
  BY <1>1, <1>2, <1>3, <1>6, <1>7 DEF Abstract!Enq

\* A consumer that calls Pop again is done with what it had.
LEMMA PopCallFIFO ==
    ASSUME IndInv, IndInv', NEW c \in Consumers, PopCall(c)
    PROVE  Abstract!Drop(c)
<1>1. UNCHANGED <<log, head, tail>> /\ c \in Threads /\ pc'[c] = "pop_load"
  BY DEF PopCall, IndInv, TypeOK, Threads
<1>2. ASSUME NEW d \in Consumers PROVE outBar'[d] = IF d = c THEN NoItem ELSE outBar[d]
  <2>1. CASE d = c
    BY <1>1, <2>1 DEF outBar
  <2>2. CASE d # c
    <3>1. pc'[d] = pc[d] /\ pos'[d] = pos[d] /\ item'[d] = item[d]
      BY <1>1, <2>2 DEF PopCall, IndInv, TypeOK, Threads
    <3> QED
      BY <1>1, <2>2, <3>1, OutBarKept
  <2> QED
    BY <2>1, <2>2
<1>3. outBar' = [outBar EXCEPT ![c] = NoItem]
  BY <1>2 DEF outBar
<1>4. queueBar' = queueBar
  BY <1>1 DEF queueBar
<1> QED
  BY <1>3, <1>4 DEF Abstract!Drop

\* Consumers' other steps but the CAS on tail_.
LEMMA PopQuietFIFO ==
    ASSUME IndInv, IndInv', NEW c \in Consumers,
           PopLoad(c) \/ PopRetry(c) \/ PopRead(c) \/ PopRelease(c)
    PROVE  UNCHANGED <<queueBar, outBar>>
<1>1. UNCHANGED <<log, head, tail>> /\ c \in Threads
  BY DEF PopLoad, PopRetry, PopRead, PopRelease, Threads
<1>2. ASSUME NEW d \in Consumers PROVE outBar'[d] = outBar[d]
  <2>1. CASE d # c
    <3>1. pc'[d] = pc[d] /\ pos'[d] = pos[d] /\ item'[d] = item[d]
      BY <1>1, <2>1 DEF PopLoad, PopRetry, PopRead, PopRelease, IndInv, TypeOK, Threads
    <3> QED
      BY <1>1, <2>1, <3>1, OutBarKept
  <2>2. CASE d = c /\ (PopLoad(c) \/ PopRetry(c))
    <3>1. pc[c] \in {"pop_load", "pop_cas", "pop_reload"}
      BY <2>2 DEF PopLoad, PopRetry
    <3>2. pc'[c] \in {"pop_load", "pop_cas", "pop_reload", "fail"}
      BY <1>1, <2>2 DEF PopLoad, PopRetry, IndInv, TypeOK
    <3> QED
      BY <2>2, <3>1, <3>2 DEF outBar
  <2>3. CASE d = c /\ PopRead(c)
    <3>1. pc[c] = "pop_read" /\ pc'[c] = "pop_release" /\ item'[c] = data[Slot(pos[c])]
      BY <1>1, <2>3 DEF PopRead, IndInv, TypeOK
    <3>2. data[Slot(pos[c])] = log[pos[c] + 1]
      BY <3>1 DEF IndInv, ConsumerInv, ConsumerOK
    <3> QED
      BY <2>3, <3>1, <3>2 DEF outBar
  <2>4. CASE d = c /\ PopRelease(c)
    <3>1. pc[c] = "pop_release" /\ pc'[c] = "ok" /\ item'[c] = item[c]
      BY <1>1, <2>4 DEF PopRelease, IndInv, TypeOK
    <3> QED
      BY <2>4, <3>1 DEF outBar
  <2> QED
    BY <2>1, <2>2, <2>3, <2>4
<1> QED
  BY <1>1, <1>2, Stutters

\* The CAS on tail_ takes the oldest item.
LEMMA PopClaimFIFO ==
    ASSUME IndInv, IndInv', NEW c \in Consumers, PopClaim(c)
    PROVE  Abstract!Deq(c)
<1>0. /\ head \in Nat /\ tail \in Nat /\ tail <= head /\ log \in Seq(Items) /\ Len(log) = head
      /\ c \in Threads
  BY DEF IndInv, TypeOK, WindowBounded, Threads
<1>1. /\ pc[c] = "pop_cas" /\ pc'[c] = "pop_read" /\ pos[c] = tail /\ pos'[c] = tail
      /\ tail' = tail + 1 /\ head' = head /\ log' = log
  BY <1>0 DEF PopClaim, IndInv, TypeOK
<1>2. tail < head
  <2>1. tail' <= head'
    BY DEF IndInv, WindowBounded
  <2> QED
    BY <1>0, <1>1, <2>1
<1>3. tail + 1 \in 1 .. Len(log) /\ head \in tail + 1 .. Len(log)
  BY <1>0, <1>2
<1>4. Head(queueBar) = log[tail + 1] /\ Tail(queueBar) = SubSeq(log, tail + 1 + 1, head)
  BY <1>0, <1>3, HeadTailOfSubSeq DEF queueBar
<1>5. queueBar' = Tail(queueBar)
  BY <1>1, <1>4 DEF queueBar
<1>6. queueBar # << >>
  <2>1. Len(queueBar) = head - tail
    BY QueueBarItems
  <2>2. Len(queueBar) # 0
    BY <1>0, <1>2, <2>1
  <2> QED
    BY <2>2, EmptySeq
<1>7. outBar[c] = NoItem
  BY <1>1 DEF outBar
<1>8. ASSUME NEW d \in Consumers PROVE outBar'[d] = IF d = c THEN log[tail + 1] ELSE outBar[d]
  <2>1. CASE d = c
    BY <1>1, <2>1 DEF outBar
  <2>2. CASE d # c
    <3>1. pc'[d] = pc[d] /\ pos'[d] = pos[d] /\ item'[d] = item[d]
      BY <1>0, <2>2 DEF PopClaim, IndInv, TypeOK, Threads
    <3> QED
      BY <1>1, <2>2, <3>1, OutBarKept
  <2> QED
    BY <2>1, <2>2
<1>9. outBar' = [outBar EXCEPT ![c] = Head(queueBar)]
  BY <1>4, <1>8 DEF outBar
<1> QED
  BY <1>5, <1>6, <1>7, <1>9 DEF Abstract!Deq

\* Every step of the queue is a step of the FIFO, or leaves it alone.
LEMMA StepImplements ==
    IndInv /\ IndInv' /\ [Next]_vars => [Abstract!Next]_<<queueBar, outBar>>
<1> SUFFICES ASSUME IndInv, IndInv', [Next]_vars PROVE [Abstract!Next]_<<queueBar, outBar>>
  OBVIOUS
<1>1. ASSUME NEW p \in Producers, NEW x \in fresh, PushCall(p, x)
      PROVE  UNCHANGED <<queueBar, outBar>>
  BY <1>1, PushCallFIFO
<1>2. ASSUME NEW p \in Producers, PushStep(p)
      PROVE  (\E x \in Items : Abstract!Enq(x)) \/ UNCHANGED <<queueBar, outBar>>
  BY <1>2, PushClaimFIFO, PushQuietFIFO DEF PushStep
<1>3. ASSUME NEW c \in Consumers, PopCall(c) PROVE Abstract!Drop(c)
  BY <1>3, PopCallFIFO
<1>4. ASSUME NEW c \in Consumers, PopStep(c) PROVE Abstract!Deq(c) \/ UNCHANGED <<queueBar, outBar>>
  BY <1>4, PopClaimFIFO, PopQuietFIFO DEF PopStep
<1>5. CASE UNCHANGED vars
  BY <1>5 DEF vars, queueBar, outBar
<1> QED
  BY <1>1, <1>2, <1>3, <1>4, <1>5 DEF Next, Abstract!Next

\* PushImpl and Pop are linearizable: for any number of threads and any capacity they
\* implement a bounded FIFO whose operations take effect at the CAS of head_ or tail_.
THEOREM Implements == Spec => ImplementsFIFO
<1>1. Init => Abstract!Init
  <2> SUFFICES ASSUME Init PROVE Abstract!Init
    OBVIOUS
  <2>1. queueBar = << >>
    BY SubSeqEmpty DEF Init, queueBar
  <2>2. outBar = [c \in Consumers |-> NoItem]
    BY DEF Init, outBar, Threads
  <2> QED
    BY <2>1, <2>2 DEF Abstract!Init
<1>2. IndInv /\ IndInv' /\ [Next]_vars => [Abstract!Next]_<<queueBar, outBar>>
  BY StepImplements
<1> QED
  BY <1>1, <1>2, Invariance, PTL DEF Spec, ImplementsFIFO, Abstract!Spec
=============================================================================
