----------------------------- MODULE MPMCQueue -----------------------------
(***************************************************************************)
(* The bounded lock-free queue of server/core/mpmc_queue.h, one action per *)
(* atomic access of shared memory.  A thread of Producers runs PushImpl, a *)
(* thread of Consumers runs Pop.  Positions are natural numbers: the       *)
(* 64-bit wrap-around of head_ and tail_ is out of reach (2^64 pushes) and *)
(* harmless for a capacity that divides 2^64.  A relaxed load that returns *)
(* an old head_ or tail_ is the same behaviour as an earlier load by a     *)
(* thread that was then preempted, so every load reads the current value.  *)
(***************************************************************************)
EXTENDS Integers, Sequences

CONSTANTS
    Producers,   \* threads that call Push
    Consumers,   \* threads that call Pop
    Items,       \* the items to push; every item is pushed at most once
    Capacity,    \* number of cells of buffer_
    NoItem       \* the moved-from content of a cell or of a local variable

\* The constructor's assert (a power of 2, so that pos & mask_ is pos % Capacity);
\* the proofs need only that there are at least two cells.
ASSUME CapacityAssumption == Capacity \in Nat /\ Capacity >= 2
ASSUME ThreadsAssumption == Producers \cap Consumers = {}
ASSUME NoItemAssumption == NoItem \notin Items

Threads == Producers \cup Consumers
Cells == 0 .. Capacity - 1

VARIABLES
    seq,     \* seq[i]: buffer_[i].seq
    data,    \* data[i]: buffer_[i].data
    head,    \* head_, the next position to push at
    tail,    \* tail_, the next position to pop at
    pc,      \* pc[t]: where thread t is in PushImpl or Pop, or how it returned
    pos,     \* pos[t]: the local pos of thread t
    item,    \* item[t]: the item thread t is pushing, or has popped
    fresh,   \* the items no thread has started to push yet
    log      \* history: the items in the order in which positions were claimed

queueVars == <<seq, data, head, tail, pc, pos, item, log>>
vars == <<seq, data, head, tail, pc, pos, item, fresh, log>>

PushPCs == {"push_load", "push_cas", "push_reload", "push_write", "push_publish"}
PopPCs == {"pop_load", "pop_cas", "pop_reload", "pop_read", "pop_release"}
ReadyPCs == {"idle", "ok", "fail"}  \* not in a call: initially, or returned true or false

\* The cell of a position: pos & mask_.
Slot(p) == p % Capacity

\* Producers that own the cell of their position, and consumers that do.
Writing == {p \in Producers : pc[p] \in {"push_write", "push_publish"}}
Reading == {c \in Consumers : pc[c] \in {"pop_read", "pop_release"}}

Init ==
    /\ seq = [i \in Cells |-> i]
    /\ data = [i \in Cells |-> NoItem]
    /\ head = 0
    /\ tail = 0
    /\ pc = [t \in Threads |-> "idle"]
    /\ pos = [t \in Threads |-> 0]
    /\ item = [t \in Threads |-> NoItem]
    /\ fresh = Items
    /\ log = << >>

-----------------------------------------------------------------------------
\* PushImpl

\* Entry of Push: the first load of head_.
PushCall(p, x) ==
    /\ pc[p] \in ReadyPCs
    /\ x \in fresh
    /\ fresh' = fresh \ {x}
    /\ item' = [item EXCEPT ![p] = x]
    /\ pos' = [pos EXCEPT ![p] = head]
    /\ pc' = [pc EXCEPT ![p] = "push_load"]
    /\ UNCHANGED <<seq, data, head, tail, log>>

\* Mutant: the cell is taken without looking at its sequence number.
PushLoadUnchecked(p) ==
    /\ pc[p] = "push_load"
    /\ pc' = [pc EXCEPT ![p] = "push_cas"]
    /\ UNCHANGED <<seq, data, head, tail, pos, item, fresh, log>>

\* Load of cell->seq and the branch on its distance to pos.
PushLoad(p) ==
    /\ pc[p] = "push_load"
    /\ LET diff == seq[Slot(pos[p])] - pos[p]
       IN  pc' = [pc EXCEPT ![p] = IF diff = 0 THEN "push_cas"
                                   ELSE IF diff < 0 THEN "fail" ELSE "push_reload"]
    /\ UNCHANGED <<seq, data, head, tail, pos, item, fresh, log>>

\* compare_exchange_weak succeeds: position pos is claimed.
PushClaim(p) ==
    /\ pc[p] = "push_cas"
    /\ head = pos[p]
    /\ head' = pos[p] + 1
    /\ log' = Append(log, item[p])
    /\ pc' = [pc EXCEPT ![p] = "push_write"]
    /\ UNCHANGED <<seq, data, tail, pos, item, fresh>>

\* compare_exchange_weak fails (another producer was faster, or spuriously): it
\* stores the current head_ in pos.  The load after diff > 0 does the same.
PushRetry(p) ==
    /\ pc[p] \in {"push_cas", "push_reload"}
    /\ pos' = [pos EXCEPT ![p] = head]
    /\ pc' = [pc EXCEPT ![p] = "push_load"]
    /\ UNCHANGED <<seq, data, head, tail, item, fresh, log>>

\* cell->data = item, a plain write.
PushWrite(p) ==
    /\ pc[p] = "push_write"
    /\ data' = [data EXCEPT ![Slot(pos[p])] = item[p]]
    /\ item' = [item EXCEPT ![p] = NoItem]
    /\ pc' = [pc EXCEPT ![p] = "push_publish"]
    /\ UNCHANGED <<seq, head, tail, pos, fresh, log>>

\* The release store that publishes the cell; Push returns true.
PushPublish(p) ==
    /\ pc[p] = "push_publish"
    /\ seq' = [seq EXCEPT ![Slot(pos[p])] = pos[p] + 1]
    /\ pc' = [pc EXCEPT ![p] = "ok"]
    /\ UNCHANGED <<data, head, tail, pos, item, fresh, log>>

PushStep(p) ==
    \/ PushLoad(p)
    \/ PushClaim(p)
    \/ PushRetry(p)
    \/ PushWrite(p)
    \/ PushPublish(p)

-----------------------------------------------------------------------------
\* Pop

\* Entry of Pop: the first load of tail_.
PopCall(c) ==
    /\ pc[c] \in ReadyPCs
    /\ pos' = [pos EXCEPT ![c] = tail]
    /\ item' = [item EXCEPT ![c] = NoItem]
    /\ pc' = [pc EXCEPT ![c] = "pop_load"]
    /\ UNCHANGED <<seq, data, head, tail, fresh, log>>

\* Mutant: gives up when another consumer was faster, instead of reloading tail_.
PopLoadGivesUp(c) ==
    /\ pc[c] = "pop_load"
    /\ LET diff == seq[Slot(pos[c])] - (pos[c] + 1)
       IN  pc' = [pc EXCEPT ![c] = IF diff = 0 THEN "pop_cas" ELSE "fail"]
    /\ UNCHANGED <<seq, data, head, tail, pos, item, fresh, log>>

\* Load of cell->seq and the branch on its distance to pos + 1.
PopLoad(c) ==
    /\ pc[c] = "pop_load"
    /\ LET diff == seq[Slot(pos[c])] - (pos[c] + 1)
       IN  pc' = [pc EXCEPT ![c] = IF diff = 0 THEN "pop_cas"
                                   ELSE IF diff < 0 THEN "fail" ELSE "pop_reload"]
    /\ UNCHANGED <<seq, data, head, tail, pos, item, fresh, log>>

PopClaim(c) ==
    /\ pc[c] = "pop_cas"
    /\ tail = pos[c]
    /\ tail' = pos[c] + 1
    /\ pc' = [pc EXCEPT ![c] = "pop_read"]
    /\ UNCHANGED <<seq, data, head, pos, item, fresh, log>>

PopRetry(c) ==
    /\ pc[c] \in {"pop_cas", "pop_reload"}
    /\ pos' = [pos EXCEPT ![c] = tail]
    /\ pc' = [pc EXCEPT ![c] = "pop_load"]
    /\ UNCHANGED <<seq, data, head, tail, item, fresh, log>>

\* item = std::move(cell->data), a plain read and write of the cell.
PopRead(c) ==
    /\ pc[c] = "pop_read"
    /\ item' = [item EXCEPT ![c] = data[Slot(pos[c])]]
    /\ data' = [data EXCEPT ![Slot(pos[c])] = NoItem]
    /\ pc' = [pc EXCEPT ![c] = "pop_release"]
    /\ UNCHANGED <<seq, head, tail, pos, fresh, log>>

\* The release store that frees the cell for the next round; Pop returns true.
PopRelease(c) ==
    /\ pc[c] = "pop_release"
    /\ seq' = [seq EXCEPT ![Slot(pos[c])] = pos[c] + Capacity]
    /\ pc' = [pc EXCEPT ![c] = "ok"]
    /\ UNCHANGED <<data, head, tail, pos, item, fresh, log>>

PopStep(c) ==
    \/ PopLoad(c)
    \/ PopClaim(c)
    \/ PopRetry(c)
    \/ PopRead(c)
    \/ PopRelease(c)

-----------------------------------------------------------------------------
Next ==
    \/ \E p \in Producers : (\E x \in fresh : PushCall(p, x)) \/ PushStep(p)
    \/ \E c \in Consumers : PopCall(c) \/ PopStep(c)

Spec == Init /\ [][Next]_vars

-----------------------------------------------------------------------------
TypeOK ==
    /\ seq \in [Cells -> Nat]
    /\ data \in [Cells -> Items \cup {NoItem}]
    /\ head \in Nat
    /\ tail \in Nat
    /\ pc \in [Threads -> PushPCs \cup PopPCs \cup ReadyPCs]
    /\ \A p \in Producers : pc[p] \in PushPCs \cup ReadyPCs
    /\ \A c \in Consumers : pc[c] \in PopPCs \cup ReadyPCs
    /\ pos \in [Threads -> Nat]
    /\ item \in [Threads -> Items \cup {NoItem}]
    /\ fresh \subseteq Items
    /\ log \in Seq(Items)

\* Two threads never touch the plain data of one cell at the same time: the CAS on
\* head_ or tail_ hands the cell to one thread until its release store of seq.
CellExclusive ==
    \A t, u \in Writing \cup Reading :
        t # u => Slot(pos[t]) # Slot(pos[u])

\* No more than Capacity positions are claimed by pushes and not yet by pops, and
\* pops never run ahead of pushes.
WindowBounded == tail <= head /\ head <= tail + Capacity

\* A Pop that claimed position n moves out the item whose Push claimed position n:
\* no item is lost, duplicated, reordered or read before it is written.
PopTakesItsPosition ==
    \A c \in Consumers : pc[c] = "pop_release" => item[c] = log[pos[c] + 1]

\* Push returns false ("queue full") only if no position is free, or if the one cell it
\* needs is still being emptied by a Pop that has claimed it; Pop ("queue empty") only if
\* nothing is queued, or if the Push that claimed the oldest position has not published
\* it yet.
FailureIsHonest ==
    [][/\ \A p \in Producers :
            pc[p] = "push_load" /\ pc'[p] = "fail" =>
                \/ head = tail + Capacity
                \/ \E c \in Reading : pos[c] + Capacity = head
       /\ \A c \in Consumers :
            pc[c] = "pop_load" /\ pc'[c] = "fail" =>
                \/ head = tail
                \/ \E p \in Writing : pos[p] = tail]_vars

-----------------------------------------------------------------------------
\* The queue as its callers see it: an item is in the queue from the CAS of its Push
\* to the CAS of its Pop.
queueBar == SubSeq(log, tail + 1, head)
outBar == [c \in Consumers |->
              IF pc[c] = "pop_read" THEN log[pos[c] + 1]
              ELSE IF pc[c] \in {"pop_release", "ok"} THEN item[c] ELSE NoItem]

Abstract == INSTANCE BoundedFIFO WITH queue <- queueBar, out <- outBar

\* PushImpl and Pop implement the bounded FIFO.
ImplementsFIFO == Abstract!Spec
=============================================================================
