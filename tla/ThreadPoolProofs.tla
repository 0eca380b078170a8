-------------------------- MODULE ThreadPoolProofs --------------------------
(***************************************************************************)
(* The worker pool for any number of IO threads, workers and tasks and any *)
(* capacity: what a task, a token of the semaphore and Stop can rely on.   *)
(* The facts about the queue below it are those of MPMCQueueProofs.        *)
(***************************************************************************)
EXTENDS ThreadPool, SequenceTheorems, FiniteSetTheorems, TLAPS

QP == INSTANCE MPMCQueueProofs WITH
        Producers <- IOThreads, Consumers <- Workers, Items <- Tasks, NoItem <- NoTask

-----------------------------------------------------------------------------
\* The inductive invariant, besides the queue's own QP!IndInv

Before == {"push_load", "push_cas", "push_reload"}      \* the task has no position yet
Claimed == {"push_write", "push_publish", "ok"}         \* it has one
Trying == {"pop_load", "pop_cas", "pop_reload"}

PoolTypeOK ==
    /\ sem \in Nat /\ unreleased \in Nat /\ stop \in BOOLEAN
    /\ submitting \in [IOThreads -> Tasks \cup {NoTask}]
    /\ at \in [Workers -> {"acquire", "awake", "pop", "drain", "exited"}]
    /\ accepted \subseteq Tasks /\ rejected \subseteq Tasks
    /\ ran \in [Tasks -> Nat]

\* Where the queue's threads are while the pool's are in Submit or WorkerLoop.
PhasesInv ==
    /\ \A p \in IOThreads : submitting[p] = NoTask => pc[p] \in {"idle", "ok", "fail"}
    /\ \A p \in IOThreads : submitting[p] # NoTask => pc[p] # "idle"
    /\ \A w \in Workers : (at[w] \in {"acquire", "awake", "exited"}) <=> (pc[w] = "idle")
    /\ \A w \in Workers : at[w] \in {"drain", "exited"} => stop
    /\ (main = "running") <=> ~stop

\* Task t was given a position of the queue.
Logged(t) == \E n \in 1 .. head : log[n] = t

\* A task is new, being submitted by one thread, in the log once, or rejected.
TaskInv ==
    /\ \A m, n \in 1 .. head : log[m] = log[n] => m = n
    /\ \A t \in fresh \cup rejected : ~ Logged(t)
    /\ fresh \cap rejected = {}
    /\ \A p \in IOThreads : submitting[p] \notin fresh \cup rejected
    /\ \A p, q \in IOThreads : submitting[p] = submitting[q] /\ submitting[p] # NoTask => p = q
    /\ \A p \in IOThreads : pc[p] \in Before => item[p] = submitting[p]
    /\ \A p \in IOThreads : submitting[p] # NoTask => (Logged(submitting[p]) <=> pc[p] \in Claimed)
    /\ \A t \in accepted : Logged(t)

\* The workers that have claimed a position and not executed its task yet.
Holding == {w \in Workers : pc[w] \in {"pop_read", "pop_release", "ok"}}

\* The task of a popped position was executed once, or one worker holds the position.
HoldInv ==
    /\ \A w \in Holding : pos[w] < tail /\ ran[log[pos[w] + 1]] = 0
    /\ \A w \in Workers : pc[w] = "ok" => item[w] = log[pos[w] + 1]
    /\ \A v, w \in Holding : pos[v] = pos[w] => v = w
    /\ \A t \in Tasks : ran[t] \in {0, 1}
    /\ \A t \in Tasks : ran[t] = 1 => \E n \in 1 .. tail : log[n] = t
    /\ \A n \in 1 .. tail : ran[log[n]] = 1 \/ \E w \in Holding : pos[w] + 1 = n

\* Workers that will still take a task with the token they have, and threads whose Push
\* has claimed a position that sem_ does not count yet.
Tickets ==
    {w \in Workers : at[w] = "awake" \/ pc[w] \in Trying} \cup
    {p \in IOThreads : submitting[p] # NoTask /\ pc[p] \in Claimed}

TicketInv == ~stop => sem + Cardinality(Tickets) <= head - tail

\* A worker that found the queue empty after stop_ was set left nothing behind, unless a
\* Submit was still running.
DrainInv ==
    stop /\ ~raced =>
        /\ \A p \in IOThreads : submitting[p] = NoTask
        /\ (\E w \in Workers : at[w] = "exited" \/ (at[w] = "drain" /\ pc[w] = "fail")) => head = tail

Inv == QP!IndInv /\ PoolTypeOK /\ PhasesInv

-----------------------------------------------------------------------------
\* The steps of the queue, as far as the pool depends on them

\* The types of the queue's variables.
LEMMA QueueTypes ==
    ASSUME QP!IndInv
    PROVE  /\ head \in Nat /\ tail \in Nat /\ tail <= head
           /\ log \in Seq(Tasks) /\ Len(log) = head
           /\ \A n \in 1 .. head : log[n] \in Tasks
           /\ pc \in [IOThreads \cup Workers -> Before \cup {"push_write", "push_publish"} \cup Trying
                        \cup {"pop_read", "pop_release", "idle", "ok", "fail"}]
           /\ \A p \in IOThreads : pc[p] \in Before \cup Claimed \cup {"idle", "fail"}
           /\ \A w \in Workers : pc[w] \in Trying \cup {"pop_read", "pop_release", "idle", "ok", "fail"}
           /\ pos \in [IOThreads \cup Workers -> Nat]
           /\ item \in [IOThreads \cup Workers -> Tasks \cup {NoTask}]
           /\ fresh \subseteq Tasks
<1>1. /\ head \in Nat /\ tail \in Nat /\ tail <= head
      /\ log \in Seq(Tasks) /\ Len(log) = head
      /\ fresh \subseteq Tasks
      /\ pos \in [IOThreads \cup Workers -> Nat]
      /\ item \in [IOThreads \cup Workers -> Tasks \cup {NoTask}]
  BY DEF QP!IndInv, QP!TypeOK, QP!WindowBounded, QP!Threads
<1>2. \A n \in 1 .. head : log[n] \in Tasks
  BY <1>1, ElementOfSeq
<1>3. /\ pc \in [IOThreads \cup Workers -> Before \cup {"push_write", "push_publish"} \cup Trying
                        \cup {"pop_read", "pop_release", "idle", "ok", "fail"}]
      /\ \A p \in IOThreads : pc[p] \in Before \cup Claimed \cup {"idle", "fail"}
      /\ \A w \in Workers : pc[w] \in Trying \cup {"pop_read", "pop_release", "idle", "ok", "fail"}
  BY DEF QP!IndInv, QP!TypeOK, QP!Threads, QP!PushPCs, QP!PopPCs, QP!ReadyPCs, Before, Claimed, Trying
<1> QED
  BY <1>1, <1>2, <1>3

\* The thread's own variables are the only ones of a thread that a step changes.
Alone(t) ==
    \A u \in (IOThreads \cup Workers) \ {t} :
        pc'[u] = pc[u] /\ pos'[u] = pos[u] /\ item'[u] = item[u]

LEMMA PushCallEffect ==
    ASSUME QP!IndInv, NEW p \in IOThreads, NEW t \in fresh, Q!PushCall(p, t)
    PROVE  /\ QP!IndInv'
           /\ Alone(p) /\ UNCHANGED <<head, tail, log>>
           /\ pc[p] \in {"idle", "ok", "fail"} /\ pc'[p] = "push_load" /\ item'[p] = t
           /\ fresh' = fresh \ {t}
<1>1. QP!PushCall(p, t)
  BY DEF Q!PushCall, QP!PushCall, Q!ReadyPCs, QP!ReadyPCs
<1>2. QP!IndInv'
  BY <1>1, PoolAssumption, QP!PushCallInv
<1> QED
  BY <1>1, <1>2, QueueTypes DEF QP!PushCall, QP!ReadyPCs, Alone

\* A step inside Push: only the CAS on head_ appends to the log.
PushQuiet(p) ==
    /\ UNCHANGED <<head, log>>
    /\ \/ pc[p] \in Before /\ pc'[p] \in Before \cup {"fail"} /\ item'[p] = item[p]
       \/ pc[p] \in {"push_write", "push_publish"} /\ pc'[p] \in Claimed

PushClaims(p) ==
    /\ pc[p] \in Before /\ pc'[p] = "push_write"
    /\ head' = head + 1
    /\ log'[head + 1] = item[p] /\ \A n \in 1 .. head : log'[n] = log[n]

LEMMA PushStepEffect ==
    ASSUME QP!IndInv, NEW p \in IOThreads, Q!PushStep(p)
    PROVE  /\ QP!IndInv'
           /\ Alone(p) /\ UNCHANGED <<tail, fresh>>
           /\ PushQuiet(p) \/ PushClaims(p)
<1> USE QueueTypes DEF Before, Claimed, Alone
<1>1. CASE Q!PushLoad(p)
  <2>1. QP!PushLoad(p)
    BY <1>1 DEF Q!PushLoad, QP!PushLoad, Q!Slot, QP!Slot
  <2>2. QP!IndInv'
    BY <2>1, PoolAssumption, QP!PushLoadInv
  <2> QED
    BY <2>2, <1>1 DEF Q!PushLoad, PushQuiet
<1>2. CASE Q!PushRetry(p)
  <2>1. QP!PushRetry(p)
    BY <1>2 DEF Q!PushRetry, QP!PushRetry
  <2>2. QP!IndInv'
    BY <2>1, PoolAssumption, QP!PushRetryInv
  <2> QED
    BY <2>2, <1>2 DEF Q!PushRetry, PushQuiet
<1>3. CASE Q!PushWrite(p)
  <2>1. QP!PushWrite(p)
    BY <1>3 DEF Q!PushWrite, QP!PushWrite, Q!Slot, QP!Slot
  <2>2. QP!IndInv'
    BY <2>1, PoolAssumption, QP!PushWriteInv
  <2> QED
    BY <2>2, <1>3 DEF Q!PushWrite, PushQuiet
<1>4. CASE Q!PushPublish(p)
  <2>1. QP!PushPublish(p)
    BY <1>4 DEF Q!PushPublish, QP!PushPublish, Q!Slot, QP!Slot
  <2>2. QP!IndInv'
    BY <2>1, PoolAssumption, QP!PushPublishInv
  <2> QED
    BY <2>2, <1>4 DEF Q!PushPublish, PushQuiet
<1>5. CASE Q!PushClaim(p)
  <2>1. QP!PushClaim(p)
    BY <1>5 DEF Q!PushClaim, QP!PushClaim
  <2>2. QP!IndInv'
    BY <2>1, PoolAssumption, QP!PushClaimInv
  <2>3. item[p] \in Tasks
    BY <2>1 DEF QP!PushClaim, QP!IndInv, QP!ProducerInv, QP!ProducerOK, QP!PushPCs
  <2>4. log' = Append(log, item[p]) /\ head' = head + 1
    BY <1>5, <2>1 DEF QP!PushClaim, QP!IndInv, QP!ProducerInv, QP!ProducerOK
  <2>5. log'[head + 1] = item[p] /\ \A n \in 1 .. head : log'[n] = log[n]
    BY <2>3, <2>4, AppendProperties
  <2> QED
    BY <2>2, <2>4, <2>5, <1>5 DEF Q!PushClaim, PushClaims
<1> QED
  BY <1>1, <1>2, <1>3, <1>4, <1>5 DEF Q!PushStep

LEMMA PopCallEffect ==
    ASSUME QP!IndInv, NEW w \in Workers, Q!PopCall(w)
    PROVE  /\ QP!IndInv'
           /\ Alone(w) /\ UNCHANGED <<head, tail, log, fresh>>
           /\ pc[w] \in {"idle", "ok", "fail"} /\ pc'[w] = "pop_load"
<1>1. QP!PopCall(w)
  BY DEF Q!PopCall, QP!PopCall, Q!ReadyPCs, QP!ReadyPCs
<1>2. QP!IndInv'
  BY <1>1, PoolAssumption, QP!PopCallInv
<1> QED
  BY <1>1, <1>2, QueueTypes DEF QP!PopCall, QP!ReadyPCs, Alone

\* Pop returned and the worker leaves the queue alone.
LEMMA LeaveQueueEffect ==
    ASSUME QP!IndInv, NEW w \in Workers, pc[w] \in {"ok", "fail"},
           pc' = [pc EXCEPT ![w] = "idle"],
           UNCHANGED <<seq, data, head, tail, pos, item, fresh, log>>
    PROVE  QP!IndInv' /\ Alone(w) /\ pc'[w] = "idle"
<1>1. w \in QP!Threads /\ w \notin IOThreads /\ pc'[w] = "idle" /\ Alone(w)
  BY PoolAssumption, QueueTypes DEF QP!Threads, Alone
<1>2. QP!TypeOK'
  BY <1>1 DEF QP!IndInv, QP!TypeOK, QP!ReadyPCs, QP!Threads
<1>3. w \notin QP!Writing /\ w \notin QP!Reading /\ w \notin QP!Writing' /\ w \notin QP!Reading'
  BY <1>1 DEF QP!Writing, QP!Reading
<1>4. \A u \in QP!Threads \ {w} : pc'[u] = pc[u] /\ pos'[u] = pos[u] /\ item'[u] = item[u]
  BY <1>1 DEF QP!Threads, Alone
<1>5. /\ QP!WindowBounded' /\ (Len(log) = head)' /\ QP!WindowInv' /\ QP!DistinctInv'
      /\ \A p \in IOThreads \ {w} : QP!ProducerOK(p)'
      /\ \A c \in Workers \ {w} : QP!ConsumerOK(c)'
  BY <1>1, <1>3, <1>4, PoolAssumption, QP!LocalStep
<1>6. QP!ConsumerOK(w)'
  BY <1>1 DEF QP!ConsumerOK, QP!PopPCs, QP!Reading
<1> QED
  BY <1>1, <1>2, <1>5, <1>6 DEF QP!IndInv, QP!ProducerInv, QP!ConsumerInv

\* Steps inside Pop: before the CAS on tail_, at it, and after it.
PopQuiet(w) == pc[w] \in Trying /\ pc'[w] \in Trying /\ tail' = tail

PopFails(w) ==
    /\ pc[w] \in Trying /\ pc'[w] = "fail" /\ tail' = tail
    /\ head = tail \/ \E p \in IOThreads : pc[p] \in {"push_write", "push_publish"}

PopClaims(w) ==
    /\ pc[w] \in Trying /\ pc'[w] = "pop_read" /\ pos'[w] = tail
    /\ tail < head /\ tail' = tail + 1

PopFinishes(w) ==
    /\ pc[w] \in {"pop_read", "pop_release"} /\ pc'[w] \in {"pop_release", "ok"}
    /\ pos'[w] = pos[w] /\ tail' = tail
    /\ pc'[w] = "ok" => item'[w] = log[pos[w] + 1]

LEMMA PopStepEffect ==
    ASSUME QP!IndInv, NEW w \in Workers, Q!PopStep(w)
    PROVE  /\ QP!IndInv'
           /\ Alone(w) /\ UNCHANGED <<head, log, fresh>>
           /\ PopQuiet(w) \/ PopFails(w) \/ PopClaims(w) \/ PopFinishes(w)
<1> USE QueueTypes DEF Trying, Alone
<1>1. CASE Q!PopLoad(w)
  <2>1. QP!PopLoad(w)
    BY <1>1 DEF Q!PopLoad, QP!PopLoad, Q!Slot, QP!Slot
  <2>2. QP!IndInv'
    BY <2>1, PoolAssumption, QP!PopLoadInv
  <2>3. pc'[w] = "fail" => head = tail \/ \E p \in IOThreads : pc[p] \in {"push_write", "push_publish"}
    BY <2>1, PoolAssumption, QP!PopFails DEF QP!Writing
  <2>4. pc'[w] \in {"pop_cas", "fail", "pop_reload"}
    BY <1>1 DEF Q!PopLoad
  <2> QED
    BY <2>2, <2>3, <2>4, <1>1 DEF Q!PopLoad, PopQuiet, PopFails
<1>2. CASE Q!PopRetry(w)
  <2>1. QP!PopRetry(w)
    BY <1>2 DEF Q!PopRetry, QP!PopRetry
  <2>2. QP!IndInv'
    BY <2>1, PoolAssumption, QP!PopRetryInv
  <2> QED
    BY <2>2, <1>2 DEF Q!PopRetry, PopQuiet
<1>3. CASE Q!PopClaim(w)
  <2>1. QP!PopClaim(w)
    BY <1>3 DEF Q!PopClaim, QP!PopClaim
  <2>2. QP!IndInv'
    BY <2>1, PoolAssumption, QP!PopClaimInv
  <2>3. tail' = tail + 1 /\ head' = head /\ pos'[w] = tail
    BY <1>3 DEF Q!PopClaim
  <2>4. tail' <= head'
    BY <2>2 DEF QP!IndInv, QP!WindowBounded
  <2> QED
    BY <2>2, <2>3, <2>4, <1>3 DEF Q!PopClaim, PopClaims
<1>4. CASE Q!PopRead(w)
  <2>1. QP!PopRead(w)
    BY <1>4 DEF Q!PopRead, QP!PopRead, Q!Slot, QP!Slot
  <2>2. QP!IndInv'
    BY <2>1, PoolAssumption, QP!PopReadInv
  <2> QED
    BY <2>2, <1>4 DEF Q!PopRead, PopFinishes
<1>5. CASE Q!PopRelease(w)
  <2>1. QP!PopRelease(w)
    BY <1>5 DEF Q!PopRelease, QP!PopRelease, Q!Slot, QP!Slot
  <2>2. QP!IndInv'
    BY <2>1, PoolAssumption, QP!PopReleaseInv
  <2>3. item[w] = log[pos[w] + 1]
    BY <1>5 DEF Q!PopRelease, QP!IndInv, QP!ConsumerInv, QP!ConsumerOK
  <2> QED
    BY <2>2, <2>3, <1>5 DEF Q!PopRelease, PopFinishes
<1> QED
  BY <1>1, <1>2, <1>3, <1>4, <1>5 DEF Q!PopStep

-----------------------------------------------------------------------------
\* Types and phases

\* The queue's invariant asks nothing of the tasks that are left but their type.
LEMMA QueueKept ==
    ASSUME QP!IndInv, UNCHANGED queueVars, fresh' \subseteq Tasks
    PROVE  QP!IndInv'
BY DEF queueVars, QP!IndInv, QP!TypeOK, QP!WindowBounded, QP!WindowInv, QP!Full, QP!Free, QP!Emptying,
       QP!ProducerInv, QP!ProducerOK, QP!ConsumerInv, QP!ConsumerOK, QP!DistinctInv, QP!Writing, QP!Reading

LEMMA InvInit == Init => Inv
<1> SUFFICES ASSUME Init PROVE Inv
  OBVIOUS
<1>1. QP!IndInv
  <2>1. QP!Init
    BY DEF Init, Q!Init, QP!Init, Q!Threads, QP!Threads, Q!Cells, QP!Cells
  <2> QED
    BY <2>1, PoolAssumption, QP!IndInvInit
<1>2. pc = [t \in IOThreads \cup Workers |-> "idle"]
  BY DEF Init, Q!Init, Q!Threads
<1>3. PoolTypeOK
  BY DEF Init, PoolTypeOK
<1>4. PhasesInv
  BY <1>2, PoolAssumption DEF Init, PhasesInv
<1> QED
  BY <1>1, <1>3, <1>4 DEF Inv

LEMMA InvSubmit ==
    ASSUME Inv, NEW p \in IOThreads, IOThreadStep(p)
    PROVE  Inv'
<1> USE PoolAssumption DEF Inv
<1>0. \A w \in Workers : w # p
  OBVIOUS
<1>1. ASSUME NEW t \in fresh, SubmitStopped(p, t) PROVE Inv'
  <2>1. QP!IndInv'
    BY <1>1, QueueKept, QueueTypes DEF SubmitStopped
  <2>2. PoolTypeOK' /\ PhasesInv'
    BY <1>1, QueueTypes DEF SubmitStopped, queueVars, PoolTypeOK, PhasesInv
  <2> QED
    BY <2>1, <2>2
<1>2. ASSUME NEW t \in fresh, SubmitPush(p, t) PROVE Inv'
  <2>1. Q!PushCall(p, t) /\ t \in Tasks
    BY <1>2, QueueTypes DEF SubmitPush
  <2>2. QP!IndInv' /\ Alone(p) /\ pc'[p] = "push_load"
    BY <2>1, PushCallEffect
  <2>3. PoolTypeOK'
    BY <1>2, <2>1 DEF SubmitPush, PoolTypeOK
  <2>4. PhasesInv'
    BY <1>0, <1>2, <2>1, <2>2 DEF SubmitPush, PoolTypeOK, PhasesInv, Alone
  <2> QED
    BY <2>2, <2>3, <2>4
<1>3. CASE SubmitInPush(p)
  <2>1. QP!IndInv' /\ Alone(p) /\ (PushQuiet(p) \/ PushClaims(p)) /\ UNCHANGED poolVars
    BY <1>3, PushStepEffect DEF SubmitInPush
  <2>2. pc[p] \notin {"idle", "ok", "fail"} /\ pc'[p] # "idle"
    BY <2>1 DEF PushQuiet, PushClaims, Before, Claimed
  <2>3. PoolTypeOK' /\ PhasesInv'
    BY <1>0, <2>1, <2>2 DEF poolVars, PoolTypeOK, PhasesInv, Alone
  <2> QED
    BY <2>1, <2>3
<1>4. CASE SubmitReturn(p)
  <2>1. QP!IndInv' /\ UNCHANGED queueVars
    BY <1>4, QueueKept, QueueTypes DEF SubmitReturn
  <2>2. PoolTypeOK' /\ PhasesInv'
    BY <1>4 DEF SubmitReturn, queueVars, PoolTypeOK, PhasesInv
  <2> QED
    BY <2>1, <2>2
<1> QED
  BY <1>1, <1>2, <1>3, <1>4 DEF IOThreadStep

LEMMA InvWorker ==
    ASSUME Inv, NEW w \in Workers, WorkerStep(w)
    PROVE  Inv'
<1> USE PoolAssumption DEF Inv
<1>0. \A p \in IOThreads : p # w
  OBVIOUS
<1>1. CASE Acquire(w)
  <2>1. QP!IndInv'
    BY <1>1, QueueKept, QueueTypes DEF Acquire
  <2>2. PoolTypeOK' /\ PhasesInv'
    BY <1>1 DEF Acquire, queueVars, PoolTypeOK, PhasesInv
  <2> QED
    BY <2>1, <2>2
<1>2. CASE AfterAcquire(w)
  <2>1. QP!IndInv' /\ Alone(w) /\ pc'[w] = "pop_load"
    BY <1>2, PopCallEffect DEF AfterAcquire
  <2>2. PoolTypeOK' /\ PhasesInv'
    BY <1>0, <1>2, <2>1 DEF AfterAcquire, PoolTypeOK, PhasesInv, Alone
  <2> QED
    BY <2>1, <2>2
<1>3. CASE WorkerInPop(w)
  <2>1. QP!IndInv' /\ Alone(w) /\ UNCHANGED poolVars
    BY <1>3, PopStepEffect DEF WorkerInPop
  <2>2. pc[w] # "idle" /\ pc'[w] # "idle"
    BY <1>3, PopStepEffect DEF WorkerInPop, PopQuiet, PopFails, PopClaims, PopFinishes, Trying
  <2>3. PoolTypeOK' /\ PhasesInv'
    BY <1>0, <2>1, <2>2 DEF poolVars, PoolTypeOK, PhasesInv, Alone
  <2> QED
    BY <2>1, <2>3
<1>4. CASE RunTask(w)
  <2>1. QP!IndInv' /\ Alone(w)
        /\ \/ at[w] = "pop" /\ pc'[w] = "idle" /\ at' = [at EXCEPT ![w] = "acquire"]
           \/ at[w] = "drain" /\ pc'[w] = "pop_load" /\ at' = at
    BY <1>4, PopCallEffect, LeaveQueueEffect DEF RunTask
  <2>2. PoolTypeOK'
    <3>1. ran' \in [Tasks -> Nat]
      <4>1. ran' = [ran EXCEPT ![item[w]] = @ + 1] /\ ran \in [Tasks -> Nat]
        BY <1>4 DEF RunTask, PoolTypeOK
      <4>2. CASE item[w] \in Tasks
        BY <4>1, <4>2
      <4>3. CASE item[w] \notin Tasks
        BY <4>1, <4>3
      <4> QED
        BY <4>2, <4>3
    <3> QED
      BY <1>4, <2>1, <3>1 DEF RunTask, PoolTypeOK
  <2>3. PhasesInv'
    BY <1>0, <1>4, <2>1 DEF RunTask, PoolTypeOK, PhasesInv, Alone
  <2> QED
    BY <2>1, <2>2, <2>3
<1>5. CASE NothingPopped(w)
  <2>1. QP!IndInv' /\ Alone(w) /\ pc'[w] = "idle"
    BY <1>5, LeaveQueueEffect DEF NothingPopped
  <2>2. PoolTypeOK' /\ PhasesInv'
    BY <1>0, <1>5, <2>1 DEF NothingPopped, PoolTypeOK, PhasesInv, Alone
  <2> QED
    BY <2>1, <2>2
<1> QED
  BY <1>1, <1>2, <1>3, <1>4, <1>5 DEF WorkerStep

LEMMA InvMain ==
    ASSUME Inv, MainStep
    PROVE  Inv'
<1> USE DEF Inv
<1>1. QP!IndInv'
  BY QueueKept, QueueTypes DEF MainStep, StopBegin, StopRelease, StopJoined
<1>2. Cardinality(Workers) \in Nat
  BY PoolAssumption, FS_CardinalityType
<1>3. PoolTypeOK'
  <2>1. sem' \in Nat /\ unreleased' \in Nat /\ stop' \in BOOLEAN
    <3>1. CASE StopBegin
      BY <1>2, <3>1 DEF StopBegin, PoolTypeOK
    <3>2. CASE StopRelease
      BY <3>2 DEF StopRelease, PoolTypeOK
    <3>3. CASE StopJoined
      BY <3>3 DEF StopJoined, PoolTypeOK
    <3> QED
      BY <3>1, <3>2, <3>3 DEF MainStep
  <2>2. UNCHANGED <<submitting, at, accepted, rejected, ran>>
    BY DEF MainStep, StopBegin, StopRelease, StopJoined
  <2> QED
    BY <2>1, <2>2 DEF PoolTypeOK
<1>4. CASE StopBegin
  <2>1. main' # "running" /\ stop' /\ UNCHANGED <<pc, submitting, at>>
    BY <1>4 DEF StopBegin, queueVars
  <2> QED
    BY <1>1, <1>3, <2>1 DEF PhasesInv
<1>5. CASE StopRelease
  BY <1>1, <1>3, <1>5 DEF StopRelease, queueVars, PhasesInv
<1>6. CASE StopJoined
  <2>1. main = "releasing" /\ main' = "joined" /\ stop' = stop
        /\ UNCHANGED <<pc, submitting, at>>
    BY <1>6 DEF StopJoined, queueVars
  <2> QED
    BY <1>1, <1>3, <2>1 DEF PhasesInv
<1> QED
  BY <1>4, <1>5, <1>6 DEF MainStep

LEMMA InvNext == Inv /\ [Next]_vars => Inv'
<1> SUFFICES ASSUME Inv, [Next]_vars PROVE Inv'
  OBVIOUS
<1>1. CASE UNCHANGED vars
  <2>1. QP!IndInv'
    BY <1>1, QueueKept, QueueTypes DEF vars, Inv
  <2> QED
    BY <1>1, <2>1 DEF vars, queueVars, poolVars, Inv, PoolTypeOK, PhasesInv
<1> QED
  BY <1>1, InvSubmit, InvWorker, InvMain DEF Next

LEMMA PoolInvariance == Spec => []Inv
BY InvInit, InvNext, PTL DEF Spec

-----------------------------------------------------------------------------
\* Where a task is

\* Steps of workers and of the main thread leave the tasks' bookkeeping alone.
LEMMA TasksKept ==
    ASSUME TaskInv, UNCHANGED <<log, head, fresh, submitting, rejected, accepted>>,
           \A p \in IOThreads : pc'[p] = pc[p] /\ item'[p] = item[p]
    PROVE  TaskInv'
<1>1. \A t : Logged(t)' <=> Logged(t)
  BY DEF Logged
<1> QED
  BY <1>1 DEF TaskInv

LEMMA TasksSubmit ==
    ASSUME Inv, TaskInv, NEW p \in IOThreads, IOThreadStep(p)
    PROVE  TaskInv'
<1> USE PoolAssumption
<1>0. /\ head \in Nat /\ submitting \in [IOThreads -> Tasks \cup {NoTask}] /\ fresh \subseteq Tasks
      /\ accepted \subseteq Tasks /\ rejected \subseteq Tasks
  BY QueueTypes DEF Inv, PoolTypeOK
<1>1. ASSUME NEW t \in fresh, SubmitStopped(p, t) PROVE TaskInv'
  <2>1. \A x : Logged(x)' <=> Logged(x)
    BY <1>1 DEF Logged, SubmitStopped, queueVars
  <2> QED
    BY <1>0, <1>1, <2>1 DEF TaskInv, SubmitStopped, queueVars
<1>2. ASSUME NEW t \in fresh, SubmitPush(p, t) PROVE TaskInv'
  <2>1. /\ Alone(p) /\ UNCHANGED <<head, tail, log>>
        /\ pc'[p] = "push_load" /\ item'[p] = t /\ fresh' = fresh \ {t}
    BY <1>2, PushCallEffect DEF SubmitPush, Inv
  <2>2. \A x : Logged(x)' <=> Logged(x)
    BY <2>1 DEF Logged
  <2>3. /\ submitting' = [submitting EXCEPT ![p] = t] /\ submitting[p] = NoTask
        /\ UNCHANGED <<rejected, accepted>> /\ t # NoTask
    BY <1>0, <1>2 DEF SubmitPush
  <2>4. \A q \in IOThreads \ {p} : pc'[q] = pc[q] /\ item'[q] = item[q] /\ submitting'[q] = submitting[q]
    BY <1>0, <2>1, <2>3 DEF Alone
  <2>5. submitting'[p] = t
    BY <1>0, <2>3
  <2>6. "push_load" \in Before /\ "push_load" \notin Claimed
    BY DEF Before, Claimed
  <2>7. /\ \A m, n \in 1 .. head' : log'[m] = log'[n] => m = n
        /\ \A x \in fresh' \cup rejected' : ~ Logged(x)'
        /\ fresh' \cap rejected' = {}
        /\ \A q \in IOThreads : submitting'[q] \notin fresh' \cup rejected'
        /\ \A x \in accepted' : Logged(x)'
    BY <2>1, <2>2, <2>3, <2>4, <2>5 DEF TaskInv
  <2>8. \A q, r \in IOThreads : submitting'[q] = submitting'[r] /\ submitting'[q] # NoTask => q = r
    BY <2>4, <2>5 DEF TaskInv
  <2>9. \A q \in IOThreads : pc'[q] \in Before => item'[q] = submitting'[q]
    BY <2>1, <2>4, <2>5 DEF TaskInv
  <2>10. \A q \in IOThreads : submitting'[q] # NoTask => (Logged(submitting[q])' <=> pc'[q] \in Claimed)
    <3> SUFFICES ASSUME NEW q \in IOThreads, submitting'[q] # NoTask
                 PROVE  Logged(submitting[q])' <=> pc'[q] \in Claimed
      OBVIOUS
    <3>1. CASE q = p
      <4>1. ~ Logged(t)
        BY DEF TaskInv
      <4> QED
        BY <3>1, <4>1, <2>1, <2>2, <2>5, <2>6
    <3>2. CASE q # p
      BY <3>2, <2>2, <2>4 DEF TaskInv
    <3> QED
      BY <3>1, <3>2
  <2> QED
    BY <2>7, <2>8, <2>9, <2>10 DEF TaskInv
<1>3. CASE SubmitInPush(p)
  <2>1. Alone(p) /\ UNCHANGED fresh /\ (PushQuiet(p) \/ PushClaims(p))
    BY <1>3, PushStepEffect DEF SubmitInPush, Inv
  <2>2. UNCHANGED <<submitting, rejected, accepted>>
    BY <1>3 DEF SubmitInPush, poolVars
  <2>3. pc[p] \notin {"idle", "ok", "fail"}
    BY <2>1 DEF PushQuiet, PushClaims, Before
  <2>4. submitting[p] # NoTask
    BY <2>3 DEF Inv, PhasesInv
  <2>5. \A q \in IOThreads \ {p} : pc'[q] = pc[q] /\ item'[q] = item[q]
    BY <2>1 DEF Alone
  <2>6. Before \cap Claimed = {} /\ "fail" \notin Claimed /\ {"push_write", "push_publish"} \subseteq Claimed
    BY DEF Before, Claimed
  <2>7. CASE PushQuiet(p)
    <3>1. \A x : Logged(x)' <=> Logged(x)
      BY <2>7 DEF Logged, PushQuiet
    <3>2. pc'[p] \in Claimed <=> pc[p] \in Claimed
      BY <2>6, <2>7 DEF PushQuiet
    <3>3. pc'[p] \in Before => item'[p] = submitting'[p]
      BY <2>2, <2>6, <2>7 DEF PushQuiet, TaskInv
    <3>4. \A q \in IOThreads : pc'[q] \in Before => item'[q] = submitting'[q]
      BY <2>2, <2>5, <3>3 DEF TaskInv
    <3>5. \A q \in IOThreads : submitting'[q] # NoTask => (Logged(submitting[q])' <=> pc'[q] \in Claimed)
      BY <2>2, <2>5, <3>1, <3>2 DEF TaskInv
    <3>6. UNCHANGED <<head, log>>
      BY <2>7 DEF PushQuiet
    <3> QED
      BY <2>1, <2>2, <3>1, <3>4, <3>5, <3>6 DEF TaskInv
  <2>8. CASE PushClaims(p)
    <3>1. /\ pc[p] \in Before /\ pc'[p] = "push_write"
          /\ head' = head + 1
          /\ log'[head + 1] = item[p] /\ \A n \in 1 .. head : log'[n] = log[n]
      BY <2>8 DEF PushClaims
    <3>2. item[p] = submitting[p] /\ ~ Logged(submitting[p])
      BY <2>4, <2>6, <3>1 DEF TaskInv
    <3>3. \A x : Logged(x)' <=> (Logged(x) \/ x = submitting[p])
      BY <1>0, <3>1, <3>2 DEF Logged
    <3>4. \A m, n \in 1 .. head' : log'[m] = log'[n] => m = n
      BY <1>0, <3>1, <3>2 DEF TaskInv, Logged
    <3>5. \A x \in fresh' \cup rejected' : ~ Logged(x)'
      BY <2>1, <2>2, <3>3 DEF TaskInv
    <3>6. \A q \in IOThreads : pc'[q] \in Before => item'[q] = submitting'[q]
      BY <2>2, <2>5, <2>6, <3>1 DEF TaskInv
    <3>7. \A q \in IOThreads : submitting'[q] # NoTask => (Logged(submitting[q])' <=> pc'[q] \in Claimed)
      <4> SUFFICES ASSUME NEW q \in IOThreads, submitting'[q] # NoTask
                   PROVE  Logged(submitting[q])' <=> pc'[q] \in Claimed
        OBVIOUS
      <4>1. CASE q = p
        BY <4>1, <2>2, <2>6, <3>1, <3>3
      <4>2. CASE q # p
        BY <4>2, <2>2, <2>5, <3>3 DEF TaskInv
      <4> QED
        BY <4>1, <4>2
    <3> QED
      BY <2>1, <2>2, <3>3, <3>4, <3>5, <3>6, <3>7 DEF TaskInv
  <2> QED
    BY <2>1, <2>7, <2>8
<1>4. CASE SubmitReturn(p)
  <2>1. /\ submitting[p] # NoTask /\ submitting' = [submitting EXCEPT ![p] = NoTask]
        /\ UNCHANGED <<queueVars, fresh>>
        /\ \/ pc[p] = "ok" /\ accepted' = accepted \cup {submitting[p]} /\ UNCHANGED rejected
           \/ pc[p] = "fail" /\ rejected' = rejected \cup {submitting[p]} /\ UNCHANGED accepted
    BY <1>4 DEF SubmitReturn
  <2>2. UNCHANGED <<head, log, fresh, pc, item>>
    BY <2>1 DEF queueVars
  <2>3. \A x : Logged(x)' <=> Logged(x)
    BY <2>2 DEF Logged
  <2>4. /\ \A q \in IOThreads \ {p} : submitting'[q] = submitting[q] /\ submitting'[q] # submitting[p]
        /\ submitting'[p] = NoTask
    BY <1>0, <2>1 DEF TaskInv
  <2>5. "ok" \in Claimed /\ "fail" \notin Claimed /\ "ok" \notin Before /\ "fail" \notin Before
    BY DEF Before, Claimed
  <2>6. pc[p] \in Claimed <=> Logged(submitting[p])
    BY <2>1 DEF TaskInv
  <2>7. /\ \A x \in fresh' \cup rejected' : ~ Logged(x)'
        /\ \A x \in accepted' : Logged(x)'
    BY <2>1, <2>2, <2>3, <2>5, <2>6 DEF TaskInv
  <2>8. NoTask \notin fresh /\ NoTask \notin rejected /\ submitting[p] \notin fresh
    BY <1>0 DEF TaskInv
  <2>9. /\ fresh' \cap rejected' = {}
        /\ \A q \in IOThreads : submitting'[q] \notin fresh' \cup rejected'
    BY <2>1, <2>2, <2>4, <2>8 DEF TaskInv
  <2>10. \A q \in IOThreads : pc'[q] \in Before => item'[q] = submitting'[q]
    BY <2>1, <2>2, <2>4, <2>5 DEF TaskInv
  <2>11. /\ \A q, r \in IOThreads : submitting'[q] = submitting'[r] /\ submitting'[q] # NoTask => q = r
         /\ \A q \in IOThreads : submitting'[q] # NoTask => (Logged(submitting[q])' <=> pc'[q] \in Claimed)
    BY <2>2, <2>3, <2>4 DEF TaskInv
  <2> QED
    BY <2>2, <2>7, <2>9, <2>10, <2>11 DEF TaskInv
<1> QED
  BY <1>1, <1>2, <1>3, <1>4 DEF IOThreadStep

\* A worker's step is invisible to the threads that submit.
LEMMA WorkerEffect ==
    ASSUME Inv, NEW w \in Workers, WorkerStep(w)
    PROVE  /\ Alone(w) /\ UNCHANGED <<log, head, fresh, submitting, rejected, accepted, stop, main, raced>>
           /\ \A p \in IOThreads : pc'[p] = pc[p] /\ item'[p] = item[p]
<1> USE PoolAssumption DEF Inv
<1>1. CASE Acquire(w)
  BY <1>1 DEF Acquire, queueVars, Alone
<1>2. CASE AfterAcquire(w)
  BY <1>2, PopCallEffect DEF AfterAcquire, Alone
<1>3. CASE WorkerInPop(w)
  BY <1>3, PopStepEffect DEF WorkerInPop, Alone, poolVars
<1>4. CASE RunTask(w)
  BY <1>4, PopCallEffect, LeaveQueueEffect DEF RunTask, Alone
<1>5. CASE NothingPopped(w)
  BY <1>5, LeaveQueueEffect DEF NothingPopped, Alone
<1> QED
  BY <1>1, <1>2, <1>3, <1>4, <1>5 DEF WorkerStep

LEMMA TaskStep == Inv /\ TaskInv /\ [Next]_vars => TaskInv'
<1> SUFFICES ASSUME Inv, TaskInv, [Next]_vars PROVE TaskInv'
  OBVIOUS
<1>1. ASSUME NEW w \in Workers, WorkerStep(w) PROVE TaskInv'
  BY <1>1, WorkerEffect, TasksKept
<1>2. ASSUME MainStep \/ UNCHANGED vars PROVE TaskInv'
  BY <1>2, TasksKept DEF MainStep, StopBegin, StopRelease, StopJoined, vars, queueVars, poolVars
<1> QED
  BY <1>1, <1>2, TasksSubmit DEF Next

LEMMA TaskInvariance == Spec => []TaskInv
<1>1. Init => TaskInv
  <2> SUFFICES ASSUME Init PROVE TaskInv
    OBVIOUS
  <2>1. head = 0 /\ fresh = Tasks /\ pc = [t \in IOThreads \cup Workers |-> "idle"]
    BY DEF Init, Q!Init, Q!Threads
  <2>2. \A t : ~ Logged(t)
    BY <2>1 DEF Logged
  <2> QED
    BY <2>1, <2>2, PoolAssumption DEF Init, TaskInv, Before, Claimed
<1> QED
  BY <1>1, TaskStep, PoolInvariance, PTL DEF Spec

-----------------------------------------------------------------------------
\* How often a task runs

\* A step that leaves every worker's claim, the popped part of the log and ran alone.
LEMMA HoldKept ==
    ASSUME Inv, HoldInv, UNCHANGED <<tail, ran>>, \A n \in 1 .. head : log'[n] = log[n],
           \A w \in Workers : (w \in Holding)' <=> w \in Holding,
           \A w \in Holding : pos'[w] = pos[w],
           \A w \in Workers : pc'[w] = "ok" => item'[w] = log[pos[w] + 1] /\ pos'[w] = pos[w]
    PROVE  HoldInv'
<1>0. head \in Nat /\ tail \in Nat /\ tail <= head /\ \A w \in Workers : pos[w] \in Nat
  BY QueueTypes DEF Inv
<1>1. \A n \in 1 .. tail : log'[n] = log[n]
  BY <1>0
<1>2. ASSUME NEW w \in Holding
      PROVE  pos[w] < tail /\ ran[log[pos[w] + 1]] = 0 /\ log'[pos[w] + 1] = log[pos[w] + 1]
  <2>1. pos[w] < tail /\ ran[log[pos[w] + 1]] = 0 /\ w \in Workers
    BY DEF HoldInv, Holding
  <2>2. pos[w] + 1 \in 1 .. tail
    BY <2>1, <1>0
  <2> QED
    BY <2>1, <2>2, <1>1
<1>3. \A w \in Holding' : w \in Holding /\ w \in Workers
  BY DEF Holding
<1>4. \A w \in Holding' : pos'[w] < tail' /\ ran'[log'[pos'[w] + 1]] = 0
  BY <1>2, <1>3
<1>5. \A w \in Workers : pc'[w] = "ok" => item'[w] = log'[pos'[w] + 1]
  <2> SUFFICES ASSUME NEW w \in Workers, pc'[w] = "ok" PROVE item'[w] = log'[pos'[w] + 1]
    OBVIOUS
  <2>1. w \in Holding'
    BY DEF Holding
  <2> QED
    BY <2>1, <1>2, <1>3
<1>6. \A v, w \in Holding' : pos'[v] = pos'[w] => v = w
  BY <1>3 DEF HoldInv
<1>7. \A t \in Tasks : ran'[t] \in {0, 1} /\ (ran'[t] = 1 => \E n \in 1 .. tail' : log'[n] = t)
  BY <1>1 DEF HoldInv
<1>8. \A n \in 1 .. tail' : ran'[log'[n]] = 1 \/ \E w \in Holding' : pos'[w] + 1 = n
  <2> SUFFICES ASSUME NEW n \in 1 .. tail, ran[log[n]] # 1 PROVE \E w \in Holding' : pos'[w] + 1 = n
    BY <1>1
  <2>1. PICK w \in Holding : pos[w] + 1 = n
    BY DEF HoldInv
  <2>2. w \in Holding' /\ pos'[w] = pos[w]
    BY <2>1 DEF Holding
  <2> QED
    BY <2>1, <2>2
<1> QED
  BY <1>4, <1>5, <1>6, <1>7, <1>8 DEF HoldInv

LEMMA HoldSubmit ==
    ASSUME Inv, HoldInv, NEW p \in IOThreads, IOThreadStep(p)
    PROVE  HoldInv'
<1> USE PoolAssumption
<1>1. \A w \in Workers : pc'[w] = pc[w] /\ pos'[w] = pos[w] /\ item'[w] = item[w]
  <2>1. ASSUME NEW t \in fresh, SubmitPush(p, t) PROVE Alone(p)
    BY <2>1, PushCallEffect DEF SubmitPush, Inv
  <2>2. ASSUME SubmitInPush(p) PROVE Alone(p)
    BY <2>2, PushStepEffect DEF SubmitInPush, Inv
  <2>3. ASSUME SubmitReturn(p) \/ \E t \in fresh : SubmitStopped(p, t) PROVE Alone(p)
    BY <2>3 DEF SubmitReturn, SubmitStopped, queueVars, Alone
  <2>4. Alone(p)
    BY <2>1, <2>2, <2>3 DEF IOThreadStep
  <2> QED
    BY <2>4 DEF Alone
<1>2. UNCHANGED <<tail, ran>> /\ \A n \in 1 .. head : log'[n] = log[n]
  <2>1. ASSUME NEW t \in fresh, SubmitPush(p, t) PROVE UNCHANGED <<tail, ran, log>>
    BY <2>1, PushCallEffect DEF SubmitPush, Inv
  <2>2. ASSUME SubmitInPush(p) PROVE UNCHANGED <<tail, ran>> /\ \A n \in 1 .. head : log'[n] = log[n]
    BY <2>2, PushStepEffect DEF SubmitInPush, Inv, PushQuiet, PushClaims, poolVars
  <2>3. ASSUME SubmitReturn(p) \/ \E t \in fresh : SubmitStopped(p, t) PROVE UNCHANGED <<tail, ran, log>>
    BY <2>3 DEF SubmitReturn, SubmitStopped, queueVars
  <2> QED
    BY <2>1, <2>2, <2>3 DEF IOThreadStep
<1>3. \A w \in Workers : pc[w] = "ok" => item[w] = log[pos[w] + 1]
  BY DEF HoldInv
<1>4. /\ \A w \in Workers : (w \in Holding)' <=> w \in Holding
      /\ \A w \in Holding : pos'[w] = pos[w]
  BY <1>1 DEF Holding
<1> QED
  BY <1>1, <1>2, <1>3, <1>4, HoldKept

\* A worker that holds no position before the step and none after it.
LEMMA HoldLocal ==
    ASSUME Inv, HoldInv, NEW w \in Workers, Alone(w), UNCHANGED <<tail, ran, log>>,
           w \notin Holding, w \notin Holding'
    PROVE  HoldInv'
<1>1. \A v \in Workers : (v \in Holding)' <=> v \in Holding
  BY DEF Holding, Alone
<1>2. \A v \in Holding : pos'[v] = pos[v]
  BY DEF Holding, Alone
<1>3. \A v \in Workers : pc'[v] = "ok" => item'[v] = log[pos[v] + 1] /\ pos'[v] = pos[v]
  <2> SUFFICES ASSUME NEW v \in Workers, pc'[v] = "ok" PROVE item'[v] = log[pos[v] + 1] /\ pos'[v] = pos[v]
    OBVIOUS
  <2>1. v # w
    BY DEF Holding
  <2> QED
    BY <2>1 DEF Alone, HoldInv
<1> QED
  BY <1>1, <1>2, <1>3, HoldKept

\* The CAS on tail_: nobody held the position and its task has not run.
LEMMA HoldClaims ==
    ASSUME Inv, TaskInv, HoldInv, NEW w \in Workers, Alone(w), UNCHANGED <<log, ran>>, PopClaims(w)
    PROVE  HoldInv'
<1>0. head \in Nat /\ tail \in Nat /\ tail < head /\ \A v \in Workers : pos[v] \in Nat
  BY QueueTypes DEF Inv, PopClaims
<1>1. /\ pc'[w] = "pop_read" /\ pos'[w] = tail /\ tail' = tail + 1 /\ w \notin Holding
  BY DEF PopClaims, Trying, Holding
<1>2. Holding' = Holding \cup {w}
  BY <1>1 DEF Holding, Alone
<1>3. \A v \in Holding : v # w /\ v \in Workers /\ pos'[v] = pos[v] /\ pos[v] < tail
  BY <1>1 DEF Holding, Alone, HoldInv
<1>4. ran[log[tail + 1]] = 0
  <2>1. tail + 1 \in 1 .. head
    BY <1>0
  <2>2. log[tail + 1] \in Tasks
    BY <2>1, QueueTypes DEF Inv
  <2>3. ASSUME ran[log[tail + 1]] = 1 PROVE FALSE
    <3>1. PICK n \in 1 .. tail : log[n] = log[tail + 1]
      BY <2>2, <2>3 DEF HoldInv
    <3>2. n \in 1 .. head /\ n # tail + 1
      BY <1>0
    <3> QED
      BY <2>1, <3>1, <3>2 DEF TaskInv
  <2> QED
    BY <2>2, <2>3 DEF HoldInv
<1>5. \A v \in Holding' : pos'[v] < tail' /\ ran'[log'[pos'[v] + 1]] = 0
  BY <1>0, <1>1, <1>2, <1>3, <1>4 DEF HoldInv
<1>6. \A v \in Workers : pc'[v] = "ok" => item'[v] = log'[pos'[v] + 1]
  <2> SUFFICES ASSUME NEW v \in Workers, pc'[v] = "ok" PROVE item'[v] = log'[pos'[v] + 1]
    OBVIOUS
  <2>1. v # w
    BY <1>1
  <2> QED
    BY <2>1 DEF Alone, HoldInv
<1>7. \A u, v \in Holding' : pos'[u] = pos'[v] => u = v
  BY <1>0, <1>1, <1>2, <1>3 DEF HoldInv
<1>8. \A t \in Tasks : ran'[t] \in {0, 1} /\ (ran'[t] = 1 => \E n \in 1 .. tail' : log'[n] = t)
  BY <1>0, <1>1 DEF HoldInv
<1>9. \A n \in 1 .. tail' : ran'[log'[n]] = 1 \/ \E v \in Holding' : pos'[v] + 1 = n
  <2> SUFFICES ASSUME NEW n \in 1 .. tail + 1, ran[log[n]] # 1 PROVE \E v \in Holding' : pos'[v] + 1 = n
    BY <1>1
  <2>1. CASE n = tail + 1
    BY <2>1, <1>1, <1>2
  <2>2. CASE n # tail + 1
    <3>1. n \in 1 .. tail
      BY <1>0, <2>2
    <3>2. PICK v \in Holding : pos[v] + 1 = n
      BY <3>1 DEF HoldInv
    <3> QED
      BY <3>2, <1>2, <1>3
  <2> QED
    BY <2>1, <2>2
<1> QED
  BY <1>5, <1>6, <1>7, <1>8, <1>9 DEF HoldInv

\* The task is executed: its position is held no more.
LEMMA HoldRun ==
    ASSUME Inv, TaskInv, HoldInv, NEW w \in Workers, Alone(w), UNCHANGED <<log, tail>>,
           pc[w] = "ok", pc'[w] \in {"idle", "pop_load"}, ran' = [ran EXCEPT ![item[w]] = @ + 1]
    PROVE  HoldInv'
<1> DEFINE t == log[pos[w] + 1]
<1>0. /\ head \in Nat /\ tail \in Nat /\ tail <= head /\ \A v \in Workers : pos[v] \in Nat
      /\ ran \in [Tasks -> Nat]
  BY QueueTypes DEF Inv, PoolTypeOK
<1>1. w \in Holding /\ item[w] = t /\ pos[w] < tail /\ ran[t] = 0
  BY DEF Holding, HoldInv
<1>2. pos[w] + 1 \in 1 .. tail /\ pos[w] + 1 \in 1 .. head /\ t \in Tasks
  <2>1. pos[w] + 1 \in 1 .. tail /\ pos[w] + 1 \in 1 .. head
    BY <1>0, <1>1
  <2> QED
    BY <2>1, QueueTypes DEF Inv
<1>3. Holding' = Holding \ {w}
  BY DEF Holding, Alone
<1>4. \A v \in Holding' : v # w /\ v \in Holding /\ v \in Workers /\ pos'[v] = pos[v] /\ pos[v] # pos[w]
  BY <1>1, <1>3 DEF Holding, Alone, HoldInv
<1>5. \A n \in 1 .. tail : n # pos[w] + 1 => log[n] # t
  <2> SUFFICES ASSUME NEW n \in 1 .. tail, log[n] = t PROVE n = pos[w] + 1
    OBVIOUS
  <2>1. n \in 1 .. head
    BY <1>0
  <2> QED
    BY <1>2, <2>1 DEF TaskInv
<1>6. ran'[t] = 1 /\ \A x \in Tasks : x # t => ran'[x] = ran[x]
  BY <1>0, <1>1, <1>2
<1>7. \A n \in 1 .. tail : log[n] \in Tasks
  BY <1>0, QueueTypes DEF Inv
<1> HIDE DEF t
<1>8. ASSUME NEW v \in Holding' PROVE pos'[v] < tail' /\ ran'[log'[pos'[v] + 1]] = 0
  <2>1. pos[v] < tail /\ ran[log[pos[v] + 1]] = 0
    BY <1>4 DEF HoldInv
  <2>2. pos[v] + 1 \in 1 .. tail /\ pos[v] + 1 # pos[w] + 1
    BY <1>0, <1>4, <2>1
  <2>3. ran'[log[pos[v] + 1]] = ran[log[pos[v] + 1]]
    BY <1>5, <1>6, <1>7, <2>2
  <2> QED
    BY <1>4, <2>1, <2>3
<1>9. \A v \in Workers : pc'[v] = "ok" => item'[v] = log'[pos'[v] + 1]
  BY DEF Alone, HoldInv
<1>10. \A u, v \in Holding' : pos'[u] = pos'[v] => u = v
  BY <1>4 DEF HoldInv
<1>11. \A x \in Tasks : ran'[x] \in {0, 1} /\ (ran'[x] = 1 => \E n \in 1 .. tail' : log'[n] = x)
  <2> SUFFICES ASSUME NEW x \in Tasks
               PROVE  ran'[x] \in {0, 1} /\ (ran'[x] = 1 => \E n \in 1 .. tail : log[n] = x)
    OBVIOUS
  <2>1. CASE x = t
    BY <2>1, <1>2, <1>6 DEF t
  <2>2. CASE x # t
    BY <2>2, <1>6 DEF HoldInv
  <2> QED
    BY <2>1, <2>2
<1>12. \A n \in 1 .. tail' : ran'[log'[n]] = 1 \/ \E v \in Holding' : pos'[v] + 1 = n
  <2> SUFFICES ASSUME NEW n \in 1 .. tail, ran'[log[n]] # 1 PROVE \E v \in Holding' : pos'[v] + 1 = n
    OBVIOUS
  <2>1. log[n] # t /\ ran[log[n]] # 1
    BY <1>6, <1>7
  <2>2. PICK v \in Holding : pos[v] + 1 = n
    BY <2>1 DEF HoldInv
  <2>3. v # w
    BY <2>1, <2>2 DEF t
  <2> QED
    BY <1>3, <1>4, <2>2, <2>3
<1> QED
  BY <1>8, <1>9, <1>10, <1>11, <1>12 DEF HoldInv

LEMMA HoldWorker ==
    ASSUME Inv, TaskInv, HoldInv, NEW w \in Workers, WorkerStep(w)
    PROVE  HoldInv'
<1>0. Alone(w) /\ UNCHANGED log
  BY WorkerEffect
<1>1. CASE Acquire(w)
  BY <1>1, HoldKept DEF Acquire, queueVars, Holding, HoldInv
<1>2. CASE AfterAcquire(w)
  <2>1. pc[w] = "idle" /\ pc'[w] = "pop_load" /\ UNCHANGED <<tail, ran>>
    BY <1>2, PopCallEffect DEF AfterAcquire, Inv, PhasesInv
  <2> QED
    BY <1>0, <2>1, HoldLocal DEF Holding
<1>3. CASE WorkerInPop(w)
  <2>1. UNCHANGED ran /\ (PopQuiet(w) \/ PopFails(w) \/ PopClaims(w) \/ PopFinishes(w))
    BY <1>3, PopStepEffect DEF WorkerInPop, Inv, poolVars
  <2>2. CASE PopQuiet(w) \/ PopFails(w)
    <3>1. w \notin Holding /\ w \notin Holding' /\ UNCHANGED tail
      BY <2>2 DEF PopQuiet, PopFails, Trying, Holding
    <3> QED
      BY <1>0, <2>1, <3>1, HoldLocal
  <2>3. CASE PopClaims(w)
    BY <1>0, <2>1, <2>3, HoldClaims
  <2>4. CASE PopFinishes(w)
    <3>1. w \in Holding /\ w \in Holding' /\ UNCHANGED tail /\ pos'[w] = pos[w]
          /\ (pc'[w] = "ok" => item'[w] = log[pos[w] + 1])
      BY <2>4 DEF PopFinishes, Holding
    <3>2. /\ \A v \in Workers : (v \in Holding)' <=> v \in Holding
          /\ \A v \in Holding : pos'[v] = pos[v]
      BY <1>0, <3>1 DEF Alone, Holding
    <3>3. \A v \in Workers : pc'[v] = "ok" => item'[v] = log[pos[v] + 1] /\ pos'[v] = pos[v]
      BY <1>0, <3>1 DEF Alone, HoldInv
    <3> QED
      BY <1>0, <2>1, <3>1, <3>2, <3>3, HoldKept
  <2> QED
    BY <2>1, <2>2, <2>3, <2>4
<1>4. CASE RunTask(w)
  <2>1. pc[w] = "ok" /\ ran' = [ran EXCEPT ![item[w]] = @ + 1]
    BY <1>4 DEF RunTask
  <2>2. pc'[w] \in {"idle", "pop_load"} /\ UNCHANGED tail
    BY <1>4, PopCallEffect, LeaveQueueEffect DEF RunTask, Inv
  <2> QED
    BY <1>0, <2>1, <2>2, HoldRun
<1>5. CASE NothingPopped(w)
  <2>1. pc[w] = "fail" /\ pc'[w] = "idle" /\ UNCHANGED <<tail, ran>>
    BY <1>5, LeaveQueueEffect DEF NothingPopped, Inv
  <2> QED
    BY <1>0, <2>1, HoldLocal DEF Holding
<1> QED
  BY <1>1, <1>2, <1>3, <1>4, <1>5 DEF WorkerStep

LEMMA HoldStep == Inv /\ TaskInv /\ HoldInv /\ [Next]_vars => HoldInv'
<1> SUFFICES ASSUME Inv, TaskInv, HoldInv, [Next]_vars PROVE HoldInv'
  OBVIOUS
<1>1. ASSUME MainStep \/ UNCHANGED vars PROVE HoldInv'
  <2>1. UNCHANGED <<pc, pos, item, log, tail, ran>>
    BY <1>1 DEF MainStep, StopBegin, StopRelease, StopJoined, vars, queueVars, poolVars
  <2> QED
    BY <2>1 DEF HoldInv, Holding
<1> QED
  BY <1>1, HoldSubmit, HoldWorker DEF Next

LEMMA HoldInvariance == Spec => []HoldInv
<1>1. Init => HoldInv
  <2> SUFFICES ASSUME Init PROVE HoldInv
    OBVIOUS
  <2>1. tail = 0 /\ pc = [t \in IOThreads \cup Workers |-> "idle"]
    BY DEF Init, Q!Init, Q!Threads
  <2> QED
    BY <2>1 DEF Init, HoldInv, Holding
<1> QED
  BY <1>1, HoldStep, PoolInvariance, TaskInvariance, PTL DEF Spec

\* A task is executed at most once, and not at all when its Submit returned false, for any
\* number of threads that submit and of workers that race for the queue.
THEOREM AtMostOnce == Spec => []RunsAtMostOnce
<1>1. TaskInv /\ HoldInv /\ Inv => RunsAtMostOnce
  <2> SUFFICES ASSUME TaskInv, HoldInv, Inv, NEW t \in Tasks
               PROVE  ran[t] <= (IF t \in rejected THEN 0 ELSE 1)
    BY DEF RunsAtMostOnce
  <2>1. ran[t] \in {0, 1}
    BY DEF HoldInv
  <2>2. ran[t] = 1 => t \notin rejected
    <3> SUFFICES ASSUME ran[t] = 1 PROVE Logged(t)
      BY DEF TaskInv
    <3>1. PICK n \in 1 .. tail : log[n] = t
      BY DEF HoldInv
    <3>2. n \in 1 .. head
      BY QueueTypes DEF Inv
    <3> QED
      BY <3>1, <3>2 DEF Logged
  <2> QED
    BY <2>1, <2>2
<1> QED
  BY <1>1, PoolInvariance, TaskInvariance, HoldInvariance, PTL

-----------------------------------------------------------------------------
\* Stop wakes everyone

\* The workers that will wait for a token of sem_, now or after the task they execute.
Waiting == {w \in Workers : at[w] \in {"acquire", "pop"}}

LEMMA WaitingFinite == IsFiniteSet(Waiting) /\ Cardinality(Waiting) \in Nat
                       /\ Cardinality(Waiting) <= Cardinality(Workers)
<1>1. IsFiniteSet(Workers) /\ Waiting \in SUBSET Workers
  BY PoolAssumption DEF Waiting
<1> QED
  BY <1>1, FS_Subset, FS_CardinalityType

\* Outside acquire, a worker's step neither starts nor ends its wait once stop_ is set.
LEMMA WaitingWorker ==
    ASSUME Inv, NEW w \in Workers, WorkerStep(w), stop
    PROVE  \/ Waiting' = Waiting /\ sem' = sem
           \/ w \in Waiting /\ Waiting' = Waiting \ {w} /\ sem > 0 /\ sem' = sem - 1
<1>0. at \in [Workers -> {"acquire", "awake", "pop", "drain", "exited"}]
  BY DEF Inv, PoolTypeOK
<1>1. CASE Acquire(w)
  BY <1>0, <1>1 DEF Acquire, Waiting
<1>2. CASE AfterAcquire(w)
  BY <1>0, <1>2 DEF AfterAcquire, Waiting
<1>3. CASE WorkerInPop(w)
  BY <1>3 DEF WorkerInPop, poolVars, Waiting
<1>4. CASE RunTask(w)
  BY <1>0, <1>4 DEF RunTask, Waiting
<1>5. CASE NothingPopped(w)
  BY <1>0, <1>5 DEF NothingPopped, Waiting
<1> QED
  BY <1>1, <1>2, <1>3, <1>4, <1>5 DEF WorkerStep

LEMMA WakesStep == Inv /\ StopWakesEveryWorker /\ [Next]_vars => StopWakesEveryWorker'
<1> SUFFICES ASSUME Inv, StopWakesEveryWorker, [Next]_vars PROVE StopWakesEveryWorker'
  OBVIOUS
<1> DEFINE Wakes == stop => Cardinality(Waiting) <= sem + unreleased
<1>0. /\ sem \in Nat /\ unreleased \in Nat /\ Cardinality(Workers) \in Nat
      /\ Cardinality(Waiting) \in Nat /\ Cardinality(Waiting) <= Cardinality(Workers)
  BY PoolAssumption, WaitingFinite, FS_CardinalityType DEF Inv, PoolTypeOK
<1>1. Wakes
  BY DEF StopWakesEveryWorker, Waiting
<1>2. ASSUME NEW p \in IOThreads, IOThreadStep(p) PROVE Wakes'
  <2>1. UNCHANGED <<at, stop, unreleased>> /\ sem' \in {sem, sem + 1}
    BY <1>2 DEF IOThreadStep, SubmitPush, SubmitStopped, SubmitInPush, SubmitReturn, poolVars
  <2>2. Waiting' = Waiting
    BY <2>1 DEF Waiting
  <2> QED
    BY <1>0, <1>1, <2>1, <2>2
<1>3. ASSUME NEW w \in Workers, WorkerStep(w) PROVE Wakes'
  <2>1. UNCHANGED <<stop, unreleased>>
    BY <1>3 DEF WorkerStep, Acquire, AfterAcquire, WorkerInPop, RunTask, NothingPopped, poolVars
  <2>2. CASE ~ stop
    BY <2>1, <2>2
  <2>3. CASE stop /\ Waiting' = Waiting /\ sem' = sem
    BY <1>0, <1>1, <2>1, <2>3
  <2>4. CASE stop /\ w \in Waiting /\ Waiting' = Waiting \ {w} /\ sem > 0 /\ sem' = sem - 1
    <3>1. Cardinality(Waiting') = Cardinality(Waiting) - 1
      BY <2>4, WaitingFinite, FS_RemoveElement
    <3> QED
      BY <1>0, <1>1, <2>1, <2>4, <3>1
  <2> QED
    BY <1>3, <2>2, <2>3, <2>4, WaitingWorker
<1>4. ASSUME MainStep \/ UNCHANGED vars PROVE Wakes'
  <2>1. UNCHANGED at
    BY <1>4 DEF MainStep, StopBegin, StopRelease, StopJoined, vars, poolVars
  <2>2. Waiting' = Waiting
    BY <2>1 DEF Waiting
  <2>3. \/ sem' = sem /\ unreleased' = Cardinality(Workers)
        \/ sem' = sem + 1 /\ unreleased' = unreleased - 1 /\ UNCHANGED stop
        \/ UNCHANGED <<sem, unreleased, stop>>
    BY <1>4 DEF MainStep, StopBegin, StopRelease, StopJoined, vars, poolVars
  <2>4. Cardinality(Waiting') = Cardinality(Waiting)
    BY <2>2
  <2>5. stop' => Cardinality(Waiting) <= sem' + unreleased'
    <3>1. CASE sem' = sem /\ unreleased' = Cardinality(Workers)
      BY <1>0, <3>1
    <3>2. CASE sem' = sem + 1 /\ unreleased' = unreleased - 1 /\ stop' = stop
      <4>1. sem' + unreleased' = sem + unreleased
        BY <1>0, <3>2
      <4> QED
        BY <1>1, <3>2, <4>1
    <3>3. CASE UNCHANGED <<sem, unreleased, stop>>
      BY <1>1, <3>3
    <3> QED
      BY <2>3, <3>1, <3>2, <3>3
  <2> QED
    BY <2>4, <2>5
<1>5. Wakes'
  BY <1>2, <1>3, <1>4 DEF Next
<1> QED
  BY <1>5 DEF StopWakesEveryWorker, Waiting

\* Stop cannot hang in join(): however many workers there are and wherever each one is when
\* stop_ is set, a release of sem_ is there or still to come for each that will wait.
THEOREM StopWakes == Spec => []StopWakesEveryWorker
<1>1. Init => StopWakesEveryWorker
  BY DEF Init, StopWakesEveryWorker
<1> QED
  BY <1>1, WakesStep, PoolInvariance, PTL DEF Spec

-----------------------------------------------------------------------------
\* Tokens and queued tasks

LEMMA TicketsFinite == IsFiniteSet(Tickets) /\ Cardinality(Tickets) \in Nat
<1>1. IsFiniteSet(IOThreads \cup Workers)
  BY PoolAssumption, FS_Union
<1>2. Tickets \in SUBSET (IOThreads \cup Workers)
  BY DEF Tickets
<1> QED
  BY <1>1, <1>2, FS_Subset, FS_CardinalityType

\* What a step before Stop does to the tickets, the tokens and the queued tasks.
TicketsSame == Tickets' = Tickets /\ UNCHANGED <<sem, head, tail>>
TaskQueued(x) == x \notin Tickets /\ Tickets' = Tickets \cup {x} /\ head' = head + 1 /\ UNCHANGED <<sem, tail>>
TokenReleased(x) == x \in Tickets /\ Tickets' = Tickets \ {x} /\ sem' = sem + 1 /\ UNCHANGED <<head, tail>>
TokenTaken(x) == x \notin Tickets /\ Tickets' = Tickets \cup {x} /\ sem' = sem - 1 /\ UNCHANGED <<head, tail>>
TaskClaimed(x) == x \in Tickets /\ Tickets' = Tickets \ {x} /\ tail' = tail + 1 /\ UNCHANGED <<sem, head>>
TicketWasted(x) == x \in Tickets /\ Tickets' = Tickets \ {x} /\ UNCHANGED <<sem, head, tail>>

\* Whether one thread has a ticket is all that its own step decides.
LEMMA TicketsAlone ==
    ASSUME NEW x \in IOThreads \cup Workers,
           \A t \in (IOThreads \cup Workers) \ {x} : t \in Tickets' <=> t \in Tickets
    PROVE  /\ (x \in Tickets' <=> x \in Tickets) => Tickets' = Tickets
           /\ x \in Tickets' => Tickets' = Tickets \cup {x}
           /\ x \notin Tickets' => Tickets' = Tickets \ {x}
<1>1. Tickets \subseteq IOThreads \cup Workers /\ Tickets' \subseteq IOThreads \cup Workers
  BY DEF Tickets
<1> HIDE DEF Tickets
<1> QED
  BY <1>1

LEMMA TicketsSubmit ==
    ASSUME Inv, ~ stop, NEW p \in IOThreads, IOThreadStep(p)
    PROVE  TicketsSame \/ TaskQueued(p) \/ TokenReleased(p)
<1> USE PoolAssumption
<1>1. Alone(p) /\ at' = at /\ \A q \in IOThreads \ {p} : submitting'[q] = submitting[q]
  <2>1. at' = at /\ \A q \in IOThreads \ {p} : submitting'[q] = submitting[q]
    BY DEF IOThreadStep, SubmitPush, SubmitStopped, SubmitInPush, SubmitReturn, poolVars, Inv, PoolTypeOK
  <2>2. ASSUME NEW t \in fresh, SubmitPush(p, t) PROVE Alone(p)
    BY <2>2, PushCallEffect DEF SubmitPush, Inv
  <2>3. CASE SubmitInPush(p)
    BY <2>1, <2>3, PushStepEffect DEF SubmitInPush, Inv
  <2>4. CASE SubmitReturn(p)
    BY <2>1, <2>4 DEF SubmitReturn, queueVars, Alone
  <2>5. ~ \E t \in fresh : SubmitStopped(p, t)
    BY DEF SubmitStopped
  <2> QED
    BY <2>1, <2>2, <2>3, <2>4, <2>5 DEF IOThreadStep
<1>2. \A t \in (IOThreads \cup Workers) \ {p} : t \in Tickets' <=> t \in Tickets
  BY <1>1 DEF Tickets, Alone
<1>3. /\ p \in Tickets <=> (submitting[p] # NoTask /\ pc[p] \in Claimed)
      /\ p \in Tickets' <=> (submitting'[p] # NoTask /\ pc'[p] \in Claimed)
  BY DEF Tickets
<1>4. ASSUME NEW t \in fresh, SubmitPush(p, t) PROVE TicketsSame
  <2>1. UNCHANGED <<head, tail, sem>> /\ pc'[p] = "push_load" /\ submitting[p] = NoTask
    BY <1>4, PushCallEffect DEF SubmitPush, Inv
  <2>2. p \notin Tickets /\ p \notin Tickets'
    BY <1>3, <2>1 DEF Claimed
  <2> QED
    BY <1>2, <2>1, <2>2, TicketsAlone DEF TicketsSame
<1>5. CASE SubmitInPush(p)
  <2>1. UNCHANGED <<tail, submitting, sem>> /\ (PushQuiet(p) \/ PushClaims(p))
    BY <1>5, PushStepEffect DEF SubmitInPush, Inv, poolVars
  <2>2. pc[p] \notin {"idle", "ok", "fail"}
    BY <2>1 DEF PushQuiet, PushClaims, Before
  <2>3. submitting[p] # NoTask
    BY <2>2 DEF Inv, PhasesInv
  <2>4. CASE PushQuiet(p)
    <3>1. pc'[p] \in Claimed <=> pc[p] \in Claimed
      BY <2>4 DEF PushQuiet, Before, Claimed
    <3>2. Tickets' = Tickets
      BY <1>2, <1>3, <2>1, <3>1, TicketsAlone
    <3> QED
      BY <2>1, <2>4, <3>2 DEF PushQuiet, TicketsSame
  <2>5. CASE PushClaims(p)
    <3>1. pc'[p] \in Claimed /\ pc[p] \notin Claimed
      BY <2>5 DEF PushClaims, Before, Claimed
    <3>2. p \notin Tickets /\ Tickets' = Tickets \cup {p}
      BY <1>2, <1>3, <2>1, <2>3, <3>1, TicketsAlone
    <3> QED
      BY <2>1, <2>5, <3>2 DEF PushClaims, TaskQueued
  <2> QED
    BY <2>1, <2>4, <2>5
<1>6. CASE SubmitReturn(p)
  <2>1. /\ UNCHANGED <<head, tail>> /\ submitting[p] # NoTask /\ submitting'[p] = NoTask
        /\ \/ pc[p] = "ok" /\ sem' = sem + 1
           \/ pc[p] = "fail" /\ sem' = sem
    BY <1>6 DEF SubmitReturn, queueVars, Inv, PoolTypeOK
  <2>2. CASE pc[p] = "ok" /\ sem' = sem + 1
    <3>1. p \in Tickets /\ Tickets' = Tickets \ {p}
      BY <1>2, <1>3, <2>1, <2>2, TicketsAlone DEF Claimed
    <3> QED
      BY <2>1, <2>2, <3>1 DEF TokenReleased
  <2>3. CASE pc[p] = "fail" /\ sem' = sem
    <3>1. Tickets' = Tickets
      BY <1>2, <1>3, <2>1, <2>3, TicketsAlone DEF Claimed
    <3> QED
      BY <2>1, <2>3, <3>1 DEF TicketsSame
  <2> QED
    BY <2>1, <2>2, <2>3
<1>7. ~ \E t \in fresh : SubmitStopped(p, t)
  BY DEF SubmitStopped
<1> QED
  BY <1>4, <1>5, <1>6, <1>7 DEF IOThreadStep

LEMMA TicketsWorker ==
    ASSUME Inv, ~ stop, NEW w \in Workers, WorkerStep(w)
    PROVE  TicketsSame \/ TokenTaken(w) \/ TicketWasted(w) \/ (TaskClaimed(w) /\ tail < head)
<1> USE PoolAssumption
<1>1. /\ Alone(w) /\ UNCHANGED <<head, submitting>>
      /\ at \in [Workers -> {"acquire", "awake", "pop", "drain", "exited"}]
      /\ at[w] # "drain"
  BY WorkerEffect DEF Inv, PoolTypeOK, PhasesInv
<1>2. \A v \in Workers \ {w} : at'[v] = at[v]
  BY <1>1 DEF WorkerStep, Acquire, AfterAcquire, WorkerInPop, RunTask, NothingPopped, poolVars
<1>3. \A t \in (IOThreads \cup Workers) \ {w} : t \in Tickets' <=> t \in Tickets
  BY <1>1, <1>2 DEF Tickets, Alone
<1>4. /\ w \in Tickets <=> (at[w] = "awake" \/ pc[w] \in Trying)
      /\ w \in Tickets' <=> (at'[w] = "awake" \/ pc'[w] \in Trying)
  BY DEF Tickets
<1>5. at[w] \in {"acquire", "awake", "exited"} <=> pc[w] = "idle"
  BY DEF Inv, PhasesInv
<1>6. CASE Acquire(w)
  <2>1. /\ at[w] = "acquire" /\ at'[w] = "awake" /\ sem' = sem - 1 /\ UNCHANGED <<tail, pc>>
    BY <1>1, <1>6 DEF Acquire, queueVars
  <2>2. w \notin Tickets /\ Tickets' = Tickets \cup {w}
    BY <1>3, <1>4, <1>5, <2>1, TicketsAlone DEF Trying
  <2> QED
    BY <1>1, <2>1, <2>2 DEF TokenTaken
<1>7. CASE AfterAcquire(w)
  <2>1. at[w] = "awake" /\ pc'[w] = "pop_load" /\ UNCHANGED <<tail, sem>>
    BY <1>7, PopCallEffect DEF AfterAcquire, Inv
  <2>2. Tickets' = Tickets
    BY <1>3, <1>4, <2>1, TicketsAlone DEF Trying
  <2> QED
    BY <1>1, <2>1, <2>2 DEF TicketsSame
<1>8. CASE WorkerInPop(w)
  <2>1. UNCHANGED <<sem, at>> /\ (PopQuiet(w) \/ PopFails(w) \/ PopClaims(w) \/ PopFinishes(w))
    BY <1>8, PopStepEffect DEF WorkerInPop, Inv, poolVars
  <2>2. at[w] # "awake"
    BY <1>5, <2>1 DEF PopQuiet, PopFails, PopClaims, PopFinishes, Trying
  <2>3. CASE PopQuiet(w)
    <3>1. Tickets' = Tickets
      BY <1>3, <1>4, <2>3, TicketsAlone DEF PopQuiet
    <3> QED
      BY <1>1, <2>1, <2>3, <3>1 DEF PopQuiet, TicketsSame
  <2>4. CASE PopFails(w)
    <3>1. w \in Tickets /\ Tickets' = Tickets \ {w}
      BY <1>3, <1>4, <2>1, <2>2, <2>4, TicketsAlone DEF PopFails, Trying
    <3> QED
      BY <1>1, <2>1, <2>4, <3>1 DEF PopFails, TicketWasted
  <2>5. CASE PopClaims(w)
    <3>1. w \in Tickets /\ Tickets' = Tickets \ {w}
      BY <1>3, <1>4, <2>1, <2>2, <2>5, TicketsAlone DEF PopClaims, Trying
    <3> QED
      BY <1>1, <2>1, <2>5, <3>1 DEF PopClaims, TaskClaimed
  <2>6. CASE PopFinishes(w)
    <3>1. w \notin Tickets /\ w \notin Tickets'
      BY <1>4, <2>1, <2>2, <2>6 DEF PopFinishes, Trying
    <3>2. Tickets' = Tickets
      BY <1>3, <3>1, TicketsAlone
    <3> QED
      BY <1>1, <2>1, <2>6, <3>2 DEF PopFinishes, TicketsSame
  <2> QED
    BY <2>1, <2>3, <2>4, <2>5, <2>6
<1>9. CASE RunTask(w) \/ NothingPopped(w)
  <2>1. /\ pc[w] \in {"ok", "fail"} /\ pc'[w] = "idle" /\ at[w] = "pop" /\ at'[w] = "acquire"
        /\ UNCHANGED <<tail, sem>>
    BY <1>1, <1>9, LeaveQueueEffect DEF RunTask, NothingPopped, Inv
  <2>2. w \notin Tickets /\ w \notin Tickets'
    BY <1>4, <2>1 DEF Trying
  <2>3. Tickets' = Tickets
    BY <1>3, <2>2, TicketsAlone
  <2> QED
    BY <1>1, <2>1, <2>3 DEF TicketsSame
<1> QED
  BY <1>6, <1>7, <1>8, <1>9 DEF WorkerStep

LEMMA TicketStep == Inv /\ TicketInv /\ [Next]_vars => TicketInv'
<1> SUFFICES ASSUME Inv, TicketInv, [Next]_vars, ~ stop'
             PROVE  sem' + Cardinality(Tickets') <= head' - tail'
  BY DEF TicketInv
<1>1. ~ stop
  BY DEF Next, IOThreadStep, SubmitPush, SubmitStopped, SubmitInPush, SubmitReturn, WorkerStep, Acquire,
         AfterAcquire, WorkerInPop, RunTask, NothingPopped, MainStep, StopBegin, StopRelease, StopJoined,
         vars, poolVars
<1>2. \/ TicketsSame
      \/ \E x : TaskQueued(x) \/ TokenReleased(x) \/ TokenTaken(x) \/ TaskClaimed(x) \/ TicketWasted(x)
  <2>1. ~ MainStep
    <3>1. main = "running"
      BY <1>1 DEF Inv, PhasesInv
    <3> QED
      BY <3>1 DEF MainStep, StopBegin, StopRelease, StopJoined
  <2>2. ASSUME UNCHANGED vars PROVE TicketsSame
    BY <2>2 DEF vars, queueVars, poolVars, TicketsSame, Tickets
  <2> QED
    BY <1>1, <2>1, <2>2, TicketsSubmit, TicketsWorker DEF Next
<1>3. /\ sem \in Nat /\ head \in Nat /\ tail \in Nat
      /\ IsFiniteSet(Tickets) /\ Cardinality(Tickets) \in Nat
      /\ sem + Cardinality(Tickets) <= head - tail
  BY <1>1, QueueTypes, TicketsFinite DEF Inv, PoolTypeOK, TicketInv
<1> DEFINE n == Cardinality(Tickets)
           m == Cardinality(Tickets')
           Moved == \/ m = n /\ sem' = sem /\ head' = head /\ tail' = tail
                    \/ m = n + 1 /\ sem' = sem /\ head' = head + 1 /\ tail' = tail
                    \/ m = n - 1 /\ sem' = sem + 1 /\ head' = head /\ tail' = tail
                    \/ m = n + 1 /\ sem' = sem - 1 /\ head' = head /\ tail' = tail
                    \/ m = n - 1 /\ sem' = sem /\ head' = head /\ tail' = tail + 1
                    \/ m = n - 1 /\ sem' = sem /\ head' = head /\ tail' = tail
<1>4. Moved
  <2>1. ASSUME NEW x, x \notin Tickets, Tickets' = Tickets \cup {x} PROVE m = n + 1
    BY <1>3, <2>1, FS_AddElement
  <2>2. ASSUME NEW x, x \in Tickets, Tickets' = Tickets \ {x} PROVE m = n - 1
    BY <1>3, <2>2, FS_RemoveElement
  <2> HIDE DEF n, m
  <2>3. CASE TicketsSame
    BY <2>3 DEF TicketsSame, n, m
  <2>4. ASSUME NEW x, TaskQueued(x) \/ TokenReleased(x) \/ TokenTaken(x) \/ TaskClaimed(x) \/ TicketWasted(x)
        PROVE  Moved
    BY <2>1, <2>2, <2>4 DEF TaskQueued, TokenReleased, TokenTaken, TaskClaimed, TicketWasted
  <2> QED
    BY <1>2, <2>3, <2>4
<1>5. n \in Nat /\ sem + n <= head - tail
  BY <1>3
<1> HIDE DEF n, m
<1>6. sem' + m <= head' - tail'
  BY <1>3, <1>4, <1>5
<1> QED
  BY <1>6 DEF m

LEMMA TicketInvariance == Spec => []TicketInv
<1>1. Init => TicketInv
  <2> SUFFICES ASSUME Init PROVE TicketInv
    OBVIOUS
  <2>1. head = 0 /\ tail = 0 /\ sem = 0 /\ pc = [t \in IOThreads \cup Workers |-> "idle"]
    BY DEF Init, Q!Init, Q!Threads
  <2>2. Tickets = {}
    BY <2>1 DEF Init, Tickets, Trying, Claimed
  <2>3. Cardinality(Tickets) = 0
    BY <2>2, FS_EmptySet
  <2> QED
    BY <2>1, <2>3 DEF TicketInv
<1> QED
  BY <1>1, TicketStep, PoolInvariance, PTL DEF Spec

\* Until Stop, no token of sem_ stands for nothing: with those that workers have taken and not
\* used, there are never more than queued tasks.
THEOREM TokensAreTasks == Spec => []TokensMatchTasks
<1>1. Inv /\ TicketInv => TokensMatchTasks
  <2> DEFINE Taken == {w \in Workers : \/ at[w] = "awake"
                                       \/ /\ at[w] = "pop"
                                          /\ pc[w] \in {"pop_load", "pop_cas", "pop_reload"}}
  <2> SUFFICES ASSUME Inv, TicketInv, ~ stop PROVE sem + Cardinality(Taken) <= head - tail
    BY DEF TokensMatchTasks
  <2>1. Taken \in SUBSET Tickets
    BY DEF Tickets, Trying
  <2>2. Cardinality(Taken) \in Nat /\ Cardinality(Taken) <= Cardinality(Tickets)
    BY <2>1, TicketsFinite, FS_Subset, FS_CardinalityType
  <2> HIDE DEF Taken
  <2>3. sem \in Nat /\ head \in Nat /\ tail \in Nat /\ sem + Cardinality(Tickets) <= head - tail
    BY QueueTypes DEF Inv, PoolTypeOK, TicketInv
  <2> QED
    BY <2>2, <2>3, TicketsFinite
<1> QED
  BY <1>1, PoolInvariance, TicketInvariance, PTL

-----------------------------------------------------------------------------
\* What Stop leaves behind

\* join() returned: every worker has left WorkerLoop.
JoinedInv == main = "joined" => stop /\ \A w \in Workers : at[w] = "exited"

\* With stop_ set and no Submit running, a worker's step leaves the queue as it is or takes
\* a task from it, and finds it empty only if it is.
LEMMA DrainWorker ==
    ASSUME Inv, DrainInv, stop, ~ raced, NEW w \in Workers, WorkerStep(w)
    PROVE  DrainInv'
<1> USE PoolAssumption
<1>0. /\ head \in Nat /\ tail \in Nat
      /\ at \in [Workers -> {"acquire", "awake", "pop", "drain", "exited"}]
      /\ Alone(w) /\ UNCHANGED <<head, submitting, stop, raced>>
      /\ \A p \in IOThreads : submitting[p] = NoTask
  BY QueueTypes, WorkerEffect DEF Inv, PoolTypeOK, DrainInv
<1>1. \A p \in IOThreads : pc[p] \in {"idle", "ok", "fail"}
  BY <1>0 DEF Inv, PhasesInv
<1>2. \A v \in Workers \ {w} : at'[v] = at[v] /\ pc'[v] = pc[v]
  BY <1>0 DEF WorkerStep, Acquire, AfterAcquire, WorkerInPop, RunTask, NothingPopped, poolVars, Alone
<1>3. ASSUME at'[w] = "exited" \/ (at'[w] = "drain" /\ pc'[w] = "fail") PROVE head = tail /\ tail' = tail
  <2>1. CASE Acquire(w) \/ AfterAcquire(w)
    <3>1. CASE Acquire(w)
      BY <1>0, <1>3, <3>1 DEF Acquire
    <3>2. CASE AfterAcquire(w)
      BY <1>0, <1>3, <3>2, PopCallEffect DEF AfterAcquire, Inv
    <3> QED
      BY <2>1, <3>1, <3>2
  <2>2. CASE WorkerInPop(w)
    <3>1. at' = at /\ pc[w] # "idle" /\ (PopQuiet(w) \/ PopFails(w) \/ PopClaims(w) \/ PopFinishes(w))
      BY <2>2, PopStepEffect
         DEF WorkerInPop, Inv, poolVars, PopQuiet, PopFails, PopClaims, PopFinishes, Trying
    <3>2. at[w] # "exited"
      BY <3>1 DEF Inv, PhasesInv
    <3>3. PopFails(w)
      BY <1>3, <3>1, <3>2 DEF PopQuiet, PopFails, PopClaims, PopFinishes, Trying
    <3> QED
      BY <1>1, <3>3 DEF PopFails
  <2>3. CASE RunTask(w)
    BY <1>0, <1>3, <2>3, PopCallEffect DEF RunTask, Inv
  <2>4. CASE NothingPopped(w)
    <3>1. at[w] = "drain" /\ pc[w] = "fail" /\ tail' = tail
      BY <1>0, <1>3, <2>4 DEF NothingPopped
    <3> QED
      BY <3>1 DEF DrainInv
  <2> QED
    BY <2>1, <2>2, <2>3, <2>4 DEF WorkerStep
<1>4. head = tail => tail' = tail
  <2>1. CASE WorkerInPop(w)
    BY <1>0, <2>1, PopStepEffect DEF WorkerInPop, Inv, PopQuiet, PopFails, PopClaims, PopFinishes
  <2>2. CASE ~ WorkerInPop(w)
    BY <2>2, PopCallEffect DEF WorkerStep, Acquire, AfterAcquire, RunTask, NothingPopped, queueVars, Inv
  <2> QED
    BY <2>1, <2>2
<1>5. ASSUME NEW v \in Workers, at'[v] = "exited" \/ (at'[v] = "drain" /\ pc'[v] = "fail")
      PROVE  head' = tail'
  <2>1. CASE v = w
    BY <1>0, <1>3, <1>5, <2>1
  <2>2. CASE v # w
    <3>1. head = tail
      BY <1>2, <1>5, <2>2 DEF DrainInv
    <3> QED
      BY <1>0, <1>4, <3>1
  <2> QED
    BY <2>1, <2>2
<1> QED
  BY <1>0, <1>5 DEF DrainInv

LEMMA DrainStep == Inv /\ DrainInv /\ [Next]_vars => DrainInv'
<1> SUFFICES ASSUME Inv, DrainInv, [Next]_vars, stop', ~ raced' PROVE DrainInv'
  BY DEF DrainInv
<1>1. ASSUME NEW w \in Workers, WorkerStep(w) PROVE DrainInv'
  BY <1>1, WorkerEffect, DrainWorker
<1>2. ASSUME NEW p \in IOThreads, IOThreadStep(p) PROVE DrainInv'
  <2>1. UNCHANGED <<stop, raced, at>>
    BY <1>2 DEF IOThreadStep, SubmitPush, SubmitStopped, SubmitInPush, SubmitReturn, poolVars
  <2>2. submitting[p] = NoTask /\ pc[p] \in {"idle", "ok", "fail"}
    BY <2>1 DEF DrainInv, Inv, PhasesInv
  <2>3. ~ SubmitInPush(p)
    BY <2>2, PushStepEffect DEF SubmitInPush, PushQuiet, PushClaims, Before, Inv
  <2>4. PICK t \in fresh : SubmitStopped(p, t)
    BY <1>2, <2>1, <2>2, <2>3 DEF IOThreadStep, SubmitPush, SubmitReturn
  <2> QED
    BY <2>4 DEF SubmitStopped, queueVars, DrainInv
<1>3. CASE StopBegin
  <2>1. ~ stop
    BY <1>3 DEF StopBegin, Inv, PhasesInv
  <2>2. \A w \in Workers : at[w] \notin {"drain", "exited"}
    BY <2>1 DEF Inv, PhasesInv
  <2> QED
    BY <1>3, <2>2 DEF StopBegin, queueVars, DrainInv
<1>4. ASSUME StopRelease \/ StopJoined \/ UNCHANGED vars PROVE DrainInv'
  BY <1>4 DEF StopRelease, StopJoined, vars, queueVars, poolVars, DrainInv
<1> QED
  BY <1>1, <1>2, <1>3, <1>4 DEF Next, MainStep

LEMMA JoinedStep == Inv /\ JoinedInv /\ [Next]_vars => JoinedInv'
<1> SUFFICES ASSUME Inv, JoinedInv, [Next]_vars PROVE JoinedInv'
  OBVIOUS
<1>1. ASSUME NEW w \in Workers, WorkerStep(w) PROVE JoinedInv'
  <2>1. UNCHANGED <<main, stop>>
    BY <1>1, WorkerEffect
  <2>2. at[w] # "exited"
    <3>1. CASE WorkerInPop(w)
      <4>1. pc[w] # "idle"
        BY <3>1, PopStepEffect DEF WorkerInPop, Inv, PopQuiet, PopFails, PopClaims, PopFinishes, Trying
      <4> QED
        BY <4>1 DEF Inv, PhasesInv
    <3>2. CASE ~ WorkerInPop(w)
      BY <1>1, <3>2 DEF WorkerStep, Acquire, AfterAcquire, RunTask, NothingPopped
    <3> QED
      BY <3>1, <3>2
  <2>3. main # "joined"
    BY <2>2 DEF JoinedInv
  <2> QED
    BY <2>1, <2>3 DEF JoinedInv
<1>2. ASSUME NEW p \in IOThreads, IOThreadStep(p) PROVE JoinedInv'
  <2>1. UNCHANGED <<main, stop, at>>
    BY <1>2 DEF IOThreadStep, SubmitPush, SubmitStopped, SubmitInPush, SubmitReturn, poolVars
  <2> QED
    BY <2>1 DEF JoinedInv
<1>3. ASSUME MainStep \/ UNCHANGED vars PROVE JoinedInv'
  <2>1. CASE StopBegin \/ StopRelease
    BY <2>1 DEF StopBegin, StopRelease, JoinedInv
  <2>2. CASE StopJoined
    BY <2>2 DEF StopJoined, JoinedInv, Inv, PhasesInv
  <2>3. CASE UNCHANGED vars
    BY <2>3 DEF vars, poolVars, JoinedInv
  <2> QED
    BY <1>3, <2>1, <2>2, <2>3 DEF MainStep
<1> QED
  BY <1>1, <1>2, <1>3 DEF Next

LEMMA DrainInvariance == Spec => [](DrainInv /\ JoinedInv)
<1>1. Init => DrainInv /\ JoinedInv
  BY DEF Init, DrainInv, JoinedInv
<1> QED
  BY <1>1, DrainStep, JoinedStep, PoolInvariance, PTL DEF Spec

\* When Stop returns and no Submit overlapped it, every task that was accepted has been
\* executed.  A pool needs a worker for that, and the code does not ask for one.
THEOREM Drains ==
    ASSUME Workers # {}
    PROVE  Spec => []StopDrains
<1>1. Inv /\ TaskInv /\ HoldInv /\ DrainInv /\ JoinedInv => StopDrains
  <2> SUFFICES ASSUME Inv, TaskInv, HoldInv, DrainInv, JoinedInv,
                      main = "joined", ~ raced, NEW t \in accepted
               PROVE  ran[t] = 1
    BY DEF StopDrains
  <2>1. stop /\ \A w \in Workers : at[w] = "exited"
    BY DEF JoinedInv
  <2>2. head = tail
    BY <2>1 DEF DrainInv
  <2>3. \A w \in Workers : pc[w] = "idle"
    BY <2>1 DEF Inv, PhasesInv
  <2>4. Holding = {}
    BY <2>3 DEF Holding
  <2>5. PICK n \in 1 .. head : log[n] = t
    BY DEF TaskInv, Logged
  <2> QED
    BY <2>2, <2>4, <2>5 DEF HoldInv
<1> QED
  BY <1>1, PoolInvariance, TaskInvariance, HoldInvariance, DrainInvariance, PTL
-----------------------------------------------------------------------------
\* The pool's queue is still a bounded FIFO: leaving it after Pop is Drop

FIFO == INSTANCE BoundedFIFO WITH
            Consumers <- Workers, Items <- Tasks, NoItem <- NoTask,
            queue <- QP!queueBar, out <- QP!outBar

Unseen == UNCHANGED <<QP!queueBar, QP!outBar>>

LEMMA PoolPushFIFO ==
    ASSUME QP!IndInv, NEW p \in IOThreads, Q!PushStep(p)
    PROVE  (\E t \in Tasks : FIFO!Enq(t)) \/ Unseen
<1>0. QP!IndInv'
  BY PushStepEffect
<1>1. CASE Q!PushClaim(p)
  <2>1. QP!PushClaim(p)
    BY <1>1 DEF Q!PushClaim, QP!PushClaim
  <2>2. \E t \in Tasks : QP!Abstract!Enq(t)
    BY <1>0, <2>1, PoolAssumption, QP!PushClaimFIFO
  <2> QED
    BY <2>2 DEF QP!Abstract!Enq, FIFO!Enq
<1>2. CASE ~ Q!PushClaim(p)
  <2>1. QP!PushLoad(p) \/ QP!PushRetry(p) \/ QP!PushWrite(p) \/ QP!PushPublish(p)
    BY <1>2 DEF Q!PushStep, Q!PushLoad, QP!PushLoad, Q!PushRetry, QP!PushRetry, Q!PushWrite, QP!PushWrite,
                Q!PushPublish, QP!PushPublish, Q!Slot, QP!Slot
  <2> QED
    BY <1>0, <2>1, PoolAssumption, QP!PushQuietFIFO DEF Unseen
<1> QED
  BY <1>1, <1>2

LEMMA PoolPopFIFO ==
    ASSUME QP!IndInv, NEW w \in Workers, Q!PopStep(w)
    PROVE  FIFO!Deq(w) \/ Unseen
<1>0. QP!IndInv'
  BY PopStepEffect
<1>1. CASE Q!PopClaim(w)
  <2>1. QP!PopClaim(w)
    BY <1>1 DEF Q!PopClaim, QP!PopClaim
  <2>2. QP!Abstract!Deq(w)
    BY <1>0, <2>1, PoolAssumption, QP!PopClaimFIFO
  <2> QED
    BY <2>2 DEF QP!Abstract!Deq, FIFO!Deq
<1>2. CASE ~ Q!PopClaim(w)
  <2>1. QP!PopLoad(w) \/ QP!PopRetry(w) \/ QP!PopRead(w) \/ QP!PopRelease(w)
    BY <1>2 DEF Q!PopStep, Q!PopLoad, QP!PopLoad, Q!PopRetry, QP!PopRetry, Q!PopRead, QP!PopRead,
                Q!PopRelease, QP!PopRelease, Q!Slot, QP!Slot
  <2> QED
    BY <1>0, <2>1, PoolAssumption, QP!PopQuietFIFO DEF Unseen
<1> QED
  BY <1>1, <1>2

LEMMA PoolPushCallFIFO ==
    ASSUME QP!IndInv, NEW p \in IOThreads, NEW t \in fresh, Q!PushCall(p, t)
    PROVE  Unseen
<1>1. QP!IndInv'
  BY PushCallEffect
<1>2. QP!PushCall(p, t)
  BY DEF Q!PushCall, QP!PushCall, Q!ReadyPCs, QP!ReadyPCs
<1> QED
  BY <1>1, <1>2, PoolAssumption, QP!PushCallFIFO DEF Unseen

LEMMA PoolPopCallFIFO ==
    ASSUME QP!IndInv, NEW w \in Workers, Q!PopCall(w)
    PROVE  FIFO!Drop(w)
<1>1. QP!IndInv'
  BY PopCallEffect
<1>2. QP!PopCall(w)
  BY DEF Q!PopCall, QP!PopCall, Q!ReadyPCs, QP!ReadyPCs
<1>3. QP!Abstract!Drop(w)
  BY <1>1, <1>2, PoolAssumption, QP!PopCallFIFO
<1> QED
  BY <1>3 DEF QP!Abstract!Drop, FIFO!Drop

\* A worker that goes back to acquire, or exits, gives up what Pop gave it.
LEMMA LeaveQueueFIFO ==
    ASSUME QP!IndInv, NEW w \in Workers, pc[w] \in {"ok", "fail"},
           pc' = [pc EXCEPT ![w] = "idle"],
           UNCHANGED <<seq, data, head, tail, pos, item, fresh, log>>
    PROVE  FIFO!Drop(w)
<1>1. Alone(w) /\ pc'[w] = "idle"
  BY LeaveQueueEffect
<1>2. QP!outBar' = [QP!outBar EXCEPT ![w] = NoTask]
  <2>1. \A v \in Workers \ {w} : pc'[v] = pc[v]
    BY <1>1 DEF Alone
  <2> QED
    BY <1>1, <2>1 DEF QP!outBar
<1>3. QP!queueBar' = QP!queueBar
  BY DEF QP!queueBar
<1> QED
  BY <1>2, <1>3 DEF FIFO!Drop

LEMMA PoolStepFIFO ==
    Inv /\ [Next]_vars => [FIFO!Next]_<<QP!queueBar, QP!outBar>>
<1> SUFFICES ASSUME Inv, [Next]_vars PROVE FIFO!Next \/ Unseen
  BY DEF Unseen
<1>0. QP!IndInv
  BY DEF Inv
<1>1. ASSUME UNCHANGED <<pc, pos, item, head, tail, log>> PROVE Unseen
  BY <1>1 DEF Unseen, QP!queueBar, QP!outBar
<1>2. ASSUME NEW p \in IOThreads, IOThreadStep(p) PROVE FIFO!Next \/ Unseen
  <2>1. ASSUME NEW t \in fresh, SubmitStopped(p, t) PROVE Unseen
    BY <1>1, <2>1 DEF SubmitStopped, queueVars
  <2>2. ASSUME NEW t \in fresh, SubmitPush(p, t) PROVE Unseen
    BY <1>0, <2>2, PoolPushCallFIFO DEF SubmitPush
  <2>3. CASE SubmitInPush(p)
    BY <1>0, <2>3, PoolPushFIFO DEF SubmitInPush, FIFO!Next
  <2>4. CASE SubmitReturn(p)
    BY <1>1, <2>4 DEF SubmitReturn, queueVars
  <2> QED
    BY <1>2, <2>1, <2>2, <2>3, <2>4 DEF IOThreadStep
<1>3. ASSUME NEW w \in Workers, WorkerStep(w) PROVE FIFO!Next \/ Unseen
  <2>1. CASE Acquire(w)
    BY <1>1, <2>1 DEF Acquire, queueVars
  <2>2. CASE AfterAcquire(w)
    BY <1>0, <2>2, PoolPopCallFIFO DEF AfterAcquire, FIFO!Next
  <2>3. CASE WorkerInPop(w)
    BY <1>0, <2>3, PoolPopFIFO DEF WorkerInPop, FIFO!Next
  <2>4. CASE RunTask(w)
    <3>1. FIFO!Drop(w)
      BY <1>0, <2>4, PoolPopCallFIFO, LeaveQueueFIFO DEF RunTask
    <3> QED
      BY <3>1 DEF FIFO!Next
  <2>5. CASE NothingPopped(w)
    <3>1. FIFO!Drop(w)
      BY <1>0, <2>5, LeaveQueueFIFO DEF NothingPopped
    <3> QED
      BY <3>1 DEF FIFO!Next
  <2> QED
    BY <1>3, <2>1, <2>2, <2>3, <2>4, <2>5 DEF WorkerStep
<1>4. CASE MainStep
  BY <1>1, <1>4 DEF MainStep, StopBegin, StopRelease, StopJoined, queueVars
<1>5. CASE UNCHANGED vars
  BY <1>1, <1>5 DEF vars, queueVars
<1> QED
  BY <1>2, <1>3, <1>4, <1>5 DEF Next

\* The queue inside the pool is the same FIFO: workers take the tasks in the order in which the
\* Submits claimed their positions, and each gives up its task before it takes the next one.
THEOREM TasksLeaveInOrder == Spec => FIFO!Spec
<1>1. Init => FIFO!Init
  <2> SUFFICES ASSUME Init PROVE FIFO!Init
    OBVIOUS
  <2>1. QP!queueBar = << >>
    BY SubSeqEmpty DEF Init, Q!Init, QP!queueBar
  <2>2. QP!outBar = [w \in Workers |-> NoTask]
    BY DEF Init, Q!Init, Q!Threads, QP!outBar
  <2> QED
    BY <2>1, <2>2 DEF FIFO!Init
<1> QED
  BY <1>1, PoolStepFIFO, PoolInvariance, PTL DEF Spec, FIFO!Spec
=============================================================================
