----------------------------- MODULE ThreadPool -----------------------------
(***************************************************************************)
(* The worker pool of server/core/thread_pool.h on top of the queue's      *)
(* individual memory accesses.  IOThreads call Submit (the gateways' packet *)
(* handler), Workers run WorkerLoop, and one main thread calls Stop.        *)
(* Executing a task is one step: what the task does is the business of the  *)
(* service modules, and an exception it throws is swallowed by the loop.    *)
(***************************************************************************)
EXTENDS Integers, Sequences, FiniteSets

CONSTANTS
    IOThreads,   \* threads that call Submit
    Workers,     \* threads that run WorkerLoop
    Tasks,       \* tasks to submit, each at most once
    Capacity,    \* queue_capacity
    NoTask       \* the moved-from content of a cell or of a local Task

\* The queue's own assumptions; both groups of threads are finite.
ASSUME PoolAssumption ==
    /\ Capacity \in Nat /\ Capacity >= 2
    /\ IOThreads \cap Workers = {}
    /\ IsFiniteSet(IOThreads) /\ IsFiniteSet(Workers)
    /\ NoTask \notin Tasks

VARIABLES
    seq, data, head, tail, pc, pos, item, fresh, log,   \* queue_
    sem,        \* the count of sem_
    stop,       \* stop_
    submitting, \* submitting[p]: the task whose Submit thread p is executing
    at,         \* at[w]: where worker w is in WorkerLoop
    main,       \* where the thread that calls Stop is
    unreleased, \* releases of sem_ that Stop still has to make
    accepted,   \* tasks whose Submit returned true
    rejected,   \* tasks whose Submit returned false
    ran,        \* ran[t]: how often task t was executed
    raced       \* history: a Submit was in progress when Stop set stop_

queueVars == <<seq, data, head, tail, pc, pos, item, log>>
poolVars == <<sem, stop, submitting, at, main, unreleased, accepted, rejected, ran, raced>>
vars == <<queueVars, fresh, poolVars>>

Q == INSTANCE MPMCQueue WITH
        Producers <- IOThreads, Consumers <- Workers, Items <- Tasks, NoItem <- NoTask

Init ==
    /\ Q!Init
    /\ sem = 0
    /\ stop = FALSE
    /\ submitting = [p \in IOThreads |-> NoTask]
    /\ at = [w \in Workers |-> "acquire"]
    /\ main = "running"
    /\ unreleased = 0
    /\ accepted = {}
    /\ rejected = {}
    /\ ran = [t \in Tasks |-> 0]
    /\ raced = FALSE

-----------------------------------------------------------------------------
\* Submit

\* stop_ is set: return false without touching the queue.
SubmitStopped(p, t) ==
    /\ submitting[p] = NoTask
    /\ t \in fresh
    /\ stop
    /\ fresh' = fresh \ {t}
    /\ rejected' = rejected \cup {t}
    /\ UNCHANGED <<queueVars, sem, stop, submitting, at, main, unreleased, accepted, ran, raced>>

\* stop_ is not set: call queue_.Push.
SubmitPush(p, t) ==
    /\ submitting[p] = NoTask
    /\ ~stop
    /\ Q!PushCall(p, t)
    /\ submitting' = [submitting EXCEPT ![p] = t]
    /\ UNCHANGED <<sem, stop, at, main, unreleased, accepted, rejected, ran, raced>>

SubmitInPush(p) == Q!PushStep(p) /\ UNCHANGED poolVars

\* Mutant: reports failure for a task that is in the queue.
SubmitReturnFalse(p) ==
    /\ submitting[p] # NoTask
    /\ pc[p] \in {"ok", "fail"}
    /\ sem' = IF pc[p] = "ok" THEN sem + 1 ELSE sem
    /\ rejected' = rejected \cup {submitting[p]}
    /\ submitting' = [submitting EXCEPT ![p] = NoTask]
    /\ UNCHANGED <<queueVars, fresh, stop, at, main, unreleased, accepted, ran, raced>>

\* Mutant: releases the semaphore even when the queue was full.
SubmitReturnReleases(p) ==
    /\ submitting[p] # NoTask
    /\ pc[p] \in {"ok", "fail"}
    /\ sem' = sem + 1
    /\ IF pc[p] = "ok"
       THEN accepted' = accepted \cup {submitting[p]} /\ UNCHANGED rejected
       ELSE rejected' = rejected \cup {submitting[p]} /\ UNCHANGED accepted
    /\ submitting' = [submitting EXCEPT ![p] = NoTask]
    /\ UNCHANGED <<queueVars, fresh, stop, at, main, unreleased, ran, raced>>

\* Push returned: on success wake one worker; return its result.
SubmitReturn(p) ==
    /\ submitting[p] # NoTask
    /\ \/ /\ pc[p] = "ok"
          /\ sem' = sem + 1
          /\ accepted' = accepted \cup {submitting[p]}
          /\ UNCHANGED rejected
       \/ /\ pc[p] = "fail"
          /\ rejected' = rejected \cup {submitting[p]}
          /\ UNCHANGED <<sem, accepted>>
    /\ submitting' = [submitting EXCEPT ![p] = NoTask]
    /\ UNCHANGED <<queueVars, fresh, stop, at, main, unreleased, ran, raced>>

-----------------------------------------------------------------------------
\* WorkerLoop

Acquire(w) ==
    /\ at[w] = "acquire"
    /\ sem > 0
    /\ sem' = sem - 1
    /\ at' = [at EXCEPT ![w] = "awake"]
    /\ UNCHANGED <<queueVars, fresh, stop, submitting, main, unreleased, accepted, rejected, ran, raced>>

\* Mutant: leaves the loop without draining the queue.
AfterAcquireNoDrain(w) ==
    /\ at[w] = "awake"
    /\ IF stop
       THEN at' = [at EXCEPT ![w] = "exited"] /\ UNCHANGED <<queueVars, fresh>>
       ELSE at' = [at EXCEPT ![w] = "pop"] /\ Q!PopCall(w)
    /\ UNCHANGED <<sem, stop, submitting, main, unreleased, accepted, rejected, ran, raced>>

\* The test of stop_ after acquire: pop one task, or leave the loop and drain.
AfterAcquire(w) ==
    /\ at[w] = "awake"
    /\ Q!PopCall(w)
    /\ at' = [at EXCEPT ![w] = IF stop THEN "drain" ELSE "pop"]
    /\ UNCHANGED <<sem, stop, submitting, main, unreleased, accepted, rejected, ran, raced>>

WorkerInPop(w) == Q!PopStep(w) /\ UNCHANGED poolVars

\* Pop returned true: execute the task; then wait again, or keep draining.
RunTask(w) ==
    /\ at[w] \in {"pop", "drain"}
    /\ pc[w] = "ok"
    /\ ran' = [ran EXCEPT ![item[w]] = @ + 1]
    /\ IF at[w] = "pop"
       THEN /\ at' = [at EXCEPT ![w] = "acquire"]
            /\ pc' = [pc EXCEPT ![w] = "idle"]
            /\ UNCHANGED <<seq, data, head, tail, pos, item, fresh, log>>
       ELSE Q!PopCall(w) /\ UNCHANGED at
    /\ UNCHANGED <<sem, stop, submitting, main, unreleased, accepted, rejected, raced>>

\* Pop returned false: wait again, or end the drain and the thread.
NothingPopped(w) ==
    /\ at[w] \in {"pop", "drain"}
    /\ pc[w] = "fail"
    /\ at' = [at EXCEPT ![w] = IF @ = "pop" THEN "acquire" ELSE "exited"]
    /\ pc' = [pc EXCEPT ![w] = "idle"]
    /\ UNCHANGED <<seq, data, head, tail, pos, item, fresh, log>>
    /\ UNCHANGED <<sem, stop, submitting, main, unreleased, accepted, rejected, ran, raced>>

-----------------------------------------------------------------------------
\* Stop

\* Mutant: one release too few.
StopBeginOneShort ==
    /\ main = "running"
    /\ stop' = TRUE
    /\ main' = "releasing"
    /\ unreleased' = Cardinality(Workers) - 1
    /\ raced' = \E p \in IOThreads : submitting[p] # NoTask
    /\ UNCHANGED <<queueVars, fresh, sem, submitting, at, accepted, rejected, ran>>

\* stop_ is set; a release of sem_ per worker follows.
StopBegin ==
    /\ main = "running"
    /\ stop' = TRUE
    /\ main' = "releasing"
    /\ unreleased' = Cardinality(Workers)
    /\ raced' = \E p \in IOThreads : submitting[p] # NoTask
    /\ UNCHANGED <<queueVars, fresh, sem, submitting, at, accepted, rejected, ran>>

StopRelease ==
    /\ main = "releasing"
    /\ unreleased > 0
    /\ sem' = sem + 1
    /\ unreleased' = unreleased - 1
    /\ UNCHANGED <<queueVars, fresh, stop, submitting, at, main, accepted, rejected, ran, raced>>

\* join() of every worker, workers_.clear().
StopJoined ==
    /\ main = "releasing"
    /\ unreleased = 0
    /\ \A w \in Workers : at[w] = "exited"
    /\ main' = "joined"
    /\ UNCHANGED <<queueVars, fresh, sem, stop, submitting, at, unreleased, accepted, rejected, ran, raced>>

-----------------------------------------------------------------------------
IOThreadStep(p) ==
    \/ \E t \in fresh : SubmitPush(p, t) \/ SubmitStopped(p, t)
    \/ SubmitInPush(p)
    \/ SubmitReturn(p)

WorkerStep(w) ==
    \/ Acquire(w)
    \/ AfterAcquire(w)
    \/ WorkerInPop(w)
    \/ RunTask(w)
    \/ NothingPopped(w)

MainStep == StopBegin \/ StopRelease \/ StopJoined

Next ==
    \/ \E p \in IOThreads : IOThreadStep(p)
    \/ \E w \in Workers : WorkerStep(w)
    \/ MainStep

Spec == Init /\ [][Next]_vars

-----------------------------------------------------------------------------
\* A task is executed at most once, and never after its Submit reported failure.
RunsAtMostOnce ==
    \A t \in Tasks : ran[t] <= (IF t \in rejected THEN 0 ELSE 1)

\* Until Stop, a token of sem_ always stands for a task in the queue: with the tokens
\* workers have taken and not used yet there are never more than queued tasks, so the
\* count stays far below the semaphore's maximum of 65536 for the capacities in use.
TokensMatchTasks ==
    ~stop => sem + Cardinality({w \in Workers : \/ at[w] = "awake"
                                                \/ /\ at[w] = "pop"
                                                   /\ pc[w] \in {"pop_load", "pop_cas", "pop_reload"}})
                 <= head - tail

\* Stop returns only after every task accepted before it was executed, provided that
\* no Submit overlaps it (Application stops the gateways first).
StopDrains ==
    main = "joined" /\ ~raced => \A t \in accepted : ran[t] = 1

\* Stop cannot hang in join(): from the moment stop_ is set there is a release of sem_,
\* made or still to come, for every worker that has not left the loop or will go back
\* to acquire once its current task is done.
StopWakesEveryWorker ==
    stop => Cardinality({w \in Workers : at[w] \in {"acquire", "pop"}}) <= sem + unreleased

\* The comment of ThreadPool: "every Push wakes exactly one worker ... no lost-wakeup
\* risk".  With every Submit finished and every worker blocked, no task is waiting.
NoLostWakeup ==
    /\ sem = 0
    /\ ~stop
    /\ \A p \in IOThreads : submitting[p] = NoTask
    /\ \A w \in Workers : at[w] = "acquire"
    => head = tail
=============================================================================
