---------------------------- MODULE RateLimiter ----------------------------
(***************************************************************************)
(* server/core/rate_limiter.h with the callers' protocol: a login handler  *)
(* asks Allow, then looks up the account and checks the password without   *)
(* the lock, and at last calls RecordFailure or Reset, or neither.  The    *)
(* IM logins run on several workers, the admin logins on one HTTP thread.  *)
(***************************************************************************)
EXTENDS Integers, Sequences, FiniteSets

CONSTANTS
    Callers,        \* threads that handle logins
    LimitKeys,      \* e-mail or IP addresses
    NoKey,
    MaxAttempts,    \* max_attempts_
    Window,         \* window_
    PurgeInterval,  \* kPurgeInterval
    MaxEntries,     \* max_entries_
    MaxTime         \* bound: ticks of the clock

ASSUME LimiterAssumption ==
    /\ IsFiniteSet(Callers) /\ Callers # {}
    /\ NoKey \notin LimitKeys
    /\ MaxAttempts \in Nat \ {0} /\ Window \in Nat \ {0}
    /\ PurgeInterval \in Nat /\ MaxEntries \in Nat

VARIABLES
    now,        \* the clock
    entries,    \* entries[k]: entries_, with count 0 for no entry
    writes,     \* write_count_
    checking,   \* checking[t]: the key that caller t was allowed, or NoKey
    failures    \* failures[k]: history, when the failures since the last success and
                \* within the last Window ticks were

limiterVars == <<entries, writes, checking, failures>>
limiterAll == <<now, limiterVars>>

NoEntry == [start |-> 0, count |-> 0]
Entry == [start : Nat, count : Nat]

LimiterInit ==
    /\ now = 0
    /\ entries = [k \in LimitKeys |-> NoEntry]
    /\ writes = 0
    /\ checking = [t \in Callers |-> NoKey]
    /\ failures = [k \in LimitKeys |-> << >>]

Over(e) == now - e.start >= Window

Allowed(k) == entries[k].count = 0 \/ Over(entries[k]) \/ entries[k].count < MaxAttempts

\* Allow erases an entry whose window is over; a refused caller returns.
Allow(t, k) ==
    /\ checking[t] = NoKey
    /\ Allowed(k)
    /\ entries' = [entries EXCEPT ![k] = IF Over(@) THEN NoEntry ELSE @]
    /\ checking' = [checking EXCEPT ![t] = k]
    /\ UNCHANGED <<now, writes, failures>>

PurgeDue ==
    \/ writes + 1 >= PurgeInterval
    \/ Cardinality({k \in LimitKeys : entries[k].count > 0}) >= MaxEntries

\* Mutant: the purge erases every entry.
MaybePurgeAll == IF PurgeDue THEN [k \in LimitKeys |-> NoEntry] ELSE entries

\* MaybePurge: the entries that are left.
MaybePurge ==
    IF PurgeDue
    THEN [k \in LimitKeys |-> IF Over(entries[k]) THEN NoEntry ELSE entries[k]]
    ELSE entries

\* The entry after one more failure.
Counted(e) ==
    IF e.count = 0 \/ Over(e) THEN [start |-> now, count |-> 1]
    ELSE [e EXCEPT !.count = @ + 1]

RecordFailure(t) ==
    LET k == checking[t]
    IN  /\ k # NoKey
        /\ entries' = [MaybePurge EXCEPT ![k] = Counted(@)]
        /\ writes' = IF PurgeDue THEN 0 ELSE writes + 1
        /\ failures' = [failures EXCEPT ![k] = Append(@, now)]
        /\ checking' = [checking EXCEPT ![t] = NoKey]
        /\ UNCHANGED now

\* After a correct password.
Reset(t) ==
    LET k == checking[t]
    IN  /\ k # NoKey
        /\ entries' = [entries EXCEPT ![k] = NoEntry]
        /\ failures' = [failures EXCEPT ![k] = << >>]
        /\ checking' = [checking EXCEPT ![t] = NoKey]
        /\ UNCHANGED <<now, writes>>

\* The caller returns without telling the limiter: a malformed request, a disabled account.
GiveUp(t) ==
    /\ checking[t] # NoKey
    /\ checking' = [checking EXCEPT ![t] = NoKey]
    /\ UNCHANGED <<now, entries, writes, failures>>

\* The failures that leave the last Window ticks with the next one; times is in order.
Expired(times) == {i \in DOMAIN times : now + 1 - times[i] >= Window}

Recent(times) == SubSeq(times, Cardinality(Expired(times)) + 1, Len(times))

Tick ==
    /\ now < MaxTime
    /\ now' = now + 1
    /\ failures' = [k \in LimitKeys |-> Recent(failures[k])]
    /\ UNCHANGED <<entries, writes, checking>>

LimiterNext ==
    \/ \E t \in Callers :
        (\E k \in LimitKeys : Allow(t, k)) \/ RecordFailure(t) \/ Reset(t) \/ GiveUp(t)
    \/ Tick

LimiterSpec == LimiterInit /\ [][LimiterNext]_limiterAll

-----------------------------------------------------------------------------
\* Properties

\* What one window can count: callers that were allowed before the limit was reached may
\* still fail after it.
WindowLimit == MaxAttempts + Cardinality(Callers) - 1

\* An entry never counts more than the limit and one failure for each other caller.
CountBounded == \A k \in LimitKeys : entries[k].count <= WindowLimit

\* rate_limiter.h calls its window sliding; it starts at a first failure.  Any interval of
\* that length sees at most the failures of two windows but the first one, whatever is
\* purged meanwhile.
FailuresBounded == \A k \in LimitKeys : Len(failures[k]) <= 2 * WindowLimit - 1
=============================================================================
