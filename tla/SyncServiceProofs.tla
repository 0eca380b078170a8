------------------------- MODULE SyncServiceProofs -------------------------
(***************************************************************************)
(* Theorems about SyncService on top of MsgService, for any users,         *)
(* conversations, limits and bounds.  SyncSpec implements the Spec of      *)
(* MsgService, so the theorems of MsgServiceProofs hold of it too.         *)
(***************************************************************************)
EXTENDS SyncService, MsgServiceProofs, FiniteSetTheorems, WellFoundedInduction

-----------------------------------------------------------------------------
\* The inductive invariant

SyncTypeOK ==
    /\ cursor \in [Convs -> [Users -> Nat]]
    /\ received \in [Convs -> [Users -> SUBSET Nat]]
    /\ faults \in Nat /\ crashes \in Nat

\* No cursor is ahead of its conversation.
CursorBelow == \A c \in Convs, u \in Users : cursor[c][u] <= max_seq[c]

\* With SQLite a number that is drawn and not yet stored is above every cursor.
DrawnIsLater ==
    exclusive => \A w \in Workers : at[w] = "insert" =>
        \A u \in Users : cursor[job[w].conv][u] < got[w]

\* Every stored message up to the cursor has been in an answer.
ReceivedUpToCursor ==
    exclusive => \A c \in Convs, u \in Users :
        \A s \in SeqsAfter(c, 0) : s <= cursor[c][u] => s \in received[c][u]

\* Without failures every number up to max_seq is stored or about to be.
NumbersAccounted ==
    exclusive /\ faults = 0 /\ crashes = 0 =>
        \A c \in Convs : \A n \in 1 .. max_seq[c] :
            \/ n \in SeqsAfter(c, 0)
            \/ \E w \in Workers : at[w] = "insert" /\ job[w].conv = c /\ got[w] = n

\* A limited receipt that waits to be stored stays within the conversation.
LimitHeld ==
    exclusive => \A w \in Workers : at[w] = "update" =>
        max_seq[job[w].conv] = 0 \/ got[w] <= max_seq[job[w].conv]

\* What a user has read is what is stored up to the receipt, which is not ahead.
ReadUpToReceipt ==
    exclusive => \A c \in Convs, u \in Users : <<c, u>> \notin early =>
        /\ last_read[c][u] <= max_seq[c]
        /\ read[c][u] = {s \in SeqsAfter(c, 0) : s <= last_read[c][u]}

\* ... nor does it reach a number that is drawn and not yet stored.
DrawnIsUnread ==
    exclusive => \A w \in Workers : at[w] = "insert" =>
        \A u \in Users : <<job[w].conv, u>> \notin early => last_read[job[w].conv][u] < got[w]

SyncInv ==
    /\ SyncTypeOK
    /\ SessionHeld
    /\ CursorBelow
    /\ DrawnIsLater
    /\ ReceivedUpToCursor
    /\ NumbersAccounted
    /\ LimitHeld
    /\ ReadUpToReceipt
    /\ DrawnIsUnread

-----------------------------------------------------------------------------
\* Pages

\* A nonempty set of numbers has a least element.
LEMMA LeastElement ==
    ASSUME NEW T, T \subseteq Nat, T # {}
    PROVE  \E x \in T : \A y \in T : x <= y
<1>1. PICK x \in T : \A y \in T : ~ (<<y, x>> \in OpToRel(<, Nat))
    BY NatLessThanWellFounded, WFMin
<1>2. ASSUME NEW y \in T PROVE ~ (y < x)
    BY <1>1 DEF OpToRel
<1> QED
    BY <1>2

\* The first n elements of a set are n, or all.
LEMMA FirstElements ==
    ASSUME NEW S, IsFiniteSet(S), S \subseteq Nat, NEW n \in Nat,
           NEW P, P = {s \in S : Cardinality({t \in S : t < s}) < n}
    PROVE  Cardinality(P) >= n \/ P = S
<1> SUFFICES ASSUME P # S PROVE Cardinality(P) >= n
    OBVIOUS
<1>1. S \ P # {} /\ S \ P \subseteq Nat
    OBVIOUS
<1>2. PICK x \in S \ P : \A y \in S \ P : x <= y
    BY <1>1, LeastElement
<1> DEFINE below == {t \in S : t < x}
<1>3. below \subseteq P
    <2> SUFFICES ASSUME NEW t \in S, t < x, t \notin P PROVE FALSE
        OBVIOUS
    <2>1. t \in Nat /\ x \in Nat /\ t \in S \ P
        OBVIOUS
    <2>2. x <= t
        BY <1>2, <2>1
    <2> QED
        BY <2>1, <2>2
<1>4. IsFiniteSet(P) /\ IsFiniteSet(below)
    BY FS_Subset
<1>5. ~ (Cardinality(below) < n)
    BY <1>2
<1>6. Cardinality(below) <= Cardinality(P)
    BY <1>3, <1>4, FS_Subset
<1>7. Cardinality(below) \in Nat /\ Cardinality(P) \in Nat
    BY <1>4, FS_CardinalityType
<1> QED
    BY <1>5, <1>6, <1>7

\* The messages after a cursor have numbers from the cursor to max_seq.
LEMMA SeqsFinite ==
    ASSUME IndInv, NEW c \in Convs, NEW n \in Nat
    PROVE  /\ SeqsAfter(c, n) \subseteq (n + 1) .. max_seq[c]
           /\ IsFiniteSet(SeqsAfter(c, n))
           /\ SeqsAfter(c, n) = {s \in SeqsAfter(c, 0) : s > n}
<1>1. \A m \in messages : m.seq \in Nat /\ m.seq <= max_seq[m.conv]
    BY DEF IndInv, TypeOK, SeqInv, SeqUnique
<1>2. max_seq[c] \in Nat
    BY DEF IndInv, TypeOK
<1>3. SeqsAfter(c, n) \subseteq (n + 1) .. max_seq[c]
    BY <1>1, <1>2 DEF SeqsAfter
<1>4. IsFiniteSet((n + 1) .. max_seq[c])
    BY <1>2, FS_Interval
<1>5. SeqsAfter(c, n) = {s \in SeqsAfter(c, 0) : s > n}
    BY <1>1 DEF SeqsAfter
<1> QED
    BY <1>3, <1>4, <1>5, FS_Subset

LEMMA PageLimitPositive ==
    ASSUME NEW limit \in Limits
    PROVE  PageLimit(limit) \in Nat \ {0}
BY LimitsAssumption DEF PageLimit

-----------------------------------------------------------------------------
\* What a step of the message service does to the numbers

NumbersMove ==
    /\ \A c \in Convs :
        \/ max_seq'[c] = max_seq[c]
        \/ /\ max_seq'[c] = max_seq[c] + 1
           /\ \E w \in Workers : at'[w] = "insert" /\ job'[w].conv = c /\ got'[w] = max_seq[c] + 1
    /\ \A w \in Workers : at'[w] = "insert" =>
        \/ at[w] = "insert" /\ job'[w] = job[w] /\ got'[w] = got[w]
        \/ job'[w].conv \in Convs /\ got'[w] = max_seq[job'[w].conv] + 1
    /\ messages \subseteq messages'
    /\ \A m \in messages' \ messages :
        \E w \in Workers : at[w] = "insert" /\ m.conv = job[w].conv /\ m.seq = got[w]
    /\ \/ faults' = faults + 1 /\ crashes' = crashes
       \/ faults' = faults /\ crashes' = crashes + 1
       \/ /\ faults' = faults /\ crashes' = crashes
          /\ \A w \in Workers : at[w] = "insert" =>
                \/ at'[w] = "insert" /\ job'[w] = job[w] /\ got'[w] = got[w]
                \/ \E m \in messages' : m.conv = job[w].conv /\ m.seq = got[w]

\* A step that neither draws, stores nor drops a number.
LEMMA QuietMove ==
    ASSUME TypeOK, UNCHANGED <<max_seq, messages, crashes>>,
           faults' \in {faults, faults + 1},
           \A w \in Workers : at'[w] = "insert" =>
               at[w] = "insert" /\ job'[w] = job[w] /\ got'[w] = got[w],
           \A w \in Workers : at[w] = "insert" /\ faults' = faults =>
               at'[w] = "insert" /\ job'[w] = job[w] /\ got'[w] = got[w]
    PROVE  NumbersMove
BY DEF NumbersMove

\* What the handlers do to the failures and to a number that waits to be stored.
LEMMA HandlerFaults ==
    ASSUME TypeOK, NEW w \in Workers, HandlerStep(w),
           ~ SendGenerateSeq(w), ~ SendInsert(w)
    PROVE  /\ crashes' = crashes
           /\ faults' \in {faults, faults + 1}
           /\ at[w] = "insert" => faults' = faults + 1
           /\ \A v \in Workers : v # w => at'[v] = at[v] /\ job'[v] = job[v] /\ got'[v] = got[v]
<1>1. at = [v \in Workers |-> at[v]] /\ job = [v \in Workers |-> job[v]]
      /\ got = [v \in Workers |-> got[v]]
    BY DEF TypeOK
<1> USE <1>1 DEF boundVars, Fault
<1>2. CASE SendCached(w)
    BY <1>2 DEF SendCached, Return
<1>3. CASE SendBusy(w)
    BY <1>3 DEF SendBusy, Return
<1>4. CASE SendMark(w)
    BY <1>4 DEF SendMark, Goto
<1>5. CASE SendRefused(w)
    BY <1>5 DEF SendRefused, Return
<1>6. CASE SendInsertFailed(w)
    BY <1>6 DEF SendInsertFailed, Return
<1>7. CASE SendCache(w)
    BY <1>7 DEF SendCache, Goto
<1>8. CASE SendUnhide(w)
    BY <1>8 DEF SendUnhide, Goto
<1>9. CASE SendPush(w)
    BY <1>9 DEF SendPush, Return
<1>10. CASE RecallRefused(w)
    BY <1>10 DEF RecallRefused, Return
<1>11. CASE RecallFound(w)
    BY <1>11 DEF RecallFound, Goto
<1>12. CASE RecallUpdate(w)
    BY <1>12 DEF RecallUpdate, Return
<1>13. CASE ReadRefused(w)
    BY <1>13 DEF ReadRefused, Return
<1>14. CASE ReadClamp(w)
    BY <1>14 DEF ReadClamp, Goto
<1>15. CASE ReadUpdate(w)
    BY <1>15 DEF ReadUpdate, Return
<1>16. CASE DeliverUpdate(w)
    BY <1>16 DEF DeliverUpdate, Return
<1>17. CASE HideUpdate(w)
    BY <1>17 DEF HideUpdate, Return
<1> QED
    BY <1>2, <1>3, <1>4, <1>5, <1>6, <1>7, <1>8, <1>9, <1>10, <1>11, <1>12, <1>13, <1>14,
       <1>15, <1>16, <1>17 DEF HandlerStep

\* Every step of the message service moves the numbers so.
LEMMA StepMoves ==
    ASSUME IndInv, Next
    PROVE  NumbersMove
<1>0. TypeOK
    BY DEF IndInv
<1>a. at = [v \in Workers |-> at[v]] /\ job = [v \in Workers |-> job[v]]
      /\ got = [v \in Workers |-> got[v]] /\ max_seq \in [Convs -> Nat]
    BY <1>0 DEF TypeOK
<1>1. ASSUME NEW w \in Workers, BeginStep(w) PROVE NumbersMove
    <2>1. PICK u \in Users, c \in Convs, k \in Keys \cup {NoKey}, n \in Nat,
               where \in {"dedup", "find", "clamp", "deliver", "hide"} : Begin(w, u, c, k, n, where)
        BY <1>1 DEF BeginStep
    <2>2. /\ UNCHANGED <<max_seq, messages, crashes>> /\ faults' = faults
          /\ \A v \in Workers : v # w => at'[v] = at[v] /\ job'[v] = job[v] /\ got'[v] = got[v]
          /\ at[w] = "idle" /\ at'[w] # "insert"
        BY <1>a, <2>1 DEF Begin, dbVars
    <2> QED
        BY <1>0, <2>2, QuietMove
<1>2. ASSUME NEW w \in Workers, SendGenerateSeq(w) PROVE NumbersMove
    <2>1. job[w].conv \in Convs
        BY <1>0, <1>2 DEF SendGenerateSeq, Goto, TypeOK, Jobs
    <2>2. /\ max_seq' = [max_seq EXCEPT ![job[w].conv] = @ + 1]
          /\ got' = [got EXCEPT ![w] = max_seq[job[w].conv] + 1]
          /\ at' = [at EXCEPT ![w] = "insert"] /\ at[w] = "seq"
          /\ UNCHANGED <<messages, job, faults, crashes>>
        BY <1>2 DEF SendGenerateSeq, Goto, boundVars
    <2>3. /\ at'[w] = "insert" /\ job'[w] = job[w] /\ got'[w] = max_seq[job[w].conv] + 1
          /\ \A v \in Workers : v # w => at'[v] = at[v] /\ job'[v] = job[v] /\ got'[v] = got[v]
        BY <1>a, <2>2
    <2>4. \A c \in Convs : \/ max_seq'[c] = max_seq[c]
                           \/ max_seq'[c] = max_seq[c] + 1 /\ c = job[w].conv
        BY <1>a, <2>1, <2>2
    <2>5. \A v \in Workers : at[v] = "insert" => v # w
        BY <2>2
    <2> QED
        BY <2>1, <2>2, <2>3, <2>4, <2>5 DEF NumbersMove
<1>3. ASSUME NEW w \in Workers, SendInsert(w) PROVE NumbersMove
    <2> DEFINE new == [conv |-> job[w].conv, seq |-> got[w], user |-> job[w].user, key |-> job[w].key]
    <2>1. /\ messages' = messages \cup {new}
          /\ at[w] = "insert" /\ at' = [at EXCEPT ![w] = "cache"]
          /\ UNCHANGED <<max_seq, job, got, faults, crashes>>
        BY <1>3 DEF SendInsert, Goto, boundVars
    <2>2. new.conv = job[w].conv /\ new.seq = got[w]
        OBVIOUS
    <2> HIDE DEF new
    <2>3. at'[w] = "cache" /\ \A v \in Workers : v # w => at'[v] = at[v]
        BY <1>a, <2>1
    <2> QED
        BY <2>1, <2>2, <2>3 DEF NumbersMove
<1>4. ASSUME NEW w \in Workers, HandlerStep(w), ~ SendGenerateSeq(w), ~ SendInsert(w)
      PROVE  NumbersMove
    <2>1. /\ UNCHANGED <<max_seq, messages>>
          /\ \A v \in Workers : at'[v] = "insert" =>
                 at'[v] = at[v] /\ job'[v] = job[v] /\ got'[v] = got[v]
        BY <1>0, <1>4, OtherSteps
    <2>2. /\ crashes' = crashes
          /\ faults' \in {faults, faults + 1}
          /\ at[w] = "insert" => faults' = faults + 1
          /\ \A v \in Workers : v # w => at'[v] = at[v] /\ job'[v] = job[v] /\ got'[v] = got[v]
        BY <1>0, <1>4, HandlerFaults
    <2> QED
        BY <2>1, <2>2 DEF NumbersMove
<1>5. ASSUME NEW k \in Keys, InflightExpires(k) PROVE NumbersMove
    BY <1>0, <1>5, QuietMove DEF InflightExpires, dbVars, workerVars
<1>6. ASSUME Restart PROVE NumbersMove
    BY <1>6 DEF Restart, dbVars, NumbersMove
<1> QED
    BY <1>0, <1>1, <1>2, <1>3, <1>4, <1>5, <1>6, StepCases

-----------------------------------------------------------------------------
\* What a step of the message service does to the receipts

ReceiptsMove ==
    /\ \A c \in Convs, u \in Users :
        \/ last_read'[c][u] = last_read[c][u]
        \/ /\ UNCHANGED <<max_seq, messages>>
           /\ \E w \in Workers : at[w] = "update" /\ job[w].conv = c /\ got[w] = last_read'[c][u]
    /\ \A w \in Workers : at'[w] = "update" =>
        \/ at[w] = "update" /\ job'[w] = job[w] /\ got'[w] = got[w]
        \/ /\ job'[w].conv \in Convs /\ max_seq' = max_seq
           /\ max_seq[job'[w].conv] = 0 \/ got'[w] <= max_seq[job'[w].conv]

\* Only a receipt is ever on the way to the update.
LEMMA UpdatesKept ==
    ASSUME TypeOK, NEW w \in Workers, HandlerStep(w), ~ ReadClamp(w), ~ ReadUpdate(w)
    PROVE  /\ last_read' = last_read
           /\ \A v \in Workers : at'[v] = "update" =>
                  at[v] = "update" /\ job'[v] = job[v] /\ got'[v] = got[v]
<1>1. at = [v \in Workers |-> at[v]] /\ job = [v \in Workers |-> job[v]]
      /\ got = [v \in Workers |-> got[v]]
    BY DEF TypeOK
<1> USE <1>1 DEF dbVars
<1>2. CASE SendCached(w)
    BY <1>2 DEF SendCached, Return
<1>3. CASE SendBusy(w)
    BY <1>3 DEF SendBusy, Return
<1>4. CASE SendMark(w)
    BY <1>4 DEF SendMark, Goto
<1>5. CASE SendRefused(w)
    BY <1>5 DEF SendRefused, Return
<1>6. CASE SendGenerateSeq(w)
    BY <1>6 DEF SendGenerateSeq, Goto
<1>7. CASE SendInsert(w)
    BY <1>7 DEF SendInsert, Goto
<1>8. CASE SendInsertFailed(w)
    BY <1>8 DEF SendInsertFailed, Return
<1>9. CASE SendCache(w)
    BY <1>9 DEF SendCache, Goto
<1>10. CASE SendUnhide(w)
    BY <1>10 DEF SendUnhide, Goto
<1>11. CASE SendPush(w)
    BY <1>11 DEF SendPush, Return
<1>12. CASE RecallRefused(w)
    BY <1>12 DEF RecallRefused, Return
<1>13. CASE RecallFound(w)
    BY <1>13 DEF RecallFound, Goto
<1>14. CASE RecallUpdate(w)
    BY <1>14 DEF RecallUpdate, Return
<1>15. CASE ReadRefused(w)
    BY <1>15 DEF ReadRefused, Return
<1>16. CASE DeliverUpdate(w)
    BY <1>16 DEF DeliverUpdate, Return
<1>17. CASE HideUpdate(w)
    BY <1>17 DEF HideUpdate, Return
<1> QED
    BY <1>2, <1>3, <1>4, <1>5, <1>6, <1>7, <1>8, <1>9, <1>10, <1>11, <1>12, <1>13, <1>14,
       <1>15, <1>16, <1>17 DEF HandlerStep

\* Every step of the message service moves the receipts so.
LEMMA StepMovesReceipts ==
    ASSUME IndInv, Next
    PROVE  ReceiptsMove
<1>0. TypeOK
    BY DEF IndInv
<1>a. at = [v \in Workers |-> at[v]] /\ job = [v \in Workers |-> job[v]]
      /\ got \in [Workers -> Nat] /\ max_seq \in [Convs -> Nat]
      /\ last_read \in [Convs -> [Users -> Nat]]
    BY <1>0 DEF TypeOK
<1>b. ASSUME last_read' = last_read,
             \A w \in Workers : at'[w] = "update" =>
                 at[w] = "update" /\ job'[w] = job[w] /\ got'[w] = got[w]
      PROVE  ReceiptsMove
    BY <1>b DEF ReceiptsMove
<1>1. ASSUME NEW w \in Workers, BeginStep(w) PROVE ReceiptsMove
    <2>1. PICK u \in Users, c \in Convs, k \in Keys \cup {NoKey}, n \in Nat,
               where \in {"dedup", "find", "clamp", "deliver", "hide"} : Begin(w, u, c, k, n, where)
        BY <1>1 DEF BeginStep
    <2>2. /\ last_read' = last_read /\ at'[w] # "update"
          /\ \A v \in Workers : v # w => at'[v] = at[v] /\ job'[v] = job[v] /\ got'[v] = got[v]
        BY <1>a, <2>1 DEF Begin, dbVars
    <2> QED
        BY <1>b, <2>2
<1>2. ASSUME NEW w \in Workers, ReadClamp(w) PROVE ReceiptsMove
    <2>1. job[w].conv \in Convs
        BY <1>0, <1>2 DEF ReadClamp, Goto, TypeOK, Jobs
    <2> DEFINE m == max_seq[job[w].conv]
    <2>2. /\ last_read' = last_read /\ max_seq' = max_seq /\ job' = job
          /\ at' = [at EXCEPT ![w] = "update"]
          /\ got' = [got EXCEPT ![w] = IF m > 0 /\ m < @ THEN m ELSE @]
        BY <1>2 DEF ReadClamp, Goto, dbVars
    <2>3. \A v \in Workers : v # w => at'[v] = at[v] /\ got'[v] = got[v]
        BY <1>a, <2>2
    <2>4. m \in Nat /\ got[w] \in Nat /\ got'[w] = IF m > 0 /\ m < got[w] THEN m ELSE got[w]
        BY <1>a, <2>1, <2>2
    <2>5. m = 0 \/ got'[w] <= m
        BY <2>4
    <2> QED
        BY <2>1, <2>2, <2>3, <2>5 DEF ReceiptsMove
<1>3. ASSUME NEW w \in Workers, ReadUpdate(w) PROVE ReceiptsMove
    <2>1. job[w].conv \in Convs /\ job[w].user \in Users
        BY <1>0, <1>3 DEF ReadUpdate, Return, TypeOK, Jobs
    <2> DEFINE old == last_read[job[w].conv][job[w].user]
               new == IF old < got[w] THEN got[w] ELSE old
    <2>2. /\ at[w] = "update" /\ UNCHANGED <<max_seq, messages>>
          /\ \/ last_read' = [last_read EXCEPT ![job[w].conv][job[w].user] = new]
             \/ last_read' = last_read
        BY <1>3 DEF ReadUpdate, Return
    <2>3. \A v \in Workers : at'[v] = "update" => at[v] = "update" /\ job'[v] = job[v] /\ got'[v] = got[v]
        BY <1>a, <1>3 DEF ReadUpdate, Return
    <2>4. new = got[w] \/ new = old
        OBVIOUS
    <2> HIDE DEF new
    <2>5. ASSUME NEW c \in Convs, NEW u \in Users
          PROVE  last_read'[c][u] = last_read[c][u] \/ (c = job[w].conv /\ last_read'[c][u] = got[w])
        BY <1>a, <2>1, <2>2, <2>4
    <2> QED
        BY <2>2, <2>3, <2>5 DEF ReceiptsMove
<1>4. ASSUME NEW w \in Workers, HandlerStep(w), ~ ReadClamp(w), ~ ReadUpdate(w) PROVE ReceiptsMove
    BY <1>0, <1>b, <1>4, UpdatesKept
<1>5. ASSUME NEW k \in Keys, InflightExpires(k) PROVE ReceiptsMove
    BY <1>b, <1>5 DEF InflightExpires, dbVars, workerVars
<1>6. ASSUME Restart PROVE ReceiptsMove
    BY <1>b, <1>6 DEF Restart, dbVars
<1> QED
    BY <1>0, <1>1, <1>2, <1>3, <1>4, <1>5, <1>6, StepCases

\* What is known of a user's receipt after a step.
LEMMA ReceiptCases ==
    ASSUME IndInv, SyncInv, Next, ReceiptsObserved, exclusive,
           NEW c \in Convs, NEW u \in Users, <<c, u>> \notin early'
    PROVE  \/ /\ last_read'[c][u] = last_read[c][u] /\ <<c, u>> \notin early
              /\ read'[c][u] = read[c][u]
           \/ /\ UNCHANGED <<max_seq, messages>> /\ \E w \in Workers : at[w] = "update"
              /\ last_read'[c][u] <= max_seq[c]
              /\ read'[c][u] = {s \in SeqsAfter(c, 0) : s <= last_read'[c][u]}
<1>1. ReceiptsMove
    BY StepMovesReceipts
<1>2. CASE last_read'[c][u] = last_read[c][u]
    BY <1>2 DEF ReceiptsObserved
<1>3. CASE last_read'[c][u] # last_read[c][u]
    <2>1. /\ max_seq[c] # 0
          /\ read'[c][u] = {s \in SeqsAfter(c, 0) : s <= last_read'[c][u]}
        BY <1>3 DEF ReceiptsObserved
    <2>2. UNCHANGED <<max_seq, messages>>
          /\ \E w \in Workers : at[w] = "update" /\ job[w].conv = c /\ got[w] = last_read'[c][u]
        BY <1>1, <1>3 DEF ReceiptsMove
    <2>3. last_read'[c][u] <= max_seq[c]
        BY <2>1, <2>2 DEF SyncInv, LimitHeld
    <2> QED
        BY <2>1, <2>2, <2>3
<1> QED
    BY <1>2, <1>3

-----------------------------------------------------------------------------
\* The steps

\* The message service beside the clients' cursors.
LEMMA MsgStepKeeps ==
    ASSUME IndInv, SyncInv, Next, ReceiptsObserved, UNCHANGED syncVars
    PROVE  SyncInv'
<1>0. /\ TypeOK /\ exclusive' = exclusive /\ cursor' = cursor /\ received' = received
      /\ max_seq \in [Convs -> Nat]
      /\ \A w \in Workers : at[w] = "insert" => job[w].conv \in Convs /\ got[w] \in Nat
      /\ \A c \in Convs, u \in Users : cursor[c][u] \in Nat
      /\ faults \in Nat /\ crashes \in Nat
    <2>1. TypeOK /\ SyncTypeOK
        BY DEF IndInv, SyncInv
    <2>2. exclusive' = exclusive /\ cursor' = cursor /\ received' = received
        BY DEF Next, syncVars
    <2>3. \A w \in Workers : at[w] = "insert" => job[w].conv \in Convs /\ got[w] \in Nat
        BY <2>1 DEF TypeOK, Jobs
    <2>4. max_seq \in [Convs -> Nat]
        BY <2>1 DEF TypeOK
    <2> QED
        BY <2>1, <2>2, <2>3, <2>4 DEF SyncTypeOK
<1>1. NumbersMove
    BY StepMoves
<1>2. SyncTypeOK'
    BY <1>0, <1>1 DEF SyncInv, SyncTypeOK, NumbersMove
<1>3. SessionHeld'
    BY <1>0, SessionStep DEF SyncInv
<1>4. \A c \in Convs : max_seq[c] \in Nat /\ max_seq'[c] \in {max_seq[c], max_seq[c] + 1}
    BY <1>0, <1>1 DEF NumbersMove
<1>5. CursorBelow'
    BY <1>0, <1>4 DEF SyncInv, CursorBelow
<1>6. DrawnIsLater'
    <2> SUFFICES ASSUME exclusive, NEW w \in Workers, at'[w] = "insert", NEW u \in Users
                 PROVE  cursor[job'[w].conv][u] < got'[w]
        BY <1>0 DEF DrawnIsLater
    <2>1. CASE at[w] = "insert" /\ job'[w] = job[w] /\ got'[w] = got[w]
        BY <2>1 DEF SyncInv, DrawnIsLater
    <2>2. CASE job'[w].conv \in Convs /\ got'[w] = max_seq[job'[w].conv] + 1
        BY <1>0, <1>4, <2>2 DEF SyncInv, CursorBelow
    <2> QED
        BY <1>1, <2>1, <2>2 DEF NumbersMove
<1>7. ReceivedUpToCursor'
    <2> SUFFICES ASSUME exclusive, NEW c \in Convs, NEW u \in Users,
                        NEW m \in messages', m.conv = c, m.seq > 0, m.seq <= cursor[c][u]
                 PROVE  m.seq \in received[c][u]
        BY <1>0 DEF ReceivedUpToCursor, SeqsAfter
    <2>1. CASE m \in messages
        BY <2>1 DEF SyncInv, ReceivedUpToCursor, SeqsAfter
    <2>2. CASE m \notin messages
        <3>1. PICK w \in Workers : at[w] = "insert" /\ m.conv = job[w].conv /\ m.seq = got[w]
            BY <1>1, <2>2 DEF NumbersMove
        <3>2. cursor[c][u] < m.seq
            BY <3>1 DEF SyncInv, DrawnIsLater
        <3> QED
            BY <1>0, <3>1, <3>2
    <2> QED
        BY <2>1, <2>2
<1>8. NumbersAccounted'
    <2> SUFFICES ASSUME exclusive, faults' = 0, crashes' = 0, NEW c \in Convs,
                        NEW n \in 1 .. max_seq'[c]
                 PROVE  \/ n \in SeqsAfter(c, 0)'
                        \/ \E w \in Workers : at'[w] = "insert" /\ job'[w].conv = c /\ got'[w] = n
        BY <1>0 DEF NumbersAccounted
    <2>1. /\ faults = 0 /\ crashes = 0
          /\ \A w \in Workers : at[w] = "insert" =>
                \/ at'[w] = "insert" /\ job'[w] = job[w] /\ got'[w] = got[w]
                \/ \E m \in messages' : m.conv = job[w].conv /\ m.seq = got[w]
        BY <1>0, <1>1 DEF NumbersMove
    <2>2. CASE n \in 1 .. max_seq[c]
        <3>1. CASE n \in SeqsAfter(c, 0)
            BY <1>1, <3>1 DEF SeqsAfter, NumbersMove
        <3>2. ASSUME NEW w \in Workers, at[w] = "insert", job[w].conv = c, got[w] = n
              PROVE  \/ n \in SeqsAfter(c, 0)'
                     \/ \E v \in Workers : at'[v] = "insert" /\ job'[v].conv = c /\ got'[v] = n
            <4>1. CASE \E m \in messages' : m.conv = job[w].conv /\ m.seq = got[w]
                <5>1. n > 0
                    OBVIOUS
                <5> QED
                    BY <3>2, <4>1, <5>1 DEF SeqsAfter
            <4> QED
                BY <2>1, <3>2, <4>1
        <3> QED
            BY <2>1, <2>2, <3>1, <3>2 DEF SyncInv, NumbersAccounted
    <2>3. CASE n \notin 1 .. max_seq[c]
        <3>1. max_seq'[c] = max_seq[c] + 1 /\ n = max_seq[c] + 1
            BY <1>4, <2>3
        <3> QED
            BY <1>1, <1>4, <3>1 DEF NumbersMove
    <2> QED
        BY <2>2, <2>3
<1>9. LimitHeld'
    <2> SUFFICES ASSUME exclusive, NEW w \in Workers, at'[w] = "update"
                 PROVE  max_seq'[job'[w].conv] = 0 \/ got'[w] <= max_seq'[job'[w].conv]
        BY <1>0 DEF LimitHeld
    <2>1. \A v \in Workers : at'[v] # "insert"
        BY <1>0, <1>3, WorkersAssumption DEF SessionHeld
    <2>2. \A c \in Convs : max_seq'[c] = max_seq[c]
        BY <1>1, <2>1 DEF NumbersMove
    <2>3. ReceiptsMove
        BY StepMovesReceipts
    <2>4. at[w] = "update" => job[w].conv \in Convs
        BY <1>0 DEF TypeOK, Jobs
    <2> QED
        BY <2>2, <2>3, <2>4 DEF ReceiptsMove, SyncInv, LimitHeld
<1>10. \A c \in Convs, u \in Users : last_read[c][u] \in Nat
    BY <1>0 DEF TypeOK
<1>11. \A c \in Convs, u \in Users : last_read'[c][u] \in Nat
    BY <1>0, TypeStep DEF TypeOK
<1>12. DrawnIsUnread'
    <2> SUFFICES ASSUME exclusive, NEW w \in Workers, at'[w] = "insert", NEW u \in Users,
                        <<job'[w].conv, u>> \notin early'
                 PROVE  last_read'[job'[w].conv][u] < got'[w]
        BY <1>0 DEF DrawnIsUnread
    <2> DEFINE c == job'[w].conv
    <2>1. \/ at[w] = "insert" /\ job'[w] = job[w] /\ got'[w] = got[w]
          \/ got'[w] = max_seq[c] + 1
        BY <1>1 DEF NumbersMove
    <2>2. c \in Convs
        BY <1>0, <1>1 DEF NumbersMove
    <2> HIDE DEF c
    <2>3. \/ last_read'[c][u] = last_read[c][u] /\ <<c, u>> \notin early
          \/ (\E v \in Workers : at[v] = "update") /\ last_read'[c][u] <= max_seq[c]
        BY <2>2, ReceiptCases DEF c
    <2>4. CASE last_read'[c][u] = last_read[c][u] /\ <<c, u>> \notin early
        <3>1. last_read[c][u] <= max_seq[c]
            BY <2>2, <2>4 DEF SyncInv, ReadUpToReceipt
        <3>2. last_read[c][u] < max_seq[c] + 1
            BY <1>4, <1>10, <2>2, <3>1
        <3>3. CASE at[w] = "insert" /\ job'[w] = job[w] /\ got'[w] = got[w]
            BY <2>4, <3>3 DEF SyncInv, DrawnIsUnread, c
        <3> QED
            BY <2>1, <2>4, <3>2, <3>3 DEF c
    <2>5. CASE (\E v \in Workers : at[v] = "update") /\ last_read'[c][u] <= max_seq[c]
        <3>1. at[w] # "insert"
            BY <2>5, WorkersAssumption DEF SyncInv, SessionHeld
        <3>2. got'[w] = max_seq[c] + 1
            BY <2>1, <3>1
        <3>3. last_read'[c][u] \in Nat
            BY <1>11, <2>2
        <3> QED
            BY <1>4, <2>2, <2>5, <3>2, <3>3 DEF c
    <2> QED
        BY <2>3, <2>4, <2>5
<1>13. ReadUpToReceipt'
    <2> SUFFICES ASSUME exclusive, NEW c \in Convs, NEW u \in Users, <<c, u>> \notin early'
                 PROVE  /\ last_read'[c][u] <= max_seq'[c]
                        /\ read'[c][u] = {s \in SeqsAfter(c, 0)' : s <= last_read'[c][u]}
        BY <1>0 DEF ReadUpToReceipt
    <2>1. CASE last_read'[c][u] = last_read[c][u] /\ <<c, u>> \notin early /\ read'[c][u] = read[c][u]
        <3>1. /\ last_read[c][u] <= max_seq[c]
              /\ read[c][u] = {s \in SeqsAfter(c, 0) : s <= last_read[c][u]}
            BY <2>1 DEF SyncInv, ReadUpToReceipt
        <3>2. last_read[c][u] <= max_seq'[c]
            BY <1>4, <1>10, <3>1
        <3>3. SeqsAfter(c, 0) \subseteq SeqsAfter(c, 0)'
            BY <1>1 DEF NumbersMove, SeqsAfter
        <3>4. ASSUME NEW m \in messages', m \notin messages, m.conv = c PROVE ~ (m.seq <= last_read[c][u])
            <4>1. PICK w \in Workers : at[w] = "insert" /\ m.conv = job[w].conv /\ m.seq = got[w]
                BY <1>1, <3>4 DEF NumbersMove
            <4>2. last_read[c][u] < m.seq
                BY <2>1, <3>4, <4>1 DEF SyncInv, DrawnIsUnread
            <4> QED
                BY <1>0, <1>10, <4>1, <4>2
        <3>5. \A s \in SeqsAfter(c, 0)' : s <= last_read[c][u] => s \in SeqsAfter(c, 0)
            BY <3>4 DEF SeqsAfter
        <3> QED
            BY <2>1, <3>1, <3>2, <3>3, <3>5
    <2>2. CASE /\ UNCHANGED <<max_seq, messages>>
               /\ last_read'[c][u] <= max_seq[c]
               /\ read'[c][u] = {s \in SeqsAfter(c, 0) : s <= last_read'[c][u]}
        BY <2>2 DEF SeqsAfter
    <2> QED
        BY <2>1, <2>2, ReceiptCases
<1> QED
    BY <1>2, <1>3, <1>5, <1>6, <1>7, <1>8, <1>9, <1>12, <1>13 DEF SyncInv

\* HandleSyncMsg: with SQLite nobody is between drawing a number and storing it.
LEMMA SyncStepKeeps ==
    ASSUME IndInv, SyncInv, NEW u \in Users, NEW c \in Convs, NEW limit \in Limits,
           HandleSyncMsg(u, c, limit)
    PROVE  SyncInv'
<1> DEFINE page == Page(u, c, limit)
           n == cursor[c][u]
<1>0. /\ cursor \in [Convs -> [Users -> Nat]]
      /\ received \in [Convs -> [Users -> SUBSET Nat]]
      /\ n \in Nat /\ max_seq[c] \in Nat
    BY DEF SyncInv, SyncTypeOK, IndInv, TypeOK
<1>1. /\ UNCHANGED <<vars, readVars>>
      /\ exclusive => session = NoWorker
      /\ received' = [received EXCEPT ![c][u] = @ \cup page]
    BY DEF HandleSyncMsg
<1>2. PICK last \in page : /\ \A s \in page : s <= last
                           /\ cursor' = [cursor EXCEPT ![c][u] = last]
    BY DEF HandleSyncMsg
<1>3. /\ exclusive' = exclusive /\ max_seq' = max_seq /\ messages' = messages
      /\ at' = at /\ job' = job /\ got' = got /\ session' = session
      /\ faults' = faults /\ crashes' = crashes
      /\ last_read' = last_read /\ read' = read /\ early' = early
    BY <1>1 DEF vars, dbVars, workerVars, boundVars, readVars
<1>4. page = {s \in SeqsAfter(c, n) : Cardinality({t \in SeqsAfter(c, n) : t < s}) < PageLimit(limit)}
    BY DEF Page, GetAfterSeq
<1>5. /\ SeqsAfter(c, n) \subseteq (n + 1) .. max_seq[c]
      /\ IsFiniteSet(SeqsAfter(c, n))
      /\ SeqsAfter(c, n) = {s \in SeqsAfter(c, 0) : s > n}
    BY <1>0, SeqsFinite
<1> HIDE DEF page, n
<1>6. page \subseteq Nat /\ last \in Nat /\ last <= max_seq[c]
    <2>1. page \subseteq SeqsAfter(c, n)
        BY <1>4
    <2>2. page \subseteq (n + 1) .. max_seq[c]
        BY <1>5, <2>1
    <2> QED
        BY <1>0, <1>2, <2>2
<1>7. /\ cursor' \in [Convs -> [Users -> Nat]]
      /\ cursor'[c][u] = last
      /\ \A d \in Convs, v \in Users : d # c \/ v # u => cursor'[d][v] = cursor[d][v]
    BY <1>0, <1>2, <1>6
<1>8. /\ received' \in [Convs -> [Users -> SUBSET Nat]]
      /\ received'[c][u] = received[c][u] \cup page
      /\ \A d \in Convs, v \in Users : d # c \/ v # u => received'[d][v] = received[d][v]
    BY <1>0, <1>1, <1>6
<1>9. SyncTypeOK' /\ SessionHeld'
    BY <1>3, <1>7, <1>8 DEF SyncInv, SyncTypeOK, SessionHeld
<1>10. CursorBelow'
    BY <1>3, <1>6, <1>7 DEF SyncInv, CursorBelow
<1>11. DrawnIsLater'
    BY <1>1, <1>3, WorkersAssumption DEF SyncInv, SessionHeld, DrawnIsLater
<1>12. NumbersAccounted'
    BY <1>3 DEF SyncInv, NumbersAccounted, SeqsAfter
<1>13. ASSUME NEW s \in SeqsAfter(c, n), s <= last PROVE s \in page
    <2> DEFINE S == SeqsAfter(c, n)
               A == {t \in S : t < s}
               B == {t \in S : t < last}
    <2>1. S \subseteq Nat /\ IsFiniteSet(S)
        BY <1>0, <1>5
    <2> HIDE DEF S
    <2>2. IsFiniteSet(B) /\ A \subseteq B
        BY <1>6, <1>13, <2>1, FS_Subset DEF S
    <2>3. IsFiniteSet(A) /\ Cardinality(A) <= Cardinality(B)
        BY <2>2, FS_Subset
    <2>4. Cardinality(A) \in Nat /\ Cardinality(B) \in Nat
        BY <2>2, <2>3, FS_CardinalityType
    <2>5. Cardinality(B) < PageLimit(limit)
        BY <1>2, <1>4 DEF S
    <2>6. Cardinality(A) < PageLimit(limit)
        BY <2>3, <2>4, <2>5, PageLimitPositive
    <2> QED
        BY <1>4, <1>13, <2>6 DEF S
<1>14. ReceivedUpToCursor'
    <2> SUFFICES ASSUME exclusive, NEW d \in Convs, NEW v \in Users,
                        NEW s \in SeqsAfter(d, 0), s <= cursor'[d][v]
                 PROVE  s \in received'[d][v]
        BY <1>3 DEF ReceivedUpToCursor, SeqsAfter
    <2>1. CASE d # c \/ v # u
        BY <1>7, <1>8, <2>1 DEF SyncInv, ReceivedUpToCursor
    <2>2. CASE d = c /\ v = u
        <3>0. s \in Nat
            BY <2>2, SeqsFinite
        <3>1. CASE s <= n
            BY <1>8, <2>2, <3>1 DEF SyncInv, ReceivedUpToCursor, n
        <3>2. CASE s > n
            <4>1. s \in SeqsAfter(c, n)
                BY <1>5, <2>2, <3>2
            <4> QED
                BY <1>7, <1>8, <1>13, <2>2, <4>1
        <3> QED
            BY <1>0, <3>0, <3>1, <3>2
    <2> QED
        BY <2>1, <2>2
<1>15. LimitHeld' /\ ReadUpToReceipt' /\ DrawnIsUnread'
    BY <1>3 DEF SyncInv, LimitHeld, ReadUpToReceipt, DrawnIsUnread, SeqsAfter
<1> QED
    BY <1>9, <1>10, <1>11, <1>12, <1>14, <1>15 DEF SyncInv

-----------------------------------------------------------------------------
\* Theorems

\* HandleSyncMsg and HandleSyncUnread only read: the message service behind SyncService is
\* the one of MsgService, for which MsgServiceProofs has its theorems.
THEOREM SyncOnlyReads == SyncSpec => Spec
<1>1. SyncInit => Init
    BY DEF SyncInit
<1>2. [SyncNext]_allVars => [Next]_vars
    BY DEF SyncNext, HandleSyncMsg, allVars
<1> QED
    BY <1>1, <1>2, PTL DEF SyncSpec, Spec

\* Every reachable state satisfies the invariant.
LEMMA SyncInductive == SyncSpec => [](IndInv /\ SyncInv)
<1>1. SyncInit => SyncInv
    <2> SUFFICES ASSUME SyncInit PROVE SyncInv
        OBVIOUS
    <2>1. SyncTypeOK
        BY DEF SyncInit, Init, SyncTypeOK
    <2>2. SessionHeld /\ DrawnIsLater
        BY DEF SyncInit, Init, SessionHeld, DrawnIsLater
    <2>3. CursorBelow /\ NumbersAccounted
        BY DEF SyncInit, Init, CursorBelow, NumbersAccounted
    <2>4. ReceivedUpToCursor
        BY DEF SyncInit, Init, ReceivedUpToCursor, SeqsAfter
    <2>5. LimitHeld /\ ReadUpToReceipt /\ DrawnIsUnread
        BY DEF SyncInit, Init, LimitHeld, ReadUpToReceipt, DrawnIsUnread, SeqsAfter
    <2> QED
        BY <2>1, <2>2, <2>3, <2>4, <2>5 DEF SyncInv
<1>2. ASSUME IndInv, SyncInv, UNCHANGED allVars PROVE SyncInv'
    <2>1. /\ cursor' = cursor /\ received' = received /\ exclusive' = exclusive
          /\ max_seq' = max_seq /\ messages' = messages /\ at' = at /\ job' = job /\ got' = got
          /\ session' = session /\ faults' = faults /\ crashes' = crashes
          /\ last_read' = last_read /\ read' = read /\ early' = early
        BY <1>2 DEF allVars, vars, syncVars, readVars, dbVars, workerVars, boundVars
    <2> QED
        BY <1>2, <2>1 DEF SyncInv, SyncTypeOK, SessionHeld, CursorBelow, DrawnIsLater,
           ReceivedUpToCursor, NumbersAccounted, LimitHeld, ReadUpToReceipt, DrawnIsUnread, SeqsAfter
<1>3. IndInv /\ SyncInv /\ [SyncNext]_allVars => SyncInv'
    BY <1>2, MsgStepKeeps, SyncStepKeeps DEF SyncNext
<1>4. SyncSpec => []IndInv
    BY SyncOnlyReads, Invariance, PTL
<1> QED
    BY <1>1, <1>3, <1>4, PTL DEF SyncSpec

\* With SQLite a client that follows the pages misses no message, for any page size.
THEOREM PagesSkipNothing == SyncSpec => []NothingSkipped
<1>1. ASSUME IndInv, SyncInv PROVE NothingSkipped
    <2> SUFFICES ASSUME exclusive, NEW c \in Convs, NEW u \in Users
                 PROVE  /\ \A s \in SeqsAfter(c, 0) : s <= cursor[c][u] => s \in received[c][u]
                        /\ \A limit \in Limits :
                            HasMore(u, c, limit)
                            \/ SeqsAfter(c, 0) \subseteq received[c][u] \cup Page(u, c, limit)
        BY DEF NothingSkipped
    <2>1. \A s \in SeqsAfter(c, 0) : s <= cursor[c][u] => s \in received[c][u]
        BY <1>1 DEF SyncInv, ReceivedUpToCursor
    <2>2. ASSUME NEW limit \in Limits, ~ HasMore(u, c, limit)
          PROVE  SeqsAfter(c, 0) \subseteq received[c][u] \cup Page(u, c, limit)
        <3> DEFINE n == cursor[c][u]
                   S == SeqsAfter(c, n)
                   P == Page(u, c, limit)
        <3>1. n \in Nat /\ max_seq[c] \in Nat
            BY <1>1 DEF SyncInv, SyncTypeOK, IndInv, TypeOK
        <3>2. S \subseteq Nat /\ IsFiniteSet(S) /\ S = {s \in SeqsAfter(c, 0) : s > n}
            BY <1>1, <3>1, SeqsFinite
        <3>3. P = {s \in S : Cardinality({t \in S : t < s}) < PageLimit(limit)}
            BY DEF Page, GetAfterSeq
        <3>4. ~ (Cardinality(P) >= PageLimit(limit))
            BY <2>2 DEF HasMore
        <3>5. SeqsAfter(c, 0) \subseteq Nat
            BY <1>1, SeqsFinite, <3>1
        <3> HIDE DEF n, S, P
        <3>6. P = S
            BY <3>2, <3>3, <3>4, FirstElements, PageLimitPositive
        <3>7. \A s \in SeqsAfter(c, 0) : s <= n => s \in received[c][u]
            BY <2>1 DEF n
        <3>8. SeqsAfter(c, 0) \subseteq received[c][u] \cup P
            BY <3>1, <3>2, <3>5, <3>6, <3>7
        <3> QED
            BY <3>8 DEF P
    <2> QED
        BY <2>1, <2>2
<1> QED
    BY <1>1, SyncInductive, PTL

\* With SQLite and without failures the unread count is the number of stored messages that
\* the user has not read, unless the latest receipt met a conversation without messages.
THEOREM UnreadIsExact == SyncSpec => []UnreadExact
<1>1. ASSUME IndInv, SyncInv PROVE UnreadExact
    <2> SUFFICES ASSUME exclusive, faults = 0, crashes = 0, session = NoWorker,
                        NEW c \in Convs, NEW u \in Users, <<c, u>> \notin early
                 PROVE  Unread(u, c) = Cardinality(SeqsAfter(c, 0) \ read[c][u])
        BY DEF UnreadExact
    <2> DEFINE r == last_read[c][u]
               m == max_seq[c]
    <2>1. r \in Nat /\ m \in Nat
        BY <1>1 DEF IndInv, TypeOK
    <2>2. \A w \in Workers : at[w] # "insert"
        BY <1>1, WorkersAssumption DEF SyncInv, SessionHeld
    <2>3. \A n \in 1 .. m : n \in SeqsAfter(c, 0)
        BY <1>1, <2>2 DEF SyncInv, NumbersAccounted
    <2>4. SeqsAfter(c, 0) \subseteq 1 .. m
        BY <1>1, SeqsFinite
    <2>5. r <= m /\ read[c][u] = {s \in SeqsAfter(c, 0) : s <= r}
        BY <1>1 DEF SyncInv, ReadUpToReceipt
    <2>6. Unread(u, c) = IF m - r < 0 THEN 0 ELSE m - r
        BY DEF Unread
    <2> HIDE DEF r, m
    <2>7. SeqsAfter(c, 0) \ read[c][u] = (r + 1) .. m
        BY <2>1, <2>3, <2>4, <2>5
    <2>8. Cardinality((r + 1) .. m) = IF r + 1 > m THEN 0 ELSE m - (r + 1) + 1
        BY <2>1, FS_Interval
    <2>9. (IF r + 1 > m THEN 0 ELSE m - (r + 1) + 1) = (IF m - r < 0 THEN 0 ELSE m - r)
        BY <2>1
    <2> QED
        BY <2>6, <2>7, <2>8, <2>9
<1> QED
    BY <1>1, SyncInductive, PTL
=============================================================================
