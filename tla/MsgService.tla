----------------------------- MODULE MsgService -----------------------------
(***************************************************************************)
(* server/service/msg_service.cpp with the DAO calls it makes: sending     *)
(* with sequence numbers and client_msg_id de-duplication, recalling, and  *)
(* read receipts; and ConvService's HandleDeleteConv, which hides what a   *)
(* new message unhides.  Workers run the handlers, one action per database *)
(* statement or critical section of dedup_mutex_.  With SQLite the session *)
(* excludes other handlers (exclusive = TRUE), with MySQL it does not.     *)
(*                                                                         *)
(* A request that fails validation changes nothing and is left out.        *)
(* Messages, max_seq and the member rows are in the database and survive   *)
(* a restart; the de-duplication cache and in_flight_ do not.              *)
(***************************************************************************)
EXTENDS Integers, Sequences, FiniteSets

CONSTANTS
    Users, Convs,
    Keys,         \* client_msg_ids
    NoKey,        \* the empty client_msg_id: no de-duplication
    Members,      \* Members[c]: rows of conversation_members
    SendRequests, \* the SendMsgReqs clients send, and send again: records [user, conv, key]
    ReadSeqs,     \* the read_up_to_seqs clients send
    Workers, NoWorker, NoRequest,
    DedupSize,    \* max_dedup_cache_size_
    MaxRequests,  \* bound: requests, repeated ones included
    MaxFaults,    \* bound: database statements that fail
    MaxStalls,    \* bound: how often a handler outlives kInflightTimeout
    MaxCrashes    \* bound: restarts of the server

ASSUME KeysAssumption == NoKey \notin Keys
ASSUME WorkersAssumption == NoWorker \notin Workers
ASSUME MembersAssumption == Members \in [Convs -> SUBSET Users]
ASSUME SendRequestsAssumption ==
    SendRequests \subseteq [user : Users, conv : Convs, key : Keys \cup {NoKey}]
ASSUME ReadSeqsAssumption == ReadSeqs \subseteq Nat \ {0}
ASSUME DedupSizeAssumption == DedupSize \in Nat

VARIABLES
    exclusive,   \* the configured database: TRUE for SQLite, FALSE for MySQL
    max_seq,     \* max_seq[c]: conversations.max_seq
    messages,    \* rows of messages: [conv, seq, user, key]
    recalled,    \* the messages whose status is kRecalled
    last_read,   \* last_read[c][u]: conversation_members.last_read_seq
    last_ack,    \* last_ack[c][u]: conversation_members.last_ack_seq
    hidden,      \* hidden[c][u]: Visible, or max_seq at the time u hid conversation c
    dedup_index, \* dedup_index[k]: the cached server_seq, 0 if k is not cached
    dedup_order, \* dedup_order_: the cached keys, least recently used first
    in_flight,   \* in_flight[k]: "none", "fresh", or "stale" after kInflightTimeout
    session,     \* the worker that holds the SQLite mutex
    at,          \* at[w]: where worker w is
    job,         \* job[w]: [user, conv, key] of the request worker w is handling
    got,         \* got[w]: the sequence number worker w is working with
    acks,        \* history: the successful SendMsgAcks, [user, conv, key, seq]
    pushes,      \* pushes[c]: history, sequence numbers in the order of their broadcasts
    recalls,     \* history: the messages of successful recalls, in order
    requests, faults, stalls, crashes

dbVars == <<max_seq, messages, recalled, last_read, last_ack, hidden>>
cacheVars == <<dedup_index, dedup_order, in_flight>>
workerVars == <<session, at, job, got>>
historyVars == <<acks, pushes, recalls>>
boundVars == <<requests, faults, stalls, crashes>>
vars == <<exclusive, dbVars, cacheVars, workerVars, historyVars, boundVars>>

Visible == -1
Jobs == [user : Users, conv : Convs, key : Keys \cup {NoKey}]

Init ==
    /\ exclusive \in BOOLEAN
    /\ max_seq = [c \in Convs |-> 0]
    /\ messages = {}
    /\ recalled = {}
    /\ last_read = [c \in Convs |-> [u \in Users |-> 0]]
    /\ last_ack = [c \in Convs |-> [u \in Users |-> 0]]
    /\ hidden = [c \in Convs |-> [u \in Users |-> Visible]]
    /\ dedup_index = [k \in Keys |-> 0]
    /\ dedup_order = << >>
    /\ in_flight = [k \in Keys |-> "none"]
    /\ session = NoWorker
    /\ at = [w \in Workers |-> "idle"]
    /\ job = [w \in Workers |-> NoRequest]
    /\ got = [w \in Workers |-> 0]
    /\ acks = {}
    /\ pushes = [c \in Convs |-> << >>]
    /\ recalls = << >>
    /\ requests = 0 /\ faults = 0 /\ stalls = 0 /\ crashes = 0

-----------------------------------------------------------------------------
\* Handlers

\* A worker starts a handler: it takes the session.
Begin(w, u, c, k, n, where) ==
    /\ at[w] = "idle"
    /\ exclusive => session = NoWorker
    /\ requests < MaxRequests
    /\ requests' = requests + 1
    /\ session' = IF exclusive THEN w ELSE session
    /\ at' = [at EXCEPT ![w] = where]
    /\ job' = [job EXCEPT ![w] = [user |-> u, conv |-> c, key |-> k]]
    /\ got' = [got EXCEPT ![w] = n]
    /\ UNCHANGED <<dbVars, cacheVars, historyVars, faults, stalls, crashes>>

Goto(w, here, there) ==
    /\ at[w] = here
    /\ at' = [at EXCEPT ![w] = there]
    /\ UNCHANGED <<session, job>>

\* The handler returns: the session ends.
Return(w, here) ==
    /\ at[w] = here
    /\ at' = [at EXCEPT ![w] = "idle"]
    /\ session' = IF session = w THEN NoWorker ELSE session
    /\ job' = [job EXCEPT ![w] = NoRequest]
    /\ got' = [got EXCEPT ![w] = 0]

\* A database statement fails.
Fault == faults < MaxFaults /\ faults' = faults + 1

IsMember(w) == job[w].user \in Members[job[w].conv]

-----------------------------------------------------------------------------
\* The de-duplication cache (under dedup_mutex_)

\* The place of a cached key in the list: the iterator the index stores.
DedupPlace(k) == CHOOSE i \in 1 .. Len(dedup_order) : dedup_order[i] = k

\* DedupFind moves the entry to the most recent end.
DedupTouch(k) ==
    LET i == DedupPlace(k)
        before == SubSeq(dedup_order, 1, i - 1)
        after == SubSeq(dedup_order, i + 1, Len(dedup_order))
    IN  dedup_order' = Append(before \o after, k)

\* Mutant: evicts from the list but not from the index.
DedupInsertHalf(k, n) ==
    IF DedupSize = 0 THEN UNCHANGED <<dedup_index, dedup_order>>
    ELSE IF dedup_index[k] # 0
    THEN DedupTouch(k) /\ dedup_index' = [dedup_index EXCEPT ![k] = n]
    ELSE /\ dedup_order' = Append(IF Len(dedup_order) < DedupSize THEN dedup_order ELSE Tail(dedup_order), k)
         /\ dedup_index' = [dedup_index EXCEPT ![k] = n]

\* DedupInsert evicts from the oldest end until there is room.
DedupInsert(k, n) ==
    IF DedupSize = 0 THEN UNCHANGED <<dedup_index, dedup_order>>
    ELSE IF dedup_index[k] # 0
    THEN DedupTouch(k) /\ dedup_index' = [dedup_index EXCEPT ![k] = n]
    ELSE IF Len(dedup_order) < DedupSize
    THEN /\ dedup_order' = Append(dedup_order, k)
         /\ dedup_index' = [dedup_index EXCEPT ![k] = n]
    ELSE /\ dedup_order' = Append(Tail(dedup_order), k)
         /\ dedup_index' = [dedup_index EXCEPT ![Head(dedup_order)] = 0, ![k] = n]

EraseInflight(k) ==
    in_flight' = IF k = NoKey THEN in_flight ELSE [in_flight EXCEPT ![k] = "none"]

\* kInflightTimeout has passed since the mark was set.
InflightExpires(k) ==
    /\ in_flight[k] = "fresh"
    /\ stalls < MaxStalls
    /\ in_flight' = [in_flight EXCEPT ![k] = "stale"]
    /\ stalls' = stalls + 1
    /\ UNCHANGED <<dbVars, dedup_index, dedup_order, workerVars, historyVars, requests, faults, crashes>>

-----------------------------------------------------------------------------
\* HandleSendMsg

SendBegin(w, r) == Begin(w, r.user, r.conv, r.key, 0, "dedup")

Ack(w, n) == acks' = acks \cup {[user |-> job[w].user, conv |-> job[w].conv, key |-> job[w].key, seq |-> n]}

\* The message was handled before: the cached answer.
SendCached(w) ==
    LET k == job[w].key
    IN  /\ Return(w, "dedup")
        /\ k # NoKey /\ dedup_index[k] # 0
        /\ DedupTouch(k)
        /\ Ack(w, dedup_index[k])
        /\ UNCHANGED <<dbVars, dedup_index, in_flight, pushes, recalls, boundVars>>

\* Another handler is working on it: kServerBusy.
SendBusy(w) ==
    LET k == job[w].key
    IN  /\ Return(w, "dedup")
        /\ k # NoKey /\ dedup_index[k] = 0 /\ in_flight[k] = "fresh"
        /\ UNCHANGED <<dbVars, cacheVars, historyVars, boundVars>>

\* Mutant: looks at the cache only.
SendMarkAlways(w) ==
    LET k == job[w].key
    IN  /\ Goto(w, "dedup", "seq")
        /\ IF k = NoKey THEN UNCHANGED in_flight
           ELSE dedup_index[k] = 0 /\ in_flight' = [in_flight EXCEPT ![k] = "fresh"]
        /\ UNCHANGED <<dbVars, dedup_index, dedup_order, got, historyVars, boundVars>>

\* TryMarkInflight: nobody is, or only one that exceeded the timeout.
SendMark(w) ==
    LET k == job[w].key
    IN  /\ Goto(w, "dedup", "seq")
        /\ IF k = NoKey THEN UNCHANGED in_flight
           ELSE /\ dedup_index[k] = 0 /\ in_flight[k] # "fresh"
                /\ in_flight' = [in_flight EXCEPT ![k] = "fresh"]
        /\ UNCHANGED <<dbVars, dedup_index, dedup_order, got, historyVars, boundVars>>

\* Mutant: returns without removing the mark.
SendRefusedLeaks(w) ==
    /\ Return(w, "seq")
    /\ IF IsMember(w) THEN Fault ELSE UNCHANGED faults
    /\ UNCHANGED <<dbVars, cacheVars, historyVars, requests, stalls, crashes>>

\* Not a member, or no sequence number: the mark is removed again.
SendRefused(w) ==
    /\ Return(w, "seq")
    /\ IF IsMember(w) THEN Fault ELSE UNCHANGED faults
    /\ EraseInflight(job[w].key)
    /\ UNCHANGED <<dbVars, dedup_index, dedup_order, historyVars, requests, stalls, crashes>>

\* Mutant: SELECT max_seq + 1, to be written back later, instead of the transaction.
SendGenerateSeqStale(w) ==
    LET c == job[w].conv
        used == {m.seq : m \in {n \in messages : n.conv = c}} \cup {0}
        top == CHOOSE n \in used : \A i \in used : i <= n
    IN  /\ Goto(w, "seq", "insert")
        /\ IsMember(w)
        /\ max_seq' = [max_seq EXCEPT ![c] = top + 1]
        /\ got' = [got EXCEPT ![w] = top + 1]
        /\ UNCHANGED <<messages, recalled, last_read, last_ack, hidden, cacheVars, historyVars, boundVars>>

\* GenerateSeq: IncrMaxSeq increments and reads max_seq in one transaction.
SendGenerateSeq(w) ==
    LET c == job[w].conv
    IN  /\ Goto(w, "seq", "insert")
        /\ IsMember(w)
        /\ max_seq' = [max_seq EXCEPT ![c] = @ + 1]
        /\ got' = [got EXCEPT ![w] = max_seq[c] + 1]
        /\ UNCHANGED <<messages, recalled, last_read, last_ack, hidden, cacheVars, historyVars, boundVars>>

SendInsert(w) ==
    /\ Goto(w, "insert", "cache")
    /\ messages' = messages \cup {[conv |-> job[w].conv, seq |-> got[w],
                                   user |-> job[w].user, key |-> job[w].key]}
    /\ UNCHANGED <<max_seq, recalled, last_read, last_ack, hidden, cacheVars, got, historyVars, boundVars>>

\* Mutant: ignores that the insert failed.
SendInsertFailedIgnored(w) ==
    /\ Goto(w, "insert", "cache")
    /\ Fault
    /\ UNCHANGED <<dbVars, cacheVars, got, historyVars, requests, stalls, crashes>>

\* The insert failed: the sequence number stays unused.
SendInsertFailed(w) ==
    /\ Return(w, "insert")
    /\ Fault
    /\ EraseInflight(job[w].key)
    /\ UNCHANGED <<dbVars, dedup_index, dedup_order, historyVars, requests, stalls, crashes>>

\* Remove the mark and cache the answer in one critical section; send the Ack.
SendCache(w) ==
    LET k == job[w].key
    IN  /\ Goto(w, "cache", "unhide")
        /\ EraseInflight(k)
        /\ IF k = NoKey THEN UNCHANGED <<dedup_index, dedup_order>> ELSE DedupInsert(k, got[w])
        /\ Ack(w, got[w])
        /\ UNCHANGED <<dbVars, got, pushes, recalls, boundVars>>

\* Mutant: unhides the conversation for the receivers only.
SendUnhideOthers(w) ==
    LET c == job[w].conv
    IN  /\ Goto(w, "unhide", "push")
        /\ hidden' = [hidden EXCEPT ![c] =
              [u \in Users |-> IF u \in Members[c] \ {job[w].user} THEN Visible ELSE @[u]]]
        /\ UNCHANGED <<max_seq, messages, recalled, last_read, last_ack, cacheVars, got, historyVars, boundVars>>

\* Mutant: gives the session back before the broadcast.
SendUnhideEndsSession(w) ==
    /\ at[w] = "unhide"
    /\ at' = [at EXCEPT ![w] = "push"]
    /\ session' = NoWorker
    /\ UNCHANGED <<dbVars, cacheVars, job, got, historyVars, boundVars>>

\* Unhide the conversation for every member that hid it.  Reading the rows and updating
\* them is one step: a hide between the two is later than the message anyway.
SendUnhide(w) ==
    LET c == job[w].conv
    IN  /\ Goto(w, "unhide", "push")
        /\ \E failed \in SUBSET {u \in Members[c] : hidden[c][u] # Visible} :
              /\ IF failed = {} THEN UNCHANGED faults ELSE Fault
              /\ hidden' = [hidden EXCEPT ![c] =
                    [u \in Users |-> IF u \in Members[c] \ failed THEN Visible ELSE @[u]]]
        /\ UNCHANGED <<max_seq, messages, recalled, last_read, last_ack, cacheVars, got, historyVars, requests, stalls, crashes>>

\* BroadcastEncoded: PushMsg to the connections of every member.
SendPush(w) ==
    /\ Return(w, "push")
    /\ pushes' = [pushes EXCEPT ![job[w].conv] = Append(@, got[w])]
    /\ UNCHANGED <<dbVars, cacheVars, acks, recalls, boundVars>>

-----------------------------------------------------------------------------
\* HandleRecallMsg

RecallBegin(w, u, c, n) == Begin(w, u, c, NoKey, n, "find")

Target(w) == {m \in messages : m.conv = job[w].conv /\ m.seq = got[w]}
Recallable(w) == {m \in Target(w) : m \notin recalled /\ m.user = job[w].user}

\* Not a member, no such message, recalled already, not the sender; or too old.
RecallRefused(w) ==
    /\ Return(w, "find")
    /\ UNCHANGED <<dbVars, cacheVars, historyVars, boundVars>>

RecallFound(w) ==
    /\ Goto(w, "find", "recall")
    /\ IsMember(w)
    /\ Recallable(w) # {}
    /\ UNCHANGED <<dbVars, cacheVars, got, historyVars, boundVars>>

\* UpdateStatus, RecallMsgAck and RecallNotify; or the update fails.
RecallUpdate(w) ==
    /\ Return(w, "recall")
    /\ \/ /\ recalled' = recalled \cup Target(w)
          /\ recalls' = Append(recalls, CHOOSE m \in Target(w) : TRUE)
          /\ UNCHANGED faults
       \/ Fault /\ UNCHANGED <<recalled, recalls>>
    /\ UNCHANGED <<max_seq, messages, last_read, last_ack, hidden, cacheVars, acks, pushes, requests, stalls, crashes>>

-----------------------------------------------------------------------------
\* HandleReadAck

ReadBegin(w, u, c, n) == Begin(w, u, c, NoKey, n, "clamp")

\* Mutant: no limit.
ReadClampNone(w) ==
    /\ Goto(w, "clamp", "update")
    /\ IsMember(w)
    /\ UNCHANGED <<dbVars, cacheVars, got, historyVars, boundVars>>

\* read_up_to_seq is limited to max_seq, if there is a max_seq.
ReadClamp(w) ==
    LET m == max_seq[job[w].conv]
    IN  /\ Goto(w, "clamp", "update")
        /\ IsMember(w)
        /\ got' = [got EXCEPT ![w] = IF m > 0 /\ m < @ THEN m ELSE @]
        /\ UNCHANGED <<dbVars, cacheVars, historyVars, boundVars>>

ReadRefused(w) ==
    /\ Return(w, "clamp")
    /\ ~ IsMember(w)
    /\ UNCHANGED <<dbVars, cacheVars, historyVars, boundVars>>

\* Mutant: UPDATE without WHERE last_read_seq < seq.
ReadUpdateBlind(w) ==
    LET c == job[w].conv
        u == job[w].user
    IN  /\ Return(w, "update")
        /\ last_read' = [last_read EXCEPT ![c][u] = got[w]]
        /\ UNCHANGED <<max_seq, messages, recalled, last_ack, hidden, cacheVars, historyVars, boundVars>>

\* UpdateLastReadSeq: ... WHERE last_read_seq < seq.
ReadUpdate(w) ==
    LET c == job[w].conv
        u == job[w].user
    IN  /\ Return(w, "update")
        /\ \/ /\ last_read' = [last_read EXCEPT ![c][u] = IF @ < got[w] THEN got[w] ELSE @]
              /\ UNCHANGED faults
           \/ Fault /\ UNCHANGED last_read
        /\ UNCHANGED <<max_seq, messages, recalled, last_ack, hidden, cacheVars, historyVars, requests, stalls, crashes>>

-----------------------------------------------------------------------------
\* HandleDeliverAck: no limit, and no answer.

DeliverBegin(w, u, c, n) == Begin(w, u, c, NoKey, n, "deliver")

\* UpdateLastAckSeq: ... WHERE last_ack_seq < seq.
DeliverUpdate(w) ==
    LET c == job[w].conv
        u == job[w].user
    IN  /\ Return(w, "deliver")
        /\ \/ /\ IsMember(w)
              /\ last_ack' = [last_ack EXCEPT ![c][u] = IF @ < got[w] THEN got[w] ELSE @]
              /\ UNCHANGED faults
           \/ ~ IsMember(w) /\ UNCHANGED <<last_ack, faults>>
           \/ Fault /\ UNCHANGED last_ack
        /\ UNCHANGED <<max_seq, messages, recalled, last_read, hidden, cacheVars, historyVars, requests, stalls, crashes>>

-----------------------------------------------------------------------------
\* ConvService::HandleDeleteConv

HideBegin(w, u, c) == Begin(w, u, c, NoKey, 0, "hide")

HideUpdate(w) ==
    LET c == job[w].conv
        u == job[w].user
    IN  /\ Return(w, "hide")
        /\ \/ /\ IsMember(w)
              /\ hidden' = [hidden EXCEPT ![c][u] = max_seq[c]]
              /\ UNCHANGED faults
           \/ ~ IsMember(w) /\ UNCHANGED <<hidden, faults>>
           \/ Fault /\ UNCHANGED hidden
        /\ UNCHANGED <<max_seq, messages, recalled, last_read, last_ack, cacheVars, historyVars, requests, stalls, crashes>>

-----------------------------------------------------------------------------
\* The process dies and is started again: only the database is left.
Restart ==
    /\ crashes < MaxCrashes
    /\ crashes' = crashes + 1
    /\ dedup_index' = [k \in Keys |-> 0]
    /\ dedup_order' = << >>
    /\ in_flight' = [k \in Keys |-> "none"]
    /\ session' = NoWorker
    /\ at' = [w \in Workers |-> "idle"]
    /\ job' = [w \in Workers |-> NoRequest]
    /\ got' = [w \in Workers |-> 0]
    /\ UNCHANGED <<dbVars, historyVars, requests, faults, stalls>>

HandleSendMsg(w) ==
    \/ SendCached(w) \/ SendBusy(w) \/ SendMark(w)
    \/ SendRefused(w) \/ SendGenerateSeq(w)
    \/ SendInsert(w) \/ SendInsertFailed(w)
    \/ SendCache(w) \/ SendUnhide(w) \/ SendPush(w)

HandleRecallMsg(w) == RecallRefused(w) \/ RecallFound(w) \/ RecallUpdate(w)

HandleReadAck(w) == ReadRefused(w) \/ ReadClamp(w) \/ ReadUpdate(w)

Arrival(w) ==
    \/ \E r \in SendRequests : SendBegin(w, r)
    \/ \E m \in messages : \E u \in Users : RecallBegin(w, u, m.conv, m.seq)
    \/ \E u \in Users, c \in Convs : 
          HideBegin(w, u, c) \/ \E n \in ReadSeqs : ReadBegin(w, u, c, n) \/ DeliverBegin(w, u, c, n)

Next ==
    /\ UNCHANGED exclusive
    /\ \/ \E w \in Workers : \/ Arrival(w) \/ HandleSendMsg(w) \/ HandleRecallMsg(w)
                             \/ HandleReadAck(w) \/ DeliverUpdate(w) \/ HideUpdate(w)
       \/ \E k \in Keys : InflightExpires(k)
       \/ Restart

Spec == Init /\ [][Next]_vars

-----------------------------------------------------------------------------
TypeOK ==
    /\ exclusive \in BOOLEAN
    /\ max_seq \in [Convs -> Nat]
    /\ messages \subseteq [conv : Convs, seq : Nat, user : Users, key : Keys \cup {NoKey}]
    /\ recalled \subseteq messages
    /\ last_read \in [Convs -> [Users -> Nat]]
    /\ last_ack \in [Convs -> [Users -> Nat]]
    /\ hidden \in [Convs -> [Users -> Nat \cup {Visible}]]
    /\ dedup_index \in [Keys -> Nat]
    /\ dedup_order \in Seq(Keys)
    /\ in_flight \in [Keys -> {"none", "fresh", "stale"}]
    /\ session \in Workers \cup {NoWorker}
    /\ at \in [Workers -> {"idle", "dedup", "seq", "insert", "cache", "unhide", "push",
                           "find", "recall", "clamp", "update", "deliver", "hide"}]
    /\ job \in [Workers -> Jobs \cup {NoRequest}]
    /\ \A w \in Workers : at[w] # "idle" => job[w] \in Jobs
    /\ got \in [Workers -> Nat]
    /\ acks \subseteq [user : Users, conv : Convs, key : Keys \cup {NoKey}, seq : Nat]

\* No two messages of a conversation have the same server_seq, however many handlers
\* send at once and whatever fails in between, and none is above max_seq.
SeqUnique ==
    \A m \in messages :
        /\ m.seq <= max_seq[m.conv]
        /\ \A n \in messages : m.conv = n.conv /\ m.seq = n.seq => m = n

\* A successful SendMsgAck names the sequence number of a stored message: the one the
\* client asked to store, whether the answer is new or comes from the cache.
AckedIsStored ==
    \A a \in acks : [conv |-> a.conv, seq |-> a.seq, user |-> a.user, key |-> a.key] \in messages

\* "Same client_msg_id ... is not stored again": a request that is sent again, while
\* the first one is handled or later, does not store a second message, as long as the
\* server neither restarts, nor stores more keys than the cache holds, nor takes longer
\* than kInflightTimeout.
StoredOnce ==
    crashes = 0 /\ stalls = 0 /\ Cardinality({m.key : m \in messages} \ {NoKey}) <= DedupSize =>
        \A m, n \in messages :
            m.key # NoKey /\ m.key = n.key /\ m.user = n.user /\ m.conv = n.conv => m = n

\* The two halves of the LRU cache agree, and it stays within its limit.
CacheConsistent ==
    /\ {k \in Keys : dedup_index[k] # 0} = {dedup_order[i] : i \in 1 .. Len(dedup_order)}
    /\ \A i, j \in 1 .. Len(dedup_order) : dedup_order[i] = dedup_order[j] => i = j
    /\ Len(dedup_order) <= DedupSize

\* An in-flight mark is removed on every way out of the handler: a key is marked only
\* while some handler works on it, so a retry is never answered "busy" for nothing.
NoInflightLeak ==
    \A k \in Keys : in_flight[k] # "none" =>
        \E w \in Workers : at[w] \in {"seq", "insert", "cache"} /\ job[w].key = k

\* With SQLite, members receive the messages of a conversation in the order of their
\* sequence numbers, and the recall of a message once, although two devices may ask for
\* it: the session is held from the check to the broadcast.
PushedInOrder ==
    exclusive =>
        /\ \A c \in Convs : \A i, j \in 1 .. Len(pushes[c]) : i < j => pushes[c][i] < pushes[c][j]
        /\ \A i, j \in 1 .. Len(recalls) : recalls[i] = recalls[j] => i = j

\* "Marks it hidden (...), restored when a new message arrives": a conversation is not
\* hidden any more once a message newer than the hiding is handled.
NewMessageUnhides ==
    faults = 0 /\ crashes = 0 =>
        \A m \in messages : \A u \in Members[m.conv] :
            hidden[m.conv][u] # Visible /\ m.seq > hidden[m.conv][u] =>
                \E w \in Workers : at[w] \in {"cache", "unhide"} /\ got[w] = m.seq /\ job[w].conv = m.conv

\* last_read_seq and last_ack_seq never go back, whatever the order of concurrent
\* receipts of a user's devices.
ReceiptsNeverGoBack ==
    [][\A c \in Convs, u \in Users :
          last_read'[c][u] >= last_read[c][u] /\ last_ack'[c][u] >= last_ack[c][u]]_vars
=============================================================================
