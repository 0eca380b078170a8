---------------------------- MODULE SyncService ----------------------------
(***************************************************************************)
(* server/service/sync_service.cpp on top of MsgService: a client pulls    *)
(* the messages after its cursor page by page while other handlers draw    *)
(* sequence numbers and insert messages, and asks for its unread counts.   *)
(* The handlers only read.  Of the statements of HandleSyncMsg only        *)
(* GetAfterSeq reads what others write, so the handler is one action; with *)
(* SQLite it needs the session that every other handler holds.             *)
(* HandleSyncUnread changes nothing at all: it is the operator Unread.     *)
(***************************************************************************)
EXTENDS MsgService

CONSTANTS
    Limits,       \* the limits clients ask for
    SyncDefault,  \* config().server.sync_default
    SyncMax       \* config().server.sync_max

ASSUME LimitsAssumption ==
    Limits \subseteq Int /\ SyncDefault \in Nat \ {0} /\ SyncMax \in Nat \ {0}

VARIABLES
    cursor,    \* cursor[c][u]: last_seq of u's next SyncMsgReq for conversation c
    received,  \* received[c][u]: history, the sequence numbers in u's SyncMsgResps
    read,      \* read[c][u]: history, the messages that u's receipts say u has read
    early      \* history: <<c, u>> if u's latest receipt met a conversation without messages

syncVars == <<cursor, received>>
readVars == <<read, early>>
allVars == <<vars, syncVars, readVars>>

SyncInit ==
    /\ Init
    /\ cursor = [c \in Convs |-> [u \in Users |-> 0]]
    /\ received = [c \in Convs |-> [u \in Users |-> {}]]
    /\ read = [c \in Convs |-> [u \in Users |-> {}]]
    /\ early = {}

\* limit <= 0 means the default, and the maximum limits both.
PageLimit(limit) ==
    LET asked == IF limit <= 0 THEN SyncDefault ELSE limit
    IN  IF asked > SyncMax THEN SyncMax ELSE asked

SeqsAfter(c, n) == {m.seq : m \in {x \in messages : x.conv = c /\ x.seq > n}}

\* Mutant: ORDER BY seq DESC.
GetAfterSeqNewest(c, n, limit) ==
    {s \in SeqsAfter(c, n) : Cardinality({t \in SeqsAfter(c, n) : t > s}) < limit}

\* SELECT ... WHERE seq > n ORDER BY seq ASC LIMIT limit.
GetAfterSeq(c, n, limit) ==
    {s \in SeqsAfter(c, n) : Cardinality({t \in SeqsAfter(c, n) : t < s}) < limit}

\* The messages of the SyncMsgResp to a request of u.
Page(u, c, limit) == GetAfterSeq(c, cursor[c][u], PageLimit(limit))

HasMore(u, c, limit) == Cardinality(Page(u, c, limit)) >= PageLimit(limit)

\* HandleSyncMsg; the client's next cursor is the last sequence number of the page.
HandleSyncMsg(u, c, limit) ==
    LET page == Page(u, c, limit)
    IN  /\ exclusive => session = NoWorker
        /\ u \in Members[c]
        /\ received' = [received EXCEPT ![c][u] = @ \cup page]
        /\ \E last \in page :
              /\ \A s \in page : s <= last
              /\ cursor' = [cursor EXCEPT ![c][u] = last]
        /\ UNCHANGED <<vars, readVars>>

\* The count of conversation c in a SyncUnreadResp to u.
Unread(u, c) ==
    LET count == max_seq[c] - last_read[c][u]
    IN  IF count < 0 THEN 0 ELSE count

\* A receipt that moves last_read covers the messages that are stored by then.
ReceiptsObserved ==
    LET moved(c, u) == last_read'[c][u] # last_read[c][u] IN
    /\ read' = [c \in Convs |-> [u \in Users |->
                   IF moved(c, u) THEN {s \in SeqsAfter(c, 0) : s <= last_read'[c][u]}
                   ELSE read[c][u]]]
    /\ early' = {p \in Convs \X Users :
                    IF moved(p[1], p[2]) THEN max_seq[p[1]] = 0 ELSE p \in early}

SyncNext ==
    \/ Next /\ ReceiptsObserved /\ UNCHANGED syncVars
    \/ \E u \in Users, c \in Convs, limit \in Limits : HandleSyncMsg(u, c, limit)

SyncSpec == SyncInit /\ [][SyncNext]_allVars

-----------------------------------------------------------------------------
\* Properties

\* With SQLite, a client that follows the pages skips nothing, whatever failed or was
\* stored between two pages: every stored message up to its cursor has been in an answer,
\* and when it stops, as has_more is false, it has every message stored so far, for any
\* limit it asks for.  With MySQL a number may be drawn first and stored last.
NothingSkipped ==
    exclusive => \A c \in Convs, u \in Users :
        /\ \A s \in SeqsAfter(c, 0) : s <= cursor[c][u] => s \in received[c][u]
        /\ \A limit \in Limits :
            HasMore(u, c, limit) \/ SeqsAfter(c, 0) \subseteq received[c][u] \cup Page(u, c, limit)

\* With SQLite, and as long as no statement failed and no handler was interrupted, the
\* unread count is the number of stored messages that the user has not read: a receipt for
\* messages that do not exist yet does not hide them when they are sent.  That is what "limit
\* read_up_to_seq to the conversation's current max seq" (msg_service.cpp:421) is for, and it
\* holds unless the receipt met a conversation without messages, whose max_seq of 0 limits
\* nothing: its first messages then count as read although nobody has read them (early).
UnreadExact ==
    exclusive /\ faults = 0 /\ crashes = 0 /\ session = NoWorker =>
        \A c \in Convs, u \in Users : <<c, u>> \notin early =>
            Unread(u, c) = Cardinality(SeqsAfter(c, 0) \ read[c][u])
=============================================================================
