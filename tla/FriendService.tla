--------------------------- MODULE FriendService ---------------------------
(***************************************************************************)
(* server/service/friend_service.cpp with the DAO calls it makes: friend   *)
(* requests, the two friendship rows of a pair, and the private            *)
(* conversation an accepted request creates; GroupService's                *)
(* HandleLeaveGroup, which removes a member of any conversation; and the   *)
(* admin's changes of account status, which the handlers read.             *)
(*                                                                         *)
(* Only SQLite has transactions (DaoFactory's BeginTransaction returns     *)
(* false and MysqlDaoFactory does not override it), so the model is of     *)
(* SQLite, whose session mutex excludes other handlers: a handler is one   *)
(* action.  A request that fails validation changes nothing and is left    *)
(* out.  A conversation's id is its place in members, a request's its      *)
(* place in requests.                                                      *)
(***************************************************************************)
EXTENDS Integers, Sequences, FiniteSets

CONSTANTS
    Users,
    MaxRequests   \* bound: friend requests

ASSUME MaxRequestsAssumption == MaxRequests \in Nat

VARIABLES
    account,     \* account[u]: users.status
    requests,    \* rows of friend_requests: [from, to, status]
    friendship,  \* friendship[<<u, v>>]: u's row about v, [status, conv]
    members,     \* members[c]: rows of conversation_members of conversation c
    parted       \* history: the conversations HandleDeleteFriend has closed

vars == <<account, requests, friendship, members, parted>>

Pairs == {p \in Users \X Users : p[1] # p[2]}
AccountStatus == {"normal", "banned", "deleted"}
RequestStatus == {"pending", "accepted", "rejected"}
FriendshipStatus == {"none", "normal", "blocked", "deleted"}
FriendRequest == [from : Users, to : Users, status : RequestStatus]

NoRow == [status |-> "none", conv |-> 0]

Init ==
    /\ account = [u \in Users |-> "normal"]
    /\ requests = << >>
    /\ friendship = [p \in Pairs |-> NoRow]
    /\ members = << >>
    /\ parted = {}

-----------------------------------------------------------------------------
\* DAO operations

Row(u, v) == friendship[<<u, v>>]

Exists(u, v) == Row(u, v).status # "none"

FindByUid(u) == account[u] # "deleted"

FindPendingRequest(u, v) ==
    \E r \in DOMAIN requests : requests[r] = [from |-> u, to |-> v, status |-> "pending"]

UpdateRequestStatus(r, s) == requests' = [requests EXCEPT ![r].status = s]

\* UPDATE on the rows of set P: no row, no effect.
UpdateFriendshipStatus(P, s) ==
    friendship' = [p \in Pairs |->
        IF p \in P /\ friendship[p].status # "none"
        THEN [friendship[p] EXCEPT !.status = s] ELSE friendship[p]]

-----------------------------------------------------------------------------
\* Handlers

\* Mutant: only requests in the same direction are looked for.
HandleAddFriendOneWay(u, v) ==
    /\ u # v
    /\ account[v] = "normal"
    /\ Row(v, u).status # "blocked"
    /\ Row(u, v).status \notin {"normal", "blocked"}
    /\ ~FindPendingRequest(u, v)
    /\ Len(requests) < MaxRequests
    /\ requests' = Append(requests, [from |-> u, to |-> v, status |-> "pending"])
    /\ UNCHANGED <<account, friendship, members, parted>>

HandleAddFriend(u, v) ==
    /\ u # v
    /\ account[v] = "normal"
    /\ Row(v, u).status # "blocked"
    /\ Row(u, v).status \notin {"normal", "blocked"}
    /\ ~FindPendingRequest(u, v)
    /\ ~FindPendingRequest(v, u)
    /\ Len(requests) < MaxRequests
    /\ requests' = Append(requests, [from |-> u, to |-> v, status |-> "pending"])
    /\ UNCHANGED <<account, friendship, members, parted>>

\* HandleRequest up to the choice of the action.
Answerable(r) ==
    /\ r \in DOMAIN requests
    /\ requests[r].status = "pending"

\* Mutant: an existing row is overwritten.
InsertableOver(r) == r \in DOMAIN requests

\* InsertFriendship for both directions: the table is UNIQUE(user_id, friend_id).
Insertable(r) ==
    /\ ~Exists(requests[r].from, requests[r].to)
    /\ ~Exists(requests[r].to, requests[r].from)

\* The transaction of an accepted request.
AcceptWrites(r) ==
    LET pair == {requests[r].from, requests[r].to} IN
    /\ UpdateRequestStatus(r, "accepted")
    /\ members' = Append(members, pair)
    /\ friendship' = [p \in Pairs |->
        IF {p[1], p[2]} = pair
        THEN [status |-> "normal", conv |-> Len(members) + 1] ELSE friendship[p]]

HandleRequestAccept(r) ==
    /\ Answerable(r)
    /\ account[requests[r].from] = "normal"
    /\ Insertable(r)
    /\ AcceptWrites(r)
    /\ UNCHANGED <<account, parted>>

\* Mutant: no rollback, the statements before the failing InsertFriendship stay.
HandleRequestNoRollback(r) ==
    /\ Answerable(r)
    /\ account[requests[r].from] = "normal"
    /\ UpdateRequestStatus(r, "accepted")
    /\ members' = Append(members, {requests[r].from, requests[r].to})
    /\ UNCHANGED <<account, friendship, parted>>

\* A statement fails, as InsertFriendship does on an existing row: NOVA_DEFER rolls back.
HandleRequestRollback(r) ==
    /\ Answerable(r)
    /\ account[requests[r].from] = "normal"
    /\ UNCHANGED vars

HandleRequestReject(r) ==
    /\ Answerable(r)
    /\ UpdateRequestStatus(r, "rejected")
    /\ UNCHANGED <<account, friendship, members, parted>>

\* Mutant: only the caller leaves the conversation.
HandleDeleteFriendOneSided(u, v) ==
    /\ <<u, v>> \in Pairs
    /\ FindByUid(v)
    /\ Row(u, v).status = "normal"
    /\ UpdateFriendshipStatus({<<u, v>>, <<v, u>>}, "deleted")
    /\ LET conv == Row(u, v).conv IN
       /\ members' = [c \in DOMAIN members |->
            IF c = conv THEN members[c] \ {u} ELSE members[c]]
       /\ parted' = parted \cup {conv}
    /\ UNCHANGED <<account, requests>>

HandleDeleteFriend(u, v) ==
    /\ <<u, v>> \in Pairs
    /\ FindByUid(v)
    /\ Row(u, v).status = "normal"
    /\ UpdateFriendshipStatus({<<u, v>>, <<v, u>>}, "deleted")
    /\ LET conv == Row(u, v).conv IN
       /\ members' = [c \in DOMAIN members |->
            IF c = conv THEN members[c] \ {u, v} ELSE members[c]]
       /\ parted' = parted \cup {conv}
    /\ UNCHANGED <<account, requests>>

HandleBlock(u, v) ==
    /\ <<u, v>> \in Pairs
    /\ FindByUid(v)
    /\ Row(u, v).status # "blocked"
    /\ friendship' = [friendship EXCEPT ![<<u, v>>].status = "blocked"]
    /\ UNCHANGED <<account, requests, members, parted>>

HandleUnblock(u, v) ==
    /\ <<u, v>> \in Pairs
    /\ FindByUid(v)
    /\ Row(u, v).status = "blocked"
    /\ UpdateFriendshipStatus({<<u, v>>}, "deleted")
    /\ UNCHANGED <<account, requests, members, parted>>

\* HandleLeaveGroup looks at the member row only; in a private conversation nobody is owner.
HandleLeaveGroup(u, c) ==
    /\ u \in members[c]
    /\ members' = [members EXCEPT ![c] = @ \ {u}]
    /\ UNCHANGED <<account, requests, friendship, parted>>

\* HandleBanUser, HandleUnbanUser and HandleDeleteUser, which all call UpdateStatus.
UpdateStatus(u, s) ==
    /\ FindByUid(u)
    /\ account' = [account EXCEPT ![u] = s]
    /\ UNCHANGED <<requests, friendship, members, parted>>

Next ==
    \/ \E u, v \in Users : HandleAddFriend(u, v)
    \/ \E r \in DOMAIN requests :
        \/ HandleRequestAccept(r)
        \/ HandleRequestRollback(r)
        \/ HandleRequestReject(r)
    \/ \E u, v \in Users :
        \/ HandleDeleteFriend(u, v)
        \/ HandleBlock(u, v)
        \/ HandleUnblock(u, v)
    \/ \E c \in DOMAIN members : \E u \in Users : HandleLeaveGroup(u, c)
    \/ \E u \in Users : \E s \in AccountStatus : UpdateStatus(u, s)

Spec == Init /\ [][Next]_vars

-----------------------------------------------------------------------------
\* Properties

\* The rows keep their types, and a row's conversation exists.
TypeOK ==
    /\ account \in [Users -> AccountStatus]
    /\ requests \in Seq(FriendRequest)
    /\ friendship \in [Pairs -> [status : FriendshipStatus, conv : Nat]]
    /\ members \in Seq(SUBSET Users)
    /\ parted \subseteq DOMAIN members
    /\ \A p \in Pairs : friendship[p].conv \in 0 .. Len(members)

Accepted(u, v) ==
    {r \in DOMAIN requests : /\ requests[r].status = "accepted"
                             /\ {requests[r].from, requests[r].to} = {u, v}}

\* The three writes of HandleRequest's transaction agree however the pair went on: a request
\* of two users was accepted exactly if both have a row with the same conversation, which is
\* no other pair's and has only the two as members.  How often a pair may accept is left open:
\* here once, since InsertFriendship meets the rows of a deleted friendship, where
\* software_design.md:489 replaces them.
AcceptedAreFriends ==
    \A p \in Pairs :
        LET u == p[1] v == p[2] conv == friendship[p].conv IN
        /\ (Accepted(u, v) # {}) <=> (conv # 0)
        /\ conv # 0 => /\ Exists(u, v) /\ Exists(v, u)
                       /\ Row(v, u).conv = conv
                       /\ members[conv] \subseteq {u, v}
                       /\ \A q \in Pairs : friendship[q].conv = conv => {q[1], q[2]} = {u, v}

\* HandleAddFriend's two FindPendingRequest calls: two users never have two pending requests
\* between them, in either direction, and none while each has the other as a friend.
OnePending ==
    /\ \A r, s \in DOMAIN requests :
        /\ requests[r].status = "pending" /\ requests[s].status = "pending"
        /\ {requests[r].from, requests[r].to} = {requests[s].from, requests[s].to}
        => r = s
    /\ \A p \in Pairs :
        friendship[p].status = "normal" /\ Row(p[2], p[1]).status = "normal"
        => ~FindPendingRequest(p[1], p[2])

\* HandleDeleteFriend's comment "prevent sending messages after the friend is deleted": the
\* conversation of a deleted friendship has no members, whatever the two do later.
PartedCannotTalk == \A c \in parted : members[c] = {}

\* Accepting a request never undoes a block: a request that was pending when its receiver
\* or its sender blocked the other cannot turn the blocked row into a friend's.
BlockSurvivesAccept ==
    [][\A p \in Pairs : friendship[p].status = "blocked"
                        => friendship'[p].status \in {"blocked", "deleted"}]_vars
=============================================================================
