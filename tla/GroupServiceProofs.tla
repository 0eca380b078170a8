------------------------- MODULE GroupServiceProofs -------------------------
(***************************************************************************)
(* Theorems about FriendService, for any set of users and any number of    *)
(* friend requests, and about GroupService composed with it, for any users *)
(* and any bounds.  Both services write conversation_members, and neither  *)
(* looks at the type of a conversation; what keeps them apart is that no   *)
(* friendship row ever names a group's conversation (Separate).            *)
(***************************************************************************)
EXTENDS GroupService, SequenceTheorems, FiniteSetTheorems, TLAPS

-----------------------------------------------------------------------------
\* FriendService

\* Nobody sends a request to himself.
Distinct == \A r \in DOMAIN requests : requests[r].from # requests[r].to

\* A friend's row has a conversation.
NormalHasConv ==
    \A p \in Pairs : friendship[p].status = "normal" => friendship[p].conv # 0

\* The inductive invariant.
IInv ==
    /\ TypeOK
    /\ Distinct
    /\ NormalHasConv
    /\ AcceptedAreFriends
    /\ OnePending
    /\ PartedCannotTalk

-----------------------------------------------------------------------------
\* Pairs

\* Two unordered pairs are equal exactly if their elements are, in one order or the other.
LEMMA SamePair ==
    ASSUME NEW a, NEW b, NEW c, NEW d
    PROVE  ({a, b} = {c, d}) <=> ((a = c /\ b = d) \/ (a = d /\ b = c))
BY Zenon

\* The elements of Pairs are tuples of two different users, and Pairs is symmetric.
LEMMA PairFacts ==
    /\ \A p \in Pairs : /\ p[1] \in Users /\ p[2] \in Users /\ p[1] # p[2]
                        /\ p = <<p[1], p[2]>> /\ <<p[2], p[1]>> \in Pairs
    /\ \A u, v \in Users : u # v => <<u, v>> \in Pairs /\ <<v, u>> \in Pairs
    /\ \A u, v : <<u, v>> \in Pairs => u \in Users /\ v \in Users /\ u # v
BY DEF Pairs

-----------------------------------------------------------------------------
\* Types

\* The empty tables satisfy the invariant.
LEMMA InitOK == Init => IInv
<1> SUFFICES ASSUME Init PROVE IInv
    OBVIOUS
<1> USE DEF Init
<1>1. TypeOK
    BY DEF TypeOK, NoRow, AccountStatus, FriendshipStatus
<1>2. Distinct /\ NormalHasConv /\ PartedCannotTalk
    BY DEF Distinct, NormalHasConv, PartedCannotTalk, NoRow
<1>3. OnePending
    BY DEF OnePending, NoRow
<1>4. AcceptedAreFriends
    BY DEF AcceptedAreFriends, Accepted, NoRow
<1> QED
    BY <1>1, <1>2, <1>3, <1>4 DEF IInv

\* What UPDATE friend_requests does to the rows.
LEMMA RequestsUpdated ==
    ASSUME TypeOK, NEW r \in DOMAIN requests, NEW s \in RequestStatus,
           UpdateRequestStatus(r, s)
    PROVE  /\ requests' \in Seq(FriendRequest)
           /\ DOMAIN requests' = DOMAIN requests
           /\ requests'[r] = [from |-> requests[r].from, to |-> requests[r].to, status |-> s]
           /\ \A q \in DOMAIN requests : q # r => requests'[q] = requests[q]
<1>1. requests[r] \in FriendRequest
    BY DEF TypeOK
<1>2. [requests[r] EXCEPT !.status = s]
        = [from |-> requests[r].from, to |-> requests[r].to, status |-> s]
    BY <1>1 DEF FriendRequest
<1>3. [requests[r] EXCEPT !.status = s] \in FriendRequest
    BY <1>1, <1>2 DEF FriendRequest
<1>4. requests' = [requests EXCEPT ![r] = [requests[r] EXCEPT !.status = s]]
    BY DEF UpdateRequestStatus
<1>5. requests \in Seq(FriendRequest)
    BY DEF TypeOK
<1>6. requests' \in Seq(FriendRequest) /\ DOMAIN requests' = DOMAIN requests
    BY <1>3, <1>4, <1>5, ExceptSeq
<1>7. requests \in [DOMAIN requests -> FriendRequest]
    BY <1>5
<1> QED
    BY <1>2, <1>4, <1>6, <1>7

FriendRow == [status : FriendshipStatus, conv : Nat]

\* What UPDATE friendships does: no conversation changes, nobody becomes a friend.
LEMMA FriendshipUpdated ==
    ASSUME TypeOK, NEW P, NEW s \in {"blocked", "deleted"}, UpdateFriendshipStatus(P, s)
    PROVE  /\ friendship' \in [Pairs -> FriendRow]
           /\ \A p \in Pairs :
                /\ friendship'[p].conv = friendship[p].conv
                /\ friendship'[p].status \in {friendship[p].status, s}
                /\ friendship'[p].status = "none" <=> friendship[p].status = "none"
<1>1. ASSUME NEW p \in Pairs
      PROVE  /\ friendship'[p] \in FriendRow
             /\ friendship'[p].conv = friendship[p].conv
             /\ friendship'[p].status \in {friendship[p].status, s}
             /\ friendship'[p].status = "none" <=> friendship[p].status = "none"
    <2>1. friendship[p] \in FriendRow
        BY DEF TypeOK, FriendRow
    <2>2. \/ friendship'[p] = friendship[p]
          \/ /\ friendship[p].status # "none"
             /\ friendship'[p] = [friendship[p] EXCEPT !.status = s]
        BY DEF UpdateFriendshipStatus
    <2>3. [friendship[p] EXCEPT !.status = s] = [status |-> s, conv |-> friendship[p].conv]
        BY <2>1 DEF FriendRow
    <2> QED
        BY <2>1, <2>2, <2>3 DEF FriendRow, FriendshipStatus
<1>2. friendship' = [p \in Pairs |-> friendship'[p]]
    BY DEF UpdateFriendshipStatus
<1> QED
    BY <1>1, <1>2

\* HandleBlock updates the row or inserts one without a conversation.
LEMMA RowBlocked ==
    ASSUME TypeOK, NEW u \in Users, NEW v \in Users, HandleBlock(u, v)
    PROVE  /\ friendship' \in [Pairs -> FriendRow]
           /\ \A p \in Pairs : /\ friendship'[p].conv = friendship[p].conv
                               /\ friendship'[p].status \in {friendship[p].status, "blocked"}
                               /\ friendship'[p].status = "none" => friendship[p].status = "none"
<1>1. <<u, v>> \in Pairs /\ friendship \in [Pairs -> FriendRow]
    BY DEF HandleBlock, TypeOK, FriendRow
<1>2. friendship[<<u, v>>] \in FriendRow
    BY <1>1
<1>3. [friendship[<<u, v>>] EXCEPT !.status = "blocked"]
        = [status |-> "blocked", conv |-> friendship[<<u, v>>].conv]
    BY <1>2 DEF FriendRow
<1>4. friendship' = [friendship EXCEPT ![<<u, v>>] =
                        [status |-> "blocked", conv |-> friendship[<<u, v>>].conv]]
    BY <1>3 DEF HandleBlock
<1>5. [status |-> "blocked", conv |-> friendship[<<u, v>>].conv] \in FriendRow
    BY <1>2 DEF FriendRow, FriendshipStatus
<1>6. friendship' \in [Pairs -> FriendRow]
    BY <1>1, <1>4, <1>5
<1>7. ASSUME NEW p \in Pairs
      PROVE  /\ friendship'[p].conv = friendship[p].conv
             /\ friendship'[p].status \in {friendship[p].status, "blocked"}
             /\ friendship'[p].status = "none" => friendship[p].status = "none"
    <2>1. CASE p = <<u, v>>
        <3>1. friendship'[p] = [status |-> "blocked", conv |-> friendship[p].conv]
            BY <1>1, <1>4, <2>1
        <3> QED
            BY <3>1
    <2>2. CASE p # <<u, v>>
        <3>1. friendship'[p] = friendship[p]
            BY <1>1, <1>4, <2>2
        <3> QED
            BY <3>1
    <2> QED
        BY <2>1, <2>2
<1> QED
    BY <1>6, <1>7

\* The transaction of an accepted request.
LEMMA RowsInserted ==
    ASSUME TypeOK, NEW r \in DOMAIN requests, HandleRequestAccept(r)
    PROVE  /\ friendship' \in [Pairs -> FriendRow]
           /\ members' \in Seq(SUBSET Users)
           /\ Len(members') = Len(members) + 1
           /\ members'[Len(members) + 1] = {requests[r].from, requests[r].to}
           /\ \A c \in DOMAIN members : members'[c] = members[c]
           /\ \A p \in Pairs :
                friendship'[p] = IF {p[1], p[2]} = {requests[r].from, requests[r].to}
                                 THEN [status |-> "normal", conv |-> Len(members) + 1]
                                 ELSE friendship[p]
<1>1. {requests[r].from, requests[r].to} \in SUBSET Users
    <2>1. requests[r] \in FriendRequest
        BY DEF TypeOK
    <2> QED
        BY <2>1 DEF FriendRequest
<1>2. members \in Seq(SUBSET Users)
    BY DEF TypeOK
<1>3. members' = Append(members, {requests[r].from, requests[r].to})
    BY DEF HandleRequestAccept, AcceptWrites
<1>4. /\ members' \in Seq(SUBSET Users)
      /\ Len(members') = Len(members) + 1
      /\ members'[Len(members) + 1] = {requests[r].from, requests[r].to}
      /\ \A c \in DOMAIN members : members'[c] = members[c]
    BY <1>1, <1>2, <1>3
<1>5. Len(members) + 1 \in Nat
    BY <1>2
<1>6. [status |-> "normal", conv |-> Len(members) + 1] \in FriendRow
    BY <1>5 DEF FriendRow, FriendshipStatus
<1>7. friendship \in [Pairs -> FriendRow]
    BY DEF TypeOK, FriendRow
<1>8. friendship' = [p \in Pairs |->
        IF {p[1], p[2]} = {requests[r].from, requests[r].to}
        THEN [status |-> "normal", conv |-> Len(members) + 1] ELSE friendship[p]]
    BY DEF HandleRequestAccept, AcceptWrites
<1>9. friendship' \in [Pairs -> FriendRow]
    BY <1>6, <1>7, <1>8
<1> QED
    BY <1>4, <1>8, <1>9

\* HandleDeleteFriend and HandleLeaveGroup only take members away.
LEMMA MembersRemoved ==
    ASSUME TypeOK, NormalHasConv,
           \/ \E u, v \in Users : HandleDeleteFriend(u, v)
           \/ \E c \in DOMAIN members : \E u \in Users : HandleLeaveGroup(u, c)
    PROVE  /\ members' \in Seq(SUBSET Users)
           /\ Len(members') = Len(members)
           /\ DOMAIN members' = DOMAIN members
           /\ \A c \in DOMAIN members : members'[c] \subseteq members[c]
<1>0. /\ members \in Seq(SUBSET Users) /\ Len(members) \in Nat
      /\ DOMAIN members = 1 .. Len(members)
      /\ \A c \in DOMAIN members : members[c] \in SUBSET Users
    BY DEF TypeOK
<1>1. ASSUME NEW u \in Users, NEW v \in Users, HandleDeleteFriend(u, v)
      PROVE  /\ DOMAIN members' = DOMAIN members
             /\ members' = [c \in 1 .. Len(members) |-> members'[c]]
             /\ \A c \in DOMAIN members : members'[c] \subseteq members[c]
    BY <1>0, <1>1 DEF HandleDeleteFriend
<1>2. ASSUME NEW c \in DOMAIN members, NEW u \in Users, HandleLeaveGroup(u, c)
      PROVE  /\ DOMAIN members' = DOMAIN members
             /\ members' = [d \in 1 .. Len(members) |-> members'[d]]
             /\ \A d \in DOMAIN members : members'[d] \subseteq members[d]
    BY <1>0, <1>2 DEF HandleLeaveGroup
<1>3. /\ DOMAIN members' = DOMAIN members
      /\ members' = [c \in 1 .. Len(members) |-> members'[c]]
      /\ \A c \in DOMAIN members : members'[c] \subseteq members[c]
    BY <1>1, <1>2
<1>4. \A c \in 1 .. Len(members) : members'[c] \in SUBSET Users
    BY <1>0, <1>3
<1>5. members' \in Seq(SUBSET Users) /\ Len(members') = Len(members)
    BY <1>0, <1>3, <1>4, IsASeq, LenProperties
<1> QED
    BY <1>3, <1>5

\* Every step keeps the types.
LEMMA TypeStep ==
    ASSUME IInv, Next
    PROVE  TypeOK'
<1>0. TypeOK /\ NormalHasConv
    BY DEF IInv
<1>a. /\ account \in [Users -> AccountStatus] /\ requests \in Seq(FriendRequest)
      /\ friendship \in [Pairs -> FriendRow] /\ members \in Seq(SUBSET Users)
      /\ parted \subseteq DOMAIN members
      /\ \A p \in Pairs : friendship[p].conv \in 0 .. Len(members)
    BY <1>0 DEF TypeOK, FriendRow
<1>b. ASSUME account' \in [Users -> AccountStatus], requests' \in Seq(FriendRequest),
             friendship' \in [Pairs -> FriendRow], members' \in Seq(SUBSET Users),
             parted' \subseteq DOMAIN members',
             \A p \in Pairs : friendship'[p].conv \in 0 .. Len(members')
      PROVE  TypeOK'
    BY <1>b DEF TypeOK, FriendRow
<1>1. ASSUME NEW u \in Users, NEW v \in Users, HandleAddFriend(u, v) PROVE TypeOK'
    <2>1. [from |-> u, to |-> v, status |-> "pending"] \in FriendRequest
        BY DEF FriendRequest, RequestStatus
    <2>2. requests' \in Seq(FriendRequest)
        BY <1>a, <1>1, <2>1 DEF HandleAddFriend
    <2> QED
        BY <1>a, <1>b, <1>1, <2>2 DEF HandleAddFriend
<1>2. ASSUME NEW r \in DOMAIN requests, HandleRequestAccept(r) PROVE TypeOK'
    <2>1. requests' \in Seq(FriendRequest)
        BY <1>0, <1>2, RequestsUpdated DEF HandleRequestAccept, AcceptWrites, RequestStatus
    <2>2. /\ friendship' \in [Pairs -> FriendRow] /\ members' \in Seq(SUBSET Users)
          /\ Len(members') = Len(members) + 1
          /\ \A p \in Pairs : \/ friendship'[p] = [status |-> "normal", conv |-> Len(members) + 1]
                              \/ friendship'[p] = friendship[p]
        BY <1>0, <1>2, RowsInserted
    <2>3. \A p \in Pairs : friendship'[p].conv \in 0 .. Len(members')
        BY <1>a, <2>2
    <2>4. parted' \subseteq DOMAIN members' /\ account' = account
        BY <1>a, <1>2, <2>2 DEF HandleRequestAccept
    <2> QED
        BY <1>a, <1>b, <2>1, <2>2, <2>3, <2>4
<1>3. ASSUME NEW r \in DOMAIN requests, HandleRequestRollback(r) PROVE TypeOK'
    BY <1>a, <1>b, <1>3 DEF HandleRequestRollback, vars
<1>4. ASSUME NEW r \in DOMAIN requests, HandleRequestReject(r) PROVE TypeOK'
    <2>1. requests' \in Seq(FriendRequest)
        BY <1>0, <1>4, RequestsUpdated DEF HandleRequestReject, RequestStatus
    <2> QED
        BY <1>a, <1>b, <1>4, <2>1 DEF HandleRequestReject
<1>5. ASSUME NEW u \in Users, NEW v \in Users, HandleDeleteFriend(u, v) PROVE TypeOK'
    <2>1. /\ friendship' \in [Pairs -> FriendRow]
          /\ \A p \in Pairs : friendship'[p].conv = friendship[p].conv
        BY <1>0, <1>5, FriendshipUpdated DEF HandleDeleteFriend
    <2>2. /\ members' \in Seq(SUBSET Users) /\ Len(members') = Len(members)
          /\ DOMAIN members' = DOMAIN members
        BY <1>0, <1>5, MembersRemoved
    <2>3. Row(u, v).conv \in DOMAIN members
        BY <1>a, <1>0, <1>5 DEF HandleDeleteFriend, Row, NormalHasConv
    <2>4. parted' \subseteq DOMAIN members' /\ account' = account /\ requests' = requests
        BY <1>a, <1>5, <2>2, <2>3 DEF HandleDeleteFriend
    <2> QED
        BY <1>a, <1>b, <2>1, <2>2, <2>4
<1>6. ASSUME NEW u \in Users, NEW v \in Users, HandleBlock(u, v) PROVE TypeOK'
    BY <1>0, <1>a, <1>b, <1>6, RowBlocked DEF HandleBlock
<1>7. ASSUME NEW u \in Users, NEW v \in Users, HandleUnblock(u, v) PROVE TypeOK'
    BY <1>0, <1>a, <1>b, <1>7, FriendshipUpdated DEF HandleUnblock
<1>8. ASSUME NEW c \in DOMAIN members, NEW u \in Users, HandleLeaveGroup(u, c) PROVE TypeOK'
    <2>1. /\ members' \in Seq(SUBSET Users) /\ Len(members') = Len(members)
          /\ DOMAIN members' = DOMAIN members
        BY <1>0, <1>8, MembersRemoved
    <2> QED
        BY <1>a, <1>b, <1>8, <2>1 DEF HandleLeaveGroup
<1>9. ASSUME NEW u \in Users, NEW s \in AccountStatus, UpdateStatus(u, s) PROVE TypeOK'
    BY <1>a, <1>b, <1>9 DEF UpdateStatus
<1> QED
    BY <1>1, <1>2, <1>3, <1>4, <1>5, <1>6, <1>7, <1>8, <1>9 DEF Next

-----------------------------------------------------------------------------
\* What a step does to the rows, as the invariants need it

\* Requests only gain rows and change status: Distinct is kept.
LEMMA DistinctStep ==
    ASSUME IInv, Next
    PROVE  Distinct'
<1>0. TypeOK /\ Distinct
    BY DEF IInv
<1>1. ASSUME NEW u \in Users, NEW v \in Users, HandleAddFriend(u, v) PROVE Distinct'
    <2>1. requests \in Seq(FriendRequest)
        BY <1>0 DEF TypeOK
    <2>2. \A q \in DOMAIN requests' :
            \/ q \in DOMAIN requests /\ requests'[q] = requests[q]
            \/ requests'[q] = [from |-> u, to |-> v, status |-> "pending"]
        BY <1>1, <2>1 DEF HandleAddFriend
    <2>3. u # v
        BY <1>1 DEF HandleAddFriend
    <2> QED
        BY <1>0, <2>2, <2>3 DEF Distinct
<1>2. ASSUME NEW r \in DOMAIN requests, NEW s \in RequestStatus, UpdateRequestStatus(r, s)
      PROVE  Distinct'
    <2>1. /\ DOMAIN requests' = DOMAIN requests
          /\ requests'[r] = [from |-> requests[r].from, to |-> requests[r].to, status |-> s]
          /\ \A q \in DOMAIN requests : q # r => requests'[q] = requests[q]
        BY <1>0, <1>2, RequestsUpdated
    <2> QED
        BY <1>0, <2>1 DEF Distinct
<1>3. ASSUME requests' = requests PROVE Distinct'
    BY <1>0, <1>3 DEF Distinct
<1>4. ASSUME NEW r \in DOMAIN requests, HandleRequestAccept(r) \/ HandleRequestReject(r)
      PROVE  Distinct'
    BY <1>2, <1>4 DEF HandleRequestAccept, HandleRequestReject, AcceptWrites, RequestStatus
<1>5. ASSUME NEW u \in Users, NEW v \in Users,
             HandleDeleteFriend(u, v) \/ HandleBlock(u, v) \/ HandleUnblock(u, v)
      PROVE  Distinct'
    BY <1>3, <1>5 DEF HandleDeleteFriend, HandleBlock, HandleUnblock
<1>6. ASSUME NEW c \in DOMAIN members, NEW u \in Users, HandleLeaveGroup(u, c) PROVE Distinct'
    BY <1>3, <1>6 DEF HandleLeaveGroup
<1>7. ASSUME NEW u \in Users, NEW s \in AccountStatus, UpdateStatus(u, s) PROVE Distinct'
    BY <1>3, <1>7 DEF UpdateStatus
<1>8. ASSUME NEW r \in DOMAIN requests, HandleRequestRollback(r) PROVE Distinct'
    BY <1>3, <1>8 DEF HandleRequestRollback, vars
<1> QED
    BY <1>1, <1>4, <1>5, <1>6, <1>7, <1>8 DEF Next

\* Every step but an accepted request keeps the rows' conversations, creates no
\* friend, removes no row and no member.  Requests are unchanged, or one is added
\* or rejected.
RowsKept ==
    \A p \in Pairs :
        /\ friendship'[p].conv = friendship[p].conv
        /\ friendship'[p].status = "normal" => friendship[p].status = "normal"
        /\ friendship'[p].status = "none" => friendship[p].status = "none"

MembersKept ==
    /\ DOMAIN members' = DOMAIN members
    /\ \A c \in DOMAIN members : members'[c] \subseteq members[c]

RequestAdded(u, v) ==
    /\ DOMAIN requests' = DOMAIN requests \cup {Len(requests) + 1}
    /\ Len(requests) + 1 \notin DOMAIN requests
    /\ requests'[Len(requests) + 1] = [from |-> u, to |-> v, status |-> "pending"]
    /\ \A q \in DOMAIN requests : requests'[q] = requests[q]

RequestAnswered(r, s) ==
    /\ DOMAIN requests' = DOMAIN requests
    /\ requests'[r] = [from |-> requests[r].from, to |-> requests[r].to, status |-> s]
    /\ \A q \in DOMAIN requests : q # r => requests'[q] = requests[q]

\* What the steps other than an accepted request leave alone.
LEMMA OtherStep ==
    ASSUME IInv, Next, \A r \in DOMAIN requests : ~HandleRequestAccept(r)
    PROVE  /\ RowsKept
           /\ MembersKept
           /\ \/ requests' = requests
              \/ \E u, v \in Users : HandleAddFriend(u, v) /\ RequestAdded(u, v)
              \/ \E r \in DOMAIN requests : HandleRequestReject(r) /\ RequestAnswered(r, "rejected")
<1>0. TypeOK /\ NormalHasConv
    BY DEF IInv
<1>1. ASSUME NEW u \in Users, NEW v \in Users, HandleAddFriend(u, v)
      PROVE  RowsKept /\ MembersKept /\ RequestAdded(u, v)
    <2>1. requests \in Seq(FriendRequest)
        BY <1>0 DEF TypeOK
    <2>2. requests' = Append(requests, [from |-> u, to |-> v, status |-> "pending"])
        BY <1>1 DEF HandleAddFriend
    <2>3. RequestAdded(u, v)
        BY <2>1, <2>2 DEF RequestAdded
    <2> QED
        BY <1>1, <2>3 DEF HandleAddFriend, RowsKept, MembersKept
<1>2. ASSUME NEW r \in DOMAIN requests, HandleRequestRollback(r)
      PROVE  RowsKept /\ MembersKept /\ requests' = requests
    BY <1>2 DEF HandleRequestRollback, vars, RowsKept, MembersKept
<1>3. ASSUME NEW r \in DOMAIN requests, HandleRequestReject(r)
      PROVE  RowsKept /\ MembersKept /\ RequestAnswered(r, "rejected")
    <2>1. RequestAnswered(r, "rejected")
        BY <1>0, <1>3, RequestsUpdated DEF HandleRequestReject, RequestAnswered, RequestStatus
    <2> QED
        BY <1>3, <2>1 DEF HandleRequestReject, RowsKept, MembersKept
<1>4. ASSUME NEW u \in Users, NEW v \in Users, HandleDeleteFriend(u, v)
      PROVE  RowsKept /\ MembersKept /\ requests' = requests
    <2>1. RowsKept
        BY <1>0, <1>4, FriendshipUpdated DEF HandleDeleteFriend, RowsKept
    <2>2. MembersKept
        BY <1>0, <1>4, MembersRemoved DEF MembersKept
    <2> QED
        BY <1>4, <2>1, <2>2 DEF HandleDeleteFriend
<1>5. ASSUME NEW u \in Users, NEW v \in Users, HandleBlock(u, v)
      PROVE  RowsKept /\ MembersKept /\ requests' = requests
    <2>1. RowsKept
        BY <1>0, <1>5, RowBlocked DEF RowsKept
    <2> QED
        BY <1>5, <2>1 DEF HandleBlock, MembersKept
<1>6. ASSUME NEW u \in Users, NEW v \in Users, HandleUnblock(u, v)
      PROVE  RowsKept /\ MembersKept /\ requests' = requests
    <2>1. RowsKept
        BY <1>0, <1>6, FriendshipUpdated DEF HandleUnblock, RowsKept
    <2> QED
        BY <1>6, <2>1 DEF HandleUnblock, MembersKept
<1>7. ASSUME NEW c \in DOMAIN members, NEW u \in Users, HandleLeaveGroup(u, c)
      PROVE  RowsKept /\ MembersKept /\ requests' = requests
    <2>1. MembersKept
        BY <1>0, <1>7, MembersRemoved DEF MembersKept
    <2> QED
        BY <1>7, <2>1 DEF HandleLeaveGroup, RowsKept
<1>8. ASSUME NEW u \in Users, NEW s \in AccountStatus, UpdateStatus(u, s)
      PROVE  RowsKept /\ MembersKept /\ requests' = requests
    BY <1>8 DEF UpdateStatus, RowsKept, MembersKept
<1> QED
    BY <1>1, <1>2, <1>3, <1>4, <1>5, <1>6, <1>7, <1>8 DEF Next

\* What an accepted request does, in terms of its two users.
LEMMA AcceptStep ==
    ASSUME IInv, NEW r \in DOMAIN requests, HandleRequestAccept(r)
    PROVE  /\ <<requests[r].from, requests[r].to>> \in Pairs
           /\ requests[r].status = "pending"
           /\ RequestAnswered(r, "accepted")
           /\ \A p \in Pairs :
                IF {p[1], p[2]} = {requests[r].from, requests[r].to}
                THEN /\ friendship[p].status = "none" /\ friendship[p].conv = 0
                     /\ friendship'[p] = [status |-> "normal", conv |-> Len(members) + 1]
                ELSE friendship'[p] = friendship[p]
           /\ Len(members) \in Nat
           /\ DOMAIN members = 1 .. Len(members)
           /\ DOMAIN members' = 1 .. (Len(members) + 1)
           /\ members'[Len(members) + 1] = {requests[r].from, requests[r].to}
           /\ \A c \in DOMAIN members : members'[c] = members[c]
<1> DEFINE a == requests[r].from
           b == requests[r].to
<1>0. TypeOK /\ Distinct /\ AcceptedAreFriends
    BY DEF IInv
<1>1. a \in Users /\ b \in Users /\ a # b
    <2>1. requests[r] \in FriendRequest
        BY <1>0 DEF TypeOK
    <2> QED
        BY <1>0, <2>1 DEF FriendRequest, Distinct
<1>2. <<a, b>> \in Pairs /\ <<b, a>> \in Pairs
    BY <1>1, PairFacts
<1>3. RequestAnswered(r, "accepted")
    BY <1>0, RequestsUpdated DEF HandleRequestAccept, AcceptWrites, RequestAnswered, RequestStatus
<1>4. friendship[<<a, b>>].status = "none" /\ friendship[<<b, a>>].status = "none"
    BY DEF HandleRequestAccept, Insertable, Exists, Row
<1>5. \A p \in Pairs : {p[1], p[2]} = {a, b} => p = <<a, b>> \/ p = <<b, a>>
    <2> SUFFICES ASSUME NEW p \in Pairs, {p[1], p[2]} = {a, b}
                 PROVE  p = <<a, b>> \/ p = <<b, a>>
        OBVIOUS
    <2> HIDE DEF a, b
    <2>1. (p[1] = a /\ p[2] = b) \/ (p[1] = b /\ p[2] = a)
        BY SamePair
    <2>2. p = <<p[1], p[2]>>
        BY PairFacts
    <2> QED
        BY <2>1, <2>2
<1>6. \A p \in Pairs : friendship[p].status = "none" => friendship[p].conv = 0
    <2> SUFFICES ASSUME NEW p \in Pairs, friendship[p].conv # 0
                 PROVE  friendship[p].status # "none"
        OBVIOUS
    <2>1. friendship[<<p[1], p[2]>>].status # "none"
        BY <1>0 DEF AcceptedAreFriends, Exists, Row
    <2> QED
        BY <2>1, PairFacts
<1>7. \A p \in Pairs : {p[1], p[2]} = {a, b}
                       => friendship[p].status = "none" /\ friendship[p].conv = 0
    BY <1>4, <1>5, <1>6
<1>8. Len(members) \in Nat /\ DOMAIN members = 1 .. Len(members)
    BY <1>0 DEF TypeOK
<1>9. /\ members' \in Seq(SUBSET Users)
      /\ Len(members') = Len(members) + 1
      /\ members'[Len(members) + 1] = {a, b}
      /\ \A c \in DOMAIN members : members'[c] = members[c]
      /\ \A p \in Pairs : friendship'[p] = IF {p[1], p[2]} = {a, b}
                                           THEN [status |-> "normal", conv |-> Len(members) + 1]
                                           ELSE friendship[p]
    BY <1>0, RowsInserted
<1>10. DOMAIN members' = 1 .. (Len(members) + 1)
    BY <1>8, <1>9
<1>11. requests[r].status = "pending"
    BY DEF HandleRequestAccept, Answerable
<1> QED
    BY <1>2, <1>3, <1>7, <1>8, <1>9, <1>10, <1>11

\* Only an accepted request makes a friend's row, and it writes the conversation into it.
LEMMA NormalHasConvStep ==
    ASSUME IInv, Next
    PROVE  NormalHasConv'
<1>1. ASSUME NEW r \in DOMAIN requests, HandleRequestAccept(r) PROVE NormalHasConv'
    <2>1. ASSUME NEW p \in Pairs, friendship'[p].status = "normal"
          PROVE  friendship'[p].conv # 0
        <3>1. /\ Len(members) \in Nat
              /\ \/ friendship'[p] = [status |-> "normal", conv |-> Len(members) + 1]
                 \/ friendship'[p] = friendship[p]
            BY <1>1, AcceptStep
        <3>2. friendship[p].status = "normal" => friendship[p].conv # 0
            BY DEF IInv, NormalHasConv
        <3> QED
            BY <2>1, <3>1, <3>2
    <2> QED
        BY <2>1 DEF NormalHasConv
<1>2. CASE \A r \in DOMAIN requests : ~HandleRequestAccept(r)
    BY <1>2, OtherStep DEF IInv, NormalHasConv, RowsKept
<1> QED
    BY <1>1, <1>2

\* HandleDeleteFriend removes the only two members a private conversation can have.
LEMMA PartedStep ==
    ASSUME IInv, Next
    PROVE  PartedCannotTalk'
<1>0. /\ TypeOK /\ NormalHasConv /\ AcceptedAreFriends /\ PartedCannotTalk
      /\ parted \subseteq DOMAIN members
    BY DEF IInv, TypeOK
<1>1. ASSUME NEW r \in DOMAIN requests, HandleRequestAccept(r) PROVE PartedCannotTalk'
    <2>1. parted' = parted
        BY <1>1 DEF HandleRequestAccept
    <2> QED
        BY <1>0, <1>1, <2>1, AcceptStep DEF PartedCannotTalk
<1>2. ASSUME NEW u \in Users, NEW v \in Users, HandleDeleteFriend(u, v) PROVE PartedCannotTalk'
    <2> DEFINE conv == Row(u, v).conv
    <2>1. <<u, v>> \in Pairs /\ friendship[<<u, v>>].status = "normal"
        BY <1>2 DEF HandleDeleteFriend, Row
    <2>2. conv # 0
        BY <1>0, <2>1 DEF NormalHasConv, Row
    <2>3. members[conv] \subseteq {u, v}
        BY <1>0, <2>1, <2>2 DEF AcceptedAreFriends, Row
    <2>4. conv \in DOMAIN members
        BY <1>0, <2>1, <2>2 DEF TypeOK, Row
    <2>5. /\ members' = [c \in DOMAIN members |->
                IF c = conv THEN members[c] \ {u, v} ELSE members[c]]
          /\ parted' = parted \cup {conv}
        BY <1>2 DEF HandleDeleteFriend
    <2>6. members'[conv] = {}
        BY <2>3, <2>4, <2>5
    <2>7. \A c \in parted : members'[c] = {}
        BY <1>0, <2>5 DEF PartedCannotTalk
    <2> QED
        BY <2>5, <2>6, <2>7 DEF PartedCannotTalk
<1>3. CASE /\ \A r \in DOMAIN requests : ~HandleRequestAccept(r)
           /\ \A u, v \in Users : ~HandleDeleteFriend(u, v)
    <2>1. parted' = parted
        BY <1>3 DEF Next, HandleAddFriend, HandleRequestRollback, HandleRequestReject,
                    HandleBlock, HandleUnblock, HandleLeaveGroup, UpdateStatus, vars
    <2>2. MembersKept
        BY <1>3, OtherStep
    <2> QED
        BY <1>0, <2>1, <2>2 DEF PartedCannotTalk, MembersKept
<1> QED
    BY <1>1, <1>2, <1>3

\* Both conjuncts of OnePending by the step.
LEMMA OnePendingStep ==
    ASSUME IInv, Next
    PROVE  OnePending'
<1> DEFINE Between(q, u, v) == {requests[q].from, requests[q].to} = {u, v}
           Open(q) == requests[q].status = "pending"
<1>0. /\ TypeOK /\ OnePending
      /\ \A q \in DOMAIN requests : requests[q] \in FriendRequest
    BY DEF IInv, TypeOK
<1>1. \A q, s \in DOMAIN requests :
        Open(q) /\ Open(s) /\ Between(q, requests[s].from, requests[s].to) => q = s
    BY <1>0 DEF OnePending
<1>2. \A q \in DOMAIN requests : \A p \in Pairs :
        /\ Open(q) /\ Between(q, p[1], p[2])
        => ~(friendship[p].status = "normal" /\ friendship[<<p[2], p[1]>>].status = "normal")
    <2> SUFFICES ASSUME NEW q \in DOMAIN requests, NEW p \in Pairs,
                        Open(q), Between(q, p[1], p[2]),
                        friendship[p].status = "normal",
                        friendship[<<p[2], p[1]>>].status = "normal"
                 PROVE  FALSE
        OBVIOUS
    <2>1. /\ p = <<p[1], p[2]>> /\ <<p[2], p[1]>> \in Pairs
          /\ <<p[2], p[1]>>[1] = p[2] /\ <<p[2], p[1]>>[2] = p[1]
        BY PairFacts
    <2>2. ~FindPendingRequest(p[1], p[2]) /\ ~FindPendingRequest(p[2], p[1])
        BY <1>0, <2>1 DEF OnePending, Row
    <2>3. requests[q] = [from |-> requests[q].from, to |-> requests[q].to, status |-> "pending"]
        BY <1>0 DEF FriendRequest
    <2>4. \/ requests[q].from = p[1] /\ requests[q].to = p[2]
          \/ requests[q].from = p[2] /\ requests[q].to = p[1]
        BY SamePair
    <2> QED
        BY <2>2, <2>3, <2>4 DEF FindPendingRequest
<1>3. ASSUME \A q, s \in DOMAIN requests' : Open(q)' /\ Open(s)'
                /\ {requests'[q].from, requests'[q].to} = {requests'[s].from, requests'[s].to}
                => q = s,
             \A p \in Pairs : \A q \in DOMAIN requests' :
                /\ friendship'[p].status = "normal" /\ friendship'[<<p[2], p[1]>>].status = "normal"
                => requests'[q] # [from |-> p[1], to |-> p[2], status |-> "pending"]
      PROVE  OnePending'
    BY <1>3 DEF OnePending, FindPendingRequest, Row
<1>4. ASSUME NEW r \in DOMAIN requests, NEW s \in {"accepted", "rejected"}, RequestAnswered(r, s)
      PROVE  \A q \in DOMAIN requests' : /\ q \in DOMAIN requests
                                         /\ Open(q)' => q # r /\ requests'[q] = requests[q]
    BY <1>4 DEF RequestAnswered
<1>5. ASSUME NEW r \in DOMAIN requests, HandleRequestAccept(r) PROVE OnePending'
    <2>1. /\ RequestAnswered(r, "accepted") /\ Open(r)
          /\ \A p \in Pairs : {p[1], p[2]} # {requests[r].from, requests[r].to}
                              => friendship'[p] = friendship[p]
        BY <1>5, AcceptStep
    <2>2. \A q \in DOMAIN requests' : /\ q \in DOMAIN requests
                                      /\ Open(q)' => q # r /\ requests'[q] = requests[q]
        BY <1>4, <2>1
    <2>3. \A q, s \in DOMAIN requests' : Open(q)' /\ Open(s)'
                /\ {requests'[q].from, requests'[q].to} = {requests'[s].from, requests'[s].to}
                => q = s
        BY <1>1, <2>2
    <2>4. ASSUME NEW p \in Pairs, NEW q \in DOMAIN requests',
                 friendship'[p].status = "normal", friendship'[<<p[2], p[1]>>].status = "normal",
                 requests'[q] = [from |-> p[1], to |-> p[2], status |-> "pending"]
          PROVE  FALSE
        <3>1. q # r /\ q \in DOMAIN requests /\ Open(q) /\ Between(q, p[1], p[2])
            BY <2>2, <2>4
        <3>2. {p[1], p[2]} # {requests[r].from, requests[r].to}
            BY <1>1, <2>1, <3>1
        <3>3. /\ <<p[2], p[1]>> \in Pairs
              /\ {<<p[2], p[1]>>[1], <<p[2], p[1]>>[2]} = {p[1], p[2]}
            BY PairFacts
        <3>4. /\ friendship'[p] = friendship[p]
              /\ friendship'[<<p[2], p[1]>>] = friendship[<<p[2], p[1]>>]
            BY <2>1, <3>2, <3>3
        <3> QED
            BY <1>2, <2>4, <3>1, <3>4
    <2> QED
        BY <1>3, <2>3, <2>4
<1>6. CASE \A r \in DOMAIN requests : ~HandleRequestAccept(r)
    <2>1. RowsKept
        BY <1>6, OtherStep
    <2>2. \A p \in Pairs : /\ friendship'[p].status = "normal" => friendship[p].status = "normal"
                           /\ friendship'[<<p[2], p[1]>>].status = "normal"
                              => friendship[<<p[2], p[1]>>].status = "normal"
        BY <2>1, PairFacts DEF RowsKept
    <2>3. ASSUME \A q \in DOMAIN requests' : /\ q \in DOMAIN requests
                                             /\ Open(q)' => requests'[q] = requests[q]
          PROVE  OnePending'
        <3>1. \A q, s \in DOMAIN requests' : Open(q)' /\ Open(s)'
                /\ {requests'[q].from, requests'[q].to} = {requests'[s].from, requests'[s].to}
                => q = s
            BY <1>1, <2>3
        <3>2. ASSUME NEW p \in Pairs, NEW q \in DOMAIN requests',
                     friendship'[p].status = "normal", friendship'[<<p[2], p[1]>>].status = "normal",
                     requests'[q] = [from |-> p[1], to |-> p[2], status |-> "pending"]
              PROVE  FALSE
            <4>1. q \in DOMAIN requests /\ Open(q) /\ Between(q, p[1], p[2])
                BY <2>3, <3>2
            <4> QED
                BY <1>2, <2>2, <3>2, <4>1
        <3> QED
            BY <1>3, <3>1, <3>2
    <2>4. CASE requests' = requests
        BY <2>3, <2>4
    <2>5. ASSUME NEW r \in DOMAIN requests, RequestAnswered(r, "rejected") PROVE OnePending'
        BY <1>4, <2>3, <2>5
    <2>6. ASSUME NEW u \in Users, NEW v \in Users, HandleAddFriend(u, v), RequestAdded(u, v)
          PROVE  OnePending'
        <3> DEFINE n == Len(requests) + 1
        <3>1. /\ ~FindPendingRequest(u, v) /\ ~FindPendingRequest(v, u)
              /\ friendship[<<u, v>>].status # "normal" /\ u # v
            BY <2>6 DEF HandleAddFriend, Row
        <3>2. ASSUME NEW q \in DOMAIN requests, Open(q) PROVE ~Between(q, u, v)
            <4>1. requests[q] = [from |-> requests[q].from, to |-> requests[q].to,
                                 status |-> "pending"]
                BY <1>0, <3>2 DEF FriendRequest
            <4>2. Between(q, u, v) => \/ requests[q].from = u /\ requests[q].to = v
                                      \/ requests[q].from = v /\ requests[q].to = u
                BY SamePair
            <4> QED
                BY <3>1, <4>1, <4>2 DEF FindPendingRequest
        <3>3. \A q \in DOMAIN requests' :
                \/ q \in DOMAIN requests /\ requests'[q] = requests[q]
                \/ q = n /\ requests'[q] = [from |-> u, to |-> v, status |-> "pending"]
            BY <2>6 DEF RequestAdded
        <3>4. \A q, s \in DOMAIN requests' : Open(q)' /\ Open(s)'
                /\ {requests'[q].from, requests'[q].to} = {requests'[s].from, requests'[s].to}
                => q = s
            <4> SUFFICES ASSUME NEW q \in DOMAIN requests', NEW s \in DOMAIN requests',
                                Open(q)', Open(s)',
                                {requests'[q].from, requests'[q].to}
                                    = {requests'[s].from, requests'[s].to}
                         PROVE  q = s
                OBVIOUS
            <4>1. CASE q \in DOMAIN requests /\ s \in DOMAIN requests
                            /\ requests'[q] = requests[q] /\ requests'[s] = requests[s]
                BY <1>1, <4>1
            <4>2. CASE q \in DOMAIN requests /\ requests'[q] = requests[q] /\ s = n
                            /\ requests'[s] = [from |-> u, to |-> v, status |-> "pending"]
                BY <3>2, <4>2
            <4>3. CASE s \in DOMAIN requests /\ requests'[s] = requests[s] /\ q = n
                            /\ requests'[q] = [from |-> u, to |-> v, status |-> "pending"]
                <5>1. Open(s) /\ Between(s, u, v)
                    BY <4>3
                <5> QED
                    BY <3>2, <4>3, <5>1
            <4> QED
                BY <3>3, <4>1, <4>2, <4>3
        <3>5. ASSUME NEW p \in Pairs, NEW q \in DOMAIN requests',
                     friendship'[p].status = "normal", friendship'[<<p[2], p[1]>>].status = "normal",
                     requests'[q] = [from |-> p[1], to |-> p[2], status |-> "pending"]
              PROVE  FALSE
            <4>1. CASE q \in DOMAIN requests /\ requests'[q] = requests[q]
                <5>1. Open(q) /\ Between(q, p[1], p[2])
                    BY <3>5, <4>1
                <5> QED
                    BY <1>2, <2>2, <3>5, <4>1, <5>1
            <4>2. CASE requests'[q] = [from |-> u, to |-> v, status |-> "pending"]
                <5>1. p = <<u, v>>
                    BY <3>5, <4>2, PairFacts
                <5> QED
                    BY <2>2, <3>1, <3>5, <5>1
            <4> QED
                BY <3>3, <4>1, <4>2
        <3> QED
            BY <1>3, <3>4, <3>5
    <2> QED
        BY <1>6, <2>4, <2>5, <2>6, OtherStep
<1> QED
    BY <1>5, <1>6

\* AcceptedAreFriends, one conjunct after the other.
LEMMA AcceptedStep ==
    ASSUME IInv, Next
    PROVE  AcceptedAreFriends'
<1>0. /\ TypeOK /\ AcceptedAreFriends
      /\ Len(members) \in Nat /\ DOMAIN members = 1 .. Len(members)
      /\ \A p \in Pairs : friendship[p].conv \in 0 .. Len(members)
    BY DEF IInv, TypeOK
<1>1. ASSUME NEW r \in DOMAIN requests, HandleRequestAccept(r) PROVE AcceptedAreFriends'
    <2> DEFINE a == requests[r].from
               b == requests[r].to
               n == Len(members) + 1
    <2>1. /\ <<a, b>> \in Pairs
          /\ requests[r].status = "pending"
          /\ DOMAIN requests' = DOMAIN requests
          /\ requests'[r] = [from |-> a, to |-> b, status |-> "accepted"]
          /\ \A q \in DOMAIN requests : q # r => requests'[q] = requests[q]
        BY <1>1, AcceptStep DEF RequestAnswered
    <2>2. \A p \in Pairs :
            /\ {p[1], p[2]} = {a, b} => /\ friendship[p].conv = 0
                                        /\ friendship'[p] = [status |-> "normal", conv |-> n]
            /\ {p[1], p[2]} # {a, b} => friendship'[p] = friendship[p]
        BY <1>1, AcceptStep
    <2>3. /\ members'[n] = {a, b}
          /\ \A c \in DOMAIN members : members'[c] = members[c]
        BY <1>1, AcceptStep
    <2> HIDE DEF a, b
    <2>4. ASSUME NEW u, NEW v
          PROVE  /\ {u, v} = {a, b} => Accepted(u, v)' = Accepted(u, v) \cup {r}
                 /\ {u, v} # {a, b} => Accepted(u, v)' = Accepted(u, v)
        <3>1. ASSUME NEW q \in DOMAIN requests
              PROVE  q \in Accepted(u, v)' <=> q \in Accepted(u, v) \/ (q = r /\ {u, v} = {a, b})
            <4>1. CASE q = r
                BY <2>1, <4>1 DEF Accepted, a, b
            <4>2. CASE q # r
                BY <2>1, <4>2 DEF Accepted
            <4> QED
                BY <4>1, <4>2
        <3>2. Accepted(u, v) \subseteq DOMAIN requests /\ Accepted(u, v)' \subseteq DOMAIN requests
            BY <2>1 DEF Accepted
        <3> QED
            BY <3>1, <3>2
    <2>5. ASSUME NEW p \in Pairs
          PROVE  LET u == p[1] v == p[2] conv == friendship'[p].conv IN
                 /\ (Accepted(u, v)' # {}) <=> (conv # 0)
                 /\ conv # 0 => /\ friendship'[<<u, v>>].status # "none"
                                /\ friendship'[<<v, u>>].status # "none"
                                /\ friendship'[<<v, u>>].conv = conv
                                /\ members'[conv] \subseteq {u, v}
                                /\ \A q \in Pairs : friendship'[q].conv = conv
                                                    => {q[1], q[2]} = {u, v}
        <3> DEFINE u == p[1]
                   v == p[2]
                   conv == friendship[p].conv
        <3>1. /\ <<u, v>> = p /\ <<v, u>> \in Pairs
              /\ <<v, u>>[1] = v /\ <<v, u>>[2] = u
            BY PairFacts
        <3>2. /\ (Accepted(u, v) # {}) <=> (conv # 0)
              /\ conv # 0 => /\ friendship[<<u, v>>].status # "none"
                             /\ friendship[<<v, u>>].status # "none"
                             /\ friendship[<<v, u>>].conv = conv
                             /\ members[conv] \subseteq {u, v}
                             /\ \A q \in Pairs : friendship[q].conv = conv
                                                 => {q[1], q[2]} = {u, v}
            BY <1>0 DEF AcceptedAreFriends, Exists, Row
        <3> HIDE DEF u, v, conv
        <3>3. CASE {u, v} = {a, b}
            <4>1. {<<v, u>>[1], <<v, u>>[2]} = {a, b}
                BY <3>1, <3>3
            <4>2. conv = 0 /\ friendship'[p] = [status |-> "normal", conv |-> n]
                BY <2>2, <3>3 DEF u, v, conv
            <4>3. friendship'[<<v, u>>] = [status |-> "normal", conv |-> n]
                BY <2>2, <3>1, <4>1
            <4>4. n # 0 /\ members'[n] \subseteq {u, v}
                <5>1. n # 0
                    BY <1>0
                <5>2. members'[n] = {u, v}
                    BY <2>3, <3>3, Zenon
                <5> QED
                    BY <5>1, <5>2
            <4>5. ASSUME NEW q \in Pairs, friendship'[q].conv = n PROVE {q[1], q[2]} = {u, v}
                <5>1. friendship[q].conv # n
                    BY <1>0
                <5> QED
                    BY <2>2, <3>3, <4>5, <5>1
            <4>6. r \in Accepted(u, v)'
                BY <2>4, <3>3
            <4> QED
                <5>1. /\ friendship'[p].conv = n /\ friendship'[<<v, u>>].conv = n
                      /\ friendship'[p].status # "none" /\ friendship'[<<v, u>>].status # "none"
                    BY <4>2, <4>3
                <5>2. Accepted(u, v)' # {}
                    BY <4>6
                <5> HIDE DEF n
                <5> QED
                    BY <3>1, <4>4, <4>5, <5>1, <5>2, Zenon DEF u, v
        <3>4. CASE {u, v} # {a, b}
            <4>1. {<<v, u>>[1], <<v, u>>[2]} # {a, b}
                BY <3>1, <3>4
            <4>2. friendship'[p] = friendship[p] /\ friendship'[<<v, u>>] = friendship[<<v, u>>]
                BY <2>2, <3>1, <3>4, <4>1 DEF u, v
            <4>3. Accepted(u, v)' = Accepted(u, v)
                BY <2>4, <3>4
            <4>4. conv # 0 => conv \in DOMAIN members /\ conv # n
                BY <1>0 DEF conv
            <4>5. conv # 0 => members'[conv] = members[conv]
                BY <2>3, <4>4
            <4>6. ASSUME NEW q \in Pairs, conv # 0, friendship'[q].conv = conv
                  PROVE  {q[1], q[2]} = {u, v}
                <5>1. CASE {q[1], q[2]} = {a, b}
                    <6>1. friendship'[q] = [status |-> "normal", conv |-> n]
                        BY <2>2, <5>1
                    <6> QED
                        BY <4>4, <4>6, <6>1
                <5>2. CASE {q[1], q[2]} # {a, b}
                    <6>1. friendship[q].conv = conv
                        BY <2>2, <4>6, <5>2
                    <6> QED
                        BY <3>2, <4>6, <6>1
                <5> QED
                    BY <5>1, <5>2
            <4> QED
                BY <3>1, <3>2, <4>2, <4>3, <4>5, <4>6 DEF u, v, conv
        <3> QED
            BY <3>3, <3>4
    <2> QED
        BY <2>5 DEF AcceptedAreFriends, Exists, Row
<1>2. CASE \A r \in DOMAIN requests : ~HandleRequestAccept(r)
    <2>1. RowsKept /\ MembersKept
        BY <1>2, OtherStep
    <2>2. ASSUME NEW u, NEW v PROVE Accepted(u, v)' = Accepted(u, v)
        <3>1. CASE requests' = requests
            BY <3>1 DEF Accepted
        <3>2. ASSUME NEW x \in Users, NEW y \in Users, RequestAdded(x, y)
              PROVE  Accepted(u, v)' = Accepted(u, v)
            <4>1. \A q \in DOMAIN requests : q \in Accepted(u, v)' <=> q \in Accepted(u, v)
                BY <3>2 DEF Accepted, RequestAdded
            <4>2. Len(requests) + 1 \notin Accepted(u, v)'
                BY <3>2 DEF Accepted, RequestAdded
            <4>3. /\ Accepted(u, v) \subseteq DOMAIN requests
                  /\ Accepted(u, v)' \subseteq DOMAIN requests \cup {Len(requests) + 1}
                BY <3>2 DEF Accepted, RequestAdded
            <4> QED
                BY <4>1, <4>2, <4>3
        <3>3. ASSUME NEW r \in DOMAIN requests, HandleRequestReject(r),
                     RequestAnswered(r, "rejected")
              PROVE  Accepted(u, v)' = Accepted(u, v)
            <4>1. requests[r].status # "accepted" /\ requests'[r].status # "accepted"
                BY <3>3 DEF HandleRequestReject, Answerable, RequestAnswered
            <4>2. \A q \in DOMAIN requests : q \in Accepted(u, v)' <=> q \in Accepted(u, v)
                BY <3>3, <4>1 DEF Accepted, RequestAnswered
            <4> QED
                BY <3>3, <4>2 DEF Accepted, RequestAnswered
        <3> QED
            BY <1>2, <3>1, <3>2, <3>3, OtherStep
    <2>3. ASSUME NEW p \in Pairs
          PROVE  LET u == p[1] v == p[2] conv == friendship'[p].conv IN
                 /\ (Accepted(u, v)' # {}) <=> (conv # 0)
                 /\ conv # 0 => /\ friendship'[<<u, v>>].status # "none"
                                /\ friendship'[<<v, u>>].status # "none"
                                /\ friendship'[<<v, u>>].conv = conv
                                /\ members'[conv] \subseteq {u, v}
                                /\ \A q \in Pairs : friendship'[q].conv = conv
                                                    => {q[1], q[2]} = {u, v}
        <3> DEFINE u == p[1]
                   v == p[2]
                   conv == friendship[p].conv
        <3>1. <<u, v>> = p /\ <<v, u>> \in Pairs
            BY PairFacts
        <3>2. /\ (Accepted(u, v) # {}) <=> (conv # 0)
              /\ conv # 0 => /\ friendship[<<u, v>>].status # "none"
                             /\ friendship[<<v, u>>].status # "none"
                             /\ friendship[<<v, u>>].conv = conv
                             /\ members[conv] \subseteq {u, v}
                             /\ \A q \in Pairs : friendship[q].conv = conv
                                                 => {q[1], q[2]} = {u, v}
            BY <1>0 DEF AcceptedAreFriends, Exists, Row
        <3> HIDE DEF u, v
        <3>3. /\ friendship'[p].conv = conv /\ friendship'[<<v, u>>].conv = friendship[<<v, u>>].conv
              /\ friendship'[p].status = "none" => friendship[p].status = "none"
              /\ friendship'[<<v, u>>].status = "none" => friendship[<<v, u>>].status = "none"
              /\ \A q \in Pairs : friendship'[q].conv = friendship[q].conv
            BY <2>1, <3>1 DEF RowsKept
        <3> HIDE DEF conv
        <3>4. conv # 0 => members'[conv] \subseteq members[conv]
            BY <1>0, <2>1 DEF MembersKept, conv
        <3>5. Accepted(u, v)' = Accepted(u, v)
            BY <2>2
        <3> QED
            BY <3>1, <3>2, <3>3, <3>4, <3>5 DEF u, v
    <2> QED
        BY <2>3 DEF AcceptedAreFriends, Exists, Row
<1> QED
    BY <1>1, <1>2

-----------------------------------------------------------------------------
\* Theorems

\* Every step keeps the invariant.
LEMMA FriendInvStep ==
    ASSUME IInv, [Next]_vars
    PROVE  IInv'
<1>1. ASSUME Next PROVE IInv'
    BY <1>1, TypeStep, DistinctStep, NormalHasConvStep, AcceptedStep, OnePendingStep, PartedStep
       DEF IInv
<1>2. ASSUME UNCHANGED vars PROVE IInv'
    <2>1. /\ account' = account /\ requests' = requests /\ friendship' = friendship
          /\ members' = members /\ parted' = parted
        BY <1>2 DEF vars
    <2>2. TypeOK' /\ Distinct' /\ NormalHasConv' /\ PartedCannotTalk'
        BY <1>2, <2>1 DEF IInv, TypeOK, Distinct, NormalHasConv, PartedCannotTalk
    <2>3. OnePending'
        BY <1>2, <2>1 DEF IInv, OnePending, FindPendingRequest, Row
    <2>4. AcceptedAreFriends'
        <3>1. \A u, v : Accepted(u, v)' = Accepted(u, v)
            BY <2>1 DEF Accepted
        <3> QED
            BY <1>2, <2>1, <3>1 DEF IInv, AcceptedAreFriends, Exists, Row
    <2> QED
        BY <2>2, <2>3, <2>4 DEF IInv
<1> QED
    BY <1>1, <1>2

\* Every reachable state satisfies the invariant.
LEMMA Inductive == Spec => []IInv
BY InitOK, FriendInvStep, PTL DEF Spec

\* No step turns a blocked row into a friend's.
LEMMA BlockStep ==
    ASSUME IInv, Next, NEW p \in Pairs, friendship[p].status = "blocked"
    PROVE  friendship'[p].status \in {"blocked", "deleted"}
<1>0. TypeOK
    BY DEF IInv
<1>1. ASSUME NEW r \in DOMAIN requests, HandleRequestAccept(r)
      PROVE  friendship'[p].status \in {"blocked", "deleted"}
    BY <1>1, AcceptStep
<1>2. ASSUME NEW u \in Users, NEW v \in Users, HandleDeleteFriend(u, v) \/ HandleUnblock(u, v)
      PROVE  friendship'[p].status \in {"blocked", "deleted"}
    BY <1>0, <1>2, FriendshipUpdated DEF HandleDeleteFriend, HandleUnblock
<1>3. ASSUME NEW u \in Users, NEW v \in Users, HandleBlock(u, v)
      PROVE  friendship'[p].status \in {"blocked", "deleted"}
    BY <1>0, <1>3, RowBlocked
<1>4. CASE friendship' = friendship
    BY <1>4
<1> QED
    BY <1>1, <1>2, <1>3, <1>4 DEF Next, HandleAddFriend, HandleRequestRollback,
       HandleRequestReject, HandleLeaveGroup, UpdateStatus, vars

\* The rows keep their types, and no row names a conversation that does not exist.
THEOREM TypeCorrect == Spec => []TypeOK
<1>1. IInv => TypeOK
    BY DEF IInv
<1> QED
    BY <1>1, Inductive, PTL

\* Requests, friendship rows and private conversations agree: HandleRequest's transaction
\* is all or nothing, both rows of a pair name one conversation, no other pair's rows do, and
\* nobody else is a member of it.
THEOREM AcceptIsAtomic == Spec => []AcceptedAreFriends
<1>1. IInv => AcceptedAreFriends
    BY DEF IInv
<1> QED
    BY <1>1, Inductive, PTL

\* HandleAddFriend never leaves two pending requests between two users.
THEOREM PendingUnique == Spec => []OnePending
<1>1. IInv => OnePending
    BY DEF IInv
<1> QED
    BY <1>1, Inductive, PTL

\* A conversation that HandleDeleteFriend closed stays without members.
THEOREM PartedStaysClosed == Spec => []PartedCannotTalk
<1>1. IInv => PartedCannotTalk
    BY DEF IInv
<1> QED
    BY <1>1, Inductive, PTL

\* No step turns a blocked row into a friend's: HandleRequest's insert fails on it.
THEOREM BlocksHold == Spec => BlockSurvivesAccept
<1>1. ASSUME IInv, [Next]_vars
      PROVE  [\A p \in Pairs : friendship[p].status = "blocked"
                               => friendship'[p].status \in {"blocked", "deleted"}]_vars
    BY <1>1, BlockStep
<1> QED
    BY <1>1, Inductive, PTL DEF Spec, BlockSurvivesAccept

-----------------------------------------------------------------------------
\* GroupService

\* A conversation that is or was a group's is no friendship's.
Separate ==
    \A c \in DOMAIN members :
        FindByConversationId(c) \/ c \in dissolved
        => c \notin parted /\ \A p \in Pairs : friendship[p].conv # c

\* The inductive invariant.
GInv ==
    /\ IInv
    /\ GroupTypeOK
    /\ Separate
    /\ GroupIsSound
    /\ DissolvedIsEmpty
    /\ ApplicantsAreOutside
    /\ OneApplication

-----------------------------------------------------------------------------
\* The friend tables

\* The friend invariants survive a step that changes only other conversations.
LEMMA FriendsKept ==
    ASSUME IInv, UNCHANGED friendVars,
           members' \in Seq(SUBSET Users),
           DOMAIN members \subseteq DOMAIN members',
           \A c \in DOMAIN members :
              (c \in parted \/ \E p \in Pairs : friendship[p].conv = c) => members'[c] = members[c]
    PROVE  IInv'
<1>1. /\ account' = account /\ requests' = requests /\ friendship' = friendship
      /\ parted' = parted
    BY DEF friendVars
<1>2. /\ members \in Seq(SUBSET Users) /\ parted \subseteq DOMAIN members
      /\ \A p \in Pairs : friendship[p].conv \in 0 .. Len(members)
    BY DEF IInv, TypeOK
<1>3. Len(members) \in Nat /\ Len(members') \in Nat /\ Len(members) <= Len(members')
    <2>1. /\ Len(members) \in Nat /\ Len(members') \in Nat
          /\ DOMAIN members = 1 .. Len(members) /\ DOMAIN members' = 1 .. Len(members')
        BY <1>2
    <2> QED
        BY <2>1
<1>4. \A p \in Pairs : friendship[p].conv \in 0 .. Len(members')
    BY <1>2, <1>3
<1>5. TypeOK'
    BY <1>1, <1>2, <1>4 DEF IInv, TypeOK
<1>6. Distinct' /\ NormalHasConv' /\ OnePending'
    BY <1>1 DEF IInv, Distinct, NormalHasConv, OnePending, FindPendingRequest, Row
<1>7. PartedCannotTalk'
    BY <1>1, <1>2 DEF IInv, PartedCannotTalk
<1>8. AcceptedAreFriends'
    <2>1. \A u, v : Accepted(u, v)' = Accepted(u, v)
        BY <1>1 DEF Accepted
    <2>2. \A p \in Pairs : friendship[p].conv # 0
                           => members'[friendship[p].conv] = members[friendship[p].conv]
        BY <1>2, <1>3
    <2> QED
        BY <1>1, <2>1, <2>2 DEF IInv, AcceptedAreFriends, Exists, Row
<1> QED
    BY <1>5, <1>6, <1>7, <1>8 DEF IInv

\* FriendStep is a step of FriendService.
LEMMA FriendStepIsNext ==
    ASSUME FriendStep
    PROVE  Next
BY GroupAssumption DEF FriendStep, Next

\* FriendService takes members only from the conversations of friendships, closes only
\* those, and gives a friendship only a new conversation.
LEMMA FriendMoves ==
    ASSUME IInv, FriendStep
    PROVE  /\ DOMAIN members \subseteq DOMAIN members'
           /\ \A c \in DOMAIN members : members'[c] \subseteq members[c]
           /\ \A c \in DOMAIN members :
                (\A p \in Pairs : friendship[p].conv # c)
                => members'[c] = members[c] /\ (c \in parted' => c \in parted)
           /\ \A p \in Pairs :
                friendship'[p].conv \in DOMAIN members => friendship'[p].conv = friendship[p].conv
<1>0. Next
    BY FriendStepIsNext
<1>1. ASSUME NEW r \in DOMAIN requests, HandleRequestAccept(r)
      PROVE  /\ DOMAIN members \subseteq DOMAIN members'
             /\ \A c \in DOMAIN members : members'[c] = members[c]
             /\ parted' = parted
             /\ \A p \in Pairs : friendship'[p].conv \in DOMAIN members
                                 => friendship'[p].conv = friendship[p].conv
    <2>1. /\ Len(members) \in Nat
          /\ DOMAIN members = 1 .. Len(members)
          /\ DOMAIN members' = 1 .. (Len(members) + 1)
          /\ \A c \in DOMAIN members : members'[c] = members[c]
        BY <1>1, AcceptStep
    <2>2. \A p \in Pairs : \/ friendship'[p] = [status |-> "normal", conv |-> Len(members) + 1]
                           \/ friendship'[p] = friendship[p]
        BY <1>1, AcceptStep
    <2>3. \A p \in Pairs : friendship'[p].conv = Len(members) + 1
                           \/ friendship'[p].conv = friendship[p].conv
        BY <2>2
    <2>4. parted' = parted
        BY <1>1 DEF HandleRequestAccept
    <2> QED
        BY <2>1, <2>3, <2>4
<1>2. ASSUME \A r \in DOMAIN requests : ~HandleRequestAccept(r)
      PROVE  /\ DOMAIN members' = DOMAIN members
             /\ \A c \in DOMAIN members : members'[c] \subseteq members[c]
             /\ \A p \in Pairs : friendship'[p].conv = friendship[p].conv
    BY <1>0, <1>2, OtherStep DEF RowsKept, MembersKept
<1>3. ASSUME NEW u \in Users, NEW v \in Users, HandleDeleteFriend(u, v),
             NEW c \in DOMAIN members, \A p \in Pairs : friendship[p].conv # c
      PROVE  members'[c] = members[c] /\ (c \in parted' => c \in parted)
    BY <1>3 DEF HandleDeleteFriend, Row
<1>4. ASSUME \A u, v \in Users : ~HandleDeleteFriend(u, v),
             \A r \in DOMAIN requests : ~HandleRequestAccept(r)
      PROVE  members' = members /\ parted' = parted
    BY <1>4, GroupAssumption DEF FriendStep, HandleAddFriend, HandleBlock, HandleUnblock,
       HandleRequestRollback, HandleRequestReject, UpdateStatus, vars
<1> QED
    BY <1>1, <1>2, <1>3, <1>4

-----------------------------------------------------------------------------
\* Group rows

\* What the types say, for the provers.
LEMMA GroupFacts ==
    ASSUME GInv
    PROVE  /\ members \in Seq(SUBSET Users) /\ Len(members) \in Nat
           /\ DOMAIN members = 1 .. Len(members)
           /\ \A c \in DOMAIN members : members[c] \subseteq Users
           /\ groups \subseteq (DOMAIN members) \X Users
           /\ \A p \in groups : FindByConversationId(p[1]) /\ p[1] \in DOMAIN members
           /\ \A c : FindByConversationId(c) => c \in DOMAIN members
           /\ \A j \in DOMAIN joins : /\ joins[j] \in JoinRequest
                                      /\ joins[j].conv \in DOMAIN members
<1>1. members \in Seq(SUBSET Users)
    BY DEF GInv, GroupTypeOK, TypeOK
<1>2. groups \subseteq (DOMAIN members) \X Users
    BY DEF GInv, GroupTypeOK
<1>3. \A p \in groups : FindByConversationId(p[1]) /\ p[1] \in DOMAIN members
    BY <1>2 DEF FindByConversationId
<1>4. \A c : FindByConversationId(c) => c \in DOMAIN members
    BY <1>2 DEF FindByConversationId
<1>5. \A j \in DOMAIN joins : joins[j] \in JoinRequest /\ joins[j].conv \in DOMAIN members
    BY DEF GInv, GroupTypeOK
<1> QED
    BY <1>1, <1>2, <1>3, <1>4, <1>5

\* A step of FriendService changes no group.
LEMMA FriendStepKeeps ==
    ASSUME GInv, FriendStep, RowsFollow, UNCHANGED <<groups, joins, dissolved>>
    PROVE  GInv'
<1>1. IInv'
    BY FriendStepIsNext, FriendInvStep DEF GInv
<1>2. /\ DOMAIN members \subseteq DOMAIN members'
      /\ \A c \in DOMAIN members : members'[c] \subseteq members[c]
      /\ \A c \in DOMAIN members :
            (\A p \in Pairs : friendship[p].conv # c)
            => members'[c] = members[c] /\ (c \in parted' => c \in parted)
      /\ \A p \in Pairs :
            friendship'[p].conv \in DOMAIN members => friendship'[p].conv = friendship[p].conv
    BY FriendMoves DEF GInv
<1>3. \A c : FindByConversationId(c)' <=> FindByConversationId(c)
    BY DEF FindByConversationId
<1>4. \A c \in DOMAIN members :
        FindByConversationId(c) \/ c \in dissolved
        => members'[c] = members[c] /\ c \notin parted'
           /\ \A p \in Pairs : friendship'[p].conv # c
    BY <1>2 DEF GInv, Separate
<1>5. \A p \in owners \cup admins : p[2] \in members[p[1]] /\ FindByConversationId(p[1])
    BY DEF GInv, GroupIsSound
<1>6. owners' = owners /\ admins' = admins
    <2>1. \A p \in owners \cup admins : p[2] \in members'[p[1]]
        BY <1>4, <1>5, GroupFacts
    <2> QED
        BY <2>1 DEF RowsFollow, RowsGo
<1>7. GroupTypeOK'
    <2>1. TypeOK'
        BY <1>1 DEF IInv
    <2> QED
        BY <1>2, <1>6, <2>1 DEF GInv, GroupTypeOK
<1>8. dissolved \subseteq DOMAIN members
    BY DEF GInv, GroupTypeOK
<1>9. Separate'
    BY <1>3, <1>4, <1>8, GroupFacts DEF Separate
<1>10. GroupIsSound'
    BY <1>3, <1>4, <1>5, <1>6, GroupFacts DEF GInv, GroupIsSound
<1>11. DissolvedIsEmpty'
    BY <1>3, <1>4, <1>8 DEF GInv, DissolvedIsEmpty
<1>12. ApplicantsAreOutside'
    BY <1>2, GroupFacts DEF GInv, ApplicantsAreOutside, IsMember
<1>13. OneApplication'
    BY DEF GInv, OneApplication
<1> QED
    BY <1>1, <1>7, <1>9, <1>10, <1>11, <1>12, <1>13 DEF GInv

\* HandleLeave and HandleKickMember: a member who is not the owner goes.
LEMMA RemoveKeeps ==
    ASSUME GInv, NEW v \in Users, NEW c \in DOMAIN members,
           IsMember(c, v), <<c, v>> \notin owners,
           RemoveMember(c, v), UNCHANGED <<friendVars, groups, joins, dissolved>>
    PROVE  GInv'
<1>1. IInv'
    <2>1. HandleLeaveGroup(v, c)
        BY DEF HandleLeaveGroup, IsMember, RemoveMember, friendVars
    <2> QED
        BY <2>1, FriendInvStep DEF GInv, Next
<1>2. /\ members' = [members EXCEPT ![c] = @ \ {v}]
      /\ owners' = owners /\ admins' = admins \ {<<c, v>>}
      /\ friendship' = friendship /\ parted' = parted
    BY DEF RemoveMember, RowsGo, friendVars
<1>3. /\ DOMAIN members' = DOMAIN members
      /\ members'[c] = members[c] \ {v}
      /\ \A d \in DOMAIN members : d # c => members'[d] = members[d]
    BY <1>2, GroupFacts
<1>4. \A d \in DOMAIN members : members'[d] \subseteq members[d]
    BY <1>3
<1>5. \A d : FindByConversationId(d)' <=> FindByConversationId(d)
    BY DEF FindByConversationId
<1>6. GroupTypeOK'
    <2>1. TypeOK'
        BY <1>1 DEF IInv
    <2> QED
        BY <1>2, <1>3, <2>1 DEF GInv, GroupTypeOK
<1>7. Separate'
    BY <1>2, <1>3, <1>5 DEF GInv, Separate
<1>8. GroupIsSound'
    <2>1. \A p \in owners' \cup admins' : p[2] \in members'[p[1]] /\ FindByConversationId(p[1])'
        <3> SUFFICES ASSUME NEW p \in owners' \cup admins'
                     PROVE  p[2] \in members'[p[1]] /\ FindByConversationId(p[1])'
            OBVIOUS
        <3>1. p \in owners \cup admins /\ p # <<c, v>>
            BY <1>2
        <3>2. p[2] \in members[p[1]] /\ FindByConversationId(p[1])
            BY <3>1 DEF GInv, GroupIsSound
        <3>3. p = <<p[1], p[2]>>
            BY <3>1 DEF GInv, GroupTypeOK
        <3> QED
            BY <1>3, <1>5, <3>1, <3>2, <3>3, GroupFacts
    <2>2. \A p \in groups : Cardinality(members'[p[1]]) <= MaxMembers
        <3> SUFFICES ASSUME NEW p \in groups
                     PROVE  Cardinality(members'[p[1]]) <= MaxMembers
            OBVIOUS
        <3>1. /\ p[1] \in DOMAIN members /\ members[p[1]] \subseteq Users
              /\ Cardinality(members[p[1]]) <= MaxMembers
            BY GroupFacts DEF GInv, GroupIsSound
        <3>2. IsFiniteSet(members[p[1]])
            BY <3>1, FS_Subset, GroupAssumption
        <3>3. IsFiniteSet(members'[p[1]])
              /\ Cardinality(members'[p[1]]) <= Cardinality(members[p[1]])
            BY <1>4, <3>1, <3>2, FS_Subset
        <3>4. Cardinality(members'[p[1]]) \in Nat /\ Cardinality(members[p[1]]) \in Nat
            BY <3>2, <3>3, FS_CardinalityType
        <3> QED
            BY <3>1, <3>3, <3>4, GroupAssumption
    <2> QED
        BY <1>2, <2>1, <2>2 DEF GInv, GroupIsSound
<1>9. DissolvedIsEmpty'
    BY <1>4, <1>5 DEF GInv, DissolvedIsEmpty, GroupTypeOK
<1>10. ApplicantsAreOutside' /\ OneApplication'
    BY <1>3, <1>4 DEF GInv, ApplicantsAreOutside, IsMember, OneApplication
<1> QED
    BY <1>1, <1>6, <1>7, <1>8, <1>9, <1>10 DEF GInv

\* HandleCreateGroup: the new conversation is the group's.
LEMMA CreateKeeps ==
    ASSUME GInv, NEW r \in CreateRequests, HandleCreateGroup(r)
    PROVE  GInv'
<1> DEFINE others == r.others \ {r.owner}
           conv == Len(members) + 1
<1>0. r.owner \in Users /\ r.others \subseteq Users
    BY GroupAssumption
<1>1. /\ members' = Append(members, others \cup {r.owner})
      /\ groups' = groups \cup {<<conv, r.owner>>}
      /\ owners' = owners \cup {<<conv, r.owner>>}
      /\ admins' = admins /\ joins' = joins /\ dissolved' = dissolved
      /\ friendship' = friendship /\ parted' = parted
      /\ UNCHANGED friendVars
      /\ Cardinality(others) + 1 <= MaxMembers
    BY DEF HandleCreateGroup, friendVars
<1>2. /\ members' \in Seq(SUBSET Users)
      /\ DOMAIN members' = DOMAIN members \cup {conv}
      /\ conv \notin DOMAIN members /\ conv \in Nat /\ conv # 0
      /\ members'[conv] = others \cup {r.owner}
      /\ \A c \in DOMAIN members : members'[c] = members[c]
    BY <1>0, <1>1, GroupFacts
<1>3. Cardinality(others \cup {r.owner}) <= MaxMembers
    <2>1. IsFiniteSet(others)
        BY <1>0, FS_Subset, GroupAssumption
    <2>2. Cardinality(others \cup {r.owner}) = Cardinality(others) + 1
        BY <2>1, FS_AddElement
    <2> QED
        BY <1>1, <2>2
<1>4. IInv'
    BY <1>1, <1>2, FriendsKept DEF GInv
<1>5. \A c : FindByConversationId(c)' <=> FindByConversationId(c) \/ c = conv
    BY <1>0, <1>1 DEF FindByConversationId
<1> HIDE DEF others, conv
<1>6. GroupTypeOK'
    <2>1. TypeOK'
        BY <1>4 DEF IInv
    <2>2. /\ groups' \subseteq (DOMAIN members') \X Users
          /\ owners' \subseteq (DOMAIN members') \X Users
          /\ admins' \subseteq (DOMAIN members') \X Users
        BY <1>0, <1>1, <1>2 DEF GInv, GroupTypeOK
    <2>3. joins' \in Seq(JoinRequest) /\ \A j \in DOMAIN joins' : joins'[j].conv \in DOMAIN members'
        BY <1>1, <1>2 DEF GInv, GroupTypeOK
    <2>4. dissolved' \subseteq DOMAIN members'
        BY <1>1, <1>2 DEF GInv, GroupTypeOK
    <2> QED
        BY <2>1, <2>2, <2>3, <2>4 DEF GroupTypeOK
<1>7. Separate'
    <2>1. conv \notin parted /\ \A p \in Pairs : friendship[p].conv # conv
        <3>1. /\ parted \subseteq DOMAIN members
              /\ \A p \in Pairs : friendship[p].conv \in 0 .. Len(members)
            BY DEF GInv, IInv, TypeOK
        <3> QED
            BY <1>2, <3>1, GroupFacts DEF conv
    <2>2. dissolved \subseteq DOMAIN members
        BY DEF GInv, GroupTypeOK
    <2> QED
        BY <1>1, <1>2, <1>5, <2>1, <2>2 DEF GInv, Separate
<1>8. GroupIsSound'
    <2>1. owners' = groups'
        BY <1>1 DEF GInv, GroupIsSound
    <2>2. \A p \in owners' \cup admins' : p[2] \in members'[p[1]] /\ FindByConversationId(p[1])'
        <3> SUFFICES ASSUME NEW p \in owners' \cup admins'
                     PROVE  p[2] \in members'[p[1]] /\ FindByConversationId(p[1])'
            OBVIOUS
        <3>1. CASE p \in owners \cup admins
            <4>1. p[2] \in members[p[1]] /\ FindByConversationId(p[1])
                BY <3>1 DEF GInv, GroupIsSound
            <4> QED
                BY <1>2, <1>5, <4>1, GroupFacts
        <3>2. CASE p = <<conv, r.owner>>
            BY <1>2, <1>5, <3>2
        <3> QED
            BY <1>1, <3>1, <3>2
    <2>3. \A p, q \in groups' : p[1] = q[1] => p = q
        <3>1. \A p \in groups : p[1] # conv
            BY <1>2, GroupFacts
        <3>2. \A p, q \in groups : p[1] = q[1] => p = q
            BY DEF GInv, GroupIsSound
        <3> QED
            BY <1>1, <3>1, <3>2
    <2>4. \A p \in groups' : Cardinality(members'[p[1]]) <= MaxMembers
        <3>1. \A p \in groups : p[1] \in DOMAIN members /\ Cardinality(members[p[1]]) <= MaxMembers
            BY GroupFacts DEF GInv, GroupIsSound
        <3> QED
            BY <1>1, <1>2, <1>3, <3>1
    <2> QED
        BY <2>1, <2>2, <2>3, <2>4 DEF GroupIsSound
<1>9. DissolvedIsEmpty'
    <2>1. dissolved \subseteq DOMAIN members
        BY DEF GInv, GroupTypeOK
    <2> QED
        BY <1>1, <1>2, <1>5, <2>1 DEF GInv, DissolvedIsEmpty
<1>10. ApplicantsAreOutside' /\ OneApplication'
    BY <1>1, <1>2, GroupFacts DEF GInv, ApplicantsAreOutside, OneApplication, IsMember
<1> QED
    BY <1>4, <1>6, <1>7, <1>8, <1>9, <1>10 DEF GInv

\* HandleDismissGroup: the rows of the group, of its members and their roles go.
LEMMA DismissKeeps ==
    ASSUME GInv, NEW u \in Users, NEW c \in DOMAIN members, HandleDismissGroup(u, c)
    PROVE  GInv'
<1>1. /\ groups' = {g \in groups : g[1] # c}
      /\ members' = [members EXCEPT ![c] = {}]
      /\ owners' = owners \ ({c} \X Users) /\ admins' = admins \ ({c} \X Users)
      /\ dissolved' = dissolved \cup {c} /\ joins' = joins
      /\ friendship' = friendship /\ parted' = parted
      /\ UNCHANGED friendVars
    BY DEF HandleDismissGroup, RowsGo, friendVars
<1>2. FindByConversationId(c)
    BY DEF HandleDismissGroup, FindByConversationId
<1>3. /\ members' \in Seq(SUBSET Users)
      /\ DOMAIN members' = DOMAIN members
      /\ members'[c] = {}
      /\ \A d \in DOMAIN members : d # c => members'[d] = members[d]
    <2>1. {} \in SUBSET Users
        OBVIOUS
    <2> QED
        BY <1>1, <2>1, ExceptSeq, GroupFacts
<1>4. \A d : FindByConversationId(d)' <=> FindByConversationId(d) /\ d # c
    BY <1>1 DEF FindByConversationId
<1>5. IInv'
    BY <1>1, <1>2, <1>3, FriendsKept DEF GInv, Separate
<1>6. GroupTypeOK'
    <2>1. TypeOK'
        BY <1>5 DEF IInv
    <2> QED
        BY <1>1, <1>3, <2>1 DEF GInv, GroupTypeOK
<1>7. Separate'
    BY <1>1, <1>2, <1>3, <1>4 DEF GInv, Separate
<1>8. GroupIsSound'
    <2>1. /\ owners = groups
          /\ \A p \in owners \cup admins : p[2] \in members[p[1]] /\ FindByConversationId(p[1])
          /\ \A p, q \in groups : p[1] = q[1] => p = q
          /\ \A p \in groups : Cardinality(members[p[1]]) <= MaxMembers
          /\ owners \subseteq (DOMAIN members) \X Users
          /\ admins \subseteq (DOMAIN members) \X Users
        BY DEF GInv, GroupIsSound, GroupTypeOK
    <2>2. \A p \in (DOMAIN members) \X Users : p \in {c} \X Users <=> p[1] = c
        OBVIOUS
    <2>3. owners' = groups'
        BY <1>1, <2>1, <2>2
    <2>4. \A p \in owners' \cup admins' : p \in owners \cup admins /\ p[1] # c
        BY <1>1, <2>1, <2>2
    <2>5. \A p \in owners' \cup admins' : p[2] \in members'[p[1]] /\ FindByConversationId(p[1])'
        BY <1>3, <1>4, <2>1, <2>4, GroupFacts
    <2>6. \A p, q \in groups' : p[1] = q[1] => p = q
        BY <1>1, <2>1
    <2>7. \A p \in groups' : Cardinality(members'[p[1]]) <= MaxMembers
        BY <1>1, <1>3, <2>1, GroupFacts
    <2> QED
        BY <2>3, <2>5, <2>6, <2>7 DEF GroupIsSound
<1>9. DissolvedIsEmpty'
    <2>1. dissolved \subseteq DOMAIN members
        BY DEF GInv, GroupTypeOK
    <2> QED
        BY <1>1, <1>3, <1>4, <2>1 DEF GInv, DissolvedIsEmpty
<1>10. ApplicantsAreOutside' /\ OneApplication'
    BY <1>1, <1>3, GroupFacts DEF GInv, ApplicantsAreOutside, OneApplication, IsMember
<1> QED
    BY <1>5, <1>6, <1>7, <1>8, <1>9, <1>10 DEF GInv

\* HandleJoinGroup: an outsider without a pending request applies.
LEMMA ApplyKeeps ==
    ASSUME GInv, NEW u \in Users, NEW c \in DOMAIN members, HandleJoinGroup(u, c)
    PROVE  GInv'
<1> DEFINE new == [conv |-> c, user |-> u, status |-> "pending"]
<1>1. /\ UNCHANGED <<vars, groups, owners, admins, dissolved>>
      /\ joins' = Append(joins, new)
      /\ ~IsMember(c, u) /\ ~FindPendingJoinRequest(c, u)
    BY DEF HandleJoinGroup
<1>2. IInv'
    BY <1>1, FriendInvStep DEF GInv
<1>3. members' = members /\ friendship' = friendship /\ parted' = parted
    BY <1>1 DEF vars
<1>4. joins \in Seq(JoinRequest) /\ new \in JoinRequest
    BY GroupFacts DEF GInv, GroupTypeOK, JoinRequest, RequestStatus
<1>5. /\ joins' \in Seq(JoinRequest)
      /\ \A j \in DOMAIN joins' : \/ j \in DOMAIN joins /\ joins'[j] = joins[j]
                                  \/ j = Len(joins) + 1 /\ joins'[j] = new
    BY <1>1, <1>4
<1>6. \A j \in DOMAIN joins : joins[j] # new
    BY <1>1 DEF FindPendingJoinRequest
<1>7. GroupTypeOK'
    <2>1. TypeOK'
        BY <1>2 DEF IInv
    <2>2. \A j \in DOMAIN joins' : joins'[j].conv \in DOMAIN members
        BY <1>5, GroupFacts
    <2> QED
        BY <1>1, <1>3, <1>5, <2>1, <2>2 DEF GInv, GroupTypeOK
<1>8. Separate' /\ GroupIsSound' /\ DissolvedIsEmpty'
    BY <1>1, <1>3 DEF GInv, Separate, GroupIsSound, DissolvedIsEmpty, FindByConversationId
<1>9. ApplicantsAreOutside'
    BY <1>1, <1>3, <1>5 DEF GInv, ApplicantsAreOutside, IsMember
<1>10. OneApplication'
    BY <1>5, <1>6 DEF GInv, OneApplication
<1> QED
    BY <1>2, <1>7, <1>8, <1>9, <1>10 DEF GInv

\* UPDATE group_join_requests changes the status of one row.
LEMMA JoinAnswered ==
    ASSUME GInv, NEW j \in DOMAIN joins, NEW s \in RequestStatus, UpdateJoinRequestStatus(j, s)
    PROVE  /\ joins' \in Seq(JoinRequest)
           /\ DOMAIN joins' = DOMAIN joins
           /\ joins'[j] = [conv |-> joins[j].conv, user |-> joins[j].user, status |-> s]
           /\ \A i \in DOMAIN joins : i # j => joins'[i] = joins[i]
<1>1. joins[j] \in JoinRequest /\ joins \in Seq(JoinRequest)
    BY DEF GInv, GroupTypeOK
<1>2. [joins[j] EXCEPT !.status = s] = [conv |-> joins[j].conv, user |-> joins[j].user, status |-> s]
    BY <1>1 DEF JoinRequest
<1>3. [joins[j] EXCEPT !.status = s] \in JoinRequest
    BY <1>1, <1>2 DEF JoinRequest
<1>4. joins' = [joins EXCEPT ![j] = [joins[j] EXCEPT !.status = s]]
    BY DEF UpdateJoinRequestStatus
<1>5. joins' \in Seq(JoinRequest) /\ DOMAIN joins' = DOMAIN joins
    BY <1>1, <1>3, <1>4, ExceptSeq
<1> QED
    BY <1>1, <1>2, <1>4, <1>5

\* What an answer leaves of the pending requests, when it is not for others to pend.
LEMMA AnsweredIsNotPending ==
    ASSUME GInv, NEW j \in DOMAIN joins, NEW s \in {"accepted", "rejected"},
           UpdateJoinRequestStatus(j, s)
    PROVE  /\ joins' \in Seq(JoinRequest)
           /\ DOMAIN joins' = DOMAIN joins
           /\ \A i \in DOMAIN joins : joins'[i].conv = joins[i].conv
           /\ \A i \in DOMAIN joins :
                joins'[i].status = "pending" => i # j /\ joins'[i] = joins[i]
           /\ OneApplication'
<1>1. /\ joins' \in Seq(JoinRequest)
      /\ DOMAIN joins' = DOMAIN joins
      /\ joins'[j] = [conv |-> joins[j].conv, user |-> joins[j].user, status |-> s]
      /\ \A i \in DOMAIN joins : i # j => joins'[i] = joins[i]
    BY JoinAnswered DEF RequestStatus
<1>2. \A i \in DOMAIN joins : joins'[i].conv = joins[i].conv
    BY <1>1
<1>3. \A i \in DOMAIN joins : joins'[i].status = "pending" => i # j /\ joins'[i] = joins[i]
    BY <1>1
<1>4. OneApplication'
    BY <1>1, <1>3 DEF GInv, OneApplication
<1> QED
    BY <1>1, <1>2, <1>3, <1>4

\* HandleJoinReqAccept: who may answer has a role, so the conversation is a group's.
LEMMA AcceptKeeps ==
    ASSUME GInv, NEW u \in Users, NEW j \in DOMAIN joins, HandleJoinReqAccept(u, j)
    PROVE  GInv'
<1> DEFINE c == joins[j].conv
           v == joins[j].user
<1>1. /\ members' = [members EXCEPT ![c] = @ \cup {v}]
      /\ groups' = groups /\ owners' = owners /\ admins' = admins /\ dissolved' = dissolved
      /\ friendship' = friendship /\ parted' = parted
      /\ UNCHANGED friendVars
      /\ UpdateJoinRequestStatus(j, "accepted")
      /\ Cardinality(members[c]) < MaxMembers
      /\ ~IsMember(c, v) /\ IsMember(c, u) /\ RoleOf(c, u) # Member
    BY DEF HandleJoinReqAccept, MayAnswer, HasRoom, friendVars
<1>2. c \in DOMAIN members /\ v \in Users
    BY GroupFacts DEF JoinRequest
<1>3. FindByConversationId(c)
    <2>1. <<c, u>> \in owners \cup admins
        BY <1>1 DEF RoleOf
    <2> QED
        BY <2>1 DEF GInv, GroupIsSound
<1>4. /\ joins' \in Seq(JoinRequest)
      /\ DOMAIN joins' = DOMAIN joins
      /\ \A i \in DOMAIN joins : joins'[i].conv = joins[i].conv
      /\ \A i \in DOMAIN joins : joins'[i].status = "pending" => i # j /\ joins'[i] = joins[i]
      /\ OneApplication'
    BY <1>1, AnsweredIsNotPending
<1>5. \A i \in DOMAIN joins :
        joins[i].status = "pending" /\ joins[i].conv = c /\ joins[i].user = v => i = j
    <2> SUFFICES ASSUME NEW i \in DOMAIN joins, joins[i].status = "pending",
                        joins[i].conv = c, joins[i].user = v
                 PROVE  i = j
        OBVIOUS
    <2>1. joins[i] \in JoinRequest /\ joins[j] \in JoinRequest /\ joins[j].status = "pending"
        BY GroupFacts DEF HandleJoinReqAccept, MayAnswer
    <2>2. joins[i] = joins[j]
        BY <2>1 DEF JoinRequest
    <2> QED
        BY <2>2 DEF GInv, OneApplication
<1> HIDE DEF c, v
<1>6. /\ members' \in Seq(SUBSET Users)
      /\ DOMAIN members' = DOMAIN members
      /\ members'[c] = members[c] \cup {v}
      /\ \A d \in DOMAIN members : d # c => members'[d] = members[d]
    <2>1. members[c] \cup {v} \in SUBSET Users
        BY <1>2, GroupFacts
    <2> QED
        BY <1>1, <1>2, <2>1, ExceptSeq, GroupFacts
<1>7. IInv'
    BY <1>1, <1>2, <1>3, <1>6, FriendsKept DEF GInv, Separate
<1>8. \A d : FindByConversationId(d)' <=> FindByConversationId(d)
    BY <1>1 DEF FindByConversationId
<1>9. GroupTypeOK'
    <2>1. TypeOK'
        BY <1>7 DEF IInv
    <2>2. \A i \in DOMAIN joins' : joins'[i].conv \in DOMAIN members'
        BY <1>4, <1>6, GroupFacts
    <2> QED
        BY <1>1, <1>4, <1>6, <2>1, <2>2 DEF GInv, GroupTypeOK
<1>10. Separate'
    BY <1>1, <1>6, <1>8 DEF GInv, Separate
<1>11. GroupIsSound'
    <2>1. Cardinality(members[c] \cup {v}) <= MaxMembers
        <3>1. IsFiniteSet(members[c])
            BY <1>2, GroupFacts, FS_Subset, GroupAssumption
        <3>2. v \notin members[c]
            BY <1>1, <1>2 DEF IsMember
        <3>3. Cardinality(members[c] \cup {v}) = Cardinality(members[c]) + 1
            BY <3>1, <3>2, FS_AddElement
        <3>4. Cardinality(members[c]) \in Nat
            BY <3>1, FS_CardinalityType
        <3> QED
            BY <1>1, <3>3, <3>4, GroupAssumption
    <2>2. \A p \in groups : Cardinality(members'[p[1]]) <= MaxMembers
        BY <1>6, <2>1, GroupFacts DEF GInv, GroupIsSound
    <2>3. \A p \in owners \cup admins : p[2] \in members'[p[1]]
        <3>1. \A p \in owners \cup admins : p[1] \in DOMAIN members /\ p[2] \in members[p[1]]
            BY GroupFacts DEF GInv, GroupIsSound
        <3> QED
            BY <1>6, <3>1
    <2> QED
        BY <1>1, <1>8, <2>2, <2>3 DEF GInv, GroupIsSound
<1>12. DissolvedIsEmpty'
    <2>1. c \notin dissolved
        BY <1>3 DEF GInv, DissolvedIsEmpty
    <2>2. dissolved \subseteq DOMAIN members
        BY DEF GInv, GroupTypeOK
    <2> QED
        BY <1>1, <1>6, <1>8, <2>1, <2>2 DEF GInv, DissolvedIsEmpty
<1>13. ApplicantsAreOutside'
    <2> SUFFICES ASSUME NEW i \in DOMAIN joins, joins'[i].status = "pending",
                        joins'[i].user \in members'[joins'[i].conv]
                 PROVE  FALSE
        BY <1>4, <1>6 DEF ApplicantsAreOutside, IsMember
    <2>1. i # j /\ joins'[i] = joins[i]
        BY <1>4
    <2>2. joins[i].user \notin members[joins[i].conv]
        BY <2>1, GroupFacts DEF GInv, ApplicantsAreOutside, IsMember
    <2>3. joins[i].conv = c /\ joins[i].user = v
        BY <1>6, <2>1, <2>2, GroupFacts
    <2> QED
        BY <1>5, <2>1, <2>3
<1> QED
    BY <1>4, <1>7, <1>9, <1>10, <1>11, <1>12, <1>13 DEF GInv

\* HandleJoinReqReject changes the request only.
LEMMA RejectKeeps ==
    ASSUME GInv, NEW u \in Users, NEW j \in DOMAIN joins, HandleJoinReqReject(u, j)
    PROVE  GInv'
<1>1. /\ UNCHANGED <<vars, groups, owners, admins, dissolved>>
      /\ UpdateJoinRequestStatus(j, "rejected")
    BY DEF HandleJoinReqReject
<1>2. IInv'
    BY <1>1, FriendInvStep DEF GInv
<1>3. members' = members /\ friendship' = friendship /\ parted' = parted
    BY <1>1 DEF vars
<1>4. /\ joins' \in Seq(JoinRequest)
      /\ DOMAIN joins' = DOMAIN joins
      /\ \A i \in DOMAIN joins : joins'[i].conv = joins[i].conv
      /\ \A i \in DOMAIN joins : joins'[i].status = "pending" => i # j /\ joins'[i] = joins[i]
      /\ OneApplication'
    BY <1>1, AnsweredIsNotPending
<1>5. GroupTypeOK'
    <2>1. TypeOK'
        BY <1>2 DEF IInv
    <2> QED
        BY <1>1, <1>3, <1>4, <2>1 DEF GInv, GroupTypeOK
<1>6. Separate' /\ GroupIsSound' /\ DissolvedIsEmpty'
    BY <1>1, <1>3 DEF GInv, Separate, GroupIsSound, DissolvedIsEmpty, FindByConversationId
<1>7. ApplicantsAreOutside'
    BY <1>3, <1>4 DEF GInv, ApplicantsAreOutside, IsMember
<1> QED
    BY <1>2, <1>4, <1>5, <1>6, <1>7 DEF GInv

\* HandleSetMemberRole: the owner's own role is out of reach, as no one else is owner.
LEMMA SetRoleKeeps ==
    ASSUME GInv, NEW u \in Users, NEW v \in Users, NEW c \in DOMAIN members, NEW role,
           HandleSetMemberRole(u, v, c, role)
    PROVE  GInv'
<1>1. /\ UNCHANGED <<vars, groups, joins, dissolved>>
      /\ owners' = owners \ {<<c, v>>}
      /\ admins' \in {admins \cup {<<c, v>>}, admins \ {<<c, v>>}}
      /\ v \in members[c] /\ u # v /\ <<c, u>> \in owners
    BY DEF HandleSetMemberRole, IsMember, RoleOf, Owner, Admin, Member
<1>2. IInv'
    BY <1>1, FriendInvStep DEF GInv
<1>3. members' = members /\ friendship' = friendship /\ parted' = parted
    BY <1>1 DEF vars
<1>4. /\ owners = groups
      /\ \A p \in owners \cup admins : p[2] \in members[p[1]] /\ FindByConversationId(p[1])
      /\ \A p, q \in groups : p[1] = q[1] => p = q
    BY DEF GInv, GroupIsSound
<1>5. <<c, v>> \notin owners
    BY <1>1, <1>4
<1>6. FindByConversationId(c)
    BY <1>1, <1>4
<1>7. GroupTypeOK'
    <2>1. TypeOK'
        BY <1>2 DEF IInv
    <2> QED
        BY <1>1, <1>3, <2>1 DEF GInv, GroupTypeOK
<1>8. GroupIsSound'
    <2>1. owners' = groups'
        BY <1>1, <1>4, <1>5
    <2>2. \A p \in owners' \cup admins' : p[2] \in members[p[1]] /\ FindByConversationId(p[1])
        BY <1>1, <1>4, <1>6
    <2> QED
        BY <1>1, <1>3, <2>1, <2>2 DEF GInv, GroupIsSound, FindByConversationId
<1>9. Separate' /\ DissolvedIsEmpty' /\ ApplicantsAreOutside' /\ OneApplication'
    BY <1>1, <1>3 DEF GInv, Separate, DissolvedIsEmpty, ApplicantsAreOutside, OneApplication,
       FindByConversationId, IsMember
<1> QED
    BY <1>2, <1>7, <1>8, <1>9 DEF GInv

-----------------------------------------------------------------------------
\* Theorems

\* Every step keeps the invariant.
LEMMA GroupInvStep ==
    ASSUME GInv, [GroupNext]_allVars
    PROVE  GInv'
<1>1. ASSUME NEW u \in Users, NEW c \in DOMAIN members, HandleLeave(u, c) PROVE GInv'
    <2>1. <<c, u>> \notin owners
        BY <1>1 DEF HandleLeave, RoleOf
    <2> QED
        BY <1>1, <2>1, RemoveKeeps DEF HandleLeave
<1>2. ASSUME NEW u \in Users, NEW v \in Users, NEW c \in DOMAIN members, HandleKickMember(u, v, c)
      PROVE  GInv'
    <2>1. <<c, v>> \notin owners
        BY <1>2 DEF HandleKickMember, RoleOf, Owner, Admin, Member
    <2> QED
        BY <1>2, <2>1, RemoveKeeps DEF HandleKickMember
<1>3. ASSUME UNCHANGED allVars PROVE GInv'
    <2>1. UNCHANGED vars /\ UNCHANGED <<groups, owners, admins, joins, dissolved>>
        BY <1>3 DEF allVars, groupVars
    <2>2. IInv'
        BY <2>1, FriendInvStep DEF GInv
    <2>3. members' = members /\ friendship' = friendship /\ parted' = parted
        BY <2>1 DEF vars
    <2>4. GroupTypeOK'
        <3>1. TypeOK'
            BY <2>2 DEF IInv
        <3> QED
            BY <2>1, <2>3, <3>1 DEF GInv, GroupTypeOK
    <2> QED
        BY <2>1, <2>2, <2>3, <2>4 DEF GInv, Separate, GroupIsSound, DissolvedIsEmpty,
           ApplicantsAreOutside, OneApplication, FindByConversationId, IsMember
<1>4. ASSUME GroupStep PROVE GInv'
    BY <1>1, <1>2, <1>4, CreateKeeps, DismissKeeps, ApplyKeeps, AcceptKeeps, RejectKeeps,
       SetRoleKeeps DEF GroupStep
<1> QED
    BY <1>3, <1>4, FriendStepKeeps DEF GroupNext

\* Every reachable state satisfies the invariant.
LEMMA GroupInductive == GroupSpec => []GInv
<1>1. GroupInit => GInv
    <2> SUFFICES ASSUME GroupInit PROVE GInv
        OBVIOUS
    <2>1. IInv /\ TypeOK /\ members = << >>
        BY InitOK DEF GroupInit, IInv, Init
    <2> QED
        BY <2>1 DEF GroupInit, GInv, GroupTypeOK, Separate, GroupIsSound, DissolvedIsEmpty,
           ApplicantsAreOutside, OneApplication, FindByConversationId
<1> QED
    BY <1>1, GroupInvStep, PTL DEF GroupSpec

\* The rows of both services keep their types and name conversations that exist.
THEOREM GroupTypes == GroupSpec => []GroupTypeOK
<1>1. GInv => GroupTypeOK
    BY DEF GInv
<1> QED
    BY <1>1, GroupInductive, PTL

\* Every group has one owner, who is a member, and at most kMaxGroupMembers members, and
\* nobody has a role outside of a group, whatever friends, members and admins do.
THEOREM GroupsAreSound == GroupSpec => []GroupIsSound
<1>1. GInv => GroupIsSound
    BY DEF GInv
<1> QED
    BY <1>1, GroupInductive, PTL

\* Nobody becomes a member of a dissolved group.
THEOREM DissolvedStaysEmpty == GroupSpec => []DissolvedIsEmpty
<1>1. GInv => DissolvedIsEmpty
    BY DEF GInv
<1> QED
    BY <1>1, GroupInductive, PTL

\* A pending applicant is no member, so HandleJoinReq's AddMember meets no existing row.
THEOREM AcceptNeverCollides == GroupSpec => []ApplicantsAreOutside
<1>1. GInv => ApplicantsAreOutside
    BY DEF GInv
<1> QED
    BY <1>1, GroupInductive, PTL

\* Groups do not disturb friends: requests, friendship rows and private conversations agree
\* although both services change conversation_members.
THEOREM FriendsBesideGroups == GroupSpec => []AcceptedAreFriends
<1>1. GInv => AcceptedAreFriends
    BY DEF GInv, IInv
<1> QED
    BY <1>1, GroupInductive, PTL

\* Two users never have two pending friend requests, whatever groups they share.
THEOREM PendingBesideGroups == GroupSpec => []OnePending
<1>1. GInv => OnePending
    BY DEF GInv, IInv
<1> QED
    BY <1>1, GroupInductive, PTL

\* No group request puts anyone back into the conversation of a deleted friendship.
THEOREM PartedBesideGroups == GroupSpec => []PartedCannotTalk
<1>1. GInv => PartedCannotTalk
    BY DEF GInv, IInv
<1> QED
    BY <1>1, GroupInductive, PTL

\* No step of either service turns a blocked row into a friend's.
THEOREM BlocksBesideGroups == GroupSpec => BlockSurvivesAccept
<1>1. ASSUME GInv, [GroupNext]_allVars, NEW p \in Pairs, friendship[p].status = "blocked"
      PROVE  friendship'[p].status \in {"blocked", "deleted"}
    <2>1. CASE FriendStep
        BY <1>1, <2>1, FriendStepIsNext, BlockStep DEF GInv
    <2>2. CASE GroupStep
        BY <1>1, <2>2 DEF GroupStep, HandleCreateGroup, HandleDismissGroup, HandleJoinGroup,
           HandleLeave, HandleKickMember, HandleSetMemberRole, HandleJoinReqAccept,
           HandleJoinReqReject, friendVars, vars
    <2>3. CASE UNCHANGED allVars
        BY <1>1, <2>3 DEF allVars, vars
    <2> QED
        BY <1>1, <2>1, <2>2, <2>3 DEF GroupNext
<1>2. ASSUME GInv, [GroupNext]_allVars
      PROVE  [\A p \in Pairs : friendship[p].status = "blocked"
                               => friendship'[p].status \in {"blocked", "deleted"}]_vars
    BY <1>1, <1>2
<1> QED
    BY <1>2, GroupInductive, PTL DEF GroupSpec, BlockSurvivesAccept
=============================================================================
