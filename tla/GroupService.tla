---------------------------- MODULE GroupService ----------------------------
(***************************************************************************)
(* server/service/group_service.cpp composed with FriendService: both keep *)
(* their members in conversation_members, and a group request may name any *)
(* conversation.  Creating, dissolving and accepting into a group need     *)
(* transactions, so the model is of SQLite and a handler is one action.    *)
(* Name, avatar and notice of a group (HandleUpdateGroup) are left out.    *)
(***************************************************************************)
EXTENDS FriendService

CONSTANTS
    CreateRequests,    \* the CreateGroupReqs clients send: records [owner, others]
    MaxMembers,        \* kMaxGroupMembers
    FriendUsers,       \* the users who use the friend service
    AdminTargets,      \* the users whose account status an admin changes
    MaxGroups,         \* bound: groups ever created
    MaxJoins           \* bound: join requests

ASSUME GroupAssumption ==
    /\ IsFiniteSet(Users)
    /\ CreateRequests \subseteq [owner : Users, others : SUBSET Users]
    /\ MaxMembers \in Nat
    /\ FriendUsers \subseteq Users /\ AdminTargets \subseteq Users

VARIABLES
    groups,     \* rows of groups: pairs <<conversation, owner_id>>
    owners,     \* the pairs <<c, u>> of conversation_members with role Owner
    admins,     \* ... and those with role Admin; all others have role Member
    joins,      \* rows of group_join_requests: [conv, user, status]
    dissolved   \* history: the conversations of dissolved groups

groupVars == <<groups, owners, admins, joins, dissolved>>
friendVars == <<account, requests, friendship, parted>>
allVars == <<vars, groupVars>>

Member == 0
Admin == 1
Owner == 2
JoinRequest == [conv : Nat, user : Users, status : RequestStatus]

GroupInit ==
    /\ Init
    /\ groups = {}
    /\ owners = {}
    /\ admins = {}
    /\ joins = << >>
    /\ dissolved = {}

-----------------------------------------------------------------------------
\* DAO operations

IsMember(c, u) == c \in DOMAIN members /\ u \in members[c]

RoleOf(c, u) ==
    IF <<c, u>> \in owners THEN Owner ELSE IF <<c, u>> \in admins THEN Admin ELSE Member

FindByConversationId(c) == \E u \in Users : <<c, u>> \in groups

FindPendingJoinRequest(c, u) ==
    \E j \in DOMAIN joins : joins[j] = [conv |-> c, user |-> u, status |-> "pending"]

UpdateJoinRequestStatus(j, s) == joins' = [joins EXCEPT ![j].status = s]

\* The role goes with the row of conversation_members.
RowsGo(gone) == owners' = owners \ gone /\ admins' = admins \ gone

RemoveMember(c, u) ==
    /\ members' = [members EXCEPT ![c] = @ \ {u}]
    /\ RowsGo({<<c, u>>})

\* The rows that a step of FriendService removes take their roles with them.
RowsFollow == RowsGo({p \in owners \cup admins : p[2] \notin members'[p[1]]})

-----------------------------------------------------------------------------
\* Handlers

HandleCreateGroup(r) ==
    LET others == r.others \ {r.owner}
        conv == Len(members) + 1
    IN  /\ Cardinality(groups) + Cardinality(dissolved) < MaxGroups
        /\ Cardinality(others) >= 2
        /\ Cardinality(others) + 1 <= MaxMembers
        /\ \A u \in others : account[u] = "normal"
        /\ members' = Append(members, others \cup {r.owner})
        /\ groups' = groups \cup {<<conv, r.owner>>}
        /\ owners' = owners \cup {<<conv, r.owner>>}
        /\ UNCHANGED <<friendVars, admins, joins, dissolved>>

\* Mutant: the rows of conversation_members are kept.
HandleDismissGroupKeeps(u, c) ==
    /\ <<c, u>> \in groups
    /\ groups' = groups \ {<<c, u>>}
    /\ dissolved' = dissolved \cup {c}
    /\ UNCHANGED <<members, owners, admins, friendVars, joins>>

HandleDismissGroup(u, c) ==
    /\ <<c, u>> \in groups
    /\ groups' = {g \in groups : g[1] # c}
    /\ members' = [members EXCEPT ![c] = {}]
    /\ RowsGo({c} \X Users)
    /\ dissolved' = dissolved \cup {c}
    /\ UNCHANGED <<friendVars, joins>>

\* Mutant: members may apply.
HandleJoinGroupMember(u, c) ==
    /\ FindByConversationId(c)
    /\ ~FindPendingJoinRequest(c, u)
    /\ Len(joins) < MaxJoins
    /\ joins' = Append(joins, [conv |-> c, user |-> u, status |-> "pending"])
    /\ UNCHANGED <<vars, groups, owners, admins, dissolved>>

HandleJoinGroup(u, c) ==
    /\ FindByConversationId(c)
    /\ ~IsMember(c, u)
    /\ ~FindPendingJoinRequest(c, u)
    /\ Len(joins) < MaxJoins
    /\ joins' = Append(joins, [conv |-> c, user |-> u, status |-> "pending"])
    /\ UNCHANGED <<vars, groups, owners, admins, dissolved>>

\* The operator must be owner or admin of the conversation the request names.
MayAnswer(u, j) ==
    /\ joins[j].status = "pending"
    /\ IsMember(joins[j].conv, u)
    /\ RoleOf(joins[j].conv, u) # Member

\* CountMembers < kMaxGroupMembers, inside the transaction.
HasRoom(c) == Cardinality(members[c]) < MaxMembers

HandleJoinReqAccept(u, j) ==
    LET c == joins[j].conv
        v == joins[j].user
    IN  /\ MayAnswer(u, j)
        /\ account[v] = "normal"
        /\ HasRoom(c)
        /\ ~IsMember(c, v)   \* UNIQUE(conversation_id, user_id)
        /\ members' = [members EXCEPT ![c] = @ \cup {v}]
        /\ UpdateJoinRequestStatus(j, "accepted")
        /\ UNCHANGED <<friendVars, groups, owners, admins, dissolved>>

HandleJoinReqReject(u, j) ==
    /\ MayAnswer(u, j)
    /\ UpdateJoinRequestStatus(j, "rejected")
    /\ UNCHANGED <<vars, groups, owners, admins, dissolved>>

\* Mutant: the owner may leave.
HandleLeaveGroupOwnerToo(u, c) ==
    /\ IsMember(c, u)
    /\ RemoveMember(c, u)
    /\ UNCHANGED <<friendVars, groups, joins, dissolved>>

\* HandleLeaveGroup, of a group or of a private conversation.
HandleLeave(u, c) ==
    /\ IsMember(c, u)
    /\ RoleOf(c, u) # Owner
    /\ RemoveMember(c, u)
    /\ UNCHANGED <<friendVars, groups, joins, dissolved>>

HandleKickMember(u, v, c) ==
    /\ u # v
    /\ IsMember(c, u) /\ RoleOf(c, u) # Member
    /\ IsMember(c, v) /\ RoleOf(c, v) < RoleOf(c, u)
    /\ RemoveMember(c, v)
    /\ UNCHANGED <<friendVars, groups, joins, dissolved>>

HandleSetMemberRole(u, v, c, role) ==
    /\ IsMember(c, u) /\ RoleOf(c, u) = Owner
    /\ IsMember(c, v) /\ u # v
    /\ owners' = owners \ {<<c, v>>}
    /\ admins' = IF role = Admin THEN admins \cup {<<c, v>>} ELSE admins \ {<<c, v>>}
    /\ UNCHANGED <<vars, groups, joins, dissolved>>

-----------------------------------------------------------------------------
FriendStep ==
    \/ \E u, v \in FriendUsers :
        HandleAddFriend(u, v) \/ HandleDeleteFriend(u, v) \/ HandleBlock(u, v) \/ HandleUnblock(u, v)
    \/ \E r \in DOMAIN requests : 
        HandleRequestAccept(r) \/ HandleRequestRollback(r) \/ HandleRequestReject(r)
    \/ \E u \in AdminTargets : \E s \in AccountStatus : UpdateStatus(u, s)

GroupStep ==
    \/ \E r \in CreateRequests : HandleCreateGroup(r)
    \/ \E u \in Users, c \in DOMAIN members :
        \/ HandleDismissGroup(u, c)
        \/ HandleJoinGroup(u, c)
        \/ HandleLeave(u, c)
        \/ \E v \in Users : HandleKickMember(u, v, c)
        \/ \E v \in Users, role \in {Member, Admin} : HandleSetMemberRole(u, v, c, role)
    \/ \E u \in Users, j \in DOMAIN joins : HandleJoinReqAccept(u, j) \/ HandleJoinReqReject(u, j)

GroupNext ==
    \/ FriendStep /\ RowsFollow /\ UNCHANGED <<groups, joins, dissolved>>
    \/ GroupStep

GroupSpec == GroupInit /\ [][GroupNext]_allVars

-----------------------------------------------------------------------------
\* Properties

\* The rows keep their types, and name conversations that exist.
GroupTypeOK ==
    /\ TypeOK
    /\ groups \subseteq (DOMAIN members) \X Users
    /\ owners \subseteq (DOMAIN members) \X Users
    /\ admins \subseteq (DOMAIN members) \X Users
    /\ joins \in Seq(JoinRequest)
    /\ \A j \in DOMAIN joins : joins[j].conv \in DOMAIN members
    /\ dissolved \subseteq DOMAIN members

\* groups.owner_id and conversation_members.role agree whatever members and friends do: a
\* group has one owner, who is a member, and outside of groups nobody has a role, so
\* nobody can kick or promote in a private conversation.  However many requests are
\* accepted, a group has at most kMaxGroupMembers.
GroupIsSound ==
    /\ owners = groups
    /\ \A p \in owners \cup admins : p[2] \in members[p[1]] /\ FindByConversationId(p[1])
    /\ \A p, q \in groups : p[1] = q[1] => p = q
    /\ \A p \in groups : Cardinality(members[p[1]]) <= MaxMembers

\* "Delete the group row and the members": a dissolved group stays without members,
\* whatever join requests were pending when it was dissolved.
DissolvedIsEmpty == \A c \in dissolved : members[c] = {} /\ ~FindByConversationId(c)

\* A user with a pending join request is not a member, however often users leave, are
\* kicked and apply: an accept never fails on UNIQUE(conversation_id, user_id), which
\* would leave the request pending for ever.
ApplicantsAreOutside ==
    \A j \in DOMAIN joins :
        joins[j].status = "pending" => ~IsMember(joins[j].conv, joins[j].user)

\* FindPendingJoinRequest: a user has at most one pending request to a group.
OneApplication ==
    \A i, j \in DOMAIN joins : joins[i].status = "pending" /\ joins[i] = joins[j] => i = j
=============================================================================
