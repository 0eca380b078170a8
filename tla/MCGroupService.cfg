CONSTANTS
    u1 = u1
    u2 = u2
    u3 = u3
    u4 = u4
    Users = {u1, u2, u3, u4}
    MaxRequests = 2
    CreateRequests <- Creations
    MaxMembers = 3
    FriendUsers = {u1, u2}
    AdminTargets = {u2}
    MaxGroups = 1
    MaxJoins = 1
SPECIFICATION GroupSpec
CHECK_DEADLOCK FALSE
INVARIANTS
    AcceptedAreFriends
    OnePending
    PartedCannotTalk
    GroupIsSound
    DissolvedIsEmpty
    ApplicantsAreOutside
PROPERTY BlockSurvivesAccept
