--------------------------- MODULE MCSyncService ---------------------------
(* MsgService and SyncService on small sets. *)
EXTENDS SyncService, TLC

CONSTANTS u1, u2, c1, k1, k2

OnlyU1 == [c \in Convs |-> {u1}]
Send(u, c, k) == [user |-> u, conv |-> c, key |-> k]

\* Two messages with their own ids, more than a cache of one entry holds, and one without
\* an id from a user who is not a member.
Requests == {Send(u1, c1, k1), Send(u1, c1, k2), Send(u2, c1, NoKey)}

Symmetry == Permutations(Workers)
=============================================================================
