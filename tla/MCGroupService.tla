--------------------------- MODULE MCGroupService ---------------------------
(* FriendService and GroupService on small sets. *)
EXTENDS GroupService

CONSTANTS u1, u2, u3, u4

\* A group of three; too few members; too many.
Creations == {[owner |-> u1, others |-> {u2, u3}], [owner |-> u1, others |-> {u1, u2}],
              [owner |-> u2, others |-> {u1, u3, u4}]}
=============================================================================
