--------------------------- MODULE MCConnSession ---------------------------
(* ConnSession on small sets.  The requests cover: the same device again, the same *)
(* type on another device, and a login without device.                             *)
EXTENDS ConnSession, TLC

CONSTANTS u1, d1, d2, t1

Req(u, d, t) == [user |-> u, device_id |-> d, device_type |-> t]
OneUserRequests == {Req(u1, d1, t1), Req(u1, d2, t1), Req(u1, Empty, Empty)}

Symmetry == Permutations(Conns) \cup Permutations(Workers)
=============================================================================
