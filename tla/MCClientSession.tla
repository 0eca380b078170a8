-------------------------- MODULE MCClientSession --------------------------
(* ClientSession on small sets of threads and requests. *)
EXTENDS ClientSession

CONSTANTS a1, a2, l1, o1, s1
=============================================================================
