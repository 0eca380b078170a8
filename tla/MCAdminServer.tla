--------------------------- MODULE MCAdminServer ---------------------------
(* AdminServer on small sets. *)
EXTENDS AdminServer

Codes == {"admin.login", "admin.manage"}
Lists == {{}, Codes}
=============================================================================
