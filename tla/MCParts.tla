-------------------------------- MODULE MCParts --------------------------------
(* An instance of Parts. *)
EXTENDS Parts

CONSTANTS wstask, httpd, o1, o2, s1, s2, e1, e2, l1, l2
=============================================================================
