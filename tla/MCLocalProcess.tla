--------------------------- MODULE MCLocalProcess ---------------------------
(* A target taken through campaigns over two builds.                      *)
EXTENDS LocalProcess

CONSTANTS b1, b2

MCBuilds == {b1, b2}
=============================================================================
