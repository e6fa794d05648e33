--------------------------- MODULE MCElementCount ---------------------------
(* Every array of up to a few elements, with the right count and wrong ones. *)
EXTENDS ElementCount
=============================================================================
