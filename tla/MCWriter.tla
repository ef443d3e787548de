------------------------------ MODULE MCWriter ------------------------------
(* A writer with a short channel and batches of two. *)
EXTENDS Writer
=============================================================================
