--------------------------- MODULE MCResponseStore ---------------------------
(* Model checking ResponseStore; the bounds are in the .cfg files.         *)
EXTENDS ResponseStore
=============================================================================
