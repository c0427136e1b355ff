------------------------------- MODULE Absent -------------------------------
(* The value of what does not exist, shared by modules checked together.    *)
CONSTANT None
=============================================================================
