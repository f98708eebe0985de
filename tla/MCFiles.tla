------------------------------ MODULE MCFiles ------------------------------
(* Constants of the model-checking runs of Files. *)
EXTENDS Files

CONSTANTS fa, fb, ea, eb, ra
=============================================================================
