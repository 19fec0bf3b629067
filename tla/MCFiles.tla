------------------------------ MODULE MCFiles ------------------------------
(* Instances of Files for TLC.                                             *)
EXTENDS Files, TLC

CONSTANTS a, b

\* A file of one byte and one of two.
MCText == (a :> 1) @@ (b :> 2)
=============================================================================
