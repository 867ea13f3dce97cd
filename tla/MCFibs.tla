------------------------------- MODULE MCFibs -------------------------------
(***************************************************************************)
(* Model-checking instance of Fibs: three lines, two of them equal.        *)
(***************************************************************************)
EXTENDS Fibs

MCInput == <<5, 0, 5>>

=============================================================================
