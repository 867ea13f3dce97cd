----------------------------- MODULE MCRetrieve -----------------------------
(***************************************************************************)
(* Model-checking instance of Retrieve: blocks of two bytes; files of five *)
(* bytes (the last block is short), of two full blocks, and with a NUL in  *)
(* the middle and at the beginning.                                        *)
(***************************************************************************)
EXTENDS Retrieve

CONSTANTS x, y

MCOriginals == { <<x, y, y, x, y>>, <<x, x, y, x>>, <<x, Nul, y>>, <<Nul, y>> }
MCOldFiles  == { << >>, <<y, y, y>>, <<x, x, x, x, x, x>> }

=============================================================================
