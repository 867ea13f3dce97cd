--------------------------- MODULE MCFhistogramMT ---------------------------
(***************************************************************************)
(* Model-checking instance of FhistogramMT: a file with a chunk and a byte,*)
(* and a file of exactly one chunk, whose last merge finds nothing to add. *)
(***************************************************************************)
EXTENDS FhistogramMT

MCContent == << <<{0, 1}, {1}, {0}>>, <<{0}, {0, 1}>> >>

=============================================================================
