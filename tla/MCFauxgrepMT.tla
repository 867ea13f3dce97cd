---------------------------- MODULE MCFauxgrepMT ----------------------------
(***************************************************************************)
(* Model-checking instance of FauxgrepMT: three files, of which one has    *)
(* two matches around a line without one, one has none and one has a match.*)
(***************************************************************************)
EXTENDS FauxgrepMT

MCMatches == << <<TRUE, FALSE, TRUE>>, <<FALSE>>, <<TRUE>> >>

=============================================================================
