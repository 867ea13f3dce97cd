------------------------------- MODULE MCTools -------------------------------
(***************************************************************************)
(* Model-checking instance of Tools: every file of up to four bytes, and   *)
(* tables of up to four lines in an array that has to grow.                *)
(***************************************************************************)
EXTENDS Tools

MCFiles == UNION { [1 .. n -> Classes] : n \in 0 .. 4 }

\* A line with the given number of columns; its name is its number.
Line(name, id, lon, lat, columns) ==
  [i \in 1 .. columns |->
     CASE i = 1 -> name [] i = 4 -> id [] i = 7 -> lon [] i = 8 -> lat [] OTHER -> 9]

\* No line, one line, lines in and out of order, equal keys, a line that ends
\* before its number, one that ends before its latitude and one without a tab.
MCTables ==
  { << >>,
    << Line(1, 5, 0, 0, 24) >>,
    << Line(1, 5, 0, 0, 24), Line(2, 3, 2, 2, 24), Line(3, 7, 2, 0, 24), Line(4, 3, 0, 0, 24) >>,
    << Line(1, 3, 1, 1, 24), Line(2, 5, 1, 1, 24), Line(3, 7, 0, 2, 24) >>,
    << Line(1, 3, 1, 1, 24), Line(2, 5, 1, 1, 1) >>,
    << Line(1, 5, 2, 2, 24), Line(2, 5, 0, 0, 3), Line(3, 3, 1, 0, 8), Line(4, 5, 2, 2, 25) >> }

MCPoints == { <<0, 0>>, <<1, 2>> }

=============================================================================
