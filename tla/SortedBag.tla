------------------------------ MODULE SortedBag ------------------------------
(***************************************************************************)
(* What radix promises of its store of numbers: it keeps every number that *)
(* was added, as often as it was added, and a take hands over the smallest *)
(* ones in ascending order, at most BatchMax of them at a time, until as   *)
(* many as were asked for are handed over or none are left.                *)
(***************************************************************************)
EXTENDS Integers, Sequences

CONSTANTS Numbers, BatchMax

VARIABLES contents,   \* the numbers in the store, in ascending order
          wanted,     \* how many the take under way still has to hand over
          batch       \* the numbers handed over last

Least(S) == CHOOSE x \in S : \A y \in S : x <= y

Init == contents = << >> /\ wanted = 0 /\ batch = << >>

Add ==
  /\ wanted = 0
  /\ \E number \in Numbers :
       LET smaller(x) == x < number
           others(x)  == x >= number
       IN  contents' = SelectSeq(contents, smaller) \o <<number>> \o SelectSeq(contents, others)
  /\ UNCHANGED <<wanted, batch>>

Ask ==
  /\ wanted = 0
  /\ wanted' \in Nat \ {0}
  /\ UNCHANGED <<contents, batch>>

HandOver ==
  /\ wanted > 0
  /\ LET m == Least({wanted, BatchMax, Len(contents)})
     IN  /\ batch' = SubSeq(contents, 1, m)
         /\ contents' = SubSeq(contents, m + 1, Len(contents))
         /\ wanted' = IF m = 0 THEN 0 ELSE wanted - m

\* The program ends and its store with it.
Discard ==
  /\ wanted = 0
  /\ contents' = << >>
  /\ UNCHANGED <<wanted, batch>>

Next == Add \/ Ask \/ HandOver \/ Discard

Spec == Init /\ [][Next]_<<contents, wanted, batch>>

=============================================================================
