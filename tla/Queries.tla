------------------------------ MODULE Queries ------------------------------
(***************************************************************************)
(* The query programs of A1: record.c reads a table of places, one of five *)
(* programs makes its index of it (id_query_naive, _indexed, _binsort and  *)
(* _bonus, coord_query_naive), and the loop of id_query.c or coord_query.c *)
(* looks up one line of the standard input after the other.                *)
(*                                                                         *)
(* A line of the table is the sequence of its columns, an integer as atol  *)
(* and atof read it.  Records are known by their place in the array, from  *)
(* 1; NULL is 0.  Memory that was never written holds anything; what the   *)
(* program does with a pointer read from it is "undefined" and the         *)
(* execution is not followed further.                                      *)
(***************************************************************************)
EXTENDS Integers, Sequences, FiniteSets, FiniteSetsExt

CONSTANTS Tables,           \* the lines behind the header
          Needles,          \* the queries: numbers, and pairs for coord_query
          Points,
          JunkValues,       \* integers that uninitialised memory may hold
          InitialCapacity,  \* 100 in read_records
          MaxQueries        \* bound: lines of the standard input

NULL == 0
Wild == -1   \* a pointer that was never set

\* The name that a line holds is not taken for one that it does not hold.
ASSUME QueriesAssumption ==
  /\ Tables \subseteq Seq(Seq(Int))
  /\ \A lines \in Tables : \A n \in DOMAIN lines : lines[n] # << >> => lines[n][1] # Wild
  /\ Needles \cup JunkValues \subseteq Int
  /\ Points \subseteq Int \X Int
  /\ InitialCapacity \in Nat \ {0}
  /\ MaxQueries \in Nat

\* The field that each column is stored in; the other fields are not looked at
\* (record.h).  The columns west and south are both stored in west.
Columns == << "name", "alternative_names", "osm_type", "osm_id", "class", "type", "lon",
              "lat", "place_rank", "importance", "street", "city", "county", "state",
              "country", "country_code", "display_name", "west", "west", "east", "north",
              "wikidata", "wikipedia", "housenumbers" >>
Fields  == {"name", "osm_id", "lon", "lat", "west"}

VARIABLES program,            \* which of the five programs
          table, header,      \* the file of records
          at_line,            \* lines that getline has returned
          qpc,
          rs, capacity,       \* read_records: the array and its size
          index,              \* _indexed: copies of the keys; _bonus: the tree
          at, from,           \* the record or node looked at, and the way to it
          left, right,        \* binary_search
          needle, hit,        \* the query and what lookup returned
          queries

reading == <<at_line, rs, capacity>>
search  == <<at, from, left, right>>
query_vars == <<program, table, header, qpc, reading, index, search, needle, hit, queries>>

Programs == {"naive", "indexed", "binsort", "bonus", "coord"}

QueriesInit ==
  /\ program \in Programs
  /\ table \in Tables
  /\ header \in {"right", "wrong", "none", "no file"}
  /\ header = "none" => table = << >>
  /\ qpc = "open"
  /\ at_line = 0
  /\ rs = << >>
  /\ capacity = 0
  /\ index = << >>
  /\ at = NULL /\ from = <<NULL, "root">>
  /\ left = 0 /\ right = 0
  /\ needle = 0 /\ hit = NULL
  /\ queries = 0

Goto(label) == qpc' = label

-----------------------------------------------------------------------------
(***************************************************************************)
(* record.c.                                                               *)
(***************************************************************************)

\* input_looks_ok compares the first line; for an empty file it returns -1, which
\* is true: there are no records, and no error.
input_looks_ok == header \in {"right", "none"}

\* read_records up to the loop.
OpenTable ==
  /\ qpc = "open"
  /\ IF header # "no file" /\ input_looks_ok
       THEN Goto("read") /\ capacity' = InitialCapacity
       ELSE Goto("failed") /\ UNCHANGED capacity
  /\ UNCHANGED <<program, table, header, at_line, rs, index, search, needle, hit, queries>>

\* read_record: a column is stored if a tab ends it; later columns that go to the
\* same field win.  In a line without a tab not even the name is set, a pointer.
read_record(line, junk) ==
  [f \in Fields |->
     LET set == { i \in 1 .. Len(line) - 1 : i <= Len(Columns) /\ Columns[i] = f }
     IN  IF set # {} THEN line[Max(set)] ELSE IF f = "name" THEN Wild ELSE junk]

\* Faulty variant, for mutation testing: the array grows one record too late.
ReadLineLate ==
  /\ qpc = "read"
  /\ at_line < Len(table)
  /\ \E junk \in JunkValues : rs' = Append(rs, read_record(table[at_line + 1], junk))
  /\ at_line' = at_line + 1
  /\ capacity' = IF Len(rs') > capacity THEN capacity * 2 ELSE capacity
  /\ UNCHANGED <<program, table, header, qpc, index, search, needle, hit, queries>>

\* One turn of the loop: rs[i] is read, and the array doubled when it is full.
ReadLine ==
  /\ qpc = "read"
  /\ at_line < Len(table)
  /\ \E junk \in JunkValues : rs' = Append(rs, read_record(table[at_line + 1], junk))
  /\ at_line' = at_line + 1
  /\ capacity' = IF Len(rs') = capacity THEN capacity * 2 ELSE capacity
  /\ UNCHANGED <<program, table, header, qpc, index, search, needle, hit, queries>>

EndOfTable ==
  /\ qpc = "read"
  /\ at_line = Len(table)
  /\ Goto("make")
  /\ at' = 1
  /\ from' = <<NULL, "root">>
  /\ UNCHANGED <<program, table, header, reading, index, left, right, needle, hit, queries>>

-----------------------------------------------------------------------------
(***************************************************************************)
(* mk_index of the five programs.                                          *)
(***************************************************************************)

\* mk_naive keeps the array as it is.
MakeNaive ==
  /\ qpc = "make"
  /\ program \in {"naive", "coord"}
  /\ Goto("loop")
  /\ UNCHANGED <<program, table, header, reading, index, search, needle, hit, queries>>

\* mk_indexed of id_query_indexed: the keys side by side, with their records.
MakeIndexed ==
  /\ qpc = "make"
  /\ program = "indexed"
  /\ index' = [i \in 1 .. Len(rs) |-> [osm_id |-> rs[i].osm_id, value |-> i]]
  /\ Goto("loop")
  /\ UNCHANGED <<program, table, header, reading, search, needle, hit, queries>>

\* mk_indexed of id_query_binsort: qsort, with equal keys in any order.
MakeBinsort ==
  /\ qpc = "make"
  /\ program = "binsort"
  /\ \E order \in [1 .. Len(rs) -> 1 .. Len(rs)] :
       /\ \A i, j \in 1 .. Len(rs) :
            i < j => order[i] # order[j] /\ rs[order[i]].osm_id <= rs[order[j]].osm_id
       /\ rs' = [i \in 1 .. Len(rs) |-> rs[order[i]]]
  /\ Goto("loop")
  /\ UNCHANGED <<program, table, header, at_line, capacity, index, search, needle, hit, queries>>

\* The pointer in a node, or the root.
Child(step) == IF step[2] = "root" THEN IF index = << >> THEN NULL ELSE 1
               ELSE index[step[1]][step[2]]

\* The side that construct_treeNode takes at a node with the given key.
Turn(key, wanted) == IF key <= wanted THEN "right" ELSE "left"

\* The node for record at, and the tree once the pointer it was reached by is set.
NewNode(l, r) == [osm_id |-> rs[at].osm_id, value |-> at, left |-> l, right |-> r]
Linked == IF from[2] = "root" THEN index
          ELSE [index EXCEPT ![from[1]][from[2]] = Len(index) + 1]

\* construct_treeNode for record at: go down one node, or make a new one.  malloc
\* does not clear it, so that its children are what the memory holds.
InsertNode ==
  LET node == Child(from) IN
  /\ qpc = "make"
  /\ program = "bonus"
  /\ at <= Len(rs)
  /\ \/ /\ node > NULL
        /\ from' = <<node, Turn(index[node].osm_id, rs[at].osm_id)>>
        /\ UNCHANGED <<index, at, qpc>>
     \/ /\ node = NULL
        /\ \E l, r \in {NULL, Wild} : index' = Append(Linked, NewNode(l, r))
        /\ at' = at + 1
        /\ from' = <<NULL, "root">>
        /\ UNCHANGED qpc
     \/ /\ node = Wild
        /\ Goto("undefined")
        /\ UNCHANGED <<index, at, from>>
  /\ UNCHANGED <<program, table, header, reading, left, right, needle, hit, queries>>

TreeMade ==
  /\ qpc = "make"
  /\ program = "bonus"
  /\ at > Len(rs)
  /\ Goto("loop")
  /\ UNCHANGED <<program, table, header, reading, index, search, needle, hit, queries>>

-----------------------------------------------------------------------------
(***************************************************************************)
(* The loop over the queries, and lookup of the five programs.             *)
(***************************************************************************)

\* What sscanf of coord_query leaves in lon and lat: if one or both numbers are
\* missing in the line, they hold anything.
Scanned == Points \cup (JunkValues \X JunkValues)

\* getline, and atol or sscanf.
NextQuery ==
  /\ qpc = "loop"
  /\ queries < MaxQueries
  /\ queries' = queries + 1
  /\ needle' \in IF program = "coord" THEN Scanned ELSE Needles
  /\ Goto("lookup")
  /\ at' = 1
  /\ from' = <<NULL, "root">>
  /\ left' = 1
  /\ right' = Len(rs)
  /\ hit' = IF program = "coord" THEN 1 ELSE NULL
  /\ UNCHANGED <<program, table, header, reading, index>>

Found(r) == hit' = r /\ Goto("answered")

\* lookup_naive and lookup_indexed of id_query: one turn of the loop.
Key(i)   == IF program = "indexed" THEN index[i].osm_id ELSE rs[i].osm_id
Value(i) == IF program = "indexed" THEN index[i].value  ELSE i

ScanIds ==
  /\ qpc = "lookup"
  /\ program \in {"naive", "indexed"}
  /\ IF at > Len(rs) THEN Found(NULL) /\ UNCHANGED at
     ELSE IF Key(at) = needle THEN Found(Value(at)) /\ UNCHANGED at
     ELSE at' = at + 1 /\ UNCHANGED <<qpc, hit>>
  /\ UNCHANGED <<program, table, header, reading, index, from, left, right, needle, queries>>

\* Faulty variants: the loop ends when one record is left, or the upper half keeps
\* the median.
BinarySearchShort ==
  /\ qpc = "lookup"
  /\ program = "binsort"
  /\ LET median == (left + right) \div 2 IN
       IF left >= right THEN Found(NULL) /\ UNCHANGED <<left, right>>
       ELSE IF rs[median].osm_id < needle
         THEN left' = median + 1 /\ UNCHANGED <<right, qpc, hit>>
       ELSE IF rs[median].osm_id > needle
         THEN right' = median - 1 /\ UNCHANGED <<left, qpc, hit>>
       ELSE Found(median) /\ UNCHANGED <<left, right>>
  /\ UNCHANGED <<program, table, header, reading, index, at, from, needle, queries>>

BinarySearchStuck ==
  /\ qpc = "lookup"
  /\ program = "binsort"
  /\ LET median == (left + right) \div 2 IN
       IF left > right THEN Found(NULL) /\ UNCHANGED <<left, right>>
       ELSE IF rs[median].osm_id < needle
         THEN left' = median /\ UNCHANGED <<right, qpc, hit>>
       ELSE IF rs[median].osm_id > needle
         THEN right' = median - 1 /\ UNCHANGED <<left, qpc, hit>>
       ELSE Found(median) /\ UNCHANGED <<left, right>>
  /\ UNCHANGED <<program, table, header, reading, index, at, from, needle, queries>>

\* binary_search: one turn of the loop.
BinarySearch ==
  /\ qpc = "lookup"
  /\ program = "binsort"
  /\ LET median == (left + right) \div 2 IN
       IF left > right THEN Found(NULL) /\ UNCHANGED <<left, right>>
       ELSE IF rs[median].osm_id < needle
         THEN left' = median + 1 /\ UNCHANGED <<right, qpc, hit>>
       ELSE IF rs[median].osm_id > needle
         THEN right' = median - 1 /\ UNCHANGED <<left, qpc, hit>>
       ELSE Found(median) /\ UNCHANGED <<left, right>>
  /\ UNCHANGED <<program, table, header, reading, index, at, from, needle, queries>>

\* lookup_binary of id_query_bonus: one call of the recursion.
WalkTree ==
  LET node == Child(from) IN
  /\ qpc = "lookup"
  /\ program = "bonus"
  /\ CASE node = NULL -> Found(NULL) /\ UNCHANGED from
       [] node = Wild -> Goto("undefined") /\ UNCHANGED <<hit, from>>
       [] OTHER -> IF index[node].osm_id = needle
                     THEN Found(index[node].value) /\ UNCHANGED from
                     ELSE /\ from' = <<node, IF index[node].osm_id > needle
                                               THEN "left" ELSE "right">>
                          /\ UNCHANGED <<qpc, hit>>
  /\ UNCHANGED <<program, table, header, reading, index, at, left, right, needle, queries>>

\* distance, squared: the root is monotone.
Distance(i, point) ==
  (point[1] - rs[i].lon) * (point[1] - rs[i].lon) + (point[2] - rs[i].lat) * (point[2] - rs[i].lat)

\* lookup_naive of coord_query: one turn of the loop, from the first record on,
\* which is read even if there is none.
ScanPoints ==
  /\ qpc = "lookup"
  /\ program = "coord"
  /\ IF rs = << >> THEN Goto("undefined") /\ UNCHANGED <<at, hit>>
     ELSE IF at >= Len(rs) THEN Found(hit) /\ UNCHANGED at
     ELSE /\ at' = at + 1
          /\ hit' = IF Distance(at + 1, needle) < Distance(hit, needle) THEN at + 1 ELSE hit
          /\ UNCHANGED qpc
  /\ UNCHANGED <<program, table, header, reading, index, from, left, right, needle, queries>>

\* printf of what lookup returned, with the name of the record if there is one.
PrintAnswer ==
  /\ qpc = "answered"
  /\ Goto(IF hit # NULL /\ rs[hit].name = Wild THEN "undefined" ELSE "loop")
  /\ UNCHANGED <<program, table, header, reading, index, search, needle, hit, queries>>

\* free_indexed of id_query_bonus follows children that were never set.
FreesWild ==
  program = "bonus" /\ \E i \in DOMAIN index : Wild \in {index[i].left, index[i].right}

\* The end of the input: the index, and free_records, every line and the array.
FreeAll ==
  /\ qpc = "loop"
  /\ Goto(IF FreesWild THEN "undefined" ELSE "freed")
  /\ rs' = << >>
  /\ index' = << >>
  /\ UNCHANGED <<program, table, header, at_line, capacity, search, needle, hit, queries>>

QueriesNext ==
  \/ OpenTable \/ ReadLine \/ EndOfTable
  \/ MakeNaive \/ MakeIndexed \/ MakeBinsort \/ InsertNode \/ TreeMade
  \/ NextQuery \/ ScanIds \/ BinarySearch \/ WalkTree \/ ScanPoints
  \/ PrintAnswer \/ FreeAll

-----------------------------------------------------------------------------
(***************************************************************************)
(* Properties.                                                             *)
(***************************************************************************)
Matching == { i \in 1 .. Len(rs) : rs[i].osm_id = needle }
Nearest  == { i \in 1 .. Len(rs) : \A j \in 1 .. Len(rs) :
                                     Distance(i, needle) <= Distance(j, needle) }

\* All programs give the answer of a plain search: a record with the number that
\* was asked for if there is one, and the first such record of the file unless
\* it was sorted; for coordinates the first of the nearest records.
AnswerIsRight ==
  qpc = "answered" =>
    CASE program = "coord"   -> hit = Min(Nearest)
      [] program = "binsort" -> IF Matching = {} THEN hit = NULL ELSE hit \in Matching
      [] OTHER               -> hit = IF Matching = {} THEN NULL ELSE Min(Matching)

\* read_records writes inside the array it has allocated, loses no record when
\* the array grows or is sorted, and takes the fields that matter from their own
\* columns in every line that is long enough.
RecordsAreLines ==
  /\ qpc = "read" => Len(rs) < capacity
  /\ qpc \in {"read", "make", "loop", "lookup", "answered"} =>
       /\ Len(rs) = at_line
       /\ \A n \in 1 .. at_line : Len(table[n]) > 8 =>
            \E i \in 1 .. Len(rs) :
              /\ rs[i].name = table[n][1]
              /\ rs[i].osm_id = table[n][4]
              /\ rs[i].lon = table[n][7]
              /\ rs[i].lat = table[n][8]

\* Reading, the making of the index and every look-up come to an end.
QueriesEnd == <>(qpc \in {"off", "failed", "undefined", "freed"})

=============================================================================
