---------------------------- MODULE Tools_proofs ----------------------------
(***************************************************************************)
(* Proofs about the programs of one thread.  The query programs of A1, for *)
(* every table and all queries: no record is lost on its way from the file *)
(* to the index, and all five programs give the answer of a plain search.  *)
(* file of A0, for every file: the answer is the format that the bytes     *)
(* have, although the predicates share one stream.  The client of A3, for  *)
(* any users, passwords, salts and contents of the stack and any number of *)
(* starts, each of which may be killed anywhere: what it says about a      *)
(* registration is true, and a user whose salt was read from the file is   *)
(* known again.                                                            *)
(***************************************************************************)
EXTENDS Tools, NetworkingClient, FiniteSetTheorems, SequenceTheorems, WellFoundedInduction, TLAPS

-----------------------------------------------------------------------------
(***************************************************************************)
(* Least and greatest elements.                                            *)
(***************************************************************************)
LEMMA LeastNat ==
  ASSUME NEW S \in SUBSET Nat, S # {}
  PROVE  \E m \in S : \A k \in S : m <= k
<1>1. IsWellFoundedOn(OpToRel(<, Nat), Nat)
  BY NatLessThanWellFounded
<1>2. PICK m \in S : \A k \in S : ~(<<k, m>> \in OpToRel(<, Nat))
  BY <1>1, WFMin
<1>3. \A k \in S : ~(k < m)
  BY <1>2 DEF OpToRel
<1> QED
  BY <1>3

\* The least element of a set is its minimum.
LEMMA MinIs ==
  ASSUME NEW S \in SUBSET Int, NEW m \in S, \A k \in S : m <= k
  PROVE  Min(S) = m
<1>1. Min(S) \in S /\ \A k \in S : Min(S) <= k
  BY DEF Min
<1>2. Min(S) \in Int /\ m \in Int /\ Min(S) <= m /\ m <= Min(S)
  BY <1>1
<1> QED
  BY <1>2

\* A nonempty set of places has a greatest element.
LEMMA MaxIn ==
  ASSUME NEW n \in Nat, NEW S \in SUBSET (1 .. n), S # {}
  PROVE  Max(S) \in S /\ \A k \in S : Max(S) >= k
<1> DEFINE D == { n - i : i \in S }
<1>1. D \in SUBSET Nat /\ D # {}
  <2>1. \A i \in S : i \in 1 .. n /\ n - i \in Nat
    OBVIOUS
  <2> QED
    BY <2>1
<1>2. PICK d \in D : \A k \in D : d <= k
  BY <1>1, LeastNat
<1>3. PICK i \in S : d = n - i
  OBVIOUS
<1>4. \A k \in S : i >= k
  <2> TAKE k \in S
  <2>1. n - k \in D
    OBVIOUS
  <2>2. n - i <= n - k
    BY <1>2, <1>3, <2>1
  <2> QED
    BY <2>2
<1> QED
  BY <1>3, <1>4 DEF Max

\* Column k, and no other, is stored in field f.
OnlyColumn(f, k) == k \in 1 .. 24 /\ \A i \in 1 .. 24 : Columns[i] = f <=> i = k

\* The fields that the queries use have one column each.
LEMMA OwnColumns ==
  /\ OnlyColumn("name", 1)
  /\ OnlyColumn("osm_id", 4)
  /\ OnlyColumn("lon", 7)
  /\ OnlyColumn("lat", 8)
<1>1. ASSUME NEW i \in 1 .. 24
      PROVE  /\ Columns[i] = "name" <=> i = 1
             /\ Columns[i] = "osm_id" <=> i = 4
             /\ Columns[i] = "lon" <=> i = 7
             /\ Columns[i] = "lat" <=> i = 8
  BY DEF Columns
<1> QED
  BY <1>1 DEF OnlyColumn

\* The column that a line stores in such a field.
LEMMA OneColumn ==
  ASSUME NEW f, NEW k, OnlyColumn(f, k), NEW n \in Nat, k <= n
  PROVE  { i \in 1 .. n : i <= 24 /\ Columns[i] = f } = {k}
<1> USE DEF OnlyColumn
<1>1. ASSUME NEW i \in 1 .. n, i <= 24 PROVE Columns[i] = f <=> i = k
  <2>1. i \in 1 .. 24
    BY <1>1
  <2> QED
    BY <2>1
<1>2. k \in 1 .. n /\ k <= 24
  OBVIOUS
<1> QED
  BY <1>1, <1>2

\* A line as a record: the fields that are looked at come from their own columns.
RowIs(r, line) ==
  Len(line) > 8 =>
    r.name = line[1] /\ r.osm_id = line[4] /\ r.lon = line[7] /\ r.lat = line[8]

\* read_record makes a record with the fields of the line.
LEMMA ReadRecord ==
  ASSUME NEW line \in Seq(Int), NEW junk \in Int
  PROVE  /\ read_record(line, junk) \in [Fields -> Int]
         /\ RowIs(read_record(line, junk), line)
<1> DEFINE set(f) == { i \in 1 .. Len(line) - 1 : i <= Len(Columns) /\ Columns[i] = f }
<1>1. Len(Columns) = 24
  BY DEF Columns
<1> DEFINE other(f) == IF f = "name" THEN Wild ELSE junk
<1>2. read_record(line, junk) = [f \in Fields |-> IF set(f) # {} THEN line[Max(set(f))] ELSE other(f)]
  BY DEF read_record
<1>8. \A f \in Fields : other(f) \in Int
  BY DEF Wild
<1> HIDE DEF other
<1>3. \A f \in Fields : set(f) \in SUBSET (1 .. Len(line))
  OBVIOUS
<1>4. /\ Len(line) > 8 => set("name") = {1}
      /\ Len(line) > 8 => set("osm_id") = {4}
      /\ Len(line) > 8 => set("lon") = {7}
      /\ Len(line) > 8 => set("lat") = {8}
  <2> SUFFICES ASSUME Len(line) > 8
               PROVE  /\ set("name") = {1} /\ set("osm_id") = {4}
                      /\ set("lon") = {7} /\ set("lat") = {8}
    OBVIOUS
  <2> DEFINE n == Len(line) - 1
             one(f) == { i \in 1 .. n : i <= 24 /\ Columns[i] = f }
  <2>1. n \in Nat /\ 1 <= n /\ 4 <= n /\ 7 <= n /\ 8 <= n
    OBVIOUS
  <2>2. /\ set("name") = one("name") /\ set("osm_id") = one("osm_id")
        /\ set("lon") = one("lon") /\ set("lat") = one("lat")
    BY <1>1
  <2> HIDE DEF set, n
  <2>3. one("name") = {1}
    <3>1. OnlyColumn("name", 1)
      BY OwnColumns
    <3> QED
      BY <2>1, <3>1, OneColumn
  <2>4. one("osm_id") = {4}
    <3>1. OnlyColumn("osm_id", 4)
      BY OwnColumns
    <3> QED
      BY <2>1, <3>1, OneColumn
  <2>5. one("lon") = {7}
    <3>1. OnlyColumn("lon", 7)
      BY OwnColumns
    <3> QED
      BY <2>1, <3>1, OneColumn
  <2>6. one("lat") = {8}
    <3>1. OnlyColumn("lat", 8)
      BY OwnColumns
    <3> QED
      BY <2>1, <3>1, OneColumn
  <2> HIDE DEF one
  <2> QED
    BY <2>2, <2>3, <2>4, <2>5, <2>6
<1> HIDE DEF set
<1>5. ASSUME NEW f \in Fields PROVE (IF set(f) # {} THEN line[Max(set(f))] ELSE other(f)) \in Int
  <2>1. CASE set(f) # {}
    <3>1. Len(line) \in Nat /\ set(f) \in SUBSET (1 .. Len(line))
      BY <1>3
    <3>2. Max(set(f)) \in set(f)
      BY <2>1, <3>1, MaxIn
    <3>3. Max(set(f)) \in 1 .. Len(line)
      BY <3>1, <3>2
    <3> QED
      BY <2>1, <3>3
  <2> QED
    BY <1>8, <2>1
<1>6. \A n \in Nat : Max({n}) = n
  BY DEF Max
<1>7. RowIs(read_record(line, junk), line)
  <2>1. ASSUME NEW f \in Fields, NEW k \in Nat, set(f) = {k} PROVE read_record(line, junk)[f] = line[k]
    <3>1. set(f) # {} /\ Max(set(f)) = k
      BY <1>6, <2>1
    <3> QED
      BY <1>2, <3>1
  <2> QED
    BY <1>4, <2>1 DEF RowIs, Fields
<1> QED
  BY <1>2, <1>5, <1>7

-----------------------------------------------------------------------------
(***************************************************************************)
(* The tree of id_query_bonus.  Node i holds record i, because records are *)
(* inserted in the order of the file and nodes made in that order too.     *)
(* What lies below a node is told by the keys alone: record j is below an  *)
(* earlier record a if no record before a tells the two apart, and on the  *)
(* side of a that construct_treeNode would take.                           *)
(***************************************************************************)
K(i) == rs[i].osm_id

Part(a, side) ==
  { j \in a + 1 .. Len(rs) :
      /\ \A e \in 1 .. a - 1 : K(a) < K(e) <=> K(j) < K(e)
      /\ Turn(K(a), K(j)) = side }

\* What lies below the link that a step goes along.
Below(step) == IF step[2] = "root" THEN 1 .. Len(rs) ELSE Part(step[1], step[2])

Sides == {"left", "right"}

IsLink(step) ==
  \/ step = <<NULL, "root">>
  \/ \E a \in 1 .. Len(index), side \in Sides : step = <<a, side>>

\* A link leads to the first record below it, if there is one already.
LinkInv(a, side) ==
  \/ /\ index[a][side] \in {NULL, Wild}
     /\ \A j \in Part(a, side) : j > Len(index)
  \/ /\ index[a][side] \in Part(a, side)
     /\ index[a][side] <= Len(index)
     /\ \A j \in Part(a, side) : index[a][side] <= j

Nodes == [osm_id : Int, value : Nat, left : Int, right : Int]

TreeInv ==
  /\ Len(index) <= Len(rs)
  /\ index \in Seq(Nodes)
  /\ \A i \in 1 .. Len(index) : index[i].osm_id = K(i) /\ index[i].value = i
  /\ \A a \in 1 .. Len(index), side \in Sides : LinkInv(a, side)

\* Keys are integers.
LEMMA KeyType ==
  ASSUME rs \in Seq([Fields -> Int]), NEW i \in 1 .. Len(rs) PROVE K(i) \in Int
<1>1. rs[i] \in [Fields -> Int]
  OBVIOUS
<1> QED
  BY <1>1 DEF K, Fields

\* A record below a link, other than the first one, is below the first one.
LEMMA DeeperPart ==
  ASSUME rs \in Seq([Fields -> Int]), NEW a \in 1 .. Len(rs), NEW side \in Sides,
         NEW m \in Part(a, side), \A k \in Part(a, side) : m <= k,
         NEW j \in Part(a, side), j # m
  PROVE  j \in Part(m, Turn(K(m), K(j)))
<1>1. /\ m \in a + 1 .. Len(rs)
      /\ \A e \in 1 .. a - 1 : K(a) < K(e) <=> K(m) < K(e)
      /\ Turn(K(a), K(m)) = side
  BY DEF Part
<1>2. /\ j \in a + 1 .. Len(rs)
      /\ \A e \in 1 .. a - 1 : K(a) < K(e) <=> K(j) < K(e)
      /\ Turn(K(a), K(j)) = side
  BY DEF Part
<1>3. j \in m + 1 .. Len(rs) /\ Len(rs) \in Nat
  BY <1>1, <1>2
<1>4. \A i \in 1 .. Len(rs) : K(i) \in Int
  BY KeyType
<1>5. K(m) < K(a) <=> K(j) < K(a)
  BY <1>1, <1>2, <1>3, <1>4 DEF Turn
<1>6. ASSUME NEW e \in 1 .. m - 1 PROVE K(m) < K(e) <=> K(j) < K(e)
  <2>1. CASE e < a
    BY <1>1, <1>2, <2>1
  <2>2. CASE e = a
    BY <1>5, <2>2
  <2>3. CASE e > a
    <3>1. e \in a + 1 .. Len(rs) /\ e \notin Part(a, side)
      BY <1>1, <2>3
    <3>2. /\ K(m) \in Int /\ K(j) \in Int /\ K(e) \in Int /\ K(a) \in Int
      BY <1>1, <1>3, <1>4, <3>1
    <3>3. CASE Turn(K(a), K(e)) # side
      BY <1>1, <1>2, <3>2, <3>3 DEF Turn, Sides
    <3>4. CASE Turn(K(a), K(e)) = side
      <4>1. PICK d \in 1 .. a - 1 : ~(K(a) < K(d) <=> K(e) < K(d))
        BY <3>1, <3>4 DEF Part
      <4>2. K(d) \in Int
        BY <1>4, <4>1
      <4>3. (K(a) < K(d) <=> K(m) < K(d)) /\ (K(a) < K(d) <=> K(j) < K(d))
        BY <1>1, <1>2, <4>1
      <4> QED
        BY <3>2, <4>1, <4>2, <4>3
    <3> QED
      BY <3>3, <3>4
  <2> QED
    BY <1>1, <2>1, <2>2, <2>3
<1> QED
  BY <1>3, <1>6 DEF Part

\* There is one place in the tree where a new record can be linked: of two nodes that
\* it is below, the later one is below the earlier one on the same side.
LEMMA OnePlace ==
  ASSUME rs \in Seq([Fields -> Int]), NEW a \in 1 .. Len(rs), NEW d \in 1 .. Len(rs), a < d,
         NEW s \in Sides, NEW t \in Sides, NEW j \in Part(a, s), j \in Part(d, t)
  PROVE  d \in Part(a, s)
<1>1. /\ j \in d + 1 .. Len(rs)
      /\ \A e \in 1 .. d - 1 : K(d) < K(e) <=> K(j) < K(e)
      /\ \A e \in 1 .. a - 1 : K(a) < K(e) <=> K(j) < K(e)
      /\ Turn(K(a), K(j)) = s
  BY DEF Part
<1>2. \A i \in 1 .. Len(rs) : K(i) \in Int
  BY KeyType
<1>3. \A e \in 1 .. a - 1 : K(a) < K(e) <=> K(d) < K(e)
  BY <1>1
<1>4. a \in 1 .. d - 1 /\ j \in 1 .. Len(rs)
  BY <1>1
<1>5. K(d) < K(a) <=> K(j) < K(a)
  BY <1>1, <1>4
<1>6. Turn(K(a), K(d)) = s
  BY <1>1, <1>2, <1>4, <1>5 DEF Turn
<1>7. d \in a + 1 .. Len(rs)
  OBVIOUS
<1> QED
  BY <1>3, <1>6, <1>7 DEF Part

\* The same, at the root.
LEMMA BelowRoot ==
  ASSUME rs \in Seq([Fields -> Int]), NEW j \in 2 .. Len(rs)
  PROVE  j \in Part(1, Turn(K(1), K(j)))
BY DEF Part

\* The recursion turns to one of the two sides.
LEMMA TurnIsSide == \A k, l : Turn(k, l) \in Sides
BY DEF Turn, Sides

\* Going down one node: the node is the first record below the link, and every other
\* record below the link is below the node.
LEMMA GoDown ==
  ASSUME rs \in Seq([Fields -> Int]), TreeInv, NEW step, IsLink(step), Child(step) > NULL
  PROVE  /\ Child(step) \in 1 .. Len(index)
         /\ Child(step) \in Below(step)
         /\ \A j \in Below(step) : Child(step) <= j
         /\ \A j \in Below(step) : j # Child(step) =>
              j \in Part(Child(step), Turn(K(Child(step)), K(j)))
<1>1. Len(index) \in Nat /\ Len(rs) \in Nat /\ Len(index) <= Len(rs)
  BY DEF TreeInv
<1>2. CASE step = <<NULL, "root">>
  <2>1. index # << >> /\ Child(step) = 1
    BY <1>2 DEF Child, NULL
  <2>2. Len(index) >= 1
    BY <1>1, <2>1 DEF TreeInv
  <2>3. Below(step) = 1 .. Len(rs)
    BY <1>2 DEF Below
  <2>4. \A j \in 1 .. Len(rs) : j # 1 => j \in Part(1, Turn(K(1), K(j)))
    BY BelowRoot
  <2> QED
    BY <1>1, <2>1, <2>2, <2>3, <2>4
<1>3. ASSUME NEW a \in 1 .. Len(index), NEW side \in Sides, step = <<a, side>>
      PROVE  /\ Child(step) \in 1 .. Len(index)
             /\ Child(step) \in Below(step)
             /\ \A j \in Below(step) : Child(step) <= j
             /\ \A j \in Below(step) : j # Child(step) =>
                  j \in Part(Child(step), Turn(K(Child(step)), K(j)))
  <2>1. Child(step) = index[a][side] /\ Below(step) = Part(a, side)
    BY <1>3 DEF Child, Below, Sides
  <2>2. LinkInv(a, side)
    BY DEF TreeInv
  <2>3. /\ Child(step) \in Part(a, side)
        /\ Child(step) <= Len(index)
        /\ \A j \in Part(a, side) : Child(step) <= j
    BY <2>1, <2>2 DEF LinkInv, NULL, Wild
  <2>4. Child(step) \in 1 .. Len(index)
    BY <1>1, <2>3 DEF Part
  <2>5. a \in 1 .. Len(rs)
    BY <1>1
  <2>6. \A j \in Part(a, side) : j # Child(step) =>
          j \in Part(Child(step), Turn(K(Child(step)), K(j)))
    BY <2>3, <2>5, DeeperPart
  <2> QED
    BY <2>1, <2>3, <2>4, <2>6
<1> QED
  BY <1>2, <1>3 DEF IsLink

-----------------------------------------------------------------------------
(***************************************************************************)
(* The invariant of the query programs: the records are the lines of the   *)
(* table, the index is what the look-up relies on, and what a look-up has  *)
(* put aside does not match.                                               *)
(***************************************************************************)
Ready == qpc \in {"loop", "lookup", "answered"}

QueryTypeInv ==
  /\ program \in Programs \cup {"none"}
  /\ qpc \in {"off", "open", "failed", "read", "make", "loop", "lookup", "answered",
              "undefined", "freed"}
  /\ table \in Seq(Seq(Int))
  /\ rs \in Seq([Fields -> Int])
  /\ at_line \in Nat
  /\ capacity \in Nat
  /\ at \in Nat
  /\ left \in Int
  /\ right \in Int
  /\ qpc \in {"lookup", "answered"} =>
       needle \in IF program = "coord" THEN Int \X Int ELSE Int

RowsInv ==
  /\ qpc = "open" => rs = << >> /\ at_line = 0 /\ index = << >>
  /\ qpc = "read" =>
       /\ index = << >>
       /\ Len(rs) < capacity
       /\ at_line <= Len(table)
       /\ Len(rs) = at_line
       /\ \A n \in 1 .. at_line : RowIs(rs[n], table[n])
  /\ qpc = "make" \/ Ready =>
       /\ Len(rs) = at_line
       /\ \A n \in 1 .. at_line : \E i \in 1 .. Len(rs) : RowIs(rs[i], table[n])

Keys == [i \in 1 .. Len(rs) |-> [osm_id |-> rs[i].osm_id, value |-> i]]

MadeInv ==
  /\ program = "indexed" /\ Ready => index = Keys
  /\ program = "binsort" /\ Ready => \A i, j \in 1 .. Len(rs) : i < j => K(i) <= K(j)
  /\ program = "bonus" /\ qpc = "make" =>
       /\ TreeInv
       /\ at = Len(index) + 1
       /\ IsLink(from)
       /\ at <= Len(rs) => at \in Below(from)
  /\ program = "bonus" /\ Ready => TreeInv /\ Len(index) = Len(rs)

SearchInv ==
  qpc = "lookup" =>
    /\ program \in {"naive", "indexed"} => at > 0 /\ \A j \in Matching : at <= j
    /\ program = "binsort" => left >= 1 /\ right <= Len(rs) /\ Matching \subseteq left .. right
    /\ program = "bonus" => IsLink(from) /\ Matching \subseteq Below(from)
    /\ program = "coord" /\ rs # << >> =>
         /\ at \in 1 .. Len(rs)
         /\ hit \in 1 .. at
         /\ \A j \in 1 .. at : Distance(hit, needle) <= Distance(j, needle)
         /\ \A j \in 1 .. hit - 1 : Distance(hit, needle) < Distance(j, needle)

QueryInv == QueryTypeInv /\ RowsInv /\ MadeInv /\ SearchInv /\ AnswerIsRight

\* A sequence in another order is a sequence of the same length.
LEMMA Reordered ==
  ASSUME NEW S, NEW s \in Seq(S), NEW order \in [1 .. Len(s) -> 1 .. Len(s)]
  PROVE  /\ [i \in 1 .. Len(s) |-> s[order[i]]] \in Seq(S)
         /\ Len([i \in 1 .. Len(s) |-> s[order[i]]]) = Len(s)
OBVIOUS

\* Every step keeps the state of a query program in its ranges.
LEMMA QueryTypeStep == QueryTypeInv /\ [QueriesNext]_query_vars => QueryTypeInv'
<1> SUFFICES ASSUME QueryTypeInv, [QueriesNext]_query_vars PROVE QueryTypeInv'
  OBVIOUS
<1> USE DEF QueryTypeInv, reading, search, Goto, Found
<1>1. CASE OpenTable
  BY <1>1, QueriesAssumption DEF OpenTable
<1>2. CASE ReadLine
  <2>1. PICK junk \in JunkValues : rs' = Append(rs, read_record(table[at_line + 1], junk))
    BY <1>2 DEF ReadLine
  <2>2. table[at_line + 1] \in Seq(Int)
    BY <1>2 DEF ReadLine
  <2>3. read_record(table[at_line + 1], junk) \in [Fields -> Int]
    BY <2>2, ReadRecord, QueriesAssumption
  <2>4. rs' \in Seq([Fields -> Int])
    BY <2>1, <2>3, AppendProperties
  <2>5. capacity' \in Nat
    BY <1>2 DEF ReadLine
  <2> QED
    BY <1>2, <2>4, <2>5 DEF ReadLine
<1>3. CASE EndOfTable
  BY <1>3 DEF EndOfTable
<1>4. CASE MakeNaive \/ MakeIndexed \/ TreeMade
  BY <1>4 DEF MakeNaive, MakeIndexed, TreeMade
<1>5. CASE MakeBinsort
  <2>1. PICK order \in [1 .. Len(rs) -> 1 .. Len(rs)] : rs' = [i \in 1 .. Len(rs) |-> rs[order[i]]]
    BY <1>5 DEF MakeBinsort
  <2> HIDE DEF QueryTypeInv
  <2>2. rs \in Seq([Fields -> Int])
    BY DEF QueryTypeInv
  <2>3. rs' \in Seq([Fields -> Int])
    BY <2>1, <2>2, Reordered
  <2> QED
    BY <1>5, <2>3 DEF MakeBinsort, QueryTypeInv
<1>6. CASE InsertNode
  <2>1. UNCHANGED <<program, table, reading, left, right, needle>> /\ at' \in Nat
        /\ qpc = "make" /\ qpc' \in {"make", "undefined"}
    BY <1>6 DEF InsertNode
  <2> QED
    BY <2>1
<1>7. CASE NextQuery
  <2>1. needle' \in IF program = "coord" THEN Int \X Int ELSE Int
    BY <1>7, QueriesAssumption DEF NextQuery, Scanned
  <2>2. Len(rs) \in Int
    OBVIOUS
  <2> QED
    BY <1>7, <2>1, <2>2 DEF NextQuery
<1>8. CASE ScanIds
  BY <1>8 DEF ScanIds
<1>9. CASE BinarySearch
  <2>1. (left + right) \div 2 \in Int
    OBVIOUS
  <2>2. left' \in Int /\ right' \in Int
    BY <1>9, <2>1 DEF BinarySearch
  <2> QED
    BY <1>9, <2>2 DEF BinarySearch
<1>10. CASE WalkTree
  <2>1. UNCHANGED <<program, table, reading, at, left, right, needle>>
        /\ qpc = "lookup" /\ qpc' \in {"lookup", "answered", "undefined"}
    BY <1>10 DEF WalkTree
  <2> QED
    BY <2>1
<1>11. CASE ScanPoints
  BY <1>11 DEF ScanPoints
<1>12. CASE PrintAnswer \/ FreeAll
  BY <1>12, EmptySeq DEF PrintAnswer, FreeAll
<1>13. CASE UNCHANGED query_vars
  BY <1>13 DEF query_vars
<1> QED
  BY <1>1, <1>2, <1>3, <1>4, <1>5, <1>6, <1>7, <1>8, <1>9, <1>10, <1>11, <1>12, <1>13
     DEF QueriesNext

\* Sorting loses no record: an order without repetition is one of all of them.
LEMMA OrderIsOnto ==
  ASSUME NEW n \in Nat, NEW order \in [1 .. n -> 1 .. n],
         \A i, j \in 1 .. n : i < j => order[i] # order[j]
  PROVE  \A k \in 1 .. n : \E i \in 1 .. n : order[i] = k
<1>1. order \in Injection(1 .. n, 1 .. n)
  BY DEF Injection, IsInjective
<1>2. IsFiniteSet(1 .. n)
  BY FS_Interval
<1>3. order \in Surjection(1 .. n, 1 .. n)
  BY <1>1, <1>2, FS_Injection
<1> QED
  BY <1>3 DEF Surjection

\* Reading a line adds its record, and sorting keeps the records of all lines.
LEMMA RowsStep == QueryTypeInv /\ RowsInv /\ [QueriesNext]_query_vars => RowsInv'
<1> SUFFICES ASSUME QueryTypeInv, RowsInv, [QueriesNext]_query_vars PROVE RowsInv'
  OBVIOUS
<1> USE DEF reading, search, Goto, Found
<1>1. CASE OpenTable
  <2>1. Len(<< >>) = 0 /\ InitialCapacity \in Nat \ {0} /\ Len(table) \in Nat
    BY QueriesAssumption DEF QueryTypeInv
  <2> QED
    <3>1. /\ rs' = << >> /\ at_line' = 0 /\ index' = << >> /\ table' = table
          /\ qpc' \in {"read", "failed"}
          /\ qpc' = "read" => capacity' = InitialCapacity
      BY <1>1 DEF OpenTable, RowsInv
    <3>2. Len(rs') = 0 /\ (qpc' = "read" => Len(rs') < capacity')
      BY <2>1, <3>1
    <3>3. at_line' <= Len(table') /\ 1 .. at_line' = {}
      BY <2>1, <3>1
    <3> QED
      BY <3>1, <3>2, <3>3 DEF RowsInv, Ready
<1>2. CASE ReadLine
  <2>1. PICK junk \in JunkValues : rs' = Append(rs, read_record(table[at_line + 1], junk))
    BY <1>2 DEF ReadLine
  <2> DEFINE r == read_record(table[at_line + 1], junk)
  <2>2. table[at_line + 1] \in Seq(Int) /\ at_line + 1 <= Len(table)
    BY <1>2 DEF ReadLine, QueryTypeInv
  <2>3. r \in [Fields -> Int] /\ RowIs(r, table[at_line + 1])
    BY <2>2, ReadRecord, QueriesAssumption
  <2>4. /\ at_line' = at_line + 1 /\ at_line \in Nat /\ capacity \in Nat
        /\ Len(rs) = at_line
        /\ Len(rs) < capacity
        /\ capacity' = IF Len(rs') = capacity THEN capacity * 2 ELSE capacity
        /\ qpc = "read" /\ qpc' = "read" /\ table' = table /\ index' = << >>
        /\ \A n \in 1 .. at_line : RowIs(rs[n], table[n])
    BY <1>2 DEF ReadLine, RowsInv, QueryTypeInv
  <2> HIDE DEF r
  <2>5. /\ Len(rs') = Len(rs) + 1
        /\ \A n \in 1 .. Len(rs) : rs'[n] = rs[n]
        /\ rs'[Len(rs) + 1] = r
    BY <2>1, <2>3, AppendProperties DEF QueryTypeInv, r
  <2>6. Len(rs') < capacity'
    BY <2>4, <2>5
  <2>7. \A n \in 1 .. at_line' : RowIs(rs'[n], table[n])
    BY <2>3, <2>4, <2>5
  <2> QED
    BY <2>2, <2>4, <2>5, <2>6, <2>7 DEF RowsInv, Ready
<1>3. CASE EndOfTable
  BY <1>3 DEF EndOfTable, RowsInv, QueryTypeInv, Ready
<1>4. CASE MakeNaive \/ MakeIndexed \/ TreeMade
  BY <1>4 DEF MakeNaive, MakeIndexed, TreeMade, RowsInv, Ready
<1>5. CASE MakeBinsort
  <2>1. PICK order \in [1 .. Len(rs) -> 1 .. Len(rs)] :
          /\ \A i, j \in 1 .. Len(rs) :
               i < j => order[i] # order[j] /\ rs[order[i]].osm_id <= rs[order[j]].osm_id
          /\ rs' = [i \in 1 .. Len(rs) |-> rs[order[i]]]
    BY <1>5 DEF MakeBinsort
  <2>2. Len(rs) \in Nat
    BY DEF QueryTypeInv
  <2>3. \A k \in 1 .. Len(rs) : \E i \in 1 .. Len(rs) : order[i] = k
    <3>1. \A i, j \in 1 .. Len(rs) : i < j => order[i] # order[j]
      BY <2>1
    <3> QED
      BY <2>2, <3>1, OrderIsOnto
  <2>4. Len(rs') = Len(rs)
    BY <2>1, <2>2
  <2>5. /\ Len(rs) = at_line /\ UNCHANGED <<at_line, table>> /\ qpc' = "loop"
        /\ \A n \in 1 .. at_line : \E i \in 1 .. Len(rs) : RowIs(rs[i], table[n])
    BY <1>5 DEF MakeBinsort, RowsInv
  <2>6. ASSUME NEW n \in 1 .. at_line PROVE \E i \in 1 .. Len(rs) : RowIs(rs'[i], table[n])
    <3>1. PICK k \in 1 .. Len(rs) : RowIs(rs[k], table[n])
      BY <2>5
    <3>2. PICK i \in 1 .. Len(rs) : order[i] = k
      BY <2>3
    <3>3. rs'[i] = rs[k]
      BY <2>1, <3>2
    <3> QED
      BY <3>1, <3>3
  <2> QED
    BY <2>4, <2>5, <2>6 DEF RowsInv, Ready
<1>6. CASE \/ InsertNode \/ NextQuery \/ ScanIds \/ BinarySearch \/ WalkTree \/ ScanPoints
           \/ PrintAnswer
  <2>1. /\ UNCHANGED <<table, rs, at_line, capacity>>
        /\ qpc = "make" \/ Ready
        /\ qpc' \notin {"open", "read"}
    BY <1>6 DEF InsertNode, NextQuery, ScanIds, BinarySearch, WalkTree, ScanPoints, PrintAnswer,
       Ready
  <2> QED
    BY <2>1 DEF RowsInv
<1>7. CASE FreeAll
  BY <1>7 DEF FreeAll, RowsInv, Ready
<1>8. CASE UNCHANGED query_vars
  BY <1>8 DEF query_vars, RowsInv, Ready
<1> QED
  BY <1>1, <1>2, <1>3, <1>4, <1>5, <1>6, <1>7, <1>8 DEF QueriesNext

\* The invariants of the tree speak of the records and the index only.
LEMMA TreeFrame ==
  ASSUME UNCHANGED <<rs, index>>
  PROVE  /\ TreeInv <=> TreeInv'
         /\ \A step : (IsLink(step) <=> IsLink(step)') /\ Below(step)' = Below(step)
<1>1. \A i : K(i)' = K(i)
  BY DEF K
<1>2. \A a, side : Part(a, side)' = Part(a, side)
  BY DEF Part, K
<1>3. \A a, side : LinkInv(a, side)' <=> LinkInv(a, side)
  BY <1>2 DEF LinkInv
<1> QED
  BY <1>1, <1>2, <1>3 DEF TreeInv, IsLink, Below

\* The first node.
LEMMA FirstNode ==
  ASSUME rs \in Seq([Fields -> Int]), rs' = rs, index = << >>, at = 1, at <= Len(rs),
         NEW l \in {NULL, Wild}, NEW r \in {NULL, Wild}, index' = Append(index, NewNode(l, r))
  PROVE  TreeInv'
<1>1. K(1) \in Int /\ Len(rs) \in Nat
  BY KeyType
<1>2. NewNode(l, r) \in Nodes
  BY <1>1 DEF NewNode, Nodes, K, NULL, Wild
<1>3. index' \in Seq(Nodes) /\ Len(index') = 1 /\ index'[1] = NewNode(l, r)
  BY <1>2
<1>4. ASSUME NEW side \in Sides PROVE LinkInv(1, side)'
  <2>1. index'[1][side] \in {NULL, Wild}
    BY <1>3 DEF NewNode, Sides
  <2>2. \A j \in Part(1, side)' : j > 1
    BY DEF Part
  <2> QED
    BY <1>3, <2>1, <2>2 DEF LinkInv
<1>5. \A i \in 1 .. Len(index') : i = 1
  BY <1>3
<1>6. index'[1].osm_id = K(1)' /\ index'[1].value = 1
  BY <1>3 DEF NewNode, K
<1>7. Len(index') <= Len(rs')
  BY <1>1, <1>3
<1> QED
  BY <1>3, <1>4, <1>5, <1>6, <1>7 DEF TreeInv, Nodes

\* The record behind the last node.
LEMMA InRange ==
  ASSUME NEW n \in Nat, NEW m \in Nat, n + 1 <= m PROVE n + 1 \in 1 .. m
OBVIOUS

\* Setting a link changes that link and nothing else.
LinkedAs(linked, nodes, f, side, v) ==
  /\ linked \in Seq(Nodes)
  /\ Len(linked) = Len(nodes)
  /\ \A i \in 1 .. Len(nodes) :
       linked[i].osm_id = nodes[i].osm_id /\ linked[i].value = nodes[i].value
  /\ \A i \in 1 .. Len(nodes), s \in Sides :
       linked[i][s] = IF i = f /\ s = side THEN v ELSE nodes[i][s]

\* Setting a link of a node, as a sequence of nodes.
LEMMA Linking ==
  ASSUME NEW nodes \in Seq(Nodes), NEW f \in 1 .. Len(nodes), NEW side \in Sides, NEW v \in Int
  PROVE  LinkedAs([nodes EXCEPT ![f][side] = v], nodes, f, side, v)
<1> DEFINE node == [nodes[f] EXCEPT ![side] = v]
           linked == [nodes EXCEPT ![f] = node]
<1>1. nodes[f] \in Nodes
  OBVIOUS
<1>2. /\ node \in Nodes
      /\ node.osm_id = nodes[f].osm_id /\ node.value = nodes[f].value
      /\ \A s \in Sides : node[s] = IF s = side THEN v ELSE nodes[f][s]
  <2>1. CASE side = "left"
    <3>1. node = [nodes[f] EXCEPT !.left = v]
      BY <2>1
    <3> QED
      BY <1>1, <2>1, <3>1 DEF Nodes, Sides
  <2>2. CASE side = "right"
    <3>1. node = [nodes[f] EXCEPT !.right = v]
      BY <2>2
    <3> QED
      BY <1>1, <2>2, <3>1 DEF Nodes, Sides
  <2> QED
    BY <2>1, <2>2 DEF Sides
<1> HIDE DEF node
<1>3. /\ linked \in Seq(Nodes)
      /\ Len(linked) = Len(nodes)
      /\ \A i \in 1 .. Len(nodes) : linked[i] = IF i = f THEN node ELSE nodes[i]
  BY <1>2
<1>4. [nodes EXCEPT ![f][side] = v] = linked
  BY DEF node
<1> HIDE DEF linked
<1>5. ASSUME NEW i \in 1 .. Len(nodes)
      PROVE  linked[i].osm_id = nodes[i].osm_id /\ linked[i].value = nodes[i].value
  BY <1>2, <1>3
<1>6. ASSUME NEW i \in 1 .. Len(nodes), NEW s \in Sides
      PROVE  linked[i][s] = IF i = f /\ s = side THEN v ELSE nodes[i][s]
  <2>1. CASE i = f
    BY <1>2, <1>3, <2>1
  <2>2. CASE i # f
    BY <1>3, <2>2
  <2> QED
    BY <2>1, <2>2
<1> QED
  BY <1>3, <1>4, <1>5, <1>6 DEF LinkedAs

\* A node that is linked below another one.
LEMMA FurtherNode ==
  ASSUME rs \in Seq([Fields -> Int]), TreeInv, rs' = rs, at = Len(index) + 1, at <= Len(rs),
         NEW f \in 1 .. Len(index), NEW side \in Sides, index[f][side] = NULL,
         at \in Part(f, side), NEW l \in {NULL, Wild}, NEW r \in {NULL, Wild},
         index' = Append([index EXCEPT ![f][side] = Len(index) + 1], NewNode(l, r))
  PROVE  TreeInv'
<1> DEFINE n == Len(index)
           linked == [index EXCEPT ![f][side] = Len(index) + 1]
<1> HIDE DEF linked
<1>0. n \in Nat /\ Len(rs) \in Nat /\ index \in Seq(Nodes) /\ at = n + 1 /\ n <= Len(rs)
      /\ f \in 1 .. n /\ n = Len(index)
  <2>1. index \in Seq(Nodes)
    BY DEF TreeInv
  <2>2. Len(index) \in Nat /\ Len(rs) \in Nat
    BY <2>1
  <2> QED
    BY <2>1, <2>2
<1> HIDE DEF n
<1>1. n \in Nat /\ Len(rs) \in Nat /\ index \in Seq(Nodes) /\ at = n + 1 /\ at \in 1 .. Len(rs)
  BY <1>0, InRange
<1>2. NewNode(l, r) \in Nodes
  <2>1. K(at) \in Int
    BY <1>1, KeyType
  <2> QED
    BY <1>1, <2>1 DEF NewNode, Nodes, K, NULL, Wild
<1>3. /\ linked \in Seq(Nodes)
      /\ Len(linked) = n
      /\ \A i \in 1 .. n : linked[i].osm_id = index[i].osm_id /\ linked[i].value = index[i].value
      /\ \A i \in 1 .. n, s \in Sides :
           linked[i][s] = IF i = f /\ s = side THEN at ELSE index[i][s]
  <2>1. at \in Int /\ Len(index) + 1 = at /\ n = Len(index)
    BY <1>0
  <2>2. LinkedAs([index EXCEPT ![f][side] = at], index, f, side, at)
    BY <1>0, <2>1, Linking
  <2>3. LinkedAs(linked, index, f, side, at)
    BY <2>1, <2>2 DEF linked
  <2> HIDE DEF linked
  <2> QED
    BY <2>1, <2>3 DEF LinkedAs
<1> HIDE DEF linked
<1>4. /\ index' \in Seq(Nodes)
      /\ Len(index') = at
      /\ \A i \in 1 .. n : index'[i] = linked[i]
      /\ index'[at] = NewNode(l, r)
  <2>1. index' = Append(linked, NewNode(l, r))
    BY DEF linked
  <2>2. /\ Append(linked, NewNode(l, r)) \in Seq(Nodes)
        /\ Len(Append(linked, NewNode(l, r))) = Len(linked) + 1
        /\ \A i \in 1 .. Len(linked) : Append(linked, NewNode(l, r))[i] = linked[i]
        /\ Append(linked, NewNode(l, r))[Len(linked) + 1] = NewNode(l, r)
    BY <1>2, <1>3, AppendProperties
  <2> QED
    BY <1>1, <1>3, <2>1, <2>2
<1>10. ASSUME NEW i \in 1 .. Len(index'), i # at PROVE i \in 1 .. n /\ i \in 1 .. Len(rs)
  <2>1. i \in 1 .. n + 1 /\ i # n + 1 /\ n <= Len(rs)
    BY <1>0, <1>4, <1>10
  <2> QED
    BY <1>0, <2>1
<1>5. \A j \in Part(f, side) : j > n
  <2>1. LinkInv(f, side) /\ 0 \notin Part(f, side)
    BY DEF TreeInv, Part
  <2> QED
    BY <1>0, <2>1 DEF LinkInv, NULL
<1>6. \A a, s : Part(a, s)' = Part(a, s)
  BY DEF Part, K
<1>7. ASSUME NEW i \in 1 .. Len(index') PROVE index'[i].osm_id = K(i)' /\ index'[i].value = i
  <2>1. CASE i = at
    BY <1>4, <2>1 DEF NewNode, K
  <2>2. CASE i # at
    <3>1. i \in 1 .. n
      BY <1>10, <2>2
    <3> QED
      BY <1>0, <1>3, <1>4, <3>1 DEF TreeInv, K
  <2> QED
    BY <2>1, <2>2
<1>8. ASSUME NEW a \in 1 .. Len(index'), NEW s \in Sides PROVE LinkInv(a, s)'
  <2>1. CASE a = at
    <3>1. index'[a][s] \in {NULL, Wild}
      BY <1>4, <2>1 DEF NewNode, Sides
    <3>2. \A j \in Part(a, s) : j > at
      BY <1>1, <2>1 DEF Part
    <3> QED
      BY <1>4, <1>6, <3>1, <3>2 DEF LinkInv
  <2>2. CASE a # at
    <3>1. a \in 1 .. n /\ a \in 1 .. Len(rs)
      BY <1>10, <2>2
    <3>2. index'[a][s] = IF a = f /\ s = side THEN at ELSE index[a][s]
      <4>1. index'[a] = linked[a]
        BY <1>4, <3>1
      <4> QED
        BY <1>3, <3>1, <4>1
    <3>3. \A j \in Part(a, s) : j \in Nat
      BY <3>1 DEF Part
    <3>4. CASE a = f /\ s = side
      <4>1. \A j \in Part(a, s) : at <= j
        BY <1>1, <1>5, <3>3, <3>4
      <4> QED
        BY <1>1, <1>4, <1>6, <3>2, <3>4, <4>1 DEF LinkInv
    <3>5. CASE ~(a = f /\ s = side) /\ at \notin Part(a, s)
      <4>1. index'[a][s] = index[a][s] /\ LinkInv(a, s)
        BY <1>0, <3>1, <3>2, <3>5 DEF TreeInv
      <4>2. CASE index[a][s] \in {NULL, Wild} /\ \A j \in Part(a, s) : j > Len(index)
        <5>1. \A j \in Part(a, s) : j > at
          BY <1>1, <3>3, <3>5, <4>2
        <5> QED
          BY <1>4, <1>6, <4>1, <4>2, <5>1 DEF LinkInv
      <4>3. CASE /\ index[a][s] \in Part(a, s)
                 /\ index[a][s] <= Len(index)
                 /\ \A j \in Part(a, s) : index[a][s] <= j
        <5>1. index[a][s] <= at
          <6> DEFINE t == index[a][s]
          <6>1. t \in Nat
            BY <3>3, <4>3, Zenon
          <6>2. t <= n
            BY <1>0, <4>3
          <6> HIDE DEF t
          <6>3. t <= at
            BY <1>1, <6>1, <6>2
          <6> QED
            BY <6>3 DEF t
        <5> QED
          BY <1>4, <1>6, <4>1, <4>3, <5>1 DEF LinkInv
      <4> QED
        BY <4>1, <4>2, <4>3 DEF LinkInv
    <3>6. CASE ~(a = f /\ s = side) /\ at \in Part(a, s)
      <4>1. a # f
        BY <3>6 DEF Part
      <4>2. f \in 1 .. Len(rs)
        BY <1>1
      <4>3. ~(f < a)
        <5>1. SUFFICES ASSUME f < a PROVE FALSE
          OBVIOUS
        <5>2. a \in Part(f, side)
          BY <3>1, <3>6, <4>2, <5>1, OnePlace
        <5> QED
          BY <1>1, <1>5, <3>1, <5>2
      <4>4. a < f
        BY <1>1, <3>1, <4>1, <4>2, <4>3
      <4>5. f \in Part(a, s)
        BY <3>1, <3>6, <4>2, <4>4, OnePlace
      <4>6. LinkInv(a, s) /\ f <= n
        BY <1>0, <3>1 DEF TreeInv
      <4>7. /\ index[a][s] \in Part(a, s)
            /\ index[a][s] <= n
            /\ \A j \in Part(a, s) : index[a][s] <= j
        BY <1>1, <4>5, <4>6 DEF LinkInv
      <4>8. index[a][s] \in Nat /\ index[a][s] <= at
        <5>1. index[a][s] \in Nat /\ index[a][s] <= n
          BY <3>3, <4>7
        <5> QED
          BY <1>1, <5>1
      <4> QED
        BY <1>4, <1>6, <3>2, <3>6, <4>7, <4>8 DEF LinkInv
    <3> QED
      BY <3>4, <3>5, <3>6
  <2> QED
    BY <2>1, <2>2
<1>9. Len(index') <= Len(rs')
  BY <1>1, <1>4
<1> QED
  BY <1>4, <1>7, <1>8, <1>9 DEF TreeInv, Nodes

\* mk_index builds the index that its program needs, one record after the other.
LEMMA MadeStep ==
  QueryTypeInv /\ RowsInv /\ MadeInv /\ [QueriesNext]_query_vars => MadeInv'
<1> SUFFICES ASSUME QueryTypeInv, RowsInv, MadeInv, [QueriesNext]_query_vars PROVE MadeInv'
  OBVIOUS
<1> USE DEF reading, search, Goto, Found
<1>0. rs \in Seq([Fields -> Int]) /\ Len(rs) \in Nat /\ at \in Nat
  BY DEF QueryTypeInv
<1>1. CASE OpenTable \/ ReadLine \/ FreeAll
  <2>1. qpc' \in {"read", "failed", "undefined", "freed"}
    BY <1>1 DEF OpenTable, ReadLine, FreeAll
  <2> QED
    BY <2>1 DEF MadeInv, Ready
<1>2. CASE EndOfTable
  <2>1. /\ qpc' = "make" /\ at' = 1 /\ from' = <<NULL, "root">>
        /\ UNCHANGED <<rs, index>> /\ index = << >>
    BY <1>2 DEF EndOfTable, RowsInv
  <2>2. TreeInv
    BY <1>0, <2>1 DEF TreeInv
  <2>3. IsLink(from)' /\ Below(from)' = 1 .. Len(rs)
    BY <2>1 DEF IsLink, Below
  <2>4. at' = Len(index') + 1
    BY <2>1
  <2>5. at' <= Len(rs') => at' \in Below(from)'
    BY <1>0, <2>1, <2>3
  <2> QED
    BY <2>1, <2>2, <2>3, <2>4, <2>5, TreeFrame DEF MadeInv, Ready
<1>3. CASE MakeNaive
  BY <1>3 DEF MakeNaive, MadeInv
<1>4. CASE MakeIndexed
  BY <1>4 DEF MakeIndexed, MadeInv, Keys
<1>5. CASE MakeBinsort
  <2>1. PICK order \in [1 .. Len(rs) -> 1 .. Len(rs)] :
          /\ \A i, j \in 1 .. Len(rs) :
               i < j => order[i] # order[j] /\ rs[order[i]].osm_id <= rs[order[j]].osm_id
          /\ rs' = [i \in 1 .. Len(rs) |-> rs[order[i]]]
    BY <1>5 DEF MakeBinsort
  <2>2. Len(rs') = Len(rs)
    BY <1>0, <2>1, Reordered
  <2>3. \A i, j \in 1 .. Len(rs') : i < j => K(i)' <= K(j)'
    BY <2>1, <2>2 DEF K
  <2> QED
    BY <1>5, <2>3 DEF MakeBinsort, MadeInv
<1>6. CASE InsertNode
  <2>1. /\ qpc = "make" /\ program = "bonus" /\ at <= Len(rs) /\ rs' = rs /\ program' = program
        /\ TreeInv /\ at = Len(index) + 1 /\ IsLink(from) /\ at \in Below(from)
    BY <1>6 DEF InsertNode, MadeInv
  <2>2. Len(index) \in Nat
    BY <2>1 DEF TreeInv
  <2>3. CASE Child(from) > NULL
    <3>1. /\ Child(from) \in 1 .. Len(index)
          /\ \A j \in Below(from) : j # Child(from) =>
               j \in Part(Child(from), Turn(K(Child(from)), K(j)))
      BY <1>0, <2>1, <2>3, GoDown
    <3>2. /\ qpc' = "make" /\ UNCHANGED <<index, at>>
          /\ from' = <<Child(from), Turn(index[Child(from)].osm_id, rs[at].osm_id)>>
      BY <1>6, <2>3 DEF InsertNode, NULL, Wild
    <3>3. from' = <<Child(from), Turn(K(Child(from)), K(at))>>
      BY <2>1, <3>1, <3>2 DEF TreeInv, K
    <3> DEFINE to == <<Child(from), Turn(K(Child(from)), K(at))>>
    <3>4. IsLink(to)
      BY <3>1, TurnIsSide DEF IsLink
    <3>5. at \in Below(to)
      <4>1. at # Child(from)
        BY <2>1, <2>2, <3>1
      <4>2. Turn(K(Child(from)), K(at)) # "root"
        BY TurnIsSide DEF Sides
      <4> QED
        BY <2>1, <3>1, <4>1, <4>2 DEF Below
    <3> HIDE DEF to
    <3>6. IsLink(from)' /\ at' \in Below(from)'
      <4>1. from' = to
        BY <3>3 DEF to
      <4>2. IsLink(from)'
        BY <3>2, <3>4, <4>1 DEF IsLink
      <4>3. Below(from)' = Below(to)
        BY <2>1, <4>1 DEF Below, Part, K
      <4> QED
        BY <3>2, <3>5, <4>2, <4>3
    <3> QED
      BY <2>1, <3>2, <3>6, TreeFrame DEF MadeInv, Ready
  <2>4. CASE Child(from) = NULL
    <3>1. PICK l \in {NULL, Wild}, r \in {NULL, Wild} :
            index' = Append(IF from[2] = "root" THEN index
                            ELSE [index EXCEPT ![from[1]][from[2]] = Len(index) + 1],
                            NewNode(l, r))
      <4>1. \E l, r \in {NULL, Wild} : index' = Append(Linked, NewNode(l, r))
        BY <1>6, <2>4 DEF InsertNode, NULL, Wild
      <4> QED
        BY <4>1 DEF Linked
    <3>2. qpc' = "make" /\ at' = at + 1 /\ from' = <<NULL, "root">>
      BY <1>6, <2>4 DEF InsertNode, NULL, Wild
    <3>3. TreeInv' /\ Len(index') = Len(index) + 1
      <4>1. CASE from = <<NULL, "root">>
        <5>1. index = << >>
          BY <2>4, <4>1 DEF Child, NULL
        <5>2. at = 1 /\ index' = Append(index, NewNode(l, r))
          BY <2>1, <3>1, <4>1, <5>1
        <5>3. TreeInv'
          BY <1>0, <2>1, <5>1, <5>2, FirstNode
        <5> QED
          BY <5>1, <5>2, <5>3
      <4>2. ASSUME NEW f \in 1 .. Len(index), NEW side \in Sides, from = <<f, side>>
            PROVE  TreeInv' /\ Len(index') = Len(index) + 1
        <5>1. side # "root"
          BY DEF Sides
        <5>2. index[f][side] = NULL /\ at \in Part(f, side)
          BY <2>1, <2>4, <4>2, <5>1 DEF Child, Below
        <5>3. index' = Append([index EXCEPT ![f][side] = Len(index) + 1], NewNode(l, r))
          BY <3>1, <4>2, <5>1
        <5>4. TreeInv'
          BY <1>0, <2>1, <5>2, <5>3, FurtherNode
        <5>5. Len([index EXCEPT ![f][side] = Len(index) + 1]) = Len(index)
              /\ [index EXCEPT ![f][side] = Len(index) + 1] \in Seq(Nodes)
          <6>1. index \in Seq(Nodes) /\ Len(index) + 1 \in Int
            BY <2>1, <2>2 DEF TreeInv, Nodes
          <6>2. LinkedAs([index EXCEPT ![f][side] = Len(index) + 1], index, f, side, Len(index) + 1)
            BY <6>1, Linking
          <6> QED
            BY <6>2 DEF LinkedAs
        <5>6. NewNode(l, r) \in Nodes
          <6>1. at \in 1 .. Len(rs)
            BY <1>0, <2>1, <2>2, InRange
          <6>2. K(at) \in Int
            BY <1>0, <6>1, KeyType
          <6> QED
            BY <1>0, <6>2 DEF NewNode, Nodes, K, NULL, Wild
        <5> QED
          BY <5>3, <5>4, <5>5, <5>6, AppendProperties
      <4> QED
        BY <2>1, <4>1, <4>2 DEF IsLink
    <3>4. IsLink(from)' /\ Below(from)' = 1 .. Len(rs)
      BY <2>1, <3>2 DEF IsLink, Below
    <3>5. at' = Len(index') + 1 /\ (at' <= Len(rs') => at' \in Below(from)')
      BY <1>0, <2>1, <2>2, <3>2, <3>3, <3>4
    <3> QED
      BY <2>1, <3>2, <3>3, <3>4, <3>5 DEF MadeInv, Ready
  <2>5. CASE Child(from) = Wild
    <3>1. qpc' = "undefined"
      BY <1>6, <2>5 DEF InsertNode, NULL, Wild
    <3> QED
      BY <3>1 DEF MadeInv, Ready
  <2> QED
    BY <1>6, <2>3, <2>4, <2>5 DEF InsertNode
<1>7. CASE TreeMade
  <2>1. /\ UNCHANGED <<program, rs, index>> /\ program = "bonus" /\ qpc' = "loop"
        /\ TreeInv /\ at = Len(index) + 1 /\ at > Len(rs)
    BY <1>7 DEF TreeMade, MadeInv
  <2>2. Len(index) \in Nat /\ Len(index) <= Len(rs)
    BY <2>1 DEF TreeInv
  <2>3. Len(index) = Len(rs)
    BY <1>0, <2>1, <2>2
  <2> QED
    BY <2>1, <2>3, TreeFrame DEF MadeInv, Ready
<1>8. CASE \/ NextQuery \/ ScanIds \/ BinarySearch \/ WalkTree \/ ScanPoints \/ PrintAnswer
           \/ UNCHANGED query_vars
  <2>1. /\ UNCHANGED <<program, rs, index>>
        /\ \/ Ready /\ qpc' # "make"
           \/ UNCHANGED <<qpc, at, from>>
    BY <1>8 DEF NextQuery, ScanIds, BinarySearch, WalkTree, ScanPoints, PrintAnswer, query_vars,
       Ready
  <2>2. \A i : K(i)' = K(i)
    BY <2>1 DEF K
  <2>3. Keys' = Keys
    BY <2>1 DEF Keys
  <2>4. CASE Ready /\ qpc' # "make"
    BY <2>1, <2>2, <2>3, <2>4, TreeFrame DEF MadeInv
  <2>5. CASE UNCHANGED <<qpc, at, from>>
    <3>1. (IsLink(from) => IsLink(from)') /\ Below(from)' = Below(from)
      BY <2>1, <2>5, TreeFrame DEF IsLink, Below, Part, K
    <3> QED
      BY <2>1, <2>2, <2>3, <2>5, <3>1, TreeFrame DEF MadeInv, Ready
  <2> QED
    BY <2>1, <2>4, <2>5
<1> QED
  BY <1>1, <1>2, <1>3, <1>4, <1>5, <1>6, <1>7, <1>8 DEF QueriesNext

-----------------------------------------------------------------------------
(***************************************************************************)
(* The look-ups.                                                           *)
(***************************************************************************)
LEMMA SearchFrame ==
  ASSUME UNCHANGED <<rs, needle>>
  PROVE  /\ Matching' = Matching
         /\ \A i : Distance(i, needle)' = Distance(i, needle)
         /\ Nearest' = Nearest
<1>1. Matching' = Matching
  BY DEF Matching
<1>2. \A i : Distance(i, needle)' = Distance(i, needle)
  BY DEF Distance
<1>3. Nearest' = Nearest
  BY DEF Nearest, Distance
<1> QED
  BY <1>1, <1>2, <1>3

\* Distances are integers.
LEMMA DistanceType ==
  ASSUME rs \in Seq([Fields -> Int]), NEW point \in Int \X Int, NEW i \in 1 .. Len(rs)
  PROVE  Distance(i, point) \in Int
<1>1. rs[i].lon \in Int /\ rs[i].lat \in Int /\ point[1] \in Int /\ point[2] \in Int
  <2>1. rs[i] \in [Fields -> Int] /\ "lon" \in Fields /\ "lat" \in Fields
    BY DEF Fields
  <2>2. rs[i].lon \in Int /\ rs[i].lat \in Int
    BY <2>1
  <2>3. point[1] \in Int /\ point[2] \in Int
    OBVIOUS
  <2> QED
    BY <2>2, <2>3
<1>2. point[1] - rs[i].lon \in Int /\ point[2] - rs[i].lat \in Int
  BY <1>1
<1>3. \A a, b \in Int : a * a + b * b \in Int
  OBVIOUS
<1> QED
  BY <1>2, <1>3 DEF Distance

\* lookup_naive and lookup_indexed: nothing before the record looked at matches.
LEMMA ScanIdsStep ==
  ASSUME QueryTypeInv, MadeInv, SearchInv, ScanIds
  PROVE  SearchInv' /\ AnswerIsRight'
<1> USE DEF reading, Goto, Found
<1>1. /\ qpc = "lookup" /\ program \in {"naive", "indexed"}
      /\ UNCHANGED <<program, rs, needle, index>>
      /\ at \in Nat /\ at > 0 /\ \A j \in Matching : at <= j
      /\ rs \in Seq([Fields -> Int]) /\ Len(rs) \in Nat
  BY DEF ScanIds, SearchInv, QueryTypeInv
<1>2. Matching' = Matching /\ Matching \subseteq 1 .. Len(rs)
  BY <1>1, SearchFrame DEF Matching
<1>3. at <= Len(rs) => at \in 1 .. Len(rs) /\ Key(at) = rs[at].osm_id /\ Value(at) = at
  BY <1>1 DEF MadeInv, Ready, Keys, Key, Value
<1>4. CASE at > Len(rs)
  <2>1. hit' = NULL /\ qpc' = "answered"
    BY <1>4 DEF ScanIds
  <2>2. Matching = {}
    BY <1>1, <1>2, <1>4
  <2> QED
    BY <1>1, <1>2, <2>1, <2>2 DEF SearchInv, AnswerIsRight
<1>5. CASE at <= Len(rs) /\ Key(at) = needle
  <2>1. hit' = at /\ qpc' = "answered"
    BY <1>1, <1>3, <1>5 DEF ScanIds
  <2>2. at \in Matching
    BY <1>3, <1>5 DEF Matching
  <2>3. Min(Matching) = at
    BY <1>1, <1>2, <2>2, MinIs
  <2> QED
    BY <1>1, <1>2, <2>1, <2>2, <2>3 DEF SearchInv, AnswerIsRight
<1>6. CASE at <= Len(rs) /\ Key(at) # needle
  <2>1. at' = at + 1 /\ qpc' = "lookup"
    BY <1>1, <1>6 DEF ScanIds
  <2>2. at \notin Matching
    BY <1>3, <1>6 DEF Matching
  <2>3. \A j \in Matching : at + 1 <= j
    BY <1>1, <1>2, <2>2
  <2> QED
    BY <1>1, <1>2, <2>1, <2>3 DEF SearchInv, AnswerIsRight
<1> QED
  BY <1>1, <1>4, <1>5, <1>6

\* binary_search: what matches is between left and right.
LEMMA BinarySearchStep ==
  ASSUME QueryTypeInv, MadeInv, SearchInv, BinarySearch
  PROVE  SearchInv' /\ AnswerIsRight'
<1> USE DEF reading, Goto, Found
<1> DEFINE median == (left + right) \div 2
<1>1. /\ qpc = "lookup" /\ program = "binsort"
      /\ UNCHANGED <<program, rs, needle>>
      /\ left \in Int /\ right \in Int /\ left >= 1 /\ right <= Len(rs) /\ needle \in Int
      /\ Matching \subseteq left .. right
      /\ rs \in Seq([Fields -> Int]) /\ Len(rs) \in Nat
  BY DEF BinarySearch, SearchInv, QueryTypeInv
<1>2. Matching' = Matching /\ \A j \in Matching : j \in 1 .. Len(rs) /\ K(j) = needle
  BY <1>1, SearchFrame DEF Matching, K
<1>3. \A i, j \in 1 .. Len(rs) : i < j => K(i) <= K(j)
  BY <1>1 DEF MadeInv, Ready
<1>4. CASE left > right
  <2>1. hit' = NULL /\ qpc' = "answered"
    BY <1>4 DEF BinarySearch
  <2>2. Matching = {}
    BY <1>1, <1>4
  <2> QED
    BY <1>1, <1>2, <2>1, <2>2 DEF SearchInv, AnswerIsRight
<1>5. CASE left <= right
  <2>1. median \in left .. right /\ median \in 1 .. Len(rs) /\ median \in Int
    BY <1>1, <1>5
  <2>2. K(median) \in Int
    BY <1>1, <2>1, KeyType
  <2>3. CASE K(median) < needle
    <3>1. qpc' = "lookup" /\ left' = median + 1 /\ right' = right
      BY <1>1, <1>5, <2>3 DEF BinarySearch, K
    <3> HIDE DEF median
    <3>2. ASSUME NEW j \in Matching PROVE j \in median + 1 .. right
      <4>1. j \in 1 .. Len(rs) /\ K(j) = needle /\ j \in left .. right
        BY <1>1, <1>2
      <4>2. ~(j = median) /\ ~(j < median)
        BY <1>1, <1>3, <2>1, <2>2, <2>3, <4>1
      <4> QED
        BY <1>1, <2>1, <4>1, <4>2
    <3>3. left' >= 1
      BY <1>1, <2>1, <3>1
    <3> QED
      BY <1>1, <1>2, <3>1, <3>2, <3>3 DEF SearchInv, AnswerIsRight
  <2>4. CASE K(median) > needle
    <3>1. qpc' = "lookup" /\ left' = left /\ right' = median - 1
      BY <1>1, <1>5, <2>2, <2>4 DEF BinarySearch, K
    <3> HIDE DEF median
    <3>2. ASSUME NEW j \in Matching PROVE j \in left .. median - 1
      <4>1. j \in 1 .. Len(rs) /\ K(j) = needle /\ j \in left .. right
        BY <1>1, <1>2
      <4>2. ~(j = median) /\ ~(median < j)
        BY <1>1, <1>3, <2>1, <2>2, <2>4, <4>1
      <4> QED
        BY <1>1, <2>1, <4>1, <4>2
    <3>3. right' <= Len(rs)
      BY <1>1, <2>1, <3>1
    <3> QED
      BY <1>1, <1>2, <3>1, <3>2, <3>3 DEF SearchInv, AnswerIsRight
  <2>5. CASE K(median) = needle
    <3>1. qpc' = "answered" /\ hit' = median
      BY <1>1, <1>5, <2>5 DEF BinarySearch, K
    <3> HIDE DEF median
    <3>2. median \in Matching
      BY <2>1, <2>5 DEF Matching, K
    <3> QED
      BY <1>1, <1>2, <3>1, <3>2 DEF SearchInv, AnswerIsRight
  <2> QED
    BY <1>1, <2>2, <2>3, <2>4, <2>5
<1> QED
  BY <1>1, <1>4, <1>5

\* lookup_binary: what matches is below the link that the recursion has come along.
LEMMA WalkTreeStep ==
  ASSUME QueryTypeInv, MadeInv, SearchInv, WalkTree
  PROVE  SearchInv' /\ AnswerIsRight'
<1> USE DEF reading, Goto, Found
<1> DEFINE node == Child(from)
<1>1. /\ qpc = "lookup" /\ program = "bonus"
      /\ UNCHANGED <<program, rs, needle, index>>
      /\ TreeInv /\ Len(index) = Len(rs) /\ IsLink(from)
      /\ Matching \subseteq Below(from) /\ needle \in Int
      /\ rs \in Seq([Fields -> Int]) /\ Len(rs) \in Nat
  BY DEF WalkTree, SearchInv, QueryTypeInv, MadeInv, Ready
<1>2. Matching' = Matching /\ \A j \in Matching : j \in 1 .. Len(rs) /\ K(j) = needle
  BY <1>1, SearchFrame DEF Matching, K
<1>3. node \in {NULL, Wild} \/ node > NULL
  <2>1. CASE from = <<NULL, "root">>
    BY <2>1 DEF Child, NULL
  <2>2. ASSUME NEW a \in 1 .. Len(index), NEW side \in Sides, from = <<a, side>>
        PROVE  node \in {NULL, Wild} \/ node > NULL
    <3>1. node = index[a][side] /\ LinkInv(a, side)
      BY <1>1, <2>2 DEF Child, Sides, TreeInv
    <3>2. \A j \in Part(a, side) : j > NULL
      BY <1>1 DEF Part, NULL
    <3> QED
      BY <3>1, <3>2 DEF LinkInv
  <2> QED
    BY <1>1, <2>1, <2>2 DEF IsLink
<1>4. CASE node = NULL
  <2>1. hit' = NULL /\ qpc' = "answered"
    BY <1>4 DEF WalkTree, NULL, Wild
  <2>2. Matching = {}
    <3>1. CASE from = <<NULL, "root">>
      <4>1. index = << >>
        BY <1>4, <3>1 DEF Child, NULL
      <4> QED
        BY <1>1, <1>2, <4>1
    <3>2. ASSUME NEW a \in 1 .. Len(index), NEW side \in Sides, from = <<a, side>>
          PROVE  Matching = {}
      <4>1. index[a][side] = NULL /\ LinkInv(a, side) /\ Below(from) = Part(a, side)
        BY <1>1, <1>4, <3>2 DEF Child, Sides, TreeInv, Below
      <4>2. \A j \in Part(a, side) : j > NULL /\ j <= Len(rs) /\ j \in Int
        BY <1>1 DEF Part, NULL
      <4>3. \A j \in Part(a, side) : j > Len(index)
        BY <4>1, <4>2 DEF LinkInv, NULL
      <4> QED
        BY <1>1, <4>1, <4>2, <4>3
    <3> QED
      BY <1>1, <3>1, <3>2 DEF IsLink
  <2> QED
    BY <1>1, <1>2, <2>1, <2>2 DEF SearchInv, AnswerIsRight
<1>5. CASE node = Wild
  <2>1. qpc' = "undefined"
    BY <1>5 DEF WalkTree, NULL, Wild
  <2> QED
    BY <2>1 DEF SearchInv, AnswerIsRight
<1>6. CASE node > NULL
  <2>1. /\ node \in 1 .. Len(index)
        /\ \A j \in Below(from) : node <= j
        /\ \A j \in Below(from) : j # node => j \in Part(node, Turn(K(node), K(j)))
    BY <1>1, <1>6, GoDown
  <2>2. index[node].osm_id = K(node) /\ index[node].value = node /\ K(node) \in Int
    BY <1>1, <2>1, KeyType DEF TreeInv
  <2>3. CASE K(node) = needle
    <3>1. hit' = node /\ qpc' = "answered"
      BY <1>6, <2>2, <2>3 DEF WalkTree, NULL, Wild
    <3>2. node \in Matching
      BY <1>1, <2>1, <2>3 DEF Matching, K
    <3> HIDE DEF node
    <3>3. Min(Matching) = node
      <4>1. Matching \in SUBSET Int /\ \A j \in Matching : node <= j
        BY <1>1, <1>2, <2>1
      <4> QED
        BY <3>2, <4>1, MinIs
    <3> QED
      BY <1>1, <1>2, <3>1, <3>2, <3>3 DEF SearchInv, AnswerIsRight
  <2>4. CASE K(node) # needle
    <3> DEFINE side == IF K(node) > needle THEN "left" ELSE "right"
    <3>1. qpc' = "lookup" /\ from' = <<node, side>>
      BY <1>1, <1>6, <2>2, <2>4 DEF WalkTree, NULL, Wild
    <3>2. side = Turn(K(node), needle) /\ side \in Sides /\ side # "root"
      BY <1>1, <2>2 DEF Turn, Sides
    <3> HIDE DEF node, side
    <3>3. IsLink(from)'
      BY <1>1, <2>1, <3>1, <3>2 DEF IsLink
    <3>4. Below(from)' = Part(node, side)
      BY <1>1, <3>1, <3>2 DEF Below, Part, K
    <3>5. ASSUME NEW j \in Matching PROVE j \in Part(node, side)
      <4>1. j \in Below(from) /\ K(j) = needle /\ j # node
        BY <1>1, <1>2, <2>4
      <4> QED
        BY <2>1, <3>2, <4>1
    <3> QED
      BY <1>1, <1>2, <3>1, <3>3, <3>4, <3>5 DEF SearchInv, AnswerIsRight
  <2> QED
    BY <2>3, <2>4
<1> QED
  BY <1>3, <1>4, <1>5, <1>6

\* lookup_naive of coord_query: closest is the first of the nearest records so far.
LEMMA ScanPointsStep ==
  ASSUME QueryTypeInv, SearchInv, ScanPoints
  PROVE  SearchInv' /\ AnswerIsRight'
<1> USE DEF reading, Goto, Found
<1> DEFINE D(i) == Distance(i, needle)
<1>1. /\ qpc = "lookup" /\ program = "coord"
      /\ UNCHANGED <<program, rs, needle>> /\ needle \in Int \X Int
      /\ rs \in Seq([Fields -> Int]) /\ Len(rs) \in Nat
  BY DEF ScanPoints, QueryTypeInv
<1>2. Nearest' = Nearest /\ \A i : D(i)' = D(i)
  BY <1>1, SearchFrame
<1>3. \A i \in 1 .. Len(rs) : D(i) \in Int
  BY <1>1, DistanceType
<1>4. CASE rs = << >>
  <2>1. qpc' = "undefined"
    BY <1>4 DEF ScanPoints
  <2> QED
    BY <2>1 DEF SearchInv, AnswerIsRight
<1>5. CASE rs # << >>
  <2>1. /\ at \in 1 .. Len(rs) /\ hit \in 1 .. at
        /\ \A j \in 1 .. at : D(hit) <= D(j)
        /\ \A j \in 1 .. hit - 1 : D(hit) < D(j)
    BY <1>1, <1>5 DEF SearchInv
  <2>2. Nearest = { i \in 1 .. Len(rs) : \A j \in 1 .. Len(rs) : D(i) <= D(j) }
    BY DEF Nearest
  <2>3. CASE at >= Len(rs)
    <3>1. qpc' = "answered" /\ hit' = hit
      BY <1>5, <2>3 DEF ScanPoints
    <3> HIDE DEF D
    <3>2. at = Len(rs) /\ hit \in 1 .. Len(rs)
      BY <1>1, <2>1, <2>3
    <3>3. hit \in Nearest
      BY <2>1, <2>2, <3>2
    <3>4. ASSUME NEW k \in Nearest PROVE hit <= k
      <4>1. k \in 1 .. Len(rs) /\ D(k) <= D(hit) /\ D(k) \in Int /\ D(hit) \in Int
        BY <1>3, <2>2, <3>2
      <4>2. k \notin 1 .. hit - 1
        BY <2>1, <4>1
      <4> QED
        BY <3>2, <4>1, <4>2
    <3>5. Nearest \in SUBSET Int
      BY <2>2
    <3>6. Min(Nearest) = hit
      BY <3>3, <3>4, <3>5, MinIs
    <3> QED
      BY <1>1, <1>2, <3>1, <3>6 DEF SearchInv, AnswerIsRight
  <2>4. CASE at < Len(rs)
    <3>1. /\ qpc' = "lookup" /\ at' = at + 1
          /\ hit' = IF D(at + 1) < D(hit) THEN at + 1 ELSE hit
      BY <1>1, <1>5, <2>1, <2>4 DEF ScanPoints
    <3>2. at' \in 1 .. Len(rs) /\ hit' \in 1 .. at'
      BY <1>1, <2>1, <2>4, <3>1
    <3> HIDE DEF D
    <3>3. D(at + 1) \in Int /\ D(hit) \in Int
      BY <1>1, <1>3, <2>1, <2>4
    <3>4. ASSUME NEW j \in 1 .. at + 1 PROVE D(hit') <= D(j)
      <4>1. CASE j = at + 1
        BY <2>1, <3>1, <3>3, <4>1
      <4>2. CASE j # at + 1
        <5>1. j \in 1 .. at /\ D(j) \in Int
          BY <1>1, <1>3, <2>1, <2>4, <4>2
        <5> QED
          BY <2>1, <3>1, <3>3, <5>1
      <4> QED
        BY <4>1, <4>2
    <3>5. ASSUME NEW j \in 1 .. hit' - 1 PROVE D(hit') < D(j)
      <4>1. CASE D(at + 1) < D(hit)
        <5>1. j \in 1 .. at /\ D(j) \in Int
          BY <1>1, <1>3, <2>1, <2>4, <3>1, <4>1
        <5> QED
          BY <2>1, <3>1, <3>3, <4>1, <5>1
      <4>2. CASE ~(D(at + 1) < D(hit))
        BY <2>1, <3>1, <4>2
      <4> QED
        BY <4>1, <4>2
    <3>6. /\ \A j \in 1 .. at' : Distance(hit, needle)' <= Distance(j, needle)'
          /\ \A j \in 1 .. hit' - 1 : Distance(hit, needle)' < Distance(j, needle)'
      <4>1. \A i : Distance(i, needle)' = D(i)
        BY <1>2 DEF D
      <4>2. Distance(hit, needle)' = D(hit')
        BY <1>1 DEF D, Distance
      <4> QED
        BY <3>1, <3>4, <3>5, <4>1, <4>2
    <3> QED
      BY <1>1, <3>1, <3>2, <3>6 DEF SearchInv, AnswerIsRight
  <2> QED
    BY <1>1, <2>1, <2>3, <2>4
<1> QED
  BY <1>4, <1>5

\* The first record that a query looks at, and all of them still to be searched.
LEMMA NextQueryStep ==
  ASSUME QueryTypeInv, NextQuery PROVE SearchInv' /\ AnswerIsRight'
<1>1. /\ qpc' = "lookup" /\ program' = program /\ rs' = rs /\ index' = index
      /\ at' = 1 /\ from' = <<NULL, "root">> /\ left' = 1 /\ right' = Len(rs)
      /\ program = "coord" => hit' = 1
      /\ rs \in Seq([Fields -> Int]) /\ Len(rs) \in Nat
  BY DEF NextQuery, QueryTypeInv, Goto, reading
<1>2. Matching' \subseteq 1 .. Len(rs)
  BY <1>1 DEF Matching
<1>3. IsLink(from)' /\ Below(from)' = 1 .. Len(rs)
  BY <1>1 DEF IsLink, Below
<1>4. program = "coord" /\ rs # << >> =>
        /\ at' \in 1 .. Len(rs')
        /\ hit' \in 1 .. at'
        /\ \A j \in 1 .. at' : Distance(hit, needle)' <= Distance(j, needle)'
        /\ \A j \in 1 .. hit' - 1 : Distance(hit, needle)' < Distance(j, needle)'
  <2> SUFFICES ASSUME program = "coord", rs # << >>
               PROVE  /\ at' \in 1 .. Len(rs')
                      /\ hit' \in 1 .. at'
                      /\ \A j \in 1 .. at' : Distance(hit, needle)' <= Distance(j, needle)'
                      /\ \A j \in 1 .. hit' - 1 : Distance(hit, needle)' < Distance(j, needle)'
    OBVIOUS
  <2>1. at' \in 1 .. Len(rs) /\ hit' = 1 /\ 1 \in 1 .. Len(rs)
    BY <1>1
  <2>2. needle' \in Int \X Int
    BY QueriesAssumption DEF NextQuery, Scanned
  <2>3. rs' \in Seq([Fields -> Int]) /\ hit' \in 1 .. Len(rs')
    BY <1>1, <2>1
  <2>4. \A i \in 1 .. Len(rs') : Distance(i, needle)' \in Int
    <3> SUFFICES ASSUME NEW i \in 1 .. Len(rs') PROVE Distance(i, needle)' \in Int
      OBVIOUS
    <3>1. Distance(i, needle)' = Distance(i, needle')
      BY <1>1 DEF Distance
    <3>2. i \in 1 .. Len(rs)
      BY <1>1
    <3>3. Distance(i, needle') \in Int
      BY <1>1, <2>2, <3>2, DistanceType
    <3> QED
      BY <3>1, <3>3
  <2>5. Distance(hit, needle)' = Distance(1, needle)' /\ 1 \in 1 .. Len(rs')
    BY <1>1, <2>1 DEF Distance
  <2> QED
    BY <1>1, <2>1, <2>4, <2>5
<1>5. at' > 0 /\ \A j \in Matching' : at' <= j
  BY <1>1, <1>2
<1>6. left' >= 1 /\ right' <= Len(rs') /\ Matching' \subseteq left' .. right'
  BY <1>1, <1>2
<1>7. Matching' \subseteq Below(from)'
  BY <1>2, <1>3
<1>8. SearchInv'
  BY <1>1, <1>3, <1>4, <1>5, <1>6, <1>7 DEF SearchInv
<1>9. AnswerIsRight'
  BY <1>1 DEF AnswerIsRight
<1> QED
  BY <1>8, <1>9

\* Every step of a look-up keeps what is still to be searched and what was found.
LEMMA SearchStep ==
  QueryTypeInv /\ MadeInv /\ SearchInv /\ AnswerIsRight /\ [QueriesNext]_query_vars
    => SearchInv' /\ AnswerIsRight'
<1> SUFFICES ASSUME QueryTypeInv, MadeInv, SearchInv, AnswerIsRight, [QueriesNext]_query_vars
             PROVE  SearchInv' /\ AnswerIsRight'
  OBVIOUS
<1>1. CASE OpenTable \/ ReadLine \/ EndOfTable \/ MakeNaive \/ MakeIndexed \/ MakeBinsort
           \/ InsertNode \/ TreeMade \/ PrintAnswer \/ FreeAll
  <2>1. qpc' \notin {"lookup", "answered"}
    BY <1>1 DEF OpenTable, ReadLine, EndOfTable, MakeNaive, MakeIndexed, MakeBinsort,
                InsertNode, TreeMade, PrintAnswer, FreeAll, Goto
  <2> QED
    BY <2>1 DEF SearchInv, AnswerIsRight
<1>2. CASE NextQuery
  BY <1>2, NextQueryStep
<1>3. CASE ScanIds
  BY <1>3, ScanIdsStep
<1>4. CASE BinarySearch
  BY <1>4, BinarySearchStep
<1>5. CASE WalkTree
  BY <1>5, WalkTreeStep
<1>6. CASE ScanPoints
  BY <1>6, ScanPointsStep
<1>7. CASE UNCHANGED query_vars
  <2>1. UNCHANGED <<program, qpc, rs, index, at, from, left, right, needle, hit>>
    BY <1>7 DEF query_vars, reading, search
  <2>2. /\ Matching' = Matching /\ Nearest' = Nearest
        /\ \A i : Distance(i, needle)' = Distance(i, needle)
        /\ Distance(hit, needle)' = Distance(hit, needle)
    BY <2>1, SearchFrame DEF Distance
  <2>3. IsLink(from)' = IsLink(from) /\ Below(from)' = Below(from)
    BY <2>1 DEF IsLink, Below, Part, K
  <2>4. SearchInv'
    BY <2>1, <2>2, <2>3 DEF SearchInv
  <2>5. AnswerIsRight'
    BY <2>1, <2>2 DEF AnswerIsRight
  <2> QED
    BY <2>4, <2>5
<1> QED
  BY <1>1, <1>2, <1>3, <1>4, <1>5, <1>6, <1>7 DEF QueriesNext

\* A tool that has just been started satisfies the invariant.
LEMMA QueryInvInit == ToolsInit => QueryInv
<1> SUFFICES ASSUME ToolsInit PROVE QueryInv
  OBVIOUS
<1>1. /\ qpc \in {"off", "open"} /\ program \in Programs \cup {"none"}
      /\ table \in Tables \cup {<< >>}
      /\ rs = << >> /\ at_line = 0 /\ index = << >> /\ capacity = 0
      /\ at = 0 /\ left = 0 /\ right = 0
  BY DEF ToolsInit, IdleQueries, QueriesInit, NULL
<1>2. QueryTypeInv
  <2>1. rs \in Seq([Fields -> Int])
    BY <1>1
  <2>2. table \in Seq(Seq(Int))
    <3>1. CASE table \in Tables
      BY <3>1, QueriesAssumption
    <3>2. CASE table = << >>
      BY <3>2
    <3> QED
      BY <1>1, <3>1, <3>2
  <2> QED
    BY <1>1, <2>1, <2>2 DEF QueryTypeInv
<1> QED
  BY <1>1, <1>2 DEF QueryInv, RowsInv, MadeInv, SearchInv, AnswerIsRight, Ready

\* Every step of a tool preserves the invariant.
LEMMA QueryInvStep == QueryInv /\ [ToolsNext]_<<format_vars, query_vars>> => QueryInv'
<1> SUFFICES ASSUME QueryInv, [ToolsNext]_<<format_vars, query_vars>> PROVE QueryInv'
  OBVIOUS
<1>1. [QueriesNext]_query_vars
  BY DEF ToolsNext
<1> QED
  BY <1>1, QueryTypeStep, RowsStep, MadeStep, SearchStep DEF QueryInv

\* The invariant holds in every state that an execution reaches.
LEMMA QueryInvariant == ToolsSpec => []QueryInv
<1> QED
  BY QueryInvInit, QueryInvStep, PTL DEF ToolsSpec

\* No record is lost: read_records stays inside its array however often it grows it, and
\* until the array is freed every line that is long enough is among the records with the
\* fields of its own columns, also after qsort has moved them.  For every table.
THEOREM RecordsKept == ToolsSpec => []RecordsAreLines
<1>1. QueryInv => RecordsAreLines
  <2> SUFFICES ASSUME QueryInv PROVE RecordsAreLines
    OBVIOUS
  <2>1. CASE qpc = "read"
    BY <2>1 DEF QueryInv, QueryTypeInv, RowsInv, RecordsAreLines, RowIs
  <2>2. CASE qpc \in {"make", "loop", "lookup", "answered"}
    BY <2>2 DEF QueryInv, RowsInv, RecordsAreLines, RowIs, Ready
  <2> QED
    BY <2>1, <2>2 DEF RecordsAreLines
<1> QED
  BY <1>1, QueryInvariant, PTL

\* The linear scans, binary_search on the sorted array, the search tree that
\* construct_treeNode builds and the scan for the nearest point all return what a plain
\* search would: for every table, every order that qsort may leave equal keys in, and
\* every sequence of queries.
THEOREM AllProgramsAgree == ToolsSpec => []AnswerIsRight
<1>1. QueryInv => AnswerIsRight
  BY DEF QueryInv
<1> QED
  BY <1>1, QueryInvariant, PTL

-----------------------------------------------------------------------------
(***************************************************************************)
(* The program file of A0: what one turn of its loops finds out about the  *)
(* byte at the position, in the terms of the definition of the formats.    *)
(***************************************************************************)
LEMMA ExpectingType ==
  \A x \in Classes : /\ Expecting(x) \in 0 .. 3
                     /\ Continues(x) => Expecting(x) = 0
                     /\ IsAscii(x) => Expecting(x) = 0 /\ IsIso(x)
                     /\ Expecting(x) = 3 <=> x = "lead4"
<1> SUFFICES ASSUME NEW x \in Classes
             PROVE  /\ Expecting(x) \in 0 .. 3
                    /\ Continues(x) => Expecting(x) = 0
                    /\ IsAscii(x) => Expecting(x) = 0 /\ IsIso(x)
                    /\ Expecting(x) = 3 <=> x = "lead4"
  OBVIOUS
<1>1. x \in {"text", "control", "low", "high", "lead2", "lead3", "lead4", "last"}
  BY DEF Classes
<1> QED
  BY <1>1 DEF Expecting, Continues, IsAscii, IsIso

\* The byte at place i is there and continues a character.
GoesOn(i) == i <= Len(file) /\ Continues(file[i])

\* A character is whole if all the bytes that its first byte announces follow.
LEMMA WholeIs ==
  ASSUME file \in Seq(Classes), NEW e \in 1 .. Len(file)
  PROVE  Whole(e) <=> \A j \in 1 .. Expecting(file[e]) : GoesOn(e + j)
<1> DEFINE E == Expecting(file[e])
<1>1. E \in 0 .. 3 /\ E \in Nat
  BY ExpectingType
<1>2. Follow(e) = { j \in 1 .. E : GoesOn(e + j) }
  BY DEF Follow, GoesOn
<1> HIDE DEF E
<1>3. IsFiniteSet(1 .. E) /\ Cardinality(1 .. E) = E
  BY <1>1, FS_Interval
<1>4. CASE \A j \in 1 .. E : GoesOn(e + j)
  <2>1. Follow(e) = 1 .. E
    BY <1>2, <1>4
  <2> QED
    BY <1>3, <1>4, <2>1 DEF Whole, E
<1>5. CASE ~\A j \in 1 .. E : GoesOn(e + j)
  <2>1. Follow(e) \in SUBSET (1 .. E) /\ Follow(e) # 1 .. E
    BY <1>2, <1>5
  <2>2. Cardinality(Follow(e)) # Cardinality(1 .. E)
    BY <1>3, <2>1, FS_Subset
  <2> QED
    BY <1>1, <1>3, <1>5, <2>2 DEF Whole, E
<1> QED
  BY <1>4, <1>5

\* Of the bytes behind c, those before Broken continue it and that one does not.
LEMMA BrokenIs ==
  ASSUME file \in Seq(Classes), pos \in Nat, pos < Len(file)
  PROVE  /\ pos + 1 \in 1 .. Len(file)
         /\ c = file[pos + 1]
         /\ Expecting(c) \in 0 .. 3
         /\ Broken \in 1 .. Expecting(c) + 1
         /\ \A j \in 1 .. Broken - 1 : GoesOn(pos + 1 + j)
         /\ Broken <= Expecting(c) => ~GoesOn(pos + 1 + Broken)
<1> DEFINE E == Expecting(c)
           bad == { i \in 1 .. E : pos + 1 + i > Len(file) \/ ~Continues(file[pos + 1 + i]) }
<1>1. pos + 1 \in 1 .. Len(file) /\ c = file[pos + 1]
  BY DEF c
<1>2. E \in 0 .. 3
  <2>1. c \in Classes
    BY <1>1
  <2> QED
    BY <2>1, ExpectingType
<1>3. Broken = IF bad = {} THEN E + 1 ELSE CHOOSE i \in bad : \A j \in bad : i <= j
  BY DEF Broken
<1>4. \A i \in 1 .. E : i \in bad <=> ~GoesOn(pos + 1 + i)
  BY <1>2 DEF GoesOn
<1>5. bad \in SUBSET Nat /\ bad \subseteq 1 .. E
  BY <1>2
<1> HIDE DEF E, bad
<1>6. CASE bad = {}
  <2>1. Broken = E + 1
    BY <1>3, <1>6
  <2>2. \A j \in 1 .. E : GoesOn(pos + 1 + j)
    BY <1>4, <1>6
  <2> QED
    BY <1>1, <1>2, <2>1, <2>2 DEF E
<1>7. CASE bad # {}
  <2>1. \E i \in bad : \A j \in bad : i <= j
    BY <1>5, <1>7, LeastNat
  <2>2. Broken \in bad /\ \A j \in bad : Broken <= j
    BY <1>3, <1>7, <2>1
  <2>3. Broken \in 1 .. E
    BY <1>5, <2>2
  <2>4. \A j \in 1 .. Broken - 1 : j \in 1 .. E /\ j \notin bad
    BY <1>2, <2>2, <2>3
  <2> QED
    <3>1. \A j \in 1 .. Broken - 1 : GoesOn(pos + 1 + j)
      BY <1>4, <2>4
    <3>2. ~GoesOn(pos + 1 + Broken)
      BY <1>4, <2>2, <2>3
    <3>3. Broken \in 1 .. E + 1
      BY <1>2, <2>3
    <3> QED
      BY <1>1, <1>2, <3>1, <3>2, <3>3 DEF E
<1> QED
  BY <1>6, <1>7

\* Whether the character at the position is whole, read off from its first wrong byte.
LEMMA WholeHere ==
  ASSUME file \in Seq(Classes), pos \in Nat, pos < Len(file)
  PROVE  /\ Whole(pos + 1) <=> Broken > Expecting(c)
         /\ Broken > Expecting(c) => /\ pos + 1 + Expecting(c) <= Len(file)
                                     /\ \A i \in pos + 2 .. pos + 1 + Expecting(c) : GoesOn(i)
<1>1. /\ pos + 1 \in 1 .. Len(file) /\ c = file[pos + 1] /\ Expecting(c) \in 0 .. 3
      /\ Broken \in 1 .. Expecting(c) + 1
      /\ \A j \in 1 .. Broken - 1 : GoesOn(pos + 1 + j)
      /\ Broken <= Expecting(c) => ~GoesOn(pos + 1 + Broken)
  BY BrokenIs
<1>2. Whole(pos + 1) <=> \A j \in 1 .. Expecting(c) : GoesOn(pos + 1 + j)
  BY <1>1, WholeIs
<1>3. CASE Broken > Expecting(c)
  <2>1. \A j \in 1 .. Expecting(c) : GoesOn(pos + 1 + j)
    <3> TAKE j \in 1 .. Expecting(c)
    <3>1. j \in 1 .. Broken - 1
      BY <1>1, <1>3
    <3> QED
      BY <1>1, <3>1
  <2>2. \A i \in pos + 2 .. pos + 1 + Expecting(c) : GoesOn(i)
    <3> TAKE i \in pos + 2 .. pos + 1 + Expecting(c)
    <3>1. i - pos - 1 \in 1 .. Expecting(c) /\ pos + 1 + (i - pos - 1) = i
      BY <1>1
    <3> QED
      BY <2>1, <3>1
  <2>3. Expecting(c) > 0 => GoesOn(pos + 1 + Expecting(c))
    BY <1>1, <2>1
  <2>4. pos + 1 + Expecting(c) <= Len(file)
    BY <1>1, <2>3 DEF GoesOn
  <2> QED
    BY <1>2, <1>3, <2>1, <2>2, <2>4
<1>4. CASE Broken <= Expecting(c)
  BY <1>1, <1>2, <1>4
<1> QED
  BY <1>1, <1>3, <1>4

\* The bytes that continue the character at the position are those before Broken.
LEMMA RunIs ==
  ASSUME file \in Seq(Classes), pos \in Nat, pos < Len(file), Broken <= Expecting(c)
  PROVE  Run(pos + 1) = Broken - 1
<1>1. /\ pos + 1 \in 1 .. Len(file) /\ c = file[pos + 1] /\ Expecting(c) \in 0 .. 3
      /\ Broken \in 1 .. Expecting(c) + 1
      /\ \A j \in 1 .. Broken - 1 : GoesOn(pos + 1 + j)
      /\ ~GoesOn(pos + 1 + Broken)
  BY BrokenIs
<1>2. Follow(pos + 1) = { j \in 1 .. Expecting(c) : GoesOn(pos + 1 + j) }
  BY <1>1 DEF Follow, GoesOn
<1>3. { j \in Follow(pos + 1) : \A k \in 1 .. j : k \in Follow(pos + 1) } = 1 .. Broken - 1
  <2>1. ASSUME NEW j \in Follow(pos + 1), \A k \in 1 .. j : k \in Follow(pos + 1)
        PROVE  j \in 1 .. Broken - 1
    <3>1. j \in 1 .. Expecting(c) /\ Broken \notin Follow(pos + 1)
      BY <1>1, <1>2, <2>1
    <3>2. Broken \notin 1 .. j
      BY <2>1, <3>1
    <3> QED
      BY <1>1, <3>1, <3>2
  <2>2. ASSUME NEW j \in 1 .. Broken - 1
        PROVE  j \in Follow(pos + 1) /\ \A k \in 1 .. j : k \in Follow(pos + 1)
    <3>1. ASSUME NEW k \in 1 .. Broken - 1 PROVE k \in Follow(pos + 1)
      <4>1. k \in 1 .. Expecting(c) /\ GoesOn(pos + 1 + k)
        BY <1>1
      <4> QED
        BY <1>2, <4>1
    <3>2. \A k \in 1 .. j : k \in 1 .. Broken - 1
      BY <1>1
    <3> QED
      BY <3>1, <3>2
  <2> QED
    BY <2>1, <2>2
<1>4. Cardinality(1 .. Broken - 1) = Broken - 1
  BY <1>1, FS_Interval
<1> QED
  BY <1>3, <1>4 DEF Run

\* The two ways for the stream to end up where the next predicate should not begin.
LEMMA EndsInside ==
  ASSUME file \in Seq(Classes), pos \in Nat, pos < Len(file), Broken <= Expecting(c),
         pos + 1 + Broken > Len(file)
  PROVE  Truncated
<1>1. /\ pos + 1 \in 1 .. Len(file) /\ c = file[pos + 1] /\ Expecting(c) \in 0 .. 3
      /\ Broken \in 1 .. Expecting(c) + 1
  BY BrokenIs
<1>2. ~Whole(pos + 1)
  BY <1>1, WholeHere
<1>3. Run(pos + 1) = Broken - 1
  BY RunIs
<1>4. Lead(pos + 1) /\ ~Disproven(pos + 1)
  BY <1>1, <1>3 DEF Lead, Disproven
<1>5. pos + 1 \in DOMAIN file
  BY <1>1
<1> QED
  BY <1>2, <1>4, <1>5 DEF Truncated

\* Going back further than the beginning of the file is possible in one file only.
LEMMA GoesNowhere ==
  ASSUME file \in Seq(Classes), pos \in Nat, pos < Len(file), Broken <= Expecting(c),
         pos + 1 + Broken <= Len(file), pos + 1 + Broken - Expecting(c) < 0
  PROVE  SecondSkipped
<1>1. /\ pos + 1 \in 1 .. Len(file) /\ c = file[pos + 1] /\ Expecting(c) \in 0 .. 3
      /\ Broken \in 1 .. Expecting(c) + 1
  BY BrokenIs
<1>2. pos = 0 /\ Broken = 1 /\ Expecting(c) = 3
  BY <1>1
<1>3. file[1] = "lead4" /\ Lead(1)
  <2>1. c = file[1] /\ file[1] \in Classes
    BY <1>1, <1>2
  <2> QED
    BY <1>2, <2>1, ExpectingType DEF Lead
<1>4. ~Whole(1) /\ Run(1) = 0
  BY <1>1, <1>2, WholeHere, RunIs
<1>5. Disproven(1) /\ Len(file) > 1
  BY <1>1, <1>2, <1>3, <1>4 DEF Disproven
<1> QED
  BY <1>3, <1>4, <1>5 DEF SecondSkipped

-----------------------------------------------------------------------------
(***************************************************************************)
(* The invariant of file: what every predicate has found out about the     *)
(* bytes before the position, and what the earlier predicates have left.   *)
(***************************************************************************)
Char(i) == Lead(i) /\ Whole(i)
HasChar == \E i \in 1 .. Len(file) : Char(i)

\* What the five predicates find in turn, each in the whole file.
FormatTaken ==
  IF file = << >> THEN "EMPTY"
  ELSE IF \A i \in 1 .. Len(file) : IsAscii(file[i]) THEN "ASCII"
  ELSE IF AllIso /\ ~HasChar THEN "ISO"
  ELSE IF \A i \in 1 .. Len(file) : Whole(i) THEN "UTF"
  ELSE "DATA"

TakenRight == predicate = "done" /\ ~Truncated /\ ~SecondSkipped => format = FormatTaken

StreamInv ==
  /\ file \in Seq(Classes)
  /\ pos \in 0 .. Len(file)
  /\ multiByteCharacters \in Nat
  /\ predicate = "is_empty" => pos = 0
  /\ predicate \in {"is_empty", "is_ascii"} => multiByteCharacters = 0

\* Until one of the bytes before the position has answered otherwise.
PrefixInv ==
  /\ predicate \in {"is_ascii", "count", "is_iso", "is_utf"} => file # << >>
  /\ predicate = "is_ascii" => \A i \in 1 .. pos : IsAscii(file[i])
  /\ predicate \in {"count", "is_iso", "is_utf"} =>
       \E i \in 1 .. Len(file) : ~IsAscii(file[i])
  /\ predicate = "count" =>
       /\ multiByteCharacters > 0 => HasChar
       /\ multiByteCharacters = 0 /\ ~SecondSkipped => \A i \in 1 .. pos : ~Char(i)
  /\ predicate = "is_iso" /\ ~Truncated /\ ~SecondSkipped =>
       ~HasChar /\ \A i \in 1 .. pos : IsIso(file[i])
  /\ predicate = "is_utf" /\ ~Truncated /\ ~SecondSkipped =>
       (HasChar \/ ~AllIso) /\ \A i \in 1 .. pos : Whole(i)

FormatInv == StreamInv /\ PrefixInv /\ TakenRight

\* A byte that belongs to a whole character leads it or continues it.
LEMMA CharacterIs ==
  ASSUME file \in Seq(Classes), NEW j \in 1 .. Len(file), InCharacter(j)
  PROVE  HasChar /\ (Char(j) \/ Expecting(file[j]) = 0)
<1>0. DOMAIN file = 1 .. Len(file) /\ Len(file) \in Nat
  OBVIOUS
<1>1. PICK i \in 1 .. Len(file) : Char(i) /\ j \in i .. i + Expecting(file[i])
  BY <1>0 DEF InCharacter, Char
<1>2. CASE i = j
  BY <1>1, <1>2 DEF HasChar
<1>3. CASE i # j
  <2>1. j \in i + 1 .. i + Expecting(file[i]) /\ Expecting(file[i]) \in 0 .. 3
    BY <1>1, <1>3, ExpectingType
  <2>2. GoesOn(j)
    <3>1. \A k \in 1 .. Expecting(file[i]) : GoesOn(i + k)
      BY <1>1, WholeIs DEF Char
    <3>2. j - i \in 1 .. Expecting(file[i]) /\ i + (j - i) = j
      BY <2>1
    <3> QED
      BY <3>1, <3>2
  <2> QED
    BY <1>1, <2>2, ExpectingType DEF GoesOn, HasChar
<1> QED
  BY <1>2, <1>3

\* What the predicates find is the format by definition, but for stray bytes beside
\* whole characters and for characters in a text of another alphabet.
LEMMA TakenIsDefinition ==
  ASSUME file \in Seq(Classes)
  PROVE  FormatTaken = IF Tolerated THEN "UTF" ELSE IF Mixed THEN "DATA" ELSE Definition
<1>0. DOMAIN file = 1 .. Len(file) /\ Len(file) \in Nat
  OBVIOUS
<1>1. \A i \in 1 .. Len(file) : Whole(i) <=> (Lead(i) => Char(i))
  <2> TAKE i \in 1 .. Len(file)
  <2>1. Expecting(file[i]) \in 0 .. 3
    BY ExpectingType
  <2>2. Expecting(file[i]) = 0 => Whole(i)
    BY <2>1, WholeIs
  <2> QED
    BY <2>1, <2>2 DEF Char, Lead
<1>2. \A i \in 1 .. Len(file) : Lead(i) => ~IsAscii(file[i]) /\ Expecting(file[i]) # 0
  BY ExpectingType DEF Lead, IsAscii, Expecting
<1>3. \A i \in 1 .. Len(file) : Char(i) => InCharacter(i)
  <2> TAKE i \in 1 .. Len(file)
  <2>1. i \in i .. i + Expecting(file[i])
    BY ExpectingType
  <2> QED
    BY <1>0, <2>1 DEF InCharacter, Char
<1>4. CASE \A i \in 1 .. Len(file) : IsAscii(file[i])
  BY <1>0, <1>2, <1>4 DEF FormatTaken, Tolerated, Mixed, Definition, Stray
<1>5. CASE /\ \E i \in 1 .. Len(file) : ~IsAscii(file[i])
           /\ AllIso /\ ~HasChar
  <2>1. ~Tolerated /\ ~Mixed
    BY <1>0, <1>1, <1>5 DEF Tolerated, Mixed, HasChar, Char
  <2>2. \A j \in 1 .. Len(file) : ~InCharacter(j)
    BY <1>5, CharacterIs
  <2> QED
    BY <1>0, <1>5, <2>1, <2>2 DEF FormatTaken, Definition
<1>6. CASE /\ \E i \in 1 .. Len(file) : ~IsAscii(file[i])
           /\ ~(AllIso /\ ~HasChar)
           /\ \A i \in 1 .. Len(file) : Whole(i)
  <2>1. FormatTaken = "UTF" /\ file # << >>
    BY <1>0, <1>6 DEF FormatTaken
  <2>2. CASE \E j \in 1 .. Len(file) : Stray(j)
    BY <1>0, <1>6, <2>1, <2>2 DEF Tolerated, HasChar, Char
  <2>3. CASE \A j \in 1 .. Len(file) : ~Stray(j)
    <3>1. \A j \in 1 .. Len(file) : IsAscii(file[j]) \/ InCharacter(j)
      BY <1>1, <1>3, <1>6, <2>3 DEF Stray
    <3>2. ~Tolerated /\ ~Mixed
      BY <1>0, <1>6, <2>3 DEF Tolerated, Mixed
    <3> QED
      BY <1>0, <1>6, <2>1, <3>1, <3>2 DEF Definition
  <2> QED
    BY <2>2, <2>3
<1>7. CASE /\ \E i \in 1 .. Len(file) : ~IsAscii(file[i])
           /\ ~(AllIso /\ ~HasChar)
           /\ \E i \in 1 .. Len(file) : ~Whole(i)
  <2>1. FormatTaken = "DATA" /\ ~Tolerated /\ file # << >>
    BY <1>0, <1>7 DEF FormatTaken, Tolerated
  <2>2. CASE AllIso
    BY <1>0, <1>7, <2>1, <2>2 DEF Mixed, HasChar, Char
  <2>3. CASE ~AllIso
    <3>1. PICK i \in 1 .. Len(file) : Lead(i) /\ ~Char(i)
      BY <1>1, <1>7
    <3>2. ~IsAscii(file[i]) /\ ~InCharacter(i)
      BY <1>2, <3>1, CharacterIs
    <3> QED
      BY <1>0, <2>1, <2>3, <3>2 DEF Definition, Mixed
  <2> QED
    BY <2>2, <2>3
<1> QED
  BY <1>4, <1>5, <1>6, <1>7

\* What is said of the file does not depend on the stream.
LEMMA FileFrame ==
  ASSUME file' = file
  PROVE  /\ \A i : Whole(i)' = Whole(i) /\ Lead(i)' = Lead(i) /\ Char(i)' = Char(i)
         /\ Truncated' = Truncated /\ SecondSkipped' = SecondSkipped
         /\ HasChar' = HasChar /\ AllIso' = AllIso /\ FormatTaken' = FormatTaken
BY DEF Whole, Lead, Char, HasChar, AllIso, Truncated, SecondSkipped, FormatTaken, Follow,
       Disproven, Run

\* One more byte before the position.
LEMMA OneMore ==
  ASSUME NEW n \in Nat, NEW i \in 1 .. n + 1 PROVE i \in 1 .. n \/ i = n + 1
OBVIOUS

\* Every step keeps the stream inside the file.
LEMMA StreamStep == StreamInv /\ [FormatNext]_format_vars => StreamInv'
<1> SUFFICES ASSUME StreamInv, [FormatNext]_format_vars PROVE StreamInv'
  OBVIOUS
<1> USE DEF StreamInv
<1>0. Len(file) \in Nat
  OBVIOUS
<1>1. CASE is_empty
  BY <1>1 DEF is_empty, Answer, Try
<1>2. CASE is_ascii
  BY <1>2 DEF is_ascii, Answer, Try, AtEof
<1>3. CASE Count
  <2>1. file' = file /\ predicate' \notin {"is_empty", "is_ascii"}
    BY <1>3 DEF Count, Counted, Try
  <2>2. CASE AtEof
    BY <1>0, <1>3, <2>1, <2>2 DEF Count
  <2>3. CASE ~AtEof
    <3>1. pos \in Nat /\ pos < Len(file)
      BY <2>3 DEF AtEof
    <3>2. Broken \in 1 .. Expecting(c) + 1 /\ Expecting(c) \in 0 .. 3
      BY <3>1, BrokenIs
    <3>3. Broken > Expecting(c) => pos + 1 + Expecting(c) <= Len(file)
      BY <3>1, WholeHere
    <3>4. CASE Broken <= Expecting(c) /\ pos + 1 + Broken > Len(file)
      BY <1>0, <1>3, <2>1, <2>3, <3>2, <3>4 DEF Count
    <3>5. CASE Broken <= Expecting(c) /\ pos + 1 + Broken <= Len(file)
      <4>1. /\ pos' = Seek(pos + 1 + Broken, pos + 1 + Broken - Expecting(c))
            /\ multiByteCharacters' = multiByteCharacters
        BY <1>3, <2>3, <3>2, <3>5 DEF Count
      <4>2. pos' \in 0 .. Len(file)
        BY <1>0, <3>1, <3>2, <3>5, <4>1 DEF Seek
      <4> QED
        BY <2>1, <4>1, <4>2
    <3>6. CASE Broken > Expecting(c)
      <4>1. /\ pos' = pos + 1 + Expecting(c)
            /\ multiByteCharacters' = multiByteCharacters + (IF Expecting(c) > 0 THEN 1 ELSE 0)
        BY <1>3, <2>3, <3>2, <3>6 DEF Count
      <4>2. pos' \in 0 .. Len(file)
        BY <1>0, <3>1, <3>2, <3>3, <3>6, <4>1
      <4> QED
        BY <2>1, <4>1, <4>2
    <3> QED
      BY <3>1, <3>2, <3>4, <3>5, <3>6
  <2> QED
    BY <2>2, <2>3
<1>4. CASE is_iso
  BY <1>4 DEF is_iso, Answer, Try, AtEof
<1>5. CASE is_utf
  <2>1. file' = file /\ predicate' \notin {"is_empty", "is_ascii"} /\ multiByteCharacters' = multiByteCharacters
    BY <1>5 DEF is_utf, Answer, Try
  <2>2. CASE AtEof
    BY <1>0, <1>5, <2>1, <2>2 DEF is_utf
  <2>3. CASE ~AtEof
    <3>1. pos \in Nat /\ pos < Len(file)
      BY <2>3 DEF AtEof
    <3>2. Broken > Expecting(c) => pos + 1 + Expecting(c) <= Len(file)
      BY <3>1, WholeHere
    <3>3. Expecting(c) \in 0 .. 3
      BY <3>1, BrokenIs
    <3>4. pos' \in 0 .. Len(file)
      <4>1. CASE Broken > Expecting(c)
        BY <1>0, <1>5, <2>3, <3>1, <3>2, <3>3, <4>1 DEF is_utf
      <4>2. CASE ~(Broken > Expecting(c))
        BY <1>0, <1>5, <2>3, <4>2 DEF is_utf
      <4> QED
        BY <4>1, <4>2
    <3> QED
      BY <2>1, <3>4
  <2> QED
    BY <2>2, <2>3
<1>6. CASE UNCHANGED format_vars
  BY <1>6 DEF format_vars
<1> QED
  BY <1>1, <1>2, <1>3, <1>4, <1>5, <1>6 DEF FormatNext

\* count_utf_multiByte_characters passes no whole character by, although it goes back.
LEMMA CountStep ==
  ASSUME StreamInv, PrefixInv, Count PROVE PrefixInv' /\ TakenRight'
<1>0. /\ file \in Seq(Classes) /\ pos \in 0 .. Len(file) /\ Len(file) \in Nat
      /\ multiByteCharacters \in Nat /\ predicate = "count" /\ file' = file
      /\ file # << >> /\ \E i \in 1 .. Len(file) : ~IsAscii(file[i])
      /\ multiByteCharacters > 0 => HasChar
      /\ multiByteCharacters = 0 /\ ~SecondSkipped => \A i \in 1 .. pos : ~Char(i)
  BY DEF StreamInv, PrefixInv, Count
<1>1. predicate' \in {"count", "is_iso", "is_utf"}
  BY <1>0 DEF Count, Counted, Try
<1>2. /\ \A i : Whole(i)' = Whole(i) /\ Char(i)' = Char(i)
      /\ Truncated' = Truncated /\ SecondSkipped' = SecondSkipped
      /\ HasChar' = HasChar /\ AllIso' = AllIso
  BY <1>0, FileFrame
<1>3. TakenRight'
  BY <1>1 DEF TakenRight
<1>4. CASE AtEof
  <2>1. pos' = 0 /\ predicate' = IF multiByteCharacters = 0 THEN "is_iso" ELSE "is_utf"
    BY <1>4 DEF Count, Counted, Try
  <2>2. multiByteCharacters = 0 /\ ~SecondSkipped => ~HasChar
    BY <1>0, <1>4 DEF AtEof, HasChar
  <2>3. multiByteCharacters # 0 => HasChar
    BY <1>0
  <2> QED
    BY <1>0, <1>2, <1>3, <2>1, <2>2, <2>3 DEF PrefixInv
<1>5. CASE ~AtEof
  <2>1. pos \in Nat /\ pos < Len(file)
    BY <1>0, <1>5 DEF AtEof
  <2>2. /\ Broken \in 1 .. Expecting(c) + 1 /\ Expecting(c) \in 0 .. 3
        /\ pos + 1 \in 1 .. Len(file) /\ c = file[pos + 1]
    BY <1>0, <2>1, BrokenIs
  <2>3. Whole(pos + 1) <=> Broken > Expecting(c)
    BY <1>0, <2>1, WholeHere
  <2>4. CASE Broken <= Expecting(c) /\ pos + 1 + Broken > Len(file)
    <3>1. Truncated
      BY <1>0, <2>1, <2>4, EndsInside
    <3>2. predicate' # "count"
      BY <1>5, <2>2, <2>4 DEF Count, Counted, Try
    <3> QED
      BY <1>0, <1>1, <1>2, <1>3, <3>1, <3>2 DEF PrefixInv
  <2>5. CASE Broken <= Expecting(c) /\ pos + 1 + Broken <= Len(file)
    <3>1. /\ pos' = Seek(pos + 1 + Broken, pos + 1 + Broken - Expecting(c))
          /\ UNCHANGED <<predicate, multiByteCharacters>>
      BY <1>5, <2>2, <2>5 DEF Count
    <3>2. ~Char(pos + 1)
      BY <2>2, <2>3, <2>5 DEF Char
    <3>3. ~SecondSkipped => pos' \in 0 .. pos + 1
      <4>1. ~SecondSkipped => pos + 1 + Broken - Expecting(c) >= 0
        <5>1. pos + 1 + Broken - Expecting(c) \in Int
          BY <2>1, <2>2
        <5> QED
          BY <1>0, <2>1, <2>5, <5>1, GoesNowhere
      <4> QED
        BY <2>1, <2>2, <2>5, <3>1, <4>1 DEF Seek
    <3>4. multiByteCharacters = 0 /\ ~SecondSkipped => \A i \in 1 .. pos' : ~Char(i)
      BY <1>0, <2>1, <3>2, <3>3
    <3> QED
      BY <1>0, <1>2, <1>3, <3>1, <3>4 DEF PrefixInv
  <2>6. CASE Broken > Expecting(c)
    <3>1. /\ pos' = pos + 1 + Expecting(c) /\ predicate' = predicate
          /\ multiByteCharacters' = multiByteCharacters + (IF Expecting(c) > 0 THEN 1 ELSE 0)
      BY <1>5, <2>2, <2>6 DEF Count
    <3>2. CASE Expecting(c) > 0
      <4>1. Char(pos + 1)
        BY <2>2, <2>3, <2>6, <3>2 DEF Char, Lead
      <4>2. HasChar
        BY <2>2, <4>1 DEF HasChar
      <4>3. multiByteCharacters' # 0
        BY <1>0, <3>1, <3>2
      <4> QED
        BY <1>0, <1>2, <1>3, <3>1, <4>2, <4>3 DEF PrefixInv
    <3>3. CASE Expecting(c) = 0
      <4>1. ~Char(pos + 1)
        BY <2>2, <3>3 DEF Char, Lead
      <4>2. pos' = pos + 1 /\ multiByteCharacters' = multiByteCharacters
        BY <1>0, <2>1, <3>1, <3>3
      <4>3. multiByteCharacters = 0 /\ ~SecondSkipped => \A i \in 1 .. pos' : ~Char(i)
        BY <1>0, <2>1, <4>1, <4>2
      <4> QED
        BY <1>0, <1>2, <1>3, <3>1, <4>2, <4>3 DEF PrefixInv
    <3> QED
      BY <2>2, <3>2, <3>3
  <2> QED
    BY <2>1, <2>2, <2>4, <2>5, <2>6
<1> QED
  BY <1>4, <1>5

\* is_utf goes from character to character, and a byte that continues one stands for
\* nothing on its own.
LEMMA UtfStep ==
  ASSUME StreamInv, PrefixInv, is_utf PROVE PrefixInv' /\ TakenRight'
<1>0. /\ file \in Seq(Classes) /\ pos \in 0 .. Len(file) /\ Len(file) \in Nat
      /\ predicate = "is_utf" /\ file' = file
      /\ file # << >> /\ \E i \in 1 .. Len(file) : ~IsAscii(file[i])
      /\ ~Truncated /\ ~SecondSkipped =>
           (HasChar \/ ~AllIso) /\ \A i \in 1 .. pos : Whole(i)
  BY DEF StreamInv, PrefixInv, is_utf
<1>2. /\ \A i : Whole(i)' = Whole(i) /\ Char(i)' = Char(i)
      /\ Truncated' = Truncated /\ SecondSkipped' = SecondSkipped
      /\ HasChar' = HasChar /\ AllIso' = AllIso /\ FormatTaken' = FormatTaken
  BY <1>0, FileFrame
<1>3. ~Truncated /\ ~SecondSkipped =>
        FormatTaken = IF \A i \in 1 .. Len(file) : Whole(i) THEN "UTF" ELSE "DATA"
  BY <1>0 DEF FormatTaken
<1>4. CASE AtEof
  <2>1. predicate' = "done" /\ format' = "UTF"
    BY <1>4 DEF is_utf, Answer
  <2> QED
    BY <1>0, <1>2, <1>3, <1>4, <2>1 DEF AtEof, PrefixInv, TakenRight
<1>5. CASE ~AtEof
  <2>1. pos \in Nat /\ pos < Len(file)
    BY <1>0, <1>5 DEF AtEof
  <2>2. /\ Broken \in 1 .. Expecting(c) + 1 /\ Expecting(c) \in 0 .. 3
        /\ pos + 1 \in 1 .. Len(file) /\ c = file[pos + 1]
    BY <1>0, <2>1, BrokenIs
  <2>3. Whole(pos + 1) <=> Broken > Expecting(c)
    BY <1>0, <2>1, WholeHere
  <2>4. CASE Broken > Expecting(c)
    <3>1. pos' = pos + 1 + Expecting(c) /\ predicate' = predicate
      BY <1>5, <2>4 DEF is_utf
    <3>2. /\ pos + 1 + Expecting(c) <= Len(file)
          /\ \A i \in pos + 2 .. pos + 1 + Expecting(c) : GoesOn(i)
      BY <1>0, <2>1, <2>4, WholeHere
    <3>3. ASSUME NEW i \in pos + 2 .. pos + 1 + Expecting(c) PROVE Whole(i)
      <4>1. i \in 1 .. Len(file) /\ Continues(file[i])
        BY <1>0, <2>1, <2>2, <3>2 DEF GoesOn
      <4>2. Expecting(file[i]) = 0
        BY <1>0, <4>1, ExpectingType
      <4> QED
        BY <1>0, <4>1, <4>2, WholeIs
    <3>4. ASSUME ~Truncated, ~SecondSkipped, NEW i \in 1 .. pos' PROVE Whole(i)
      <4>1. i \in 1 .. pos \/ i = pos + 1 \/ i \in pos + 2 .. pos + 1 + Expecting(c)
        BY <2>1, <2>2, <3>1
      <4> QED
        BY <1>0, <2>3, <2>4, <3>3, <3>4, <4>1
    <3> QED
      BY <1>0, <1>2, <3>1, <3>4 DEF PrefixInv, TakenRight
  <2>5. CASE ~(Broken > Expecting(c))
    <3>1. predicate' = "done" /\ format' = "DATA"
      BY <1>5, <2>5 DEF is_utf, Answer
    <3>2. ~\A i \in 1 .. Len(file) : Whole(i)
      BY <2>2, <2>3, <2>5
    <3> QED
      BY <1>2, <1>3, <3>1, <3>2 DEF PrefixInv, TakenRight
  <2> QED
    BY <2>4, <2>5
<1> QED
  BY <1>4, <1>5

\* Each predicate knows what the bytes before the position are.
LEMMA PrefixStep ==
  StreamInv /\ PrefixInv /\ TakenRight /\ [FormatNext]_format_vars
    => PrefixInv' /\ TakenRight'
<1> SUFFICES ASSUME StreamInv, PrefixInv, TakenRight, [FormatNext]_format_vars
             PROVE  PrefixInv' /\ TakenRight'
  OBVIOUS
<1>0. file \in Seq(Classes) /\ pos \in 0 .. Len(file) /\ Len(file) \in Nat /\ file' = file
  BY DEF StreamInv, FormatNext, is_empty, is_ascii, Count, is_iso, is_utf, format_vars
<1>6. /\ \A i : Whole(i)' = Whole(i) /\ Char(i)' = Char(i)
      /\ Truncated' = Truncated /\ SecondSkipped' = SecondSkipped
      /\ HasChar' = HasChar /\ AllIso' = AllIso /\ FormatTaken' = FormatTaken
  BY <1>0, FileFrame
<1>7. ~AtEof => pos + 1 \in 1 .. Len(file) /\ c = file[pos + 1]
  BY <1>0 DEF AtEof, c
<1>1. CASE is_empty
  <2>1. pos = 0 /\ pos' = 0
    BY <1>1 DEF StreamInv, is_empty
  <2>2. CASE AtEof
    <3>1. predicate' = "done" /\ format' = "EMPTY" /\ file = << >>
      BY <1>0, <1>1, <2>1, <2>2 DEF is_empty, Answer, AtEof
    <3> QED
      BY <1>0, <1>6, <3>1 DEF PrefixInv, TakenRight, FormatTaken
  <2>3. CASE ~AtEof
    <3>1. predicate' = "is_ascii" /\ file # << >>
      BY <1>0, <1>1, <2>1, <2>3 DEF is_empty, Try, AtEof
    <3> QED
      BY <1>0, <2>1, <3>1 DEF PrefixInv, TakenRight
  <2> QED
    BY <2>2, <2>3
<1>2. CASE is_ascii
  <2>1. predicate = "is_ascii" /\ file # << >> /\ \A i \in 1 .. pos : IsAscii(file[i])
    BY <1>2 DEF is_ascii, PrefixInv
  <2>2. CASE AtEof
    <3>1. predicate' = "done" /\ format' = "ASCII" /\ pos = Len(file)
      BY <1>2, <2>2 DEF is_ascii, Answer, AtEof
    <3>2. FormatTaken = "ASCII"
      BY <1>0, <2>1, <3>1 DEF FormatTaken
    <3> QED
      BY <1>6, <3>1, <3>2 DEF PrefixInv, TakenRight
  <2>3. CASE ~AtEof /\ IsAscii(c)
    <3>1. predicate' = "is_ascii" /\ pos' = pos + 1
      BY <1>2, <2>1, <2>3 DEF is_ascii
    <3>2. \A i \in 1 .. pos' : IsAscii(file[i])
      BY <1>0, <1>7, <2>1, <2>3, <3>1, OneMore
    <3> QED
      BY <1>0, <2>1, <3>1, <3>2 DEF PrefixInv, TakenRight
  <2>4. CASE ~AtEof /\ ~IsAscii(c)
    <3>1. predicate' = "count" /\ pos' = 0
      BY <1>2, <2>4 DEF is_ascii, Try
    <3>2. \E i \in 1 .. Len(file) : ~IsAscii(file[i])
      BY <1>7, <2>4
    <3>3. multiByteCharacters' = 0
      BY <1>2, <2>1 DEF is_ascii, StreamInv
    <3> QED
      BY <1>0, <2>1, <3>1, <3>2, <3>3 DEF PrefixInv, TakenRight
  <2> QED
    BY <2>2, <2>3, <2>4
<1>3. CASE Count
  BY <1>3, CountStep
<1>4. CASE is_iso
  <2>1. /\ predicate = "is_iso" /\ file # << >> /\ \E i \in 1 .. Len(file) : ~IsAscii(file[i])
        /\ ~Truncated /\ ~SecondSkipped => ~HasChar /\ \A i \in 1 .. pos : IsIso(file[i])
    BY <1>4 DEF is_iso, PrefixInv
  <2>2. CASE AtEof
    <3>1. predicate' = "done" /\ format' = "ISO" /\ pos = Len(file)
      BY <1>4, <2>2 DEF is_iso, Answer, AtEof
    <3>2. ~Truncated /\ ~SecondSkipped => AllIso /\ ~HasChar
      BY <2>1, <3>1 DEF AllIso
    <3>3. ~Truncated /\ ~SecondSkipped => FormatTaken = "ISO"
      BY <1>0, <2>1, <3>2 DEF FormatTaken
    <3> QED
      BY <1>6, <3>1, <3>3 DEF PrefixInv, TakenRight
  <2>3. CASE ~AtEof /\ IsIso(c)
    <3>1. predicate' = "is_iso" /\ pos' = pos + 1
      BY <1>4, <2>1, <2>3 DEF is_iso
    <3>2. ~Truncated /\ ~SecondSkipped => \A i \in 1 .. pos' : IsIso(file[i])
      BY <1>0, <1>7, <2>1, <2>3, <3>1, OneMore
    <3> QED
      BY <1>0, <1>6, <2>1, <3>1, <3>2 DEF PrefixInv, TakenRight
  <2>4. CASE ~AtEof /\ ~IsIso(c)
    <3>1. predicate' = "is_utf" /\ pos' = 0
      BY <1>4, <2>4 DEF is_iso, Try
    <3>2. ~AllIso
      BY <1>7, <2>4 DEF AllIso
    <3> QED
      BY <1>0, <1>6, <2>1, <3>1, <3>2 DEF PrefixInv, TakenRight
  <2> QED
    BY <2>2, <2>3, <2>4
<1>5. CASE is_utf
  BY <1>5, UtfStep
<1>8. CASE UNCHANGED format_vars
  <2>1. UNCHANGED <<pos, predicate, multiByteCharacters, format>>
    BY <1>8 DEF format_vars
  <2>2. PrefixInv'
    BY <1>0, <1>6, <2>1 DEF PrefixInv
  <2>3. TakenRight'
    BY <1>6, <2>1 DEF TakenRight
  <2> QED
    BY <2>2, <2>3
<1> QED
  BY <1>1, <1>2, <1>3, <1>4, <1>5, <1>8 DEF FormatNext

\* For every file, the answer is the format that its bytes call for but for the two
\* kinds that one predicate by itself takes for something else (Tolerated, Mixed): the
\* predicates leave the one stream where the next may begin, and
\* count_utf_multiByte_characters passes no character by although it moves the
\* position back and counts bytes twice.  The stream makes a difference only for a
\* file that ends inside a character, and for one whose second byte is skipped.
THEOREM FormatFound == ToolsSpec => []FormatIsDefinition
<1>1. ToolsInit => FormatInv
  <2> SUFFICES ASSUME ToolsInit PROVE FormatInv
    OBVIOUS
  <2>1. /\ file \in Files \cup {<< >>} /\ pos = 0 /\ multiByteCharacters = 0
        /\ predicate \in {"is_empty", "off"}
    BY DEF ToolsInit, Idle, FormatInit
  <2>2. file \in Seq(Classes)
    <3>1. CASE file \in Files
      BY <3>1, FilesAssumption
    <3>2. CASE file = << >>
      BY <3>2
    <3> QED
      BY <2>1, <3>1, <3>2
  <2>3. pos \in 0 .. Len(file)
    BY <2>1, <2>2
  <2> QED
    BY <2>1, <2>2, <2>3 DEF FormatInv, StreamInv, PrefixInv, TakenRight
<1>2. FormatInv /\ [ToolsNext]_<<format_vars, query_vars>> => FormatInv'
  <2> SUFFICES ASSUME FormatInv, [ToolsNext]_<<format_vars, query_vars>> PROVE FormatInv'
    OBVIOUS
  <2>1. [FormatNext]_format_vars
    BY DEF ToolsNext
  <2> QED
    BY <2>1, StreamStep, PrefixStep DEF FormatInv
<1>3. FormatInv => FormatIsDefinition
  BY TakenIsDefinition DEF FormatInv, StreamInv, TakenRight, FormatIsDefinition
<1> QED
  BY <1>1, <1>2, <1>3, PTL DEF ToolsSpec

-----------------------------------------------------------------------------
(***************************************************************************)
(* The client of A3.                                                       *)
(***************************************************************************)
TypeInv ==
  /\ username \in Users
  /\ password \in Passwords
  /\ user_salt \in Seq(Chars)
  /\ got \in Nat
  /\ salt_file \in [Users -> Seq(Chars) \cup {Missing}]
  /\ registry \in [Users -> Seq(Chars) \cup {Missing}]
  /\ settled \in [Users -> Passwords \cup {Missing}]

\* The text that save_to_disc writes, fgets reads and get_signature signs.
LEMMA StringFacts ==
  ASSUME NEW s \in Seq(Chars), NEW t \in Seq(Chars)
  PROVE  /\ s \o t \in Seq(Chars)
         /\ s \o <<Newline>> \in Seq(Chars)
         /\ FirstLine(s) \in Seq(Chars)
         /\ s # << >> => FirstLine(s) # << >>
<1>1. <<Newline>> \in Seq(Chars)
  BY ClientAssumption
<1>2. s \o t \in Seq(Chars) /\ s \o <<Newline>> \in Seq(Chars)
  BY <1>1, ConcatProperties
<1> DEFINE n == IF Len(s) < SaltLen - 1 THEN Len(s) ELSE SaltLen - 1
<1>3. n \in Nat /\ n <= Len(s) /\ (s # << >> => n > 0)
  BY ClientAssumption
<1> HIDE DEF n
<1>4. \A i \in 1 .. n : s[i] \in Chars
  BY <1>3
<1>5. SubSeq(s, 1, n) \in Seq(Chars) /\ Len(SubSeq(s, 1, n)) = n
  BY <1>3, <1>4, SubSeqProperties
<1>6. FirstLine(s) = SubSeq(s, 1, n)
  BY DEF FirstLine, n
<1>7. s # << >> => FirstLine(s) # << >>
  BY <1>3, <1>5, <1>6
<1> QED
  BY <1>2, <1>5, <1>6, <1>7

\* A generated salt is a string, with whatever follows it on the stack.
LEMMA GeneratedSalt ==
  ASSUME NEW letters \in [1 .. SaltLen -> Letters], NEW tail \in Junk \cup {<< >>}
  PROVE  letters \o tail \in Seq(Chars)
<1>1. letters \in Seq(Chars)
  BY ClientAssumption
<1>2. tail \in Seq(Chars)
  BY EmptySeq, ClientAssumption
<1> QED
  BY <1>1, <1>2, ConcatProperties

(***************************************************************************)
(* What register_user says.  A success is printed for a reply whose text   *)
(* is whole and whose status says so; the server gives that status only    *)
(* when it has stored the signature of this very request, and stores       *)
(* nothing more before it is read, because there is one connection with    *)
(* one reply.  A status that is damaged on the way can say so as well: the *)
(* server knows the user then, but not with this signature.                *)
(***************************************************************************)
Asked == [user |-> username, path |-> None, signature |-> get_signature(password, user_salt)]

WireInv ==
  /\ pc \notin {"register_reply", "file_reply"} => request = None /\ reply = None
  /\ pc = "register_reply" => request = Asked
  /\ pc = "file_reply" => request.path \in Nat

ShownInv ==
  /\ pc = "register_reply" /\ reply # None /\ "registered" \in Verdicts(reply) =>
       /\ registry[username] # Missing
       /\ "status" \in reply.damaged \/ registry[username] = request.signature
  /\ pc \notin {"get_file", "file_reply", "off"} => shown # "registered"
  /\ ShownIsRegistered

(***************************************************************************)
(* Why a user is known again.  A start that finds a salt in the file never *)
(* writes the file, so that the first salt that was written whole stays    *)
(* there; and a signature that was settled was made with that salt.        *)
(***************************************************************************)
HasSalt(u) == salt_file[u] \notin {Missing, << >>}

SaltInv ==
  /\ pc \in {"generate", "save", "write"} => ~HasSalt(username)
  /\ found /\ pc \notin {"off", "find"} =>
       HasSalt(username) /\ user_salt = FirstLine(salt_file[username])
  /\ \A u \in Users : settled[u] # Missing =>
       HasSalt(u) /\ registry[u] = get_signature(settled[u], FirstLine(salt_file[u]))

IInv == TypeInv /\ WireInv /\ ShownInv /\ SaltInv

\* The server answers a registration only while the client waits for it.
LEMMA Registering ==
  ASSUME WireInv, ServerRegisters
  PROVE  pc = "register_reply" /\ request = Asked
BY ClientAssumption DEF WireInv, ServerRegisters

\* A signature is a string.
LEMMA SignatureType ==
  ASSUME TypeInv PROVE get_signature(password, user_salt) \in Seq(Chars)
<1>1. password \in Seq(Chars)
  BY ClientAssumption DEF TypeInv
<1> QED
  BY <1>1, StringFacts DEF TypeInv, get_signature

\* Every step keeps the strings of the client, of the disc and of the server strings.
LEMMA TypeStep == TypeInv /\ WireInv /\ [Next]_vars => TypeInv'
<1> SUFFICES ASSUME TypeInv, WireInv, [Next]_vars PROVE TypeInv'
  OBVIOUS
<1> USE DEF TypeInv, local, wire, history
<1>1. CASE StartClient
  <2>1. user_salt' \in Seq(Chars)
    BY <1>1, EmptySeq, ClientAssumption DEF StartClient
  <2> QED
    BY <1>1, <2>1 DEF StartClient
<1>2. CASE FindFile
  <2>1. user_salt' \in Seq(Chars)
    BY <1>2, StringFacts DEF FindFile
  <2> QED
    BY <1>2, <2>1 DEF FindFile
<1>3. CASE GenerateSalt
  <2>1. user_salt' \in Seq(Chars)
    BY <1>3, GeneratedSalt DEF GenerateSalt
  <2> QED
    BY <1>3, <2>1 DEF GenerateSalt
<1>4. CASE SaveToDisc
  <2>1. << >> \in Seq(Chars)
    OBVIOUS
  <2> QED
    BY <1>4, <2>1 DEF SaveToDisc
<1>5. CASE WriteSalt
  <2>1. user_salt \o <<Newline>> \in Seq(Chars)
    BY StringFacts
  <2> QED
    BY <1>5, <2>1 DEF WriteSalt
<1>6. CASE RegisterUser \/ RegisterReply \/ GetFile \/ FileReply \/ Exit \/ Kill
           \/ ServerServes \/ RequestLost \/ UNCHANGED vars
  BY <1>6 DEF RegisterUser, RegisterReply, GetFile, FileReply, Exit, Kill,
       ServerServes, RequestLost, vars
<1>7. CASE ServerRegisters
  <2>1. request = Asked
    BY <1>7, Registering
  <2>2. request.user = username /\ request.signature \in Seq(Chars)
    BY <2>1, SignatureType DEF Asked
  <2> QED
    BY <1>7, <2>2 DEF ServerRegisters
<1> QED
  BY <1>1, <1>2, <1>3, <1>4, <1>5, <1>6, <1>7 DEF Next, Client, Server

\* A request is on the wire only while its start waits for the reply.
LEMMA WireStep == TypeInv /\ WireInv /\ [Next]_vars => WireInv'
<1> SUFFICES ASSUME TypeInv, WireInv, [Next]_vars PROVE WireInv'
  OBVIOUS
<1> USE DEF local, wire, history
<1>1. CASE \/ StartClient \/ FindFile \/ GenerateSalt \/ SaveToDisc \/ WriteSalt
           \/ RegisterReply \/ FileReply \/ Exit \/ Kill
  BY <1>1 DEF WireInv, StartClient, FindFile, GenerateSalt, SaveToDisc, WriteSalt,
       RegisterReply, FileReply, Exit, Kill
<1>2. CASE RegisterUser \/ GetFile
  BY <1>2 DEF TypeInv, WireInv, Asked, RegisterUser, GetFile
<1>3. CASE Server \/ UNCHANGED vars
  <2>1. UNCHANGED <<pc, username, password, user_salt, request>>
    BY <1>3 DEF Server, ServerRegisters, ServerServes, RequestLost, vars
  <2>2. reply # reply' => request # None
    BY <1>3 DEF Server, ServerRegisters, ServerServes, RequestLost, vars
  <2> QED
    BY <2>1, <2>2 DEF WireInv, Asked
<1> QED
  BY <1>1, <1>2, <1>3 DEF Next, Client

\* A reply that is taken for a success has that status from the server or from a
\* damage to the status.
LEMMA WholeReply ==
  ASSUME NEW status \in {1, 2}, NEW r \in Delivered(status), "registered" \in Verdicts(r)
  PROVE  "status" \in r.damaged \/ status = 1
<1>1. r.status = 1
  BY DEF Verdicts
<1> QED
  BY <1>1 DEF Delivered

\* Success is shown only behind such a reply to the request of this start.
LEMMA ShownStep == TypeInv /\ WireInv /\ ShownInv /\ [Next]_vars => ShownInv'
<1> SUFFICES ASSUME TypeInv, WireInv, ShownInv, [Next]_vars PROVE ShownInv'
  OBVIOUS
<1> USE DEF local, wire, history
<1>1. CASE StartClient \/ Exit \/ Kill
  <2>1. None # "registered"
    BY ClientAssumption
  <2>2. CASE pc' = "off"
    BY <2>2 DEF ShownInv, ShownIsRegistered
  <2>3. CASE pc' # "off"
    BY <1>1, <2>1, <2>3 DEF ShownInv, ShownIsRegistered, StartClient, Exit, Kill
  <2> QED
    BY <2>2, <2>3
<1>2. CASE FindFile \/ GenerateSalt \/ SaveToDisc \/ WriteSalt
  BY <1>2 DEF ShownInv, ShownIsRegistered, FindFile, GenerateSalt, SaveToDisc, WriteSalt
<1>3. CASE RegisterUser \/ GetFile \/ FileReply
  BY <1>3 DEF WireInv, ShownInv, ShownIsRegistered, RegisterUser, GetFile, FileReply
<1>4. CASE RegisterReply
  <2>1. /\ pc = "register_reply" /\ pc' \in {"get_file", "off"} /\ reply # None
        /\ shown' \in Verdicts(reply)
        /\ altered' = ("status" \in reply.damaged)
        /\ UNCHANGED <<username, password, user_salt, registry>>
    BY <1>4 DEF RegisterReply
  <2>2. request = Asked
    BY <2>1 DEF WireInv
  <2>3. ASSUME shown' = "registered"
        PROVE  /\ registry[username] # Missing
               /\ altered' \/ registry[username] = get_signature(password, user_salt)
    BY <2>1, <2>2, <2>3 DEF ShownInv, Asked
  <2>4. ShownIsRegistered'
    BY <2>1, <2>3 DEF ShownIsRegistered, get_signature
  <2> QED
    BY <2>1, <2>4 DEF ShownInv
<1>5. CASE ServerRegisters
  <2>1. pc = "register_reply" /\ request = Asked
    BY <1>5, Registering
  <2>2. request.user = username /\ request.signature = get_signature(password, user_salt)
    BY <2>1 DEF Asked
  <2>4. registry'[username] # Missing
    BY <1>5, <2>2, SignatureType, ClientAssumption DEF TypeInv, ServerRegisters
  <2>3. "registered" \in Verdicts(reply') =>
          /\ registry'[username] # Missing
          /\ "status" \in reply'.damaged \/ registry'[username] = request.signature
    BY <1>5, <2>2, <2>4, WholeReply DEF TypeInv, ServerRegisters
  <2> QED
    BY <1>5, <2>1, <2>3 DEF ShownInv, ShownIsRegistered, ServerRegisters
<1>6. CASE ServerServes
  <2>1. pc = "file_reply"
    BY <1>6 DEF WireInv, Asked, ServerServes
  <2> QED
    BY <1>6, <2>1 DEF ShownInv, ShownIsRegistered, ServerServes
<1>7. CASE RequestLost
  <2>1. reply'.cut = "header"
    BY <1>7 DEF RequestLost
  <2>2. "registered" \notin Verdicts(reply')
    BY <2>1 DEF Verdicts, LengthKnown
  <2> QED
    BY <1>7, <2>2 DEF ShownInv, ShownIsRegistered, RequestLost
<1>8. CASE UNCHANGED vars
  BY <1>8 DEF vars, ShownInv, ShownIsRegistered
<1> QED
  BY <1>1, <1>2, <1>3, <1>4, <1>5, <1>6, <1>7, <1>8 DEF Next, Client, Server

\* The salt file of a user who is known does not change any more.
LEMMA SaltStep == TypeInv /\ WireInv /\ SaltInv /\ [Next]_vars => SaltInv'
<1> SUFFICES ASSUME TypeInv, WireInv, SaltInv, [Next]_vars PROVE SaltInv'
  OBVIOUS
<1> USE DEF local, wire, history
<1>1. CASE \/ StartClient \/ RegisterUser \/ RegisterReply \/ GetFile \/ FileReply \/ Exit \/ Kill
           \/ ServerServes \/ RequestLost \/ UNCHANGED vars
  BY <1>1 DEF SaltInv, HasSalt, StartClient, RegisterUser, RegisterReply, GetFile, FileReply,
       Exit, Kill, ServerServes, RequestLost, vars
<1>2. CASE FindFile
  <2>1. UNCHANGED <<username, salt_file, registry, settled>> /\ found' = HasSalt(username)
    BY <1>2 DEF FindFile, HasSalt
  <2>2. HasSalt(username) =>
          user_salt' = FirstLine(salt_file[username]) /\ user_salt' # << >>
    BY <1>2, <2>1, StringFacts DEF TypeInv, FindFile, HasSalt
  <2> QED
    BY <1>2, <2>1, <2>2 DEF SaltInv, HasSalt, FindFile
<1>3. CASE GenerateSalt
  BY <1>3 DEF SaltInv, HasSalt, GenerateSalt
<1>4. CASE SaveToDisc \/ WriteSalt
  <2>1. /\ UNCHANGED <<username, user_salt, registry, settled, found>>
        /\ ~HasSalt(username) /\ ~found
        /\ \A u \in Users \ {username} : salt_file'[u] = salt_file[u]
    BY <1>4 DEF TypeInv, SaltInv, HasSalt, SaveToDisc, WriteSalt
  <2>2. pc' = "write" => salt_file'[username] = << >>
    BY <1>4 DEF TypeInv, SaveToDisc, WriteSalt
  <2>3. pc' \in {"write", "register"}
    BY <1>4 DEF SaveToDisc, WriteSalt
  <2> QED
    BY <2>1, <2>2, <2>3 DEF SaltInv, HasSalt
<1>5. CASE ServerRegisters
  <2>1. pc = "register_reply" /\ request = Asked
    BY <1>5, Registering
  <2>2. request.user = username /\ request.signature = get_signature(password, user_salt)
    BY <2>1 DEF Asked
  <2>3. CASE registry[username] # Missing
    BY <1>5, <2>2, <2>3 DEF SaltInv, HasSalt, ServerRegisters
  <2>4. CASE registry[username] = Missing
    <3>1. /\ UNCHANGED <<pc, username, user_salt, salt_file, found>>
          /\ registry' = [registry EXCEPT ![username] = get_signature(password, user_salt)]
          /\ settled' = [settled EXCEPT ![username] = IF found THEN password ELSE Missing]
      BY <1>5, <2>2, <2>4 DEF ServerRegisters
    <3>2. ASSUME NEW u \in Users, settled'[u] # Missing
          PROVE  HasSalt(u) /\ registry'[u] = get_signature(settled'[u], FirstLine(salt_file[u]))
      BY <2>1, <3>1, <3>2 DEF TypeInv, SaltInv
    <3> QED
      BY <2>1, <3>1, <3>2 DEF SaltInv, HasSalt
  <2> QED
    BY <2>3, <2>4
<1> QED
  BY <1>1, <1>2, <1>3, <1>4, <1>5 DEF Next, Client, Server

-----------------------------------------------------------------------------

\* The invariant holds in every state that an execution reaches.
LEMMA Invariance == Spec => []IInv
<1>1. Init => IInv
  BY EmptySeq, ClientAssumption
     DEF Init, IInv, TypeInv, WireInv, ShownInv, ShownIsRegistered, SaltInv, HasSalt
<1>2. IInv /\ [Next]_vars => IInv'
  BY TypeStep, WireStep, ShownStep, SaltStep DEF IInv
<1> QED
  BY <1>1, <1>2, PTL DEF Spec

\* The client of A3 prints the answer to a registration only if the server knows the
\* user, and has just stored the signature that this start computed unless the status
\* of the reply was damaged, which no hash covers (networking.c:177); for every user
\* and whatever was killed, cut off or lost before or damaged besides.
THEOREM SuccessIsTrue == Spec => []ShownIsRegistered
<1>1. IInv => ShownIsRegistered
  BY DEF IInv, ShownInv
<1> QED
  BY <1>1, Invariance, PTL

\* A user who was registered with a salt from the file is recognised by every later
\* start that reads it, wherever the starts in between were killed.
THEOREM UserKnownAgain == Spec => []KnownAgain
<1>1. IInv => KnownAgain
  <2> SUFFICES ASSUME IInv, pc = "register_reply", found, settled[username] = password
               PROVE  request.signature = registry[username]
    BY DEF KnownAgain
  <2>1. settled[username] # Missing /\ username \in Users
    BY ClientAssumption DEF IInv, TypeInv
  <2>2. request.signature = get_signature(password, user_salt)
    BY DEF IInv, WireInv, Asked
  <2> QED
    BY <2>1, <2>2 DEF IInv, SaltInv
<1> QED
  BY <1>1, Invariance, PTL

=============================================================================
