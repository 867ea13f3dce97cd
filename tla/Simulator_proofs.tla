--------------------------- MODULE Simulator_proofs ---------------------------
(***************************************************************************)
(* Proofs about the RISC-V simulator of A5: the paged memory is one of     *)
(* plain bytes, the text table loses nothing, and a step does what the     *)
(* RISC-V manual says, for words, pages, windows and files of every size.  *)
(***************************************************************************)
EXTENDS Simulator, SequenceTheorems, WellFoundedInduction, TLAPS

-----------------------------------------------------------------------------
(***************************************************************************)
(* Quotients and remainders.                                               *)
(***************************************************************************)

\* The only multiple of a number that is nearer to zero than the number is zero.
LEMMA OneMultiple ==
  ASSUME NEW m \in Nat \ {0}, NEW d \in Int, -m < m * d, m * d < m
  PROVE  d = 0
<1>1. CASE d >= 1
  <2>1. m * d >= m * 1
    BY <1>1
  <2> QED
    BY <2>1
<1>2. CASE d <= -1
  <2>1. m * d <= m * (-1)
    BY <1>2
  <2> QED
    BY <2>1
<1> QED
  BY <1>1, <1>2

\* What the quotient and the remainder are.
LEMMA DivMod ==
  ASSUME NEW m \in Nat \ {0}, NEW x \in Int
  PROVE  x \div m \in Int /\ x % m \in 0 .. m - 1 /\ x = m * (x \div m) + (x % m)
<1>1. x \div m \in Int /\ x % m \in 0 .. m - 1
  OBVIOUS
<1>2. x = m * (x \div m) + (x % m)
  OBVIOUS
<1> QED
  BY <1>1, <1>2

\* There is one way to divide with a remainder.
LEMMA DivUnique ==
  ASSUME NEW m \in Nat \ {0}, NEW x \in Int, NEW q \in Int, NEW r \in 0 .. m - 1, x = m * q + r
  PROVE  x \div m = q /\ x % m = r
<1> DEFINE p == x \div m
           s == x % m
<1>1. p \in Int /\ s \in 0 .. m - 1 /\ x = m * p + s
  BY DivMod
<1> HIDE DEF p, s
<1>2. m * (q - p) = s - r
  <2>1. m * (q - p) = m * q - m * p
    BY <1>1
  <2> QED
    BY <1>1, <2>1
<1>3. q - p = 0
  BY <1>1, <1>2, OneMultiple
<1> QED
  BY <1>1, <1>3 DEF p, s

\* A number in the range is its own remainder.
LEMMA ModSmall ==
  ASSUME NEW m \in Nat \ {0}, NEW x \in 0 .. m - 1
  PROVE  x % m = x /\ x \div m = 0
<1>1. x = m * 0 + x
  OBVIOUS
<1> QED
  BY <1>1, DivUnique

LEMMA ModNegative ==
  ASSUME NEW m \in Nat \ {0}, NEW x \in -m .. -1
  PROVE  x % m = x + m
<1> DEFINE q == -1
           r == x + m
<1>1. x \in Int /\ q \in Int /\ r \in 0 .. m - 1 /\ x = m * q + r
  OBVIOUS
<1> HIDE DEF q, r
<1>2. x % m = r
  BY <1>1, DivUnique
<1> QED
  BY <1>2 DEF r

\* The remainder of a sum depends on the remainder of a summand only.
LEMMA ModPlus ==
  ASSUME NEW m \in Nat \ {0}, NEW x \in Int, NEW y \in Int
  PROVE  (x + (y % m)) % m = (x + y) % m
<1> DEFINE q == y \div m
           r == y % m
           p == (x + r) \div m
           s == (x + r) % m
<1>1. q \in Int /\ r \in 0 .. m - 1 /\ y = m * q + r
  BY DivMod
<1> HIDE DEF q, r
<1>2. p \in Int /\ s \in 0 .. m - 1 /\ x + r = m * p + s
  BY <1>1, DivMod
<1> HIDE DEF p, s
<1>3. m * (p + q) = m * p + m * q /\ p + q \in Int
  BY <1>1, <1>2
<1>4. x + y = m * (p + q) + s
  BY <1>1, <1>2, <1>3
<1>5. (x + y) % m = s
  <2>1. x + y \in Int
    OBVIOUS
  <2> HIDE DEF p, s, q, r
  <2> QED
    BY <1>2, <1>3, <1>4, <2>1, DivUnique
<1> QED
  BY <1>5 DEF s, r

\* The remainder for a multiple of a number keeps the remainder for the number.
LEMMA ModTwice ==
  ASSUME NEW m \in Nat \ {0}, NEW k \in Nat \ {0}, NEW x \in Int
  PROVE  m * k \in Nat \ {0} /\ (x % (m * k)) % m = x % m
<1> DEFINE n == m * k
           q == x \div n
           r == x % n
           p == r \div m
           s == r % m
<1>1. n \in Nat \ {0}
  <2>1. m * k >= m * 1
    OBVIOUS
  <2> QED
    BY <2>1
<1>2. q \in Int /\ r \in 0 .. n - 1 /\ x = n * q + r
  BY <1>1, DivMod
<1>3. n = m * k
  OBVIOUS
<1> HIDE DEF q, r, n
<1>4. p \in Int /\ s \in 0 .. m - 1 /\ r = m * p + s
  BY <1>1, <1>2, DivMod
<1> HIDE DEF p, s
<1>5. n * q = m * (k * q) /\ k * q \in Int
  BY <1>2, <1>3
<1>6. m * (k * q + p) = m * (k * q) + m * p /\ k * q + p \in Int
  BY <1>4, <1>5
<1>7. x = m * (k * q + p) + s
  BY <1>2, <1>4, <1>5, <1>6
<1>8. x % m = s
  BY <1>4, <1>6, <1>7, DivUnique
<1> QED
  BY <1>1, <1>8 DEF s, r, n

-----------------------------------------------------------------------------
(***************************************************************************)
(* The digits of a word.                                                   *)
(***************************************************************************)
Halves == 0 .. HalfMod - 1

\* The halfword of two bytes, and the word of two halfwords.
Half(b0, b1) == b0 + ByteMod * b1
Word(lo, hi) == lo + HalfMod * hi

LEMMA Moduli ==
  /\ ByteMod \in Nat \ {0} /\ HalfMod \in Nat \ {0} /\ WordMod \in Nat \ {0}
  /\ ByteMod < HalfMod /\ HalfMod < WordMod
  /\ PageWords \in Nat \ {0}
<1>1. \A x \in Nat : x >= 2 => x * x \in Nat /\ x * x > x
  <2> SUFFICES ASSUME NEW x \in Nat, x >= 2 PROVE x * x \in Nat /\ x * x > x
    OBVIOUS
  <2>1. x * x >= 2 * x
    OBVIOUS
  <2> QED
    BY <2>1
<1>2. HalfMod \in Nat /\ HalfMod > ByteMod
  BY <1>1, MemoryAssumption DEF HalfMod
<1>3. WordMod \in Nat /\ WordMod > HalfMod
  BY <1>1, <1>2, MemoryAssumption DEF WordMod
<1> QED
  BY <1>2, <1>3, MemoryAssumption

\* Words can be divided into four bytes and two halves.
LEMMA FourDivides == WordMod % 4 = 0 /\ WordMod % 2 = 0 /\ WordMod >= 4
<1> DEFINE h == ByteMod \div 2
<1>0. h \in Int /\ ByteMod = 2 * h
  BY MemoryAssumption
<1> HIDE DEF h
<1>1. HalfMod = 4 * (h * h)
  BY <1>0, MemoryAssumption DEF HalfMod
<1>2. h * h \in Int
  BY <1>0
<1> DEFINE k == h * h
<1> HIDE DEF k
<1>3. WordMod = 4 * (4 * (k * k)) /\ k * k \in Int
  BY <1>1, <1>2 DEF WordMod, k
<1>4. WordMod > 0
  BY Moduli
<1> QED
  BY <1>3, <1>4

LEMMA HalfDigits ==
  ASSUME NEW b0 \in Bytes, NEW b1 \in Bytes
  PROVE  Half(b0, b1) \in Halves /\ Half(b0, b1) % ByteMod = b0 /\ Half(b0, b1) \div ByteMod = b1
<1>1. ByteMod \in Nat \ {0} /\ b0 \in Int /\ b1 \in Int /\ b0 \in 0 .. ByteMod - 1
  BY Moduli DEF Bytes
<1>2. ByteMod * b1 >= 0 /\ ByteMod * b1 <= ByteMod * (ByteMod - 1)
  BY <1>1 DEF Bytes
<1>3. ByteMod * (ByteMod - 1) = ByteMod * ByteMod - ByteMod
  BY <1>1
<1>4. Half(b0, b1) \in Halves
  BY <1>1, <1>2, <1>3, Moduli DEF Half, Halves, HalfMod
<1>5. Half(b0, b1) = ByteMod * b1 + b0 /\ Half(b0, b1) \in Int
  BY <1>1 DEF Half
<1> QED
  BY <1>1, <1>4, <1>5, DivUnique

LEMMA WordDigits ==
  ASSUME NEW lo \in Halves, NEW hi \in Halves
  PROVE  Word(lo, hi) \in Words /\ Word(lo, hi) % HalfMod = lo /\ Word(lo, hi) \div HalfMod = hi
<1>1. HalfMod \in Nat \ {0} /\ lo \in Int /\ hi \in Int /\ lo \in 0 .. HalfMod - 1
  BY Moduli DEF Halves
<1>2. HalfMod * hi >= 0 /\ HalfMod * hi <= HalfMod * (HalfMod - 1)
  BY <1>1 DEF Halves
<1>3. HalfMod * (HalfMod - 1) = HalfMod * HalfMod - HalfMod
  BY <1>1
<1>4. Word(lo, hi) \in Words
  BY <1>1, <1>2, <1>3, Moduli DEF Word, Words, WordMod
<1>5. Word(lo, hi) = HalfMod * hi + lo /\ Word(lo, hi) \in Int
  BY <1>1 DEF Word
<1> QED
  BY <1>1, <1>4, <1>5, DivUnique

\* The word of four bytes.
Compose(b0, b1, b2, b3) == Word(Half(b0, b1), Half(b2, b3))

\* The bytes of a word are those it was composed of.
LEMMA Digits ==
  ASSUME NEW b0 \in Bytes, NEW b1 \in Bytes, NEW b2 \in Bytes, NEW b3 \in Bytes,
         NEW w, w = Compose(b0, b1, b2, b3)
  PROVE  /\ w \in Words
         /\ w % HalfMod = Half(b0, b1) /\ w \div HalfMod = Half(b2, b3)
         /\ w % ByteMod = b0
         /\ (w \div ByteMod) % ByteMod = b1
         /\ (w \div HalfMod) % ByteMod = b2
         /\ HalfMod * ByteMod \in Nat \ {0} /\ (w \div (HalfMod * ByteMod)) % ByteMod = b3
<1> DEFINE lo == Half(b0, b1)
           hi == Half(b2, b3)
           three == b1 + ByteMod * hi
<1>1. lo \in Halves /\ hi \in Halves /\ hi % ByteMod = b2 /\ hi \div ByteMod = b3
  BY HalfDigits
<1>2. w \in Words /\ w % HalfMod = lo /\ w \div HalfMod = hi
  BY <1>1, WordDigits DEF Compose
<1>t. /\ ByteMod \in Nat \ {0} /\ HalfMod \in Nat \ {0}
      /\ b0 \in 0 .. ByteMod - 1 /\ b1 \in 0 .. ByteMod - 1
      /\ b2 \in 0 .. ByteMod - 1 /\ b3 \in 0 .. ByteMod - 1
      /\ lo \in Int /\ hi \in Int /\ w \in Int
  BY <1>1, <1>2, Moduli DEF Bytes, Halves, Words
<1>e. lo = b0 + ByteMod * b1 /\ hi = b2 + ByteMod * b3 /\ w = lo + HalfMod * hi
  BY DEF Compose, Word, Half
<1> HIDE DEF lo, hi
<1>3. three \in Int /\ w = ByteMod * three + b0 /\ three = ByteMod * hi + b1
  <2>1. HalfMod * hi = ByteMod * (ByteMod * hi)
    BY <1>t DEF HalfMod
  <2>2. ByteMod * (b1 + ByteMod * hi) = ByteMod * b1 + ByteMod * (ByteMod * hi)
    BY <1>t
  <2> QED
    BY <1>t, <1>e, <2>1, <2>2
<1> HIDE DEF three
<1>4. w \div ByteMod = three /\ w % ByteMod = b0
  BY <1>t, <1>3, DivUnique
<1>5. three % ByteMod = b1
  <2>1. three \in Int /\ hi \in Int /\ three = ByteMod * hi + b1
    BY <1>t, <1>3
  <2>2. ByteMod \in Nat \ {0} /\ b1 \in 0 .. ByteMod - 1
    BY <1>t
  <2> QED
    BY <2>1, <2>2, DivUnique
<1>6. HalfMod * ByteMod \in Nat \ {0} /\ w \div (HalfMod * ByteMod) = b3
  <2> DEFINE m == HalfMod * ByteMod
             r == lo + HalfMod * b2
  <2>1. m \in Nat \ {0}
    <3>1. HalfMod * ByteMod >= HalfMod * 1
      BY <1>t
    <3> QED
      BY <1>t, <3>1
  <2>2. w = m * b3 + r
    <3>1. HalfMod * (b2 + ByteMod * b3) = HalfMod * b2 + (HalfMod * ByteMod) * b3
      BY <1>t
    <3> QED
      BY <1>t, <1>e, <3>1
  <2>3. r \in 0 .. m - 1
    <3>1. HalfMod * b2 >= 0 /\ HalfMod * b2 <= HalfMod * (ByteMod - 1)
      BY <1>t
    <3>2. HalfMod * (ByteMod - 1) = m - HalfMod
      BY <1>t
    <3>3. lo >= 0 /\ lo < HalfMod
      BY <1>1, <1>t DEF Halves
    <3>4. m \in Int /\ HalfMod * b2 \in Int
      BY <1>t
    <3> HIDE DEF m
    <3> QED
      BY <1>t, <3>1, <3>2, <3>3, <3>4
  <2> HIDE DEF m, r
  <2>4. w \div m = b3
    <3>1. w \in Int /\ b3 \in Int
      BY <1>t
    <3> QED
      BY <2>1, <2>2, <2>3, <3>1, DivUnique
  <2> QED
    BY <2>1, <2>4 DEF m
<1>7. b3 % ByteMod = b3
  BY <1>t, ModSmall
<1> QED
  BY <1>1, <1>2, <1>4, <1>5, <1>6, <1>7 DEF lo, hi

LEMMA ComposedByte ==
  ASSUME NEW b0 \in Bytes, NEW b1 \in Bytes, NEW b2 \in Bytes, NEW b3 \in Bytes,
         NEW w, w = Compose(b0, b1, b2, b3)
  PROVE  /\ RiscV!Byte(w, 0) = b0 /\ RiscV!Byte(w, 1) = b1
         /\ RiscV!Byte(w, 2) = b2 /\ RiscV!Byte(w, 3) = b3
<1>1. /\ w % ByteMod = b0 /\ (w \div ByteMod) % ByteMod = b1
      /\ (w \div HalfMod) % ByteMod = b2 /\ (w \div (HalfMod * ByteMod)) % ByteMod = b3
  BY Digits
<1>2. RiscV!HalfMod = HalfMod
  BY DEF RiscV!HalfMod, HalfMod
<1> HIDE DEF HalfMod
<1> QED
  BY <1>1, <1>2 DEF RiscV!Byte

\* Every word is composed of four bytes.
LEMMA Composed ==
  ASSUME NEW w \in Words
  PROVE  \E b0, b1, b2, b3 \in Bytes : w = Compose(b0, b1, b2, b3)
<1> DEFINE lo == w % HalfMod
           hi == w \div HalfMod
<1>1. HalfMod \in Nat \ {0} /\ w \in Int /\ ByteMod \in Nat \ {0}
  BY Moduli DEF Words
<1>2. lo \in 0 .. HalfMod - 1 /\ hi \in Int /\ w = HalfMod * hi + lo
  BY <1>1, DivMod
<1>3. w >= 0 /\ w < HalfMod * HalfMod
  BY Moduli DEF Words, WordMod
<1> HIDE DEF lo, hi
<1>4. hi \in 0 .. HalfMod - 1
  <2>1. CASE hi <= -1
    <3>1. HalfMod * hi <= HalfMod * (-1)
      BY <1>1, <1>2, <2>1
    <3> QED
      BY <1>1, <1>2, <1>3, <3>1
  <2>2. CASE hi >= HalfMod
    <3>1. HalfMod * hi >= HalfMod * HalfMod
      BY <1>1, <1>2, <2>2
    <3> QED
      BY <1>1, <1>2, <1>3, <3>1
  <2> QED
    BY <1>1, <1>2, <2>1, <2>2
<1>5. ASSUME NEW x \in 0 .. HalfMod - 1 PROVE \E c, d \in Bytes : x = Half(c, d)
  <2> DEFINE c == x % ByteMod
             d == x \div ByteMod
  <2>1. c \in 0 .. ByteMod - 1 /\ d \in Int /\ x = ByteMod * d + c
    BY <1>1, DivMod
  <2>2. x >= 0 /\ x < ByteMod * ByteMod
    BY Moduli DEF HalfMod
  <2> HIDE DEF c, d
  <2>3. d \in 0 .. ByteMod - 1
    <3>1. CASE d <= -1
      <4>1. ByteMod * d <= ByteMod * (-1)
        BY <1>1, <2>1, <3>1
      <4> QED
        BY <1>1, <2>1, <2>2, <4>1
    <3>2. CASE d >= ByteMod
      <4>1. ByteMod * d >= ByteMod * ByteMod
        BY <1>1, <2>1, <3>2
      <4> QED
        BY <1>1, <2>1, <2>2, <4>1
    <3> QED
      BY <1>1, <2>1, <3>1, <3>2
  <2>4. x = Half(c, d)
    BY <1>1, <2>1, <2>3 DEF Half
  <2> QED
    BY <2>1, <2>3, <2>4 DEF Bytes
<1>6. PICK b0, b1 \in Bytes : lo = Half(b0, b1)
  BY <1>2, <1>5
<1>7. PICK b2, b3 \in Bytes : hi = Half(b2, b3)
  BY <1>4, <1>5
<1>8. w = Word(lo, hi)
  BY <1>1, <1>2, <1>4 DEF Word
<1> QED
  BY <1>6, <1>7, <1>8 DEF Compose

-----------------------------------------------------------------------------
(***************************************************************************)
(* The pages.                                                              *)
(***************************************************************************)
PagesOK(m) == \A page \in DOMAIN m : m[page] \in [0 .. PageWords - 1 -> Words]

\* The place of an address determines its word.
LEMMA Place ==
  ASSUME NEW addr \in Words
  PROVE  /\ PageNumber(addr) \in Int /\ Index(addr) \in 0 .. PageWords - 1 /\ addr \div 4 \in Int
         /\ \A b \in Words : PageNumber(b) = PageNumber(addr) /\ Index(b) = Index(addr)
                               <=> b \div 4 = addr \div 4
<1>1. \A x \in Words : /\ x \in Int /\ x \div 4 \in Int
                       /\ PageNumber(x) \in Int /\ Index(x) \in 0 .. PageWords - 1
                       /\ x \div 4 = PageWords * PageNumber(x) + Index(x)
  <2> SUFFICES ASSUME NEW x \in Words
               PROVE  /\ x \in Int /\ x \div 4 \in Int
                      /\ PageNumber(x) \in Int /\ Index(x) \in 0 .. PageWords - 1
                      /\ x \div 4 = PageWords * PageNumber(x) + Index(x)
    OBVIOUS
  <2>1. x \in Int
    BY Moduli DEF Words
  <2>2. x \div 4 \in Int
    BY <2>1
  <2> QED
    BY <2>1, <2>2, Moduli, DivMod DEF PageNumber, Index
<1> QED
  BY <1>1 DEF PageNumber, Index

\* A page that is made on a read changes no word.
LEMMA GetPage ==
  ASSUME NEW m, PagesOK(m), NEW addr \in Words
  PROVE  PagesOK(get_page(m, addr)) /\ \A b \in Words : WordAt(get_page(m, addr), b) = WordAt(m, b)
<1> DEFINE page == PageNumber(addr)
           zero == [i \in 0 .. PageWords - 1 |-> 0]
           n    == get_page(m, addr)
<1>1. zero \in [0 .. PageWords - 1 -> Words]
  BY Moduli DEF Words
<1>2. DOMAIN n = DOMAIN m \cup {page}
  BY DEF get_page
<1>3. \A p \in DOMAIN n : n[p] = IF p \in DOMAIN m THEN m[p] ELSE zero
  BY DEF get_page
<1> HIDE DEF n
<1>4. PagesOK(n)
  BY <1>1, <1>2, <1>3 DEF PagesOK
<1>5. ASSUME NEW b \in Words PROVE WordAt(n, b) = WordAt(m, b)
  <2>1. Index(b) \in 0 .. PageWords - 1
    BY Place
  <2> QED
    BY <1>2, <1>3, <2>1 DEF WordAt
<1> QED
  BY <1>4, <1>5 DEF n

\* A write changes one word.
OneWord(new, m, addr, word) ==
  \A b \in Words : WordAt(new, b) = IF b \div 4 = addr \div 4 THEN word ELSE WordAt(m, b)

LEMMA Written ==
  ASSUME NEW m, PagesOK(m), NEW addr \in Words, NEW word \in Words
  PROVE  PagesOK(SetWord(m, addr, word)) /\ OneWord(SetWord(m, addr, word), m, addr, word)
<1> DEFINE page == PageNumber(addr)
           idx  == Index(addr)
           n    == get_page(m, addr)
           new  == SetWord(m, addr, word)
<1>1. PagesOK(n) /\ \A b \in Words : WordAt(n, b) = WordAt(m, b)
  BY GetPage
<1>2. page \in DOMAIN n /\ idx \in 0 .. PageWords - 1
  BY Place DEF get_page
<1>3. new = [n EXCEPT ![page] = [n[page] EXCEPT ![idx] = word]]
  BY DEF SetWord
<1> HIDE DEF n, new, page, idx
<1>4. /\ DOMAIN new = DOMAIN n
      /\ \A p \in DOMAIN n : new[p] = IF p = page THEN [n[page] EXCEPT ![idx] = word] ELSE n[p]
  BY <1>2, <1>3
<1>5. n[page] \in [0 .. PageWords - 1 -> Words]
  BY <1>1, <1>2 DEF PagesOK
<1>6. PagesOK(new)
  <2>1. [n[page] EXCEPT ![idx] = word] \in [0 .. PageWords - 1 -> Words]
    BY <1>5
  <2> SUFFICES ASSUME NEW p \in DOMAIN n PROVE new[p] \in [0 .. PageWords - 1 -> Words]
    BY <1>4 DEF PagesOK
  <2>2. CASE p = page
    BY <1>4, <2>1, <2>2
  <2>3. CASE p # page
    BY <1>1, <1>4, <2>3 DEF PagesOK
  <2> QED
    BY <2>2, <2>3
<1>7. ASSUME NEW b \in Words
      PROVE  WordAt(new, b) = IF b \div 4 = addr \div 4 THEN word ELSE WordAt(n, b)
  <2>1. Index(b) \in 0 .. PageWords - 1
    BY Place
  <2>2. PageNumber(b) = page /\ Index(b) = idx <=> b \div 4 = addr \div 4
    BY Place DEF page, idx
  <2> QED
    BY <1>2, <1>4, <1>5, <2>1, <2>2 DEF WordAt
<1> QED
  BY <1>1, <1>6, <1>7 DEF new, OneWord

-----------------------------------------------------------------------------
(***************************************************************************)
(* The paged memory against plain bytes.                                   *)
(***************************************************************************)
Flat(m, b) ==
  /\ b \in [Words -> Bytes]
  /\ PagesOK(m)
  /\ \A a \in Words : a % 4 = 0 => WordAt(m, a) = Compose(b[a], b[a + 1], b[a + 2], b[a + 3])

\* The first address of the word of an address.
Base(addr) == 4 * (addr \div 4)

LEMMA BaseOf ==
  ASSUME NEW addr \in Words
  PROVE  /\ Base(addr) \in Words /\ Base(addr) % 4 = 0
         /\ addr = Base(addr) + (addr % 4) /\ addr % 4 \in 0 .. 3
         /\ \A k \in 0 .. 3 : Base(addr) + k \in Words /\ (Base(addr) + k) \div 4 = addr \div 4
<1>1. WordMod \in Nat /\ WordMod % 4 = 0
  BY Moduli, FourDivides
<1> QED
  BY <1>1 DEF Base, Words

LEMMA FlatWord ==
  ASSUME NEW m, NEW b, Flat(m, b), NEW addr \in Words
  PROVE  LET a == Base(addr) IN
         /\ b[a] \in Bytes /\ b[a + 1] \in Bytes /\ b[a + 2] \in Bytes /\ b[a + 3] \in Bytes
         /\ WordAt(m, addr) = Compose(b[a], b[a + 1], b[a + 2], b[a + 3])
<1> DEFINE a == Base(addr)
<1>1. /\ a \in Words /\ a + 1 \in Words /\ a + 2 \in Words /\ a + 3 \in Words
      /\ a % 4 = 0 /\ a \div 4 = addr \div 4
  <2>1. /\ a + 0 \in Words /\ a + 1 \in Words /\ a + 2 \in Words /\ a + 3 \in Words
        /\ (a + 0) \div 4 = addr \div 4 /\ a % 4 = 0 /\ a \in Words
    BY BaseOf
  <2>2. a + 0 = a
    BY <2>1 DEF Words
  <2> QED
    BY <2>1, <2>2
<1> HIDE DEF a
<1>2. WordAt(m, addr) = WordAt(m, a)
  BY <1>1, Place DEF WordAt, PageNumber, Index
<1> QED
  BY <1>1, <1>2 DEF Flat, a

\* A store that is aligned reaches the bytes behind its address and does not wrap around.
LEMMA StoredBytes ==
  ASSUME NEW b \in [Words -> Bytes], NEW n \in {1, 2, 4}, NEW addr \in Words, addr % n = 0,
         NEW data, NEW a \in Words
  PROVE  RiscV!StoreBytes(b, addr, n, data)[a]
           = IF a - addr \in 0 .. n - 1 THEN RiscV!Byte(data, a - addr) ELSE b[a]
<1> DEFINE d == a - addr
           k == d % WordMod
<1>1. /\ WordMod \in Nat \ {0} /\ WordMod % 4 = 0 /\ WordMod % 2 = 0
      /\ a \in Int /\ addr \in Int /\ a >= 0 /\ addr >= 0 /\ a < WordMod /\ addr < WordMod
  BY Moduli, FourDivides DEF Words
<1>2. RiscV!StoreBytes(b, addr, n, data)[a] = IF k < n THEN RiscV!Byte(data, k) ELSE b[a]
  BY DEF RiscV!StoreBytes
<1>3. CASE a >= addr
  <2>1. k = d
    <3>1. d \in 0 .. WordMod - 1
      BY <1>1, <1>3
    <3> HIDE DEF d
    <3> QED
      BY <1>1, <3>1, ModSmall
  <2> QED
    BY <1>1, <1>2, <1>3, <2>1
<1>4. CASE a < addr
  <2>1. k = d + WordMod
    <3>1. d \in -WordMod .. -1
      BY <1>1, <1>4
    <3> HIDE DEF d
    <3> QED
      BY <1>1, <3>1, ModNegative
  <2>2. addr + n <= WordMod
    BY <1>1
  <2>3. ~(k < n) /\ a - addr \notin 0 .. n - 1
    BY <1>1, <1>4, <2>1, <2>2
  <2> QED
    BY <1>2, <2>3
<1> QED
  BY <1>1, <1>3, <1>4

LEMMA ByteType ==
  ASSUME NEW data \in Words, NEW k \in 0 .. 3
  PROVE  RiscV!Byte(data, k) \in Bytes
<1> PICK b0, b1, b2, b3 \in Bytes : data = Compose(b0, b1, b2, b3)
  BY Composed
<1>1. /\ RiscV!Byte(data, 0) = b0 /\ RiscV!Byte(data, 1) = b1
      /\ RiscV!Byte(data, 2) = b2 /\ RiscV!Byte(data, 3) = b3
  BY ComposedByte
<1> QED
  BY <1>1

LEMMA StoredType ==
  ASSUME NEW b \in [Words -> Bytes], NEW n \in {1, 2, 4}, NEW addr \in Words, addr % n = 0,
         NEW data \in Words
  PROVE  RiscV!StoreBytes(b, addr, n, data) \in [Words -> Bytes]
<1> DEFINE s == RiscV!StoreBytes(b, addr, n, data)
<1>1. \A a \in Words : s[a] = IF a - addr \in 0 .. n - 1 THEN RiscV!Byte(data, a - addr) ELSE b[a]
  BY StoredBytes
<1>2. s = [a \in Words |-> s[a]]
  BY DEF RiscV!StoreBytes
<1> HIDE DEF s
<1>3. ASSUME NEW a \in Words PROVE s[a] \in Bytes
  <2>1. CASE a - addr \in 0 .. n - 1
    <3>1. a - addr \in 0 .. 3
      BY <2>1
    <3> QED
      BY <1>1, <2>1, <3>1, ByteType
  <2>2. CASE a - addr \notin 0 .. n - 1
    BY <1>1, <2>2
  <2> QED
    BY <2>1, <2>2
<1> QED
  BY <1>2, <1>3 DEF s

\* A write of the word that holds the new bytes keeps the memory flat.
LEMMA FlatSet ==
  ASSUME NEW m, NEW b, Flat(m, b), NEW addr \in Words, NEW s \in [Words -> Bytes],
         \A a \in Words : a \div 4 # addr \div 4 => s[a] = b[a],
         NEW word \in Words,
         word = Compose(s[Base(addr)], s[Base(addr) + 1], s[Base(addr) + 2], s[Base(addr) + 3])
  PROVE  Flat(SetWord(m, addr, word), s)
<1> DEFINE n == SetWord(m, addr, word)
<1>1. /\ Base(addr) \in Words /\ Base(addr) + 1 \in Words
      /\ Base(addr) + 2 \in Words /\ Base(addr) + 3 \in Words
  BY BaseOf
<1>2. PagesOK(m)
  BY DEF Flat
<1>3. PagesOK(n) /\ OneWord(n, m, addr, word)
  BY <1>2, Written, Zenon
<1>4. \A a \in Words : WordAt(n, a) = IF a \div 4 = addr \div 4 THEN word ELSE WordAt(m, a)
  BY <1>3 DEF OneWord
<1> HIDE DEF n
<1>5. ASSUME NEW a \in Words, a % 4 = 0
      PROVE  WordAt(n, a) = Compose(s[a], s[a + 1], s[a + 2], s[a + 3])
  <2>1. CASE a \div 4 = addr \div 4
    <3>1. a = Base(addr)
      BY <1>5, <2>1, Moduli DEF Base, Words
    <3> QED
      BY <1>4, <2>1, <3>1
  <2>2. CASE a \div 4 # addr \div 4
    <3>0. a = Base(a)
      BY <1>5, Moduli DEF Base, Words
    <3>1. /\ a + 1 \in Words /\ (a + 1) \div 4 = a \div 4
          /\ a + 2 \in Words /\ (a + 2) \div 4 = a \div 4
          /\ a + 3 \in Words /\ (a + 3) \div 4 = a \div 4
      BY <3>0, BaseOf
    <3>2. s[a] = b[a] /\ s[a + 1] = b[a + 1] /\ s[a + 2] = b[a + 2] /\ s[a + 3] = b[a + 3]
      BY <2>2, <3>1
    <3>3. WordAt(m, a) = Compose(b[a], b[a + 1], b[a + 2], b[a + 3])
      BY <1>5 DEF Flat
    <3> QED
      BY <1>4, <2>2, <3>2, <3>3
  <2> QED
    BY <2>1, <2>2
<1> QED
  BY <1>3, <1>4, <1>5 DEF Flat, n

\* An aligned store leaves the other words alone.
LEMMA StoredElsewhere ==
  ASSUME NEW b \in [Words -> Bytes], NEW n \in {1, 2, 4}, NEW addr \in Words, addr % n = 0,
         NEW data, NEW a \in Words, a \div 4 # addr \div 4
  PROVE  RiscV!StoreBytes(b, addr, n, data)[a] = b[a]
<1>1. a \in Int /\ addr \in Int
  BY Moduli DEF Words
<1>2. a - addr \notin 0 .. n - 1
  BY <1>1
<1> QED
  BY <1>2, StoredBytes

LEMMA StoreWordFlat ==
  ASSUME NEW m, NEW b, Flat(m, b), NEW addr \in Words, addr % 4 = 0, NEW data \in Words
  PROVE  Flat(memory_wr_w(m, addr, data), RiscV!StoreBytes(b, addr, 4, data))
<1> DEFINE s == RiscV!StoreBytes(b, addr, 4, data)
<1>1. b \in [Words -> Bytes]
  BY DEF Flat
<1>2. s \in [Words -> Bytes] /\ \A a \in Words : a \div 4 # addr \div 4 => s[a] = b[a]
  BY <1>1, StoredType, StoredElsewhere
<1>3. Base(addr) = addr /\ addr \in Int
  BY Moduli DEF Base, Words
<1>4. \A k \in 0 .. 3 : s[addr + k] = RiscV!Byte(data, k)
  <2> SUFFICES ASSUME NEW k \in 0 .. 3 PROVE s[addr + k] = RiscV!Byte(data, k)
    OBVIOUS
  <2>1. addr + k \in Words /\ (addr + k) - addr = k
    BY <1>3, BaseOf
  <2> QED
    BY <1>1, <2>1, StoredBytes
<1>5. addr + 0 = addr
  BY <1>3
<1> PICK b0, b1, b2, b3 \in Bytes : data = Compose(b0, b1, b2, b3)
  BY Composed
<1>6. /\ RiscV!Byte(data, 0) = b0 /\ RiscV!Byte(data, 1) = b1
      /\ RiscV!Byte(data, 2) = b2 /\ RiscV!Byte(data, 3) = b3
  BY ComposedByte
<1> HIDE DEF s
<1>7. data = Compose(s[addr], s[addr + 1], s[addr + 2], s[addr + 3])
  BY <1>4, <1>5, <1>6
<1>8. Flat(SetWord(m, addr, data), s)
  BY <1>2, <1>3, <1>7, FlatSet
<1> QED
  BY <1>8 DEF memory_wr_w, s

LEMMA StoreHalfFlat ==
  ASSUME NEW m, NEW b, Flat(m, b), NEW addr \in Words, addr % 2 = 0, NEW data \in Words
  PROVE  Flat(memory_wr_h(m, addr, data), RiscV!StoreBytes(b, addr, 2, data))
<1> DEFINE s == RiscV!StoreBytes(b, addr, 2, data)
           a == Base(addr)
           w == WordAt(m, addr)
<1>1. b \in [Words -> Bytes]
  BY DEF Flat
<1>2. s \in [Words -> Bytes] /\ \A x \in Words : x \div 4 # addr \div 4 => s[x] = b[x]
  BY <1>1, StoredType, StoredElsewhere
<1>3. /\ a \in Words /\ a + 1 \in Words /\ a + 2 \in Words /\ a + 3 \in Words
      /\ addr = a + (addr % 4) /\ addr % 4 \in 0 .. 3 /\ a \in Int /\ addr \in Int
  <2>1. /\ a \in Words /\ a + 1 \in Words /\ a + 2 \in Words /\ a + 3 \in Words
        /\ addr = a + (addr % 4) /\ addr % 4 \in 0 .. 3
    BY BaseOf
  <2> HIDE DEF a
  <2> QED
    BY <2>1, Moduli DEF Words
<1>4. /\ b[a] \in Bytes /\ b[a + 1] \in Bytes /\ b[a + 2] \in Bytes /\ b[a + 3] \in Bytes
      /\ w = Compose(b[a], b[a + 1], b[a + 2], b[a + 3])
  BY FlatWord
<1> PICK d0, d1, d2, d3 \in Bytes : data = Compose(d0, d1, d2, d3)
  BY Composed
<1>5. RiscV!Byte(data, 0) = d0 /\ RiscV!Byte(data, 1) = d1 /\ data % HalfMod = Half(d0, d1)
  BY ComposedByte, Digits
<1>6. w % HalfMod = Half(b[a], b[a + 1]) /\ w = Word(Half(b[a], b[a + 1]), Half(b[a + 2], b[a + 3]))
  BY <1>4, Digits DEF Compose
<1>7. /\ Half(d0, d1) \in Int /\ HalfMod \in Int
      /\ Half(b[a], b[a + 1]) \in Int /\ Half(b[a + 2], b[a + 3]) \in Int
  BY <1>4, HalfDigits, Moduli DEF Halves
<1>8. \A x \in Words : s[x] = IF x - addr \in 0 .. 1 THEN RiscV!Byte(data, x - addr) ELSE b[x]
  BY <1>1, StoredBytes
<1> HIDE DEF s, a, w
<1>9. CASE addr % 4 < 2
  <2>1. addr = a /\ a - addr = 0 /\ (a + 1) - addr = 1 /\ (a + 2) - addr = 2 /\ (a + 3) - addr = 3
    BY <1>3, <1>9
  <2>2. s[a] = d0 /\ s[a + 1] = d1 /\ s[a + 2] = b[a + 2] /\ s[a + 3] = b[a + 3]
    <3>1. s[a + 2] = b[a + 2] /\ s[a + 3] = b[a + 3]
      BY <1>3, <1>8, <2>1
    <3>2. s[a] = d0
      <4>1. a \in Words /\ a - addr = 0 /\ 0 \in 0 .. 1
        BY <1>3, <2>1
      <4>2. s[a] = RiscV!Byte(data, 0)
        BY <1>8, <4>1
      <4> QED
        BY <1>5, <4>2
    <3>3. s[a + 1] = d1
      <4>1. a + 1 \in Words /\ (a + 1) - addr = 1 /\ 1 \in 0 .. 1
        BY <1>3, <2>1
      <4>2. s[a + 1] = RiscV!Byte(data, 1)
        BY <1>8, <4>1
      <4> QED
        BY <1>5, <4>2
    <3> QED
      BY <3>1, <3>2, <3>3
  <2>3. w - (w % HalfMod) + (data % HalfMod) = Word(Half(d0, d1), Half(b[a + 2], b[a + 3]))
    BY <1>5, <1>6, <1>7 DEF Word
  <2>4. memory_wr_h(m, addr, data) = SetWord(m, addr, w - (w % HalfMod) + (data % HalfMod))
    BY <1>9 DEF memory_wr_h, w
  <2>5. w - (w % HalfMod) + (data % HalfMod) = Compose(s[a], s[a + 1], s[a + 2], s[a + 3])
    BY <2>2, <2>3 DEF Compose
  <2> DEFINE new == w - (w % HalfMod) + (data % HalfMod)
  <2>6. new \in Words
    BY <1>4, <2>2, <2>5, Digits
  <2> HIDE DEF new
  <2>7. Flat(SetWord(m, addr, new), s)
    BY <1>2, <2>5, <2>6, FlatSet DEF new, a
  <2> QED
    BY <2>4, <2>7 DEF s, new
<1>10. CASE ~(addr % 4 < 2)
  <2>1. addr = a + 2 /\ a - addr = -2 /\ (a + 1) - addr = -1 /\ (a + 2) - addr = 0 /\ (a + 3) - addr = 1
    BY <1>3, <1>10
  <2>2. s[a] = b[a] /\ s[a + 1] = b[a + 1] /\ s[a + 2] = d0 /\ s[a + 3] = d1
    <3>1. s[a] = b[a] /\ s[a + 1] = b[a + 1]
      BY <1>3, <1>8, <2>1
    <3>2. s[a + 2] = d0
      <4>1. a + 2 \in Words /\ (a + 2) - addr = 0 /\ 0 \in 0 .. 1
        BY <1>3, <2>1
      <4>2. s[a + 2] = RiscV!Byte(data, 0)
        BY <1>8, <4>1
      <4> QED
        BY <1>5, <4>2
    <3>3. s[a + 3] = d1
      <4>1. a + 3 \in Words /\ (a + 3) - addr = 1 /\ 1 \in 0 .. 1
        BY <1>3, <2>1
      <4>2. s[a + 3] = RiscV!Byte(data, 1)
        BY <1>8, <4>1
      <4> QED
        BY <1>5, <4>2
    <3> QED
      BY <3>1, <3>2, <3>3
  <2>3. (w % HalfMod) + (data % HalfMod) * HalfMod = Word(Half(b[a], b[a + 1]), Half(d0, d1))
    BY <1>5, <1>6, <1>7 DEF Word
  <2>4. memory_wr_h(m, addr, data) = SetWord(m, addr, (w % HalfMod) + (data % HalfMod) * HalfMod)
    BY <1>10 DEF memory_wr_h, w
  <2>5. (w % HalfMod) + (data % HalfMod) * HalfMod = Compose(s[a], s[a + 1], s[a + 2], s[a + 3])
    BY <2>2, <2>3 DEF Compose
  <2> DEFINE new == (w % HalfMod) + (data % HalfMod) * HalfMod
  <2>6. new \in Words
    BY <1>4, <2>2, <2>5, Digits
  <2> HIDE DEF new
  <2>7. Flat(SetWord(m, addr, new), s)
    BY <1>2, <2>5, <2>6, FlatSet DEF new, a
  <2> QED
    BY <2>4, <2>7 DEF s, new
<1> QED
  BY <1>9, <1>10

LEMMA StoreByteFlat ==
  ASSUME NEW m, NEW b, Flat(m, b), NEW addr \in Words, NEW data \in Words
  PROVE  Flat(memory_wr_b(m, addr, data), RiscV!StoreBytes(b, addr, 1, data))
<1> DEFINE s == RiscV!StoreBytes(b, addr, 1, data)
           a == Base(addr)
           w == WordAt(m, addr)
           kept == (w \div Unit(addr)) % ByteMod
           new  == w + ((data % ByteMod) - kept) * Unit(addr)
<1>1. b \in [Words -> Bytes] /\ addr % 1 = 0
  BY Moduli DEF Flat, Words
<1>2. s \in [Words -> Bytes] /\ \A x \in Words : x \div 4 # addr \div 4 => s[x] = b[x]
  BY <1>1, StoredType, StoredElsewhere
<1>3. /\ a \in Words /\ a + 1 \in Words /\ a + 2 \in Words /\ a + 3 \in Words
      /\ addr = a + (addr % 4) /\ addr % 4 \in 0 .. 3 /\ a \in Int /\ addr \in Int
  <2>1. /\ a \in Words /\ a + 1 \in Words /\ a + 2 \in Words /\ a + 3 \in Words
        /\ addr = a + (addr % 4) /\ addr % 4 \in 0 .. 3
    BY BaseOf
  <2> HIDE DEF a
  <2> QED
    BY <2>1, Moduli DEF Words
<1> DEFINE b0 == b[a]
           b1 == b[a + 1]
           b2 == b[a + 2]
           b3 == b[a + 3]
           d  == data % ByteMod
<1>4. b0 \in Bytes /\ b1 \in Bytes /\ b2 \in Bytes /\ b3 \in Bytes /\ w = Compose(b0, b1, b2, b3)
  BY FlatWord
<1>5. d \in Bytes /\ RiscV!Byte(data, 0) = d
  <2>1. data \in Int /\ ByteMod \in Nat \ {0}
    BY Moduli DEF Words
  <2>2. d \in Bytes
    BY <2>1, DivMod DEF Bytes
  <2>3. RiscV!Byte(data, 0) = d
    BY DEF RiscV!Byte
  <2> QED
    BY <2>2, <2>3
<1>6. \A x \in Words : s[x] = IF x = addr THEN d ELSE b[x]
  <2> SUFFICES ASSUME NEW x \in Words PROVE s[x] = IF x = addr THEN d ELSE b[x]
    OBVIOUS
  <2>1. s[x] = IF x - addr \in 0 .. 0 THEN RiscV!Byte(data, x - addr) ELSE b[x]
    BY <1>1, StoredBytes
  <2>2. x \in Int /\ addr \in Int
    BY Moduli DEF Words
  <2> HIDE DEF s, d
  <2>3. CASE x = addr
    <3>1. x - addr = 0
      BY <2>2, <2>3
    <3> QED
      BY <1>5, <2>1, <2>3, <3>1
  <2>4. CASE x # addr
    BY <2>1, <2>2, <2>4
  <2> QED
    BY <2>3, <2>4
<1>7. /\ w % ByteMod = b0 /\ (w \div ByteMod) % ByteMod = b1 /\ (w \div HalfMod) % ByteMod = b2
      /\ (w \div (HalfMod * ByteMod)) % ByteMod = b3 /\ w \in Int
  BY <1>4, Digits, Moduli DEF Words
<1>8. w = b0 + ByteMod * b1 + HalfMod * (b2 + ByteMod * b3)
  BY <1>4 DEF Compose, Word, Half
<1>t. /\ b0 \in Int /\ b1 \in Int /\ b2 \in Int /\ b3 \in Int /\ d \in Int
      /\ ByteMod \in Int /\ HalfMod \in Int
  BY <1>4, <1>5, Moduli DEF Bytes
<1>9. memory_wr_b(m, addr, data) = SetWord(m, addr, new)
  BY DEF memory_wr_b
<1> HIDE DEF s, a, w, b0, b1, b2, b3, d
<1>10. new = Compose(s[a], s[a + 1], s[a + 2], s[a + 3])
  <2>1. CASE addr % 4 = 0
    <3>1. Unit(addr) = 1 /\ w \div 1 = w
      BY <1>7, <2>1 DEF Unit
    <3>2. new = w + (d - b0)
      BY <1>7, <1>t, <3>1 DEF d
    <3>3. new = Compose(d, b1, b2, b3)
      BY <1>8, <1>t, <3>2 DEF Compose, Word, Half
    <3>4. s[a] = d /\ s[a + 1] = b1 /\ s[a + 2] = b2 /\ s[a + 3] = b3
      BY <1>3, <1>6, <2>1 DEF b1, b2, b3
    <3> QED
      BY <3>3, <3>4
  <2>2. CASE addr % 4 = 1
    <3>1. Unit(addr) = ByteMod
      BY <2>2 DEF Unit
    <3>2. new = w + (d - b1) * ByteMod
      BY <1>7, <3>1 DEF d
    <3>3. new = Compose(b0, d, b2, b3)
      BY <1>8, <1>t, <3>2 DEF Compose, Word, Half
    <3>4. s[a] = b0 /\ s[a + 1] = d /\ s[a + 2] = b2 /\ s[a + 3] = b3
      BY <1>3, <1>6, <2>2 DEF b0, b2, b3
    <3> QED
      BY <3>3, <3>4
  <2>3. CASE addr % 4 = 2
    <3>1. Unit(addr) = HalfMod
      BY <2>3 DEF Unit
    <3>2. new = w + (d - b2) * HalfMod
      BY <1>7, <3>1 DEF d
    <3>3. new = Compose(b0, b1, d, b3)
      BY <1>8, <1>t, <3>2 DEF Compose, Word, Half
    <3>4. s[a] = b0 /\ s[a + 1] = b1 /\ s[a + 2] = d /\ s[a + 3] = b3
      BY <1>3, <1>6, <2>3 DEF b0, b1, b3
    <3> QED
      BY <3>3, <3>4
  <2>4. CASE addr % 4 = 3
    <3>1. Unit(addr) = HalfMod * ByteMod
      BY <2>4 DEF Unit
    <3>2. new = w + (d - b3) * (HalfMod * ByteMod)
      BY <1>7, <3>1 DEF d
    <3>3. new = Compose(b0, b1, b2, d)
      <4>1. HalfMod * (b2 + ByteMod * d)
              = HalfMod * (b2 + ByteMod * b3) + (d - b3) * (HalfMod * ByteMod)
        BY <1>t
      <4> QED
        BY <1>8, <1>t, <3>2, <4>1 DEF Compose, Word, Half
    <3>4. s[a] = b0 /\ s[a + 1] = b1 /\ s[a + 2] = b2 /\ s[a + 3] = d
      BY <1>3, <1>6, <2>4 DEF b0, b1, b2
    <3> QED
      BY <3>3, <3>4
  <2> QED
    BY <1>3, <2>1, <2>2, <2>3, <2>4
<1>11. new \in Words
  <2>1. s[a] \in Bytes /\ s[a + 1] \in Bytes /\ s[a + 2] \in Bytes /\ s[a + 3] \in Bytes
    BY <1>2, <1>3
  <2> HIDE DEF new
  <2> QED
    BY <1>10, <2>1, Digits
<1> HIDE DEF new
<1>12. Flat(SetWord(m, addr, new), s)
  BY <1>2, <1>10, <1>11, FlatSet DEF a
<1> QED
  BY <1>9, <1>12 DEF s

\* What the manual loads from an address that is aligned.
LEMMA LoadedBytes ==
  ASSUME NEW b, NEW addr \in Words
  PROVE  /\ RiscV!LoadBytes(b, addr, 1) = b[addr]
         /\ addr % 2 = 0 => RiscV!LoadBytes(b, addr, 2) = Half(b[addr], b[addr + 1])
         /\ addr % 4 = 0 => RiscV!LoadBytes(b, addr, 4)
                              = b[addr] + ByteMod * b[addr + 1]
                                  + HalfMod * (b[addr + 2] + ByteMod * b[addr + 3])
<1>1. addr \in Int /\ addr >= 0 /\ addr < WordMod /\ WordMod \in Nat \ {0}
  BY Moduli DEF Words
<1>2. \A k \in 0 .. 3 : addr + k < WordMod => (addr + k) % WordMod = addr + k
  <2> SUFFICES ASSUME NEW k \in 0 .. 3, addr + k < WordMod PROVE (addr + k) % WordMod = addr + k
    OBVIOUS
  <2> DEFINE x == addr + k
  <2>1. x \in 0 .. WordMod - 1
    BY <1>1
  <2> HIDE DEF x
  <2>2. x % WordMod = x
    BY <1>1, <2>1, ModSmall
  <2> QED
    BY <2>2 DEF x
<1>3. (addr + 0) % WordMod = addr
  BY <1>1, <1>2
<1>4. addr % 2 = 0 => (addr + 1) % WordMod = addr + 1
  <2> SUFFICES ASSUME addr % 2 = 0 PROVE (addr + 1) % WordMod = addr + 1
    OBVIOUS
  <2>1. addr + 1 < WordMod
    BY <1>1, FourDivides
  <2> QED
    BY <1>2, <2>1
<1>5. addr % 4 = 0 => /\ (addr + 1) % WordMod = addr + 1
                      /\ (addr + 2) % WordMod = addr + 2
                      /\ (addr + 3) % WordMod = addr + 3
  <2> SUFFICES ASSUME addr % 4 = 0 PROVE /\ (addr + 1) % WordMod = addr + 1
                                         /\ (addr + 2) % WordMod = addr + 2
                                         /\ (addr + 3) % WordMod = addr + 3
    OBVIOUS
  <2>1. addr + 1 < WordMod /\ addr + 2 < WordMod /\ addr + 3 < WordMod
    BY <1>1, FourDivides
  <2> QED
    BY <1>2, <2>1
<1>6. RiscV!HalfMod = HalfMod
  BY DEF RiscV!HalfMod, HalfMod
<1> QED
  BY <1>3, <1>4, <1>5, <1>6 DEF RiscV!LoadBytes, Half

\* A flat memory reads like its bytes.
LEMMA FlatReads ==
  ASSUME NEW m, NEW b, Flat(m, b), NEW addr \in Words
  PROVE  /\ memory_rd_b(m, addr) = RiscV!LoadBytes(b, addr, 1)
         /\ memory_rd_b(m, addr) = b[addr]
         /\ addr % 2 = 0 => memory_rd_h(m, addr) = RiscV!LoadBytes(b, addr, 2)
         /\ addr % 4 = 0 => memory_rd_w(m, addr) = RiscV!LoadBytes(b, addr, 4)
<1> DEFINE a == Base(addr)
           w == WordAt(m, addr)
           b0 == b[a]
           b1 == b[a + 1]
           b2 == b[a + 2]
           b3 == b[a + 3]
<1>1. addr = a + (addr % 4) /\ addr % 4 \in 0 .. 3 /\ a \in Int /\ addr \in Int
  BY BaseOf, Moduli DEF Words
<1>2. b0 \in Bytes /\ b1 \in Bytes /\ b2 \in Bytes /\ b3 \in Bytes /\ w = Compose(b0, b1, b2, b3)
  BY FlatWord
<1>3. /\ w % ByteMod = b0 /\ (w \div ByteMod) % ByteMod = b1 /\ (w \div HalfMod) % ByteMod = b2
      /\ (w \div (HalfMod * ByteMod)) % ByteMod = b3
      /\ w % HalfMod = Half(b0, b1) /\ w \div HalfMod = Half(b2, b3) /\ w \in Int
  BY <1>2, Digits, Moduli DEF Words
<1>4. Half(b2, b3) % HalfMod = Half(b2, b3)
  BY <1>2, HalfDigits, ModSmall, Moduli DEF Halves
<1>5. w = b0 + ByteMod * b1 + HalfMod * (b2 + ByteMod * b3)
  BY <1>2 DEF Compose, Word, Half
<1>6. w \div 1 = w
  BY <1>3
<1>7. /\ RiscV!LoadBytes(b, addr, 1) = b[addr]
      /\ addr % 2 = 0 => RiscV!LoadBytes(b, addr, 2) = Half(b[addr], b[addr + 1])
      /\ addr % 4 = 0 => RiscV!LoadBytes(b, addr, 4)
                           = b[addr] + ByteMod * b[addr + 1]
                               + HalfMod * (b[addr + 2] + ByteMod * b[addr + 3])
  BY LoadedBytes
<1>8. /\ memory_rd_b(m, addr) = (w \div Unit(addr)) % ByteMod
      /\ memory_rd_h(m, addr) = IF addr % 4 < 2 THEN w % HalfMod ELSE (w \div HalfMod) % HalfMod
      /\ memory_rd_w(m, addr) = w
  BY DEF memory_rd_b, memory_rd_h, memory_rd_w
<1> HIDE DEF a, w, b0, b1, b2, b3
<1>9. CASE addr % 4 = 0
  <2>0. Unit(addr) = 1
    BY <1>9 DEF Unit
  <2>1. addr = a
    BY <1>1, <1>9
  <2>2. b[addr] = b0 /\ b[addr + 1] = b1 /\ b[addr + 2] = b2 /\ b[addr + 3] = b3
    BY <2>1 DEF b0, b1, b2, b3
  <2>3. memory_rd_b(m, addr) = b0 /\ memory_rd_h(m, addr) = Half(b0, b1)
    BY <1>3, <1>6, <1>8, <1>9, <2>0
  <2> QED
    BY <1>5, <1>7, <1>8, <2>2, <2>3
<1>10. CASE addr % 4 = 1
  <2>1. addr = a + 1 /\ Unit(addr) = ByteMod /\ addr % 2 # 0
    BY <1>1, <1>10 DEF Unit
  <2> QED
    BY <1>3, <1>7, <1>8, <1>10, <2>1 DEF b1
<1>11. CASE addr % 4 = 2
  <2>1. addr = a + 2 /\ addr + 1 = a + 3 /\ Unit(addr) = HalfMod
    BY <1>1, <1>11 DEF Unit
  <2>2. b[addr] = b2 /\ b[addr + 1] = b3
    BY <2>1 DEF b2, b3
  <2>3. memory_rd_b(m, addr) = b2 /\ memory_rd_h(m, addr) = Half(b2, b3)
    BY <1>3, <1>4, <1>8, <1>11, <2>1
  <2> QED
    BY <1>7, <1>11, <2>2, <2>3
<1>12. CASE addr % 4 = 3
  <2>1. addr = a + 3 /\ Unit(addr) = HalfMod * ByteMod /\ addr % 2 # 0
    BY <1>1, <1>12 DEF Unit
  <2> QED
    BY <1>3, <1>7, <1>8, <1>12, <2>1 DEF b3
<1> QED
  BY <1>1, <1>9, <1>10, <1>11, <1>12

-----------------------------------------------------------------------------
(***************************************************************************)
(* Types: what the operations compute are numbers.                         *)
(***************************************************************************)
LEMMA IsWord ==
  ASSUME NEW x \in Int
  PROVE  x % WordMod \in Words
BY Moduli, DivMod DEF Words

LEMMA WordIsInt ==
  ASSUME NEW x \in Words
  PROVE  x \in Int /\ x \in 0 .. WordMod - 1 /\ WordMod \in Nat \ {0}
BY Moduli DEF Words

LEMMA PowerType ==
  ASSUME NEW s \in Int
  PROVE  s % WordBits \in 0 .. WordBits /\ Pow2[s % WordBits] \in Nat \ {0}
<1>1. WordBits \in Nat \ {0} /\ Pow2 \in [0 .. WordBits -> Nat \ {0}]
  BY WordAssumption
<1>2. s % WordBits \in 0 .. WordBits
  BY <1>1
<1> QED
  BY <1>1, <1>2

LEMMA SignedType ==
  ASSUME NEW x \in Words
  PROVE  RiscV!Signed(x) \in Int /\ (RiscV!Signed(x) = 0 <=> x = 0)
<1>1. x \in Int /\ x >= 0 /\ x < WordMod /\ WordMod \in Int /\ WordMod >= 4
  BY WordIsInt, FourDivides
<1> QED
  BY <1>1 DEF RiscV!Signed

LEMMA ShiftTypes ==
  ASSUME NEW x \in Words, NEW s \in Int
  PROVE  RiscV!Sll(x, s) \in Words /\ RiscV!Srl(x, s) \in Int /\ RiscV!Sra(x, s) \in Words
<1> DEFINE p == Pow2[s % WordBits]
<1>1. p \in Nat \ {0} /\ x \in Int /\ RiscV!Signed(x) \in Int
  BY PowerType, WordIsInt, SignedType
<1>2. /\ RiscV!Sll(x, s) = (x * p) % WordMod /\ RiscV!Srl(x, s) = x \div p
      /\ RiscV!Sra(x, s) = RiscV!Signed(x) \div p % WordMod
  BY DEF RiscV!Sll, RiscV!Srl, RiscV!Sra, RiscV!ToWord
<1> HIDE DEF p
<1>3. x * p \in Int /\ x \div p \in Int /\ RiscV!Signed(x) \div p \in Int
  BY <1>1
<1> QED
  BY <1>2, <1>3, IsWord

LEMMA LogicTypes ==
  ASSUME NEW x \in Words, NEW y \in Words
  PROVE  BitAnd(x, y) \in Words /\ RiscV!Or(x, y) \in Words /\ RiscV!Xor(x, y) \in Words
<1>1. BitAnd(x, y) \in Words
  BY AndAssumption
<1>2. BitAnd(x, y) \in Int /\ x \in Int /\ y \in Int
  BY <1>1, WordIsInt
<1>3. x + y - BitAnd(x, y) \in Int /\ x + y - 2 * BitAnd(x, y) \in Int
  BY <1>2
<1> QED
  BY <1>1, <1>3, IsWord DEF RiscV!Or, RiscV!Xor, RiscV!ToWord

LEMMA QuotientType ==
  ASSUME NEW x \in Int, NEW y \in Int, y # 0
  PROVE  RiscV!Quotient(x, y) \in Int /\ RiscV!Remainder(x, y) \in Int
<1>1. RiscV!SignOf(x) \in Int /\ RiscV!SignOf(y) \in Int
  BY DEF RiscV!SignOf
<1>2. RiscV!Abs(x) \in Nat /\ RiscV!Abs(y) \in Nat \ {0}
  BY DEF RiscV!Abs
<1>3. RiscV!Abs(x) \div RiscV!Abs(y) \in Int
  BY <1>2
<1>4. \A p, q, r \in Int : p * q * r \in Int /\ p - q * r \in Int
  OBVIOUS
<1>5. RiscV!Quotient(x, y) \in Int
  BY <1>1, <1>3, <1>4 DEF RiscV!Quotient
<1> QED
  BY <1>4, <1>5 DEF RiscV!Remainder

LEMMA ImmediateType ==
  ASSUME NEW op \in Operations.IMMEDIATE, NEW x \in Words, NEW imm \in Int
  PROVE  ImmediateResult(op, x, imm) \in Int
<1>1. imm % WordMod \in Words /\ x \in Int
  BY IsWord, WordIsInt
<1>2. /\ RiscV!Xor(x, imm % WordMod) \in Int /\ RiscV!Or(x, imm % WordMod) \in Int
      /\ BitAnd(x, imm % WordMod) \in Int
  <2> DEFINE y == imm % WordMod
  <2> HIDE DEF y
  <2>1. BitAnd(x, y) \in Words /\ RiscV!Or(x, y) \in Words /\ RiscV!Xor(x, y) \in Words
    BY <1>1, LogicTypes DEF y
  <2> QED
    BY <2>1, WordIsInt DEF y
<1>5. RiscV!Sll(x, imm) \in Int /\ RiscV!Srl(x, imm) \in Int
  BY ShiftTypes, WordIsInt
<1>6. op \in {"SLTI", "SLTIU"} => ImmediateResult(op, x, imm) \in Int
  BY DEF ImmediateResult, RiscV!Flag
<1>7. op \in {"ADDI", "XORI", "ORI", "ANDI"} => ImmediateResult(op, x, imm) \in Int
  BY <1>1, <1>2 DEF ImmediateResult
<1>8. op \in {"SLLI", "SRLI", "SRAI"} => ImmediateResult(op, x, imm) \in Int
  BY <1>5 DEF ImmediateResult
<1>3. op \in {"ADDI", "SLTI", "SLTIU", "XORI", "ORI", "ANDI", "SLLI", "SRLI", "SRAI"}
  BY DEF Operations
<1> QED
  BY <1>3, <1>6, <1>7, <1>8

LEMMA RtypeType ==
  ASSUME NEW op \in Operations.RTYPE, NEW x \in Words, NEW y \in Words,
         ~(op \in {"DIV", "DIVU"} /\ (x = 0 \/ y = 0))
  PROVE  RtypeResult(op, x, y) \in Int
<1> DEFINE sx == RiscV!Signed(x)
           sy == RiscV!Signed(y)
<1>1. x \in Int /\ y \in Int /\ y >= 0 /\ sx \in Int /\ sy \in Int /\ WordMod \in Nat \ {0}
  BY WordIsInt, SignedType
<1>2. /\ RiscV!Xor(x, y) \in Int /\ RiscV!Or(x, y) \in Int /\ BitAnd(x, y) \in Int
      /\ RiscV!Sll(x, y) \in Int /\ RiscV!Sra(x, y) \in Int
  BY <1>1, LogicTypes, ShiftTypes, WordIsInt
<1>3. y # 0 => RiscV!Quotient(sx, sy) \in Int /\ RiscV!Remainder(sx, sy) \in Int
  BY <1>1, QuotientType, SignedType
<1>4. y # 0 => x \div y \in Int /\ x % y \in Int
  BY <1>1
<1>5. sy * sx \in Int /\ (sx * sy) \div WordMod \in Int /\ x + y \in Int /\ x - y \in Int
  <2>1. sy * sx \in Int /\ sx * sy \in Int
    BY <1>1
  <2> QED
    BY <1>1, <2>1
<1>6. op \in {"ADD", "SUB", "SLL", "SLT", "SLTU", "XOR", "SRL", "SRA", "OR", "AND", "MUL",
              "MULH", "MULHSU", "MULHU", "DIV", "DIVU", "REM", "REMU"}
  BY DEF Operations
<1>7. op \in {"DIV", "DIVU"} => y # 0
  OBVIOUS
<1>8. op \in {"REM", "REMU"} => RtypeResult(op, x, y) \in Int
  BY <1>1, <1>3, <1>4 DEF RtypeResult
<1>9. op \in {"DIV", "DIVU"} => RtypeResult(op, x, y) \in Int
  BY <1>3, <1>4, <1>7 DEF RtypeResult
<1>10. op \in {"SLT", "SLTU"} => RtypeResult(op, x, y) \in Int
  BY DEF RtypeResult, RiscV!Flag
<1>11. op \in {"SLL", "XOR", "SRL", "SRA", "OR", "AND"} => RtypeResult(op, x, y) \in Int
  BY <1>2 DEF RtypeResult
<1>12. op \in {"ADD", "SUB", "MUL", "MULH", "MULHSU", "MULHU"} => RtypeResult(op, x, y) \in Int
  BY <1>5 DEF RtypeResult
<1> QED
  BY <1>6, <1>8, <1>9, <1>10, <1>11, <1>12

LEMMA JalType ==
  ASSUME NEW imm \in Int
  PROVE  JalOffset(imm) \in Int
<1> DEFINE top == (WordBits - JalBits) - 1
           p == Pow2[top]
           q == Pow2[JalBits]
<1>1. top \in 0 .. WordBits /\ JalBits \in 0 .. WordBits /\ Pow2 \in [0 .. WordBits -> Nat \ {0}]
  BY WordAssumption
<1>2. p \in Nat \ {0} /\ q \in Nat \ {0}
  BY <1>1
<1>3. JalOffset(imm) = ((IF imm < 0 THEN p ELSE 0) + 2 * ((imm % p) \div 2) + ((imm \div p) % 2)) * q
                          + (imm % q)
  BY Zenon DEF JalOffset, Bit
<1> HIDE DEF p, q
<1>4. imm % p \in Int /\ imm \div p \in Int /\ imm % q \in Int
  BY <1>2
<1>5. (IF imm < 0 THEN p ELSE 0) + 2 * ((imm % p) \div 2) + ((imm \div p) % 2) \in Int
  BY <1>2, <1>4
<1>6. \A x, y, z \in Int : x * y + z \in Int
  OBVIOUS
<1> QED
  BY <1>2, <1>3, <1>4, <1>5, <1>6

-----------------------------------------------------------------------------
(***************************************************************************)
(* The invariant of the memory: what is read and stored is well-formed,    *)
(* and the pages hold the bytes.                                           *)
(***************************************************************************)
InputInv ==
  /\ args \in Seq(Seq(Bytes \ {0})) /\ file \in Seq(Line)
  /\ phase \in {"pointer", "chars"} => args # << >>
  /\ phase \in {"set", "rehash", "place"} => file # << >> /\ file[1].kind = "insn"
  /\ argv_addr \in Words /\ argv_addr % 4 = 0 /\ str_addr \in Words

MachineInv ==
  /\ start_addr \in Words \cup {-1}
  /\ program_counter \in Words
  /\ reg \in [Registers -> Words]

MemoryInv == InputInv /\ MachineInv /\ Flat(mem, bytes)

LEMMA LineTypes ==
  ASSUME NEW l \in Line
  PROVE  /\ l.addr \in Words /\ l.kind \in {"data", "insn", "symbol"}
         /\ l.kind = "data" =>
              /\ l = [kind |-> "data", addr |-> l.addr, bytes |-> l.bytes]
              /\ l.bytes \in Seq(Bytes) /\ l.bytes # << >>
         /\ l.kind = "insn" => l.addr \in Nat /\ l.word \in Words
<1>1. CASE l \in [kind : {"data"}, addr : Words, bytes : Seq(Bytes) \ {<< >>}]
  BY <1>1
<1>2. CASE l \in [kind : {"insn"}, addr : 0 .. (WordMod \div 2) - 1, word : Words,
                  text : Texts \cup {NoText}]
  <2>1. l.kind = "insn" /\ l.addr \in 0 .. (WordMod \div 2) - 1 /\ l.word \in Words
    BY <1>2
  <2>2. 0 .. (WordMod \div 2) - 1 \subseteq Words /\ 0 .. (WordMod \div 2) - 1 \subseteq Nat
    BY Moduli DEF Words
  <2> QED
    BY <2>1, <2>2
<1>3. CASE l \in [kind : {"symbol"}, addr : Words, start : BOOLEAN]
  BY <1>3
<1> QED
  BY <1>1, <1>2, <1>3 DEF Line

LEMMA SmallWords ==
  /\ Bytes \subseteq Words /\ 0 \in Words /\ 0 \in Bytes
  /\ \A n \in Nat : n % WordMod \in Words
<1>1. Bytes \subseteq Words
  BY Moduli DEF Bytes, Words
<1>2. 0 \in Words /\ 0 \in Bytes
  BY Moduli DEF Words, Bytes
<1> QED
  BY <1>1, <1>2, IsWord

\* A store that is well-formed keeps the memory flat.
LEMMA StoreInFlat ==
  ASSUME NEW m, Flat(m, bytes), NEW size \in {1, 2, 4}, NEW addr \in Words, addr % size = 0,
         NEW data \in Words, StoreIn(m, size, addr, data)
  PROVE  Flat(mem', bytes')
<1>1. CASE size = 4
  <2>1. Flat(memory_wr_w(m, addr, data), RiscV!StoreBytes(bytes, addr, 4, data))
    BY <1>1, StoreWordFlat
  <2>2. /\ mem' = memory_wr_w(m, addr, data)
        /\ bytes' = RiscV!StoreBytes(bytes, addr, 4, data)
    BY <1>1 DEF StoreIn
  <2> QED
    BY <2>1, <2>2, Zenon
<1>2. CASE size = 2
  <2>1. Flat(memory_wr_h(m, addr, data), RiscV!StoreBytes(bytes, addr, 2, data))
    BY <1>2, StoreHalfFlat
  <2>2. /\ mem' = memory_wr_h(m, addr, data)
        /\ bytes' = RiscV!StoreBytes(bytes, addr, 2, data)
    BY <1>2 DEF StoreIn
  <2> QED
    BY <2>1, <2>2, Zenon
<1>3. CASE size = 1
  <2>1. Flat(memory_wr_b(m, addr, data), RiscV!StoreBytes(bytes, addr, 1, data))
    BY StoreByteFlat
  <2>2. /\ mem' = memory_wr_b(m, addr, data)
        /\ bytes' = RiscV!StoreBytes(bytes, addr, 1, data)
    BY <1>3 DEF StoreIn
  <2> QED
    BY <2>1, <2>2, Zenon
<1> QED
  BY <1>1, <1>2, <1>3

LEMMA PageFlat ==
  ASSUME NEW m, NEW b, Flat(m, b), NEW addr \in Words
  PROVE  Flat(get_page(m, addr), b)
<1>1. PagesOK(m)
  BY DEF Flat
<1>2. PagesOK(get_page(m, addr)) /\ \A x \in Words : WordAt(get_page(m, addr), x) = WordAt(m, x)
  BY <1>1, GetPage
<1> QED
  BY <1>2 DEF Flat

LEMMA NextAligned ==
  ASSUME NEW addr \in Words, addr % 4 = 0
  PROVE  (addr + 4) % WordMod \in Words /\ ((addr + 4) % WordMod) % 4 = 0
<1> DEFINE x == addr + 4
           k == WordMod \div 4
<1>1. x \in Int /\ x % 4 = 0
  BY WordIsInt
<1>2. WordMod = 4 * k /\ k \in Nat \ {0} /\ 4 \in Nat \ {0}
  BY Moduli, FourDivides
<1> HIDE DEF x, k
<1>3. (x % (4 * k)) % 4 = x % 4
  BY <1>1, <1>2, ModTwice
<1>4. x % WordMod \in Words /\ (x % WordMod) % 4 = 0
  BY <1>1, <1>2, <1>3, IsWord
<1> QED
  BY <1>4 DEF x

LEMMA MemoryStart == Init => MemoryInv
<1> SUFFICES ASSUME Init PROVE MemoryInv
  OBVIOUS
<1>1. WordMod \in Nat \ {0} /\ WordMod % 4 = 0 /\ ArgBase \in Words /\ ArgBase % 4 = 0
  BY Moduli, FourDivides, InputAssumption
<1>2. argv_addr \in Words /\ argv_addr % 4 = 0
  BY <1>1, NextAligned DEF Init
<1>3. InputInv
  <2>1. Len(args) \in Nat
    BY InputAssumption DEF Init
  <2>2. ArgBase + 4 + 4 * Len(args) \in Int
    BY <1>1, <2>1 DEF Words
  <2>3. str_addr \in Words
    BY <2>2, IsWord DEF Init
  <2> QED
    BY <1>2, <2>3, InputAssumption DEF Init, InputInv
<1>4. MachineInv
  BY SmallWords DEF Init, MachineInv
<1>5. Flat(mem, bytes)
  <2>1. bytes = [a \in Words |-> 0] /\ mem = [page \in {} |-> 0]
    BY DEF Init, memory_create
  <2>2. bytes \in [Words -> Bytes]
    BY <2>1, SmallWords
  <2>3. PagesOK(mem) /\ \A a \in Words : WordAt(mem, a) = 0
    BY <2>1 DEF PagesOK, WordAt
  <2>4. Compose(0, 0, 0, 0) = 0
    BY Moduli DEF Compose, Word, Half
  <2>5. ASSUME NEW a \in Words, a % 4 = 0
        PROVE  WordAt(mem, a) = Compose(bytes[a], bytes[a + 1], bytes[a + 2], bytes[a + 3])
    <3>1. a = Base(a)
      BY <2>5, Moduli DEF Base, Words
    <3>2. a + 1 \in Words /\ a + 2 \in Words /\ a + 3 \in Words
      BY <3>1, BaseOf
    <3> QED
      BY <2>1, <2>3, <2>4, <3>2
  <2> QED
    BY <2>2, <2>3, <2>5 DEF Flat
<1> QED
  BY <1>3, <1>4, <1>5 DEF MemoryInv

-----------------------------------------------------------------------------
(***************************************************************************)
(* Start-up and loading keep the invariant.                                *)
(***************************************************************************)
LEMMA PassStep ==
  ASSUME MemoryInv, PassCount \/ PassPointer \/ PassChar
  PROVE  MemoryInv'
<1> USE DEF MemoryInv
<1>1. CASE PassCount
  <2>1. InputInv' /\ MachineInv'
    BY <1>1 DEF PassCount, InputInv, MachineInv, argument, machine
  <2>2. CASE args = << >>
    <3>1. mem' = mem /\ bytes' = bytes
      BY <1>1, <2>2 DEF PassCount, memory
    <3> QED
      BY <2>1, <3>1
  <2>3. CASE args # << >>
    <3>1. StoreIn(mem, 4, ArgBase, Len(args) % WordMod)
      BY <1>1, <2>3 DEF PassCount
    <3>2. Len(args) % WordMod \in Words /\ ArgBase \in Words /\ ArgBase % 4 = 0
      BY SmallWords, InputAssumption DEF InputInv
    <3>3. Flat(mem', bytes')
      BY <3>1, <3>2, StoreInFlat
    <3> QED
      BY <2>1, <3>3
  <2> QED
    BY <2>2, <2>3
<1>2. CASE PassPointer
  <2>1. /\ StoreIn(mem, 4, argv_addr, str_addr) /\ argv_addr' = (argv_addr + 4) % WordMod
        /\ phase = "pointer" /\ phase' = "chars"
        /\ UNCHANGED <<args, str_addr, file, start_addr, program_counter, reg>>
    BY <1>2 DEF PassPointer, machine
  <2>2. argv_addr \in Words /\ argv_addr % 4 = 0 /\ str_addr \in Words /\ args # << >>
    BY <2>1 DEF InputInv
  <2>3. argv_addr' \in Words /\ argv_addr' % 4 = 0
    BY <2>1, <2>2, NextAligned
  <2>4. Flat(mem', bytes')
    BY <2>1, <2>2, StoreInFlat
  <2>5. InputInv' /\ MachineInv'
    BY <2>1, <2>2, <2>3 DEF InputInv, MachineInv
  <2> QED
    BY <2>4, <2>5
<1>3. CASE PassChar
  <2>1. /\ str_addr' = (str_addr + 1) % WordMod /\ phase = "chars"
        /\ UNCHANGED <<argv_addr, file, start_addr, program_counter, reg>>
    BY <1>3 DEF PassChar, machine
  <2>2. /\ str_addr \in Words /\ str_addr % 1 = 0 /\ args # << >>
        /\ args \in Seq(Seq(Bytes \ {0})) /\ args[1] \in Seq(Bytes \ {0})
    BY <2>1, WordIsInt DEF InputInv
  <2>3. str_addr' \in Words
    <3>1. str_addr + 1 \in Int
      BY <2>2, WordIsInt
    <3> QED
      BY <2>1, <3>1, IsWord
  <2>4. MachineInv'
    BY <2>1 DEF MachineInv
  <2>5. CASE args[1] = << >>
    <3>1. /\ StoreIn(mem, 1, str_addr, 0) /\ args' = Tail(args)
          /\ phase' = IF args' = << >> THEN "load" ELSE "pointer"
      BY <1>3, <2>5 DEF PassChar
    <3>2. Flat(mem', bytes')
      BY <2>2, <3>1, StoreInFlat, SmallWords
    <3>3. args' \in Seq(Seq(Bytes \ {0}))
      BY <2>2, <3>1
    <3>4. InputInv'
      BY <2>1, <2>3, <3>1, <3>3 DEF InputInv
    <3> QED
      BY <2>4, <3>2, <3>4
  <2>6. CASE args[1] # << >>
    <3>1. /\ StoreIn(mem, 1, str_addr, Head(args[1])) /\ args' = [args EXCEPT ![1] = Tail(args[1])]
          /\ phase' = phase
      BY <1>3, <2>6 DEF PassChar
    <3>2. Head(args[1]) \in Words /\ Tail(args[1]) \in Seq(Bytes \ {0})
      BY <2>2, <2>6, SmallWords
    <3>3. Flat(mem', bytes')
      BY <2>2, <3>1, <3>2, StoreInFlat
    <3>4. args' \in Seq(Seq(Bytes \ {0})) /\ args' # << >>
      BY <2>2, <3>1, <3>2
    <3>5. InputInv'
      BY <2>1, <2>3, <3>1, <3>4 DEF InputInv
    <3> QED
      BY <2>4, <3>3, <3>5
  <2> QED
    BY <2>5, <2>6
<1> QED
  BY <1>1, <1>2, <1>3

LEMMA ReplaceFirst ==
  ASSUME NEW S, NEW s \in Seq(S), NEW x \in S
  PROVE  [s EXCEPT ![1] = x] \in Seq(S)
<1>1. Len(s) \in Nat /\ s \in [1 .. Len(s) -> S]
  OBVIOUS
<1>2. [s EXCEPT ![1] = x] \in [1 .. Len(s) -> S]
  BY <1>1
<1> QED
  BY <1>1, <1>2

LEMMA LongTail ==
  ASSUME NEW S, NEW s \in Seq(S), s # << >>, Len(s) # 1
  PROVE  Tail(s) \in Seq(S) /\ Tail(s) # << >>
<1>1. Len(s) \in Nat /\ Len(s) > 1
  BY EmptySeq
<1>2. Tail(s) \in Seq(S) /\ Len(Tail(s)) = Len(s) - 1
  BY <1>1
<1>3. Len(Tail(s)) # 0
  BY <1>1, <1>2
<1> QED
  BY <1>2, <1>3, EmptySeq

LEMMA FileType ==
  ASSUME InputInv, file # << >>
  PROVE  file[1] \in Line /\ Tail(file) \in Seq(Line)
BY DEF InputInv

LEMMA DataStep ==
  ASSUME MemoryInv, DataLine
  PROVE  MemoryInv'
<1> DEFINE l == file[1]
<1>1. /\ file # << >> /\ l.kind = "data" /\ phase = "load" /\ phase' = "load"
      /\ StoreIn(mem, 1, l.addr, Head(l.bytes))
      /\ file' = IF Len(l.bytes) = 1 THEN Tail(file)
                 ELSE [file EXCEPT ![1] = [kind |-> "data", addr |-> (l.addr + 1) % WordMod,
                                           bytes |-> Tail(l.bytes)]]
      /\ UNCHANGED <<args, argv_addr, str_addr, start_addr, program_counter, reg>>
  BY DEF DataLine, NextLine, argument, machine
<1>2. InputInv /\ MachineInv /\ Flat(mem, bytes)
  BY DEF MemoryInv
<1>3. l \in Line /\ Tail(file) \in Seq(Line)
  BY <1>1, <1>2, FileType
<1>4. /\ l.addr \in Words /\ l = [kind |-> "data", addr |-> l.addr, bytes |-> l.bytes]
      /\ l.bytes \in Seq(Bytes) /\ l.bytes # << >>
  BY <1>1, <1>3, LineTypes
<1> HIDE DEF l
<1>5. Flat(mem', bytes')
  <2>0. \A q \in Seq(Bytes) : q # << >> => Head(q) \in Bytes
    OBVIOUS
  <2>1. Head(l.bytes) \in Words /\ l.addr % 1 = 0
    <3>1. l.addr % 1 = 0
      BY <1>4, WordIsInt
    <3>2. Head(l.bytes) \in Words
      BY <1>4, <2>0, SmallWords
    <3> QED
      BY <3>1, <3>2
  <2> QED
    BY <1>1, <1>2, <1>4, <2>1, StoreInFlat
<1>6. file' \in Seq(Line)
  <2>1. CASE Len(l.bytes) = 1
    BY <1>1, <1>3, <2>1
  <2>2. CASE Len(l.bytes) # 1
    <3> DEFINE new == [kind |-> "data", addr |-> (l.addr + 1) % WordMod, bytes |-> Tail(l.bytes)]
    <3>1. (l.addr + 1) % WordMod \in Words
      <4>1. l.addr + 1 \in Int
        BY <1>4, WordIsInt
      <4> QED
        BY <4>1, IsWord
    <3>2. Tail(l.bytes) \in Seq(Bytes) /\ Tail(l.bytes) # << >>
      BY <1>4, <2>2, LongTail
    <3>3. new \in Line
      BY <3>1, <3>2 DEF Line
    <3>5. file' = [file EXCEPT ![1] = new]
      BY <1>1, <2>2
    <3> HIDE DEF new
    <3> QED
      BY <1>2, <3>3, <3>5, ReplaceFirst DEF InputInv
  <2> QED
    BY <2>1, <2>2
<1>7. InputInv' /\ MachineInv'
  BY <1>1, <1>2, <1>6 DEF InputInv, MachineInv
<1> QED
  BY <1>5, <1>7 DEF MemoryInv

LEMMA InsnStep ==
  ASSUME MemoryInv, InsnLine
  PROVE  MemoryInv'
<1> DEFINE l == file[1]
<1>1. /\ file # << >> /\ l.kind = "insn" /\ phase = "load"
      /\ IF Aligned(l.addr, 4)
           THEN /\ StoreIn(mem, 4, l.addr, l.word)
                /\ IF l.text = NoText THEN file' = Tail(file) /\ phase' = phase
                   ELSE phase' = "set" /\ file' = file
           ELSE phase' = "exit" /\ mem' = mem /\ bytes' = bytes /\ file' = file
      /\ UNCHANGED <<args, argv_addr, str_addr, start_addr, program_counter, reg>>
  BY DEF InsnLine, NextLine, memory, argument, machine
<1>2. InputInv /\ MachineInv /\ Flat(mem, bytes)
  BY DEF MemoryInv
<1>3. l \in Line /\ Tail(file) \in Seq(Line)
  BY <1>1, <1>2, FileType
<1>4. l.addr \in Words /\ l.word \in Words
  BY <1>1, <1>3, LineTypes
<1>5. Flat(mem', bytes')
  <2>1. CASE Aligned(l.addr, 4)
    <3>1. StoreIn(mem, 4, l.addr, l.word) /\ l.addr % 4 = 0
      BY <1>1, <2>1 DEF Aligned
    <3> HIDE DEF l
    <3> QED
      BY <1>2, <1>4, <3>1, StoreInFlat
  <2>2. CASE ~Aligned(l.addr, 4)
    BY <1>1, <1>2, <2>2
  <2> QED
    BY <2>1, <2>2
<1>6. InputInv' /\ MachineInv'
  <2>1. file' \in {file, Tail(file)} /\ phase' \in {"load", "set", "exit"}
    BY <1>1
  <2>2. phase' = "set" => file' = file
    BY <1>1
  <2> QED
    BY <1>1, <1>2, <1>3, <2>1, <2>2 DEF InputInv, MachineInv
<1> QED
  BY <1>5, <1>6 DEF MemoryInv

\* The text table is apart from the memory.
LEMMA TableMemoryStep ==
  ASSUME MemoryInv, SetText \/ SetAgain \/ Rehash
  PROVE  MemoryInv'
<1>1. /\ InputInv /\ MachineInv /\ Flat(mem, bytes)
      /\ phase \in {"set", "rehash", "place"}
      /\ file # << >> /\ file[1].kind = "insn" /\ file \in Seq(Line)
  BY DEF MemoryInv, InputInv, SetText, SetAgain, Rehash
<1>2. /\ UNCHANGED <<mem, bytes, args, argv_addr, str_addr, start_addr, program_counter, reg>>
      /\ \/ file' = file /\ phase' \in {"rehash", "place"}
         \/ file' = Tail(file) /\ phase' = "load"
  <2>1. ASSUME NEW idx, PutInto(idx)
        PROVE  \/ file' = file /\ phase' \in {"rehash", "place"}
               \/ file' = Tail(file) /\ phase' = "load"
    BY <2>1 DEF PutInto, Grow, SetSlot
  <2>2. CASE SetText
    BY <2>1, <2>2 DEF SetText, memory, argument, machine
  <2>3. CASE SetAgain
    BY <2>1, <2>3 DEF SetAgain, memory, argument, machine
  <2>4. CASE Rehash
    BY <2>4 DEF Rehash, memory, argument, machine
  <2> QED
    BY <2>2, <2>3, <2>4
<1>3. Tail(file) \in Seq(Line)
  BY <1>1
<1>4. InputInv' /\ MachineInv'
  BY <1>1, <1>2, <1>3 DEF InputInv, MachineInv
<1>5. Flat(mem', bytes')
  BY <1>1, <1>2
<1> QED
  BY <1>4, <1>5 DEF MemoryInv

LEMMA SymbolStep ==
  ASSUME MemoryInv, SymbolLine \/ StartProgram
  PROVE  MemoryInv'
<1>1. InputInv /\ MachineInv /\ Flat(mem, bytes)
  BY DEF MemoryInv
<1>2. CASE SymbolLine
  <2>1. /\ file # << >> /\ phase = "load" /\ phase' = phase /\ file' = Tail(file)
        /\ start_addr' = IF file[1].start THEN file[1].addr ELSE start_addr
        /\ UNCHANGED <<mem, bytes, args, argv_addr, str_addr, program_counter, reg>>
    BY <1>2 DEF SymbolLine, NextLine, memory, argument
  <2>2. file[1].addr \in Words /\ Tail(file) \in Seq(Line)
    BY <1>1, <2>1, FileType, LineTypes
  <2>3. InputInv' /\ MachineInv'
    BY <1>1, <2>1, <2>2 DEF InputInv, MachineInv
  <2>4. Flat(mem', bytes')
    BY <1>1, <2>1
  <2> QED
    BY <2>3, <2>4 DEF MemoryInv
<1>3. CASE StartProgram
  <2>1. /\ phase' \in {"exit", "run"}
        /\ UNCHANGED <<mem, bytes, args, argv_addr, str_addr, start_addr, file>>
        /\ \/ program_counter' = program_counter /\ reg' = reg
           \/ /\ start_addr # -1 /\ program_counter' = start_addr
              /\ \E g \in Garbage : reg' = [g EXCEPT ![0] = 0]
    BY <1>3 DEF StartProgram, memory, argument
  <2>2. \A g \in Garbage : [g EXCEPT ![0] = 0] \in [Registers -> Words]
    BY InputAssumption, SmallWords
  <2>3. InputInv'
    BY <1>1, <2>1 DEF InputInv
  <2>4. MachineInv'
    BY <1>1, <2>1, <2>2 DEF MachineInv
  <2>5. Flat(mem', bytes')
    BY <1>1, <2>1
  <2> QED
    BY <2>3, <2>4, <2>5 DEF MemoryInv
<1> QED
  BY <1>2, <1>3

-----------------------------------------------------------------------------
(***************************************************************************)
(* Executing an instruction keeps the invariant.                           *)
(***************************************************************************)
InsnOK(i) ==
  /\ i.class \in DOMAIN Operations /\ i.op \in Operations[i.class]
  /\ i.rd \in Registers /\ i.rs1 \in Registers /\ i.rs2 \in Registers
  /\ i.imm \in Int
  /\ i.class \in {"LOAD", "STORE", "IMMEDIATE"} =>
       i.imm \in -(ImmMod \div 2) .. (ImmMod \div 2) - 1
  /\ i.op \in {"SLLI", "SRLI", "SRAI"} => i.imm \in 0 .. WordBits - 1

LEMMA FetchedType ==
  ASSUME Fetched.class # "none"
  PROVE  InsnOK(Fetched)
<1>1. Illegal.class = "none"
  BY DEF Illegal
<1>2. PICK word \in DOMAIN Instructions : Fetched = Instructions[word]
  BY <1>1 DEF Fetched
<1>3. InsnOK(Instructions[word])
  BY InstructionAssumption DEF InsnOK
<1> QED
  BY <1>2, <1>3

LEMMA ExecKeeps ==
  ASSUME MemoryInv, phase' \in {"run", "exit", "returned", "failure", "crashed"},
         UNCHANGED <<argument, file, start_addr>>,
         program_counter' \in Words, reg' \in [Registers -> Words], Flat(mem', bytes')
  PROVE  MemoryInv'
BY DEF MemoryInv, InputInv, MachineInv, argument

LEMMA FetchFlat ==
  ASSUME MemoryInv, Fetching, UNCHANGED bytes
  PROVE  Flat(mem', bytes')
<1>1. Flat(mem, bytes) /\ program_counter \in Words
  BY DEF MemoryInv, MachineInv
<1>2. Flat(get_page(mem, program_counter), bytes)
  BY <1>1, PageFlat
<1> QED
  BY <1>2 DEF Fetching

\* The program stops or does nothing.
LEMMA StopStep ==
  ASSUME MemoryInv, Fetching, UNCHANGED <<bytes, program_counter, reg>>, Counted,
         phase' \in {"run", "exit", "returned", "failure", "crashed"}
  PROVE  MemoryInv'
<1>1. program_counter' \in Words /\ reg' \in [Registers -> Words]
  BY DEF MemoryInv, MachineInv
<1>2. UNCHANGED <<argument, file, start_addr>>
  BY DEF Counted
<1>3. Flat(mem', bytes')
  BY FetchFlat
<1> QED
  BY <1>1, <1>2, <1>3, ExecKeeps

\* An instruction writes a register and goes on.
LEMMA RegisterStep ==
  ASSUME MemoryInv, phase = "run", Fetched.class # "none", NEW x \in Int, NEW pc \in Int,
         Register(x), Goto(pc)
  PROVE  MemoryInv'
<1>1. /\ Fetching /\ phase' = phase /\ bytes' = bytes /\ UNCHANGED <<argument, file, start_addr>>
      /\ reg' = [reg EXCEPT ![Fetched.rd] = x % WordMod]
      /\ program_counter' = pc % WordMod
  BY DEF Register, Set, Goto, Counted
<1>2. program_counter' \in Words /\ x % WordMod \in Words
  BY <1>1, IsWord
<1>3. reg' \in [Registers -> Words]
  BY <1>1, <1>2 DEF MemoryInv, MachineInv
<1>4. Flat(mem', bytes')
  BY <1>1, FetchFlat
<1> QED
  BY <1>1, <1>2, <1>3, <1>4, ExecKeeps

LEMMA MachineTypes ==
  ASSUME MemoryInv, phase = "run"
  PROVE  /\ program_counter \in Int /\ program_counter \in Words /\ program_counter + 4 \in Int
         /\ Flat(mem, bytes) /\ reg \in [Registers -> Words]
<1>1. program_counter \in Words /\ Flat(mem, bytes) /\ reg \in [Registers -> Words]
  BY DEF MemoryInv, MachineInv
<1> QED
  BY <1>1, WordIsInt

\* The offset of an access is a number below ImmMod.
LEMMA AddressType ==
  ASSUME MemoryInv, phase = "run", InsnOK(Fetched)
  PROVE  Address \in Words /\ UnsignedImm \in 0 .. ImmMod - 1 /\ reg[Fetched.rs1] \in Words
<1>1. reg[Fetched.rs1] \in Words
  BY MachineTypes DEF InsnOK
<1>2. UnsignedImm \in 0 .. ImmMod - 1
  BY WordAssumption, DivMod DEF UnsignedImm, InsnOK
<1>3. reg[Fetched.rs1] + UnsignedImm \in Int
  BY <1>1, <1>2, WordIsInt, WordAssumption
<1> QED
  BY <1>1, <1>2, <1>3, IsWord DEF Address

LEMMA AccessSize ==
  ASSUME NEW op \in Operations.LOAD \cup Operations.STORE
  PROVE  RiscV!Bytes(op) \in {1, 2, 4}
BY DEF Operations, RiscV!Bytes

LEMMA EcallStep ==
  ASSUME MemoryInv, Ecall
  PROVE  MemoryInv'
<1>1. phase = "run" /\ Fetching /\ bytes' = bytes /\ Counted
  BY DEF Ecall, Executing
<1>2. /\ program_counter + 4 \in Int /\ program_counter \in Words /\ reg \in [Registers -> Words]
  BY <1>1, MachineTypes
<1>3. (program_counter + 4) % WordMod \in Words
  BY <1>2, IsWord
<1>4. \A ch \in Chars : [reg EXCEPT ![a0] = ch % WordMod] \in [Registers -> Words]
  <2> SUFFICES ASSUME NEW ch \in Chars
               PROVE  [reg EXCEPT ![a0] = ch % WordMod] \in [Registers -> Words]
    OBVIOUS
  <2>1. ch % WordMod \in Words
    BY InputAssumption, IsWord
  <2> QED
    BY <1>2, <2>1
<1>5. /\ phase' \in {"run", "returned"}
      /\ program_counter' \in {program_counter, (program_counter + 4) % WordMod}
      /\ reg' = reg \/ \E ch \in Chars : reg' = [reg EXCEPT ![a0] = ch % WordMod]
  <2>1. CASE reg[a7] = 1
    BY <1>1, <2>1 DEF Ecall, Set, Goto
  <2>2. CASE reg[a7] = 2
    BY <1>1, <2>2 DEF Ecall, Goto
  <2>3. CASE reg[a7] \in {3, 93}
    BY <2>3 DEF Ecall, Stop
  <2>4. CASE reg[a7] \notin {1, 2, 3, 93}
    BY <1>1, <2>4 DEF Ecall
  <2> QED
    BY <2>1, <2>2, <2>3, <2>4
<1>6. program_counter' \in Words /\ reg' \in [Registers -> Words]
  BY <1>2, <1>3, <1>4, <1>5
<1>7. Flat(mem', bytes') /\ UNCHANGED <<argument, file, start_addr>>
  BY <1>1, FetchFlat DEF Counted
<1> QED
  BY <1>5, <1>6, <1>7, ExecKeeps

LEMMA UpperStep ==
  ASSUME MemoryInv, Lui \/ Auipc \/ Jal \/ Jalr
  PROVE  MemoryInv'
<1>1. phase = "run" /\ Fetched.class # "none"
  BY DEF Lui, Auipc, Jal, Jalr, Executing
<1>2. InsnOK(Fetched)
  BY <1>1, FetchedType
<1>3. /\ program_counter \in Int /\ program_counter + 4 \in Int /\ Fetched.imm \in Int
      /\ Fetched.rs1 \in Int /\ JalOffset(Fetched.imm) \in Int
  <2>1. program_counter \in Int /\ program_counter + 4 \in Int
    BY <1>1, MachineTypes
  <2>2. Fetched.imm \in Int /\ Fetched.rs1 \in Registers
    BY <1>2 DEF InsnOK
  <2>3. Fetched.rs1 \in Int
    <3>1. Registers \subseteq Nat
      BY InputAssumption, Zenon
    <3>2. \A r \in Nat : r \in Int
      OBVIOUS
    <3> QED
      BY <2>2, <3>1, <3>2, Zenon
  <2> QED
    BY <2>1, <2>2, <2>3, JalType
<1>4. /\ program_counter + Fetched.imm \in Int
      /\ program_counter + JalOffset(Fetched.imm) \in Int
      /\ SignedImm + Fetched.rs1 \in Int
  BY <1>3 DEF SignedImm
<1>5. CASE Lui
  BY <1>1, <1>3, <1>5, RegisterStep DEF Lui
<1>6. CASE Auipc
  BY <1>1, <1>3, <1>4, <1>6, RegisterStep DEF Auipc
<1>7. CASE Jal
  BY <1>1, <1>3, <1>4, <1>7, RegisterStep DEF Jal
<1>8. CASE Jalr
  BY <1>1, <1>3, <1>4, <1>8, RegisterStep DEF Jalr
<1> QED
  BY <1>5, <1>6, <1>7, <1>8

LEMMA BranchStep ==
  ASSUME MemoryInv, Branch
  PROVE  MemoryInv'
<1>1. /\ phase = "run" /\ Fetched.class # "none" /\ Fetching /\ Counted
      /\ phase' = phase /\ reg' = reg /\ bytes' = bytes
      /\ program_counter' \in {program_counter, (program_counter + SignedImm) % WordMod}
  BY DEF Branch, Executing, Goto
<1>2. InsnOK(Fetched)
  BY <1>1, FetchedType
<1>3. program_counter + SignedImm \in Int /\ program_counter \in Words /\ reg \in [Registers -> Words]
  BY <1>1, <1>2, MachineTypes DEF SignedImm, InsnOK
<1>4. program_counter' \in Words
  BY <1>1, <1>3, IsWord
<1>5. Flat(mem', bytes') /\ UNCHANGED <<argument, file, start_addr>>
  BY <1>1, FetchFlat DEF Counted
<1> QED
  BY <1>1, <1>3, <1>4, <1>5, ExecKeeps

\* What a load reads is a word.
LEMMA ReadWords ==
  ASSUME NEW m, NEW b, Flat(m, b), NEW addr \in Words
  PROVE  /\ memory_rd_b(m, addr) \in Words /\ memory_rd_h(m, addr) \in Words
         /\ memory_rd_w(m, addr) \in Words
<1>1. /\ b[Base(addr)] \in Bytes /\ b[Base(addr) + 1] \in Bytes
      /\ b[Base(addr) + 2] \in Bytes /\ b[Base(addr) + 3] \in Bytes
      /\ WordAt(m, addr) = Compose(b[Base(addr)], b[Base(addr) + 1],
                                   b[Base(addr) + 2], b[Base(addr) + 3])
  BY FlatWord
<1>2. WordAt(m, addr) \in Words
  BY <1>1, Digits
<1>3. /\ WordAt(m, addr) \in Int /\ HalfMod \in Nat \ {0} /\ HalfMod < WordMod
      /\ WordMod \in Nat /\ WordAt(m, addr) \div HalfMod \in Int
  BY <1>2, WordIsInt, Moduli
<1>4. \A v \in Int : v % HalfMod \in Words
  <2> SUFFICES ASSUME NEW v \in Int PROVE v % HalfMod \in Words
    OBVIOUS
  <2>1. v % HalfMod \in 0 .. HalfMod - 1
    BY <1>3, DivMod
  <2> QED
    BY <1>3, <2>1 DEF Words
<1>5. memory_rd_b(m, addr) \in Words
  <2>1. b[addr] \in Bytes
    BY DEF Flat
  <2> QED
    BY <2>1, FlatReads, SmallWords
<1>6. memory_rd_h(m, addr) \in Words
  BY <1>3, <1>4 DEF memory_rd_h
<1> QED
  BY <1>2, <1>5, <1>6 DEF memory_rd_w

LEMMA ReadType ==
  ASSUME NEW m, NEW b, Flat(m, b), NEW addr \in Words
  PROVE  memory_rd_b(m, addr) \in Int /\ memory_rd_h(m, addr) \in Int /\ memory_rd_w(m, addr) \in Int
BY ReadWords, WordIsInt

LEMMA LoadStep ==
  ASSUME MemoryInv, Load
  PROVE  MemoryInv'
<1>1. /\ phase = "run" /\ Fetched.class = "LOAD" /\ Counted /\ bytes' = bytes
      /\ mem' = get_page(get_page(mem, program_counter), Address)
  BY DEF Load, Executing
<1>2. InsnOK(Fetched)
  BY <1>1, FetchedType
<1>3. /\ program_counter \in Words /\ reg \in [Registers -> Words] /\ Flat(mem, bytes)
      /\ (program_counter + 4) % WordMod \in Words /\ Address \in Words
  BY <1>1, <1>2, MachineTypes, AddressType, IsWord
<1> DEFINE n == RiscV!Bytes(Fetched.op)
           x == CASE n = 1 -> memory_rd_b(mem, Address)
                  [] n = 2 -> memory_rd_h(mem, Address)
                  [] n = 4 -> memory_rd_w(mem, Address)
<1>4. n \in {1, 2, 4}
  BY <1>1, <1>2, AccessSize DEF InsnOK
<1>5. x % WordMod \in Words
  <2>1. x \in Int
    BY <1>3, <1>4, ReadType
  <2> QED
    BY <2>1, IsWord
<1>6. /\ phase' \in {"run", "exit"}
      /\ program_counter' \in {program_counter, (program_counter + 4) % WordMod}
      /\ reg' \in {reg, [reg EXCEPT ![Fetched.rd] = x % WordMod]}
  BY <1>1 DEF Load, Set, Goto, Stop
<1> HIDE DEF x
<1>7. program_counter' \in Words /\ reg' \in [Registers -> Words]
  BY <1>3, <1>5, <1>6
<1>8. Flat(mem', bytes')
  <2>1. Flat(get_page(mem, program_counter), bytes)
    BY <1>3, PageFlat
  <2>2. Flat(get_page(get_page(mem, program_counter), Address), bytes)
    BY <1>3, <2>1, PageFlat
  <2> QED
    BY <1>1, <2>2
<1>9. UNCHANGED <<argument, file, start_addr>>
  BY <1>1 DEF Counted
<1> QED
  BY <1>6, <1>7, <1>8, <1>9, ExecKeeps

LEMMA StoreStep ==
  ASSUME MemoryInv, Store
  PROVE  MemoryInv'
<1> DEFINE n == RiscV!Bytes(Fetched.op)
<1>1. /\ phase = "run" /\ Fetched.class = "STORE" /\ Counted
      /\ IF Aligned(Address, n)
           THEN /\ StoreIn(get_page(mem, program_counter), n, Address, reg[Fetched.rs2])
                /\ program_counter' = (program_counter + 4) % WordMod
                /\ phase' = phase /\ reg' = reg
           ELSE phase' = "exit" /\ UNCHANGED <<program_counter, reg>> /\ Fetching /\ bytes' = bytes
  BY DEF Store, Executing, Stop, Goto
<1>2. InsnOK(Fetched)
  BY <1>1, FetchedType
<1>3. /\ program_counter \in Words /\ reg \in [Registers -> Words] /\ Flat(mem, bytes)
      /\ (program_counter + 4) % WordMod \in Words /\ Address \in Words
  BY <1>1, <1>2, MachineTypes, AddressType, IsWord
<1>4. n \in {1, 2, 4} /\ reg[Fetched.rs2] \in Words
  BY <1>1, <1>2, <1>3, AccessSize DEF InsnOK
<1>5. UNCHANGED <<argument, file, start_addr>>
  BY <1>1 DEF Counted
<1> HIDE DEF n
<1>6. CASE Aligned(Address, n)
  <2>1. Flat(get_page(mem, program_counter), bytes)
    BY <1>3, PageFlat
  <2>2. Flat(mem', bytes')
    BY <1>1, <1>3, <1>4, <1>6, <2>1, StoreInFlat DEF Aligned
  <2> QED
    BY <1>1, <1>3, <1>5, <1>6, <2>2, ExecKeeps
<1>7. CASE ~Aligned(Address, n)
  BY <1>1, <1>7, StopStep
<1> QED
  BY <1>6, <1>7

LEMMA ArithmeticStep ==
  ASSUME MemoryInv, Immediate \/ Rtype
  PROVE  MemoryInv'
<1>1. phase = "run" /\ Fetched.class # "none"
  BY DEF Immediate, Rtype, Executing
<1>2. InsnOK(Fetched)
  BY <1>1, FetchedType
<1>3. /\ reg[Fetched.rs1] \in Words /\ reg[Fetched.rs2] \in Words /\ program_counter + 4 \in Int
  BY <1>1, <1>2, MachineTypes DEF InsnOK
<1>4. CASE Immediate
  <2>1. /\ Fetched.class = "IMMEDIATE" /\ Goto(program_counter + 4)
        /\ Register(ImmediateResult(Fetched.op, reg[Fetched.rs1], SignedImm))
    BY <1>4 DEF Immediate, Executing
  <2>2. ImmediateResult(Fetched.op, reg[Fetched.rs1], SignedImm) \in Int
    BY <1>2, <1>3, <2>1, ImmediateType DEF InsnOK, SignedImm
  <2> QED
    BY <1>1, <1>3, <2>1, <2>2, RegisterStep
<1>5. CASE Rtype
  <2> DEFINE op == Fetched.op
             x  == reg[Fetched.rs1]
             y  == reg[Fetched.rs2]
  <2>0. Fetched.class = "RTYPE"
    BY <1>5 DEF Rtype, Executing
  <2>1. CASE /\ op \in {"DIV", "DIVU"} /\ (x = 0 \/ y = 0)
             /\ Stop("failure") /\ Fetching /\ UNCHANGED bytes /\ Counted
    BY <2>1, StopStep DEF Stop
  <2>2. CASE Undefined(op, x, y) /\ Stop("crashed") /\ Fetching /\ UNCHANGED bytes /\ Counted
    BY <2>2, StopStep DEF Stop
  <2>3. CASE /\ ~(op \in {"DIV", "DIVU"} /\ (x = 0 \/ y = 0))
             /\ Register(RtypeResult(op, x, y)) /\ Goto(program_counter + 4)
    <3>1. RtypeResult(op, x, y) \in Int
      BY <1>2, <1>3, <2>0, <2>3, RtypeType DEF InsnOK
    <3> QED
      BY <1>1, <1>3, <2>3, <3>1, RegisterStep
  <2>4. CASE Register(ShiftedOut(op, x)) /\ Goto(program_counter + 4)
    <3>1. ShiftedOut(op, x) \in Int
      BY Moduli DEF ShiftedOut
    <3> QED
      BY <1>1, <1>3, <2>4, <3>1, RegisterStep
  <2> QED
    BY <1>5, <2>1, <2>2, <2>3, <2>4 DEF Rtype
<1> QED
  BY <1>4, <1>5

LEMMA OtherStep ==
  ASSUME MemoryInv, UnknownShift \/ IllegalInstruction \/ UnalignedFetch
  PROVE  MemoryInv'
BY StopStep DEF UnknownShift, IllegalInstruction, UnalignedFetch, Executing, Stop

LEMMA MemoryStep == MemoryInv /\ [Next]_vars => MemoryInv'
<1> SUFFICES ASSUME MemoryInv, [Next]_vars PROVE MemoryInv'
  OBVIOUS
<1>1. CASE UNCHANGED vars
  BY <1>1 DEF vars, MemoryInv, InputInv, MachineInv
<1>2. CASE Next
  BY <1>2, PassStep, DataStep, InsnStep, TableMemoryStep, SymbolStep, EcallStep, UpperStep,
     BranchStep, LoadStep, StoreStep, ArithmeticStep, OtherStep DEF Next
<1> QED
  BY <1>1, <1>2

LEMMA MemoryInvariance == Spec => []MemoryInv
BY MemoryStart, MemoryStep, PTL DEF Spec

LEMMA FlatIsFlat == MemoryInv => MemoryIsFlat
<1> SUFFICES ASSUME MemoryInv, NEW a \in Words
             PROVE  /\ memory_rd_b(mem, a) = bytes[a]
                    /\ Aligned(a, 2) => memory_rd_h(mem, a) = RiscV!LoadBytes(bytes, a, 2)
                    /\ Aligned(a, 4) => memory_rd_w(mem, a) = RiscV!LoadBytes(bytes, a, 4)
  BY DEF MemoryInv, Flat, MemoryIsFlat
<1> QED
  BY FlatReads DEF MemoryInv, Aligned

\* After every sequence of stores of words, halfwords and bytes, of arguments, loaded
\* lines and executed instructions, memory.c reads like a memory of plain bytes, for
\* every size of bytes and pages, every file and every argument vector.
THEOREM MemoryReadsLikeBytes == Spec => []MemoryIsFlat
BY MemoryInvariance, FlatIsFlat, PTL

-----------------------------------------------------------------------------
(***************************************************************************)
(* The text table.  Every entry is in the window of its address, and no    *)
(* address has two entries.                                                *)
(***************************************************************************)
TableOK(t) ==
  /\ t.table_size \in Nat /\ t.table_size >= Window
  /\ DOMAIN t.slot = 0 .. t.table_size - 1
  /\ \A j \in 0 .. t.table_size - 1 : t.slot[j].valid \in BOOLEAN /\ t.slot[j].addr \in Nat
  /\ \A j \in Valid(t) : \E o \in 0 .. Window - 1 : j = Probe(t, t.slot[j].addr, o)
  /\ \A j, k \in Valid(t) : t.slot[j].addr = t.slot[k].addr => j = k

LEMMA LeastNat ==
  ASSUME NEW S \in SUBSET Nat, S # {}
  PROVE  \E m \in S : \A k \in S : m <= k
<1>1. IsWellFoundedOn(OpToRel(<, Nat), Nat)
  BY NatLessThanWellFounded
<1>2. PICK m \in S : \A k \in S : ~(<<k, m>> \in OpToRel(<, Nat))
  BY <1>1, WFMin
<1>3. \A k \in S : ~(k < m)
  BY <1>2 DEF OpToRel
<1> QED
  BY <1>3

LEMMA ProbeType ==
  ASSUME NEW t, t.table_size \in Nat, t.table_size >= Window, NEW addr \in Nat,
         NEW o \in 0 .. Window - 1
  PROVE  Probe(t, addr, o) \in 0 .. t.table_size - 1
<1>1. Window \in Nat \ {0}
  BY TableAssumption
<1>2. t.table_size \in Nat \ {0} /\ addr + o \in Int
  BY <1>1
<1> QED
  BY <1>2, DivMod DEF Probe

\* The first of the places is one of them.
LEMMA FirstFound ==
  ASSUME NEW t, NEW addr, NEW offsets \in SUBSET (0 .. Window - 1), offsets # {}
  PROVE  \E o \in offsets : FirstSlot(t, addr, offsets) = Probe(t, addr, o)
<1>1. offsets \in SUBSET Nat
  BY TableAssumption
<1>2. \E o \in offsets : \A k \in offsets : o <= k
  BY <1>1, LeastNat
<1>3. Min(offsets) \in offsets
  BY <1>2 DEF Min
<1> QED
  BY <1>3 DEF FirstSlot

LEMMA FindEntry ==
  ASSUME NEW t, TableOK(t), NEW addr \in Nat
  PROVE  \/ /\ assembly_find_entry(t, addr) = NOT_FOUND
            /\ \A j \in Valid(t) : t.slot[j].addr # addr
         \/ /\ assembly_find_entry(t, addr) \in Valid(t)
            /\ t.slot[assembly_find_entry(t, addr)].addr = addr
<1> DEFINE hits == {o \in 0 .. Window - 1 : /\ t.slot[Probe(t, addr, o)].valid
                                            /\ t.slot[Probe(t, addr, o)].addr = addr}
           r    == assembly_find_entry(t, addr)
<1>1. r = FirstSlot(t, addr, hits)
  BY DEF assembly_find_entry
<1>2. CASE hits = {}
  <2>1. r = NOT_FOUND
    BY <1>1, <1>2 DEF FirstSlot
  <2>2. ASSUME NEW j \in Valid(t), t.slot[j].addr = addr PROVE FALSE
    <3>1. PICK o \in 0 .. Window - 1 : j = Probe(t, t.slot[j].addr, o)
      BY DEF TableOK
    <3>2. o \in hits
      BY <2>2, <3>1 DEF Valid
    <3> QED
      BY <1>2, <3>2
  <2> QED
    BY <2>1, <2>2
<1>3. CASE hits # {}
  <2>1. hits \in SUBSET (0 .. Window - 1)
    OBVIOUS
  <2>2. PICK o \in hits : r = Probe(t, addr, o)
    <3> HIDE DEF hits
    <3> QED
      BY <1>1, <1>3, <2>1, FirstFound
  <2>3. r \in 0 .. t.table_size - 1
    BY <2>2, ProbeType DEF TableOK
  <2> HIDE DEF r
  <2>4. t.slot[r].valid /\ t.slot[r].addr = addr
    BY <2>2
  <2> QED
    BY <2>3, <2>4 DEF Valid, r
<1> QED
  BY <1>2, <1>3

LEMMA FindEmpty ==
  ASSUME NEW t, TableOK(t), NEW addr \in Nat, assembly_find_empty(t, addr) # NOT_FOUND
  PROVE  /\ assembly_find_empty(t, addr) \in (0 .. t.table_size - 1) \ Valid(t)
         /\ \E o \in 0 .. Window - 1 : assembly_find_empty(t, addr) = Probe(t, addr, o)
<1> DEFINE hits == {o \in 0 .. Window - 1 : ~t.slot[Probe(t, addr, o)].valid}
           r    == assembly_find_empty(t, addr)
<1>1. r = FirstSlot(t, addr, hits)
  BY DEF assembly_find_empty
<1>2. hits # {} /\ hits \in SUBSET (0 .. Window - 1)
  BY <1>1 DEF FirstSlot
<1>3. PICK o \in hits : r = Probe(t, addr, o)
  <2> HIDE DEF hits
  <2> QED
    BY <1>1, <1>2, FirstFound
<1>4. r \in 0 .. t.table_size - 1
  BY <1>3, ProbeType DEF TableOK
<1>5. ~t.slot[r].valid
  BY <1>3
<1> QED
  BY <1>3, <1>4, <1>5 DEF Valid

\* An entry in a place that no other entry of its address has.
LEMMA PutOK ==
  ASSUME NEW t, TableOK(t), NEW r \in 0 .. t.table_size - 1, NEW addr \in Nat, NEW text,
         \E o \in 0 .. Window - 1 : r = Probe(t, addr, o),
         \A j \in Valid(t) : t.slot[j].addr = addr => j = r,
         NEW new, new = Put(t, r, addr, text)
  PROVE  /\ TableOK(new)
         /\ Valid(new) = Valid(t) \cup {r}
         /\ new.slot[r].addr = addr /\ new.slot[r].text = text
         /\ \A j \in Valid(t) : j # r => new.slot[j] = t.slot[j]
<1> DEFINE e == [valid |-> TRUE, addr |-> addr, text |-> text]
<1>0. e.valid = TRUE /\ e.addr = addr /\ e.text = text
  OBVIOUS
<1>1. new.table_size = t.table_size /\ new.slot = [t.slot EXCEPT ![r] = e]
  BY DEF Put
<1> HIDE DEF e
<1>2. DOMAIN t.slot = 0 .. t.table_size - 1
  BY DEF TableOK
<1>3. /\ DOMAIN new.slot = 0 .. t.table_size - 1
      /\ new.slot[r].addr = addr /\ new.slot[r].text = text /\ new.slot[r].valid = TRUE
      /\ \A j \in 0 .. t.table_size - 1 : j # r => new.slot[j] = t.slot[j]
  <2>1. new.slot[r] = e
    BY <1>1, <1>2
  <2>2. DOMAIN new.slot = 0 .. t.table_size - 1
    BY <1>1, <1>2
  <2>3. \A j \in 0 .. t.table_size - 1 : j # r => new.slot[j] = t.slot[j]
    BY <1>1, <1>2
  <2> QED
    BY <1>0, <2>1, <2>2, <2>3
<1>4. Valid(new) = Valid(t) \cup {r}
  BY <1>1, <1>3 DEF Valid
<1>5. \A j \in Valid(t) : j \in 0 .. t.table_size - 1
  BY DEF Valid
<1>6. \A a, o : Probe(new, a, o) = Probe(t, a, o)
  BY <1>1 DEF Probe
<1>7. new.table_size \in Nat /\ new.table_size >= Window
  BY <1>1 DEF TableOK
<1>8. \A j \in 0 .. new.table_size - 1 : new.slot[j].valid \in BOOLEAN /\ new.slot[j].addr \in Nat
  <2> SUFFICES ASSUME NEW j \in 0 .. t.table_size - 1
               PROVE  new.slot[j].valid \in BOOLEAN /\ new.slot[j].addr \in Nat
    BY <1>1
  <2>1. CASE j = r
    BY <1>3, <2>1
  <2>2. CASE j # r
    <3>1. new.slot[j] = t.slot[j]
      BY <1>3, <2>2
    <3> QED
      BY <3>1 DEF TableOK
  <2> QED
    BY <2>1, <2>2
<1>9. ASSUME NEW j \in Valid(new)
      PROVE  \E o \in 0 .. Window - 1 : j = Probe(new, new.slot[j].addr, o)
  <2>1. CASE j = r
    BY <1>3, <1>6, <2>1
  <2>2. CASE j # r
    <3>1. j \in Valid(t) /\ new.slot[j] = t.slot[j]
      BY <1>3, <1>4, <1>5, <2>2
    <3>2. \E o \in 0 .. Window - 1 : j = Probe(t, t.slot[j].addr, o)
      BY <3>1 DEF TableOK
    <3> QED
      BY <1>6, <3>1, <3>2
  <2> QED
    BY <2>1, <2>2
<1>10. ASSUME NEW j \in Valid(new), NEW k \in Valid(new), new.slot[j].addr = new.slot[k].addr
       PROVE  j = k
  <2>1. ASSUME NEW x \in Valid(new), x # r
        PROVE  x \in Valid(t) /\ new.slot[x] = t.slot[x] /\ t.slot[x].addr # addr
    BY <1>3, <1>4, <1>5, <2>1
  <2>2. CASE j = r \/ k = r
    BY <1>3, <1>10, <2>1, <2>2
  <2>3. CASE j # r /\ k # r
    BY <1>10, <2>1, <2>3 DEF TableOK
  <2> QED
    BY <2>2, <2>3
<1>11. TableOK(new)
  BY <1>1, <1>3, <1>7, <1>8, <1>9, <1>10 DEF TableOK
<1> QED
  BY <1>3, <1>4, <1>5, <1>11

LEMMA NewTableOK ==
  ASSUME NEW size \in Nat, size >= Window
  PROVE  TableOK(NewTable(size)) /\ Valid(NewTable(size)) = {}
<1> DEFINE t == NewTable(size)
<1>1. t.table_size = size /\ t.slot = [j \in 0 .. size - 1 |-> Empty]
  BY DEF NewTable
<1>2. \A j \in 0 .. size - 1 : t.slot[j].valid = FALSE /\ t.slot[j].addr = 0
  BY <1>1 DEF Empty
<1> HIDE DEF t
<1>3. Valid(t) = {}
  BY <1>1, <1>2 DEF Valid
<1>4. DOMAIN t.slot = 0 .. t.table_size - 1
  BY <1>1
<1>5. \A j \in 0 .. t.table_size - 1 : t.slot[j].valid \in BOOLEAN /\ t.slot[j].addr \in Nat
  <2>1. 0 \in Nat /\ FALSE \in BOOLEAN
    OBVIOUS
  <2> QED
    BY <1>1, <1>2, <2>1, Zenon
<1>6. TableOK(t)
  BY <1>1, <1>3, <1>4, <1>5 DEF TableOK
<1> QED
  BY <1>3, <1>6 DEF t

LEMMA LargerOK ==
  ASSUME NEW t, TableOK(t)
  PROVE  TableOK(Larger(t)) /\ Valid(Larger(t)) = {}
<1>1. 1 + 2 * t.table_size \in Nat /\ 1 + 2 * t.table_size >= Window
  BY TableAssumption DEF TableOK
<1> QED
  BY <1>1, NewTableOK DEF Larger

\* The table holds these texts and no others.
Holds(t, T) ==
  /\ \A addr \in DOMAIN T : \E j \in Valid(t) : t.slot[j].addr = addr
  /\ \A j \in Valid(t) : t.slot[j].addr \in DOMAIN T /\ t.slot[j].text = T[t.slot[j].addr]

\* The table holds the entries in the first n slots of another one and no others.
Copied(t, o, n) ==
  /\ \A k \in Valid(o) : k < n => \E j \in Valid(t) : t.slot[j].addr = o.slot[k].addr
  /\ \A j \in Valid(t) : \E k \in Valid(o) : /\ k < n
                                             /\ t.slot[j].addr = o.slot[k].addr
                                             /\ t.slot[j].text = o.slot[k].text

\* While the entries move, the old table has them all, and the address that is being
\* set is in neither table.
TableInv ==
  /\ TableOK(as)
  /\ phase # "rehash" => Holds(as, texts)
  /\ phase = "rehash" => /\ TableOK(old) /\ Holds(old, texts)
                         /\ moved \in 0 .. old.table_size
                         /\ Copied(as, old, moved)
  /\ phase \in {"rehash", "place"} => file[1].addr \notin DOMAIN texts

\* A place for the entry of an address: it has the address already, or no place has.
IsPlace(t, addr, r) ==
  /\ r \in 0 .. t.table_size - 1
  /\ \E o \in 0 .. Window - 1 : r = Probe(t, addr, o)
  /\ \A j \in Valid(t) : t.slot[j].addr = addr <=> j = r

\* The texts with another one for this address.
Updated(T, addr, text) == [a \in DOMAIN T \cup {addr} |-> IF a = addr THEN text ELSE T[a]]

LEMMA SetHolds ==
  ASSUME NEW t, TableOK(t), NEW T, Holds(t, T), NEW addr \in Nat, NEW text, NEW r,
         IsPlace(t, addr, r)
  PROVE  TableOK(Put(t, r, addr, text)) /\ Holds(Put(t, r, addr, text), Updated(T, addr, text))
<1> DEFINE new == Put(t, r, addr, text)
           U   == Updated(T, addr, text)
<1>0. /\ r \in 0 .. t.table_size - 1
      /\ \E o \in 0 .. Window - 1 : r = Probe(t, addr, o)
      /\ \A j \in Valid(t) : t.slot[j].addr = addr <=> j = r
  BY DEF IsPlace
<1>1. /\ TableOK(new)
      /\ Valid(new) = Valid(t) \cup {r}
      /\ new.slot[r].addr = addr /\ new.slot[r].text = text
      /\ \A j \in Valid(t) : j # r => new.slot[j] = t.slot[j]
  BY <1>0, PutOK
<1>2. /\ DOMAIN U = DOMAIN T \cup {addr}
      /\ U[addr] = text /\ \A a \in DOMAIN T : a # addr => U[a] = T[a]
  BY DEF Updated
<1> HIDE DEF new, U
<1>3. ASSUME NEW a \in DOMAIN U
      PROVE  \E j \in Valid(new) : new.slot[j].addr = a
  <2>1. CASE a = addr
    BY <1>1, <2>1
  <2>2. CASE a # addr
    <3>1. PICK j \in Valid(t) : t.slot[j].addr = a
      BY <1>2, <1>3, <2>2 DEF Holds
    <3> QED
      BY <1>0, <1>1, <2>2, <3>1
  <2> QED
    BY <2>1, <2>2
<1>4. ASSUME NEW j \in Valid(new)
      PROVE  new.slot[j].addr \in DOMAIN U /\ new.slot[j].text = U[new.slot[j].addr]
  <2>1. CASE j = r
    BY <1>1, <1>2, <2>1
  <2>2. CASE j # r
    <3>1. j \in Valid(t) /\ new.slot[j] = t.slot[j] /\ t.slot[j].addr # addr
      BY <1>0, <1>1, <2>2
    <3>2. t.slot[j].addr \in DOMAIN T /\ t.slot[j].text = T[t.slot[j].addr]
      BY <3>1 DEF Holds
    <3> QED
      BY <1>2, <3>1, <3>2
  <2> QED
    BY <2>1, <2>2
<1>5. TableOK(new) /\ Holds(new, U)
  BY <1>1, <1>3, <1>4 DEF Holds
<1> QED
  BY <1>5 DEF new, U

\* A place that assembly_find_empty gives is right for an address without an entry.
LEMMA EmptyPlace ==
  ASSUME NEW t, TableOK(t), NEW addr \in Nat, \A j \in Valid(t) : t.slot[j].addr # addr,
         assembly_find_empty(t, addr) # NOT_FOUND
  PROVE  IsPlace(t, addr, assembly_find_empty(t, addr))
<1> DEFINE r == assembly_find_empty(t, addr)
<1>1. /\ r \in (0 .. t.table_size - 1) \ Valid(t)
      /\ \E o \in 0 .. Window - 1 : r = Probe(t, addr, o)
  BY FindEmpty
<1> HIDE DEF r
<1>2. IsPlace(t, addr, r)
  BY <1>1 DEF IsPlace
<1> QED
  BY <1>2 DEF r

LEMMA TableStart == Init => TableInv
<1> SUFFICES ASSUME Init PROVE TableInv
  OBVIOUS
<1>1. TableOK(as) /\ Valid(as) = {} /\ phase = "args"
  BY NewTableOK, TableAssumption DEF Init, assembly_create
<1>2. DOMAIN texts = {}
  BY DEF Init
<1> QED
  BY <1>1, <1>2 DEF TableInv, Holds

\* The address of the line whose text is set.
LEMMA SetAddress ==
  ASSUME MemoryInv, phase \in {"set", "rehash", "place"}
  PROVE  file[1].addr \in Nat
<1>1. InputInv /\ file # << >> /\ file[1].kind = "insn"
  BY DEF MemoryInv, InputInv
<1>2. file[1] \in Line
  BY <1>1, FileType
<1> QED
  BY <1>1, <1>2, LineTypes

LEMMA GrowStep ==
  ASSUME TableInv, phase # "rehash", Grow, file[1].addr \notin DOMAIN texts
  PROVE  TableInv'
<1>1. /\ old' = as /\ as' = Larger(as) /\ moved' = 0 /\ phase' = "rehash"
      /\ file' = file /\ texts' = texts
  BY DEF Grow
<1>2. TableOK(as) /\ Holds(as, texts)
  BY DEF TableInv
<1>3. TableOK(as') /\ Valid(as') = {}
  BY <1>1, <1>2, LargerOK
<1>4. moved' \in 0 .. old'.table_size
  <2>1. as.table_size \in Nat
    BY <1>2 DEF TableOK
  <2>2. \A n \in Nat : 0 \in 0 .. n
    OBVIOUS
  <2> QED
    BY <1>1, <2>1, <2>2, Zenon
<1>5. \A k \in Valid(as) : ~(k < 0)
  BY DEF Valid
<1>6. Copied(as', old', moved')
  BY <1>1, <1>3, <1>5 DEF Copied
<1>7. TableOK(old') /\ Holds(old', texts')
  BY <1>1, <1>2
<1> QED
  BY <1>1, <1>3, <1>4, <1>6, <1>7 DEF TableInv

LEMMA SetSlotStep ==
  ASSUME TableInv, phase # "rehash", NEW idx, SetSlot(idx), file[1].addr \in Nat,
         IsPlace(as, file[1].addr, idx)
  PROVE  TableInv'
<1> DEFINE addr == file[1].addr
           text == file[1].text
<1>1. /\ as' = Put(as, idx, addr, text) /\ phase' = "load"
      /\ texts' = Updated(texts, addr, text)
  BY DEF SetSlot, Updated
<1>2. TableOK(as) /\ Holds(as, texts)
  BY DEF TableInv
<1>3. addr \in Nat /\ IsPlace(as, addr, idx)
  OBVIOUS
<1> HIDE DEF addr, text
<1>4. TableOK(as') /\ Holds(as', texts')
  BY <1>1, <1>2, <1>3, SetHolds
<1> QED
  BY <1>1, <1>4 DEF TableInv

LEMMA SetTextStep ==
  ASSUME MemoryInv, TableInv, SetText
  PROVE  TableInv'
<1> DEFINE addr  == file[1].addr
           entry == assembly_find_entry(as, addr)
           empty == assembly_find_empty(as, addr)
<1>1. /\ phase = "set" /\ PutInto(IF entry # NOT_FOUND THEN entry ELSE empty)
  BY DEF SetText
<1>2. TableOK(as) /\ Holds(as, texts) /\ addr \in Nat /\ phase # "rehash"
  BY <1>1, SetAddress DEF TableInv
<1>3. CASE entry # NOT_FOUND
  <2>1. entry \in Valid(as) /\ as.slot[entry].addr = addr
    BY <1>2, <1>3, FindEntry
  <2>2. entry \in 0 .. as.table_size - 1
    BY <2>1 DEF Valid
  <2>3. \A j \in Valid(as) : as.slot[j].addr = addr <=> j = entry
    BY <1>2, <2>1 DEF TableOK
  <2>4. \E o \in 0 .. Window - 1 : entry = Probe(as, addr, o)
    BY <1>2, <2>1 DEF TableOK
  <2>5. SetSlot(entry)
    BY <1>1, <1>3 DEF PutInto
  <2> HIDE DEF entry
  <2>6. IsPlace(as, addr, entry)
    BY <2>2, <2>3, <2>4 DEF IsPlace
  <2> QED
    BY <1>2, <2>5, <2>6, SetSlotStep
<1>4. CASE entry = NOT_FOUND
  <2>1. \A j \in Valid(as) : as.slot[j].addr # addr
    <3>1. NOT_FOUND \notin Valid(as)
      BY DEF NOT_FOUND, Valid
    <3> QED
      BY <1>2, <1>4, <3>1, FindEntry
  <2>2. PutInto(empty)
    BY <1>1, <1>4
  <2>3. CASE empty = NOT_FOUND
    <3>1. Grow
      BY <2>2, <2>3 DEF PutInto
    <3>2. addr \notin DOMAIN texts
      BY <1>2, <2>1 DEF Holds
    <3> QED
      BY <1>2, <3>1, <3>2, GrowStep
  <2>4. CASE empty # NOT_FOUND
    <3>1. SetSlot(empty)
      BY <2>2, <2>4 DEF PutInto
    <3>2. IsPlace(as, addr, empty)
      BY <1>2, <2>1, <2>4, EmptyPlace
    <3> HIDE DEF empty
    <3> QED
      BY <1>2, <3>1, <3>2, SetSlotStep
  <2> QED
    BY <2>3, <2>4
<1> QED
  BY <1>3, <1>4

LEMMA SetAgainStep ==
  ASSUME MemoryInv, TableInv, SetAgain
  PROVE  TableInv'
<1> DEFINE addr  == file[1].addr
           empty == assembly_find_empty(as, addr)
<1>1. phase = "place" /\ PutInto(empty)
  BY DEF SetAgain
<1>2. /\ TableOK(as) /\ Holds(as, texts) /\ addr \in Nat /\ phase # "rehash"
      /\ addr \notin DOMAIN texts
  BY <1>1, SetAddress DEF TableInv
<1>3. \A j \in Valid(as) : as.slot[j].addr # addr
  BY <1>2 DEF Holds
<1>4. CASE empty = NOT_FOUND
  <2>1. Grow
    BY <1>1, <1>4 DEF PutInto
  <2> QED
    BY <1>2, <2>1, GrowStep
<1>5. CASE empty # NOT_FOUND
  <2>1. SetSlot(empty)
    BY <1>1, <1>5 DEF PutInto
  <2>2. IsPlace(as, addr, empty)
    BY <1>2, <1>3, <1>5, EmptyPlace
  <2> HIDE DEF empty
  <2> QED
    BY <1>2, <2>1, <2>2, SetSlotStep
<1> QED
  BY <1>4, <1>5

\* A move: the entry in slot n of the old table is in no slot of the new one.
LEMMA MoveCopies ==
  ASSUME NEW t, TableOK(t), NEW o, TableOK(o), NEW n \in Valid(o), Copied(t, o, n),
         assembly_find_empty(t, o.slot[n].addr) # NOT_FOUND
  PROVE  LET new == Put(t, assembly_find_empty(t, o.slot[n].addr), o.slot[n].addr, o.slot[n].text)
         IN  TableOK(new) /\ Copied(new, o, n + 1)
<1> DEFINE addr == o.slot[n].addr
           text == o.slot[n].text
           r    == assembly_find_empty(t, addr)
           new  == Put(t, r, addr, text)
<1>1. n \in 0 .. o.table_size - 1 /\ o.table_size \in Nat /\ addr \in Nat
  BY DEF Valid, TableOK
<1>2. \A k \in Valid(o) : k \in Nat
  BY DEF Valid
<1>3. ASSUME NEW j \in Valid(t), t.slot[j].addr = addr
      PROVE  FALSE
  <2>1. PICK k \in Valid(o) : k < n /\ t.slot[j].addr = o.slot[k].addr
    BY DEF Copied
  <2>2. k = n
    BY <1>3, <2>1 DEF TableOK
  <2> QED
    BY <1>1, <2>1, <2>2
<1>4. IsPlace(t, addr, r)
  BY <1>1, <1>3, EmptyPlace
<1> HIDE DEF r
<1>5. /\ TableOK(new)
      /\ Valid(new) = Valid(t) \cup {r}
      /\ new.slot[r].addr = addr /\ new.slot[r].text = text
      /\ \A j \in Valid(t) : j # r => new.slot[j] = t.slot[j]
  <2>1. /\ r \in 0 .. t.table_size - 1
        /\ \E d \in 0 .. Window - 1 : r = Probe(t, addr, d)
        /\ \A j \in Valid(t) : t.slot[j].addr = addr => j = r
    BY <1>4 DEF IsPlace
  <2>2. new = Put(t, r, addr, text) /\ addr \in Nat /\ TableOK(t)
    BY <1>1
  <2> HIDE DEF addr, text, new
  <2> QED
    BY <2>1, <2>2, PutOK
<1>6. r \notin Valid(t)
  BY <1>3, <1>4 DEF IsPlace
<1> HIDE DEF new
<1>7. ASSUME NEW k \in Valid(o), k < n + 1
      PROVE  \E j \in Valid(new) : new.slot[j].addr = o.slot[k].addr
  <2>1. CASE k = n
    BY <1>5, <2>1
  <2>2. CASE k # n
    <3>1. k < n
      BY <1>1, <1>2, <1>7, <2>2
    <3>2. PICK j \in Valid(t) : t.slot[j].addr = o.slot[k].addr
      BY <3>1 DEF Copied
    <3> QED
      BY <1>5, <1>6, <3>2
  <2> QED
    BY <2>1, <2>2
<1>8. ASSUME NEW j \in Valid(new)
      PROVE  \E k \in Valid(o) : /\ k < n + 1
                                 /\ new.slot[j].addr = o.slot[k].addr
                                 /\ new.slot[j].text = o.slot[k].text
  <2>1. CASE j = r
    BY <1>1, <1>5, <2>1
  <2>2. CASE j # r
    <3>1. j \in Valid(t) /\ new.slot[j] = t.slot[j]
      BY <1>5, <2>2
    <3>2. PICK k \in Valid(o) : /\ k < n
                                /\ t.slot[j].addr = o.slot[k].addr
                                /\ t.slot[j].text = o.slot[k].text
      BY <3>1 DEF Copied
    <3>3. k < n + 1
      BY <1>1, <1>2, <3>2
    <3> QED
      BY <3>1, <3>2, <3>3
  <2> QED
    BY <2>1, <2>2
<1>9. TableOK(new) /\ Copied(new, o, n + 1)
  BY <1>5, <1>7, <1>8 DEF Copied
<1> QED
  BY <1>9 DEF new, r

\* An empty slot of the old table is passed over.
LEMMA SkipCopies ==
  ASSUME NEW t, NEW o, NEW n \in Nat, n \notin Valid(o), Copied(t, o, n)
  PROVE  Copied(t, o, n + 1)
<1>1. \A k \in Valid(o) : k \in Nat
  BY DEF Valid
<1>2. \A k \in Valid(o) : k < n + 1 <=> k < n
  BY <1>1
<1> QED
  BY <1>2 DEF Copied

LEMMA RehashStep ==
  ASSUME TableInv, Rehash
  PROVE  TableInv'
<1>1. /\ phase = "rehash" /\ file' = file /\ old' = old /\ texts' = texts
      /\ IF moved = old.table_size THEN phase' = "place" /\ as' = as /\ moved' = moved
         ELSE /\ IF old.slot[moved].valid THEN Move ELSE moved' = moved + 1 /\ as' = as
              /\ phase' = phase
  BY DEF Rehash
<1>2. /\ TableOK(as) /\ TableOK(old) /\ Holds(old, texts) /\ moved \in 0 .. old.table_size
      /\ Copied(as, old, moved) /\ file[1].addr \notin DOMAIN texts
  BY <1>1 DEF TableInv
<1>3. old.table_size \in Nat /\ moved \in Nat
  BY <1>2 DEF TableOK
<1>4. CASE moved = old.table_size
  <2>1. \A k \in Valid(old) : k < moved
    BY <1>3, <1>4 DEF Valid
  <2>2. Holds(as, texts)
    <3>1. ASSUME NEW a \in DOMAIN texts PROVE \E j \in Valid(as) : as.slot[j].addr = a
      <4>1. PICK k \in Valid(old) : old.slot[k].addr = a
        BY <1>2 DEF Holds
      <4> QED
        BY <1>2, <2>1, <4>1 DEF Copied
    <3>2. ASSUME NEW j \in Valid(as)
          PROVE  as.slot[j].addr \in DOMAIN texts /\ as.slot[j].text = texts[as.slot[j].addr]
      <4>1. PICK k \in Valid(old) : /\ as.slot[j].addr = old.slot[k].addr
                                    /\ as.slot[j].text = old.slot[k].text
        BY <1>2 DEF Copied
      <4> QED
        BY <1>2, <4>1 DEF Holds
    <3> QED
      BY <3>1, <3>2 DEF Holds
  <2> QED
    BY <1>1, <1>2, <1>4, <2>2 DEF TableInv
<1>5. CASE moved # old.table_size
  <2>1. moved \in 0 .. old.table_size - 1 /\ moved + 1 \in 0 .. old.table_size
        /\ 0 \in 0 .. old.table_size
    BY <1>2, <1>3, <1>5
  <2>2. CASE ~old.slot[moved].valid
    <3>1. moved \notin Valid(old)
      BY <2>2 DEF Valid
    <3>2. Copied(as, old, moved + 1)
      BY <1>2, <1>3, <3>1, SkipCopies
    <3> QED
      BY <1>1, <1>2, <1>5, <2>1, <2>2, <3>2 DEF TableInv
  <2>3. CASE old.slot[moved].valid
    <3> DEFINE addr == old.slot[moved].addr
               r    == assembly_find_empty(as, addr)
    <3>0. moved \in Valid(old) /\ phase' = "rehash"
          /\ IF r = NOT_FOUND THEN as' = Larger(as) /\ moved' = 0
             ELSE as' = Put(as, r, addr, old.slot[moved].text) /\ moved' = moved + 1
      BY <1>1, <1>5, <2>1, <2>3 DEF Valid, Move
    <3>1. CASE r = NOT_FOUND
      <4>1. TableOK(as') /\ Valid(as') = {} /\ moved' = 0
        BY <1>2, <3>0, <3>1, LargerOK
      <4>2. \A k \in Valid(old) : ~(k < 0)
        BY DEF Valid
      <4>3. Copied(as', old, 0)
        BY <4>1, <4>2 DEF Copied
      <4> QED
        BY <1>1, <1>2, <2>1, <3>0, <4>1, <4>3 DEF TableInv
    <3>2. CASE r # NOT_FOUND
      <4>1. TableOK(as') /\ Copied(as', old, moved + 1) /\ moved' = moved + 1
        BY <1>2, <3>0, <3>2, MoveCopies
      <4> QED
        BY <1>1, <1>2, <2>1, <3>0, <4>1 DEF TableInv
    <3> QED
      BY <3>1, <3>2
  <2> QED
    BY <2>2, <2>3
<1> QED
  BY <1>4, <1>5

\* The other actions leave the tables alone, and are not between two steps of assembly_set.
LEMMA RestOfTable ==
  ASSUME Next, ~(SetText \/ SetAgain \/ Rehash)
  PROVE  /\ UNCHANGED <<as, old, moved, texts>>
         /\ phase \notin {"rehash", "place"} /\ phase' \notin {"rehash", "place"}
<1>1. CASE PassCount \/ PassPointer \/ PassChar
  BY <1>1 DEF PassCount, PassPointer, PassChar, table
<1>2. CASE DataLine \/ InsnLine \/ SymbolLine \/ StartProgram
  BY <1>2 DEF DataLine, InsnLine, SymbolLine, StartProgram, NextLine, table
<1>3. CASE Ecall \/ Lui \/ Auipc \/ Jal \/ Jalr \/ Branch
  BY <1>3 DEF Ecall, Lui, Auipc, Jal, Jalr, Branch, Executing, Counted, Register, Stop, table
<1>4. CASE Load \/ Store
  BY <1>4 DEF Load, Store, Executing, Counted, Stop, table
<1>5. CASE Immediate \/ Rtype
  BY <1>5 DEF Immediate, Rtype, Executing, Counted, Register, Stop, table
<1>6. CASE UnknownShift \/ IllegalInstruction \/ UnalignedFetch
  BY <1>6 DEF UnknownShift, IllegalInstruction, UnalignedFetch, Executing, Counted, Stop, table
<1> QED
  BY <1>1, <1>2, <1>3, <1>4, <1>5, <1>6 DEF Next

LEMMA TableStep == MemoryInv /\ TableInv /\ [Next]_vars => TableInv'
<1> SUFFICES ASSUME MemoryInv, TableInv, [Next]_vars PROVE TableInv'
  OBVIOUS
<1>1. CASE UNCHANGED vars
  BY <1>1 DEF vars, TableInv
<1>2. CASE SetText \/ SetAgain \/ Rehash
  BY <1>2, SetTextStep, SetAgainStep, RehashStep
<1>3. CASE Next /\ ~(SetText \/ SetAgain \/ Rehash)
  BY <1>3, RestOfTable DEF TableInv
<1> QED
  BY <1>1, <1>2, <1>3

LEMMA TableIsLast == TableInv => TextIsLast
<1> SUFFICES ASSUME TableInv, phase # "rehash"
             PROVE  /\ \A addr \in DOMAIN texts : assembly_get(as, addr) = texts[addr]
                    /\ \A j \in Valid(as) :
                         /\ as.slot[j].addr \in DOMAIN texts
                         /\ \A k \in Valid(as) : as.slot[j].addr = as.slot[k].addr => j = k
  BY DEF TextIsLast
<1>1. TableOK(as) /\ Holds(as, texts)
  BY DEF TableInv
<1>2. ASSUME NEW addr \in DOMAIN texts
      PROVE  assembly_get(as, addr) = texts[addr]
  <2>1. PICK j \in Valid(as) : as.slot[j].addr = addr
    BY <1>1 DEF Holds
  <2>2. addr \in Nat
    BY <1>1, <2>1 DEF TableOK, Valid
  <2> DEFINE r == assembly_find_entry(as, addr)
  <2>3. r \in Valid(as) /\ as.slot[r].addr = addr
    BY <1>1, <2>1, <2>2, FindEntry
  <2> HIDE DEF r
  <2>4. r # NOT_FOUND
    BY <2>3 DEF Valid, NOT_FOUND
  <2>5. as.slot[r].text = texts[addr]
    BY <1>1, <2>3 DEF Holds
  <2> QED
    BY <2>4, <2>5 DEF assembly_get, r
<1> QED
  BY <1>1, <1>2 DEF Holds, TableOK

\* However often assembly_grow_and_rehash has grown the table, and however often it began
\* again, assembly_get gives for every address the text that was set last, for every
\* size of the window and of the first table.
THEOREM TextsAreKept == Spec => []TextIsLast
BY MemoryStart, MemoryStep, TableStart, TableStep, TableIsLast, PTL DEF Spec

-----------------------------------------------------------------------------
(***************************************************************************)
(* What the operations of simulate compute, and what the manual says.      *)
(***************************************************************************)
LEMMA ModMultiple ==
  ASSUME NEW m \in Nat \ {0}, NEW x \in Int, NEW k \in Int
  PROVE  (x + m * k) % m = x % m
<1> DEFINE q == x \div m
           r == x % m
<1>1. q \in Int /\ r \in 0 .. m - 1 /\ x = m * q + r
  BY DivMod
<1> HIDE DEF q, r
<1>2. x + m * k = m * (q + k) + r
  <2>1. m * (q + k) = m * q + m * k
    BY <1>1
  <2>2. m * q \in Int /\ m * k \in Int
    BY <1>1
  <2> QED
    BY <1>1, <2>1, <2>2
<1> DEFINE y == x + m * k
<1>3. y \in Int /\ q + k \in Int
  BY <1>1
<1> HIDE DEF y
<1>4. y % m = r
  BY <1>1, <1>2, <1>3, DivUnique DEF y
<1> QED
  BY <1>4 DEF y, r

\* A quotient of a word is a word.
LEMMA WordQuotient ==
  ASSUME NEW x \in Words, NEW p \in Nat \ {0}
  PROVE  x \div p \in Words
<1> DEFINE q == x \div p
           r == x % p
<1>1. x \in Nat /\ x < WordMod /\ WordMod \in Nat
  BY WordIsInt
<1>2. q \in Int /\ r \in 0 .. p - 1 /\ x = p * q + r
  BY <1>1, DivMod
<1> HIDE DEF q, r
<1>3. q >= 0
  <2>1. CASE q <= -1
    <3>1. p * q <= p * (-1)
      BY <1>2, <2>1
    <3> QED
      BY <1>1, <1>2, <3>1
  <2> QED
    BY <1>2, <2>1
<1>4. p * q >= 1 * q
  BY <1>2, <1>3
<1>5. q <= x
  BY <1>1, <1>2, <1>4
<1>6. q \in Words
  BY <1>1, <1>2, <1>3, <1>5 DEF Words
<1> QED
  BY <1>6 DEF q

LEMMA WordItself ==
  ASSUME NEW x \in Words
  PROVE  x % WordMod = x
BY ModSmall, WordIsInt, Moduli

LEMMA FlagItself ==
  ASSUME NEW f \in {0, 1}
  PROVE  f % WordMod = f
<1>1. 0 \in Words /\ 1 \in Words
  BY FourDivides, Moduli DEF Words
<1> QED
  BY <1>1, WordItself

\* A word and its value in two's complement.
LEMMA SignedValue ==
  ASSUME NEW x \in Words
  PROVE  /\ RiscV!Signed(x) \in Int /\ RiscV!Signed(x) % WordMod = x
         /\ \E k \in Int : RiscV!Signed(x) = x + WordMod * k
         /\ ~Negative(x) => RiscV!Signed(x) = x
<1>1. x \in Int /\ x \in 0 .. WordMod - 1 /\ WordMod \in Nat \ {0}
  BY WordIsInt
<1>2. RiscV!Signed(x) \in {x, x - WordMod} /\ (~Negative(x) => RiscV!Signed(x) = x)
  BY <1>1 DEF RiscV!Signed, Negative
<1>3. PICK k \in Int : RiscV!Signed(x) = x + WordMod * k
  <2>1. x = x + WordMod * 0 /\ x - WordMod = x + WordMod * (-1)
    BY <1>1
  <2> QED
    BY <1>2, <2>1
<1>4. (x + WordMod * k) % WordMod = x % WordMod
  BY <1>1, ModMultiple
<1> QED
  BY <1>1, <1>2, <1>3, <1>4, WordItself

\* The product of the values is the product of the words, but for multiples.
LEMMA SignedProduct ==
  ASSUME NEW x \in Words, NEW y \in Words
  PROVE  (RiscV!Signed(y) * RiscV!Signed(x)) % WordMod = (x * y) % WordMod
<1> DEFINE sx == RiscV!Signed(x)
           sy == RiscV!Signed(y)
<1>1. x \in Int /\ y \in Int /\ WordMod \in Nat \ {0} /\ sx \in Int /\ sy \in Int
  BY WordIsInt, SignedValue
<1>2. PICK k \in Int : sx = x + WordMod * k
  BY SignedValue
<1>3. PICK n \in Int : sy = y + WordMod * n
  BY SignedValue
<1> HIDE DEF sx, sy
<1> DEFINE W == WordMod
           z == y * k + n * x + n * (W * k)
<1> HIDE DEF W
<1>4. (y + W * n) * (x + W * k) = x * y + W * z
  BY <1>1 DEF W
<1>5. z \in Int /\ x * y \in Int
  BY <1>1 DEF W
<1> HIDE DEF z
<1>6. (x * y + W * z) % W = (x * y) % W
  <2> DEFINE v == x * y
  <2> HIDE DEF v
  <2>1. v \in Int
    BY <1>5 DEF v
  <2>2. (v + W * z) % W = v % W
    BY <1>1, <1>5, <2>1, ModMultiple DEF W
  <2> QED
    BY <2>2 DEF v
<1>7. (sy * sx) % W = (x * y) % W
  BY <1>2, <1>3, <1>4, <1>6 DEF W
<1> QED
  BY <1>7 DEF W, sx, sy

\* An arithmetic shift of a word that is not negative, or by nothing, is a logical one.
LEMMA ShiftsAgree ==
  ASSUME NEW x \in Words, NEW s \in Int, ~Negative(x) \/ s % WordBits = 0
  PROVE  RiscV!Sra(x, s) = RiscV!Srl(x, s) /\ RiscV!Srl(x, s) \in Words
<1> DEFINE p == Pow2[s % WordBits]
<1>1. p \in Nat \ {0}
  BY PowerType
<1>2. /\ RiscV!Srl(x, s) = x \div p
      /\ RiscV!Sra(x, s) = (RiscV!Signed(x) \div p) % WordMod
  BY DEF RiscV!Srl, RiscV!Sra, RiscV!ToWord
<1>3. s % WordBits = 0 => p = 1
  BY WordAssumption
<1> HIDE DEF p
<1>4. x \div p \in Words
  BY <1>1, WordQuotient
<1>5. CASE ~Negative(x)
  BY <1>2, <1>4, <1>5, SignedValue, WordItself
<1>6. CASE p = 1
  <2>1. RiscV!Signed(x) \in Int /\ x \in Int
    BY SignedValue, WordIsInt
  <2>2. \A v \in Int : v \div 1 = v
    OBVIOUS
  <2> QED
    BY <1>2, <1>4, <1>6, <2>1, <2>2, SignedValue
<1> QED
  BY <1>2, <1>3, <1>4, <1>5, <1>6

\* Where simulate does with two words what the manual says.
RtypeFollows(op, x, y) ==
  /\ ~(op = "SRL" /\ Negative(x) /\ y # 0)
  /\ ~UndefinedShift(op, y)
  /\ ~(op = "MULHSU" /\ Negative(y))
  /\ ~(op = "MULHU" /\ (Negative(x) \/ Negative(y)))
  /\ ~(op \in {"DIV", "DIVU"} /\ (x = 0 \/ y = 0))
  /\ ~Undefined(op, x, y)

LEMMA RtypeRight ==
  ASSUME NEW op \in Operations.RTYPE, NEW x \in Words, NEW y \in Words, RtypeFollows(op, x, y)
  PROVE  RtypeResult(op, x, y) % WordMod = RiscV!Compute(op, x, y)
<1> DEFINE sx == RiscV!Signed(x)
           sy == RiscV!Signed(y)
<1>1. /\ x \in Nat /\ y \in Nat /\ x \in Int /\ y \in Int /\ WordMod \in Nat \ {0}
      /\ sx \in Int /\ sy \in Int
  BY WordIsInt, SignedValue
<1>2. op \in {"ADD", "SUB", "SLL", "SLT", "SLTU", "XOR", "SRL", "SRA", "OR", "AND", "MUL",
              "MULH", "MULHSU", "MULHU", "DIV", "DIVU", "REM", "REMU"}
  BY DEF Operations
<1>3. CASE op \in {"ADD", "SUB"}
  BY <1>3 DEF RtypeResult, RiscV!Compute, RiscV!ToWord
<1>4. CASE op \in {"SLT", "SLTU"}
  <2>1. /\ RtypeResult(op, x, y) = RiscV!Compute(op, x, y)
        /\ RtypeResult(op, x, y) \in {0, 1}
    BY <1>4 DEF RtypeResult, RiscV!Compute, RiscV!Flag
  <2> QED
    BY <2>1, FlagItself
<1>5. CASE op \in {"SLL", "XOR", "OR", "AND"}
  <2>1. /\ RiscV!Sll(x, y) \in Words /\ BitAnd(x, y) \in Words
        /\ RiscV!Or(x, y) \in Words /\ RiscV!Xor(x, y) \in Words
    BY <1>1, ShiftTypes, LogicTypes
  <2> QED
    BY <1>5, <2>1, WordItself DEF RtypeResult, RiscV!Compute
<1>6. CASE op = "SRA"
  <2>1. RiscV!Sra(x, y) \in Words
    BY <1>1, ShiftTypes
  <2> QED
    BY <1>6, <2>1, WordItself DEF RtypeResult, RiscV!Compute
<1>7. CASE op = "SRL"
  <2>1. ~Negative(x) \/ y % WordBits = 0
    BY <1>7, WordAssumption DEF RtypeFollows
  <2>2. RiscV!Sra(x, y) = RiscV!Srl(x, y) /\ RiscV!Srl(x, y) \in Words
    BY <1>1, <2>1, ShiftsAgree
  <2> QED
    BY <1>7, <2>2, WordItself DEF RtypeResult, RiscV!Compute
<1>8. CASE op = "MUL"
  BY <1>8, SignedProduct DEF RtypeResult, RiscV!Compute, RiscV!ToWord
<1>9. CASE op = "MULH"
  BY <1>9 DEF RtypeResult, RiscV!Compute, RiscV!High, RiscV!ToWord
<1>10. CASE op = "MULHSU"
  <2>1. sy = y
    BY <1>10, SignedValue DEF RtypeFollows
  <2> QED
    BY <1>10, <2>1 DEF RtypeResult, RiscV!Compute, RiscV!High, RiscV!ToWord
<1>11. CASE op = "MULHU"
  <2>1. sx = x /\ sy = y
    BY <1>11, SignedValue DEF RtypeFollows
  <2> QED
    BY <1>11, <2>1 DEF RtypeResult, RiscV!Compute, RiscV!High, RiscV!ToWord
<1>12. CASE op \in {"DIV", "REM"}
  <2>1. y # 0
    BY <1>12 DEF RtypeFollows, Undefined
  <2> QED
    BY <1>12, <2>1 DEF RtypeResult, RiscV!Compute, RiscV!ToWord
<1>13. CASE op = "DIVU"
  <2>1. y # 0
    BY <1>13 DEF RtypeFollows
  <2>2. x \div y \in Words
    BY <1>1, <2>1, WordQuotient
  <2> QED
    BY <1>13, <2>1, <2>2, WordItself DEF RtypeResult, RiscV!Compute
<1>14. CASE op = "REMU"
  <2>1. y # 0
    BY <1>14 DEF RtypeFollows, Undefined
  <2>2. x % y \in Words
    <3>1. x % y \in 0 .. y - 1 /\ y < WordMod
      BY <1>1, <2>1, DivMod, WordIsInt
    <3> HIDE DEF sx, sy
    <3> QED
      BY <1>1, <3>1 DEF Words
  <2> QED
    BY <1>14, <2>1, <2>2, WordItself DEF RtypeResult, RiscV!Compute
<1> QED
  BY <1>2, <1>3, <1>4, <1>5, <1>6, <1>7, <1>8, <1>9, <1>10, <1>11, <1>12, <1>13, <1>14

\* An immediate as a word has the value of the immediate.
LEMMA ImmediateWord ==
  ASSUME NEW imm \in -(ImmMod \div 2) .. (ImmMod \div 2) - 1
  PROVE  /\ imm \in Int /\ imm % WordMod \in Words /\ RiscV!Signed(imm % WordMod) = imm
         /\ imm >= 0 => imm % WordMod = imm /\ imm % ImmMod = imm
<1> DEFINE h == ImmMod \div 2
           g == WordMod \div 2
<1>1. /\ ImmMod \in Nat \ {0} /\ ImmMod % 2 = 0 /\ ImmMod <= WordMod
      /\ WordMod \in Nat \ {0} /\ WordMod % 2 = 0
  BY WordAssumption, Moduli, FourDivides
<1>2. h \in Nat /\ g \in Nat /\ h <= g /\ WordMod = 2 * g /\ ImmMod = 2 * h
  BY <1>1
<1>3. imm \in Int /\ imm >= -h /\ imm < h
  BY <1>2
<1>4. \A v : RiscV!Signed(v) = IF v < g THEN v ELSE v - WordMod
  BY DEF RiscV!Signed
<1> HIDE DEF h, g
<1>5. CASE imm >= 0
  <2>1. imm \in 0 .. WordMod - 1 /\ imm \in 0 .. ImmMod - 1
    BY <1>2, <1>3, <1>5
  <2>2. imm % WordMod = imm /\ imm % ImmMod = imm
    BY <1>1, <2>1, ModSmall
  <2> QED
    BY <1>2, <1>3, <1>4, <1>5, <2>1, <2>2 DEF Words
<1>6. CASE imm < 0
  <2>1. imm \in -WordMod .. -1 /\ imm + WordMod \in 0 .. WordMod - 1 /\ imm + WordMod >= g
    BY <1>2, <1>3, <1>6
  <2>2. imm % WordMod = imm + WordMod
    BY <1>1, <2>1, ModNegative
  <2>3. RiscV!Signed(imm + WordMod) = imm
    BY <1>2, <1>3, <1>4, <2>1
  <2> QED
    BY <1>3, <1>6, <2>1, <2>2, <2>3 DEF Words
<1> QED
  BY <1>3, <1>5, <1>6

LEMMA ImmediateRight ==
  ASSUME NEW op \in Operations.IMMEDIATE, NEW x \in Words,
         NEW imm \in -(ImmMod \div 2) .. (ImmMod \div 2) - 1,
         op \in {"SLLI", "SRLI", "SRAI"} => imm \in 0 .. WordBits - 1,
         ~(op = "SRAI" /\ Negative(x) /\ imm # 0)
  PROVE  ImmediateResult(op, x, imm) % WordMod
           = RiscV!Compute(RegisterForm[op], x, imm % WordMod)
<1> DEFINE y == imm % WordMod
<1>1. /\ imm \in Int /\ y \in Words /\ RiscV!Signed(y) = imm
      /\ (imm >= 0 => y = imm) /\ x \in Int /\ WordMod \in Nat \ {0}
  BY ImmediateWord, WordIsInt
<1>2. (x + y) % WordMod = (x + imm) % WordMod
  BY <1>1, ModPlus
<1>3. /\ BitAnd(x, y) \in Words /\ RiscV!Or(x, y) \in Words /\ RiscV!Xor(x, y) \in Words
  <2> HIDE DEF y
  <2> QED
    BY <1>1, LogicTypes
<1>4. op \in {"ADDI", "SLTI", "SLTIU", "XORI", "ORI", "ANDI", "SLLI", "SRLI", "SRAI"}
  BY DEF Operations
<1>5. /\ ImmediateResult(op, x, imm) =
           CASE op = "ADDI"  -> x + imm
             [] op = "SLTI"  -> RiscV!Flag(RiscV!Signed(x) < imm)
             [] op = "SLTIU" -> RiscV!Flag(x < y)
             [] op = "XORI"  -> RiscV!Xor(x, y)
             [] op = "ORI"   -> RiscV!Or(x, y)
             [] op = "ANDI"  -> BitAnd(x, y)
             [] op = "SLLI"  -> RiscV!Sll(x, imm)
             [] op \in {"SRLI", "SRAI"} -> RiscV!Srl(x, imm)
  BY DEF ImmediateResult
<1> HIDE DEF y
<1>6. CASE op = "ADDI"
  <2>1. RegisterForm[op] = "ADD" /\ ImmediateResult(op, x, imm) = x + imm
    BY <1>5, <1>6 DEF RegisterForm
  <2> QED
    BY <1>2, <2>1 DEF RiscV!Compute, RiscV!ToWord, y
<1>7. CASE op = "SLTI"
  <2>1. RegisterForm[op] = "SLT"
        /\ ImmediateResult(op, x, imm) = RiscV!Flag(RiscV!Signed(x) < imm)
    BY <1>5, <1>7 DEF RegisterForm
  <2>2. RiscV!Compute("SLT", x, y) = RiscV!Flag(RiscV!Signed(x) < imm)
    BY <1>1 DEF RiscV!Compute
  <2>3. ImmediateResult(op, x, imm) \in {0, 1}
    BY <2>1 DEF RiscV!Flag
  <2> QED
    BY <2>1, <2>2, <2>3, FlagItself DEF y
<1>8. CASE op = "SLTIU"
  <2>1. RegisterForm[op] = "SLTU" /\ ImmediateResult(op, x, imm) = RiscV!Flag(x < y)
    BY <1>5, <1>8 DEF RegisterForm
  <2>2. RiscV!Compute("SLTU", x, y) = RiscV!Flag(x < y)
    BY DEF RiscV!Compute
  <2>3. ImmediateResult(op, x, imm) \in {0, 1}
    BY <2>1 DEF RiscV!Flag
  <2> QED
    BY <2>1, <2>2, <2>3, FlagItself DEF y
<1>9. CASE op = "XORI"
  <2>1. RegisterForm[op] = "XOR" /\ ImmediateResult(op, x, imm) = RiscV!Xor(x, y)
    BY <1>5, <1>9 DEF RegisterForm
  <2>2. RiscV!Compute("XOR", x, y) = RiscV!Xor(x, y)
    BY DEF RiscV!Compute
  <2> QED
    BY <1>3, <2>1, <2>2, WordItself DEF y
<1>10. CASE op = "ORI"
  <2>1. RegisterForm[op] = "OR" /\ ImmediateResult(op, x, imm) = RiscV!Or(x, y)
    BY <1>5, <1>10 DEF RegisterForm
  <2>2. RiscV!Compute("OR", x, y) = RiscV!Or(x, y)
    BY DEF RiscV!Compute
  <2> QED
    BY <1>3, <2>1, <2>2, WordItself DEF y
<1>11. CASE op = "ANDI"
  <2>1. RegisterForm[op] = "AND" /\ ImmediateResult(op, x, imm) = BitAnd(x, y)
    BY <1>5, <1>11 DEF RegisterForm
  <2>2. RiscV!Compute("AND", x, y) = BitAnd(x, y)
    BY DEF RiscV!Compute
  <2> QED
    BY <1>3, <2>1, <2>2, WordItself DEF y
<1>12. CASE op \in {"SLLI", "SRLI", "SRAI"}
  <2>1. imm \in 0 .. WordBits - 1 /\ WordBits \in Nat \ {0}
    BY <1>12, WordAssumption
  <2>2. y = imm
    BY <1>1, <2>1
  <2>3. imm % WordBits = imm
    BY <2>1, ModSmall
  <2>4. RiscV!Sll(x, imm) \in Words /\ RiscV!Sra(x, imm) \in Words
    BY <1>1, ShiftTypes
  <2>5. RiscV!Srl(x, imm) \in Words
    <3>1. Pow2[imm % WordBits] \in Nat \ {0}
      BY <1>1, PowerType
    <3> QED
      BY <3>1, WordQuotient DEF RiscV!Srl
  <2>6. CASE op = "SLLI"
    <3>1. RegisterForm[op] = "SLL" /\ ImmediateResult(op, x, imm) = RiscV!Sll(x, imm)
      BY <1>5, <2>6 DEF RegisterForm
    <3>2. RiscV!Compute("SLL", x, y) = RiscV!Sll(x, y)
      BY DEF RiscV!Compute
    <3> QED
      BY <2>2, <2>4, <3>1, <3>2, WordItself DEF y
  <2>7. CASE op = "SRLI"
    <3>1. RegisterForm[op] = "SRL" /\ ImmediateResult(op, x, imm) = RiscV!Srl(x, imm)
      BY <1>5, <2>7 DEF RegisterForm
    <3>2. RiscV!Compute("SRL", x, y) = RiscV!Srl(x, y)
      BY DEF RiscV!Compute
    <3> QED
      BY <2>2, <2>5, <3>1, <3>2, WordItself DEF y
  <2>8. CASE op = "SRAI"
    <3>1. RegisterForm[op] = "SRA" /\ ImmediateResult(op, x, imm) = RiscV!Srl(x, imm)
      BY <1>5, <2>8 DEF RegisterForm
    <3>2. RiscV!Compute("SRA", x, y) = RiscV!Sra(x, y)
      BY DEF RiscV!Compute
    <3>3. RiscV!Sra(x, imm) = RiscV!Srl(x, imm)
      BY <1>1, <2>3, <2>8, ShiftsAgree
    <3> QED
      BY <2>2, <2>5, <3>1, <3>2, <3>3, WordItself DEF y
  <2> QED
    BY <1>12, <2>6, <2>7, <2>8
<1> QED
  BY <1>4, <1>6, <1>7, <1>8, <1>9, <1>10, <1>11, <1>12

-----------------------------------------------------------------------------
(***************************************************************************)
(* A step of simulate does what the manual says, except where it departs.  *)
(***************************************************************************)
AsInManual == reg' = IsaRegisters /\ program_counter' = IsaCounter /\ bytes' = IsaBytes

LEMMA UpperRight ==
  ASSUME Lui \/ Auipc, Fetched.rd # 0
  PROVE  AsInManual
<1>1. CASE Lui
  <2>1. /\ Fetched.class = "LUI" /\ bytes' = bytes
        /\ reg' = [reg EXCEPT ![Fetched.rd] = Fetched.imm % WordMod]
        /\ program_counter' = (program_counter + 4) % WordMod
    BY <1>1 DEF Lui, Executing, Register, Set, Goto
  <2> QED
    BY <2>1 DEF AsInManual, IsaRegisters, IsaCounter, IsaBytes
<1>2. CASE Auipc
  <2>1. /\ Fetched.class = "AUIPC" /\ bytes' = bytes
        /\ reg' = [reg EXCEPT ![Fetched.rd] = (program_counter + Fetched.imm) % WordMod]
        /\ program_counter' = (program_counter + 4) % WordMod
    BY <1>2 DEF Auipc, Executing, Register, Set, Goto
  <2> QED
    BY <2>1 DEF AsInManual, IsaRegisters, IsaCounter, IsaBytes
<1> QED
  BY <1>1, <1>2

LEMMA JalRight ==
  ASSUME MemoryInv, Jal, Fetched.rd # 0, JalOffset(Fetched.imm) = Fetched.imm % WordMod
  PROVE  AsInManual
<1>1. /\ phase = "run" /\ Fetched.class = "JAL" /\ bytes' = bytes
      /\ reg' = [reg EXCEPT ![Fetched.rd] = (program_counter + 4) % WordMod]
      /\ program_counter' = (program_counter + JalOffset(Fetched.imm)) % WordMod
  BY DEF Jal, Executing, Register, Set, Goto
<1>2. Fetched.imm \in Int /\ program_counter \in Int /\ WordMod \in Nat \ {0}
  BY <1>1, FetchedType, MachineTypes, Moduli DEF InsnOK
<1>3. (program_counter + (Fetched.imm % WordMod)) % WordMod = (program_counter + Fetched.imm) % WordMod
  BY <1>2, ModPlus
<1>4. program_counter' = (program_counter + Fetched.imm) % WordMod
  BY <1>1, <1>3
<1> QED
  BY <1>1, <1>4 DEF AsInManual, IsaRegisters, IsaCounter, IsaBytes

LEMMA BranchRight ==
  ASSUME Branch, RiscV!Taken(Fetched.op, reg[Fetched.rs1], reg[Fetched.rs2])
  PROVE  AsInManual
<1>1. Taken(Fetched.op, reg[Fetched.rs1], reg[Fetched.rs2])
  BY DEF Taken, RiscV!Taken
<1>2. /\ Fetched.class = "BRANCH" /\ bytes' = bytes /\ reg' = reg
      /\ program_counter' = (program_counter + Fetched.imm) % WordMod
  BY <1>1 DEF Branch, Executing, Goto, SignedImm
<1> QED
  BY <1>2 DEF AsInManual, IsaRegisters, IsaCounter, IsaBytes

\* The address of an access whose offset is not negative, and which the manual aligns.
LEMMA AccessRight ==
  ASSUME MemoryInv, phase = "run", Fetched.class \in {"LOAD", "STORE"}, Fetched.imm >= 0,
         Aligned(reg[Fetched.rs1] + Fetched.imm, RiscV!Bytes(Fetched.op))
  PROVE  /\ Address = IsaAddress /\ Address \in Words
         /\ RiscV!Bytes(Fetched.op) \in {1, 2, 4} /\ Address % RiscV!Bytes(Fetched.op) = 0
<1>1. InsnOK(Fetched)
  BY FetchedType
<1>2. /\ Fetched.imm \in -(ImmMod \div 2) .. (ImmMod \div 2) - 1
      /\ Fetched.op \in Operations.LOAD \cup Operations.STORE
  BY <1>1 DEF InsnOK
<1>3. UnsignedImm = Fetched.imm
  BY <1>2, ImmediateWord DEF UnsignedImm
<1>4. Address = IsaAddress
  BY <1>3 DEF Address, IsaAddress
<1>5. Address \in Words /\ reg[Fetched.rs1] \in Words
  BY <1>1, AddressType
<1> DEFINE n == RiscV!Bytes(Fetched.op)
           x == reg[Fetched.rs1] + Fetched.imm
           k == WordMod \div n
<1>6. n \in {1, 2, 4}
  BY <1>2, AccessSize
<1>7. x \in Int /\ x % n = 0 /\ Address = x % WordMod
  BY <1>1, <1>3, <1>5, WordIsInt DEF InsnOK, Aligned, Address
<1> HIDE DEF n, x
<1>8. k \in Nat \ {0} /\ WordMod = n * k
  <2>1. WordMod \in Nat \ {0} /\ WordMod % 4 = 0 /\ WordMod % 2 = 0 /\ WordMod % 1 = 0
    BY Moduli, FourDivides
  <2> QED
    BY <1>6, <2>1
<1> HIDE DEF k
<1>9. (x % (n * k)) % n = x % n
  <2>1. n \in Nat \ {0}
    BY <1>6
  <2> QED
    BY <1>7, <1>8, <2>1, ModTwice
<1>10. Address % n = 0
  BY <1>7, <1>8, <1>9
<1> QED
  BY <1>4, <1>5, <1>6, <1>10 DEF n

LEMMA LoadRight ==
  ASSUME MemoryInv, Load, Fetched.rd # 0, Fetched.imm >= 0,
         Aligned(reg[Fetched.rs1] + Fetched.imm, RiscV!Bytes(Fetched.op)),
         Fetched.op = "LB" => memory_rd_b(mem, Address) < ByteMod \div 2,
         Fetched.op = "LH" => memory_rd_h(mem, Address) < HalfMod \div 2
  PROVE  AsInManual
<1> DEFINE n == RiscV!Bytes(Fetched.op)
           x == CASE n = 1 -> memory_rd_b(mem, Address)
                  [] n = 2 -> memory_rd_h(mem, Address)
                  [] n = 4 -> memory_rd_w(mem, Address)
           v == RiscV!LoadBytes(bytes, Address, n)
<1>1. phase = "run" /\ Fetched.class = "LOAD"
  BY DEF Load, Executing
<1>2. /\ Address = IsaAddress /\ Address \in Words /\ n \in {1, 2, 4} /\ Address % n = 0
  BY <1>1, AccessRight
<1>3. /\ reg' = [reg EXCEPT ![Fetched.rd] = x % WordMod] /\ bytes' = bytes
      /\ program_counter' = (program_counter + 4) % WordMod
  BY <1>2 DEF Load, Set, Goto, Aligned
<1>4. Flat(mem, bytes)
  BY <1>1, MachineTypes
<1>5. x = v /\ x \in Words
  <2>1. /\ memory_rd_b(mem, Address) = RiscV!LoadBytes(bytes, Address, 1)
        /\ Address % 2 = 0 => memory_rd_h(mem, Address) = RiscV!LoadBytes(bytes, Address, 2)
        /\ Address % 4 = 0 => memory_rd_w(mem, Address) = RiscV!LoadBytes(bytes, Address, 4)
    BY <1>2, <1>4, FlatReads
  <2>2. /\ memory_rd_b(mem, Address) \in Words /\ memory_rd_h(mem, Address) \in Words
        /\ memory_rd_w(mem, Address) \in Words
    BY <1>2, <1>4, ReadWords
  <2>3. CASE n = 1
    BY <2>1, <2>2, <2>3
  <2>4. CASE n = 2
    BY <1>2, <2>1, <2>2, <2>4
  <2>5. CASE n = 4
    BY <1>2, <2>1, <2>2, <2>5
  <2> QED
    BY <1>2, <2>3, <2>4, <2>5
<1>6. Fetched.op = "LB" => n = 1 /\ x < ByteMod \div 2
  BY DEF RiscV!Bytes
<1>7. Fetched.op = "LH" => n = 2 /\ x < HalfMod \div 2
  BY DEF RiscV!Bytes
<1>8. RiscV!LoadValue(bytes, Fetched.op, IsaAddress)
        = CASE Fetched.op = "LB" -> RiscV!Extend(v, ByteMod)
            [] Fetched.op = "LH" -> RiscV!Extend(v, HalfMod)
            [] OTHER -> v
  BY <1>2 DEF RiscV!LoadValue, RiscV!HalfMod, HalfMod
<1>9. x % WordMod = x
  <2> HIDE DEF x
  <2> QED
    BY <1>5, WordItself
<1> HIDE DEF x, v
<1>10. RiscV!LoadValue(bytes, Fetched.op, IsaAddress) = x
  BY <1>5, <1>6, <1>7, <1>8 DEF RiscV!Extend
<1> QED
  BY <1>1, <1>3, <1>9, <1>10 DEF AsInManual, IsaRegisters, IsaCounter, IsaBytes

LEMMA StoreRight ==
  ASSUME MemoryInv, Store, Fetched.imm >= 0,
         Aligned(reg[Fetched.rs1] + Fetched.imm, RiscV!Bytes(Fetched.op))
  PROVE  AsInManual
<1> DEFINE n == RiscV!Bytes(Fetched.op)
<1>1. phase = "run" /\ Fetched.class = "STORE"
  BY DEF Store, Executing
<1>2. /\ Address = IsaAddress /\ Address % n = 0
  BY <1>1, AccessRight
<1>3. /\ bytes' = RiscV!StoreBytes(bytes, Address, n, reg[Fetched.rs2]) /\ reg' = reg
      /\ program_counter' = (program_counter + 4) % WordMod
  BY <1>2 DEF Store, StoreIn, Goto, Aligned
<1> QED
  BY <1>1, <1>2, <1>3 DEF AsInManual, IsaRegisters, IsaCounter, IsaBytes

LEMMA ImmediateStepRight ==
  ASSUME MemoryInv, Immediate, Fetched.rd # 0,
         ~(Fetched.op = "SRAI" /\ Negative(reg[Fetched.rs1]) /\ Fetched.imm # 0)
  PROVE  AsInManual
<1>1. /\ phase = "run" /\ Fetched.class = "IMMEDIATE" /\ bytes' = bytes
      /\ reg' = [reg EXCEPT ![Fetched.rd] =
                   ImmediateResult(Fetched.op, reg[Fetched.rs1], Fetched.imm) % WordMod]
      /\ program_counter' = (program_counter + 4) % WordMod
  BY DEF Immediate, Executing, Register, Set, Goto, SignedImm
<1>2. InsnOK(Fetched) /\ reg \in [Registers -> Words]
  BY <1>1, FetchedType, MachineTypes
<1>3. /\ Fetched.op \in Operations.IMMEDIATE /\ reg[Fetched.rs1] \in Words
      /\ Fetched.imm \in -(ImmMod \div 2) .. (ImmMod \div 2) - 1
      /\ Fetched.op \in {"SLLI", "SRLI", "SRAI"} => Fetched.imm \in 0 .. WordBits - 1
  BY <1>1, <1>2 DEF InsnOK
<1>4. ImmediateResult(Fetched.op, reg[Fetched.rs1], Fetched.imm) % WordMod
        = RiscV!Compute(RegisterForm[Fetched.op], reg[Fetched.rs1], Fetched.imm % WordMod)
  BY <1>3, ImmediateRight
<1> QED
  BY <1>1, <1>4 DEF AsInManual, IsaRegisters, IsaCounter, IsaBytes

LEMMA RtypeStepRight ==
  ASSUME MemoryInv, Rtype, Fetched.rd # 0,
         RtypeFollows(Fetched.op, reg[Fetched.rs1], reg[Fetched.rs2])
  PROVE  AsInManual
<1> DEFINE op == Fetched.op
           x  == reg[Fetched.rs1]
           y  == reg[Fetched.rs2]
<1>1. phase = "run" /\ Fetched.class = "RTYPE"
  BY DEF Rtype, Executing
<1>2. /\ bytes' = bytes /\ program_counter' = (program_counter + 4) % WordMod
      /\ reg' = [reg EXCEPT ![Fetched.rd] = RtypeResult(op, x, y) % WordMod]
  BY DEF Rtype, RtypeFollows, Register, Set, Goto
<1>3. InsnOK(Fetched) /\ reg \in [Registers -> Words]
  BY <1>1, FetchedType, MachineTypes
<1>4. op \in Operations.RTYPE /\ x \in Words /\ y \in Words
  BY <1>1, <1>3 DEF InsnOK
<1>5. RtypeResult(op, x, y) % WordMod = RiscV!Compute(op, x, y)
  BY <1>4, RtypeRight
<1> QED
  BY <1>1, <1>2, <1>5 DEF AsInManual, IsaRegisters, IsaCounter, IsaBytes

LEMMA ManualStep ==
  ASSUME MemoryInv, Next, Defined, ~Departs
  PROVE  AsInManual
<1> DEFINE i == Fetched
           x == reg[i.rs1]
           y == reg[i.rs2]
<1>1. /\ phase = "run" /\ i.class \notin {"none", "ECALL", "SHIFT_OTHER"}
      /\ Aligned(program_counter, 4)
      /\ i.class \in {"LOAD", "STORE"} => Aligned(x + i.imm, RiscV!Bytes(i.op))
  BY DEF Defined
<1>2. InsnOK(i) /\ Flat(mem, bytes)
  BY <1>1, FetchedType, MachineTypes
<1>3. /\ i.class \notin {"BRANCH", "STORE"} => i.rd # 0
      /\ i.class = "BRANCH" => RiscV!Taken(i.op, x, y)
      /\ i.class = "JAL" => JalOffset(i.imm) = i.imm % WordMod
      /\ i.class # "JALR"
      /\ i.class \in {"LOAD", "STORE"} => ~(i.imm < 0)
      /\ i.class = "LOAD" /\ i.op = "LB" => ~(memory_rd_b(mem, Address) >= ByteMod \div 2)
      /\ i.class = "LOAD" /\ i.op = "LH" => ~(memory_rd_h(mem, Address) >= HalfMod \div 2)
      /\ i.class = "IMMEDIATE" => ~(i.op = "SRAI" /\ Negative(x) /\ i.imm # 0)
      /\ i.class = "RTYPE" => RtypeFollows(i.op, x, y)
  BY DEF Departs, RtypeFollows
<1>4. CASE Lui \/ Auipc
  BY <1>3, <1>4, UpperRight DEF Lui, Auipc, Executing
<1>5. CASE Jal
  BY <1>3, <1>5, JalRight DEF Jal, Executing
<1>6. CASE Branch
  BY <1>3, <1>6, BranchRight DEF Branch, Executing
<1>7. CASE Load
  <2>1. i.class = "LOAD"
    BY <1>7 DEF Load, Executing
  <2>2. Address \in Words /\ i.imm \in Int
    BY <1>1, <1>2, AddressType DEF InsnOK
  <2>3. memory_rd_b(mem, Address) \in Int /\ memory_rd_h(mem, Address) \in Int
    BY <1>2, <2>2, ReadType
  <2>4. ByteMod \in Int /\ HalfMod \in Int
    BY Moduli
  <2>5. /\ i.imm >= 0 /\ i.rd # 0 /\ Aligned(x + i.imm, RiscV!Bytes(i.op))
        /\ i.op = "LB" => memory_rd_b(mem, Address) < ByteMod \div 2
        /\ i.op = "LH" => memory_rd_h(mem, Address) < HalfMod \div 2
    BY <1>1, <1>3, <2>1, <2>2, <2>3, <2>4
  <2> QED
    BY <1>7, <2>5, LoadRight
<1>8. CASE Store
  <2>1. i.class = "STORE"
    BY <1>8 DEF Store, Executing
  <2>2. i.imm >= 0 /\ Aligned(x + i.imm, RiscV!Bytes(i.op))
    BY <1>1, <1>2, <1>3, <2>1 DEF InsnOK
  <2> QED
    BY <1>8, <2>2, StoreRight
<1>9. CASE Immediate
  BY <1>3, <1>9, ImmediateStepRight DEF Immediate, Executing
<1>10. CASE Rtype
  BY <1>3, <1>10, RtypeStepRight DEF Rtype, Executing
<1>11. CASE PassCount \/ PassPointer \/ PassChar
  BY <1>1, <1>11 DEF PassCount, PassPointer, PassChar
<1>12. CASE DataLine \/ InsnLine \/ SetText \/ SetAgain \/ Rehash \/ SymbolLine \/ StartProgram
  BY <1>1, <1>12 DEF DataLine, InsnLine, SetText, SetAgain, Rehash, SymbolLine, StartProgram,
     NextLine
<1>13. CASE Ecall \/ Jalr \/ UnknownShift \/ IllegalInstruction \/ UnalignedFetch
  BY <1>1, <1>3, <1>13 DEF Ecall, Jalr, UnknownShift, IllegalInstruction, UnalignedFetch, Executing
<1> QED
  BY <1>4, <1>5, <1>6, <1>7, <1>8, <1>9, <1>10, <1>11, <1>12, <1>13 DEF Next

\* simulate.c executes every instruction of RV32IM as the RISC-V manual says, except in
\* the cases that Departs lists, for every width of words, every program and every
\* contents of the registers and the memory.  Among the cases are those that C leaves
\* undefined: shifts by a register that holds more than the width of a word, division
\* of the smallest number by -1, and remainders by 0.
THEOREM FollowsManual == Spec => SimulatesRiscV
<1>1. MemoryInv /\ [Next]_vars =>
        [Defined /\ reg[0] = 0 /\ ~Departs =>
           reg' = IsaRegisters /\ program_counter' = IsaCounter /\ bytes' = IsaBytes]_vars
  BY ManualStep DEF AsInManual
<1> QED
  BY <1>1, MemoryInvariance, PTL DEF Spec, SimulatesRiscV

=============================================================================
