----------------------------- MODULE FileFormat -----------------------------
(***************************************************************************)
(* The program of A0 (file.c): five predicates in a row read the same      *)
(* stream and leave its position for the next one.  What matters is where  *)
(* each of them leaves it, and that the one that counts multi-byte         *)
(* characters moves the position back as well as forward.                  *)
(*                                                                         *)
(* A byte is one of eight classes, the ones that the tests of file.c tell  *)
(* apart.  One step is one turn of a loop.                                 *)
(***************************************************************************)
EXTENDS Integers, Sequences, FiniteSets

CONSTANT Files   \* the contents of the files that the program is run on

Classes == { "text",     \* 07..0D, 1B, 20..7E
             "control",  \* the other bytes below 80
             "low",      \* 80..9F: continues a character, not in ISO-8859
             "high",     \* A0..BF: continues a character, in ISO-8859
             "lead2", "lead3", "lead4",  \* C0..DF, E0..EF, F0..F7
             "last" }    \* F8..FF

ASSUME FilesAssumption == Files \subseteq Seq(Classes)

VARIABLES file,                 \* the contents
          pos,                  \* the position of the stream
          predicate,            \* the predicate that is reading, or "off", "done"
          multiByteCharacters,  \* of count_utf_multiByte_characters
          format                \* the answer

format_vars == <<file, pos, predicate, multiByteCharacters, format>>

IsAscii(c)   == c = "text"
IsIso(c)     == c \in {"text", "high", "lead2", "lead3", "lead4", "last"}
Continues(c) == c \in {"low", "high"}

\* expectingAmountOfBytes for a first byte c.
Expecting(c) == CASE c = "lead2" -> 1 [] c = "lead3" -> 2 [] c = "lead4" -> 3 [] OTHER -> 0

FormatInit ==
  /\ file \in Files
  /\ pos = 0
  /\ predicate = "is_empty"
  /\ multiByteCharacters = 0
  /\ format = "none"

\* fseek to an offset from the beginning, from the position p: a target before
\* the file is an error, and the position stays.
Seek(p, target) == IF target < 0 THEN p ELSE target

AtEof == pos = Len(file)
c     == file[pos + 1]

Answer(f) == predicate' = "done" /\ format' = f
Try(next) == predicate' = next /\ UNCHANGED format

-----------------------------------------------------------------------------
is_empty ==
  /\ predicate = "is_empty"
  /\ IF AtEof THEN Answer("EMPTY") ELSE Try("is_ascii")
  /\ pos' = 0
  /\ UNCHANGED <<file, multiByteCharacters>>

is_ascii ==
  /\ predicate = "is_ascii"
  /\ IF AtEof        THEN Answer("ASCII") /\ UNCHANGED pos
     ELSE IF IsAscii(c) THEN pos' = pos + 1 /\ UNCHANGED <<predicate, format>>
     ELSE Try("count") /\ pos' = 0
  /\ UNCHANGED <<file, multiByteCharacters>>

\* The first of the bytes expected behind c that is missing or does not continue
\* the character, counted from 1; one more than expected if there is none.
Broken ==
  LET bad == { i \in 1 .. Expecting(c) :
                 pos + 1 + i > Len(file) \/ ~Continues(file[pos + 1 + i]) }
  IN  IF bad = {} THEN Expecting(c) + 1 ELSE CHOOSE i \in bad : \A j \in bad : i <= j

\* is_iso goes on only if nothing was counted.
Counted(n) == Try(IF n = 0 THEN "is_iso" ELSE "is_utf")

\* Faulty variants, for mutation testing: the stream is not rewound at the end
\* of the file, or goes back to the lead byte that was disproven.
CountNoRewind ==
  /\ predicate = "count"
  /\ IF AtEof THEN Counted(multiByteCharacters) /\ UNCHANGED <<pos, multiByteCharacters>>
     ELSE /\ pos' = pos + 1
          /\ multiByteCharacters' = multiByteCharacters
               + (IF Broken > Expecting(c) /\ Expecting(c) > 0 THEN 1 ELSE 0)
          /\ UNCHANGED <<predicate, format>>
  /\ UNCHANGED file

CountBackToLead ==
  /\ predicate = "count"
  /\ IF AtEof THEN Counted(multiByteCharacters) /\ pos' = 0 /\ UNCHANGED multiByteCharacters
     ELSE /\ pos' = IF Broken > Expecting(c) THEN pos + Broken ELSE pos
          /\ multiByteCharacters' = multiByteCharacters
               + (IF Broken > Expecting(c) /\ Expecting(c) > 0 THEN 1 ELSE 0)
          /\ UNCHANGED <<predicate, format>>
  /\ UNCHANGED file

\* count_utf_multiByte_characters, called by is_iso: one turn of the loop.
Count ==
  /\ predicate = "count"
  /\ \/ \* the end of the file: rewind and return
        /\ AtEof
        /\ Counted(multiByteCharacters)
        /\ pos' = 0
        /\ UNCHANGED multiByteCharacters
     \/ \* the file ends inside a character: return without rewinding
        /\ ~AtEof
        /\ Broken <= Expecting(c)
        /\ pos + 1 + Broken > Len(file)
        /\ Counted(multiByteCharacters)
        /\ pos' = Len(file)
        /\ UNCHANGED multiByteCharacters
     \/ \* disproven: back by as many bytes as were expected, not as were read
        /\ ~AtEof
        /\ Broken <= Expecting(c)
        /\ pos + 1 + Broken <= Len(file)
        /\ LET behind == pos + 1 + Broken
           IN  pos' = Seek(behind, behind - Expecting(c))
        /\ UNCHANGED <<predicate, format, multiByteCharacters>>
     \/ \* a whole character
        /\ ~AtEof
        /\ Broken > Expecting(c)
        /\ pos' = pos + 1 + Expecting(c)
        /\ multiByteCharacters' = multiByteCharacters + (IF Expecting(c) > 0 THEN 1 ELSE 0)
        /\ UNCHANGED <<predicate, format>>
  /\ UNCHANGED file

is_iso ==
  /\ predicate = "is_iso"
  /\ IF AtEof      THEN Answer("ISO") /\ pos' = 0
     ELSE IF IsIso(c) THEN pos' = pos + 1 /\ UNCHANGED <<predicate, format>>
     ELSE Try("is_utf") /\ pos' = 0
  /\ UNCHANGED <<file, multiByteCharacters>>

is_utf ==
  /\ predicate = "is_utf"
  /\ IF AtEof THEN Answer("UTF") /\ pos' = 0
     ELSE IF Broken > Expecting(c)
       THEN pos' = pos + 1 + Expecting(c) /\ UNCHANGED <<predicate, format>>
     ELSE Answer("DATA") /\ pos' = IF pos + 1 + Broken > Len(file) THEN Len(file) ELSE 0
  /\ UNCHANGED <<file, multiByteCharacters>>

FormatNext == is_empty \/ is_ascii \/ Count \/ is_iso \/ is_utf

-----------------------------------------------------------------------------
(***************************************************************************)
(* The formats by definition, as file(1) has them, with which A0/test.sh   *)
(* compares: text in UTF-8 consists of text bytes and whole characters of  *)
(* several bytes; other text, in ISO-8859, of its bytes; and everything    *)
(* else is data.  (What file(1) says of the few bytes that file.c does not *)
(* tell from their neighbours, like 85, C0 and F5, is left out.)  A lead   *)
(* byte is never part of another character, so that characters can be told *)
(* from each byte on its own.                                              *)
(***************************************************************************)
Follow(i)  == { j \in 1 .. Expecting(file[i]) :
                  i + j <= Len(file) /\ Continues(file[i + j]) }
Whole(i)   == Cardinality(Follow(i)) = Expecting(file[i])
Lead(i)    == Expecting(file[i]) > 0

\* Byte j belongs to a whole character of several bytes.
InCharacter(j) ==
  \E i \in DOMAIN file : Lead(i) /\ Whole(i) /\ j \in i .. i + Expecting(file[i])

AllIso == \A i \in DOMAIN file : IsIso(file[i])

Definition ==
  IF file = << >> THEN "EMPTY"
  ELSE IF \A j \in DOMAIN file : IsAscii(file[j]) THEN "ASCII"
  ELSE IF \A j \in DOMAIN file : IsAscii(file[j]) \/ InCharacter(j) THEN "UTF"
  ELSE IF AllIso THEN "ISO"
  ELSE "DATA"

\* A byte that is neither text nor part of a character, and leads none: a NUL or
\* another control byte, a continuation without a lead, or F8..FF.
Stray(j) == ~IsAscii(file[j]) /\ ~Lead(j) /\ ~InCharacter(j)

\* Every character is whole, and there are stray bytes.  is_utf passes over them
\* (file.c:225, :241), so that such a file is called UTF unless is_iso has taken it: text
\* with a NUL in it, for one, which test.sh:37 lists as data.
Tolerated ==
  /\ \A i \in DOMAIN file : Whole(i)
  /\ \E j \in DOMAIN file : Stray(j)
  /\ ~AllIso \/ \E i \in DOMAIN file : Lead(i)

\* ISO-8859 text in which two bytes happen to form a whole character, beside a lead
\* byte without one: is_iso refuses it for the first (file.c:193), is_utf for the
\* second, and it is called data.
Mixed ==
  /\ AllIso
  /\ \E i \in DOMAIN file : Lead(i) /\ Whole(i)
  /\ \E i \in DOMAIN file : ~Whole(i)

\* The bytes behind lead byte i that continue it, up to the first that does not.
Run(i) == Cardinality({ j \in Follow(i) : \A k \in 1 .. j : k \in Follow(i) })

\* Lead byte i is contradicted by a byte that is there.
Disproven(i) == Lead(i) /\ ~Whole(i) /\ i + Run(i) + 1 <= Len(file)

\* The file ends inside a character.
Truncated == \E i \in DOMAIN file : Lead(i) /\ ~Whole(i) /\ ~Disproven(i)

\* The first byte leads a character of four and is contradicted at once: the
\* stream cannot go back three bytes, and the second byte is skipped.
SecondSkipped == Len(file) > 1 /\ file[1] = "lead4" /\ Disproven(1) /\ Run(1) = 0

\* Lead bytes from which the stream goes back to themselves or behind: three
\* bytes expected and the first is wrong, or four and the first or second is.
GoesBack(i) ==
  /\ Disproven(i)
  /\ Run(i) + 1 < Expecting(file[i])
  /\ ~(SecondSkipped /\ i \in {1, 2})

\* Where the predicates leave the stream that they share, the next one finds what it
\* needs: the answer is the one that the bytes call for, but for the two kinds of
\* files that a predicate by itself takes for something else, whatever the order in
\* which the bytes come.  Nothing is said of a file that ends inside a character and
\* of one whose second byte is skipped.
FormatIsDefinition ==
  predicate = "done" /\ ~Truncated /\ ~SecondSkipped =>
    format = IF Tolerated THEN "UTF" ELSE IF Mixed THEN "DATA" ELSE Definition

\* Every file gets an answer unless it has a lead byte from which the stream goes
\* back too far, which ISO-8859 text in other languages than English does have.
EveryFileAnswered ==
  <>(predicate \in {"done", "off"} \/ \E i \in DOMAIN file : GoesBack(i))

=============================================================================
