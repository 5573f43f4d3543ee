----------------------------- MODULE Positions -----------------------------
(***************************************************************************)
(* The way of a source position from the compiler to the editor and back:  *)
(* Loc::new turns a byte offset into a character index                     *)
(* (src/src/models.rs), index_to_line_char turns the index into a line and *)
(* column to be drawn, and line_char_to_index turns the line and column of *)
(* a click into an index again (src/src/utils.rs).  The compiler drops the *)
(* CR of every CRLF; its offsets count bytes of what remains.              *)
(*                                                                         *)
(* A step is one round of one of the three loops.  Indices of characters   *)
(* start at 0, as in the code.                                             *)
(***************************************************************************)
EXTENDS Naturals, Sequences, FiniteSets

CONSTANTS
  Chars,      \* among "cr", "lf", "x" (one byte) and "wide" (two bytes)
  MaxLen      \* bound: characters of the text

ASSUME PositionsAssumption ==
  MaxLen \in Nat /\ Chars \subseteq {"cr", "lf", "x", "wide"}

VARIABLES
  text,       \* the file
  byte,       \* the compiler's offset
  stage,      \* "byte", "show", "find" or "done"
  index,      \* what Loc::new returned
  shown,      \* what index_to_line_char returned
  found,      \* what line_char_to_index returned
  at, line, col   \* of the loop that runs

posVars == <<text, byte, stage, index, shown, found, at, line, col>>

-----------------------------------------------------------------------------
(* Texts.                                                                  *)

(* s.replace('\r', ""), character by character.                            *)
Dropped(s) ==
  LET kept[n \in 0 .. Len(s)] ==
        IF n = 0 THEN << >> ELSE IF s[n] = "cr" THEN kept[n - 1] ELSE Append(kept[n - 1], s[n])
  IN  kept[Len(s)]

IsSourceClean(s) == \A k \in DOMAIN s : s[k] # "cr"
CleanSource(s) == IF IsSourceClean(s) THEN Dropped(s) ELSE s

(* The text whose characters index_to_line_char counts.                    *)
ShowText(s) ==
  LET cleaned == IF IsSourceClean(s) THEN << >> ELSE CleanSource(s)
  IN  IF cleaned = << >> THEN s ELSE cleaned

Char(s, k) == s[k + 1]
Wides(s, n) == Cardinality({k \in 1 .. n : s[k] = "wide"})
ByteIndex(s, k) == k + Wides(s, k)      \* of char_indices()
Source == Dropped(text)

PosInit ==
  /\ \E n \in 0 .. MaxLen : text \in [1 .. n -> Chars]
  /\ \A k \in DOMAIN text : text[k] = "cr" => k < Len(text) /\ text[k + 1] = "lf"
  /\ \E k \in 0 .. Len(Source) : byte = ByteIndex(Source, k)
  /\ stage = "byte" /\ index = 0 /\ shown = <<0, 0>> /\ found = 0
  /\ at = 0 /\ line = 0 /\ col = 0

-----------------------------------------------------------------------------
(* Loc::new: the first character that does not start before the byte.      *)

StartsBefore_Or(k) == ByteIndex(Source, k) <= byte     \* mutant: one too far
StartsBefore(k) == ByteIndex(Source, k) < byte

LocNext ==
  /\ stage = "byte" /\ at < Len(Source) /\ StartsBefore(at)
  /\ at' = at + 1
  /\ UNCHANGED <<text, byte, stage, index, shown, found, line, col>>

LocReturn ==
  /\ stage = "byte" /\ (at = Len(Source) \/ ~StartsBefore(at))
  /\ index' = at
  /\ stage' = "show" /\ at' = 0 /\ line' = 0 /\ col' = 0
  /\ UNCHANGED <<text, byte, shown, found>>

-----------------------------------------------------------------------------
(* index_to_line_char.                                                     *)

Column_Run(c) == col + 1     \* mutant: the column is not reset
Column(c) == IF c = "lf" THEN 0 ELSE col + 1

ShowNext ==
  /\ stage = "show" /\ at < Len(ShowText(text)) /\ at # index
  /\ line' = IF Char(ShowText(text), at) = "lf" THEN line + 1 ELSE line
  /\ col' = Column(Char(ShowText(text), at))
  /\ at' = at + 1
  /\ UNCHANGED <<text, byte, stage, index, shown, found>>

(* Where the character is in an editor; what the user clicks on.           *)
LineStart(s, k) == CHOOSE b \in 0 .. k :
  /\ b = 0 \/ Char(s, b - 1) = "lf"
  /\ \A l \in b .. k - 1 : Char(s, l) # "lf"
Place(s, k) == <<Cardinality({l \in 0 .. k - 1 : Char(s, l) = "lf"}), k - LineStart(s, k)>>

ShowReturn ==
  /\ stage = "show" /\ (at = index \/ at = Len(ShowText(text)))
  /\ shown' = <<line, col>>
  /\ stage' = "find" /\ at' = 0 /\ line' = Place(Source, index)[1] /\ col' = 0
  /\ UNCHANGED <<text, byte, index, found>>

-----------------------------------------------------------------------------
(* line_char_to_index, for the place of the character.                     *)

FindText == Dropped(text)
AtPlace_AnyLine == col = Place(Source, index)[2]     \* mutant: on whatever line
AtPlace == line = 0 /\ col = Place(Source, index)[2]

FindNext ==
  /\ stage = "find" /\ at < Len(FindText) /\ ~AtPlace
  /\ IF Char(FindText, at) = "lf" /\ 0 < line
     THEN line' = line - 1 /\ col' = 0
     ELSE line' = line /\ col' = IF Char(FindText, at) = "cr" THEN col ELSE col + 1
  /\ at' = at + 1
  /\ UNCHANGED <<text, byte, stage, index, shown, found>>

(* No character is there: the start of the file is taken.                  *)
FindReturn ==
  /\ stage = "find" /\ (AtPlace \/ at = Len(FindText))
  /\ found' = IF at < Len(FindText) THEN at ELSE 0
  /\ stage' = "done"
  /\ UNCHANGED <<text, byte, index, shown, at, line, col>>

-----------------------------------------------------------------------------
PosNext == LocNext \/ LocReturn \/ ShowNext \/ ShowReturn \/ FindNext \/ FindReturn

PosSpec == PosInit /\ [][PosNext]_posVars

-----------------------------------------------------------------------------
(* Properties.                                                             *)

\* Type correctness; the loops stay within their texts.
PosTypeOK ==
  /\ stage \in {"byte", "show", "find", "done"}
  /\ at \in 0 .. Len(text) /\ line \in 0 .. Len(text) /\ col \in 0 .. Len(text)
  /\ index \in 0 .. Len(Source) /\ found \in 0 .. Len(Source)

\* A span the compiler reports at a character gets that character's index,
\* whatever the widths of those before it (22-40).
IndexOfByte == stage # "byte" => ByteIndex(Source, index) = byte

\* A click on a character finds its index, whatever the line ends; a click
\* behind the last character finds the start of the file (180-195).
FoundAgain == stage = "done" => found = IF index < Len(Source) THEN index ELSE 0

\* An index is drawn where its character is in the editor (156-179).
ShownWhereItIs == stage \in {"find", "done"} => shown = Place(Source, index)

\* It is, in texts without CR.
ShownInCleanText == IsSourceClean(text) => ShownWhereItIs
=============================================================================
