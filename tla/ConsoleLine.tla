----------------------------- MODULE ConsoleLine -----------------------------
(* agent/ConsoleLine.cc: what was last sent of a line, and whether the line    *)
(* now in the console differs from it so that it must be sent again.  Of a     *)
(* line that was once longer the rest is kept: a terminal that became narrower *)
(* may show it again when it becomes wider.                                    *)
EXTENDS Integers, Sequences

BlankCell(color) == [ch |-> 32, half |-> "none", color |-> color]

IsLineBlank(cells, color) == \A i \in DOMAIN cells : cells[i] = BlankCell(color)

\* ConsoleLine::reset and the constructor; ConsoleLine::blank.
FreshLine == [length |-> 0, data |-> <<>>]
BlankedLine(color) == [length |-> 1, data |-> <<BlankCell(color)>>]

\* Mutant of SetLine: the rest of a longer line is forgotten.
SetLineForget(prev, line) == [length |-> Len(line), data |-> line]

SetLine(prev, line) ==
  [length |-> Len(line), data |-> line \o SubSeq(prev.data, Len(line) + 1, Len(prev.data))]

Shorter(prev, line) ==
  LET n == Len(line)
  IN /\ SubSeq(prev.data, 1, n) = line
     /\ IsLineBlank(SubSeq(prev.data, n + 1, prev.length), line[n].color)

\* What is new must be blank, and so must what a wider terminal shows again.
Longer(prev, line) ==
  LET n == Len(line)
      seen == IF Len(prev.data) < n THEN Len(prev.data) ELSE n
      color == prev.data[prev.length].color
  IN /\ SubSeq(prev.data, 1, prev.length) = SubSeq(line, 1, prev.length)
     /\ IsLineBlank(SubSeq(prev.data, prev.length + 1, seen), color)
     /\ IsLineBlank(SubSeq(line, prev.length + 1, n), color)

\* detectChangeAndSetLine says whether the line must be sent, and does as SetLine.
LinesEqual(prev, line) ==
  \/ prev.length = Len(line) /\ SubSeq(prev.data, 1, prev.length) = line
  \/ prev.length > Len(line) /\ Shorter(prev, line)
  \/ 0 < prev.length /\ prev.length < Len(line) /\ Longer(prev, line)
==============================================================================
