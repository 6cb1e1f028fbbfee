------------------------------- MODULE Terminal -------------------------------
(***************************************************************************)
(* agent/Terminal.cc: how the agent draws a line on the user's terminal,   *)
(* of which it knows only what it has sent.  A Terminal t is a record: the *)
(* line and column the cursor is at, the cells sent of that line, whether  *)
(* they can be relied on, whether the cursor is hidden, the colour last    *)
(* set, and what the operations have written.                              *)
(***************************************************************************)
EXTENDS ConsoleLine, SequencesExt

NoColor == -1

Put(ch, wide) == [op |-> "put", ch |-> ch, wide |-> wide]
Op(name) == [op |-> name]
CrLfs(n) == [i \in 1..n |-> Op("CRLF")]

NewTerminal(plain, outputColor) ==
  [line |-> 0, column |-> 0, data |-> <<>>, valid |-> TRUE, hidden |-> FALSE, color |-> NoColor,
   plain |-> plain, outputColor |-> outputColor, out |-> <<>>]

Write(t, ops) == [t EXCEPT !.out = @ \o ops]

-------------------------------------------------------------------------------
(* The characters of a line.                                                 *)

HighSurrogate(ch) == ch \in 55296..56319
LowSurrogate(ch) == ch \in 56320..57343
decodeSurrogatePair(high, low) == 65536 + (high - 55296) * 1024 + (low - 56320)

Question == 63
DoubleBox == <<9556, 9559, 9562, 9565, 9553, 9552>>

\* Box-drawing characters, which some code pages have at 1 to 6, and the escape character.
fixSpecialCharacters(ch) ==
  IF ch \in 1..6 THEN DoubleBox[ch] ELSE IF ch = 27 THEN Question ELSE ch

isFullWidthCharacter(cells, i) ==
  /\ i + 1 <= Len(cells)
  /\ cells[i].half = "lead" /\ cells[i + 1].half = "trail" /\ cells[i].ch = cells[i + 1].ch

CellsOf(cells, i) == IF isFullWidthCharacter(cells, i) THEN 2 ELSE 1

\* Mutant of scanUnicodeScalarValue: what follows a high surrogate is not looked at.
scanTrusting(cells, i) ==
  LET w1 == CellsOf(cells, i)
      ch == cells[i].ch
  IN IF HighSurrogate(ch) /\ i + w1 <= Len(cells)
     THEN [at |-> i, n |-> w1 + CellsOf(cells, i + w1), ch |-> decodeSurrogatePair(ch, cells[i + w1].ch)]
     ELSE [at |-> i, n |-> w1, ch |-> IF HighSurrogate(ch) \/ LowSurrogate(ch) THEN Question ELSE ch]

\* The character at cell i and the cells it takes.
scanUnicodeScalarValue(cells, i) ==
  LET w1 == CellsOf(cells, i)
      ch == cells[i].ch
      paired == HighSurrogate(ch) /\ i + w1 <= Len(cells) /\ LowSurrogate(cells[i + w1].ch)
  IN IF paired
     THEN [at |-> i, n |-> w1 + CellsOf(cells, i + w1), ch |-> decodeSurrogatePair(ch, cells[i + w1].ch)]
     ELSE [at |-> i, n |-> w1, ch |-> IF HighSurrogate(ch) \/ LowSurrogate(ch) THEN Question ELSE ch]

\* The characters from cell `from` on.
Characters(cells, from) ==
  LET Add(seq, i) ==
        IF seq # <<>> /\ i < Last(seq).at + Last(seq).n THEN seq
        ELSE Append(seq, scanUnicodeScalarValue(cells, i))
  IN FoldLeft(Add, <<>>, [k \in 1..(Len(cells) - from + 1) |-> from + k - 1])

-------------------------------------------------------------------------------
(* The operations.                                                           *)

\* Terminal::reset.
reset(t, sendClear, newLine) ==
  [Write(t, IF sendClear /\ ~t.plain THEN <<[op |-> "SGR", color |-> NoColor], Op("HOME"), Op("ED")>>
            ELSE <<>>)
     EXCEPT !.line = newLine, !.column = 0, !.data = <<>>, !.hidden = FALSE, !.color = NoColor]

hideTerminalCursor(t) ==
  IF t.plain \/ t.hidden THEN t ELSE [Write(t, <<Op("HIDE")>>) EXCEPT !.hidden = TRUE]

AtLineStart(t) == [t EXCEPT !.valid = TRUE, !.data = <<>>, !.column = 0]

moveTerminalToLine(t, line) ==
  LET moves == IF line > t.line THEN CrLfs(line - t.line)
               ELSE IF t.plain THEN CrLfs(1)
               ELSE <<Op("CR"), [op |-> "CUU", n |-> t.line - line]>>
  IN IF line = t.line THEN t
     ELSE AtLineStart([Write(hideTerminalCursor(t), moves) EXCEPT !.line = line])

\* What has been sent of the line is still right, and there is room to erase the rest.
CanAppend(t, cells) ==
  /\ t.valid
  /\ t.column > 0 => /\ Len(cells) >= Len(t.data) + IF t.plain THEN 0 ELSE 1
                     /\ SubSeq(cells, 1, Len(t.data)) = t.data

\* Mutant of Rewind: a terminal without escape sequences goes back, too.
RewindInPlace(t, cells) ==
  IF CanAppend(t, cells) THEN t ELSE AtLineStart(Write(hideTerminalCursor(t), <<Op("CR")>>))

\* The cursor must be at the end of what has been sent of the line.
Rewind(t, cells) ==
  IF CanAppend(t, cells) THEN t
  ELSE AtLineStart(Write(hideTerminalCursor(t), IF t.plain THEN CrLfs(1) ELSE <<Op("CR")>>))

\* One character is added to what is written: spaces only if something comes behind them.
\* The line is erased before its last cell, where erasing would erase that cell.
Draw(t, cells, acc, g) ==
  LET color == cells[g.at].color
      a == IF t.outputColor /\ color # acc.color
           THEN [acc EXCEPT !.ops = Append(@, [op |-> "SGR", color |-> color]),
                            !.kept = Len(acc.ops) + 1, !.cells = g.at - 1, !.color = color]
           ELSE acc
      last == g.at - 1 + g.n = Len(cells)
      ops == a.ops \o (IF last /\ ~t.plain THEN <<Op("EL")>> ELSE <<>>)
                   \o <<Put(fixSpecialCharacters(g.ch), CellsOf(cells, g.at) = 2)>>
  IN IF g.ch = 32 THEN [a EXCEPT !.ops = Append(@, Put(32, FALSE))]
     ELSE [a EXCEPT !.ops = ops, !.kept = Len(ops), !.cells = g.at - 1 + g.n, !.erased = @ \/ last]

Drawn(t, cells) ==
  LET Step(acc, g) == Draw(t, cells, acc, g)
  IN FoldLeft(Step, [ops |-> <<>>, kept |-> 0, cells |-> Len(t.data), color |-> t.color, erased |-> FALSE],
              Characters(cells, Len(t.data) + 1))

\* Mutant of WriteLine: the cursor is believed to be behind the line.
WriteLineOffByOne(t, cells, cursorColumn, drawn) ==
  LET h == IF cursorColumn # -1 /\ drawn.cells > cursorColumn THEN hideTerminalCursor(t) ELSE t
  IN [Write(h, SubSeq(drawn.ops, 1, drawn.kept) \o
               (IF drawn.erased \/ t.plain THEN <<>> ELSE <<Op("EL")>>))
        EXCEPT !.data = SubSeq(cells, 1, drawn.cells), !.column = drawn.cells + 1, !.color = drawn.color]

\* Writes a line; the cursor is hidden if it is drawn over.
WriteLine(t, cells, cursorColumn, drawn) ==
  LET h == IF cursorColumn # -1 /\ drawn.cells > cursorColumn THEN hideTerminalCursor(t) ELSE t
  IN [Write(h, SubSeq(drawn.ops, 1, drawn.kept) \o
               (IF drawn.erased \/ t.plain THEN <<>> ELSE <<Op("EL")>>))
        EXCEPT !.data = SubSeq(cells, 1, drawn.cells), !.column = drawn.cells, !.color = drawn.color]

sendLine(t, line, cells, cursorColumn) ==
  LET s == Rewind(moveTerminalToLine(t, line), cells)
  IN WriteLine(s, cells, cursorColumn, Drawn(s, cells))

\* Mutant of showTerminalCursor: the cells sent are believed to end at the cursor.
showKeepData(t, column, line) ==
  LET m == moveTerminalToLine(t, line)
      c == IF m.column = column THEN m
           ELSE [Write(m, <<[op |-> "CHA", column |-> column]>>) EXCEPT !.column = column]
  IN IF t.plain THEN m
     ELSE IF c.hidden THEN [Write(c, <<Op("SHOW")>>) EXCEPT !.hidden = FALSE] ELSE c

\* Mutant of showTerminalCursor: the cursor is still believed to be hidden.
showStaysHidden(t, column, line) ==
  LET m == moveTerminalToLine(t, line)
      c == IF m.column = column THEN m
           ELSE [Write(m, <<[op |-> "CHA", column |-> column]>>)
                   EXCEPT !.valid = (column = 0), !.data = <<>>, !.column = column]
  IN IF t.plain THEN m ELSE IF c.hidden THEN Write(c, <<Op("SHOW")>>) ELSE c

showTerminalCursor(t, column, line) ==
  LET m == moveTerminalToLine(t, line)
      c == IF m.column = column THEN m
           ELSE [Write(m, <<[op |-> "CHA", column |-> column]>>)
                   EXCEPT !.valid = (column = 0), !.data = <<>>, !.column = column]
  IN IF t.plain THEN m
     ELSE IF c.hidden THEN [Write(c, <<Op("SHOW")>>) EXCEPT !.hidden = FALSE] ELSE c

-------------------------------------------------------------------------------
\* Whatever is in the cells of a line, also halves of wide characters and of surrogate pairs,
\* its characters take each cell once and in order, none of them is an escape character or a
\* lone surrogate, a pair is a character outside the Basic Multilingual Plane, and what is no
\* surrogate is not lost.
SomeCells == [ch : {32, 97, 27, 1, 55360, 56320}, half : {"none", "lead", "trail"}]

ScanSafe ==
  \A n \in 1..3 : \A cells \in [1..n -> SomeCells] :
    LET cs == Characters(cells, 1)
    IN /\ cs[1].at = 1 /\ Last(cs).at + Last(cs).n = n + 1
       /\ \A k \in 1..(Len(cs) - 1) : cs[k + 1].at = cs[k].at + cs[k].n
       /\ \A k \in 1..Len(cs) :
            LET ch == fixSpecialCharacters(cs[k].ch)
            IN ch # 27 /\ ch \notin 55296..57343 /\ (ch > 65535 => ch \in 65536..1114111)
       /\ \A i \in 1..n :
            \/ cells[i].ch \in 55296..57343
            \/ \E k \in 1..Len(cs) : i \in cs[k].at..(cs[k].at + cs[k].n - 1) /\ cs[k].ch = cells[i].ch
===============================================================================
