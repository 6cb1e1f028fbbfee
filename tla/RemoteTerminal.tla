---------------------------- MODULE RemoteTerminal ----------------------------
(* The user's terminal, as far as agent/Terminal.cc relies on it: rows of cells *)
(* of which the first `width` are visible, a cursor that waits behind the last  *)
(* column before it wraps, and a current colour that erasing uses.  As some     *)
(* terminals do it keeps what a narrower window hides, also when the line is    *)
(* erased.  Columns count from 0, rows from 1.                                  *)
EXTENDS Terminal

CONSTANTS MaxWidth, Height, OwnColor

RemoteBlank(color) == [ch |-> 32, part |-> "one", color |-> color]
BlankRow(color) == [i \in 1..MaxWidth |-> RemoteBlank(color)]

NewRemote(width, row) ==
  [rows |-> [k \in 1..Height |-> BlankRow(OwnColor)], row |-> row, col |-> 0, color |-> OwnColor,
   visible |-> TRUE, width |-> width, scrolled |-> 0]

LineFeed(r) ==
  IF r.row < Height THEN [r EXCEPT !.row = @ + 1]
  ELSE [r EXCEPT !.rows = [k \in 1..Height |-> IF k < Height THEN r.rows[k + 1] ELSE BlankRow(r.color)],
                 !.scrolled = @ + 1]

PutChar(r, ch, wide) ==
  LET n == IF wide THEN 2 ELSE 1
      s == IF r.col + n > r.width THEN LineFeed([r EXCEPT !.col = 0]) ELSE r
      cell(part) == [ch |-> ch, part |-> part, color |-> r.color]
      row == [i \in 1..MaxWidth |->
                IF i = s.col + 1 THEN cell(IF wide THEN "left" ELSE "one")
                ELSE IF wide /\ i = s.col + 2 THEN cell("right") ELSE s.rows[s.row][i]]
  IN [s EXCEPT !.rows[s.row] = row, !.col = @ + n]

EraseToEol(r) ==
  LET from == IF r.col < r.width THEN r.col + 1 ELSE r.width
  IN [r EXCEPT !.rows[r.row] = [i \in 1..MaxWidth |-> IF i \in from..r.width THEN RemoteBlank(r.color) ELSE @[i]]]

Perform(r, o) ==
  CASE o.op = "put" -> PutChar(r, o.ch, o.wide)
    [] o.op = "CR" -> [r EXCEPT !.col = 0]
    [] o.op = "CRLF" -> LineFeed([r EXCEPT !.col = 0])
    [] o.op = "CUU" -> [r EXCEPT !.row = IF @ > o.n THEN @ - o.n ELSE 1]
    [] o.op = "CHA" -> [r EXCEPT !.col = IF o.column < r.width THEN o.column ELSE r.width - 1]
    [] o.op = "EL" -> EraseToEol(r)
    [] o.op = "ED" -> [r EXCEPT !.rows = [k \in 1..Height |-> BlankRow(r.color)]]
    [] o.op = "HOME" -> [r EXCEPT !.row = 1, !.col = 0]
    [] o.op = "SGR" -> [r EXCEPT !.color = IF o.color = NoColor THEN OwnColor ELSE o.color]
    [] o.op = "SHOW" -> [r EXCEPT !.visible = TRUE]
    [] o.op = "HIDE" -> [r EXCEPT !.visible = FALSE]

PerformAll(r, ops) == FoldLeft(Perform, r, ops)

Widened(r, width) == [r EXCEPT !.width = width, !.col = IF @ < width THEN @ ELSE IF r.width < width THEN @ ELSE width - 1]
===============================================================================
