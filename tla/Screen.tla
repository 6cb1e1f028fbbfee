-------------------------------- MODULE Screen --------------------------------
(***************************************************************************)
(* What the user sees: a console whose programs write, hide and show the   *)
(* cursor, clear, and change between the scrolling and the direct mode;    *)
(* Scraper::directScrapeOutput and scrollingScrapeOutput (agent/Scraper.cc) *)
(* at the level of cells; and the terminal that performs what they send.   *)
(* A scrape is one step here: the console is frozen.  Module Scraper has   *)
(* its steps and the console's buffer running over, which it does not do   *)
(* here; module ConsoleResize has the geometry.                            *)
(***************************************************************************)
EXTENDS RemoteTerminal

CONSTANTS
  Widths,      \* the widths the terminal may have
  MaxTop,      \* how far the window may move down in the buffer
  Glyphs,      \* what programs write: [ch, wide, color]
  Modes,       \* [plain, outputColor]
  MaxWrites, MaxResizes   \* bounds

\* A wide character is not the space, and no character is half of a surrogate pair: how many
\* cells such a pair takes is up to the terminal.
GlyphAssumption ==
  \A glyph \in Glyphs :
    /\ glyph.ch \in Nat /\ glyph.wide \in BOOLEAN /\ glyph.color \in Nat
    /\ ~HighSurrogate(glyph.ch) /\ ~LowSurrogate(glyph.ch)
    /\ glyph.wide => glyph.ch # 32

ASSUME ScreenAssumption ==
  /\ Height \in Nat \ {0} /\ MaxWidth \in Nat \ {0} /\ Widths \subseteq 1..MaxWidth
  /\ MaxTop \in Nat /\ OwnColor \in Nat
  /\ Modes \subseteq [plain : BOOLEAN, outputColor : BOOLEAN]
  /\ GlyphAssumption

VARIABLES
  con,      \* the console: its rows, the window's top, the cursor, direct mode or not
  sc,       \* the scraper: direct mode, ConsoleLines, line counts; its Terminal t
  remote,   \* the user's terminal
  pc,       \* "drawn" after a scrape
  writes, resizes,        \* history
  lostHide, lostColumn    \* Terminal has forgotten a hidden cursor; a resize has moved the cursor

vars == <<con, sc, remote, pc, writes, resizes, lostHide, lostColumn>>

Rows == 0..(Height - 1 + MaxTop)
Width == Len(con.rows[0])
Max2(a, b) == IF a >= b THEN a ELSE b
Min2(a, b) == IF a <= b THEN a ELSE b
BlankCells(n) == [i \in 1..n |-> BlankCell(OwnColor)]

-------------------------------------------------------------------------------
(* Programs.                                                                 *)

\* A wide character of which one half is written over loses the other.
Halved(row, i) ==
  [k \in DOMAIN row |->
     IF (k = i - 1 /\ row[k].half = "lead") \/ (k = i + 1 /\ row[k].half = "trail")
     THEN BlankCell(row[k].color) ELSE row[k]]

Written(row, i, glyph) ==
  LET cell(half) == [ch |-> glyph.ch, half |-> half, color |-> glyph.color]
  IN IF glyph.wide
     THEN [Halved(Halved(row, i), i + 1) EXCEPT ![i] = cell("lead"), ![i + 1] = cell("trail")]
     ELSE [Halved(row, i) EXCEPT ![i] = cell("none")]

Program ==
  /\ writes < MaxWrites /\ writes' = writes + 1 /\ pc' = "changed"
  /\ \/ \E glyph \in Glyphs, col \in 1..Width, row \in con.top..(con.top + Height - 1) :
          LET n == IF glyph.wide THEN 2 ELSE 1
          IN /\ col + n - 1 <= Width
             /\ \/ con' = [con EXCEPT !.rows[row] = Written(@, col, glyph)]
                \/ con' = [con EXCEPT !.rows[row] = Written(@, col, glyph),
                                      !.cur = [row |-> row, col |-> Min2(col + n - 1, Width - 1)]]
     \/ /\ con.cur.row + 1 \in Rows /\ (con.direct => con.cur.row + 1 < Height)
        /\ con' = [con EXCEPT !.cur = [row |-> con.cur.row + 1, col |-> 0],
                              !.top = Max2(@, con.cur.row + 2 - Height)]
     \/ con' = [con EXCEPT !.visible = ~@]
     \/ \E direct \in BOOLEAN :
          con' = [con EXCEPT !.rows = [r \in Rows |-> BlankCells(Width)], !.top = 0,
                             !.cur = [row |-> 0, col |-> 0], !.direct = direct]
  /\ con' # con
  /\ UNCHANGED <<sc, remote, resizes, lostHide, lostColumn>>

-------------------------------------------------------------------------------
(* The scraper.                                                              *)

\* Scraper::resetConsoleTracking.
ResetConsoleTracking(s, sendClear, scraped) ==
  [s EXCEPT !.lines = [r \in Rows |-> FreshLine], !.scraped = scraped, !.maxBuffered = -1,
            !.dirtyTop = -1, !.dirtyLines = 0, !.t = reset(s.t, sendClear, scraped)]

\* ConsoleLine::detectChangeAndSetLine.
Detected(s, line, cells) == ~LinesEqual(s.lines[line], cells)

SendRow(s, line, cells, cursorColumn, changed) ==
  [s EXCEPT !.lines[line] = SetLine(@, cells),
            !.t = IF changed THEN sendLine(@, line, cells, cursorColumn) ELSE @]

CursorOn(c, line, shown) == IF shown /\ c.cur.row = line THEN c.cur.col ELSE -1

HideUnless(s, shown) == IF shown THEN s ELSE [s EXCEPT !.t = hideTerminalCursor(@)]
ShowIf(s, c, shown) == IF shown THEN [s EXCEPT !.t = showTerminalCursor(@, c.cur.col, c.cur.row)] ELSE s

\* directScrapeOutput, of no more columns than both the window it knows and the terminal have.
DirectScrape(s, c, width) ==
  LET shown == c.visible /\ c.cur.row \in c.top..(c.top + Height - 1) /\ c.cur.col < width
      Step(a, line) == LET cells == SubSeq(c.rows[c.top + line], 1, width)
                       IN SendRow(a, line, cells, CursorOn(c, line, shown), Detected(a, line, cells))
  IN ShowIf(FoldLeft(Step, HideUnless(s, shown), [i \in 1..Height |-> i - 1]), c, shown)

\* scanForDirtyLines: the lines of the window that are not all blank in the colour the one
\* before ends in.
ScanForDirtyLines(c, dirty) ==
  LET Step(acc, line) ==
        IF IsLineBlank(c.rows[line], Last(c.rows[line - 1]).color)
        THEN acc ELSE line + 1
      below == [i \in 1..(c.top + Height - dirty) |-> dirty + i - 1]
  IN FoldLeft(Step, dirty, below)

\* scrollingScrapeOutput: from the first line that has changed on all lines are sent.
ScrollingScrape(s0, c) ==
  LET moved == s0.dirtyTop # -1
      s == IF moved /\ c.top < s0.dirtyTop THEN ResetConsoleTracking(s0, TRUE, c.top)
           ELSE IF moved /\ c.top > s0.dirtyTop
           THEN [s0 EXCEPT !.dirtyLines = Max2(@, c.top + Height)] ELSE s0
      dirty == ScanForDirtyLines(c, Max2(Max2(s.dirtyLines, c.cur.row + 1), c.top))
      first == Min2(s.scraped, c.top)
      stop == Min2(dirty, c.top + Height)
      shown == c.visible /\ c.cur.row \in c.top..(c.top + Height - 1)
      Step(acc, line) ==
        LET saw == acc.saw \/ line > acc.s.maxBuffered \/ Detected(acc.s, line, c.rows[line])
        IN [saw |-> saw,
            s |-> [SendRow(acc.s, line, c.rows[line], CursorOn(c, line, shown), saw)
                     EXCEPT !.maxBuffered = Max2(@, line)]]
      sent == FoldLeft(Step, [saw |-> FALSE, s |-> HideUnless(s, shown)],
                       [i \in 1..(stop - first) |-> first + i - 1]).s
  IN ShowIf([sent EXCEPT !.dirtyTop = c.top, !.dirtyLines = dirty, !.scraped = c.top], c, shown)

\* syncConsoleContentAndSize up to the scrape: a change of mode starts anew.
ModeSynced(s, c) ==
  IF s.direct = c.direct THEN s
  ELSE [ResetConsoleTracking(s, TRUE, IF c.direct THEN 0 ELSE c.top) EXCEPT !.direct = c.direct]

Scraped(s, c, width) ==
  LET m == ModeSynced(s, c) IN IF m.direct THEN DirectScrape(m, c, width) ELSE ScrollingScrape(m, c)

\* What the scraper wrote goes to the terminal.
Deliver(s) ==
  /\ remote' = PerformAll(remote, s.t.out)
  /\ sc' = [s EXCEPT !.t.out = <<>>]
  /\ lostHide' = IF \E i \in DOMAIN s.t.out : s.t.out[i].op \in {"HIDE", "SHOW"} THEN FALSE
                 ELSE lostHide \/ (~remote.visible /\ ~s.t.hidden)

Scrape ==
  /\ pc = "changed" /\ pc' = "drawn"
  /\ \E s \in {Scraped(sc, con, Width)} : Deliver(s)
  /\ UNCHANGED <<con, writes, resizes, lostColumn>>

-------------------------------------------------------------------------------
(* The terminal gets another width while programs are quiet.                 *)

CutRow(row, width) ==
  [i \in 1..width |->
     IF i > Len(row) \/ (i = width /\ i < Len(row) /\ row[i].half = "lead") THEN BlankCell(OwnColor)
     ELSE row[i]]

\* resizeImpl: the lines above the window are cleared, and the buffer gets its new width.
ResizedConsole(width) ==
  [con EXCEPT !.rows = [r \in Rows |-> IF ~con.direct /\ r < con.top THEN BlankCells(width)
                                       ELSE CutRow(con.rows[r], width)],
              !.cur.col = Min2(@, width - 1)]

ResizedLines(s) ==
  [s EXCEPT !.lines = [r \in Rows |-> IF s.direct THEN FreshLine
                                      ELSE IF r < con.top THEN BlankedLine(OwnColor) ELSE s.lines[r]],
            !.maxBuffered = IF s.direct THEN @ ELSE Max2(@, con.top - 1)]

\* Direct mode scrapes behind the resize, by what it knew of the window before;
\* scrolling mode before it.
Resize(width) ==
  /\ pc = "drawn" /\ width # remote.width /\ resizes < MaxResizes
  /\ resizes' = resizes + 1 /\ pc' = "changed"
  /\ con' = ResizedConsole(width)
  /\ LET wider == Widened(remote, width)
         s == IF sc.direct
              THEN DirectScrape(ResizedLines(sc), [con EXCEPT !.rows = [r \in Rows |-> CutRow(con.rows[r], width)]],
                                Min2(Width, width))
              ELSE ResizedLines(ScrollingScrape(sc, con))
     IN /\ remote' = PerformAll(wider, s.t.out)
        /\ sc' = [s EXCEPT !.t.out = <<>>]
  /\ lostColumn' = (lostColumn \/ (width > remote.width /\ sc.t.column # remote.col))
  /\ UNCHANGED <<writes, lostHide>>

-------------------------------------------------------------------------------
Init ==
  /\ \E width \in Widths, mode \in Modes :
       /\ con = [rows |-> [r \in Rows |-> BlankCells(width)], top |-> 0,
                 cur |-> [row |-> 0, col |-> 0], visible |-> TRUE, direct |-> FALSE]
       /\ sc = [direct |-> FALSE, lines |-> [r \in Rows |-> FreshLine], scraped |-> 0, maxBuffered |-> -1,
                dirtyTop |-> -1, dirtyLines |-> 0, t |-> NewTerminal(mode.plain, mode.outputColor)]
       /\ remote = NewRemote(width, Height)
  /\ pc = "changed" /\ writes = 0 /\ resizes = 0 /\ lostHide = FALSE /\ lostColumn = FALSE

Next == Program \/ Scrape \/ \E width \in Widths : Resize(width)

Spec == Init /\ [][Next]_vars

-------------------------------------------------------------------------------
TypeOK ==
  /\ con.top \in 0..MaxTop /\ con.cur.row \in Rows /\ con.cur.col \in 0..(Width - 1)
  /\ \A r \in Rows : Len(con.rows[r]) = Width
  /\ sc.t.out = <<>> /\ sc.t.column \in 0..MaxWidth
  /\ remote.row \in 1..Height /\ remote.col \in 0..remote.width

Term == sc.t
Tracked(line) == con.direct \/ line < sc.dirtyLines
\* Direct mode numbers its lines from the top of the window.
LineOf(row) == IF con.direct THEN row - con.top ELSE row
RowOf(row) == remote.row + LineOf(row) - Term.line
Window == con.top..(con.top + Height - 1)

\* The colour of blank cells is not looked at once the terminal has been resized: the cells
\* that a wider window adds to a line count as sent if they are blank in the line's last colour.
SameCell(shown, cell) ==
  /\ shown.ch = fixSpecialCharacters(cell.ch)
  /\ shown.part = CASE cell.half = "lead" -> "left" [] cell.half = "trail" -> "right" [] OTHER -> "one"
  /\ Term.outputColor /\ (cell.ch = 32 => resizes = 0) => shown.color = cell.color

\* After a scrape the terminal shows, at one place for the whole window, the text and the
\* colours of the console; lines that were never dirty are blank in both.  It does not hold
\* after a window that is made narrower and wider again has moved the terminal's cursor, of
\* which the agent, that has it behind what it sent, learns nothing.
ShowsConsole ==
  pc = "drawn" /\ ~Term.plain /\ ~lostColumn =>
    \A row \in Window :
      IF Tracked(row)
      THEN /\ RowOf(row) \in 1..Height
           /\ \A i \in 1..Width : SameCell(remote.rows[RowOf(row)][i], con.rows[row][i])
      ELSE \A i \in 1..Width :
             /\ con.rows[row][i].ch = 32
             /\ RowOf(row) \in 1..Height => remote.rows[RowOf(row)][i].ch = 32

CursorInWindow == con.visible /\ con.cur.row \in Window

\* After a scrape the terminal's cursor is where the console's is, and it is to be seen if and
\* only if the console's is, unless Terminal.reset forgot that it was hidden.
CursorShown ==
  pc = "drawn" /\ ~Term.plain /\ ~lostColumn =>
    IF CursorInWindow
    THEN remote.row = RowOf(con.cur.row) /\ remote.col = con.cur.col /\ (remote.visible \/ lostHide)
    ELSE ~remote.visible

\* What the agent believes of the terminal when it does not look at it is true: the cells it
\* would append to are there, the cursor behind them, and the colour is the one it set.
BeliefTrue ==
  /\ Term.valid => Len(Term.data) = Term.column
  /\ ~Term.plain /\ ~lostColumn =>
       /\ Term.column < remote.width => remote.col = Term.column
       /\ Term.color # NoColor => remote.color = Term.color
       /\ Term.hidden => ~remote.visible
       /\ Term.valid => \A i \in DOMAIN Term.data : SameCell(remote.rows[remote.row][i], Term.data[i])

\* Terminal's copy of the terminal's state agrees with the terminal, the cursor's included.
TerminalKnown == TypeOK /\ BeliefTrue /\ CursorShown

\* What the agent brings to the terminal: the console's cells and cursor after every scrape,
\* and at any time a terminal that is as Terminal has it.
ScreenRight == ShowsConsole /\ TerminalKnown

\* A terminal without escape sequences gets none, and what it has got stays as it is.
PlainAppends ==
  [][Term.plain =>
       LET up == remote'.scrolled - remote.scrolled
       IN \A k \in (1 + up)..remote.row, i \in 1..MaxWidth :
            k < remote.row \/ i <= remote.col
              => remote'.rows[k - up][i] = remote.rows[k][i]]_vars
===============================================================================
