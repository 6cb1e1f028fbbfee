---------------------------- MODULE ScreenInvariant ---------------------------
(***************************************************************************)
(* The inductive invariants of module Screen, part by part: what the       *)
(* console, Terminal, the scraper and the terminal are at any time, and    *)
(* how what is sent, remembered, believed and shown agree.                 *)
(***************************************************************************)
EXTENDS Screen

\* A place of the terminal.
Places == [ch : Nat, part : {"one", "left", "right"}, color : Nat]

\* The terminal, of so many columns; it has rows of MaxWidth.
RemoteType(width) ==
  [rows : [1..Height -> [1..MaxWidth -> Places]], row : 1..Height, col : 0..width, color : Nat,
   visible : BOOLEAN, width : {width}, scrolled : Nat]

\* What may be written to a terminal of so many columns.
Ops(width) ==
  [op : {"put"}, ch : Nat, wide : {wide \in BOOLEAN : wide => width >= 2}]
  \union [op : {"CR", "CRLF", "EL", "ED", "HOME", "SHOW", "HIDE"}]
  \union [op : {"CUU"}, n : Nat] \union [op : {"CHA"}, column : Nat]
  \union [op : {"SGR"}, color : Nat \union {NoColor}]

\* A cell of the console: no half of a surrogate pair, and no half of a space.
IsCell(cell) ==
  /\ cell \in [ch : Nat, half : {"none", "lead", "trail"}, color : Nat]
  /\ ~HighSurrogate(cell.ch) /\ ~LowSurrogate(cell.ch)
  /\ cell.half # "none" => cell.ch # 32

Cell == {cell \in [ch : Nat, half : {"none", "lead", "trail"}, color : Nat] : IsCell(cell)}

\* Both halves of a wide character are there, side by side.
Paired(cells) ==
  \A i \in 1..Len(cells) :
    /\ cells[i].half = "lead" =>
         i + 1 \in 1..Len(cells) /\ cells[i + 1].half = "trail"
         /\ cells[i + 1].ch = cells[i].ch /\ cells[i + 1].color = cells[i].color
    /\ cells[i].half = "trail" =>
         i - 1 \in 1..Len(cells) /\ cells[i - 1].half = "lead"
         /\ cells[i - 1].ch = cells[i].ch /\ cells[i - 1].color = cells[i].color

PartOf(cell) == CASE cell.half = "lead" -> "left" [] cell.half = "trail" -> "right" [] OTHER -> "one"

\* A place of the terminal shows a cell; colours are told at all or not, those of blanks until
\* the terminal has been resized.
Shows(place, cell, colors, resized) ==
  /\ place.ch = fixSpecialCharacters(cell.ch) /\ place.part = PartOf(cell)
  /\ colors /\ (cell.ch = 32 => resized = 0) => place.color = cell.color

\* Nothing has been written there.
Empty(place) == place.ch = 32 /\ place.part = "one"

\* Terminal, that writes to one of so many columns,
TermType(width) ==
  [line : Nat, column : 0..MaxWidth, data : Seq(Cell), valid : BOOLEAN, hidden : BOOLEAN,
   color : Nat \union {NoColor}, plain : BOOLEAN, outputColor : BOOLEAN, out : Seq(Ops(width))]

\* What a terminal without escape sequences understands.
Appending(ops) == \A i \in 1..Len(ops) : ops[i].op \in {"put", "SGR", "CRLF"}

\* and what its fields say of one another.
TermOK(t) ==
  /\ Paired(t.data)
  /\ t.valid => Len(t.data) = t.column
  /\ ~t.valid => t.data = <<>>
  /\ t.plain => t.valid /\ ~t.hidden /\ Appending(t.out)

\* What the agent believes of it is true.
Known(t, r, resized) ==
  /\ t.column < r.width => r.col = t.column
  /\ t.color # NoColor => r.color = t.color
  /\ t.hidden => ~r.visible
  /\ \A i \in 1..Len(t.data) : Shows(r.rows[r.row][i], t.data[i], t.outputColor, resized)

\* The scraper, and the lines it remembers.
LineType == [length : Nat, data : Seq(Cell)]
LineRecords == {rec \in LineType : rec.length <= Len(rec.data) /\ Len(rec.data) <= MaxWidth}
Terms(width) == {t \in TermType(width) : TermOK(t)}
Scrapers(width) ==
  [direct : BOOLEAN, lines : [Rows -> LineRecords], scraped : 0..MaxTop, maxBuffered : Int, dirtyTop : Int,
   dirtyLines : Int, t : Terms(width)]

\* A row of the terminal shows what has been sent of a line, and is empty behind it.
RowShows(row, data, n, colors, resized) ==
  \A i \in 1..n : IF i <= Len(data) THEN Shows(row[i], data[i], colors, resized) ELSE Empty(row[i])

\* What is remembered of a line begins with what it is in the console.
Remembers(rec, cells) == rec.length = Len(cells) /\ \A i \in 1..Len(cells) : rec.data[i] = cells[i]

\* The rest of a line that is shown need not be sent: it is as it is believed to be.
Ready(rec, row, n, colors, resized, w) ==
  RowShows(row, rec.data, n, colors, resized) /\ (resized = 0 => rec.length >= w)

\* Direct mode: line j is on row j + 1, unless it must be sent anyway.
DirectShows(x, r, n, resized, w) ==
  /\ r.row = x.t.line + 1 /\ x.t.line < Height
  /\ \A j \in 0..(Height - 1) :
       x.lines[j].length = 0 \/ Ready(x.lines[j], r.rows[j + 1], n, x.t.outputColor, resized, w)

\* Scrolling mode: a line that the terminal still has is shown in its row,
LineThere(x, r, l, resized, w) ==
  /\ resized = 0 => x.lines[l].length >= w
  /\ l + (r.row - x.t.line) \in 1..Height =>
       RowShows(r.rows[l + (r.row - x.t.line)], x.lines[l].data, MaxWidth, x.t.outputColor, resized)

\* the lines from lo on are, and below the last that was sent there is nothing.
ScrollShows(x, r, lo, resized, w) ==
  /\ x.maxBuffered + (r.row - x.t.line) <= Height
  /\ \A l \in Rows : IF l > x.maxBuffered THEN x.lines[l] = FreshLine
                     ELSE l >= lo => LineThere(x, r, l, resized, w)
  /\ \A k \in 1..Height : k > x.maxBuffered + (r.row - x.t.line) => \A i \in 1..MaxWidth : Empty(r.rows[k][i])

\* A line that scanForDirtyLines passes over.
BlankBelow(c, line) == IsLineBlank(c.rows[line], Last(c.rows[line - 1]).color)

\* The console: rows of one width, the cursor in the window.
HasRows(c, width) ==
  \A line \in Rows : c.rows[line] \in Seq(Cell) /\ Paired(c.rows[line]) /\ Len(c.rows[line]) = width

Consoles ==
  [rows : [Rows -> Seq(Cell)], top : 0..MaxTop, cur : [row : Nat, col : Nat], visible : BOOLEAN, direct : BOOLEAN]

ConsoleOK(c, width) ==
  /\ c \in Consoles /\ width \in Widths /\ HasRows(c, width)
  /\ c.cur.row \in c.top..(c.top + Height - 1) /\ c.cur.col < width
  /\ c.direct => c.top = 0

\* What the counts of lines say of one another.
Counted(s) ==
  /\ s.dirtyLines \in Nat /\ s.maxBuffered = s.dirtyLines - 1 /\ s.dirtyLines <= s.scraped + Height
  /\ s.dirtyTop \in {-1, s.scraped} /\ (s.dirtyTop = -1 <=> s.dirtyLines = 0)
  /\ s.dirtyTop # -1 => s.scraped < s.dirtyLines
  /\ s.dirtyTop = -1 => s.scraped = 0
  /\ s.direct => s.dirtyTop = -1

\* The terminal shows what is remembered of the lines.
LinesShown(s, r, width, resized) ==
  IF s.direct THEN DirectShows(s, r, width, resized, width)
  ELSE ScrollShows(s, r, s.scraped, resized, width) /\ s.scraped + (r.row - s.t.line) >= 1

\* The cursor is shown, or hidden, as it is in the console.
ShownAlready(s, c) ==
  IF c.visible THEN s.t.line = c.cur.row /\ (~s.t.plain => s.t.column = c.cur.col /\ ~s.t.hidden)
  ELSE s.t.plain \/ s.t.hidden

\* The console has not changed since the last scrape.
UpToDate(s, c) ==
  /\ s.direct = c.direct
  /\ ~s.direct => /\ s.dirtyTop = c.top /\ c.cur.row < s.dirtyLines
                  /\ \A l \in s.dirtyLines..(c.top + Height - 1) : BlankBelow(c, l)
  /\ \A l \in c.top..(c.top + Height - 1) : s.direct \/ l < s.dirtyLines => Remembers(s.lines[l], c.rows[l])
  /\ ShownAlready(s, c)

\* The inductive invariant.
IInv ==
  /\ ConsoleOK(con, Width) /\ sc \in Scrapers(Width) /\ sc.t.out = <<>> /\ Counted(sc)
  /\ remote \in RemoteType(Width)
  /\ pc \in {"changed", "drawn"} /\ resizes \in Nat /\ lostHide \in BOOLEAN /\ lostColumn \in BOOLEAN
  /\ pc = "drawn" => UpToDate(sc, con)
  /\ ~sc.t.plain /\ ~lostColumn =>
       /\ Known(sc.t, remote, resizes) /\ (~sc.t.hidden => remote.visible \/ lostHide)
       /\ LinesShown(sc, remote, Width, resizes)

\* What of a line is not on the terminal is blank, in one colour.
Finished(t, data, n) ==
  /\ Len(t.data) <= n /\ \A i \in 1..Len(t.data) : t.data[i] = data[i]
  /\ \A i \in (Len(t.data) + 1)..n : data[i].ch = 32 /\ (t.outputColor => data[i].color = data[n].color)

\* The line that the cursor is in is on the terminal but for blanks, or the cursor is at the start of a row.
Ended(x, r) ==
  /\ x.t.line < Height
  /\ r.col = 0 \/ Finished(x.t, x.lines[x.t.line].data, x.lines[x.t.line].length)

\* In direct mode a terminal without escape sequences has the cursor's line but for blanks.
PlainInv ==
  sc.t.plain /\ sc.direct =>
    Ended(sc, remote) /\ \A j \in 0..(Height - 1) : sc.lines[j].length <= Width
===============================================================================
