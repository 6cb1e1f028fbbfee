-------------------------------- MODULE Scraper -------------------------------
(***************************************************************************)
(* The scraper (agent/Scraper.cc) in scrolling mode: how it keeps track of *)
(* a console buffer that scrolls while programs write to it, by a marker   *)
(* it leaves above the window, and what it tells the terminal.             *)
(*                                                                         *)
(* A line of the console is 0 when blank, a positive number for a text and *)
(* -c for a line of the marker with m_syncCounter c.  Columns, widths and  *)
(* the resizing of window or buffer (and so the direct mode) are left out. *)
(* On Windows before 10 the console is frozen for the whole of a scrape;   *)
(* since then the scraper tries without.                                   *)
(***************************************************************************)
EXTENDS Integers

CONSTANTS
  BUFFER_LINE_COUNT, SYNC_MARKER_LEN, SYNC_MARKER_MARGIN,
  Rows,         \* the window's height
  MaxPrinted,   \* bound: lines the programs print
  MaxClears,    \* bound: how often a program clears the console
  MaxRewrites   \* bound: lines rewritten in the window

ASSUME ScraperAssumption ==
  /\ SYNC_MARKER_LEN \in Nat \ {0} /\ SYNC_MARKER_MARGIN \in Nat \ {0}
  /\ Rows \in Nat \ {0} /\ BUFFER_LINE_COUNT \in Nat
  /\ Rows + 2 * (SYNC_MARKER_LEN + SYNC_MARKER_MARGIN) <= BUFFER_LINE_COUNT
  /\ MaxPrinted \in Nat /\ MaxClears \in Nat /\ MaxRewrites \in Nat

BufferRows == 0..(BUFFER_LINE_COUNT - 1)
Lines == 0..(MaxPrinted + MaxClears * Rows + BUFFER_LINE_COUNT)   \* every line there may be
NoMarker == -1

VARIABLES
  isNewW10,            \* Win32Console::isNewW10
  lines, top, cursor,  \* the console: its rows, the window's top, the cursor
  frozen,              \* the console is in selection mode: programs wait
  printed, rewrites, clears,
  fell,                \* how many lines have scrolled out of the buffer
  written,             \* what was written to every line there was
  lost,                \* the tracked lines are gone from the buffer
  torn,                \* a clear has come in the middle of a scrape
  pc,                  \* where scrapeBuffer is
  info,                \* the window's top and the cursor it has read
  job,                 \* what scrollingScrapeOutput has computed
  readBuffer,          \* m_readBuffer
  syncRow, syncCounter, scrapedLineCount, scrolledCount, maxBufferedLine,
  bufferData, dirtyWindowTop, dirtyLineCount,
  shown,               \* the terminal's lines
  origin, base         \* m_scrapedLineCount and fell at the last reset

consoleVars == <<lines, top, cursor, printed, rewrites, clears, fell, written, torn,
                 isNewW10>>
trackVars == <<syncRow, syncCounter, scrapedLineCount, scrolledCount, maxBufferedLine,
               bufferData, dirtyWindowTop, dirtyLineCount, origin, base>>
vars == <<consoleVars, lost, frozen, pc, info, job, readBuffer, trackVars, shown>>

Window(t) == t..(t + Rows - 1)
MaxOf(a, b) == IF a >= b THEN a ELSE b
MinOf(a, b) == IF a <= b THEN a ELSE b

-----------------------------------------------------------------------------
(* Programs                                                                *)

Text(n) == n + 1

\* A line and a line feed at the bottom of the buffer scrolls it, one further up
\* moves the window once the cursor leaves it.
PrintLine ==
  LET a == fell + cursor
      scrolls == cursor = BUFFER_LINE_COUNT - 1
      new == [lines EXCEPT ![cursor] = Text(a)]
  IN /\ ~frozen /\ printed < MaxPrinted
     /\ printed' = printed + 1
     /\ written' = [written EXCEPT ![a] = Text(a)]
     /\ IF scrolls
        THEN /\ lines' = [r \in BufferRows |-> IF r + 1 \in BufferRows THEN new[r + 1] ELSE 0]
             /\ fell' = fell + 1
             /\ lost' = (lost \/ syncRow = NoMarker \/ lines[0] = -syncCounter)
             /\ UNCHANGED <<top, cursor>>
        ELSE /\ lines' = new
             /\ cursor' = cursor + 1
             /\ top' = MaxOf(top, cursor + 2 - Rows)
             /\ UNCHANGED <<fell, lost>>
     /\ UNCHANGED <<isNewW10, torn, rewrites, clears, frozen, pc, info, job, readBuffer, trackVars, shown>>

\* A program changes a line in the window.
Rewrite(row) ==
  /\ ~frozen /\ rewrites < MaxRewrites /\ row \in Window(top)
  /\ rewrites' = rewrites + 1
  /\ \E c \in {0, Text(MaxPrinted + BUFFER_LINE_COUNT)} :
       /\ lines' = [lines EXCEPT ![row] = c]
       /\ written' = [written EXCEPT ![fell + row] = c]
  /\ UNCHANGED <<isNewW10, top, cursor, printed, clears, fell, lost, torn, frozen, pc, info,
                 job, readBuffer, trackVars, shown>>

\* CLS.
Clear ==
  /\ ~frozen /\ clears < MaxClears
  /\ clears' = clears + 1
  /\ lines' = [r \in BufferRows |-> 0] /\ top' = 0 /\ cursor' = 0
  /\ fell' = fell + top + Rows /\ lost' = TRUE
  /\ torn' = (torn \/ pc \notin {"idle", "info"})
  /\ UNCHANGED <<isNewW10, printed, rewrites, written, frozen, pc, info, job, readBuffer,
                 trackVars, shown>>

-----------------------------------------------------------------------------
(* The sync marker                                                         *)

\* findSyncMarker, in a buffer b.
MarkerAt(b, row) == \A j \in 0..(SYNC_MARKER_LEN - 1) : b[row + j] = -syncCounter

\* Mutant of MarkerRow: the row it was last seen on is not looked at.
MarkerRowAbove ==
  IF \E row \in 0..(syncRow - 1) : MarkerAt(lines, row)
  THEN CHOOSE row \in 0..(syncRow - 1) :
         MarkerAt(lines, row) /\ \A r \in (row + 1)..(syncRow - 1) : ~MarkerAt(lines, r)
  ELSE NoMarker

MarkerRow ==
  IF \E row \in 0..syncRow : MarkerAt(lines, row)
  THEN CHOOSE row \in 0..syncRow :
         MarkerAt(lines, row) /\ \A r \in (row + 1)..syncRow : ~MarkerAt(lines, r)
  ELSE NoMarker

CreateSyncMarker(row) ==
  /\ syncCounter' = syncCounter + 1
  /\ syncRow' = row
  /\ lines' = [r \in BufferRows |->
                 CASE r \in row..(row + SYNC_MARKER_LEN - 1) -> -(syncCounter + 1)
                   [] r = row - 1 -> 0
                   [] OTHER -> lines[r]]

-----------------------------------------------------------------------------
(* The scraper                                                             *)

Tentative == ~frozen

\* scrapeBuffers, and the start of syncConsoleContentAndSize.
BeginScrape ==
  /\ pc = "idle"
  /\ frozen' = ~isNewW10 /\ pc' = "info"
  /\ UNCHANGED <<consoleVars, lost, info, job, readBuffer, trackVars, shown>>

ReadInfo ==
  /\ pc = "info"
  /\ info' = [top |-> top, cursor |-> cursor] /\ pc' = "find"
  /\ UNCHANGED <<consoleVars, lost, frozen, job, readBuffer, trackVars, shown>>

\* scrollingScrapeOutput returns false: freeze the console and start over, with
\* the info there is.
Bail == frozen' = TRUE /\ pc' = "find"

\* resetConsoleTracking(SendClear, info.top), then the rest of the dirty-line
\* update.
ResetTracking ==
  /\ syncRow' = NoMarker /\ scrapedLineCount' = info.top /\ scrolledCount' = 0
  /\ maxBufferedLine' = -1 /\ bufferData' = [i \in BufferRows |-> <<>>]
  /\ shown' = [v \in Lines |-> 0]
  /\ origin' = info.top /\ base' = fell /\ lost' = FALSE

MarkerLost == syncRow # NoMarker /\ MarkerRow = NoMarker
MovedUp == dirtyWindowTop # -1 /\ info.top < dirtyWindowTop
WindowBottom == info.top + Rows

\* What is dirty: up to the cursor, above the window, and the whole window when
\* it has moved down or (moved) the buffer has scrolled.
Dirty(dirty, dirtyTop, moved) ==
  MaxOf(MaxOf(IF moved \/ (dirtyTop # -1 /\ info.top > dirtyTop)
              THEN MaxOf(dirty, WindowBottom) ELSE dirty,
              info.cursor + 1), info.top)

\* Mutant of NewSyncRow: counted from the window's bottom.
SyncRowFromBottom == WindowBottom - SYNC_MARKER_LEN - SYNC_MARKER_MARGIN

NewSyncRow == info.top - SYNC_MARKER_LEN - SYNC_MARKER_MARGIN
\* Mutants of ShouldCreate: one marker for ever; any row above the last marker.
CreateOnce(row) == row = NoMarker /\ NewSyncRow >= row + SYNC_MARKER_LEN + SYNC_MARKER_MARGIN
CreateCloser(row) == NewSyncRow > row

ShouldCreate(row) == NewSyncRow >= row + SYNC_MARKER_LEN + SYNC_MARKER_MARGIN

\* Mutants of Job: the line two above the first dirty one; only the window's lines.
JobTwoAbove(scraped, scrolled, dirty, create) ==
  LET first == MinOf(scraped, info.top + scrolled)
  IN [first |-> first, create |-> create,
      readTop |-> MinOf(first - scrolled, dirty - 2),
      readStop |-> MaxOf(WindowBottom, dirty)]

JobOfWindow(scraped, scrolled, dirty, create) ==
  [first |-> info.top + scrolled, create |-> create,
   readTop |-> MinOf(info.top, dirty - 1), readStop |-> MaxOf(WindowBottom, dirty)]

\* The lines to scrape (virtual) and the rows to read.
Job(scraped, scrolled, dirty, create) ==
  LET first == MinOf(scraped, info.top + scrolled)
  IN [first |-> first, create |-> create,
      readTop |-> MinOf(first - scrolled, dirty - 1),
      readStop |-> MaxOf(WindowBottom, dirty)]

\* The marker is gone, or the window has moved up.
FindReset ==
  /\ pc = "find" /\ ~Tentative /\ (MarkerLost \/ MovedUp)
  /\ ResetTracking
  /\ dirtyWindowTop' = info.top
  /\ dirtyLineCount' = Dirty(0, -1, FALSE)
  /\ job' = Job(info.top, 0, dirtyLineCount', ShouldCreate(MarkerRow))
  /\ pc' = "read"
  /\ UNCHANGED <<consoleVars, frozen, info, readBuffer, syncCounter>>

\* The unfrozen attempt gives up before it has changed anything else.
FindBail ==
  /\ pc = "find" /\ Tentative
  /\ \/ MarkerLost
     \/ ~MarkerLost /\ (MovedUp \/ ShouldCreate(MarkerRow))
  /\ Bail
  /\ IF ~MarkerLost
     THEN /\ scrolledCount' = scrolledCount + (syncRow - MarkerRow)
          /\ syncRow' = MarkerRow
          /\ dirtyLineCount' = IF MarkerRow = syncRow THEN dirtyLineCount
                               ELSE MaxOf(dirtyLineCount, WindowBottom)
     ELSE UNCHANGED <<scrolledCount, syncRow, dirtyLineCount>>
  /\ UNCHANGED <<consoleVars, lost, info, job, readBuffer, syncCounter, scrapedLineCount,
                 maxBufferedLine, bufferData, dirtyWindowTop, shown, origin, base>>

\* The marker shows how far the buffer has scrolled.
Find ==
  LET row == MarkerRow
      create == ShouldCreate(row)
  IN /\ pc = "find" /\ ~MarkerLost /\ ~MovedUp /\ (Tentative => ~create)
     /\ syncRow' = row
     /\ scrolledCount' = scrolledCount + (syncRow - row)
     /\ dirtyWindowTop' = info.top
     /\ dirtyLineCount' = Dirty(dirtyLineCount, dirtyWindowTop, row # syncRow)
     /\ job' = Job(scrapedLineCount, scrolledCount', dirtyLineCount', create)
     /\ pc' = "read"
     /\ UNCHANGED <<consoleVars, lost, frozen, info, readBuffer, syncCounter, scrapedLineCount,
                    maxBufferedLine, bufferData, shown, origin, base>>

\* largeConsoleRead.
Read ==
  /\ pc = "read"
  /\ readBuffer' = [r \in job.readTop..(job.readStop - 1) |-> lines[r]]
  /\ pc' = IF Tentative THEN "checkInfo" ELSE "mark"
  /\ UNCHANGED <<consoleVars, lost, frozen, info, job, trackVars, shown>>

\* Was the console as it was read?
CheckInfo ==
  /\ pc = "checkInfo"
  /\ IF info = [top |-> top, cursor |-> cursor]
     THEN pc' = "checkMarker" /\ UNCHANGED frozen ELSE Bail
  /\ UNCHANGED <<consoleVars, lost, info, job, readBuffer, trackVars, shown>>

CheckMarker ==
  /\ pc = "checkMarker"
  /\ IF MarkerRow # syncRow THEN Bail ELSE pc' = "send" /\ UNCHANGED frozen
  /\ UNCHANGED <<consoleVars, lost, info, job, readBuffer, trackVars, shown>>

Mark ==
  /\ pc = "mark" /\ pc' = "send"
  /\ IF job.create THEN CreateSyncMarker(NewSyncRow)
     ELSE UNCHANGED <<lines, syncRow, syncCounter>>
  /\ UNCHANGED <<isNewW10, top, cursor, printed, rewrites, clears, fell, written, lost, torn,
                 frozen, info, job, readBuffer, scrapedLineCount, scrolledCount, maxBufferedLine, bufferData,
                 dirtyWindowTop, dirtyLineCount, shown, origin, base>>

\* Mutant of DirtyRows: the window's last line is not scanned.
DirtyRowsButLast == {r \in dirtyLineCount..(WindowBottom - 2) : readBuffer[r] # 0}

\* scanForDirtyLines.
DirtyRows == {r \in dirtyLineCount..(WindowBottom - 1) : readBuffer[r] # 0}

\* Mutant of Changed: only a line never seen counts.
ChangedNew(v) == v > maxBufferedLine

\* What virtual line v was when it was read.
Line(v) == readBuffer[v - scrolledCount]

\* Has virtual line v changed since it was sent?
Changed(v) ==
  v > maxBufferedLine \/ bufferData[v % BUFFER_LINE_COUNT] # <<Line(v)>>

\* The count of dirty lines after the scan, and the lines to send: from the
\* first that has changed, all of them, down to the last dirty one in the window.
Scanned ==
  CHOOSE d \in {dirtyLineCount} \cup {r + 1 : r \in DirtyRows} : \A r \in DirtyRows : r < d
StopLine == MinOf(Scanned, WindowBottom) + scrolledCount
Sent == {v \in job.first..(StopLine - 1) : \E u \in job.first..v : Changed(u)}

\* The rest of scrollingScrapeOutput; then the console is unfrozen.
Send ==
  /\ pc = "send"
  /\ dirtyLineCount' = Scanned
  /\ shown' = [v \in Lines |-> IF v \in Sent THEN Line(v) ELSE shown[v]]
  /\ bufferData' = [i \in BufferRows |->
                      IF \E v \in Sent : v % BUFFER_LINE_COUNT = i
                      THEN <<Line(CHOOSE v \in Sent : v % BUFFER_LINE_COUNT = i)>>
                      ELSE bufferData[i]]
  /\ maxBufferedLine' = IF job.first < StopLine THEN MaxOf(maxBufferedLine, StopLine - 1) ELSE maxBufferedLine
  /\ scrapedLineCount' = info.top + scrolledCount
  /\ frozen' = FALSE /\ pc' = "idle"
  /\ UNCHANGED <<consoleVars, lost, info, job, readBuffer, syncRow, syncCounter, scrolledCount, dirtyWindowTop, origin, base>>

-----------------------------------------------------------------------------
(* Specification                                                           *)

Init ==
  /\ isNewW10 \in BOOLEAN
  /\ lines = [r \in BufferRows |-> 0] /\ top = 0 /\ cursor = 0
  /\ frozen = FALSE /\ printed = 0 /\ rewrites = 0 /\ clears = 0
  /\ fell = 0 /\ written = [v \in Lines |-> 0] /\ lost = FALSE /\ torn = FALSE
  /\ pc = "idle" /\ info = [top |-> 0, cursor |-> 0]
  /\ job = [first |-> 0, create |-> FALSE, readTop |-> 0, readStop |-> 0]
  /\ readBuffer = lines
  /\ syncRow = NoMarker /\ syncCounter = 0
  /\ scrapedLineCount = 0 /\ scrolledCount = 0 /\ maxBufferedLine = -1
  /\ bufferData = [i \in BufferRows |-> <<>>]
  /\ dirtyWindowTop = -1 /\ dirtyLineCount = 0
  /\ shown = [v \in Lines |-> 0]
  /\ origin = 0 /\ base = 0

Program == PrintLine \/ Clear \/ \E row \in BufferRows : Rewrite(row)

Scrape ==
  \/ BeginScrape \/ ReadInfo \/ FindReset \/ FindBail \/ Find
  \/ Read \/ CheckInfo \/ CheckMarker \/ Mark \/ Send

Next == Program \/ Scrape

Spec == Init /\ [][Next]_vars

\* The agent polls for ever (module Agent).
FairSpec == Spec /\ WF_vars(Scrape)

-----------------------------------------------------------------------------
(* Properties                                                              *)

TypeOK ==
  /\ lines \in [BufferRows -> Int] /\ top \in Nat /\ cursor \in BufferRows
  /\ frozen \in BOOLEAN /\ lost \in BOOLEAN /\ torn \in BOOLEAN /\ isNewW10 \in BOOLEAN
  /\ printed \in Nat /\ rewrites \in Nat /\ clears \in Nat /\ fell \in Nat
  /\ written \in [Lines -> Nat]
  /\ pc \in {"idle", "info", "find", "read", "checkInfo", "checkMarker", "mark", "send"}
  /\ info \in [top : Nat, cursor : BufferRows]
  /\ job \in [first : Nat, create : BOOLEAN, readTop : BufferRows, readStop : 0..BUFFER_LINE_COUNT]
  /\ syncRow \in BufferRows \cup {NoMarker} /\ syncCounter \in Nat
  /\ scrapedLineCount \in Nat /\ scrolledCount \in Nat /\ maxBufferedLine \in Nat \cup {-1}
  /\ dirtyWindowTop \in BufferRows \cup {-1} /\ dirtyLineCount \in 0..BUFFER_LINE_COUNT
  /\ shown \in [Lines -> Int] /\ origin \in Nat /\ base \in Nat

\* No assertion of scrollingScrapeOutput fails, and no line outside the read
\* rectangle is asked for, which would end the agent
\* (LargeConsoleReadBuffer::validateLineNumber).
NoAssertionFails ==
  /\ pc = "read" => job.readTop < job.readStop
  /\ pc = "mark" /\ job.create => NewSyncRow >= 1
  /\ pc = "send" =>
       /\ dirtyLineCount - 1 \in DOMAIN readBuffer
       /\ dirtyLineCount..(WindowBottom - 1) \subseteq DOMAIN readBuffer
       /\ \A v \in job.first..(WindowBottom + scrolledCount - 1) :
            v - scrolledCount \in DOMAIN readBuffer

\* What has left the window is in the terminal's scrollback as it was written,
\* each line once and in order, as long as the tracking has not been lost.
NoLineSkipped ==
  pc = "idle" /\ ~lost /\ ~torn =>
    \A v \in origin..(scrapedLineCount - 1) : shown[v] = written[v + base]

\* The terminal is reset only when the tracked lines are gone: the marker is not
\* taken for lost while it is there, nor the window to have moved up.
NoNeedlessReset == pc = "find" /\ (MarkerLost \/ MovedUp) => lost \/ torn

\* "a synchronizing marker was placed into the history": the marker stays out of
\* what programs write, above the window.
MarkersStayAbove == \A r \in BufferRows : r >= top => lines[r] >= 0

\* It does unless a clear comes in the middle of an unfrozen scrape.
MarkersAboveUnlessTorn == torn \/ MarkersStayAbove

\* The scraper stays inside what it has read, resets the terminal only when what
\* it tracked is gone, and keeps its marker out of what programs write.
TrackingSound == TypeOK /\ NoAssertionFails /\ NoNeedlessReset /\ MarkersAboveUnlessTorn

\* A scrape that ends with the console where it was when the scrape began has
\* brought the terminal up to date with every line of the window it read as it is.
WindowSent ==
  [][pc = "send" /\ pc' = "idle" /\ info = [top |-> top, cursor |-> cursor] =>
       \A r \in Window(top) : readBuffer[r] = lines[r] => shown'[r + scrolledCount] = lines[r]]_vars

\* The marker is lost only to a clear or to a flood: so many lines between two
\* scrapes that the window moves by almost the whole buffer.  After a clear in the
\* middle of a scrape a reset may leave the scraper without a marker.
FloodSize == BUFFER_LINE_COUNT - Rows + 2 - 2 * (SYNC_MARKER_LEN + SYNC_MARKER_MARGIN)

OnlyFloodsLoseTrack ==
  [][~torn /\ ~lost /\ lost' /\ clears' = clears =>
       fell' + top' - (scrapedLineCount + base) >= FloodSize]_vars

\* In the end, the terminal shows what the console does.
TerminalCatchesUp ==
  <>[](\A r \in Window(top) : shown[r + scrolledCount] = lines[r])

=============================================================================
