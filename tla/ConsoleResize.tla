---------------------------- MODULE ConsoleResize ----------------------------
(***************************************************************************)
(* The size of the console: Scraper::resizeImpl and the choice between the *)
(* scrolling and the direct mode (agent/Scraper.cc), with the calls of     *)
(* Win32ConsoleBuffer and Win32Console it makes.  Its steps freeze the     *)
(* console and let it go, and programs write in between.                   *)
(*                                                                         *)
(* Of the text there is only what the geometry depends on: the cursor's    *)
(* row, the marker's, and how far down lines are dirty.  Module Scraper    *)
(* has the text and the steps of one scrape, which is one step here.       *)
(***************************************************************************)
EXTENDS ConsoleFont

CONSTANTS
  BUFFER_LINE_COUNT, SYNC_MARKER_LEN, SYNC_MARKER_MARGIN, MAX_CONSOLE_WIDTH, MAX_CONSOLE_HEIGHT,
  Sizes,         \* the sizes [cols, rows] the terminal may have
  StartSizes,    \* those it has at first
  Monitor,       \* the desktop: its width in pixels, its height in rows
  Consoles,      \* the consoles there are, by name: new or not, the fonts they take, the first size
  MaxResizes, MaxProgram   \* bounds: how often the terminal is resized; what programs do

Positive == Nat \ {0}
NoRow == -1

\* A console as the agent finds it: a window in a buffer, and fonts not as wide as half a desktop.
ConsoleFits(k) ==
  /\ k.new \in BOOLEAN /\ k.windows8 \in BOOLEAN /\ (k.new => k.windows8)
  /\ k.fonts \subseteq [x : 1..MinPixels, y : Nat, sets : BOOLEAN]
  /\ k.start \in [bufX : Positive, bufY : Positive, top : Nat, w : Positive, h : Positive, cur : Nat,
                  font : 1..MinPixels, marker : {NoRow}]
  /\ k.start.w <= k.start.bufX /\ 2 <= k.start.bufX
  /\ k.start.top + k.start.h <= k.start.bufY /\ k.start.cur < k.start.bufY

\* The code's buffer has 3000 lines, the largest window 2000 and the marker 16, with 200 to
\* spare.
ASSUME ResizeAssumption ==
  /\ BUFFER_LINE_COUNT \in Nat /\ MaxResizes \in Nat /\ MaxProgram \in Nat
  /\ {SYNC_MARKER_LEN, SYNC_MARKER_MARGIN, MAX_CONSOLE_WIDTH, MAX_CONSOLE_HEIGHT} \subseteq Positive
  /\ MAX_CONSOLE_HEIGHT + 2 * SYNC_MARKER_LEN + 3 * SYNC_MARKER_MARGIN <= BUFFER_LINE_COUNT
  /\ Sizes \union StartSizes \subseteq [cols : Positive, rows : Positive]
  /\ Monitor \in [pixels : Nat, rows : Positive] /\ 2 * MinPixels <= Monitor.pixels
  /\ \A k \in DOMAIN Consoles : ConsoleFits(Consoles[k])

VARIABLES
  kind,             \* the console there is
  con,              \* its buffer's size, its window, cursor row, cell width and marker row
  frozen, isNewW10, \* Win32Console
  directMode, ptySize, syncRow, dirtyWindowTop, dirtyLineCount,   \* Scraper
  pc, info, forced, \* syncConsoleContentAndSize: where it is, its info and forceResize
  job,              \* resizeImpl: the final size of the buffer, what of it fits the desktop
  resizes, programs,
  interfered,       \* history: programs did something since the info was read;
  torn,             \* a program has moved the window up between the info and the scrape;
  crept             \* how far resizes have moved it up since the marker was put down

scraperVars == <<directMode, ptySize, syncRow, dirtyWindowTop, dirtyLineCount>>
historyVars == <<resizes, programs, interfered, torn, crept>>
vars == <<kind, con, frozen, isNewW10, scraperVars, pc, info, forced, job, historyVars>>

NoJob == [bufX |-> 0, bufY |-> 0, cols |-> 0, rows |-> 0]
Kind == Consoles[kind]

-------------------------------------------------------------------------------
(* The console.                                                              *)
Largest(c) == [x |-> Monitor.pixels \div c.font, y |-> Monitor.rows]

\* SetConsoleWindowInfo, by Win32ConsoleBuffer::moveWindow.
moveWindow(c, top, width, height) ==
  IF /\ top >= 0 /\ top + height <= c.bufY /\ width <= c.bufX
     /\ width <= Largest(c).x /\ height <= Largest(c).y
  THEN [c EXCEPT !.top = top, !.w = width, !.h = height] ELSE c

SizeAccepted(c, x, y) == x >= c.w /\ y >= c.h /\ x * c.font >= MinPixels

\* SetConsoleScreenBufferSize.  A new console wraps its lines anew, which moves the cursor
\* and the window with it.
Resized(c, x, y) ==
  LET Shift(d) == [c EXCEPT !.bufX = x, !.bufY = y,
                            !.top = MaxInt(0, MinInt(@ + d, y - c.h)),
                            !.cur = MaxInt(0, MinInt(@ + d, y - 1)),
                            !.marker = IF @ + SYNC_MARKER_LEN <= y THEN @ ELSE NoRow]
  IN {Shift(d) : d \in IF Kind.new /\ x > c.bufX THEN {0, -1}
                       ELSE IF Kind.new /\ x < c.bufX THEN {0, 1} ELSE {0}}

\* Win32ConsoleBuffer::resizeBufferRange: wider, until one is accepted.
resizeBufferRange(c, x, y) ==
  LET accepted == {w \in {x} \union (x + 1)..20 : SizeAccepted(c, w, y)}
  IN IF accepted = {} THEN {c}
     ELSE Resized(c, CHOOSE w \in accepted : \A v \in accepted : w <= v, y)

\* A font that is too small for the window's minimum widens the buffer, one that is too
\* large for the desktop makes the window narrower.
WithFont(c, font) ==
  LET wide == [c EXCEPT !.font = font, !.bufX = MaxInt(@, (MinPixels + font - 1) \div font)]
  IN [wide EXCEPT !.w = MinInt(@, Largest(wide).x)]

SmallFonts(c, columns, new) ==
  {WithFont(c, f) : f \in setSmallFont(c.font, Kind.api, Kind.codePage, columns, new,
                                       Kind.windows8, Kind.accepted, Kind.fonts)}

\* Lines scroll out of the buffer below; the window follows the cursor.
Printed(c, n) ==
  LET cur == MinInt(c.cur + n, c.bufY - 1)
      scrolled == c.cur + n - cur
  IN [c EXCEPT !.cur = cur, !.top = MaxInt(@, cur - c.h + 1),
               !.marker = IF @ >= scrolled THEN @ - scrolled ELSE NoRow]

ProgramStep ==
  /\ ~frozen /\ pc \notin {"detect", "construct"} /\ programs < MaxProgram /\ programs' = programs + 1
  /\ interfered' = (pc # "idle")
  /\ \/ \E n \in {1, BUFFER_LINE_COUNT} : con' = Printed(con, n)
     \/ con' = [con EXCEPT !.cur = 0, !.top = 0, !.marker = NoRow]             \* CLS
     \/ \E h \in {2, con.h} :                                          \* full screen
          h <= con.h /\ con' = [con EXCEPT !.h = h, !.bufY = h, !.cur = 0, !.top = 0, !.marker = NoRow]
     \/ con.bufY < BUFFER_LINE_COUNT /\ con' = [con EXCEPT !.bufY = BUFFER_LINE_COUNT]   \* and back
     \/ con' = [con EXCEPT !.cur = con.top]
  /\ con' # con
  /\ torn' = (torn \/ (pc = "sync" /\ con'.top < info.top))
  /\ UNCHANGED <<kind, frozen, isNewW10, scraperVars, pc, info, forced, job, resizes, crept>>

-------------------------------------------------------------------------------
(* The start.                                                                *)

\* detectNewWindows10Console, which returns at once before Windows 8: in an older
\* console, Mark moves the cursor to the window's top left; a window of one cell,
\* where that cannot be seen, is made wider before.
Detect(c) ==
  /\ con' = IF Kind.windows8 THEN [c EXCEPT !.cur = 0] ELSE c
  /\ isNewW10' = /\ Kind.windows8
                 /\ Kind.new \/ (c.w = 1 /\ c.h = 1)

ExpandedForDetection ==
  LET one(c) == moveWindow(c, 0, 1, 1)
      wide(c) == IF SizeAccepted(c, 400, 1) THEN [c EXCEPT !.bufX = 400, !.bufY = 1, !.cur = 0] ELSE c
  IN {moveWindow(moveWindow(wide(one(c)), 0, 2, 1), 0, MinInt(Largest(c).x, wide(one(c)).bufX), 1) :
        c \in SmallFonts(con, 400, FALSE)}

\* Mutant of WindowForDetection: a window of one cell is left as it is.
WindowForDetectionSmall == {con}

WindowForDetection ==
  IF con.w = 1 /\ con.h = 1 /\ Kind.windows8 THEN ExpandedForDetection ELSE {con}

DetectNewWindows10Console ==
  /\ pc = "detect" /\ pc' = "construct"
  /\ \E c \in WindowForDetection : Detect(c)
  /\ UNCHANGED <<kind, frozen, scraperVars, info, forced, job, historyVars>>

\* Mutant of Limited: any size is taken.
LimitedNot(size) == size

\* The largest console the agent makes.
Limited(size) == [cols |-> MinInt(size.cols, MAX_CONSOLE_WIDTH),
                  rows |-> MinInt(size.rows, MAX_CONSOLE_HEIGHT)]

\* Scraper::Scraper.
Construct ==
  LET cols == Limited(ptySize).cols
      rows == Limited(ptySize).rows
  IN /\ pc = "construct" /\ pc' = "idle"
     /\ \E c \in SmallFonts(con, cols, isNewW10) :
          \E d \in resizeBufferRange(moveWindow(c, 0, 1, 1), cols, BUFFER_LINE_COUNT) :
             con' = [moveWindow(d, 0, MinInt(cols, Largest(d).x), MinInt(rows, Largest(d).y))
                     EXCEPT !.cur = 0]
     /\ ptySize' = Limited(ptySize)
     /\ UNCHANGED <<kind, frozen, isNewW10, directMode, syncRow, dirtyWindowTop, dirtyLineCount,
                    info, forced, job, historyVars>>

-------------------------------------------------------------------------------
(* syncConsoleContentAndSize                                                 *)

\* The terminal is resized: Agent::resizeWindow, Scraper::resizeWindow.
ResizeWindow(size) ==
  /\ pc = "idle" /\ resizes < MaxResizes /\ resizes' = resizes + 1
  /\ ptySize' = Limited(size)
  /\ forced' = TRUE /\ frozen' = TRUE /\ pc' = "info"
  /\ UNCHANGED <<kind, con, isNewW10, directMode, syncRow, dirtyWindowTop, dirtyLineCount, info,
                 job, programs, interfered, torn, crept>>

\* Scraper::scrapeBuffer.
ScrapeBuffer ==
  /\ pc = "idle" /\ forced' = FALSE /\ frozen' = ~isNewW10 /\ pc' = "info"
  /\ UNCHANGED <<kind, con, isNewW10, scraperVars, info, job, historyVars>>

ReadInfo ==
  /\ pc = "info" /\ info' = con /\ pc' = "sync" /\ interfered' = FALSE
  /\ UNCHANGED <<kind, con, frozen, isNewW10, scraperVars, forced, job, resizes, programs, torn, crept>>

NewDirectMode == info.bufY # BUFFER_LINE_COUNT

\* Mutant of ChangeMode: the console keeps the size a full screen program gave it.
ChangeModeKeepsSize ==
  /\ pc = "sync" /\ NewDirectMode # directMode
  /\ directMode' = NewDirectMode
  /\ syncRow' = NoRow /\ dirtyWindowTop' = NoRow /\ dirtyLineCount' = 0
  /\ UNCHANGED <<kind, con, frozen, isNewW10, ptySize, pc, info, forced, job, historyVars>>

\* The mode changes: the tracking starts anew, and the console must get back its size.
ChangeMode ==
  /\ pc = "sync" /\ NewDirectMode # directMode
  /\ directMode' = NewDirectMode
  /\ syncRow' = NoRow /\ dirtyWindowTop' = NoRow /\ dirtyLineCount' = 0
  /\ forced' = (forced \/ ~NewDirectMode) /\ frozen' = (frozen \/ ~NewDirectMode)
  /\ UNCHANGED <<kind, con, isNewW10, ptySize, pc, info, job, historyVars>>

\* directScrapeOutput comes behind the resize and changes nothing here.
SyncDirect ==
  /\ pc = "sync" /\ NewDirectMode = directMode /\ directMode
  /\ pc' = IF forced THEN "clear" ELSE "done"
  /\ UNCHANGED <<kind, con, frozen, isNewW10, scraperVars, info, forced, job, historyVars>>

\* scrollingScrapeOutput (see module Scraper), on the frozen console in the end if need be.
SyncScrolling ==
  LET lost == syncRow # NoRow /\ con.marker = NoRow
      reset == lost \/ (dirtyWindowTop # NoRow /\ info.top < dirtyWindowTop)
      row == IF reset THEN NoRow ELSE IF syncRow = NoRow THEN NoRow ELSE con.marker
      newRow == info.top - SYNC_MARKER_LEN - SYNC_MARKER_MARGIN
      create == newRow >= row + SYNC_MARKER_LEN + SYNC_MARKER_MARGIN
      moved == ~reset /\ (row # syncRow \/ (dirtyWindowTop # NoRow /\ info.top > dirtyWindowTop))
      bottom == info.top + info.h
      dirty == MaxInt(MaxInt(info.cur + 1, info.top),
                      IF reset THEN 0 ELSE IF moved THEN MaxInt(dirtyLineCount, bottom) ELSE dirtyLineCount)
  IN /\ pc = "sync" /\ NewDirectMode = directMode /\ ~directMode
     /\ syncRow' = IF create THEN newRow ELSE row
     /\ con' = IF create THEN [con EXCEPT !.marker = newRow] ELSE con
     /\ dirtyWindowTop' = info.top
     /\ dirtyLineCount' \in {dirty, MaxInt(dirty, bottom)}
     /\ frozen' = (frozen \/ forced)
     /\ pc' = IF forced THEN "clear" ELSE "done"
     /\ crept' = IF create THEN 0 ELSE crept
     /\ UNCHANGED <<kind, isNewW10, directMode, ptySize, info, forced, job, resizes, programs, interfered,
                    torn>>

-------------------------------------------------------------------------------
(* resizeImpl                                                                *)

\* Mutant of MarkerLimit: the margin is forgotten.
MarkerLimitNoMargin == BUFFER_LINE_COUNT - ptySize.rows

\* Above a window at the bottom of the buffer.
MarkerLimit == BUFFER_LINE_COUNT - ptySize.rows - SYNC_MARKER_LEN - SYNC_MARKER_MARGIN

\* The lines above the window are cleared, and the marker is written again.
ClearAbove ==
  LET row == MinInt(syncRow, MarkerLimit)
  IN /\ pc = "clear" /\ pc' = "font"
     /\ IF directMode \/ syncRow = NoRow
        THEN UNCHANGED syncRow /\ con' = [con EXCEPT !.marker = IF directMode THEN @ ELSE NoRow]
        ELSE syncRow' = row /\ con' = [con EXCEPT !.marker = row]
     /\ job' = [bufX |-> ptySize.cols,
                bufY |-> IF info.h = info.bufY THEN ptySize.rows ELSE MaxInt(ptySize.rows, info.bufY),
                cols |-> 0, rows |-> 0]
     /\ frozen' = FALSE
     /\ UNCHANGED <<kind, isNewW10, directMode, ptySize, dirtyWindowTop, dirtyLineCount, info,
                    forced, historyVars>>

\* setSmallFont, and what of the size fits the desktop with it.
SetFont ==
  /\ pc = "font" /\ pc' = "shrink"
  /\ \E c \in SmallFonts(con, ptySize.cols, isNewW10) :
       /\ con' = c
       /\ job' = [job EXCEPT !.cols = MinInt(ptySize.cols, Largest(c).x),
                             !.rows = MinInt(ptySize.rows, Largest(c).y)]
  /\ UNCHANGED <<kind, frozen, isNewW10, scraperVars, info, forced, historyVars>>

CursorInWindow(c) == c.cur \in c.top..(c.top + c.h - 1)

\* SmallRect::ensureLineIncluded: the top of a window of this height.
EnsureLineIncluded(top, height, line) ==
  IF line < top THEN line ELSE IF line >= top + height THEN line - height + 1 ELSE top

\* Mutant of ShrinkWindow: the window is left as large as it is.
ShrinkWindowNot ==
  /\ pc = "shrink" /\ pc' = "buffer"
  /\ UNCHANGED <<kind, con, frozen, isNewW10, scraperVars, info, forced, job, historyVars>>

\* The window is made small enough for both sizes of the buffer.
ShrinkWindow ==
  LET width == MinInt(con.bufX, job.cols)
      height == MinInt(con.bufY, job.rows)
      top == MinInt(con.bufY - height, con.top)
  IN /\ pc = "shrink" /\ pc' = "buffer"
     /\ con' = moveWindow(con, IF CursorInWindow(con) THEN EnsureLineIncluded(top, height, con.cur)
                               ELSE top, width, height)
     /\ frozen' = FALSE
     /\ UNCHANGED <<kind, isNewW10, scraperVars, info, forced, job, historyVars>>

ResizeBuffer ==
  /\ pc = "buffer" /\ pc' = "expand"
  /\ con' \in resizeBufferRange(con, job.bufX, job.bufY)
  /\ crept' = crept + MaxInt(0, con.top - con'.top)
  /\ UNCHANGED <<kind, frozen, isNewW10, scraperVars, info, forced, job, resizes, programs, interfered,
                 torn>>

\* Mutant of FinalTop: dirty lines below the window are let go.
FinalTopPlain ==
  LET top == MinInt(con.bufY - job.rows, con.top)
  IN IF CursorInWindow(con) THEN EnsureLineIncluded(top, job.rows, con.cur) ELSE top

\* Mutant of FinalTop: the cursor is not looked at.
FinalTopNoCursor ==
  LET top == MinInt(con.bufY - job.rows, con.top)
  IN IF ~directMode /\ dirtyLineCount > top + job.rows THEN dirtyLineCount - job.rows ELSE top

\* Dirty lines stay in the window, and above all the cursor does.
FinalTop ==
  LET top == MinInt(con.bufY - job.rows, con.top)
      dirty == IF ~directMode /\ dirtyLineCount > top + job.rows THEN dirtyLineCount - job.rows
               ELSE top
  IN IF CursorInWindow(con) THEN EnsureLineIncluded(dirty, job.rows, con.cur) ELSE dirty

\* The window gets its full size.
ExpandWindow ==
  /\ pc = "expand" /\ pc' = "done" /\ frozen' = TRUE
  /\ con' = moveWindow(con, FinalTop, job.cols, job.rows)
  /\ dirtyWindowTop' = FinalTop
  /\ UNCHANGED <<kind, isNewW10, directMode, ptySize, syncRow, dirtyLineCount, info, forced, job,
                 historyVars>>

\* Mutant of Done: the console is not let go.
DoneFrozen ==
  /\ pc = "done" /\ pc' = "idle"
  /\ info' = Kind.start /\ forced' = FALSE /\ job' = NoJob /\ interfered' = FALSE
  /\ UNCHANGED <<kind, con, frozen, isNewW10, scraperVars, resizes, programs, torn, crept>>

\* Win32Console::FreezeGuard::~FreezeGuard.
Done ==
  /\ pc = "done" /\ pc' = "idle" /\ frozen' = FALSE
  /\ info' = Kind.start /\ forced' = FALSE /\ job' = NoJob /\ interfered' = FALSE
  /\ UNCHANGED <<kind, con, isNewW10, scraperVars, resizes, programs, torn, crept>>

-------------------------------------------------------------------------------
Init ==
  /\ kind \in DOMAIN Consoles /\ con = Kind.start
  /\ frozen = FALSE /\ isNewW10 = FALSE /\ directMode = FALSE
  /\ ptySize \in StartSizes
  /\ syncRow = NoRow /\ dirtyWindowTop = NoRow /\ dirtyLineCount = 0
  /\ pc = "detect" /\ info = con /\ forced = FALSE
  /\ job = NoJob
  /\ resizes = 0 /\ programs = 0 /\ interfered = FALSE /\ torn = FALSE /\ crept = 0

Start == DetectNewWindows10Console \/ Construct

Sync == \/ ReadInfo \/ ChangeMode \/ SyncDirect \/ SyncScrolling
        \/ ClearAbove \/ SetFont \/ ShrinkWindow \/ ResizeBuffer \/ ExpandWindow \/ Done

Next == \/ Start
        \/ \E s \in Sizes : ResizeWindow(s)
        \/ ScrapeBuffer \/ Sync \/ ProgramStep

Spec == Init /\ [][Next]_vars

\* The agent's loop goes on, and polls.
FairSpec == Spec /\ WF_vars(Start) /\ WF_vars(Sync) /\ WF_vars(ScrapeBuffer)

-------------------------------------------------------------------------------
TypeOK ==
  /\ kind \in DOMAIN Consoles
  /\ pc \notin {"detect", "construct"} =>
       ptySize.cols \in 1..MAX_CONSOLE_WIDTH /\ ptySize.rows \in 1..MAX_CONSOLE_HEIGHT
  /\ con.top \in 0..(con.bufY - con.h) /\ con.cur \in 0..(con.bufY - 1)
  /\ con.w \in 1..con.bufX /\ con.marker \in NoRow..BUFFER_LINE_COUNT
  /\ {frozen, isNewW10, directMode, forced, interfered, torn} \subseteq BOOLEAN /\ crept \in Nat
  /\ syncRow \in NoRow..BUFFER_LINE_COUNT /\ dirtyLineCount \in 0..BUFFER_LINE_COUNT

\* detectNewWindows10Console finds what the console is.
DetectionRight == pc \notin {"detect", "construct"} => isNewW10 = Kind.new

\* When a resize ends without programs interfering, the window is as large as the terminal
\* or the desktop: each call it takes is made where the console accepts it.  Only a font
\* of which no 20 columns make the minimum (resizeBufferRange gives up) may prevent it.
SizeHonoured ==
  pc = "done" /\ forced /\ ~interfered /\ MaxInt(20, ptySize.cols) * con.font >= MinPixels =>
    con.w = MinInt(ptySize.cols, Largest(con).x) /\ con.h = MinInt(ptySize.rows, Largest(con).y)

\* A cursor that is in the window when it gets its full size stays in it.
CursorStaysVisible ==
  [][pc = "expand" /\ CursorInWindow(con) => pc' = "expand" \/ CursorInWindow(con')]_vars

\* "Once a line in the screen buffer is 'dirty', it should stay visible": the last dirty
\* line is no lower than the window unless that would hide the cursor ("Highest priority
\* constraint"), and the agent knows where it has put the window.
DirtyLinesVisible ==
  pc = "done" /\ forced /\ ~directMode /\ ~interfered =>
    /\ dirtyLineCount <= con.top + con.h \/ con.cur = con.top
    /\ dirtyWindowTop = con.top

\* The marker is above the window, where no program writes, after a resize, too: until a
\* program has moved the window up between the info and the scrape, which puts the marker
\* below it (see the finding in module Scraper), and as long as the lines that resizes have
\* wrapped anew have not used up the margin.
MarkerAboveWindow ==
  pc = "done" /\ ~directMode /\ syncRow # NoRow /\ ~interfered /\ ~torn /\ crept <= SYNC_MARKER_MARGIN =>
    syncRow >= 1 /\ syncRow + SYNC_MARKER_LEN <= con.top

\* When a full screen program has given the buffer its height back for good, the window
\* gets the terminal's height, whatever height the program has left it.
BackToSize ==
  [](directMode /\ [](con.bufY = BUFFER_LINE_COUNT) =>
       <>(con.h = MinInt(ptySize.rows, Largest(con).y)))

\* Programs that write are never held up for good: the console is let go after each scrape.
ThawedAgain == []<>(~frozen)

\* Whatever programs do in between, the console ends in the right mode, with its size and
\* let go.
ResizeSettles == BackToSize /\ ThawedAgain

\* The window has the terminal's size, below the marker, with what must be seen in it.
WindowPlaced == TypeOK /\ DetectionRight /\ SizeHonoured /\ DirtyLinesVisible /\ MarkerAboveWindow

\* The window is placed right; and, which depends on no state and is evaluated in the
\* first ones, the font is wide enough for the columns and more columns never mean a
\* larger one.
WindowAndFontRight == WindowPlaced /\ (Init => FontsChosenWell)
==============================================================================
