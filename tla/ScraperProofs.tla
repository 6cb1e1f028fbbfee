----------------------------- MODULE ScraperProofs -----------------------------
(***************************************************************************)
(* Proofs about Scraper: it stays inside what it has read, resets the      *)
(* terminal only when what it tracked is gone, skips no line while the     *)
(* tracking holds, and loses the tracking only to a clear or a flood.      *)
(***************************************************************************)
EXTENDS Scraper, WellFoundedInduction, TLAPS

-----------------------------------------------------------------------------
(* The inductive invariant                                                 *)

Gap == SYNC_MARKER_LEN + SYNC_MARKER_MARGIN
Scraping == pc \in {"read", "checkInfo", "checkMarker", "mark", "send"}

\* The row at which the scraper takes the window's top to be.
SeenTop == IF pc \in {"idle", "info"} THEN top ELSE info.top

\* The window is in the buffer, the cursor in the window; lines are counted.
WindowFits ==
  /\ top + Rows <= BUFFER_LINE_COUNT /\ info.top + Rows <= BUFFER_LINE_COUNT
  /\ cursor \in Window(top)
  /\ fell + cursor <= printed + clears * Rows /\ printed <= MaxPrinted /\ clears <= MaxClears

\* When programs wait.
Phases ==
  /\ pc = "mark" => frozen
  /\ pc \in {"idle", "checkInfo", "checkMarker"} => ~frozen
  /\ Scraping /\ job.create => frozen

\* What Find has computed.
JobFits ==
  Scraping =>
    /\ dirtyWindowTop = info.top
    /\ dirtyLineCount >= info.top /\ dirtyLineCount >= 1
    /\ job.first = scrapedLineCount
    /\ job.readTop = MinOf(job.first - scrolledCount, dirtyLineCount - 1)
    /\ job.readStop = MaxOf(WindowBottom, dirtyLineCount)
    /\ job.create => NewSyncRow >= 1
    /\ job.create /\ pc = "send" => syncRow = NewSyncRow
    /\ pc # "read" => readBuffer \in [job.readTop..(job.readStop - 1) -> Int]

\* The marker is well above the first line still to scrape, in the rows the
\* scraper counts by.
TracksFit ==
  /\ scrolledCount <= scrapedLineCount /\ scrapedLineCount - scrolledCount <= MaxOf(dirtyWindowTop, 0)
  /\ dirtyWindowTop + Rows <= BUFFER_LINE_COUNT
  /\ maxBufferedLine < scrolledCount + BUFFER_LINE_COUNT
  /\ scrolledCount + base <= fell
  /\ syncRow = NoMarker => scrolledCount = 0
  /\ syncRow # NoMarker =>
       /\ syncCounter >= 1 /\ syncRow + Gap <= dirtyWindowTop
       /\ (pc = "send" /\ job.create) \/ syncRow + Gap <= scrapedLineCount - scrolledCount

\* The text of the marker is nowhere else, whatever is left of it.
MarkerInOnePlace ==
  /\ \A r \in BufferRows : lines[r] >= -syncCounter
  /\ syncRow # NoMarker =>
       \E m \in Int :
         /\ m <= syncRow /\ scrolledCount + (syncRow - m) + base <= fell
         /\ \A r \in BufferRows : lines[r] = -syncCounter => m <= r /\ r < m + SYNC_MARKER_LEN

\* m_bufferData has what the terminal was sent; nothing was sent below what is dirty.
SentRecorded ==
  /\ \A v \in Lines : scrapedLineCount <= v /\ v <= maxBufferedLine =>
       bufferData[v % BUFFER_LINE_COUNT] = <<shown[v]>>
  /\ \A v \in Lines : shown[v] # 0 => v < dirtyLineCount + scrolledCount

\* Nothing is written below the window.
Unwritten == \A a \in Lines : a >= fell + top + Rows => written[a] = 0

\* The rest holds unless a clear has come in the middle of a scrape.  The window
\* has not moved up since it was read.
TopSeen == SeenTop <= top

\* In the window and below, the console has what programs wrote.
WrittenBelow == \A r \in BufferRows : r >= SeenTop => lines[r] = written[fell + r]

\* The window has not moved up, or no marker is left.
NoStaleMarker == dirtyWindowTop <= SeenTop \/ \A r \in BufferRows : lines[r] >= 0

\* The marker is not left far above what is still to scrape, which is how much of
\* a flood it survives.
MarkerClose ==
  /\ pc # "mark" /\ ~(pc = "read" /\ frozen) => scrapedLineCount - scrolledCount < syncRow + 2 * Gap
  /\ Scraping /\ ~job.create => info.top < syncRow + 2 * Gap

UntornInv == TopSeen /\ WrittenBelow /\ NoStaleMarker /\ MarkerClose

\* Where the marker is, when the buffer has scrolled since it was looked for.
MarkerNow == syncRow - (fell - base - scrolledCount)

\* Nothing has scrolled since the scraper looked for the marker.
InStep == fell = base + scrolledCount

\* The marker has not been lost.
TrackedInv ==
  /\ dirtyWindowTop <= SeenTop
  /\ syncRow = NoMarker \/ (Scraping /\ frozen) => InStep
  /\ syncRow # NoMarker =>
       /\ MarkerNow >= 0
       /\ \A r \in MarkerNow..(MarkerNow + SYNC_MARKER_LEN - 1) : lines[r] = -syncCounter
       /\ \A r \in BufferRows : lines[r] = -syncCounter =>
            r \in MarkerNow..(MarkerNow + SYNC_MARKER_LEN - 1)

\* What is still to be scraped is in the buffer,
StillToScrape ==
  ~(pc = "send" /\ job.create) =>
    \A r \in BufferRows : fell + r >= scrapedLineCount + base => lines[r] = written[fell + r]

\* or has been read;
ReadAsWritten ==
  pc \in {"mark", "send"} \/ (pc \in {"checkInfo", "checkMarker"} /\ InStep) =>
    \A r \in (scrapedLineCount - scrolledCount)..(info.top - 1) :
      readBuffer[r] = written[base + scrolledCount + r]

\* the rest is in the terminal.
SentAsWritten == \A v \in origin..(scrapedLineCount - 1) : shown[v] = written[v + base]

KeptInv == StillToScrape /\ ReadAsWritten /\ SentAsWritten

IInv ==
  /\ TypeOK /\ WindowFits /\ Phases /\ JobFits /\ TracksFit /\ MarkerInOnePlace
  /\ SentRecorded /\ Unwritten
  /\ ~torn => UntornInv
  /\ ~torn /\ ~lost => TrackedInv /\ KeptInv

-----------------------------------------------------------------------------
(* Numbers                                                                 *)

\* What the assumptions say of the constants.
LEMMA ConstantsFit ==
  /\ BUFFER_LINE_COUNT \in Nat /\ SYNC_MARKER_LEN \in Nat /\ SYNC_MARKER_MARGIN \in Nat
  /\ Rows \in Nat /\ Rows >= 1 /\ SYNC_MARKER_LEN >= 1 /\ SYNC_MARKER_MARGIN >= 1
  /\ Gap = SYNC_MARKER_LEN + SYNC_MARKER_MARGIN /\ Gap \in Nat /\ Gap >= 2
  /\ Rows + 2 * Gap <= BUFFER_LINE_COUNT
  /\ MaxPrinted \in Nat /\ MaxClears \in Nat /\ MaxRewrites \in Nat
BY ScraperAssumption DEF Gap

\* Every row of the buffer is a line there may be.
LEMMA LinesReach ==
  ASSUME NEW f \in Nat, NEW c \in Nat, NEW p \in Nat, NEW k \in Nat,
         f + c <= p + k * Rows, p <= MaxPrinted, k <= MaxClears
  PROVE  \A r \in BufferRows : f + r \in Lines
<1>1. k * Rows <= MaxClears * Rows /\ MaxClears * Rows \in Nat /\ k * Rows \in Nat
  BY ConstantsFit
<1>2. f <= MaxPrinted + MaxClears * Rows
  BY <1>1, ConstantsFit
<1> QED
  BY <1>1, <1>2, ConstantsFit DEF Lines, BufferRows

\* A row of the buffer is a line that has a number.
LEMMA LinesFit ==
  ASSUME TypeOK, WindowFits
  PROVE  \A r \in BufferRows : fell + r \in Lines
<1>1. /\ fell \in Nat /\ cursor \in Nat /\ printed \in Nat /\ clears \in Nat
      /\ fell + cursor <= printed + clears * Rows /\ printed <= MaxPrinted /\ clears <= MaxClears
  BY ConstantsFit DEF TypeOK, WindowFits, BufferRows
<1> QED
  BY <1>1, LinesReach

\* The same after a step.
LEMMA LinesFitNext ==
  ASSUME TypeOK', WindowFits'
  PROVE  \A r \in BufferRows : fell' + r \in Lines
<1>1. /\ fell' \in Nat /\ cursor' \in Nat /\ printed' \in Nat /\ clears' \in Nat
  BY ConstantsFit DEF TypeOK, BufferRows
<1>2. fell' + cursor' <= printed' + clears' * Rows /\ printed' <= MaxPrinted /\ clears' <= MaxClears
  BY DEF WindowFits
<1> QED
  BY <1>1, <1>2, LinesReach

\* Lines that share a place in m_bufferData are a buffer apart.
LEMMA PlacesDiffer ==
  ASSUME NEW n \in Nat, n > 0, NEW k \in Nat, NEW u \in k..(k + n - 1), NEW v \in k..(k + n - 1),
         u % n = v % n
  PROVE  u = v
<1>1. /\ u = n * (u \div n) + (u % n) /\ v = n * (v \div n) + (v % n)
      /\ u \div n \in Int /\ v \div n \in Int /\ u % n \in 0..(n - 1)
  OBVIOUS
<1> DEFINE d == (u \div n) - (v \div n)
<1>2. u - v = n * d /\ d \in Int
  BY <1>1
<1>3. u - v < n /\ v - u < n
  OBVIOUS
<1> HIDE DEF d
<1>4. d < 1
  <2>1. ASSUME d >= 1 PROVE n * d >= n
    BY <2>1, <1>2
  <2> QED
    BY <1>2, <1>3, <2>1
<1>5. d > -1
  <2>1. ASSUME d <= -1 PROVE n * d <= -n
    BY <2>1, <1>2
  <2> QED
    BY <1>2, <1>3, <2>1
<1>6. d = 0
  BY <1>2, <1>4, <1>5
<1> QED
  BY <1>2, <1>6

\* A set of numbers that is not empty has a smallest one: findSyncMarker stops at a
\* row, and scanForDirtyLines has a last line.
LEMMA Smallest ==
  ASSUME NEW T \in SUBSET Nat, T # {}
  PROVE  \E x \in T : \A y \in T : x <= y
<1>1. IsWellFoundedOn(OpToRel(<, Nat), Nat)
  BY NatLessThanWellFounded, Zenon
<1>2. PICK x \in T : \A y \in T : ~(<<y, x>> \in OpToRel(<, Nat))
  BY <1>1, WFMin, Zenon
<1>3. ASSUME NEW y \in T PROVE ~(y < x)
  <2>1. ~(<<y, x>> \in OpToRel(<, Nat))
    BY <1>2
  <2> QED
    BY <2>1 DEF OpToRel
<1> QED
  BY <1>3

\* The scan for dirty lines ends with the last of them.
LEMMA ScannedFits ==
  ASSUME TypeOK, WindowFits, JobFits, pc = "send"
  PROVE  /\ Scanned \in Nat /\ dirtyLineCount <= Scanned
         /\ Scanned <= MaxOf(dirtyLineCount, WindowBottom)
         /\ \A r \in DirtyRows : r < Scanned
<1> DEFINE candidates == {dirtyLineCount} \cup {r + 1 : r \in DirtyRows}
           fits(d) == \A r \in DirtyRows : r < d
           T == {WindowBottom - r : r \in DirtyRows}
<1>1. /\ dirtyLineCount \in Nat /\ WindowBottom \in Nat
      /\ \A r \in DirtyRows : r \in Nat /\ dirtyLineCount <= r /\ r < WindowBottom
  BY ConstantsFit DEF TypeOK, DirtyRows, WindowBottom
<1>2. \E d \in candidates : fits(d)
  <2>1. CASE DirtyRows = {}
    BY <2>1
  <2>2. CASE DirtyRows # {}
    <3>1. T \in SUBSET Nat /\ T # {}
      BY <1>1, <2>2
    <3>2. PICK t \in T : \A y \in T : t <= y
      BY <3>1, Smallest
    <3>3. PICK r \in DirtyRows : t = WindowBottom - r
      OBVIOUS
    <3>4. \A q \in DirtyRows : WindowBottom - r <= WindowBottom - q
      BY <3>2, <3>3
    <3>5. fits(r + 1)
      BY <1>1, <3>4
    <3> QED
      BY <3>5
  <2> QED
    BY <2>1, <2>2
<1>3. Scanned \in candidates /\ fits(Scanned)
  BY <1>2 DEF Scanned
<1> QED
  BY <1>1, <1>3 DEF MaxOf

-----------------------------------------------------------------------------
(* The operators of the model                                              *)

\* findSyncMarker returns a row with the marker at or above the last one, or none.
LEMMA MarkerRowFits ==
  ASSUME TypeOK
  PROVE  /\ MarkerRow \in Int
         /\ MarkerRow # NoMarker => MarkerRow \in 0..syncRow /\ MarkerAt(lines, MarkerRow)
         /\ MarkerRow = NoMarker => \A row \in 0..syncRow : ~MarkerAt(lines, row)
         /\ syncRow = NoMarker => MarkerRow = NoMarker
<1> DEFINE best(row) == MarkerAt(lines, row) /\ \A r \in (row + 1)..syncRow : ~MarkerAt(lines, r)
           T == {syncRow - row : row \in {x \in 0..syncRow : MarkerAt(lines, x)}}
<1>1. syncRow \in Int /\ syncRow >= -1
  BY ConstantsFit DEF TypeOK, BufferRows, NoMarker
<1>2. CASE ~\E row \in 0..syncRow : MarkerAt(lines, row)
  <2>1. MarkerRow = NoMarker
    BY <1>2 DEF MarkerRow
  <2> QED
    BY <2>1, <1>2 DEF NoMarker
<1>3. CASE \E row \in 0..syncRow : MarkerAt(lines, row)
  <2>1. T \in SUBSET Nat /\ T # {}
    BY <1>1, <1>3
  <2>2. PICK t \in T : \A y \in T : t <= y
    BY <2>1, Smallest
  <2>3. PICK row \in 0..syncRow : MarkerAt(lines, row) /\ t = syncRow - row
    OBVIOUS
  <2>4. ASSUME NEW r \in (row + 1)..syncRow, MarkerAt(lines, r) PROVE FALSE
    <3>1. r \in 0..syncRow /\ syncRow - r \in T
      BY <1>1, <2>4
    <3>2. syncRow - row <= syncRow - r
      BY <2>2, <2>3, <3>1
    <3> QED
      BY <1>1, <2>4, <3>2
  <2>5. \E x \in 0..syncRow : best(x)
    BY <2>3, <2>4
  <2>6. MarkerRow = CHOOSE x \in 0..syncRow : best(x)
    BY <1>3 DEF MarkerRow
  <2>7. MarkerRow \in 0..syncRow /\ best(MarkerRow)
    BY <2>5, <2>6
  <2> QED
    BY <1>1, <2>7 DEF NoMarker
<1> QED
  BY <1>2, <1>3

\* The marker is above the window the scraper last saw.
LEMMA MarkerHigh ==
  ASSUME TypeOK, TracksFit, syncRow # NoMarker
  PROVE  /\ syncRow \in BufferRows /\ syncCounter \in Nat /\ syncCounter >= 1
         /\ syncRow + Gap <= dirtyWindowTop /\ dirtyWindowTop \in BufferRows
         /\ dirtyWindowTop + Rows <= BUFFER_LINE_COUNT
BY ConstantsFit DEF TypeOK, TracksFit, BufferRows, NoMarker

\* Where the marker is found, it has come with the buffer, and no further.
LEMMA MarkerFound ==
  ASSUME TypeOK, TracksFit, MarkerInOnePlace, MarkerRow # NoMarker
  PROVE  /\ syncRow # NoMarker /\ MarkerRow \in 0..syncRow
         /\ scrolledCount + (syncRow - MarkerRow) + base <= fell
         /\ \A r \in BufferRows : lines[r] = -syncCounter =>
              MarkerRow <= r /\ r < MarkerRow + SYNC_MARKER_LEN
         /\ \E r \in BufferRows : lines[r] = -syncCounter
<1>1. syncRow # NoMarker /\ MarkerRow \in 0..syncRow /\ MarkerAt(lines, MarkerRow)
  BY MarkerRowFits
<1>2. /\ syncRow \in BufferRows /\ syncRow + Gap <= dirtyWindowTop
      /\ dirtyWindowTop \in BufferRows /\ dirtyWindowTop + Rows <= BUFFER_LINE_COUNT
  BY <1>1, MarkerHigh
<1>3. PICK m \in Int :
         /\ m <= syncRow /\ scrolledCount + (syncRow - m) + base <= fell
         /\ \A r \in BufferRows : lines[r] = -syncCounter => m <= r /\ r < m + SYNC_MARKER_LEN
  BY <1>1 DEF MarkerInOnePlace
<1>4. /\ MarkerRow \in BufferRows /\ MarkerRow + (SYNC_MARKER_LEN - 1) \in BufferRows
      /\ 0 \in 0..(SYNC_MARKER_LEN - 1) /\ SYNC_MARKER_LEN - 1 \in 0..(SYNC_MARKER_LEN - 1)
  BY <1>1, <1>2, ConstantsFit DEF BufferRows
<1>5. lines[MarkerRow + 0] = -syncCounter /\ lines[MarkerRow + (SYNC_MARKER_LEN - 1)] = -syncCounter
  BY <1>1, <1>4 DEF MarkerAt
<1>6. lines[MarkerRow] = -syncCounter
  BY <1>5, <1>1
<1>7. m <= MarkerRow /\ MarkerRow + (SYNC_MARKER_LEN - 1) < m + SYNC_MARKER_LEN
  BY <1>3, <1>4, <1>5, <1>6
<1>8. m = MarkerRow
  BY <1>1, <1>7, ConstantsFit
<1> QED
  BY <1>1, <1>3, <1>4, <1>6, <1>8

\* While the tracking holds, the marker is found where it has scrolled to.
LEMMA MarkerTracked ==
  ASSUME TypeOK, TracksFit, MarkerInOnePlace, TrackedInv
  PROVE  /\ ~MarkerLost
         /\ syncRow # NoMarker => MarkerRow = MarkerNow
         /\ fell = base + scrolledCount + (syncRow - MarkerRow)
<1>0. fell \in Nat /\ base \in Nat /\ scrolledCount \in Nat /\ scrolledCount + base <= fell
  BY DEF TypeOK, TracksFit
<1>1. CASE syncRow = NoMarker
  <2>1. MarkerRow = NoMarker /\ fell = base + scrolledCount
    BY <1>1, MarkerRowFits DEF TrackedInv, InStep
  <2> QED
    BY <1>0, <1>1, <2>1 DEF MarkerLost, NoMarker
<1>2. CASE syncRow # NoMarker
  <2>1. /\ syncRow \in BufferRows /\ syncRow + Gap <= dirtyWindowTop
        /\ dirtyWindowTop \in BufferRows /\ dirtyWindowTop + Rows <= BUFFER_LINE_COUNT
    BY <1>2, MarkerHigh
  <2>2. /\ MarkerNow \in 0..syncRow
        /\ \A r \in MarkerNow..(MarkerNow + SYNC_MARKER_LEN - 1) : lines[r] = -syncCounter
    BY <1>0, <1>2, <2>1, ConstantsFit DEF TrackedInv, MarkerNow, BufferRows
  <2>3. ASSUME NEW j \in 0..(SYNC_MARKER_LEN - 1) PROVE lines[MarkerNow + j] = -syncCounter
    <3>1. MarkerNow + j \in MarkerNow..(MarkerNow + SYNC_MARKER_LEN - 1)
      BY <2>2, ConstantsFit
    <3> QED
      BY <2>2, <3>1
  <2>4. MarkerAt(lines, MarkerNow)
    BY <2>3 DEF MarkerAt
  <2>5. MarkerRow # NoMarker
    BY <2>2, <2>4, MarkerRowFits
  <2>6. /\ MarkerRow \in 0..syncRow
        /\ \A r \in BufferRows : lines[r] = -syncCounter =>
             MarkerRow <= r /\ r < MarkerRow + SYNC_MARKER_LEN
    BY <2>5, MarkerFound
  <2>7. /\ MarkerNow \in BufferRows /\ MarkerNow + (SYNC_MARKER_LEN - 1) \in BufferRows
    BY <2>1, <2>2, ConstantsFit DEF BufferRows
  <2>8. lines[MarkerNow] = -syncCounter /\ lines[MarkerNow + (SYNC_MARKER_LEN - 1)] = -syncCounter
    BY <2>2, <2>3, ConstantsFit
  <2>9. MarkerRow = MarkerNow
    <3>1. MarkerRow <= MarkerNow /\ MarkerNow + (SYNC_MARKER_LEN - 1) < MarkerRow + SYNC_MARKER_LEN
      BY <2>6, <2>7, <2>8
    <3> QED
      BY <2>2, <2>6, <3>1, ConstantsFit
  <2> QED
    BY <1>0, <1>2, <2>1, <2>5, <2>9 DEF MarkerLost, MarkerNow, BufferRows
<1> QED
  BY <1>1, <1>2

\* What is dirty is in the buffer, and covers what must be read.
LEMMA DirtyFits ==
  ASSUME TypeOK, WindowFits, NEW dirty \in 0..BUFFER_LINE_COUNT, NEW dirtyTop \in Int,
         NEW moved \in BOOLEAN
  PROVE  /\ Dirty(dirty, dirtyTop, moved) \in 1..BUFFER_LINE_COUNT
         /\ Dirty(dirty, dirtyTop, moved) >= dirty
         /\ Dirty(dirty, dirtyTop, moved) >= info.top
<1>1. info.top \in Nat /\ info.top + Rows <= BUFFER_LINE_COUNT /\ info.cursor \in BufferRows
  BY DEF TypeOK, WindowFits
<1> QED
  BY <1>1, ConstantsFit DEF Dirty, MaxOf, WindowBottom, BufferRows

\* What is read has the lines to scrape and the last dirty one.
LEMMA JobReads ==
  ASSUME TypeOK, WindowFits, NEW scraped \in Nat, NEW scrolled \in Nat,
         NEW dirty \in 1..BUFFER_LINE_COUNT, NEW create \in BOOLEAN,
         scrolled <= scraped, scraped - scrolled <= info.top
  PROVE  /\ Job(scraped, scrolled, dirty, create) \in
              [first : Nat, create : BOOLEAN, readTop : BufferRows, readStop : 0..BUFFER_LINE_COUNT]
         /\ Job(scraped, scrolled, dirty, create).first = scraped
         /\ Job(scraped, scrolled, dirty, create).create = create
         /\ Job(scraped, scrolled, dirty, create).readTop = MinOf(scraped - scrolled, dirty - 1)
         /\ Job(scraped, scrolled, dirty, create).readStop = MaxOf(WindowBottom, dirty)
<1>1. info.top \in Nat /\ info.top + Rows <= BUFFER_LINE_COUNT
  BY DEF TypeOK, WindowFits
<1>2. MinOf(scraped, info.top + scrolled) = scraped
  BY <1>1 DEF MinOf
<1>3. Job(scraped, scrolled, dirty, create) =
        [first |-> scraped, create |-> create,
         readTop |-> MinOf(scraped - scrolled, dirty - 1), readStop |-> MaxOf(WindowBottom, dirty)]
  BY <1>2 DEF Job
<1>4. MinOf(scraped - scrolled, dirty - 1) \in BufferRows /\ MaxOf(WindowBottom, dirty) \in 0..BUFFER_LINE_COUNT
  BY <1>1, ConstantsFit DEF MinOf, MaxOf, WindowBottom, BufferRows
<1> HIDE DEF MinOf, MaxOf, Job
<1> QED
  BY <1>3, <1>4

\* What the scraper counts when it has found its marker.
LEMMA MarkerMoves ==
  ASSUME TypeOK, TracksFit, MarkerInOnePlace, pc = "find", ~MarkerLost,
         NEW scrolled, scrolled = scrolledCount + (syncRow - MarkerRow)
  PROVE  /\ MarkerRow \in BufferRows \cup {NoMarker} /\ MarkerRow <= syncRow
         /\ MarkerRow = NoMarker <=> syncRow = NoMarker
         /\ MarkerRow = NoMarker => scrolled = scrolledCount
         /\ scrolled \in Nat /\ scrolledCount <= scrolled /\ scrolled <= scrapedLineCount
         /\ scrolled + base <= fell
         /\ scrapedLineCount - scrolled <= MaxOf(dirtyWindowTop, 0)
         /\ syncRow # NoMarker => MarkerRow + Gap <= scrapedLineCount - scrolled
<1>0. /\ fell \in Nat /\ base \in Nat /\ scrolledCount \in Nat /\ scrapedLineCount \in Nat
      /\ scrolledCount <= scrapedLineCount /\ scrolledCount + base <= fell
      /\ scrapedLineCount - scrolledCount <= MaxOf(dirtyWindowTop, 0)
      /\ MaxOf(dirtyWindowTop, 0) \in Int
  BY ConstantsFit DEF TypeOK, TracksFit, MaxOf, BufferRows
<1>1. CASE syncRow = NoMarker
  <2>1. MarkerRow = NoMarker
    BY <1>1, MarkerRowFits
  <2> QED
    BY <1>0, <1>1, <2>1 DEF NoMarker
<1>2. CASE syncRow # NoMarker
  <2>1. MarkerRow # NoMarker
    BY <1>2 DEF MarkerLost
  <2>2. /\ MarkerRow \in 0..syncRow /\ scrolledCount + (syncRow - MarkerRow) + base <= fell
    BY <2>1, MarkerFound
  <2>3. syncRow \in BufferRows /\ syncRow + Gap <= scrapedLineCount - scrolledCount
    BY <1>2 DEF TypeOK, TracksFit
  <2> QED
    BY <1>0, <1>2, <2>1, <2>2, <2>3, ConstantsFit DEF BufferRows
<1> QED
  BY <1>1, <1>2

\* What is left to scrape begins at the window's top or above it.
LEMMA FirstAboveTop ==
  ASSUME TypeOK, ~MovedUp
  PROVE  MaxOf(dirtyWindowTop, 0) <= info.top
BY ConstantsFit DEF TypeOK, MovedUp, MaxOf, BufferRows

\* What Find computes.
LEMMA FindFits ==
  ASSUME TypeOK, WindowFits, TracksFit, MarkerInOnePlace, Find
  PROVE  /\ dirtyLineCount' \in 1..BUFFER_LINE_COUNT
         /\ dirtyLineCount' >= dirtyLineCount /\ dirtyLineCount' >= info.top
         /\ job' \in [first : Nat, create : BOOLEAN, readTop : BufferRows, readStop : 0..BUFFER_LINE_COUNT]
         /\ job'.first = scrapedLineCount /\ job'.create = ShouldCreate(MarkerRow)
         /\ job'.readTop = MinOf(scrapedLineCount - scrolledCount', dirtyLineCount' - 1)
         /\ job'.readStop = MaxOf(WindowBottom, dirtyLineCount')
<1>0. /\ pc = "find" /\ ~MarkerLost /\ ~MovedUp
      /\ scrolledCount' = scrolledCount + (syncRow - MarkerRow)
      /\ dirtyLineCount' = Dirty(dirtyLineCount, dirtyWindowTop, MarkerRow # syncRow)
      /\ job' = Job(scrapedLineCount, scrolledCount', dirtyLineCount', ShouldCreate(MarkerRow))
  BY DEF Find
<1>1. /\ dirtyLineCount \in 0..BUFFER_LINE_COUNT /\ dirtyWindowTop \in Int /\ (MarkerRow # syncRow) \in BOOLEAN
      /\ scrapedLineCount \in Nat /\ ShouldCreate(MarkerRow) \in BOOLEAN /\ info.top \in Nat
  BY ConstantsFit DEF TypeOK, BufferRows, ShouldCreate
<1>2. /\ dirtyLineCount' \in 1..BUFFER_LINE_COUNT
      /\ dirtyLineCount' >= dirtyLineCount /\ dirtyLineCount' >= info.top
  BY <1>0, <1>1, DirtyFits
<1>3. scrolledCount' \in Nat /\ scrolledCount' <= scrapedLineCount /\ scrapedLineCount - scrolledCount' <= info.top
  <2> DEFINE scrolled == scrolledCount + (syncRow - MarkerRow)
  <2>1. /\ scrolled \in Nat /\ scrolled <= scrapedLineCount
        /\ scrapedLineCount - scrolled <= MaxOf(dirtyWindowTop, 0)
    BY <1>0, MarkerMoves
  <2>2. MaxOf(dirtyWindowTop, 0) <= info.top /\ MaxOf(dirtyWindowTop, 0) \in Int
    BY <1>0, <1>1, FirstAboveTop DEF MaxOf
  <2> QED
    BY <1>0, <1>1, <2>1, <2>2
<1>4. ASSUME NEW scrolled, scrolled = scrolledCount', NEW dirty, dirty = dirtyLineCount',
             NEW create, create = ShouldCreate(MarkerRow), NEW j, j = job'
      PROVE  /\ j \in [first : Nat, create : BOOLEAN, readTop : BufferRows, readStop : 0..BUFFER_LINE_COUNT]
             /\ j.first = scrapedLineCount /\ j.create = create
             /\ j.readTop = MinOf(scrapedLineCount - scrolled, dirty - 1)
             /\ j.readStop = MaxOf(WindowBottom, dirty)
  <2>1. /\ scrolled \in Nat /\ dirty \in 1..BUFFER_LINE_COUNT /\ create \in BOOLEAN
        /\ scrolled <= scrapedLineCount /\ scrapedLineCount - scrolled <= info.top
    BY <1>1, <1>2, <1>3, <1>4
  <2>2. j = Job(scrapedLineCount, scrolled, dirty, create)
    BY <1>0, <1>4
  <2> QED
    BY <1>1, <2>1, <2>2, JobReads
<1> QED
  BY <1>2, <1>4

\* What a reset computes.
LEMMA ResetFits ==
  ASSUME TypeOK, WindowFits, FindReset
  PROVE  /\ dirtyLineCount' \in 1..BUFFER_LINE_COUNT /\ dirtyLineCount' >= info.top
         /\ job' \in [first : Nat, create : BOOLEAN, readTop : BufferRows, readStop : 0..BUFFER_LINE_COUNT]
         /\ job'.first = info.top /\ job'.create = ShouldCreate(MarkerRow)
         /\ job'.readTop = MinOf(info.top, dirtyLineCount' - 1)
         /\ job'.readStop = MaxOf(WindowBottom, dirtyLineCount')
<1>0. /\ dirtyLineCount' = Dirty(0, -1, FALSE)
      /\ job' = Job(info.top, 0, dirtyLineCount', ShouldCreate(MarkerRow))
  BY DEF FindReset
<1>1. info.top \in Nat /\ ShouldCreate(MarkerRow) \in BOOLEAN
  BY DEF TypeOK, ShouldCreate
<1>2. dirtyLineCount' \in 1..BUFFER_LINE_COUNT /\ dirtyLineCount' >= info.top
  <2>1. 0 \in 0..BUFFER_LINE_COUNT /\ -1 \in Int /\ FALSE \in BOOLEAN
    BY ConstantsFit
  <2>2. Dirty(0, -1, FALSE) \in 1..BUFFER_LINE_COUNT /\ Dirty(0, -1, FALSE) >= info.top
    BY <2>1, DirtyFits, Zenon
  <2> QED
    BY <1>0, <2>2
<1>3. ASSUME NEW dirty, dirty = dirtyLineCount', NEW create, create = ShouldCreate(MarkerRow), NEW j, j = job'
      PROVE  /\ j \in [first : Nat, create : BOOLEAN, readTop : BufferRows, readStop : 0..BUFFER_LINE_COUNT]
             /\ j.first = info.top /\ j.create = create
             /\ j.readTop = MinOf(info.top, dirty - 1)
             /\ j.readStop = MaxOf(WindowBottom, dirty)
  <2>1. dirty \in 1..BUFFER_LINE_COUNT /\ create \in BOOLEAN /\ 0 <= info.top /\ info.top - 0 = info.top /\ 0 \in Nat
    BY <1>1, <1>2, <1>3
  <2>2. j = Job(info.top, 0, dirty, create)
    BY <1>0, <1>3
  <2>3. info.top - 0 <= info.top
    BY <1>1
  <2> QED
    BY <1>1, <2>1, <2>2, <2>3, JobReads
<1> QED
  BY <1>2, <1>3

\* The lines that are sent: those read, at most a buffer of them.
LEMMA SentFits ==
  ASSUME TypeOK, WindowFits, JobFits, TracksFit, pc = "send"
  PROVE  /\ StopLine \in Nat /\ StopLine <= WindowBottom + scrolledCount
         /\ info.top + scrolledCount <= StopLine
         /\ job.first = scrapedLineCount /\ scrapedLineCount <= info.top + scrolledCount
         /\ \A v \in scrapedLineCount..(StopLine - 1) :
              v - scrolledCount \in job.readTop..(job.readStop - 1)
<1>1. /\ Scanned \in Nat /\ dirtyLineCount <= Scanned /\ info.top <= dirtyLineCount
      /\ dirtyLineCount \in Nat
      /\ Scanned <= MaxOf(dirtyLineCount, WindowBottom)
  BY ScannedFits DEF JobFits, Scraping, TypeOK
<1>2. /\ info.top \in Nat /\ scrolledCount \in Nat /\ scrapedLineCount \in Nat
      /\ scrolledCount <= scrapedLineCount /\ WindowBottom \in Nat /\ info.top <= WindowBottom
  BY ConstantsFit DEF TypeOK, TracksFit, WindowBottom
<1>3. /\ dirtyWindowTop = info.top /\ job.first = scrapedLineCount
      /\ job.readTop = MinOf(scrapedLineCount - scrolledCount, dirtyLineCount - 1)
      /\ job.readStop = MaxOf(WindowBottom, dirtyLineCount)
  BY DEF JobFits, Scraping
<1>4. scrapedLineCount - scrolledCount <= info.top
  BY <1>2, <1>3 DEF TracksFit, MaxOf
<1>5. StopLine \in Nat /\ StopLine <= WindowBottom + scrolledCount /\ info.top + scrolledCount <= StopLine
  BY <1>1, <1>2 DEF StopLine, MinOf
<1>6. ASSUME NEW v \in scrapedLineCount..(StopLine - 1)
      PROVE  v - scrolledCount \in job.readTop..(job.readStop - 1)
  BY <1>1, <1>2, <1>3, <1>5 DEF MinOf, MaxOf
<1> QED
  BY <1>2, <1>3, <1>4, <1>5, <1>6

-----------------------------------------------------------------------------
(* What holds whatever happens                                             *)

\* The scraper starts with a blank console, no marker and nothing sent.
LEMMA StartsWell == Init => IInv
<1> SUFFICES ASSUME Init PROVE IInv
  OBVIOUS
<1>1. TypeOK /\ WindowFits /\ Phases /\ JobFits /\ TracksFit
  <2>1. clears * Rows = 0
    BY ConstantsFit DEF Init
  <2>2. 0 \in BufferRows /\ 0 \in 0..BUFFER_LINE_COUNT
    BY ConstantsFit DEF BufferRows
  <2>3. info = [top |-> 0, cursor |-> 0]
        /\ job = [first |-> 0, create |-> FALSE, readTop |-> 0, readStop |-> 0]
    BY DEF Init
  <2>4. info \in [top : Nat, cursor : BufferRows]
        /\ job \in [first : Nat, create : BOOLEAN, readTop : BufferRows, readStop : 0..BUFFER_LINE_COUNT]
    BY <2>2, <2>3
  <2>5. TypeOK
    BY <2>2, <2>4 DEF Init, TypeOK, NoMarker
  <2>6. WindowFits
    BY <2>1, <2>2, ConstantsFit DEF Init, WindowFits, Window
  <2>7. Phases /\ JobFits
    BY DEF Init, Phases, JobFits, Scraping
  <2>8. TracksFit
    BY ConstantsFit DEF Init, TracksFit, NoMarker, MaxOf
  <2> QED
    BY <2>5, <2>6, <2>7, <2>8
<1>2. MarkerInOnePlace /\ SentRecorded /\ Unwritten
  <2>1. MarkerInOnePlace
    BY DEF Init, MarkerInOnePlace, NoMarker
  <2>2. ASSUME NEW v \in Lines PROVE shown[v] = 0 /\ written[v] = 0 /\ v \in Nat /\ v > -1
    BY ConstantsFit DEF Init, Lines
  <2>3. SentRecorded
    BY <2>2 DEF Init, SentRecorded
  <2>4. Unwritten
    BY <2>2 DEF Unwritten
  <2> QED
    BY <2>1, <2>3, <2>4
<1>3. \A r \in BufferRows : fell + r \in Lines
  BY <1>1, LinesFit
<1>4. UntornInv
  BY <1>3, ConstantsFit DEF Init, UntornInv, TopSeen, WrittenBelow, NoStaleMarker, MarkerClose, SeenTop, Scraping, NoMarker
<1>5. TrackedInv /\ KeptInv
  BY <1>3, ConstantsFit DEF Init, TrackedInv, KeptInv, StillToScrape, ReadAsWritten, SentAsWritten, SeenTop, Scraping, InStep, NoMarker
<1> QED
  BY <1>1, <1>2, <1>4, <1>5 DEF IInv

\* The console stays as it is in a step of the scraper but one.
LEMMA ConsoleKept ==
  ASSUME Scrape
  PROVE  /\ UNCHANGED <<top, cursor, printed, rewrites, clears, fell, written, torn, isNewW10>>
         /\ ~Mark => lines' = lines
BY DEF Scrape, BeginScrape, ReadInfo, FindReset, FindBail, Find, Read, CheckInfo, CheckMarker, Mark, Send,
     consoleVars

\* And the scraper in a step of a program.
LEMMA ScraperKept ==
  ASSUME Program
  PROVE  UNCHANGED <<pc, info, job, readBuffer, trackVars, shown, frozen>> /\ ~frozen
BY DEF Program, PrintLine, Clear, Rewrite

\* A line that is printed, row by row.
LEMMA PrintFits ==
  ASSUME TypeOK, WindowFits, PrintLine
  PROVE  /\ fell + cursor \in Lines /\ cursor \in BufferRows /\ top <= cursor
         /\ Text(fell + cursor) \in Nat /\ Text(fell + cursor) > 0
         /\ written' = [written EXCEPT ![fell + cursor] = Text(fell + cursor)]
         /\ printed < MaxPrinted /\ printed' = printed + 1
         /\ \/ /\ cursor = BUFFER_LINE_COUNT - 1 /\ fell' = fell + 1
               /\ top = BUFFER_LINE_COUNT - Rows
               /\ UNCHANGED <<top, cursor>>
               /\ lost' = (lost \/ syncRow = NoMarker \/ lines[0] = -syncCounter)
               /\ lines' \in [BufferRows -> Int]
               /\ \A r \in BufferRows :
                    lines'[r] = IF r + 1 \notin BufferRows THEN 0
                                ELSE IF r + 1 = cursor THEN Text(fell + cursor) ELSE lines[r + 1]
            \/ /\ cursor + 1 \in BufferRows /\ cursor' = cursor + 1
               /\ top' = MaxOf(top, cursor + 2 - Rows)
               /\ UNCHANGED <<fell, lost>>
               /\ lines' \in [BufferRows -> Int]
               /\ \A r \in BufferRows :
                    lines'[r] = IF r = cursor THEN Text(fell + cursor) ELSE lines[r]
<1>1. /\ cursor \in BufferRows /\ fell \in Nat /\ fell + cursor \in Lines /\ top \in Nat
      /\ top <= cursor /\ cursor < top + Rows /\ top + Rows <= BUFFER_LINE_COUNT
      /\ lines \in [BufferRows -> Int]
  BY ConstantsFit, LinesFit DEF TypeOK, WindowFits, Window, BufferRows
<1>2. Text(fell + cursor) \in Nat /\ Text(fell + cursor) > 0
  BY <1>1, ConstantsFit DEF Text, BufferRows
<1> DEFINE new == [lines EXCEPT ![cursor] = Text(fell + cursor)]
<1>3. /\ new \in [BufferRows -> Int]
      /\ \A r \in BufferRows : new[r] = IF r = cursor THEN Text(fell + cursor) ELSE lines[r]
  BY <1>1, <1>2
<1>4. CASE cursor = BUFFER_LINE_COUNT - 1
  <2>1. /\ lines' = [r \in BufferRows |-> IF r + 1 \in BufferRows THEN new[r + 1] ELSE 0]
        /\ lost' = (lost \/ syncRow = NoMarker \/ lines[0] = -syncCounter)
        /\ fell' = fell + 1 /\ UNCHANGED <<top, cursor>>
    BY <1>4, Zenon DEF PrintLine
  <2>2. top = BUFFER_LINE_COUNT - Rows
    BY <1>1, <1>4, ConstantsFit DEF BufferRows
  <2> HIDE DEF new
  <2>3. /\ lines' \in [BufferRows -> Int]
        /\ \A r \in BufferRows :
             lines'[r] = IF r + 1 \notin BufferRows THEN 0
                         ELSE IF r + 1 = cursor THEN Text(fell + cursor) ELSE lines[r + 1]
    BY <1>3, <2>1
  <2> QED
    BY <1>1, <1>2, <1>4, <2>1, <2>2, <2>3 DEF PrintLine
<1>5. CASE cursor # BUFFER_LINE_COUNT - 1
  <2>1. cursor + 1 \in BufferRows
    BY <1>1, <1>5, ConstantsFit DEF BufferRows
  <2> QED
    BY <1>1, <1>2, <1>3, <1>5, <2>1 DEF PrintLine
<1> QED
  BY <1>4, <1>5

\* A row that is rewritten.
LEMMA RewriteFits ==
  ASSUME TypeOK, WindowFits, NEW row \in BufferRows, Rewrite(row)
  PROVE  /\ fell + row \in Lines /\ top <= row /\ row < top + Rows
         /\ \E c \in Nat :
              /\ lines' \in [BufferRows -> Int] /\ written' \in [Lines -> Nat]
              /\ \A r \in BufferRows : lines'[r] = IF r = row THEN c ELSE lines[r]
              /\ \A a \in Lines : written'[a] = IF a = fell + row THEN c ELSE written[a]
         /\ UNCHANGED <<top, cursor, printed, clears, fell, lost, torn>>
<1>1. /\ fell + row \in Lines /\ top \in Nat
      /\ lines \in [BufferRows -> Int] /\ written \in [Lines -> Nat]
  BY LinesFit DEF TypeOK
<1>2. PICK c \in {0, Text(MaxPrinted + BUFFER_LINE_COUNT)} :
        lines' = [lines EXCEPT ![row] = c] /\ written' = [written EXCEPT ![fell + row] = c]
  BY DEF Rewrite
<1>3. c \in Nat
  BY ConstantsFit DEF Text
<1>4. row \in Window(top) /\ row \in Nat /\ UNCHANGED <<top, cursor, printed, clears, fell, lost, torn>>
  BY ConstantsFit DEF Rewrite, BufferRows
<1>5. top <= row /\ row < top + Rows
  BY <1>1, <1>4, ConstantsFit DEF Window
<1>6. /\ lines' \in [BufferRows -> Int] /\ written' \in [Lines -> Nat]
      /\ \A r \in BufferRows : lines'[r] = IF r = row THEN c ELSE lines[r]
      /\ \A a \in Lines : written'[a] = IF a = fell + row THEN c ELSE written[a]
  BY <1>1, <1>2, <1>3
<1> QED
  BY <1>1, <1>3, <1>4, <1>5, <1>6

\* The rows of a new marker.
LEMMA MarkFits ==
  ASSUME TypeOK, WindowFits, JobFits, Mark, job.create
  PROVE  /\ NewSyncRow \in BufferRows /\ NewSyncRow >= 1 /\ NewSyncRow + Gap = info.top
         /\ syncRow' = NewSyncRow /\ syncCounter' = syncCounter + 1
         /\ lines' \in [BufferRows -> Int]
         /\ \A r \in BufferRows :
              /\ NewSyncRow <= r /\ r < NewSyncRow + SYNC_MARKER_LEN => lines'[r] = -syncCounter'
              /\ r = NewSyncRow - 1 => lines'[r] = 0
              /\ r < NewSyncRow - 1 \/ r >= NewSyncRow + SYNC_MARKER_LEN => lines'[r] = lines[r]
<1>1. /\ info.top \in Nat /\ info.top + Rows <= BUFFER_LINE_COUNT /\ pc = "mark" /\ NewSyncRow >= 1
      /\ lines \in [BufferRows -> Int] /\ syncCounter \in Nat
  BY DEF TypeOK, WindowFits, JobFits, Scraping, Mark
<1>2. NewSyncRow \in BufferRows /\ NewSyncRow + Gap = info.top
  <2>1. NewSyncRow = info.top - SYNC_MARKER_LEN - SYNC_MARKER_MARGIN
    BY DEF NewSyncRow
  <2> DEFINE n == NewSyncRow
             t == info.top
  <2>2. n = t - SYNC_MARKER_LEN - SYNC_MARKER_MARGIN /\ t \in Nat /\ n >= 1 /\ t + Rows <= BUFFER_LINE_COUNT
    BY <1>1, <2>1
  <2> HIDE DEF n, t
  <2>3. n \in 0..(BUFFER_LINE_COUNT - 1) /\ n + Gap = t
    BY <2>2, ConstantsFit
  <2> QED
    BY <2>3 DEF n, t, BufferRows
<1>3. /\ syncRow' = NewSyncRow /\ syncCounter' = syncCounter + 1
      /\ lines' = [r \in BufferRows |->
                 CASE r \in NewSyncRow..(NewSyncRow + SYNC_MARKER_LEN - 1) -> -(syncCounter + 1)
                   [] r = NewSyncRow - 1 -> 0
                   [] OTHER -> lines[r]]
  BY DEF Mark, CreateSyncMarker
<1> DEFINE n == NewSyncRow
<1> HIDE DEF n
<1>4. n \in BufferRows /\ lines' = [r \in BufferRows |->
                 CASE r \in n..(n + SYNC_MARKER_LEN - 1) -> -(syncCounter + 1)
                   [] r = n - 1 -> 0
                   [] OTHER -> lines[r]]
  BY <1>2, <1>3 DEF n
<1>5. /\ lines' \in [BufferRows -> Int]
      /\ \A r \in BufferRows :
              /\ n <= r /\ r < n + SYNC_MARKER_LEN => lines'[r] = -(syncCounter + 1)
              /\ r = n - 1 => lines'[r] = 0
              /\ r < n - 1 \/ r >= n + SYNC_MARKER_LEN => lines'[r] = lines[r]
  <2>1. n \in Nat /\ \A r \in BufferRows : r \in Nat
    BY <1>4 DEF BufferRows
  <2>2. ASSUME NEW r \in BufferRows
        PROVE /\ lines'[r] \in Int
              /\ n <= r /\ r < n + SYNC_MARKER_LEN => lines'[r] = -(syncCounter + 1)
              /\ r = n - 1 => lines'[r] = 0
              /\ r < n - 1 \/ r >= n + SYNC_MARKER_LEN => lines'[r] = lines[r]
    <3>1. lines[r] \in Int /\ r \in Nat
      BY <1>1, <2>1
    <3>2. lines'[r] = CASE r \in n..(n + SYNC_MARKER_LEN - 1) -> -(syncCounter + 1)
                        [] r = n - 1 -> 0
                        [] OTHER -> lines[r]
      BY <1>4
    <3>3. r \in n..(n + SYNC_MARKER_LEN - 1) <=> n <= r /\ r < n + SYNC_MARKER_LEN
      BY <2>1, <3>1, ConstantsFit
    <3>4. ~(r = n - 1 /\ n <= r)
      BY <2>1, <3>1
    <3> QED
      BY <1>1, <2>1, <3>1, <3>2, <3>3, <3>4, ConstantsFit
  <2> QED
    BY <1>4, <2>2
<1> QED
  BY <1>1, <1>2, <1>3, <1>5 DEF n

\* Every step keeps the types.
LEMMA TypeStep ==
  ASSUME TypeOK, WindowFits, JobFits, TracksFit, MarkerInOnePlace, [Next]_vars
  PROVE  TypeOK'
<1>0. /\ info \in [top : Nat, cursor : BufferRows] /\ info.top \in Nat
      /\ readBuffer = readBuffer
      /\ \A r \in BufferRows : r \in Nat
  BY DEF TypeOK, BufferRows
<1>1. CASE PrintLine
  <2>1. /\ lines' \in [BufferRows -> Int] /\ written' \in [Lines -> Nat] /\ top' \in Nat
        /\ cursor' \in BufferRows /\ fell' \in Nat /\ lost' \in BOOLEAN /\ printed' \in Nat
    <3>1. written' \in [Lines -> Nat] /\ lines' \in [BufferRows -> Int]
      BY <1>1, PrintFits DEF TypeOK
    <3>2. printed' \in Nat /\ cursor \in BufferRows /\ top \in Nat /\ fell \in Nat /\ lost \in BOOLEAN
      BY <1>1, PrintFits DEF TypeOK
    <3>3. \/ fell' = fell + 1 /\ UNCHANGED <<top, cursor>>
             /\ lost' = (lost \/ syncRow = NoMarker \/ lines[0] = -syncCounter)
          \/ /\ cursor + 1 \in BufferRows /\ cursor' = cursor + 1
             /\ top' = MaxOf(top, cursor + 2 - Rows) /\ UNCHANGED <<fell, lost>>
      BY <1>1, PrintFits
    <3>4. top' \in Nat /\ cursor' \in BufferRows /\ fell' \in Nat
      BY <1>0, <3>2, <3>3, ConstantsFit DEF MaxOf
    <3>5. lost' \in BOOLEAN
      BY <3>2, <3>3
    <3> QED
      BY <3>1, <3>2, <3>4, <3>5
  <2> QED
    BY <1>1, <2>1 DEF TypeOK, PrintLine, trackVars
<1>2. CASE Clear
  <2>1. /\ lines' \in [BufferRows -> Int] /\ top' \in Nat /\ cursor' \in BufferRows
        /\ fell' \in Nat /\ lost' \in BOOLEAN /\ torn' \in BOOLEAN /\ clears' \in Nat
    BY <1>2, ConstantsFit DEF TypeOK, Clear, BufferRows
  <2> QED
    BY <1>2, <2>1 DEF TypeOK, Clear, trackVars
<1>3. ASSUME NEW row \in BufferRows, Rewrite(row) PROVE TypeOK'
  <2>1. /\ lines' \in [BufferRows -> Int] /\ written' \in [Lines -> Nat] /\ rewrites' \in Nat
    <3>1. lines' \in [BufferRows -> Int] /\ written' \in [Lines -> Nat]
      BY <1>3, RewriteFits
    <3>2. rewrites' \in Nat
      BY <1>3 DEF TypeOK, Rewrite
    <3> QED
      BY <3>1, <3>2
  <2> QED
    BY <1>3, <2>1 DEF TypeOK, Rewrite, trackVars
<1>4. CASE BeginScrape \/ CheckInfo \/ CheckMarker
  <2>1. frozen' \in BOOLEAN
    BY <1>4 DEF TypeOK, BeginScrape, CheckInfo, CheckMarker, Bail
  <2> QED
    BY <1>4, <2>1 DEF TypeOK, BeginScrape, CheckInfo, CheckMarker, Bail, consoleVars, trackVars
<1>5. CASE ReadInfo
  <2>1. info' \in [top : Nat, cursor : BufferRows]
    BY <1>5 DEF TypeOK, ReadInfo
  <2> QED
    BY <1>5, <2>1 DEF TypeOK, ReadInfo, consoleVars, trackVars
<1>6. CASE FindReset
  <2>1. /\ dirtyLineCount' \in 0..BUFFER_LINE_COUNT
        /\ job' \in [first : Nat, create : BOOLEAN, readTop : BufferRows, readStop : 0..BUFFER_LINE_COUNT]
    BY <1>6, ResetFits, ConstantsFit
  <2>2. /\ info.top \in BufferRows /\ shown' \in [Lines -> Int] /\ syncRow' = NoMarker
        /\ scrapedLineCount' \in Nat /\ scrolledCount' \in Nat /\ maxBufferedLine' \in Nat \cup {-1}
        /\ dirtyWindowTop' = info.top /\ origin' \in Nat /\ base' \in Nat /\ lost' \in BOOLEAN
    <3>1. info.top \in BufferRows
      BY <1>0, ConstantsFit DEF WindowFits, BufferRows
    <3>2. fell \in Nat
      BY DEF TypeOK
    <3>3. shown' = [v \in Lines |-> 0]
      BY <1>6 DEF FindReset, ResetTracking
    <3>4. shown' \in [Lines -> Int]
      BY <3>3
    <3> QED
      BY <1>0, <1>6, <3>1, <3>2, <3>4 DEF FindReset, ResetTracking
  <2> QED
    BY <1>6, <2>1, <2>2 DEF TypeOK, FindReset, ResetTracking, consoleVars
<1>7. CASE FindBail
  <2>1. CASE MarkerLost
    BY <1>7, <2>1 DEF TypeOK, FindBail, Bail, consoleVars
  <2>2. CASE ~MarkerLost
    <3>1. /\ syncRow' \in BufferRows \cup {NoMarker} /\ scrolledCount' \in Nat
      <4>1. /\ scrolledCount' = scrolledCount + (syncRow - MarkerRow) /\ syncRow' = MarkerRow /\ pc = "find"
        BY <1>7, <2>2 DEF FindBail
      <4> DEFINE s == scrolledCount + (syncRow - MarkerRow)
      <4>2. s \in Nat /\ MarkerRow \in BufferRows \cup {NoMarker}
        BY <2>2, <4>1, MarkerMoves
      <4> QED
        BY <4>1, <4>2
    <3>2. dirtyLineCount' \in 0..BUFFER_LINE_COUNT
      BY <1>0, <1>7, <2>2, ConstantsFit DEF FindBail, TypeOK, WindowFits, WindowBottom, MaxOf
    <3> QED
      BY <1>7, <2>2, <3>1, <3>2 DEF TypeOK, FindBail, Bail, consoleVars
  <2> QED
    BY <2>1, <2>2
<1>8. CASE Find
  <2>1. /\ syncRow' \in BufferRows \cup {NoMarker} /\ scrolledCount' \in Nat
    <3>1. /\ scrolledCount' = scrolledCount + (syncRow - MarkerRow) /\ syncRow' = MarkerRow
          /\ pc = "find" /\ ~MarkerLost
      BY <1>8 DEF Find
    <3> DEFINE s == scrolledCount + (syncRow - MarkerRow)
    <3>2. s \in Nat /\ MarkerRow \in BufferRows \cup {NoMarker}
      BY <3>1, MarkerMoves
    <3> QED
      BY <3>1, <3>2
  <2>2. /\ dirtyLineCount' \in 0..BUFFER_LINE_COUNT
        /\ job' \in [first : Nat, create : BOOLEAN, readTop : BufferRows, readStop : 0..BUFFER_LINE_COUNT]
    BY <1>8, FindFits, ConstantsFit
  <2>3. dirtyWindowTop' \in BufferRows
    BY <1>0, <1>8, ConstantsFit DEF Find, WindowFits, BufferRows
  <2> QED
    BY <1>8, <2>1, <2>2, <2>3 DEF TypeOK, Find, consoleVars
<1>9. CASE Read
  BY <1>9 DEF TypeOK, Read, consoleVars, trackVars
<1>10. CASE Mark
  <2>1. CASE job.create
    <3>1. /\ lines' \in [BufferRows -> Int] /\ syncRow' \in BufferRows /\ syncCounter' \in Nat
      BY <1>10, <2>1, MarkFits DEF TypeOK
    <3> QED
      BY <1>10, <3>1 DEF TypeOK, Mark
  <2>2. CASE ~job.create
    BY <1>10, <2>2 DEF TypeOK, Mark
  <2> QED
    BY <2>1, <2>2
<1>11. CASE Send
  <2>1. pc = "send" /\ readBuffer \in [job.readTop..(job.readStop - 1) -> Int]
    BY <1>11 DEF Send, JobFits, Scraping
  <2>2. /\ StopLine \in Nat /\ job.first = scrapedLineCount
        /\ \A v \in scrapedLineCount..(StopLine - 1) : v - scrolledCount \in job.readTop..(job.readStop - 1)
    BY <2>1, SentFits
  <2>3. \A v \in Sent : Line(v) \in Int
    BY <2>1, <2>2 DEF Sent, Line
  <2>4. shown' \in [Lines -> Int]
    BY <1>11, <2>3 DEF Send, TypeOK
  <2>5. dirtyLineCount' \in 0..BUFFER_LINE_COUNT
    <3>1. Scanned \in Nat /\ Scanned <= MaxOf(dirtyLineCount, WindowBottom) /\ dirtyLineCount' = Scanned
      BY <1>11, <2>1, ScannedFits DEF Send
    <3> QED
      BY <1>0, <3>1, ConstantsFit DEF MaxOf, WindowBottom, TypeOK, WindowFits
  <2>6. maxBufferedLine' \in Nat \cup {-1}
    BY <1>11, <2>2 DEF Send, MaxOf, TypeOK
  <2>7. scrapedLineCount' \in Nat
    BY <1>0, <1>11 DEF Send, TypeOK
  <2> QED
    BY <1>11, <2>4, <2>5, <2>6, <2>7 DEF TypeOK, Send, consoleVars
<1>12. CASE UNCHANGED vars
  BY <1>12 DEF TypeOK, vars, consoleVars, trackVars
<1> QED
  BY <1>1, <1>2, <1>3, <1>4, <1>5, <1>6, <1>7, <1>8, <1>9, <1>10, <1>11, <1>12 DEF Next, Program, Scrape

\* The console's window, with the cursor in it, stays in the buffer.
LEMMA WindowStep ==
  ASSUME TypeOK, WindowFits, [Next]_vars
  PROVE  WindowFits'
<1>0. /\ top \in Nat /\ fell \in Nat /\ clears \in Nat /\ printed \in Nat /\ info.top \in Nat
      /\ clears * Rows \in Nat
  BY ConstantsFit DEF TypeOK
<1>1. CASE PrintLine
  <2>1. printed < MaxPrinted /\ printed' = printed + 1 /\ UNCHANGED <<info, clears>>
    BY <1>1 DEF PrintLine
  <2>2. /\ top' + Rows <= BUFFER_LINE_COUNT /\ cursor' \in Window(top')
        /\ fell' + cursor' = fell + cursor + 1 /\ fell + cursor \in Int
    <3>1. cursor \in Window(top) /\ top + Rows <= BUFFER_LINE_COUNT /\ cursor \in Nat
      BY ConstantsFit DEF WindowFits, TypeOK, BufferRows
    <3>2. \/ UNCHANGED <<top, cursor>> /\ fell' = fell + 1
          \/ /\ cursor + 1 \in BufferRows /\ cursor' = cursor + 1 /\ fell' = fell
             /\ top' = MaxOf(top, cursor + 2 - Rows)
      BY <1>1, PrintFits
    <3> QED
      BY <1>0, <3>1, <3>2, ConstantsFit DEF Window, MaxOf, BufferRows
  <2> DEFINE c == clears * Rows
  <2>3. fell + cursor <= printed + c
    BY DEF WindowFits
  <2> HIDE DEF c
  <2>4. fell' + cursor' <= printed' + c
    BY <1>0, <2>1, <2>2, <2>3 DEF c
  <2> QED
    BY <1>0, <2>1, <2>2, <2>4, ConstantsFit DEF WindowFits, c
<1>2. CASE Clear
  <2>1. /\ top' = 0 /\ cursor' = 0 /\ fell' = fell + top + Rows /\ clears' = clears + 1
        /\ clears < MaxClears /\ UNCHANGED <<info, printed>>
    BY <1>2 DEF Clear
  <2>2. (clears + 1) * Rows = clears * Rows + Rows
    BY <1>0, ConstantsFit
  <2>3. top <= cursor /\ cursor \in Nat
    BY <1>0, ConstantsFit DEF WindowFits, Window, TypeOK, BufferRows
  <2> QED
    BY <1>0, <2>1, <2>2, <2>3, ConstantsFit DEF WindowFits, Window
<1>3. ASSUME NEW row \in BufferRows, Rewrite(row) PROVE WindowFits'
  BY <1>3 DEF WindowFits, Rewrite
<1>4. CASE ReadInfo
  BY <1>4 DEF WindowFits, ReadInfo, consoleVars
<1>5. CASE BeginScrape \/ FindReset \/ FindBail \/ Find \/ Read \/ CheckInfo \/ CheckMarker \/ Mark \/ Send
  <2>1. UNCHANGED <<top, cursor, printed, clears, fell>>
    BY <1>5, ConsoleKept DEF Scrape
  <2>2. info' = info
    BY <1>5 DEF BeginScrape, FindReset, FindBail, Find, Read, CheckInfo, CheckMarker, Mark, Send
  <2> QED
    BY <2>1, <2>2 DEF WindowFits
<1>6. CASE UNCHANGED vars
  BY <1>6 DEF WindowFits, vars, consoleVars
<1> QED
  BY <1>1, <1>2, <1>3, <1>4, <1>5, <1>6 DEF Next, Program, Scrape

\* Programs wait when the scraper counts on it.
LEMMA PhasesStep ==
  ASSUME TypeOK, WindowFits, TracksFit, MarkerInOnePlace, Phases, [Next]_vars
  PROVE  Phases'
<1>1. CASE Program
  BY <1>1, ScraperKept DEF Phases, Scraping
<1>2. CASE BeginScrape \/ ReadInfo \/ FindBail \/ Read \/ CheckInfo \/ CheckMarker \/ Mark \/ Send
  BY <1>2 DEF Phases, Scraping, BeginScrape, ReadInfo, FindBail, Bail, Read, CheckInfo, CheckMarker, Mark, Send,
              Tentative
<1>3. CASE FindReset
  BY <1>3 DEF Phases, Scraping, FindReset, Tentative
<1>4. CASE Find
  <2>1. job'.create = ShouldCreate(MarkerRow) /\ (~frozen => ~ShouldCreate(MarkerRow)) /\ frozen' = frozen
        /\ pc' = "read"
    BY <1>4, FindFits DEF Find, Tentative
  <2> QED
    BY <2>1 DEF Phases, Scraping, TypeOK
<1>5. CASE UNCHANGED vars
  BY <1>5 DEF Phases, Scraping, vars
<1> QED
  BY <1>1, <1>2, <1>3, <1>4, <1>5 DEF Next, Scrape

\* What is still to scrape stays as Find computed it.
LEMMA JobStep ==
  ASSUME TypeOK, WindowFits, Phases, JobFits, TracksFit, MarkerInOnePlace, [Next]_vars
  PROVE  JobFits'
<1>0. /\ info.top \in Nat /\ scrapedLineCount \in Nat /\ scrolledCount \in Nat
      /\ MarkerRow \in Int /\ MarkerRow >= -1 /\ NewSyncRow \in Int /\ dirtyLineCount \in Nat
  BY MarkerRowFits, ConstantsFit DEF TypeOK, NewSyncRow, NoMarker
<1>1. ASSUME ShouldCreate(MarkerRow) PROVE NewSyncRow >= 1
  BY <1>0, <1>1, ConstantsFit DEF ShouldCreate
<1>2. CASE Program
  <2>1. UNCHANGED <<pc, info, job, readBuffer, trackVars, WindowBottom, NewSyncRow>>
    BY <1>2, ScraperKept DEF WindowBottom, NewSyncRow
  <2> QED
    BY <2>1 DEF JobFits, Scraping, trackVars
<1>3. CASE BeginScrape \/ ReadInfo \/ FindBail \/ Send
  BY <1>3 DEF JobFits, Scraping, BeginScrape, ReadInfo, FindBail, Bail, Send
<1>4. CASE FindReset
  <2>1. /\ pc' = "read" /\ scrapedLineCount' = info.top /\ scrolledCount' = 0 /\ dirtyWindowTop' = info.top
        /\ UNCHANGED <<info, WindowBottom, NewSyncRow>>
    BY <1>4 DEF FindReset, ResetTracking, WindowBottom, NewSyncRow
  <2>2. /\ dirtyLineCount' \in 1..BUFFER_LINE_COUNT /\ dirtyLineCount' >= info.top
        /\ job'.first = info.top /\ job'.create = ShouldCreate(MarkerRow)
        /\ job'.readTop = MinOf(info.top, dirtyLineCount' - 1)
        /\ job'.readStop = MaxOf(WindowBottom, dirtyLineCount')
    BY <1>4, ResetFits
  <2>3. info.top - 0 = info.top /\ dirtyLineCount' >= 1
    BY <1>0, <2>2, ConstantsFit
  <2>4. job'.create => NewSyncRow' >= 1
    BY <1>1, <2>1, <2>2
  <2> QED
    BY <2>1, <2>2, <2>3, <2>4 DEF JobFits, Scraping, MinOf, MaxOf
<1>5. CASE Find
  <2>1. /\ pc' = "read" /\ scrapedLineCount' = scrapedLineCount /\ dirtyWindowTop' = info.top
        /\ UNCHANGED <<info, WindowBottom, NewSyncRow>>
    BY <1>5 DEF Find, WindowBottom, NewSyncRow
  <2>2. /\ dirtyLineCount' \in 1..BUFFER_LINE_COUNT /\ dirtyLineCount' >= info.top
        /\ job'.first = scrapedLineCount /\ job'.create = ShouldCreate(MarkerRow)
        /\ job'.readTop = MinOf(scrapedLineCount - scrolledCount', dirtyLineCount' - 1)
        /\ job'.readStop = MaxOf(WindowBottom, dirtyLineCount')
    BY <1>5, FindFits
  <2>3. dirtyLineCount' >= 1
    BY <2>2, ConstantsFit
  <2>4. job'.create => NewSyncRow' >= 1
    BY <1>1, <2>1, <2>2
  <2> QED
    BY <2>1, <2>2, <2>3, <2>4 DEF JobFits, Scraping, MinOf, MaxOf
<1>6. CASE Read
  <2>1. /\ pc = "read" /\ readBuffer' = [r \in job.readTop..(job.readStop - 1) |-> lines[r]]
        /\ UNCHANGED <<info, job, trackVars, WindowBottom, NewSyncRow>> /\ pc' \in {"checkInfo", "mark"}
    BY <1>6 DEF Read, WindowBottom, NewSyncRow
  <2>2. \A r \in job.readTop..(job.readStop - 1) : lines[r] \in Int
    <3>1. job.readTop \in BufferRows /\ job.readStop \in 0..BUFFER_LINE_COUNT /\ lines \in [BufferRows -> Int]
      BY DEF TypeOK
    <3> QED
      BY <3>1, ConstantsFit DEF BufferRows
  <2>3. readBuffer' \in [job.readTop..(job.readStop - 1) -> Int]
    BY <2>1, <2>2
  <2> QED
    BY <2>1, <2>3 DEF JobFits, Scraping, trackVars
<1>7. CASE CheckInfo
  BY <1>7 DEF JobFits, Scraping, CheckInfo, Bail, trackVars, WindowBottom, NewSyncRow
<1>8. CASE CheckMarker
  <2>1. ~job.create
    BY <1>8 DEF CheckMarker, Phases, Scraping
  <2> QED
    BY <1>8, <2>1 DEF JobFits, Scraping, CheckMarker, Bail, trackVars, WindowBottom, NewSyncRow
<1>9. CASE Mark
  <2>1. job.create => syncRow' = NewSyncRow
    BY <1>9 DEF Mark, CreateSyncMarker
  <2> QED
    BY <1>9, <2>1 DEF JobFits, Scraping, Mark, WindowBottom, NewSyncRow
<1>10. CASE UNCHANGED vars
  BY <1>10 DEF JobFits, Scraping, vars, trackVars, WindowBottom, NewSyncRow
<1> QED
  BY <1>2, <1>3, <1>4, <1>5, <1>6, <1>7, <1>8, <1>9, <1>10 DEF Next, Scrape

\* The tracked rows and line counts stay in the buffer.
LEMMA TracksStep ==
  ASSUME TypeOK, WindowFits, Phases, JobFits, TracksFit, MarkerInOnePlace, [Next]_vars
  PROVE  TracksFit'
<1>0. /\ info.top \in Nat /\ scrapedLineCount \in Nat /\ scrolledCount \in Nat /\ base \in Nat
      /\ fell \in Nat /\ top \in Nat /\ info.top + Rows <= BUFFER_LINE_COUNT /\ syncCounter \in Nat
  BY DEF TypeOK, WindowFits
<1>1. CASE Program
  <2>1. UNCHANGED <<pc, job, trackVars>>
    BY <1>1, ScraperKept
  <2>2. fell' \in Nat /\ fell' >= fell
    <3>1. CASE PrintLine
      <4>1. fell' = fell \/ fell' = fell + 1
        BY <3>1, PrintFits
      <4> QED
        BY <1>0, <4>1
    <3>2. CASE Clear
      BY <1>0, <3>2, ConstantsFit DEF Clear
    <3>3. ASSUME NEW row \in BufferRows, Rewrite(row) PROVE fell' = fell
      BY <3>3 DEF Rewrite
    <3> QED
      BY <1>0, <1>1, <3>1, <3>2, <3>3 DEF Program
  <2> QED
    BY <1>0, <2>1, <2>2 DEF TracksFit, trackVars
<1>2. CASE BeginScrape \/ ReadInfo \/ Read \/ CheckInfo \/ (Mark /\ ~job.create)
  BY <1>2 DEF TracksFit, BeginScrape, ReadInfo, Read, CheckInfo, Bail, Mark, consoleVars, trackVars
<1>3. CASE CheckMarker
  BY <1>3 DEF TracksFit, CheckMarker, Bail, consoleVars, trackVars
<1>4. CASE FindReset
  <2>1. /\ syncRow' = NoMarker /\ scrapedLineCount' = info.top /\ scrolledCount' = 0
        /\ maxBufferedLine' = -1 /\ base' = fell /\ fell' = fell /\ dirtyWindowTop' = info.top
    BY <1>4 DEF FindReset, ResetTracking, consoleVars
  <2> QED
    BY <1>0, <2>1, ConstantsFit DEF TracksFit, MaxOf
<1>5. CASE FindBail /\ MarkerLost
  BY <1>5 DEF TracksFit, FindBail, Bail, consoleVars
<1>6. CASE (FindBail /\ ~MarkerLost) \/ Find
  <2> DEFINE s == scrolledCount + (syncRow - MarkerRow)
  <2>1. /\ pc = "find" /\ ~MarkerLost /\ scrolledCount' = s /\ syncRow' = MarkerRow
        /\ UNCHANGED <<scrapedLineCount, maxBufferedLine, fell, base, syncCounter>>
        /\ dirtyWindowTop' = dirtyWindowTop \/ (~MovedUp /\ dirtyWindowTop' = info.top)
    BY <1>6 DEF FindBail, Find, consoleVars
  <2>2. /\ MarkerRow \in BufferRows \cup {NoMarker} /\ MarkerRow <= syncRow
        /\ MarkerRow = NoMarker <=> syncRow = NoMarker
        /\ MarkerRow = NoMarker => s = scrolledCount
        /\ s \in Nat /\ scrolledCount <= s /\ s <= scrapedLineCount
        /\ s + base <= fell
        /\ scrapedLineCount - s <= MaxOf(dirtyWindowTop, 0)
        /\ syncRow # NoMarker => MarkerRow + Gap <= scrapedLineCount - s
    BY <2>1, MarkerMoves
  <2> HIDE DEF s
  <2>3. /\ dirtyWindowTop \in Int /\ dirtyWindowTop + Rows <= BUFFER_LINE_COUNT
        /\ maxBufferedLine \in Int /\ maxBufferedLine < scrolledCount + BUFFER_LINE_COUNT
        /\ syncRow = NoMarker => scrolledCount = 0
        /\ syncRow # NoMarker => syncCounter >= 1 /\ syncRow + Gap <= dirtyWindowTop
        /\ syncRow \in Int
    BY ConstantsFit DEF TypeOK, TracksFit, BufferRows, NoMarker
  <2>4. MaxOf(dirtyWindowTop, 0) \in Int /\ dirtyWindowTop <= MaxOf(dirtyWindowTop, 0)
    BY <2>3 DEF MaxOf
  <2>5. ~MovedUp => MaxOf(dirtyWindowTop, 0) <= info.top
    BY FirstAboveTop
  <2>6. /\ dirtyWindowTop' \in Int /\ dirtyWindowTop <= dirtyWindowTop'
        /\ dirtyWindowTop' + Rows <= BUFFER_LINE_COUNT
        /\ scrapedLineCount - s <= MaxOf(dirtyWindowTop', 0)
    <3>1. CASE dirtyWindowTop' = dirtyWindowTop
      BY <2>2, <2>3, <3>1
    <3>2. CASE ~MovedUp /\ dirtyWindowTop' = info.top
      BY <1>0, <2>2, <2>3, <2>4, <2>5, <3>2 DEF MaxOf
    <3> QED
      BY <2>1, <3>1, <3>2
  <2>7. MarkerRow \in Int
    BY MarkerRowFits
  <2>8. s + base <= fell /\ maxBufferedLine < s + BUFFER_LINE_COUNT
    BY <1>0, <2>2, <2>3, ConstantsFit
  <2>9. ASSUME MarkerRow # NoMarker
        PROVE  /\ syncCounter >= 1 /\ MarkerRow + Gap <= dirtyWindowTop'
               /\ MarkerRow + Gap <= scrapedLineCount - s
    BY <1>0, <2>2, <2>3, <2>6, <2>7, <2>9, ConstantsFit
  <2> QED
    BY <1>0, <2>1, <2>2, <2>3, <2>6, <2>8, <2>9 DEF TracksFit
<1>7. CASE Mark /\ job.create
  <2>1. /\ syncRow' = NewSyncRow /\ NewSyncRow >= 1 /\ NewSyncRow + Gap = info.top /\ syncCounter' = syncCounter + 1
    BY <1>7, MarkFits
  <2>2. /\ dirtyWindowTop = info.top /\ pc' = "send" /\ job' = job
        /\ UNCHANGED <<scrapedLineCount, scrolledCount, maxBufferedLine, dirtyWindowTop, fell, base>>
    BY <1>7 DEF Mark, JobFits, Scraping
  <2>3. NewSyncRow # NoMarker
    BY <2>1 DEF NoMarker
  <2> QED
    BY <1>0, <1>7, <2>1, <2>2, <2>3 DEF TracksFit
<1>8. CASE Send
  <2>1. /\ StopLine \in Nat /\ StopLine <= WindowBottom + scrolledCount
        /\ scrapedLineCount <= info.top + scrolledCount
    BY <1>8, SentFits DEF Send
  <2>2. /\ scrapedLineCount' = info.top + scrolledCount
        /\ maxBufferedLine' = (IF job.first < StopLine THEN MaxOf(maxBufferedLine, StopLine - 1) ELSE maxBufferedLine)
        /\ UNCHANGED <<syncRow, syncCounter, scrolledCount, dirtyWindowTop, base, fell>>
    BY <1>8 DEF Send, consoleVars
  <2>3. dirtyWindowTop = info.top
    BY <1>8 DEF Send, JobFits, Scraping
  <2>4. maxBufferedLine' < scrolledCount + BUFFER_LINE_COUNT
    BY <1>0, <2>1, <2>2, ConstantsFit DEF TracksFit, TypeOK, MaxOf, WindowBottom
  <2>5. /\ syncRow # NoMarker => syncCounter >= 1 /\ syncRow + Gap <= dirtyWindowTop
        /\ syncRow = NoMarker => scrolledCount = 0
        /\ scrolledCount + base <= fell
    BY DEF TracksFit
  <2>6. scrapedLineCount' - scrolledCount = info.top /\ scrapedLineCount' >= scrolledCount
    BY <1>0, <2>2
  <2> QED
    BY <1>0, <2>2, <2>3, <2>4, <2>5, <2>6 DEF TracksFit, MaxOf
<1>9. CASE UNCHANGED vars
  BY <1>9 DEF TracksFit, vars, consoleVars, trackVars
<1> QED
  BY <1>1, <1>2, <1>3, <1>4, <1>5, <1>6, <1>7, <1>8, <1>9 DEF Next, Scrape

\* The marker's text stays in one place of SYNC_MARKER_LEN rows.
LEMMA PlaceStep ==
  ASSUME TypeOK, WindowFits, Phases, JobFits, TracksFit, MarkerInOnePlace, [Next]_vars
  PROVE  MarkerInOnePlace'
<1>0. /\ fell \in Nat /\ base \in Nat /\ scrolledCount \in Nat /\ syncCounter \in Nat /\ syncRow \in Int
      /\ \A r \in BufferRows : r \in Nat /\ lines[r] \in Int /\ lines[r] >= -syncCounter
      /\ top \in Nat /\ scrolledCount + base <= fell
  BY ConstantsFit DEF TypeOK, MarkerInOnePlace, BufferRows, TracksFit, NoMarker
<1>1. syncRow # NoMarker => syncCounter >= 1
  BY DEF TracksFit
<1>2. CASE PrintLine
  <2>1. UNCHANGED <<syncRow, syncCounter, scrolledCount, base>>
    BY <1>2 DEF PrintLine, trackVars
  <2> DEFINE t == Text(fell + cursor)
  <2>2. /\ t > 0 /\ t \in Nat /\ cursor \in Nat
        /\ \/ /\ fell' = fell + 1
              /\ \A r \in BufferRows : lines'[r] = IF r + 1 \notin BufferRows THEN 0
                                                   ELSE IF r + 1 = cursor THEN t ELSE lines[r + 1]
           \/ /\ fell' = fell
              /\ \A r \in BufferRows : lines'[r] = IF r = cursor THEN t ELSE lines[r]
    BY <1>0, <1>2, PrintFits
  <2> HIDE DEF t
  <2>3. \A r \in BufferRows : lines'[r] >= -syncCounter
    BY <1>0, <2>2
  <2>4. ASSUME syncRow # NoMarker
        PROVE  \E m \in Int :
                 /\ m <= syncRow /\ scrolledCount + (syncRow - m) + base <= fell'
                 /\ \A r \in BufferRows : lines'[r] = -syncCounter => m <= r /\ r < m + SYNC_MARKER_LEN
    <3>1. PICK m \in Int :
            /\ m <= syncRow /\ scrolledCount + (syncRow - m) + base <= fell
            /\ \A r \in BufferRows : lines[r] = -syncCounter => m <= r /\ r < m + SYNC_MARKER_LEN
      BY <2>4 DEF MarkerInOnePlace
    <3>2. -syncCounter < 0
      BY <1>0, <1>1, <2>4
    <3>3. CASE /\ fell' = fell + 1
               /\ \A r \in BufferRows : lines'[r] = IF r + 1 \notin BufferRows THEN 0
                                                    ELSE IF r + 1 = cursor THEN t ELSE lines[r + 1]
      <4>1. ASSUME NEW r \in BufferRows, lines'[r] = -syncCounter
            PROVE  m - 1 <= r /\ r < (m - 1) + SYNC_MARKER_LEN
        <5>1. r + 1 \in BufferRows /\ lines[r + 1] = -syncCounter
          BY <1>0, <2>2, <3>2, <3>3, <4>1
        <5> QED
          BY <1>0, <3>1, <5>1, ConstantsFit
      <4>2. m - 1 \in Int /\ m - 1 <= syncRow /\ scrolledCount + (syncRow - (m - 1)) + base <= fell'
        BY <1>0, <3>1, <3>3
      <4> QED
        BY <4>1, <4>2
    <3>4. CASE fell' = fell /\ \A r \in BufferRows : lines'[r] = IF r = cursor THEN t ELSE lines[r]
      <4>1. ASSUME NEW r \in BufferRows, lines'[r] = -syncCounter
            PROVE  m <= r /\ r < m + SYNC_MARKER_LEN
        BY <1>0, <2>2, <3>1, <3>2, <3>4, <4>1
      <4> QED
        BY <3>1, <3>4, <4>1
    <3> QED
      BY <2>2, <3>3, <3>4
  <2> QED
    BY <2>1, <2>3, <2>4 DEF MarkerInOnePlace
<1>3. CASE Clear
  <2>1. /\ UNCHANGED <<syncRow, syncCounter, scrolledCount, base>> /\ fell' = fell + top + Rows
        /\ \A r \in BufferRows : lines'[r] = 0
    BY <1>3 DEF Clear, trackVars
  <2>2. syncRow # NoMarker => \A r \in BufferRows : lines'[r] # -syncCounter
    BY <1>0, <1>1, <2>1
  <2>3. syncRow <= syncRow /\ scrolledCount + (syncRow - syncRow) + base <= fell'
    BY <1>0, <2>1, ConstantsFit
  <2>4. \A r \in BufferRows : lines'[r] >= -syncCounter
    BY <1>0, <2>1
  <2> QED
    BY <1>0, <2>1, <2>2, <2>3, <2>4 DEF MarkerInOnePlace
<1>4. ASSUME NEW row \in BufferRows, Rewrite(row) PROVE MarkerInOnePlace'
  <2>1. UNCHANGED <<syncRow, syncCounter, scrolledCount, base, fell>>
    BY <1>4 DEF Rewrite, trackVars
  <2>2. PICK c \in Nat : \A r \in BufferRows : lines'[r] = IF r = row THEN c ELSE lines[r]
    BY <1>4, RewriteFits
  <2>3. \A r \in BufferRows : lines'[r] >= -syncCounter
    BY <1>0, <2>2
  <2>4. syncRow # NoMarker => \A r \in BufferRows : lines'[r] = -syncCounter => lines[r] = -syncCounter
    BY <1>0, <1>1, <2>2
  <2> QED
    BY <2>1, <2>3, <2>4 DEF MarkerInOnePlace
<1>5. CASE BeginScrape \/ ReadInfo \/ Read \/ CheckInfo \/ CheckMarker \/ (Mark /\ ~job.create) \/ Send
           \/ (FindBail /\ MarkerLost)
  <2>1. UNCHANGED <<syncRow, syncCounter, scrolledCount, base, fell, lines>>
    BY <1>5 DEF BeginScrape, ReadInfo, Read, CheckInfo, CheckMarker, Bail, Mark, Send, FindBail, consoleVars, trackVars
  <2> QED
    BY <2>1 DEF MarkerInOnePlace
<1>6. CASE FindReset
  BY <1>0, <1>6 DEF MarkerInOnePlace, FindReset, ResetTracking, consoleVars
<1>7. CASE Find \/ (FindBail /\ ~MarkerLost)
  <2>1. /\ syncRow' = MarkerRow /\ scrolledCount' = scrolledCount + (syncRow - MarkerRow)
        /\ UNCHANGED <<syncCounter, base, fell, lines>>
    BY <1>7 DEF Find, FindBail, consoleVars
  <2>2. ASSUME MarkerRow # NoMarker
        PROVE  \E m \in Int :
                 /\ m <= MarkerRow /\ scrolledCount' + (MarkerRow - m) + base <= fell
                 /\ \A r \in BufferRows : lines[r] = -syncCounter => m <= r /\ r < m + SYNC_MARKER_LEN
    <3>1. /\ MarkerRow \in 0..syncRow /\ scrolledCount + (syncRow - MarkerRow) + base <= fell
          /\ \A r \in BufferRows : lines[r] = -syncCounter =>
               MarkerRow <= r /\ r < MarkerRow + SYNC_MARKER_LEN
      BY <2>2, MarkerFound
    <3>2. MarkerRow \in Int /\ MarkerRow <= MarkerRow /\ scrolledCount' + (MarkerRow - MarkerRow) + base <= fell
      BY <1>0, <2>1, <3>1
    <3> QED
      BY <3>1, <3>2
  <2> QED
    BY <1>0, <2>1, <2>2 DEF MarkerInOnePlace
<1>8. CASE Mark /\ job.create
  <2>1. UNCHANGED <<scrolledCount, base, fell>>
    BY <1>8 DEF Mark
  <2>2. /\ NewSyncRow \in BufferRows /\ syncRow' = NewSyncRow /\ syncCounter' = syncCounter + 1
        /\ \A r \in BufferRows :
              /\ NewSyncRow <= r /\ r < NewSyncRow + SYNC_MARKER_LEN => lines'[r] = -syncCounter'
              /\ r = NewSyncRow - 1 => lines'[r] = 0
              /\ r < NewSyncRow - 1 \/ r >= NewSyncRow + SYNC_MARKER_LEN => lines'[r] = lines[r]
    BY <1>8, MarkFits
  <2> DEFINE n == NewSyncRow
             c == syncCounter + 1
  <2>3. n \in Nat /\ c \in Nat /\ c > syncCounter /\ c > 0
    BY <1>0, <2>2
  <2>4. ASSUME NEW r \in BufferRows
        PROVE  lines'[r] >= -c /\ (lines'[r] = -c => n <= r /\ r < n + SYNC_MARKER_LEN)
    <3>1. r \in Nat /\ lines[r] \in Int /\ lines[r] > -c
      BY <1>0, <2>3
    <3>2. /\ n <= r /\ r < n + SYNC_MARKER_LEN => lines'[r] = -c
          /\ r = n - 1 => lines'[r] = 0
          /\ r < n - 1 \/ r >= n + SYNC_MARKER_LEN => lines'[r] = lines[r]
      BY <2>2
    <3> HIDE DEF n, c
    <3> QED
      BY <2>3, <3>1, <3>2, ConstantsFit
  <2>5. n \in Int /\ n <= n /\ scrolledCount + (n - n) + base <= fell
    BY <1>0, <2>3
  <2> HIDE DEF n
  <2>6. \E m \in Int :
         /\ m <= n /\ scrolledCount + (n - m) + base <= fell
         /\ \A r \in BufferRows : lines'[r] = -c => m <= r /\ r < m + SYNC_MARKER_LEN
    BY <2>4, <2>5
  <2>7. syncRow' = n /\ syncCounter' = c
    BY <2>2 DEF n
  <2> QED
    BY <2>1, <2>4, <2>6, <2>7 DEF MarkerInOnePlace
<1>9. CASE UNCHANGED vars
  BY <1>9 DEF MarkerInOnePlace, vars, consoleVars, trackVars
<1> QED
  BY <1>2, <1>3, <1>4, <1>5, <1>6, <1>7, <1>8, <1>9 DEF Next, Program, Scrape

\* What no program has reached stays blank.
LEMMA UnwrittenStep ==
  ASSUME TypeOK, WindowFits, Unwritten, [Next]_vars
  PROVE  Unwritten'
<1>0. /\ fell \in Nat /\ top \in Nat /\ \A a \in Lines : a \in Nat
      /\ written \in [Lines -> Nat] /\ cursor \in Nat
  BY ConstantsFit DEF TypeOK, Lines, BufferRows
<1>1. CASE PrintLine
  <2>1. /\ written' = [written EXCEPT ![fell + cursor] = Text(fell + cursor)]
        /\ cursor < top + Rows
    BY <1>0, <1>1, PrintFits, ConstantsFit DEF WindowFits, Window
  <2>2. fell' + top' \in Int /\ fell' + top' >= fell + top
    <3>1. \/ fell' = fell + 1 /\ top' = top
          \/ fell' = fell /\ top' = MaxOf(top, cursor + 2 - Rows)
      BY <1>1, PrintFits
    <3> QED
      BY <1>0, <3>1, ConstantsFit DEF MaxOf
  <2>3. ASSUME NEW a \in Lines, a >= fell' + top' + Rows PROVE written'[a] = 0
    <3>1. a >= fell + top + Rows /\ a # fell + cursor
      BY <1>0, <2>1, <2>2, <2>3, ConstantsFit
    <3> QED
      BY <1>0, <2>1, <3>1 DEF Unwritten
  <2> QED
    BY <2>3 DEF Unwritten
<1>2. CASE Clear
  <2>1. fell' = fell + top + Rows /\ top' = 0 /\ written' = written
    BY <1>2 DEF Clear
  <2> QED
    BY <1>0, <2>1, ConstantsFit DEF Unwritten
<1>3. ASSUME NEW row \in BufferRows, Rewrite(row) PROVE Unwritten'
  <2>1. row < top + Rows /\ row \in Nat /\ UNCHANGED <<fell, top>>
    BY <1>3, RewriteFits DEF BufferRows
  <2>2. PICK c \in Nat : \A a \in Lines : written'[a] = IF a = fell + row THEN c ELSE written[a]
    BY <1>3, RewriteFits
  <2> QED
    BY <1>0, <2>1, <2>2, ConstantsFit DEF Unwritten
<1>4. CASE Scrape
  BY <1>4, ConsoleKept DEF Unwritten
<1>5. CASE UNCHANGED vars
  BY <1>5 DEF Unwritten, vars, consoleVars
<1> QED
  BY <1>1, <1>2, <1>3, <1>4, <1>5 DEF Next, Program

\* m_bufferData keeps what the terminal was sent.
LEMMA SentStep ==
  ASSUME TypeOK, WindowFits, Phases, JobFits, TracksFit, MarkerInOnePlace, SentRecorded, [Next]_vars
  PROVE  SentRecorded'
<1>0. /\ dirtyLineCount \in Nat /\ scrolledCount \in Nat /\ scrapedLineCount \in Nat
      /\ \A v \in Lines : v \in Nat
      /\ info.top \in Nat /\ info.top + Rows <= BUFFER_LINE_COUNT
  BY ConstantsFit DEF TypeOK, Lines, WindowFits
<1>1. CASE UNCHANGED <<trackVars, shown>>
  BY <1>1 DEF SentRecorded, trackVars
<1>2. CASE Program \/ BeginScrape \/ ReadInfo \/ Read \/ CheckInfo \/ CheckMarker \/ Mark
           \/ (FindBail /\ MarkerLost) \/ UNCHANGED vars
  <2>1. UNCHANGED <<scrapedLineCount, maxBufferedLine, bufferData, shown, dirtyLineCount, scrolledCount>>
    BY <1>2, ScraperKept DEF BeginScrape, ReadInfo, Read, CheckInfo, CheckMarker, Mark, FindBail, trackVars, vars
  <2> QED
    BY <2>1 DEF SentRecorded
<1>3. CASE FindReset
  <2>1. maxBufferedLine' = -1 /\ shown' = [v \in Lines |-> 0] /\ scrapedLineCount' = info.top
    BY <1>3 DEF FindReset, ResetTracking
  <2> QED
    BY <1>0, <2>1 DEF SentRecorded
<1>4. CASE Find \/ (FindBail /\ ~MarkerLost)
  <2>1. /\ pc = "find" /\ ~MarkerLost /\ scrolledCount' = scrolledCount + (syncRow - MarkerRow)
        /\ UNCHANGED <<scrapedLineCount, maxBufferedLine, bufferData, shown>>
    BY <1>4 DEF Find, FindBail
  <2> DEFINE s == scrolledCount + (syncRow - MarkerRow)
  <2>2. s \in Nat /\ scrolledCount <= s
    BY <2>1, MarkerMoves
  <2>3. dirtyLineCount' \in Nat /\ dirtyLineCount' >= dirtyLineCount
    <3>1. CASE Find
      BY <3>1, FindFits, ConstantsFit
    <3>2. CASE FindBail /\ ~MarkerLost
      BY <1>0, <3>2, ConstantsFit DEF FindBail, MaxOf, WindowBottom
    <3> QED
      BY <1>4, <3>1, <3>2
  <2> HIDE DEF s
  <2>4. scrolledCount' = s
    BY <2>1 DEF s
  <2>5. ASSUME NEW v \in Lines, shown[v] # 0 PROVE v < dirtyLineCount' + s
    <3>1. v < dirtyLineCount + scrolledCount
      BY <2>5 DEF SentRecorded
    <3> QED
      BY <1>0, <2>2, <2>3, <3>1
  <2>6. \A v \in Lines : shown'[v] # 0 => v < dirtyLineCount' + scrolledCount'
    BY <2>1, <2>4, <2>5
  <2> QED
    BY <2>1, <2>6 DEF SentRecorded
<1>5. CASE Send
  <2>0. pc = "send"
    BY <1>5 DEF Send
  <2>1. /\ StopLine \in Nat /\ StopLine <= WindowBottom + scrolledCount
        /\ job.first = scrapedLineCount /\ scrapedLineCount <= info.top + scrolledCount
        /\ scrolledCount <= scrapedLineCount
    BY <2>0, SentFits DEF TracksFit
  <2>2. WindowBottom \in Nat /\ WindowBottom <= BUFFER_LINE_COUNT
    BY <1>0, ConstantsFit DEF WindowBottom
  <2>3. /\ scrapedLineCount' = info.top + scrolledCount
        /\ maxBufferedLine' = (IF job.first < StopLine THEN MaxOf(maxBufferedLine, StopLine - 1) ELSE maxBufferedLine)
        /\ shown' = [v \in Lines |-> IF v \in Sent THEN Line(v) ELSE shown[v]]
        /\ bufferData' = [i \in BufferRows |->
                      IF \E v \in Sent : v % BUFFER_LINE_COUNT = i
                      THEN <<Line(CHOOSE v \in Sent : v % BUFFER_LINE_COUNT = i)>>
                      ELSE bufferData[i]]
        /\ dirtyLineCount' = Scanned /\ scrolledCount' = scrolledCount
    BY <1>5 DEF Send
  <2>4. /\ Scanned \in Nat /\ dirtyLineCount <= Scanned
    BY <2>0, ScannedFits
  <2>5. ASSUME NEW v \in Sent
        PROVE  v \in Int /\ scrapedLineCount <= v /\ v < StopLine
    BY <1>0, <2>1 DEF Sent
  <2>6. ASSUME NEW v \in Lines, scrapedLineCount' <= v, v <= maxBufferedLine'
        PROVE  bufferData'[v % BUFFER_LINE_COUNT] = <<shown'[v]>>
    <3>1. v % BUFFER_LINE_COUNT \in BufferRows
      BY <1>0, ConstantsFit DEF BufferRows
    <3>2. scrolledCount <= v /\ scrapedLineCount <= v /\ v < scrolledCount + BUFFER_LINE_COUNT
      BY <1>0, <2>1, <2>2, <2>3, <2>6, ConstantsFit DEF TracksFit, TypeOK, MaxOf
    <3>3. ASSUME NEW u \in Sent, u % BUFFER_LINE_COUNT = v % BUFFER_LINE_COUNT PROVE u = v
      <4>1. /\ u \in scrolledCount..(scrolledCount + BUFFER_LINE_COUNT - 1)
            /\ v \in scrolledCount..(scrolledCount + BUFFER_LINE_COUNT - 1)
            /\ BUFFER_LINE_COUNT \in Nat /\ BUFFER_LINE_COUNT > 0
        BY <1>0, <2>1, <2>2, <2>5, <3>2, ConstantsFit
      <4> QED
        BY <1>0, <3>3, <4>1, PlacesDiffer
    <3>4. CASE v \in Sent
      <4>1. (CHOOSE u \in Sent : u % BUFFER_LINE_COUNT = v % BUFFER_LINE_COUNT) = v
        BY <3>3, <3>4
      <4>2. bufferData'[v % BUFFER_LINE_COUNT] = <<Line(v)>>
        BY <2>3, <3>1, <3>4, <4>1
      <4> QED
        BY <2>3, <3>4, <4>2
    <3>5. CASE v \notin Sent
      <4>1. bufferData'[v % BUFFER_LINE_COUNT] = bufferData[v % BUFFER_LINE_COUNT]
        BY <2>3, <3>1, <3>3, <3>5
      <4>2. shown'[v] = shown[v]
        BY <2>3, <3>5
      <4>3. v <= maxBufferedLine
        <5>1. ASSUME v > maxBufferedLine PROVE FALSE
          <6>1. v \in job.first..(StopLine - 1)
            BY <1>0, <2>1, <2>3, <2>6, <3>2, <5>1 DEF MaxOf, TypeOK
          <6>2. Changed(v) /\ v \in job.first..v
            BY <1>0, <2>1, <3>2, <5>1 DEF Changed
          <6> QED
            BY <3>5, <6>1, <6>2 DEF Sent
        <5> QED
          BY <1>0, <5>1 DEF TypeOK
      <4> QED
        BY <3>2, <4>1, <4>2, <4>3 DEF SentRecorded
    <3> QED
      BY <3>4, <3>5
  <2>7. ASSUME NEW v \in Lines, shown'[v] # 0 PROVE v < Scanned + scrolledCount
    <3>1. CASE v \in Sent
      <4>1. v < StopLine /\ StopLine <= Scanned + scrolledCount
        BY <1>0, <2>2, <2>4, <2>5, <3>1 DEF StopLine, MinOf
      <4> QED
        BY <1>0, <2>1, <2>4, <4>1
    <3>2. CASE v \notin Sent
      <4>1. v < dirtyLineCount + scrolledCount
        BY <2>3, <2>7, <3>2 DEF SentRecorded
      <4> QED
        BY <1>0, <2>4, <4>1
    <3> QED
      BY <3>1, <3>2
  <2> QED
    BY <2>3, <2>6, <2>7 DEF SentRecorded
<1> QED
  BY <1>2, <1>3, <1>4, <1>5 DEF Next, Scrape

-----------------------------------------------------------------------------
(* What holds unless a clear has come in the middle of a scrape            *)

\* The scraper takes the window's top to be where it last saw it, or where it is.
LEMMA SeenTopKept ==
  ASSUME Scrape
  PROVE  SeenTop' = SeenTop \/ SeenTop' = top
<1>0. top' = top
  BY ConsoleKept
<1>1. CASE BeginScrape
  BY <1>0, <1>1 DEF SeenTop, BeginScrape
<1>2. CASE ReadInfo
  BY <1>0, <1>2 DEF SeenTop, ReadInfo
<1>3. CASE FindReset \/ FindBail \/ Find
  BY <1>3 DEF SeenTop, FindReset, FindBail, Find, Bail
<1>4. CASE Read \/ CheckInfo \/ CheckMarker \/ Mark
  BY <1>4 DEF SeenTop, Read, CheckInfo, CheckMarker, Mark, Bail
<1>5. CASE Send
  BY <1>0, <1>5 DEF SeenTop, Send
<1> QED
  BY <1>1, <1>2, <1>3, <1>4, <1>5 DEF Scrape

\* Without a clear in the middle of a scrape the window never moves up unseen.
LEMMA TopSeenStep ==
  ASSUME TypeOK, WindowFits, TopSeen, [Next]_vars, ~torn'
  PROVE  TopSeen' /\ ~torn
<1>0. top \in Nat /\ info.top \in Nat /\ cursor \in Nat
  BY ConstantsFit DEF TypeOK, BufferRows
<1>1. CASE PrintLine
  <2>1. top' = top \/ top' = MaxOf(top, cursor + 2 - Rows)
    BY <1>1, PrintFits
  <2>2. top' \in Int /\ top' >= top
    BY <1>0, <2>1, ConstantsFit DEF MaxOf
  <2>3. torn' = torn /\ UNCHANGED <<pc, info>>
    BY <1>1 DEF PrintLine
  <2> QED
    BY <1>0, <2>2, <2>3 DEF TopSeen, SeenTop
<1>2. CASE Clear
  <2>1. pc \in {"idle", "info"} /\ ~torn /\ pc' = pc
    BY <1>2 DEF Clear
  <2>2. top' = 0
    BY <1>2 DEF Clear
  <2> QED
    BY <2>1, <2>2 DEF TopSeen, SeenTop
<1>3. ASSUME NEW row \in BufferRows, Rewrite(row) PROVE TopSeen' /\ ~torn
  BY <1>3 DEF TopSeen, SeenTop, Rewrite
<1>4. CASE Scrape
  <2>1. top' = top /\ torn' = torn
    BY <1>4, ConsoleKept
  <2> QED
    BY <1>0, <1>4, <2>1, SeenTopKept DEF TopSeen
<1>5. CASE UNCHANGED vars
  BY <1>5 DEF TopSeen, SeenTop, vars, consoleVars
<1> QED
  BY <1>1, <1>2, <1>3, <1>4, <1>5 DEF Next, Program

\* The row the scraper takes for the window's top only moves down, unless the
\* console is cleared between two scrapes.
LEMMA SeenTopMoves ==
  ASSUME TypeOK, WindowFits, TopSeen, [Next]_vars, ~torn', ~Clear
  PROVE  SeenTop \in Nat /\ SeenTop' \in Nat /\ SeenTop <= SeenTop'
<1>0. top \in Nat /\ info.top \in Nat /\ cursor \in Nat /\ SeenTop \in Nat /\ SeenTop <= top
  BY ConstantsFit DEF TypeOK, BufferRows, SeenTop, TopSeen
<1>1. CASE PrintLine
  <2>1. top' = top \/ top' = MaxOf(top, cursor + 2 - Rows)
    BY <1>1, PrintFits
  <2>2. top' \in Nat /\ top' >= top
    BY <1>0, <2>1, ConstantsFit DEF MaxOf
  <2>3. UNCHANGED <<pc, info>>
    BY <1>1 DEF PrintLine
  <2> QED
    BY <1>0, <2>2, <2>3 DEF SeenTop
<1>3. ASSUME NEW row \in BufferRows, Rewrite(row) PROVE SeenTop' = SeenTop
  BY <1>3 DEF SeenTop, Rewrite
<1>4. CASE Scrape
  <2>1. top' = top
    BY <1>4, ConsoleKept
  <2> QED
    BY <1>0, <1>4, <2>1, SeenTopKept
<1>5. CASE UNCHANGED vars
  BY <1>0, <1>5 DEF SeenTop, vars, consoleVars
<1> QED
  BY <1>0, <1>1, <1>3, <1>4, <1>5 DEF Next, Program

\* A line that is printed is written in the row that stands for it, and nothing
\* else moves against what was written.
LEMMA PrintAgrees ==
  ASSUME TypeOK, WindowFits, Unwritten, PrintLine, TypeOK', WindowFits', NEW r \in BufferRows,
         fell' = fell + 1 /\ r + 1 \in BufferRows => lines[r + 1] = written[fell + (r + 1)],
         fell' = fell => lines[r] = written[fell + r]
  PROVE  lines'[r] = written'[fell' + r]
<1>0. /\ fell \in Nat /\ r \in Nat /\ cursor \in Nat /\ written \in [Lines -> Nat]
      /\ fell + r \in Lines /\ fell' + r \in Lines /\ fell + cursor \in Lines
      /\ written' = [written EXCEPT ![fell + cursor] = Text(fell + cursor)]
  <2>1. fell \in Nat /\ r \in Nat /\ cursor \in Nat /\ written \in [Lines -> Nat]
    BY ConstantsFit DEF TypeOK, BufferRows
  <2>2. fell + r \in Lines
    BY LinesFit
  <2>3. fell' + r \in Lines
    BY LinesFitNext
  <2>4. fell + cursor \in Lines /\ written' = [written EXCEPT ![fell + cursor] = Text(fell + cursor)]
    BY PrintFits
  <2> QED
    BY <2>1, <2>2, <2>3, <2>4
<1> DEFINE t == Text(fell + cursor)
<1>1. \A a \in Lines : written'[a] = IF a = fell + cursor THEN t ELSE written[a]
  BY <1>0
<1>2. \/ /\ fell' = fell + 1 /\ cursor = BUFFER_LINE_COUNT - 1 /\ top = BUFFER_LINE_COUNT - Rows
         /\ lines'[r] = IF r + 1 \notin BufferRows THEN 0
                        ELSE IF r + 1 = cursor THEN t ELSE lines[r + 1]
      \/ fell' = fell /\ lines'[r] = IF r = cursor THEN t ELSE lines[r]
  BY PrintFits
<1> HIDE DEF t
<1>3. CASE fell' = fell /\ lines'[r] = IF r = cursor THEN t ELSE lines[r]
  <2>1. fell + r = fell + cursor <=> r = cursor
    BY <1>0
  <2> QED
    BY <1>0, <1>1, <1>3, <2>1
<1>4. CASE /\ fell' = fell + 1 /\ cursor = BUFFER_LINE_COUNT - 1 /\ top = BUFFER_LINE_COUNT - Rows
           /\ lines'[r] = IF r + 1 \notin BufferRows THEN 0
                          ELSE IF r + 1 = cursor THEN t ELSE lines[r + 1]
  <2>1. fell' + r = fell + (r + 1) /\ fell + (r + 1) \in Lines
    BY <1>0, <1>4
  <2>2. fell + (r + 1) = fell + cursor <=> r + 1 = cursor
    BY <1>0
  <2>3. CASE r + 1 \in BufferRows
    BY <1>1, <1>4, <2>1, <2>2, <2>3
  <2>4. CASE r + 1 \notin BufferRows
    <3>1. r + 1 = BUFFER_LINE_COUNT
      BY <1>0, <2>4, ConstantsFit DEF BufferRows
    <3>2. fell + (r + 1) >= fell + top + Rows /\ r + 1 # cursor
      BY <1>0, <1>4, <3>1, ConstantsFit
    <3>3. written[fell + (r + 1)] = 0
      BY <2>1, <3>2 DEF Unwritten
    <3> QED
      BY <1>1, <1>4, <2>1, <2>2, <2>4, <3>2, <3>3
  <2> QED
    BY <2>3, <2>4
<1> QED
  BY <1>2, <1>3, <1>4

\* So is a row that is rewritten.
LEMMA RewriteAgrees ==
  ASSUME TypeOK, WindowFits, NEW row \in BufferRows, Rewrite(row), NEW r \in BufferRows,
         lines[r] = written[fell + r]
  PROVE  lines'[r] = written'[fell' + r]
<1>0. fell \in Nat /\ r \in Nat /\ row \in Nat /\ fell + r \in Lines
  BY LinesFit DEF TypeOK, BufferRows
<1>1. fell' = fell
  BY DEF Rewrite
<1>2. PICK c \in Nat :
        /\ \A x \in BufferRows : lines'[x] = IF x = row THEN c ELSE lines[x]
        /\ \A a \in Lines : written'[a] = IF a = fell + row THEN c ELSE written[a]
  BY RewriteFits
<1>3. fell + r = fell + row <=> r = row
  BY <1>0
<1> QED
  BY <1>0, <1>1, <1>2, <1>3

\* The console keeps what was written at the window and below.
LEMMA WrittenBelowStep ==
  ASSUME TypeOK, WindowFits, JobFits, Unwritten, TopSeen, WrittenBelow, [Next]_vars, ~torn', TypeOK', WindowFits'
  PROVE  WrittenBelow'
<1>0. /\ fell \in Nat /\ top \in Nat /\ \A r \in BufferRows : r \in Nat
  BY DEF TypeOK, BufferRows
<1>1. CASE Clear
  <2>1. /\ fell' = fell + top + Rows /\ written' = written /\ \A r \in BufferRows : lines'[r] = 0
    BY <1>1 DEF Clear
  <2>2. ASSUME NEW r \in BufferRows PROVE lines'[r] = written'[fell' + r]
    <3>1. fell' + r \in Lines /\ fell' + r >= fell + top + Rows
      BY <1>0, <2>1, LinesFitNext, ConstantsFit
    <3>2. written[fell' + r] = 0
      BY <3>1 DEF Unwritten
    <3> QED
      BY <2>1, <3>2
  <2> QED
    BY <2>2 DEF WrittenBelow
<1>2. CASE ~Clear
  <2>0. SeenTop \in Nat /\ SeenTop' \in Nat /\ SeenTop <= SeenTop'
    BY <1>2, SeenTopMoves
  <2>1. CASE PrintLine
    <3>1. ASSUME NEW r \in BufferRows, r >= SeenTop' PROVE lines'[r] = written'[fell' + r]
      <4>1. r >= SeenTop /\ r + 1 >= SeenTop
        BY <1>0, <2>0, <3>1
      <4>2. /\ lines[r] = written[fell + r]
            /\ r + 1 \in BufferRows => lines[r + 1] = written[fell + (r + 1)]
        BY <4>1 DEF WrittenBelow
      <4> QED
        BY <2>1, <4>2, PrintAgrees
    <3> QED
      BY <3>1 DEF WrittenBelow
  <2>2. ASSUME NEW row \in BufferRows, Rewrite(row) PROVE WrittenBelow'
    <3>1. ASSUME NEW r \in BufferRows, r >= SeenTop' PROVE lines'[r] = written'[fell' + r]
      <4>1. lines[r] = written[fell + r]
        BY <1>0, <2>0, <3>1 DEF WrittenBelow
      <4> QED
        BY <2>2, <4>1, RewriteAgrees
    <3> QED
      BY <3>1 DEF WrittenBelow
  <2>3. CASE (Scrape /\ ~(Mark /\ job.create)) \/ UNCHANGED vars
    <3>1. UNCHANGED <<lines, written, fell>>
      <4>1. CASE Scrape /\ ~Mark
        BY <4>1, ConsoleKept
      <4>2. CASE Mark /\ ~job.create
        BY <4>2 DEF Mark
      <4>3. CASE UNCHANGED vars
        BY <4>3 DEF vars, consoleVars
      <4> QED
        BY <2>3, <4>1, <4>2, <4>3
    <3> QED
      BY <1>0, <2>0, <3>1 DEF WrittenBelow
  <2>4. CASE Mark /\ job.create
    <3>1. UNCHANGED <<fell, written, info>> /\ pc = "mark" /\ pc' = "send"
      BY <2>4 DEF Mark
    <3>2. SeenTop = info.top /\ SeenTop' = info.top
      BY <3>1 DEF SeenTop
    <3>3. ASSUME NEW r \in BufferRows, r >= info.top PROVE lines'[r] = lines[r]
      <4>1. /\ NewSyncRow \in BufferRows /\ NewSyncRow + Gap = info.top
            /\ r >= NewSyncRow + SYNC_MARKER_LEN => lines'[r] = lines[r]
        BY <2>4, MarkFits
      <4>2. r >= NewSyncRow + SYNC_MARKER_LEN
        BY <1>0, <3>3, <4>1, ConstantsFit
      <4> QED
        BY <4>1, <4>2
    <3> QED
      BY <3>1, <3>2, <3>3 DEF WrittenBelow
  <2> QED
    BY <1>2, <2>1, <2>2, <2>3, <2>4 DEF Next, Program
<1> QED
  BY <1>1, <1>2

\* When the window has moved up, no marker is left in the buffer.
LEMMA StaleStep ==
  ASSUME TypeOK, WindowFits, JobFits, TopSeen, NoStaleMarker, [Next]_vars, ~torn'
  PROVE  NoStaleMarker'
<1>0. dirtyWindowTop \in Int
  BY ConstantsFit DEF TypeOK, BufferRows
<1>1. CASE Clear
  BY <1>1 DEF NoStaleMarker, Clear
<1>2. CASE ~Clear
  <2>0. SeenTop \in Nat /\ SeenTop' \in Nat /\ SeenTop <= SeenTop'
    BY <1>2, SeenTopMoves
  <2>1. CASE PrintLine
    <3>1. dirtyWindowTop' = dirtyWindowTop
      BY <2>1 DEF PrintLine, trackVars
    <3>2. ASSUME \A r \in BufferRows : lines[r] >= 0, NEW r \in BufferRows PROVE lines'[r] >= 0
      <4> DEFINE t == Text(fell + cursor)
      <4>1. /\ t > 0 /\ t \in Nat
            /\ \/ lines'[r] = IF r + 1 \notin BufferRows THEN 0 ELSE IF r + 1 = cursor THEN t ELSE lines[r + 1]
               \/ lines'[r] = IF r = cursor THEN t ELSE lines[r]
        BY <2>1, PrintFits
      <4> HIDE DEF t
      <4> QED
        BY <3>2, <4>1
    <3> QED
      BY <1>0, <2>0, <3>1, <3>2 DEF NoStaleMarker
  <2>2. ASSUME NEW row \in BufferRows, Rewrite(row) PROVE NoStaleMarker'
    <3>1. dirtyWindowTop' = dirtyWindowTop
      BY <2>2 DEF Rewrite, trackVars
    <3>2. PICK c \in Nat : \A r \in BufferRows : lines'[r] = IF r = row THEN c ELSE lines[r]
      BY <2>2, RewriteFits
    <3> QED
      BY <1>0, <2>0, <3>1, <3>2 DEF NoStaleMarker
  <2>3. CASE Find \/ FindReset
    <3>1. dirtyWindowTop' = info.top /\ SeenTop' = info.top /\ info.top \in Nat
      BY <2>3 DEF Find, FindReset, SeenTop, TypeOK
    <3> QED
      BY <3>1 DEF NoStaleMarker
  <2>4. CASE Mark
    <3>1. dirtyWindowTop' = info.top /\ SeenTop' = info.top /\ info.top \in Nat
      BY <2>4 DEF Mark, JobFits, Scraping, SeenTop, TypeOK
    <3> QED
      BY <3>1 DEF NoStaleMarker
  <2>5. CASE BeginScrape \/ ReadInfo \/ FindBail \/ Read \/ CheckInfo \/ CheckMarker \/ Send \/ UNCHANGED vars
    <3>1. UNCHANGED <<lines, dirtyWindowTop>>
      BY <2>5 DEF BeginScrape, ReadInfo, FindBail, Read, CheckInfo, CheckMarker, Send, vars, consoleVars, trackVars
    <3> QED
      BY <1>0, <2>0, <3>1 DEF NoStaleMarker
  <2> QED
    BY <1>2, <2>1, <2>2, <2>3, <2>4, <2>5 DEF Next, Program, Scrape
<1> QED
  BY <1>1, <1>2

\* The marker stays near enough to what is still to scrape.
LEMMA CloseStep ==
  ASSUME TypeOK, WindowFits, Phases, JobFits, TracksFit, MarkerInOnePlace, NoStaleMarker, MarkerClose, [Next]_vars
  PROVE  MarkerClose'
<1>0. /\ info.top \in Nat /\ scrapedLineCount \in Nat /\ scrolledCount \in Nat /\ syncRow \in Int /\ syncRow >= -1
      /\ MarkerRow \in Int /\ NewSyncRow \in Int
      /\ scrapedLineCount - scrolledCount <= MaxOf(dirtyWindowTop, 0)
  <2>1. /\ info.top \in Nat /\ scrapedLineCount \in Nat /\ scrolledCount \in Nat /\ syncRow \in Int /\ syncRow >= -1
    BY ConstantsFit DEF TypeOK, BufferRows, NoMarker
  <2>2. NewSyncRow \in Int
    BY <2>1, ConstantsFit DEF NewSyncRow
  <2> QED
    BY <2>1, <2>2, MarkerRowFits DEF TracksFit
<1>1. ASSUME ~ShouldCreate(MarkerRow) PROVE info.top < MarkerRow + 2 * Gap
  BY <1>0, <1>1, ConstantsFit DEF ShouldCreate, NewSyncRow
<1>2. CASE Program
  <2>1. UNCHANGED <<pc, frozen, job, info, trackVars>>
    BY <1>2, ScraperKept
  <2> QED
    BY <2>1 DEF MarkerClose, Scraping, trackVars
<1>3. CASE BeginScrape \/ ReadInfo \/ Read \/ (FindBail /\ MarkerLost) \/ UNCHANGED vars
  BY <1>3 DEF MarkerClose, Scraping, BeginScrape, ReadInfo, Read, FindBail, Bail, trackVars, vars, Tentative
<1>4. CASE CheckInfo \/ CheckMarker
  BY <1>4 DEF MarkerClose, Scraping, CheckInfo, CheckMarker, Bail, trackVars, Phases
<1>5. CASE FindReset
  <2>1. /\ pc = "find" /\ pc' = "read" /\ frozen /\ frozen' = frozen /\ info' = info /\ syncRow' = NoMarker
        /\ MarkerLost \/ MovedUp
    BY <1>5 DEF FindReset, ResetTracking, Tentative
  <2>2. job'.create = ShouldCreate(MarkerRow)
    BY <1>5, ResetFits
  <2>3. MarkerRow = NoMarker
    <3>1. ASSUME MarkerRow # NoMarker PROVE FALSE
      <4>1. MovedUp /\ syncRow # NoMarker
        BY <2>1, <3>1, MarkerFound DEF MarkerLost
      <4>2. \A r \in BufferRows : lines[r] >= 0
        BY <1>0, <2>1, <4>1, ConstantsFit DEF NoStaleMarker, SeenTop, MovedUp, TypeOK, BufferRows
      <4>3. syncCounter >= 1 /\ syncCounter \in Nat
        BY <4>1 DEF TracksFit, TypeOK
      <4>4. PICK r \in BufferRows : lines[r] = -syncCounter
        BY <3>1, MarkerFound
      <4> QED
        BY <4>2, <4>3, <4>4
    <3> QED
      BY <3>1
  <2> QED
    BY <1>1, <2>1, <2>2, <2>3 DEF MarkerClose
<1>6. CASE Find \/ (FindBail /\ ~MarkerLost)
  <2>1. /\ pc = "find" /\ ~MarkerLost /\ scrolledCount' = scrolledCount + (syncRow - MarkerRow)
        /\ syncRow' = MarkerRow /\ scrapedLineCount' = scrapedLineCount /\ info' = info
        /\ pc' \in {"find", "read"}
    BY <1>6 DEF Find, FindBail, Bail
  <2>2. scrapedLineCount - scrolledCount < syncRow + 2 * Gap
    BY <2>1 DEF MarkerClose
  <2>3. scrapedLineCount' - scrolledCount' < syncRow' + 2 * Gap
    BY <1>0, <2>1, <2>2, ConstantsFit
  <2>4. pc' = "read" => job'.create = ShouldCreate(MarkerRow)
    BY <1>6, FindFits DEF FindBail, Bail
  <2>5. pc' = "read" /\ ~job'.create => info'.top < syncRow' + 2 * Gap
    BY <1>1, <2>1, <2>4
  <2> QED
    BY <2>1, <2>3, <2>5 DEF MarkerClose, Scraping
<1>7. CASE Mark /\ job.create
  <2>1. /\ syncRow' = NewSyncRow /\ NewSyncRow + Gap = info.top
    BY <1>7, MarkFits
  <2>2. /\ UNCHANGED <<scrapedLineCount, scrolledCount, info, job>> /\ dirtyWindowTop = info.top
    BY <1>7 DEF Mark, JobFits, Scraping
  <2>3. scrapedLineCount - scrolledCount <= info.top
    BY <1>0, <2>2 DEF MaxOf
  <2> QED
    BY <1>0, <1>7, <2>1, <2>2, <2>3, ConstantsFit DEF MarkerClose
<1>8. CASE Mark /\ ~job.create
  <2>1. /\ UNCHANGED <<scrapedLineCount, scrolledCount, info, job, syncRow>> /\ dirtyWindowTop = info.top
        /\ pc = "mark" /\ pc' = "send"
    BY <1>8 DEF Mark, JobFits, Scraping
  <2>2. info.top < syncRow + 2 * Gap
    BY <1>8, <2>1 DEF MarkerClose, Scraping
  <2>3. scrapedLineCount - scrolledCount < syncRow + 2 * Gap
    BY <1>0, <2>1, <2>2, ConstantsFit DEF MaxOf
  <2> QED
    BY <2>1, <2>2, <2>3 DEF MarkerClose
<1>9. CASE Send
  <2>1. /\ scrapedLineCount' = info.top + scrolledCount /\ UNCHANGED <<scrolledCount, syncRow, info, job>>
        /\ pc = "send" /\ pc' = "idle"
    BY <1>9 DEF Send
  <2>2. info.top < syncRow + 2 * Gap
    <3>1. CASE job.create
      <4>1. syncRow = NewSyncRow
        BY <2>1, <3>1 DEF JobFits, Scraping
      <4> QED
        BY <1>0, <4>1, ConstantsFit DEF NewSyncRow
    <3>2. CASE ~job.create
      BY <2>1, <3>2 DEF MarkerClose, Scraping
    <3> QED
      BY <3>1, <3>2
  <2>3. scrapedLineCount' - scrolledCount' = info.top
    BY <1>0, <2>1
  <2> QED
    BY <2>1, <2>2, <2>3 DEF MarkerClose, Scraping
<1> QED
  BY <1>2, <1>3, <1>4, <1>5, <1>6, <1>7, <1>8, <1>9 DEF Next, Scrape

-----------------------------------------------------------------------------
(* What holds until the marker is lost                                     *)

\* The row the marker has scrolled to keeps it until it is lost.
LEMMA TrackedStep ==
  ASSUME TypeOK, WindowFits, Phases, JobFits, TracksFit, MarkerInOnePlace, UntornInv, ~lost => TrackedInv,
         [Next]_vars, ~torn', ~lost'
  PROVE  TrackedInv'
<1>0. /\ fell \in Nat /\ base \in Nat /\ scrolledCount \in Nat /\ syncCounter \in Nat
      /\ top \in Nat /\ info.top \in Nat /\ cursor \in Nat /\ top <= cursor /\ lost \in BOOLEAN
      /\ \A r \in BufferRows : r \in Nat
  <2>1. cursor \in Window(top)
    BY DEF WindowFits
  <2> QED
    BY <2>1, ConstantsFit DEF TypeOK, BufferRows, Window
<1>1. CASE Clear
  BY <1>1 DEF Clear
<1>2. CASE FindReset
  <2>1. /\ syncRow' = NoMarker /\ scrolledCount' = 0 /\ base' = fell /\ fell' = fell /\ dirtyWindowTop' = info.top
        /\ info' = info /\ pc' = "read"
    BY <1>2 DEF FindReset, ResetTracking, consoleVars
  <2> QED
    BY <1>0, <2>1 DEF TrackedInv, SeenTop, InStep
<1>3. CASE ~Clear /\ ~FindReset
  <2>0. SeenTop \in Nat /\ SeenTop' \in Nat /\ SeenTop <= SeenTop' /\ SeenTop <= top
    BY <1>3, SeenTopMoves DEF UntornInv, TopSeen
  <2>1. ~lost
    <3>1. CASE PrintLine
      BY <1>0, <3>1, PrintFits
    <3>2. CASE ~PrintLine
      <4>1. lost' = lost
        BY <1>3, <3>2 DEF Next, Program, Scrape, Rewrite, BeginScrape, ReadInfo, FindBail, Find, Read, CheckInfo,
                          CheckMarker, Mark, Send, vars
      <4> QED
        BY <4>1
    <3> QED
      BY <3>1, <3>2
  <2>2. TrackedInv
    BY <2>1
  <2>3. ASSUME syncRow # NoMarker
        PROVE  /\ syncRow \in BufferRows /\ syncCounter >= 1 /\ syncRow + Gap <= dirtyWindowTop
               /\ dirtyWindowTop \in BufferRows /\ dirtyWindowTop <= SeenTop
               /\ MarkerNow \in Nat /\ MarkerNow <= syncRow
               /\ \A r \in MarkerNow..(MarkerNow + SYNC_MARKER_LEN - 1) : lines[r] = -syncCounter
               /\ \A r \in BufferRows : lines[r] = -syncCounter =>
                    r \in MarkerNow..(MarkerNow + SYNC_MARKER_LEN - 1)
    <3>1. /\ syncRow \in BufferRows /\ syncCounter >= 1 /\ syncRow + Gap <= dirtyWindowTop
          /\ dirtyWindowTop \in BufferRows
      BY <2>3, MarkerHigh
    <3>2. /\ MarkerNow >= 0 /\ dirtyWindowTop <= SeenTop
          /\ \A r \in MarkerNow..(MarkerNow + SYNC_MARKER_LEN - 1) : lines[r] = -syncCounter
          /\ \A r \in BufferRows : lines[r] = -syncCounter =>
               r \in MarkerNow..(MarkerNow + SYNC_MARKER_LEN - 1)
      BY <2>2, <2>3 DEF TrackedInv
    <3>3. scrolledCount + base <= fell
      BY DEF TracksFit
    <3> QED
      BY <1>0, <3>1, <3>2, <3>3 DEF MarkerNow
  <2>4. dirtyWindowTop \in Int /\ dirtyWindowTop <= SeenTop
    BY <2>2, ConstantsFit DEF TrackedInv, TypeOK, BufferRows
  <2>5. CASE PrintLine
    <3>1. UNCHANGED <<pc, frozen, syncRow, syncCounter, scrolledCount, base, dirtyWindowTop>> /\ ~frozen
      BY <2>5 DEF PrintLine, trackVars
    <3>2. dirtyWindowTop <= SeenTop'
      BY <2>0, <2>4
    <3> DEFINE t == Text(fell + cursor)
    <3>3. /\ t \in Nat /\ t > 0
          /\ \/ /\ fell' = fell + 1 /\ (lost' = (lost \/ syncRow = NoMarker \/ lines[0] = -syncCounter))
                /\ \A r \in BufferRows : lines'[r] = IF r + 1 \notin BufferRows THEN 0
                                                     ELSE IF r + 1 = cursor THEN t ELSE lines[r + 1]
             \/ /\ fell' = fell
                /\ \A r \in BufferRows : lines'[r] = IF r = cursor THEN t ELSE lines[r]
      BY <2>5, PrintFits
    <3> HIDE DEF t
    <3>4. syncRow = NoMarker => fell' = fell /\ InStep
      BY <2>2, <3>3 DEF TrackedInv
    <3>5. CASE syncRow = NoMarker
      BY <1>0, <3>1, <3>2, <3>4, <3>5 DEF TrackedInv, InStep
    <3>6. CASE syncRow # NoMarker
      <4> DEFINE m == MarkerNow
                 c == syncCounter
      <4>1. /\ m \in Nat /\ c \in Nat /\ c >= 1 /\ m + Gap <= cursor /\ cursor \in BufferRows
            /\ \A r \in m..(m + SYNC_MARKER_LEN - 1) : lines[r] = -c
            /\ \A r \in BufferRows : lines[r] = -c => r \in m..(m + SYNC_MARKER_LEN - 1)
        <5>1. cursor \in BufferRows
          BY DEF TypeOK
        <5>2. m \in Nat /\ m + Gap <= cursor
          BY <1>0, <2>0, <2>3, <3>6, ConstantsFit DEF BufferRows
        <5> QED
          BY <1>0, <2>3, <3>6, <5>1, <5>2
      <4>2. /\ MarkerNow' = IF fell' = fell THEN m ELSE m - 1
            /\ fell' = fell \/ fell' = fell + 1
        BY <1>0, <2>3, <3>1, <3>3, <3>6 DEF MarkerNow, BufferRows
      <4> HIDE DEF m, c
      <4>3. CASE /\ fell' = fell + 1 /\ (lost' = (lost \/ syncRow = NoMarker \/ lines[0] = -syncCounter))
                 /\ \A r \in BufferRows : lines'[r] = IF r + 1 \notin BufferRows THEN 0
                                                      ELSE IF r + 1 = cursor THEN t ELSE lines[r + 1]
        <5>1. lines[0] # -c
          BY <4>3 DEF c
        <5>2. m # 0
          <6>1. m \in m..(m + SYNC_MARKER_LEN - 1)
            BY <4>1, ConstantsFit
          <6> QED
            BY <4>1, <5>1, <6>1
        <5>3. MarkerNow' = m - 1 /\ m - 1 >= 0
          BY <1>0, <4>1, <4>2, <4>3, <5>2
        <5>4. ASSUME NEW r \in (m - 1)..((m - 1) + SYNC_MARKER_LEN - 1) PROVE lines'[r] = -c
          <6>1. /\ r \in BufferRows /\ r + 1 \in BufferRows /\ r + 1 # cursor
                /\ r + 1 \in m..(m + SYNC_MARKER_LEN - 1)
            BY <4>1, <5>3, ConstantsFit DEF BufferRows
          <6> QED
            BY <4>1, <4>3, <6>1
        <5>5. ASSUME NEW r \in BufferRows, lines'[r] = -c PROVE r \in (m - 1)..((m - 1) + SYNC_MARKER_LEN - 1)
          <6>1. r + 1 \in BufferRows /\ lines[r + 1] = -c
            BY <3>3, <4>1, <4>3, <5>5
          <6>2. r + 1 \in m..(m + SYNC_MARKER_LEN - 1)
            BY <4>1, <6>1
          <6> QED
            BY <1>0, <4>1, <6>2, ConstantsFit
        <5>6. syncCounter' = c /\ dirtyWindowTop' <= SeenTop'
          BY <3>1, <3>2 DEF c
        <5> QED
          BY <3>1, <3>6, <5>3, <5>4, <5>5, <5>6 DEF TrackedInv
      <4>4. CASE fell' = fell /\ \A r \in BufferRows : lines'[r] = IF r = cursor THEN t ELSE lines[r]
        <5>1. MarkerNow' = m /\ m >= 0
          BY <4>1, <4>2, <4>4
        <5>2. ASSUME NEW r \in m..(m + SYNC_MARKER_LEN - 1) PROVE lines'[r] = -c
          <6>1. r \in BufferRows /\ r # cursor
            BY <4>1, ConstantsFit DEF BufferRows
          <6> QED
            BY <4>1, <4>4, <6>1
        <5>3. ASSUME NEW r \in BufferRows, lines'[r] = -c PROVE r \in m..(m + SYNC_MARKER_LEN - 1)
          <6>1. lines[r] = -c
            BY <3>3, <4>1, <4>4, <5>3
          <6> QED
            BY <4>1, <6>1
        <5>4. syncCounter' = c /\ dirtyWindowTop' <= SeenTop'
          BY <3>1, <3>2 DEF c
        <5> QED
          BY <3>1, <3>6, <5>1, <5>2, <5>3, <5>4 DEF TrackedInv
      <4> QED
        BY <3>3, <4>3, <4>4
    <3> QED
      BY <3>5, <3>6
  <2>6. ASSUME NEW row \in BufferRows, Rewrite(row) PROVE TrackedInv'
    <3>1. UNCHANGED <<pc, frozen, syncRow, syncCounter, scrolledCount, base, dirtyWindowTop, fell, top, info,
                      MarkerNow, SeenTop>>
      BY <2>6 DEF Rewrite, trackVars, MarkerNow, SeenTop
    <3>2. PICK c \in Nat : \A r \in BufferRows : lines'[r] = IF r = row THEN c ELSE lines[r]
      BY <2>6, RewriteFits
    <3>3. top <= row
      BY <2>6, RewriteFits
    <3>4. ASSUME syncRow # NoMarker
          PROVE  /\ \A r \in MarkerNow..(MarkerNow + SYNC_MARKER_LEN - 1) : lines'[r] = -syncCounter
                 /\ \A r \in BufferRows : lines'[r] = -syncCounter =>
                      r \in MarkerNow..(MarkerNow + SYNC_MARKER_LEN - 1)
      <4> DEFINE m == MarkerNow
      <4>1. /\ m \in Nat /\ syncCounter >= 1 /\ m + Gap <= row /\ row \in Nat
            /\ \A r \in m..(m + SYNC_MARKER_LEN - 1) : lines[r] = -syncCounter
            /\ \A r \in BufferRows : lines[r] = -syncCounter => r \in m..(m + SYNC_MARKER_LEN - 1)
        <5>1. m \in Nat /\ m + Gap <= row /\ row \in Nat
          BY <1>0, <2>0, <2>3, <3>3, <3>4, ConstantsFit DEF BufferRows
        <5> QED
          BY <2>3, <3>4, <5>1
      <4> HIDE DEF m
      <4>2. ASSUME NEW r \in m..(m + SYNC_MARKER_LEN - 1) PROVE lines'[r] = -syncCounter
        <5>1. r \in BufferRows /\ r # row
          BY <4>1, ConstantsFit DEF BufferRows
        <5> QED
          BY <3>2, <4>1, <5>1
      <4>3. ASSUME NEW r \in BufferRows, lines'[r] = -syncCounter PROVE r \in m..(m + SYNC_MARKER_LEN - 1)
        <5>1. lines[r] = -syncCounter
          BY <1>0, <3>2, <4>1, <4>3
        <5> QED
          BY <4>1, <5>1
      <4> QED
        BY <4>2, <4>3 DEF m
    <3>5. /\ syncRow = NoMarker \/ (Scraping /\ frozen) => InStep
          /\ syncRow # NoMarker => MarkerNow >= 0
      BY <2>2 DEF TrackedInv
    <3> QED
      BY <2>4, <3>1, <3>4, <3>5 DEF TrackedInv, InStep, Scraping
  <2>7. CASE BeginScrape \/ ReadInfo \/ Read \/ CheckInfo \/ CheckMarker \/ (Mark /\ ~job.create) \/ Send
             \/ UNCHANGED vars
    <3>1. UNCHANGED <<syncRow, syncCounter, scrolledCount, base, dirtyWindowTop, fell, lines, MarkerNow, InStep>>
      <4>1. UNCHANGED <<syncRow, syncCounter, scrolledCount, base, dirtyWindowTop, fell, lines>>
        BY <2>7 DEF BeginScrape, ReadInfo, Read, CheckInfo, CheckMarker, Mark, Send, vars, consoleVars, trackVars
      <4> QED
        BY <4>1 DEF MarkerNow, InStep
    <3>2. Scraping' /\ frozen' => Scraping /\ frozen
      BY <2>7 DEF Scraping, BeginScrape, ReadInfo, Read, CheckInfo, CheckMarker, Bail, Mark, Send, vars
    <3> QED
      BY <2>0, <2>2, <2>4, <3>1, <3>2 DEF TrackedInv
  <2>8. CASE Find \/ FindBail
    <3>1. ~MarkerLost /\ (syncRow # NoMarker => MarkerRow = MarkerNow)
          /\ fell = base + scrolledCount + (syncRow - MarkerRow)
      BY <2>2, MarkerTracked
    <3>2. /\ syncRow' = MarkerRow /\ scrolledCount' = scrolledCount + (syncRow - MarkerRow)
          /\ UNCHANGED <<syncCounter, base, fell, lines, info, top>>
          /\ dirtyWindowTop' = dirtyWindowTop \/ dirtyWindowTop' = info.top
          /\ pc = "find" /\ pc' \in {"find", "read"}
      BY <2>8, <3>1 DEF Find, FindBail, Bail, consoleVars
    <3>3. /\ MarkerRow \in Int /\ syncRow \in Int
      BY MarkerRowFits, ConstantsFit DEF TypeOK, BufferRows, NoMarker
    <3>4. InStep'
      BY <1>0, <3>1, <3>2, <3>3 DEF InStep
    <3>5. MarkerNow' = MarkerRow
      BY <1>0, <3>2, <3>3, <3>4 DEF InStep, MarkerNow
    <3>6. SeenTop' = info.top /\ SeenTop = info.top
      BY <3>2 DEF SeenTop
    <3>7. syncRow' # NoMarker => syncRow # NoMarker
      BY <3>2, MarkerRowFits
    <3> QED
      BY <2>3, <2>4, <1>0, <3>1, <3>2, <3>4, <3>5, <3>6, <3>7 DEF TrackedInv
  <2>9. CASE Mark /\ job.create
    <3>1. /\ pc = "mark" /\ pc' = "send" /\ frozen
          /\ UNCHANGED <<scrolledCount, base, fell, info, dirtyWindowTop, frozen>>
      BY <2>9 DEF Mark, Phases
    <3>2. InStep /\ InStep'
      BY <2>2, <3>1 DEF TrackedInv, Scraping, InStep
    <3> DEFINE n == NewSyncRow
               c == syncCounter + 1
    <3>3. /\ n \in BufferRows /\ syncRow' = n /\ syncCounter' = c /\ n + Gap = info.top
          /\ \A r \in BufferRows :
                /\ n <= r /\ r < n + SYNC_MARKER_LEN => lines'[r] = -c
                /\ r = n - 1 => lines'[r] = 0
                /\ r < n - 1 \/ r >= n + SYNC_MARKER_LEN => lines'[r] = lines[r]
      BY <2>9, MarkFits
    <3>4. c \in Nat /\ c > syncCounter /\ c > 0 /\ n \in Nat /\ n + Gap < BUFFER_LINE_COUNT
      BY <1>0, <3>3, ConstantsFit DEF WindowFits
    <3>5. MarkerNow' = n
      <4>1. fell' - base' - scrolledCount' = 0
        BY <1>0, <3>1, <3>2 DEF InStep
      <4> QED
        BY <3>3, <3>4, <4>1 DEF MarkerNow
    <3>6. \A r \in BufferRows : lines[r] \in Int /\ lines[r] >= -syncCounter
      BY DEF TypeOK, MarkerInOnePlace
    <3>7. dirtyWindowTop' <= SeenTop'
      BY <1>0, <2>4, <3>1 DEF SeenTop
    <3> HIDE DEF n, c
    <3>8. \A r \in n..(n + SYNC_MARKER_LEN - 1) : lines'[r] = -c
      <4>1. ASSUME NEW r \in n..(n + SYNC_MARKER_LEN - 1) PROVE lines'[r] = -c
        <5>1. r \in BufferRows /\ n <= r /\ r < n + SYNC_MARKER_LEN
          BY <3>4, ConstantsFit DEF BufferRows
        <5> QED
          BY <3>3, <5>1
      <4> QED
        BY <4>1
    <3>9. ASSUME NEW r \in BufferRows, lines'[r] = -c PROVE r \in n..(n + SYNC_MARKER_LEN - 1)
      <4>1. lines[r] # -c /\ r \in Nat
        BY <1>0, <3>4, <3>6
      <4>2. ~(r < n - 1 \/ r >= n + SYNC_MARKER_LEN) /\ r # n - 1
        BY <3>3, <3>4, <3>9, <4>1
      <4> QED
        BY <3>4, <4>1, <4>2, ConstantsFit
    <3> QED
      BY <3>2, <3>3, <3>4, <3>5, <3>7, <3>8, <3>9 DEF TrackedInv
  <2> QED
    BY <1>3, <2>5, <2>6, <2>7, <2>8, <2>9 DEF Next, Program, Scrape
<1> QED
  BY <1>1, <1>2, <1>3

\* The line read as virtual line v was sent, or is what the terminal has.
LEMMA SentShown ==
  ASSUME TypeOK, WindowFits, JobFits, TracksFit, SentRecorded, Send,
         NEW v \in Lines, scrapedLineCount <= v, v < StopLine
  PROVE  shown'[v] = Line(v)
<1>1. shown' = [x \in Lines |-> IF x \in Sent THEN Line(x) ELSE shown[x]]
  BY DEF Send
<1>2. job.first = scrapedLineCount /\ StopLine \in Nat
  BY SentFits DEF Send
<1>3. CASE v \in Sent
  BY <1>1, <1>3
<1>4. CASE v \notin Sent
  <2>1. v \in Int /\ scrapedLineCount \in Int /\ maxBufferedLine \in Int
    BY ConstantsFit DEF Lines, TypeOK
  <2>2. v \in job.first..(StopLine - 1) /\ v \in job.first..v
    BY <1>2, <2>1
  <2>3. ~Changed(v)
    BY <1>4, <2>2 DEF Sent
  <2>4. v <= maxBufferedLine /\ bufferData[v % BUFFER_LINE_COUNT] = <<Line(v)>>
    BY <2>1, <2>3 DEF Changed
  <2>5. bufferData[v % BUFFER_LINE_COUNT] = <<shown[v]>>
    BY <2>4 DEF SentRecorded
  <2>6. shown[v] = Line(v)
    BY <2>4, <2>5
  <2> QED
    BY <1>1, <1>4, <2>6
<1> QED
  BY <1>3, <1>4

\* Lines not yet sent stay in the buffer.
LEMMA StillStep ==
  ASSUME TypeOK, WindowFits, Phases, JobFits, TracksFit, MarkerInOnePlace, Unwritten, UntornInv,
         ~lost => TrackedInv /\ KeptInv, [Next]_vars, ~torn', ~lost', TypeOK', WindowFits'
  PROVE  StillToScrape'
<1>0. /\ fell \in Nat /\ base \in Nat /\ scrolledCount \in Nat /\ scrapedLineCount \in Nat /\ info.top \in Nat
      /\ lost \in BOOLEAN /\ \A r \in BufferRows : r \in Nat
  BY DEF TypeOK, BufferRows
<1>1. CASE Clear
  BY <1>1 DEF Clear
<1>2. CASE FindReset
  <2>1. /\ scrapedLineCount' = info.top /\ base' = fell /\ UNCHANGED <<fell, lines, written>> /\ pc = "find"
    BY <1>2 DEF FindReset, ResetTracking, consoleVars
  <2>2. ASSUME NEW r \in BufferRows, fell + r >= info.top + fell PROVE lines[r] = written[fell + r]
    <3>1. r >= SeenTop
      BY <1>0, <2>1, <2>2 DEF SeenTop
    <3> QED
      BY <3>1 DEF UntornInv, WrittenBelow
  <2> QED
    BY <2>1, <2>2 DEF StillToScrape
<1>3. CASE PrintLine
  <2>1. ~lost
    BY <1>0, <1>3, PrintFits
  <2>2. /\ UNCHANGED <<pc, job, scrapedLineCount, base>>
    BY <1>3 DEF PrintLine, trackVars
  <2>3. ASSUME ~(pc = "send" /\ job.create), NEW r \in BufferRows, fell' + r >= scrapedLineCount + base
        PROVE  lines'[r] = written'[fell' + r]
    <3>1. \A x \in BufferRows : fell + x >= scrapedLineCount + base => lines[x] = written[fell + x]
      BY <2>1, <2>3 DEF KeptInv, StillToScrape
    <3>2. fell' = fell + 1 /\ r + 1 \in BufferRows => lines[r + 1] = written[fell + (r + 1)]
      BY <1>0, <2>3, <3>1
    <3>3. fell' = fell => lines[r] = written[fell + r]
      BY <2>3, <3>1
    <3> QED
      BY <1>3, <3>2, <3>3, PrintAgrees
  <2> QED
    BY <2>2, <2>3 DEF StillToScrape
<1>4. ASSUME NEW row \in BufferRows, Rewrite(row) PROVE StillToScrape'
  <2>1. UNCHANGED <<pc, job, scrapedLineCount, base, fell, lost>>
    BY <1>4 DEF Rewrite, trackVars
  <2>2. ASSUME ~(pc = "send" /\ job.create), NEW r \in BufferRows, fell + r >= scrapedLineCount + base
        PROVE  lines'[r] = written'[fell' + r]
    <3>1. lines[r] = written[fell + r]
      BY <2>1, <2>2 DEF KeptInv, StillToScrape
    <3> QED
      BY <1>4, <3>1, RewriteAgrees
  <2> QED
    BY <2>1, <2>2 DEF StillToScrape
<1>5. CASE BeginScrape \/ ReadInfo \/ FindBail \/ Find \/ Read \/ CheckInfo \/ CheckMarker \/ (Mark /\ ~job.create)
           \/ UNCHANGED vars
  <2>1. UNCHANGED <<lines, written, fell, scrapedLineCount, base, lost>>
    BY <1>5 DEF BeginScrape, ReadInfo, FindBail, Find, Read, CheckInfo, CheckMarker, Mark, vars, consoleVars, trackVars
  <2>2. pc = "send" /\ job.create => pc' = "send" /\ job'.create
    BY <1>5 DEF BeginScrape, ReadInfo, FindBail, Find, Read, CheckInfo, CheckMarker, Mark, vars
  <2> QED
    BY <2>1, <2>2 DEF KeptInv, StillToScrape
<1>6. CASE Mark /\ job.create
  BY <1>6 DEF Mark, StillToScrape
<1>7. CASE Send
  <2>1. /\ scrapedLineCount' = info.top + scrolledCount /\ UNCHANGED <<base, fell, lines, written, lost>>
        /\ pc = "send"
    BY <1>7 DEF Send, consoleVars
  <2>2. ASSUME NEW r \in BufferRows, fell + r >= info.top + scrolledCount + base PROVE lines[r] = written[fell + r]
    <3>1. CASE job.create
      <4>1. fell = base + scrolledCount
        BY <2>1, <3>1 DEF TrackedInv, Phases, Scraping, InStep
      <4>2. r >= SeenTop
        BY <1>0, <2>1, <2>2, <4>1 DEF SeenTop
      <4> QED
        BY <4>2 DEF UntornInv, WrittenBelow
    <3>2. CASE ~job.create
      <4>1. scrapedLineCount <= info.top + scrolledCount
        BY <2>1, SentFits
      <4>2. fell + r >= scrapedLineCount + base
        BY <1>0, <2>2, <4>1
      <4> QED
        BY <2>1, <3>2, <4>2 DEF KeptInv, StillToScrape
    <3> QED
      BY <3>1, <3>2
  <2> QED
    BY <2>1, <2>2 DEF StillToScrape
<1> QED
  BY <1>1, <1>2, <1>3, <1>4, <1>5, <1>6, <1>7 DEF Next, Program, Scrape

\* What a program writes it writes in the window, below all that has been scraped
\* and all above the window that is still to scrape.
LEMMA ProgramsWriteBelow ==
  ASSUME TypeOK, WindowFits, TracksFit, TopSeen, TrackedInv, Program, ~lost'
  PROVE  /\ \A a \in Nat : a < fell + top => written'[a] = written[a]
         /\ scrapedLineCount + base <= fell + top
<1>0. /\ fell \in Nat /\ top \in Nat /\ base \in Nat /\ scrolledCount \in Nat /\ scrapedLineCount \in Nat
      /\ info.top \in Nat /\ SeenTop \in Nat /\ dirtyWindowTop \in Int /\ written \in [Lines -> Nat]
  BY ConstantsFit DEF TypeOK, BufferRows, SeenTop
<1>1. scrapedLineCount + base <= fell + top
  <2>1. /\ scrapedLineCount - scrolledCount <= MaxOf(dirtyWindowTop, 0) /\ scrolledCount + base <= fell
        /\ dirtyWindowTop <= SeenTop /\ SeenTop <= top
    BY DEF TracksFit, TrackedInv, TopSeen
  <2> QED
    BY <1>0, <2>1 DEF MaxOf
<1>2. ASSUME NEW a \in Nat, a < fell + top PROVE written'[a] = written[a]
  <2>1. CASE PrintLine
    <3>1. written' = [written EXCEPT ![fell + cursor] = Text(fell + cursor)] /\ top <= cursor /\ cursor \in BufferRows
      BY <2>1, PrintFits
    <3>2. a # fell + cursor
      BY <1>0, <1>2, <3>1 DEF BufferRows
    <3> QED
      BY <1>0, <3>1, <3>2
  <2>2. CASE Clear
    BY <2>2 DEF Clear
  <2>3. ASSUME NEW row \in BufferRows, Rewrite(row) PROVE written'[a] = written[a]
    <3>1. PICK c \in {0, Text(MaxPrinted + BUFFER_LINE_COUNT)} : written' = [written EXCEPT ![fell + row] = c]
      BY <2>3 DEF Rewrite
    <3>2. a # fell + row
      BY <1>0, <1>2, <2>3, RewriteFits DEF BufferRows
    <3> QED
      BY <1>0, <3>1, <3>2
  <2> QED
    BY <2>1, <2>2, <2>3 DEF Program
<1> QED
  BY <1>1, <1>2

\* What was read stays what was written, as long as nothing has scrolled.
LEMMA ReadStep ==
  ASSUME TypeOK, WindowFits, Phases, JobFits, TracksFit, MarkerInOnePlace, UntornInv,
         ~lost => TrackedInv /\ KeptInv, [Next]_vars, ~torn', ~lost'
  PROVE  ReadAsWritten'
<1>0. /\ fell \in Nat /\ base \in Nat /\ scrolledCount \in Nat /\ scrapedLineCount \in Nat /\ info.top \in Nat
      /\ lost \in BOOLEAN /\ top \in Nat /\ scrolledCount <= scrapedLineCount /\ scrolledCount + base <= fell
  BY DEF TypeOK, TracksFit
<1>1. CASE Clear
  BY <1>1 DEF Clear
<1>2. CASE Program /\ ~Clear
  <2>1. ~lost /\ fell' \in Nat /\ fell' >= fell
    <3>1. CASE PrintLine
      <4>1. fell' = fell \/ (fell' = fell + 1 /\ (lost' = (lost \/ syncRow = NoMarker \/ lines[0] = -syncCounter)))
            \/ lost' = lost
        BY <3>1, PrintFits
      <4>2. fell' = fell \/ fell' = fell + 1
        BY <3>1, PrintFits
      <4> QED
        BY <1>0, <3>1, <4>2, PrintFits
    <3>2. ASSUME NEW row \in BufferRows, Rewrite(row) PROVE fell' = fell /\ lost' = lost
      BY <3>2, RewriteFits
    <3> QED
      BY <1>0, <1>2, <3>1, <3>2 DEF Program
  <2>2. UNCHANGED <<pc, info, readBuffer, scrapedLineCount, scrolledCount, base>>
    BY <1>2, ScraperKept DEF trackVars
  <2>3. InStep' => InStep
    BY <1>0, <2>1, <2>2 DEF InStep
  <2>4. \A a \in Nat : a < fell + top => written'[a] = written[a]
    BY <1>2, <2>1, ProgramsWriteBelow DEF UntornInv
  <2>5. ASSUME pc \in {"mark", "send"} \/ (pc \in {"checkInfo", "checkMarker"} /\ InStep'),
               NEW r \in (scrapedLineCount - scrolledCount)..(info.top - 1)
        PROVE  readBuffer[r] = written'[base + scrolledCount + r]
    <3>1. readBuffer[r] = written[base + scrolledCount + r]
      BY <2>1, <2>3, <2>5 DEF KeptInv, ReadAsWritten
    <3>2. info.top <= top
      BY <2>5 DEF UntornInv, TopSeen, SeenTop
    <3>3. base + scrolledCount + r \in Nat /\ base + scrolledCount + r < fell + top
      BY <1>0, <2>5, <3>2
    <3> QED
      BY <2>4, <3>1, <3>3
  <2> QED
    BY <2>2, <2>5 DEF ReadAsWritten
<1>3. CASE BeginScrape \/ ReadInfo \/ FindReset \/ FindBail \/ Find \/ Send
  BY <1>3 DEF ReadAsWritten, BeginScrape, ReadInfo, FindReset, FindBail, Bail, Find, Send
<1>4. CASE Read
  <2>1. /\ pc = "read" /\ readBuffer' = [r \in job.readTop..(job.readStop - 1) |-> lines[r]]
        /\ UNCHANGED <<scrapedLineCount, scrolledCount, info, base, written, fell, lost>>
        /\ pc' \in {"checkInfo", "mark"} /\ (pc' = "mark" => frozen)
    BY <1>4 DEF Read, Tentative, consoleVars, trackVars
  <2>2. ASSUME pc' = "mark" \/ InStep', NEW r \in (scrapedLineCount - scrolledCount)..(info.top - 1)
        PROVE  readBuffer'[r] = written[base + scrolledCount + r]
    <3>1. fell = base + scrolledCount
      BY <2>1, <2>2 DEF TrackedInv, Scraping, InStep
    <3>2. r \in Nat /\ r \in BufferRows
      BY <1>0, ConstantsFit DEF WindowFits, BufferRows
    <3>3. lines[r] = written[fell + r]
      <4>1. fell + r >= scrapedLineCount + base
        BY <1>0, <3>1, <3>2
      <4> QED
        BY <2>1, <3>2, <4>1 DEF KeptInv, StillToScrape
    <3>4. r \in job.readTop..(job.readStop - 1)
      <4>1. /\ job.readTop = MinOf(scrapedLineCount - scrolledCount, dirtyLineCount - 1)
            /\ job.readStop = MaxOf(WindowBottom, dirtyLineCount) /\ dirtyLineCount \in Nat
        BY <2>1 DEF JobFits, Scraping, TypeOK
      <4> QED
        BY <1>0, <4>1, ConstantsFit DEF MinOf, MaxOf, WindowBottom
    <3> QED
      BY <2>1, <3>1, <3>3, <3>4
  <2>3. ASSUME NEW r \in (scrapedLineCount - scrolledCount)..(info.top - 1),
               pc' \in {"mark", "send"} \/ (pc' \in {"checkInfo", "checkMarker"} /\ InStep')
        PROVE  readBuffer'[r] = written[base + scrolledCount + r]
    BY <2>1, <2>2, <2>3
  <2> QED
    BY <2>1, <2>3 DEF ReadAsWritten
<1>5. CASE CheckInfo
  <2>1. /\ UNCHANGED <<scrapedLineCount, scrolledCount, info, base, written, readBuffer, InStep, lost>>
        /\ pc = "checkInfo" /\ pc' \in {"checkMarker", "find"}
    BY <1>5 DEF CheckInfo, Bail, consoleVars, trackVars, InStep
  <2> QED
    BY <2>1 DEF KeptInv, ReadAsWritten
<1>6. CASE CheckMarker
  <2>1. /\ UNCHANGED <<scrapedLineCount, scrolledCount, info, base, written, readBuffer, InStep, lost>>
        /\ pc = "checkMarker" /\ pc' \in {"send", "find"} /\ (pc' = "send" => MarkerRow = syncRow)
    BY <1>6 DEF CheckMarker, Bail, consoleVars, trackVars, InStep
  <2>2. pc' = "send" => InStep
    <3>1. fell = base + scrolledCount + (syncRow - MarkerRow)
      BY <2>1, MarkerTracked
    <3>2. syncRow \in Int
      BY ConstantsFit DEF TypeOK, BufferRows, NoMarker
    <3> QED
      BY <1>0, <2>1, <3>1, <3>2 DEF InStep
  <2> QED
    BY <2>1, <2>2 DEF KeptInv, ReadAsWritten
<1>7. CASE Mark
  <2>1. /\ UNCHANGED <<scrapedLineCount, scrolledCount, info, base, written, readBuffer, lost>> /\ pc = "mark"
    BY <1>7 DEF Mark
  <2> QED
    BY <2>1 DEF KeptInv, ReadAsWritten
<1>8. CASE UNCHANGED vars
  <2>1. UNCHANGED <<pc, scrapedLineCount, scrolledCount, info, base, written, readBuffer, InStep, lost>>
    BY <1>8 DEF vars, consoleVars, trackVars, InStep
  <2> QED
    BY <2>1 DEF KeptInv, ReadAsWritten
<1> QED
  BY <1>1, <1>2, <1>3, <1>4, <1>5, <1>6, <1>7, <1>8 DEF Next, Scrape

\* What the terminal has stays what was written.
LEMMA SentAsWrittenStep ==
  ASSUME TypeOK, WindowFits, Phases, JobFits, TracksFit, MarkerInOnePlace, SentRecorded, UntornInv,
         ~lost => TrackedInv /\ KeptInv, [Next]_vars, ~torn', ~lost'
  PROVE  SentAsWritten'
<1>0. /\ fell \in Nat /\ base \in Nat /\ scrolledCount \in Nat /\ scrapedLineCount \in Nat /\ info.top \in Nat
      /\ lost \in BOOLEAN /\ top \in Nat /\ scrolledCount <= scrapedLineCount /\ scrolledCount + base <= fell
      /\ origin \in Nat
  BY DEF TypeOK, TracksFit
<1>1. CASE Clear
  BY <1>1 DEF Clear
<1>2. CASE Program /\ ~Clear
  <2>1. ~lost
    <3>1. CASE PrintLine
      BY <1>0, <3>1, PrintFits
    <3>2. ASSUME NEW row \in BufferRows, Rewrite(row) PROVE lost' = lost
      BY <3>2, RewriteFits
    <3> QED
      BY <1>2, <3>1, <3>2 DEF Program
  <2>2. UNCHANGED <<scrapedLineCount, base, origin, shown>>
    BY <1>2, ScraperKept DEF trackVars
  <2>3. /\ \A a \in Nat : a < fell + top => written'[a] = written[a]
        /\ scrapedLineCount + base <= fell + top
    BY <1>2, <2>1, ProgramsWriteBelow DEF UntornInv
  <2>4. ASSUME NEW v \in origin..(scrapedLineCount - 1) PROVE shown[v] = written'[v + base]
    <3>1. shown[v] = written[v + base]
      BY <2>1 DEF KeptInv, SentAsWritten
    <3>2. v + base \in Nat /\ v + base < fell + top
      BY <1>0, <2>3
    <3> QED
      BY <2>3, <3>1, <3>2
  <2> QED
    BY <2>2, <2>4 DEF SentAsWritten
<1>3. CASE FindReset
  <2>1. origin' = info.top /\ scrapedLineCount' = info.top
    BY <1>3 DEF FindReset, ResetTracking
  <2> QED
    BY <1>0, <2>1 DEF SentAsWritten
<1>4. CASE BeginScrape \/ ReadInfo \/ FindBail \/ Find \/ Read \/ CheckInfo \/ CheckMarker \/ Mark \/ UNCHANGED vars
  <2>1. UNCHANGED <<scrapedLineCount, base, origin, shown, written, lost>>
    BY <1>4 DEF BeginScrape, ReadInfo, FindBail, Find, Read, CheckInfo, CheckMarker, Mark, consoleVars, trackVars, vars
  <2> QED
    BY <2>1 DEF KeptInv, SentAsWritten
<1>5. CASE Send
  <2>1. /\ scrapedLineCount' = info.top + scrolledCount /\ UNCHANGED <<base, origin, written, lost>> /\ pc = "send"
        /\ shown' = [x \in Lines |-> IF x \in Sent THEN Line(x) ELSE shown[x]]
    BY <1>5 DEF Send, consoleVars
  <2>2. /\ StopLine \in Nat /\ info.top + scrolledCount <= StopLine /\ job.first = scrapedLineCount
    BY <2>1, SentFits
  <2>3. ASSUME NEW v \in origin..(info.top + scrolledCount - 1) PROVE shown'[v] = written[v + base]
    <3>0. v \in Lines
      <4>1. v - scrolledCount \in Int /\ v < scrolledCount + BUFFER_LINE_COUNT /\ v \in Nat
        BY <1>0, ConstantsFit DEF WindowFits
      <4>2. \A r \in BufferRows : fell + r \in Lines
        BY LinesFit
      <4>3. v <= fell + (BUFFER_LINE_COUNT - 1) /\ BUFFER_LINE_COUNT - 1 \in BufferRows
        BY <1>0, <4>1, ConstantsFit DEF BufferRows
      <4> QED
        BY <1>0, <4>1, <4>2, <4>3, ConstantsFit DEF Lines
    <3>1. CASE v < scrapedLineCount
      <4>1. v \notin Sent
        BY <1>0, <2>2, <3>1 DEF Sent
      <4>2. shown[v] = written[v + base]
        BY <1>0, <2>1, <3>1 DEF KeptInv, SentAsWritten
      <4> QED
        BY <2>1, <3>0, <4>1, <4>2
    <3>2. CASE scrapedLineCount <= v
      <4>1. shown'[v] = Line(v)
        BY <1>0, <1>5, <2>2, <3>0, <3>2, SentShown
      <4> DEFINE r == v - scrolledCount
      <4>2. r \in (scrapedLineCount - scrolledCount)..(info.top - 1) /\ base + scrolledCount + r = v + base
        BY <1>0, <3>2
      <4> HIDE DEF r
      <4>3. readBuffer[r] = written[base + scrolledCount + r]
        BY <2>1, <4>2 DEF KeptInv, ReadAsWritten
      <4> QED
        BY <4>1, <4>2, <4>3 DEF r, Line
    <3> QED
      BY <1>0, <3>1, <3>2
  <2>4. ASSUME NEW v \in origin'..(scrapedLineCount' - 1) PROVE shown'[v] = written'[v + base']
    <3>1. v \in origin..(info.top + scrolledCount - 1)
      BY <1>0, <2>1, <2>4
    <3> QED
      BY <2>1, <2>3, <3>1
  <2> QED
    BY <2>4 DEF SentAsWritten
<1> QED
  BY <1>1, <1>2, <1>3, <1>4, <1>5 DEF Next, Scrape

-----------------------------------------------------------------------------
(* The theorems                                                            *)

\* The whole invariant is kept by every step.
LEMMA IInvStep ==
  ASSUME IInv, [Next]_vars
  PROVE  IInv'
<1>1. TypeOK /\ WindowFits /\ Phases /\ JobFits /\ TracksFit /\ MarkerInOnePlace /\ SentRecorded /\ Unwritten
  BY DEF IInv
<1>2. TypeOK' /\ WindowFits'
  BY <1>1, TypeStep, WindowStep
<1>3. Phases' /\ JobFits' /\ TracksFit'
  BY <1>1, PhasesStep, JobStep, TracksStep
<1>4. MarkerInOnePlace' /\ SentRecorded' /\ Unwritten'
  BY <1>1, PlaceStep, SentStep, UnwrittenStep
<1>5. ASSUME ~torn' PROVE UntornInv /\ ~torn /\ UntornInv'
  <2>1. ~torn
    <3>1. CASE Program
      BY <1>5, <3>1 DEF Program, PrintLine, Clear, Rewrite
    <3>2. CASE Scrape
      BY <1>5, <3>2, ConsoleKept
    <3>3. CASE UNCHANGED vars
      BY <1>5, <3>3 DEF vars, consoleVars
    <3> QED
      BY <3>1, <3>2, <3>3 DEF Next
  <2>2. UntornInv
    BY <2>1 DEF IInv
  <2>3. TopSeen /\ WrittenBelow /\ NoStaleMarker /\ MarkerClose
    BY <2>2 DEF UntornInv
  <2>4. TopSeen' /\ WrittenBelow'
    BY <1>1, <1>2, <1>5, <2>3, TopSeenStep, WrittenBelowStep
  <2>5. NoStaleMarker' /\ MarkerClose'
    BY <1>1, <1>5, <2>3, StaleStep, CloseStep
  <2> QED
    BY <2>1, <2>2, <2>4, <2>5 DEF UntornInv
<1>6. ASSUME ~torn', ~lost' PROVE TrackedInv' /\ KeptInv'
  <2>1. ~torn /\ UntornInv
    BY <1>5, <1>6
  <2>2. ~lost => TrackedInv /\ KeptInv
    BY <2>1 DEF IInv
  <2>3. TrackedInv'
    BY <1>1, <1>6, <2>1, <2>2, TrackedStep
  <2>4. StillToScrape'
    BY <1>1, <1>2, <1>6, <2>1, <2>2, StillStep
  <2>5. ReadAsWritten' /\ SentAsWritten'
    BY <1>1, <1>6, <2>1, <2>2, ReadStep, SentAsWrittenStep
  <2> QED
    BY <2>3, <2>4, <2>5 DEF KeptInv
<1> QED
  BY <1>2, <1>3, <1>4, <1>5, <1>6 DEF IInv

\* The inductive invariant holds in every state.
THEOREM IInvHolds == Spec => []IInv
<1>1. Init => IInv
  BY StartsWell
<1>2. IInv /\ [Next]_vars => IInv'
  BY IInvStep
<1> QED
  BY <1>1, <1>2, PTL DEF Spec

\* No assertion of scrollingScrapeOutput fails and nothing outside the rectangle
\* that was read is asked for; the terminal is reset only when what was tracked is
\* gone; and the marker stays above the window unless a clear comes in the middle of
\* a scrape: whatever programs print, with the console frozen or not.
THEOREM TrackingIsSound == Spec => []TrackingSound
<1>1. IInv => NoAssertionFails
  <2> SUFFICES ASSUME IInv PROVE NoAssertionFails
    OBVIOUS
  <2>0. TypeOK /\ WindowFits /\ JobFits /\ TracksFit
    BY DEF IInv
  <2>1. /\ info.top \in Nat /\ scrapedLineCount \in Nat /\ scrolledCount \in Nat /\ dirtyLineCount \in Nat
        /\ scrolledCount <= scrapedLineCount /\ WindowBottom \in Nat
    BY <2>0, ConstantsFit DEF TypeOK, TracksFit, WindowBottom
  <2>2. ASSUME Scraping
        PROVE  /\ dirtyLineCount >= 1 /\ job.first = scrapedLineCount
               /\ job.readTop = MinOf(scrapedLineCount - scrolledCount, dirtyLineCount - 1)
               /\ job.readStop = MaxOf(WindowBottom, dirtyLineCount)
               /\ job.create => NewSyncRow >= 1
               /\ pc # "read" => DOMAIN readBuffer = job.readTop..(job.readStop - 1)
    BY <2>0, <2>2 DEF JobFits
  <2>3. pc = "read" => job.readTop < job.readStop
    BY <2>1, <2>2 DEF Scraping, MinOf, MaxOf
  <2>4. pc = "mark" /\ job.create => NewSyncRow >= 1
    BY <2>2 DEF Scraping
  <2>5. ASSUME pc = "send"
        PROVE  /\ dirtyLineCount - 1 \in DOMAIN readBuffer
               /\ dirtyLineCount..(WindowBottom - 1) \subseteq DOMAIN readBuffer
               /\ \A v \in job.first..(WindowBottom + scrolledCount - 1) : v - scrolledCount \in DOMAIN readBuffer
    <3>1. /\ dirtyLineCount >= 1 /\ job.first = scrapedLineCount
          /\ job.readTop = MinOf(scrapedLineCount - scrolledCount, dirtyLineCount - 1)
          /\ job.readStop = MaxOf(WindowBottom, dirtyLineCount)
          /\ DOMAIN readBuffer = job.readTop..(job.readStop - 1)
      BY <2>2, <2>5 DEF Scraping
    <3> QED
      BY <2>1, <3>1 DEF MinOf, MaxOf
  <2> QED
    BY <2>3, <2>4, <2>5 DEF NoAssertionFails
<1>2. IInv => NoNeedlessReset
  <2> SUFFICES ASSUME IInv, pc = "find", MarkerLost \/ MovedUp, ~lost, ~torn PROVE FALSE
    BY DEF NoNeedlessReset
  <2>1. TypeOK /\ TracksFit /\ MarkerInOnePlace /\ TrackedInv
    BY DEF IInv
  <2>2. ~MarkerLost
    BY <2>1, MarkerTracked
  <2>3. dirtyWindowTop <= info.top
    BY <2>1 DEF TrackedInv, SeenTop
  <2> QED
    BY <2>1, <2>2, <2>3, ConstantsFit DEF MovedUp, TypeOK, BufferRows
<1>3. IInv => MarkersAboveUnlessTorn
  <2> SUFFICES ASSUME IInv, ~torn, NEW r \in BufferRows, r >= top PROVE lines[r] >= 0
    BY DEF MarkersAboveUnlessTorn, MarkersStayAbove
  <2>1. TypeOK /\ WindowFits /\ TopSeen /\ WrittenBelow
    BY DEF IInv, UntornInv
  <2>2. r >= SeenTop
    BY <2>1 DEF TopSeen, SeenTop, TypeOK, BufferRows
  <2>3. lines[r] = written[fell + r] /\ fell + r \in Lines
    BY <2>1, <2>2, LinesFit DEF WrittenBelow
  <2> QED
    BY <2>1, <2>3 DEF TypeOK
<1>4. IInv => TrackingSound
  BY <1>1, <1>2, <1>3 DEF TrackingSound, IInv
<1> QED
  BY <1>4, IInvHolds, PTL

\* While the marker is tracked, every line that has left the window is in the
\* terminal's scrollback as it was written, once and in order, however the console
\* scrolled between two scrapes or, unfrozen, during one.
THEOREM NoLineIsSkipped == Spec => []NoLineSkipped
<1>1. IInv => NoLineSkipped
  BY DEF IInv, KeptInv, SentAsWritten, NoLineSkipped
<1> QED
  BY <1>1, IInvHolds, PTL

\* The marker is lost only to a clear or to a flood, a move of the window by almost
\* the whole buffer between two scrapes, whatever the sizes of both.
THEOREM OnlyFloodsLose == Spec => OnlyFloodsLoseTrack
<1>1. IInv /\ [Next]_vars =>
        (~torn /\ ~lost /\ lost' /\ clears' = clears => fell' + top' - (scrapedLineCount + base) >= FloodSize)
  <2> SUFFICES ASSUME IInv, [Next]_vars, ~torn, ~lost, lost', clears' = clears
               PROVE  fell' + top' - (scrapedLineCount + base) >= FloodSize
    OBVIOUS
  <2>0. TypeOK /\ WindowFits /\ Phases /\ TracksFit /\ MarkerClose /\ TrackedInv
    BY DEF IInv, UntornInv
  <2>1. /\ fell \in Nat /\ base \in Nat /\ scrolledCount \in Nat /\ scrapedLineCount \in Nat /\ clears \in Nat
        /\ syncRow \in Int /\ syncCounter \in Nat
    BY <2>0, ConstantsFit DEF TypeOK, BufferRows, NoMarker
  <2>2. PrintLine
    <3>1. ~Clear
      BY <2>1 DEF Clear
    <3>2. ASSUME NEW row \in BufferRows PROVE ~Rewrite(row)
      BY DEF Rewrite
    <3>3. ~Scrape
      BY DEF Scrape, BeginScrape, ReadInfo, FindReset, ResetTracking, FindBail, Find, Read, CheckInfo, CheckMarker,
             Mark, Send
    <3>4. ~UNCHANGED vars
      BY DEF vars
    <3> QED
      BY <3>1, <3>2, <3>3, <3>4 DEF Next, Program
  <2>3. /\ fell' = fell + 1 /\ top' = top /\ top = BUFFER_LINE_COUNT - Rows
        /\ syncRow = NoMarker \/ lines[0] = -syncCounter
    BY <2>0, <2>2, PrintFits
  <2>4. scrapedLineCount - scrolledCount < syncRow + 2 * Gap
    BY <2>0, <2>2 DEF MarkerClose, Phases, PrintLine
  <2>5. fell - base - scrolledCount >= syncRow
    <3>1. CASE syncRow = NoMarker
      BY <2>0, <2>1, <3>1 DEF TrackedInv, InStep, NoMarker
    <3>2. CASE syncRow # NoMarker
      <4>1. lines[0] = -syncCounter /\ 0 \in BufferRows
        BY <2>3, <3>2, ConstantsFit DEF BufferRows
      <4>2. 0 \in MarkerNow..(MarkerNow + SYNC_MARKER_LEN - 1) /\ MarkerNow \in Int
        BY <2>0, <2>1, <3>2, <4>1 DEF TrackedInv, MarkerNow
      <4> QED
        BY <2>1, <4>2 DEF MarkerNow
    <3> QED
      BY <3>1, <3>2
  <2>6. FloodSize = BUFFER_LINE_COUNT - Rows + 2 - 2 * Gap
    BY ConstantsFit DEF FloodSize
  <2> QED
    BY <2>1, <2>3, <2>4, <2>5, <2>6, ConstantsFit
<1> QED
  BY <1>1, IInvHolds, PTL DEF Spec, OnlyFloodsLoseTrack

\* A scrape that ends with the console where it was when the scrape began has brought
\* the terminal up to date with every line of the window that it read as it is, the
\* lines taken for unchanged or not dirty included.
THEOREM WindowIsSent == Spec => WindowSent
<1>1. IInv /\ [Next]_vars =>
        (pc = "send" /\ pc' = "idle" /\ info = [top |-> top, cursor |-> cursor] =>
           \A r \in Window(top) : readBuffer[r] = lines[r] => shown'[r + scrolledCount] = lines[r])
  <2> SUFFICES ASSUME IInv, [Next]_vars, pc = "send", pc' = "idle", info = [top |-> top, cursor |-> cursor],
                      NEW r \in Window(top), readBuffer[r] = lines[r]
               PROVE  shown'[r + scrolledCount] = lines[r]
    OBVIOUS
  <2>0. TypeOK /\ WindowFits /\ JobFits /\ TracksFit /\ SentRecorded
    BY DEF IInv
  <2>1. Send
    <3>1. ~Program
      BY ScraperKept
    <3> QED
      BY <3>1 DEF Next, Scrape, BeginScrape, ReadInfo, FindReset, FindBail, Find, Read, CheckInfo, CheckMarker, Mark,
                  vars
  <2>2. /\ info.top = top /\ top \in Nat /\ scrolledCount \in Nat /\ fell \in Nat /\ base \in Nat
        /\ scrolledCount + base <= fell /\ scrapedLineCount \in Nat /\ dirtyLineCount \in Nat
        /\ top + Rows <= BUFFER_LINE_COUNT
    BY <2>0 DEF TypeOK, TracksFit, WindowFits
  <2>3. r \in BufferRows /\ r >= top /\ r < top + Rows /\ r \in Nat
    BY <2>2, ConstantsFit DEF Window, BufferRows
  <2> DEFINE v == r + scrolledCount
  <2>4. v \in Lines
    <3>1. fell + r \in Lines
      BY <2>0, <2>3, LinesFit
    <3> QED
      BY <2>2, <2>3, <3>1, ConstantsFit DEF Lines
  <2>5. Line(v) = lines[r]
    <3>1. v - scrolledCount = r
      BY <2>2, <2>3
    <3> QED
      BY <3>1 DEF Line
  <2>6. /\ StopLine \in Nat /\ scrapedLineCount <= info.top + scrolledCount /\ job.first = scrapedLineCount
    BY <2>0, <2>1, SentFits
  <2>7. v >= scrapedLineCount /\ v \in Nat
    BY <2>2, <2>3, <2>6
  <2>8. CASE v < StopLine
    <3> HIDE DEF v
    <3>1. shown'[v] = Line(v)
      BY <2>0, <2>1, <2>4, <2>7, <2>8, SentShown
    <3> QED
      BY <2>5, <3>1 DEF v
  <2>9. CASE v >= StopLine
    <3>1. /\ Scanned \in Nat /\ dirtyLineCount <= Scanned /\ \A x \in DirtyRows : x < Scanned
      BY <2>0, ScannedFits
    <3>2. WindowBottom = top + Rows
      BY <2>2 DEF WindowBottom
    <3>3. r >= Scanned
      BY <2>2, <2>3, <2>9, <3>1, <3>2, ConstantsFit DEF StopLine, MinOf
    <3>4. r \notin DirtyRows /\ r \in dirtyLineCount..(WindowBottom - 1)
      BY <2>2, <2>3, <3>1, <3>2, <3>3, ConstantsFit
    <3>5. lines[r] = 0
      BY <3>4 DEF DirtyRows
    <3>6. v \notin Sent
      BY <2>6, <2>7, <2>9 DEF Sent
    <3>7. shown'[v] = shown[v]
      BY <2>1, <2>4, <3>6 DEF Send
    <3>8. shown[v] = 0
      BY <2>0, <2>2, <2>3, <2>4, <3>1, <3>3 DEF SentRecorded
    <3> QED
      BY <3>5, <3>7, <3>8
  <2> QED
    BY <2>6, <2>7, <2>8, <2>9
<1> QED
  BY <1>1, IInvHolds, PTL DEF Spec, WindowSent
=============================================================================
