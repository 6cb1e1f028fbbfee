------------------------- MODULE ConsoleResizeProofs -------------------------
(***************************************************************************)
(* Proofs about ConsoleResize and ConsoleFont: the font is wide enough,    *)
(* the new console is recognised, the size is reached, dirty lines and the *)
(* cursor stay in the window, and the marker above it.                     *)
(***************************************************************************)
EXTENDS ConsoleResize, WellFoundedInduction, TLAPS

-----------------------------------------------------------------------------
(* Numbers                                                                  *)

\* The larger of two.
LEMMA MaxIntIs == \A a, b \in Int : MaxInt(a, b) = IF a >= b THEN a ELSE b
<1> SUFFICES ASSUME NEW a \in Int, NEW b \in Int PROVE MaxInt(a, b) = IF a >= b THEN a ELSE b
  OBVIOUS
<1> DEFINE P(x) == x \in {a, b} /\ \A y \in {a, b} : x >= y
<1>1. \A x : P(x) <=> x = IF a >= b THEN a ELSE b
  OBVIOUS
<1> QED
  BY <1>1 DEF MaxInt, Max

\* The smaller of two.
LEMMA MinIntIs == \A a, b \in Int : MinInt(a, b) = IF a <= b THEN a ELSE b
<1> SUFFICES ASSUME NEW a \in Int, NEW b \in Int PROVE MinInt(a, b) = IF a <= b THEN a ELSE b
  OBVIOUS
<1>1. \A x : (x \in {a, b} /\ \A y \in {a, b} : x <= y) <=> x = IF a <= b THEN a ELSE b
  OBVIOUS
<1> QED
  BY <1>1 DEF MinInt, Min

\* Pixels into cells, rounded down.
LEMMA Cells ==
  ASSUME NEW n \in Nat, NEW f \in 1..MinPixels
  PROVE  /\ n \div f \in Nat /\ (n \div f) * f <= n /\ n < (n \div f) * f + f
         /\ 2 * MinPixels <= n => 2 <= n \div f
BY DEF MinPixels

\* Cells that make the window's minimum, rounded up.
LEMMA EnoughCells ==
  ASSUME NEW f \in 1..MinPixels
  PROVE  (MinPixels + f - 1) \div f \in Nat /\ MinPixels <= ((MinPixels + f - 1) \div f) * f
<1>1. MinPixels + f - 1 \in Nat
  BY DEF MinPixels
<1>2. (MinPixels + f - 1) < ((MinPixels + f - 1) \div f) * f + f /\ (MinPixels + f - 1) \div f \in Nat
  BY <1>1, Cells
<1> QED
  BY <1>2 DEF MinPixels

\* More cells are more pixels.
LEMMA Wider ==
  ASSUME NEW a \in Nat, NEW b \in Nat, NEW f \in 1..MinPixels, a <= b
  PROVE  a * f <= b * f /\ a * f \in Nat /\ b * f \in Nat
BY DEF MinPixels

\* A set of numbers that is not empty has a smallest one.
LEMMA Smallest ==
  ASSUME NEW T \in SUBSET Nat, T # {}
  PROVE  \E x \in T : \A y \in T : x <= y
<1>1. IsWellFoundedOn(OpToRel(<, Nat), Nat)
  BY NatLessThanWellFounded, Zenon
<1>2. PICK x \in T : \A y \in T : ~(<<y, x>> \in OpToRel(<, Nat))
  BY <1>1, WFMin, Zenon
<1>3. ASSUME NEW y \in T PROVE ~(y < x)
  <2>1. ~(<<y, x>> \in OpToRel(<, Nat))
    BY <1>2
  <2> QED
    BY <2>1 DEF OpToRel
<1> QED
  BY <1>3

-----------------------------------------------------------------------------
(* Fonts                                                                    *)

\* A table has a second size, of four pixels, and none outside of these.
SizesFit(sizes) ==
  /\ \A i \in 1..Len(sizes) : sizes[i][2] \in 3..43
  /\ Len(sizes) \in Nat /\ 2 <= Len(sizes) /\ sizes[2][2] = 4 /\ DOMAIN sizes = 1..Len(sizes)

\* A table stays such a table when larger sizes follow.
LEMMA SizesJoined ==
  ASSUME NEW s \in Seq(Nat \X Nat), NEW t \in Seq(Nat \X Nat), SizesFit(s),
         \A i \in 1..Len(t) : t[i][2] \in 3..43
  PROVE  SizesFit(s \o t)
<1>1. Len(s) \in Nat /\ Len(t) \in Nat /\ Len(s \o t) = Len(s) + Len(t)
  OBVIOUS
<1>2. \A i \in 1..Len(s) : (s \o t)[i] = s[i]
  OBVIOUS
<1>3. \A i \in (Len(s) + 1)..(Len(s) + Len(t)) : (s \o t)[i] = t[i - Len(s)] /\ i - Len(s) \in 1..Len(t)
  BY <1>1
<1>4. ASSUME NEW i \in 1..Len(s \o t) PROVE (s \o t)[i][2] \in 3..43
  <2>1. CASE i <= Len(s)
    BY <1>1, <1>2, <2>1 DEF SizesFit
  <2>2. CASE Len(s) < i
    BY <1>1, <1>3, <2>2
  <2> QED
    BY <1>1, <2>1, <2>2
<1>5. 2 <= Len(s \o t) /\ (s \o t)[2] = s[2] /\ DOMAIN (s \o t) = 1..Len(s \o t)
  BY <1>1, <1>2 DEF SizesFit
<1> QED
  BY <1>1, <1>4, <1>5 DEF SizesFit

\* So is the table of each code page.
LEMMA FaceFits ==
  ASSUME NEW codePage, NEW isNew, NEW windows8
  PROVE  SizesFit(FaceOf(codePage, isNew, windows8).sizes)
<1> DEFINE W8 == <<<<5, 3>>, <<7, 4>>, <<9, 5>>, <<11, 6>>, <<13, 7>>, <<15, 8>>, <<17, 9>>,
                   <<20, 10>>, <<22, 11>>, <<24, 12>>>>
           W10 == <<<<6, 3>>, <<8, 4>>, <<10, 5>>, <<12, 6>>, <<14, 7>>, <<16, 8>>, <<18, 9>>,
                    <<20, 10>>, <<22, 11>>, <<24, 12>>>>
<1>1. ExtraLarge \in Seq(Nat \X Nat) /\ \A i \in 1..Len(ExtraLarge) : ExtraLarge[i][2] \in 3..43
  BY DEF ExtraLarge
<1>2. SizesFit(W8) /\ W8 \in Seq(Nat \X Nat)
  BY DEF SizesFit
<1>3. SizesFit(W10) /\ W10 \in Seq(Nat \X Nat)
  BY DEF SizesFit
<1>4. k932GothicWin8 = W8 \o ExtraLarge /\ k932GothicWin10 = W10 \o ExtraLarge
  BY DEF k932GothicWin8, k932GothicWin10
<1>5. SizesFit(kLucidaFontSizes)
  BY DEF SizesFit, kLucidaFontSizes
<1>6. SizesFit(k932GothicVista)
  BY DEF SizesFit, k932GothicVista
<1> HIDE DEF W8, W10
<1>7. SizesFit(k932GothicWin8) /\ SizesFit(k932GothicWin10)
  BY <1>1, <1>2, <1>3, <1>4, SizesJoined
<1> QED
  BY <1>5, <1>6, <1>7 DEF FaceOf

\* Min and Max of sets of numbers that are not empty.
LEMMA LeastIs ==
  ASSUME NEW T \in SUBSET Nat, T # {}
  PROVE  Min(T) \in T /\ \A y \in T : Min(T) <= y
BY Smallest, Zenon DEF Min

\* A set of numbers that is bounded has a largest one.
LEMMA GreatestIs ==
  ASSUME NEW n \in Nat, NEW T \in SUBSET (0..n), T # {}
  PROVE  Max(T) \in T /\ \A y \in T : y <= Max(T)
<1> DEFINE D == {n - y : y \in T}
<1>0. \A y \in T : y \in Nat /\ y <= n /\ n - y \in Nat /\ n - y \in D
  OBVIOUS
<1>1. D \in SUBSET Nat /\ D # {}
  BY <1>0
<1>2. PICK d \in D : \A e \in D : d <= e
  BY <1>1, Smallest
<1>3. PICK x \in T : d = n - x
  BY <1>2
<1>4. \A y \in T : x >= y
  <2> TAKE y \in T
  <2>1. d <= n - y
    BY <1>0, <1>2
  <2> QED
    BY <1>0, <1>3, <2>1
<1>5. Max(T) \in T /\ \A y \in T : Max(T) >= y
  BY <1>4 DEF Max
<1> QED
  BY <1>5

\* The widths selectSmallFont chooses from.
Widths(codePage, isNew, windows8) ==
  LET face == FaceOf(codePage, isNew, windows8) IN {face.sizes[i][2] : i \in 1..Len(face.sizes)}
WideFor(widths, columns) == {w \in widths : w * columns >= MinPixels}
RoomyFor(widths, columns) == {w \in WideFor(widths, columns) : Roomy(w, columns)}
WidthFor(codePage, columns, isNew, windows8) == selectSmallFont(codePage, columns, isNew, windows8).width

\* The font selectSmallFont chooses is the smallest of the first group that is not empty.
LEMMA FontIs ==
  ASSUME NEW codePage, NEW columns \in Nat, NEW isNew, NEW windows8,
         NEW widths, widths = Widths(codePage, isNew, windows8),
         NEW w, w = WidthFor(codePage, columns, isNew, windows8)
  PROVE  /\ widths \subseteq 3..43 /\ 4 \in widths /\ w \in widths
         /\ RoomyFor(widths, columns) # {} =>
              w \in RoomyFor(widths, columns) /\ \A v \in RoomyFor(widths, columns) : w <= v
         /\ RoomyFor(widths, columns) = {} /\ WideFor(widths, columns) # {} => w \in WideFor(widths, columns)
         /\ WideFor(widths, columns) = {} => \A v \in widths : v <= w
<1> DEFINE wide == WideFor(widths, columns)
           roomy == RoomyFor(widths, columns)
<1>1. widths \subseteq 3..43 /\ 4 \in widths
  <2> DEFINE sizes == FaceOf(codePage, isNew, windows8).sizes
  <2>1. SizesFit(sizes)
    BY FaceFits
  <2>2. widths = {sizes[i][2] : i \in 1..Len(sizes)}
    BY DEF Widths
  <2> HIDE DEF sizes
  <2>3. 2 \in 1..Len(sizes) /\ sizes[2][2] = 4
    BY <2>1 DEF SizesFit
  <2>4. 4 \in widths
    BY <2>2, <2>3
  <2>5. widths \subseteq 3..43
    BY <2>1, <2>2 DEF SizesFit
  <2> QED
    BY <2>4, <2>5
<1>2. w = IF roomy # {} THEN Min(roomy) ELSE IF wide # {} THEN Min(wide) ELSE Max(widths)
  BY DEF WidthFor, selectSmallFont, Widths, WideFor, RoomyFor
<1>3. roomy \subseteq wide /\ wide \subseteq widths
  BY DEF WideFor, RoomyFor
<1>4. /\ widths \in SUBSET Nat /\ widths \in SUBSET (0..43) /\ widths # {}
      /\ wide \in SUBSET Nat /\ roomy \in SUBSET Nat
  BY <1>1, <1>3
<1> HIDE DEF wide, roomy
<1>5. CASE roomy # {}
  <2>1. Min(roomy) \in roomy /\ \A v \in roomy : Min(roomy) <= v
    BY <1>4, <1>5, LeastIs
  <2> QED
    BY <1>1, <1>2, <1>3, <1>5, <2>1 DEF wide, roomy
<1>6. CASE roomy = {} /\ wide # {}
  <2>1. Min(wide) \in wide
    BY <1>4, <1>6, LeastIs
  <2> QED
    BY <1>1, <1>2, <1>3, <1>6, <2>1 DEF wide, roomy
<1>7. CASE roomy = {} /\ wide = {}
  <2>1. Max(widths) \in widths /\ \A v \in widths : v <= Max(widths)
    BY <1>4, GreatestIs
  <2> QED
    BY <1>1, <1>2, <1>3, <1>7, <2>1 DEF wide, roomy
<1> QED
  BY <1>5, <1>6, <1>7, <1>3

\* Half of the columns, but not less than 40, are more when there are more columns.
LEMMA HalfIs ==
  ASSUME NEW columns \in Nat
  PROVE  /\ HalfColumns(columns) \in Nat /\ HalfColumns(columns) <= HalfColumns(columns + 1)
         /\ columns <= 40 => HalfColumns(columns) = columns
         /\ 40 <= columns => 40 <= HalfColumns(columns)
         /\ 80 <= columns => HalfColumns(columns) = columns \div 2
<1>1. columns \div 2 \in Nat /\ (columns + 1) \div 2 \in Nat
  OBVIOUS
<1> QED
  BY <1>1, MaxIntIs, MinIntIs DEF HalfColumns

\* For every number of columns, not only those the tables are tried with: the font is wide
\* enough for them if there is such a font, from 80 columns on for half of them, and one
\* column more never means a larger font.
LEMMA FontChosenWell ==
  ASSUME NEW codePage, NEW columns \in Nat \ {0}, NEW isNew, NEW windows8
  PROVE  /\ (\E v \in Widths(codePage, isNew, windows8) : v * columns >= MinPixels) =>
              WidthFor(codePage, columns, isNew, windows8) * columns >= MinPixels
         /\ columns >= 80 => WidthFor(codePage, columns, isNew, windows8) * (columns \div 2) >= MinPixels
         /\ WidthFor(codePage, columns + 1, isNew, windows8) <= WidthFor(codePage, columns, isNew, windows8)
<1> DEFINE widths == Widths(codePage, isNew, windows8)
           w == WidthFor(codePage, columns, isNew, windows8)
           next == WidthFor(codePage, columns + 1, isNew, windows8)
<1> HIDE DEF widths, w, next
<1>1. /\ widths \subseteq 3..43 /\ 4 \in widths /\ w \in widths
      /\ RoomyFor(widths, columns) # {} =>
           w \in RoomyFor(widths, columns) /\ \A v \in RoomyFor(widths, columns) : w <= v
      /\ RoomyFor(widths, columns) = {} /\ WideFor(widths, columns) # {} => w \in WideFor(widths, columns)
      /\ WideFor(widths, columns) = {} => \A v \in widths : v <= w
  BY FontIs DEF widths, w
<1>2. /\ next \in widths
      /\ RoomyFor(widths, columns + 1) # {} =>
           next \in RoomyFor(widths, columns + 1) /\ \A v \in RoomyFor(widths, columns + 1) : next <= v
  <2>1. ASSUME NEW more \in Nat, NEW x, x = WidthFor(codePage, more, isNew, windows8)
        PROVE  /\ x \in widths
               /\ RoomyFor(widths, more) # {} =>
                    x \in RoomyFor(widths, more) /\ \A v \in RoomyFor(widths, more) : x <= v
    BY <2>1, FontIs, Zenon DEF widths
  <2>2. columns + 1 \in Nat
    OBVIOUS
  <2>3. next = WidthFor(codePage, columns + 1, isNew, windows8)
    BY DEF next
  <2> QED
    BY <2>1, <2>2, <2>3, Zenon
<1>3. RoomyFor(widths, columns) \subseteq WideFor(widths, columns)
  BY DEF RoomyFor
<1>4. WideFor(widths, columns) # {} => w * columns >= MinPixels
  BY <1>1, <1>3 DEF WideFor
<1>5. columns <= 40 => RoomyFor(widths, columns) = WideFor(widths, columns)
  BY HalfIs DEF RoomyFor, WideFor, Roomy
<1>6. 40 <= columns => 4 \in RoomyFor(widths, columns)
  BY <1>1, HalfIs DEF RoomyFor, WideFor, Roomy, MinPixels
<1>7. RoomyFor(widths, columns) \subseteq RoomyFor(widths, columns + 1)
  <2> SUFFICES ASSUME NEW v \in RoomyFor(widths, columns) PROVE v \in RoomyFor(widths, columns + 1)
    OBVIOUS
  <2>1. v \in Nat /\ v \in widths /\ v * columns >= MinPixels /\ v * HalfColumns(columns) >= MinPixels
    BY <1>1 DEF RoomyFor, WideFor, Roomy
  <2>2. v * (columns + 1) >= v * columns
    BY <2>1
  <2>3. \A a, b \in Nat : a <= b => v * a <= v * b
    BY <2>1
  <2>4. v * HalfColumns(columns) <= v * HalfColumns(columns + 1)
    BY <2>3, HalfIs
  <2>5. v * (columns + 1) \in Nat /\ v * columns \in Nat
        /\ v * HalfColumns(columns) \in Nat /\ v * HalfColumns(columns + 1) \in Nat
    BY <2>1, HalfIs
  <2> QED
    BY <2>1, <2>2, <2>4, <2>5 DEF RoomyFor, WideFor, Roomy, MinPixels
<1>8. next <= w
  <2>1. CASE RoomyFor(widths, columns) # {}
    BY <1>1, <1>2, <1>7, <2>1
  <2>2. CASE RoomyFor(widths, columns) = {}
    BY <1>1, <1>2, <1>5, <1>6, <2>2
  <2> QED
    BY <2>1, <2>2
<1>9. columns >= 80 => w * (columns \div 2) >= MinPixels
  <2> SUFFICES ASSUME columns >= 80 PROVE w * (columns \div 2) >= MinPixels
    OBVIOUS
  <2>1. w \in RoomyFor(widths, columns)
    BY <1>1, <1>6
  <2>2. HalfColumns(columns) = columns \div 2
    BY HalfIs
  <2> QED
    BY <2>1, <2>2 DEF RoomyFor, Roomy
<1>10. (\E v \in widths : v * columns >= MinPixels) => WideFor(widths, columns) # {}
  BY DEF WideFor
<1> QED
  BY <1>4, <1>8, <1>9, <1>10 DEF widths, w, next

\* selectSmallFont's tables and score, for the numbers of columns they are tried with.
THEOREM FontsAreChosenWell == FontsChosenWell
<1> SUFFICES ASSUME NEW codePage \in EastAsian \union {437}, NEW isNew \in BOOLEAN, NEW windows8 \in BOOLEAN
             PROVE  LET width == [c \in 1..330 |-> selectSmallFont(codePage, c, isNew, windows8).width]
                        widest == [i \in DOMAIN FaceOf(codePage, isNew, windows8).sizes |->
                                     FaceOf(codePage, isNew, windows8).sizes[i][2]]
                    IN \A c \in 2..330 :
                         /\ (\E i \in DOMAIN widest : widest[i] * c >= MinPixels) => width[c] * c >= MinPixels
                         /\ c >= 80 => width[c] * (c \div 2) >= MinPixels
                         /\ width[c] <= width[c - 1]
  BY Zenon DEF FontsChosenWell
<1> DEFINE sizes == FaceOf(codePage, isNew, windows8).sizes
           width == [c \in 1..330 |-> selectSmallFont(codePage, c, isNew, windows8).width]
           widest == [i \in DOMAIN sizes |-> sizes[i][2]]
<1>1. \A i \in DOMAIN widest : widest[i] \in Widths(codePage, isNew, windows8)
  <2>1. SizesFit(sizes)
    BY FaceFits
  <2>2. Widths(codePage, isNew, windows8) = {sizes[i][2] : i \in 1..Len(sizes)}
    BY DEF Widths
  <2>3. DOMAIN sizes = 1..Len(sizes)
    BY <2>1 DEF SizesFit
  <2> QED
    BY <2>2, <2>3
<1>2. \A c \in 1..330 : width[c] = WidthFor(codePage, c, isNew, windows8)
  BY DEF WidthFor
<1> HIDE DEF sizes, width, widest
<1>3. ASSUME NEW c \in 2..330
      PROVE  /\ (\E i \in DOMAIN widest : widest[i] * c >= MinPixels) => width[c] * c >= MinPixels
             /\ c >= 80 => width[c] * (c \div 2) >= MinPixels
             /\ width[c] <= width[c - 1]
  <2>1. (c - 1) + 1 = c /\ c - 1 \in Nat \ {0} /\ c \in Nat \ {0} /\ c \in 1..330 /\ c - 1 \in 1..330
    OBVIOUS
  <2>2. WidthFor(codePage, c, isNew, windows8) <= WidthFor(codePage, c - 1, isNew, windows8)
    BY <2>1, FontChosenWell
  <2>3. /\ (\E v \in Widths(codePage, isNew, windows8) : v * c >= MinPixels) =>
              WidthFor(codePage, c, isNew, windows8) * c >= MinPixels
        /\ c >= 80 => WidthFor(codePage, c, isNew, windows8) * (c \div 2) >= MinPixels
    BY <2>1, FontChosenWell
  <2>4. width[c] = WidthFor(codePage, c, isNew, windows8) /\ width[c - 1] = WidthFor(codePage, c - 1, isNew, windows8)
    BY <1>2, <2>1
  <2> QED
    BY <1>1, <2>2, <2>3, <2>4
<1> QED
  BY <1>3 DEF sizes, width, widest

\* Whatever setSmallFont leaves is a font of the table, of the console, or the one there was.
LEMMA FontSet ==
  ASSUME NEW old \in 1..MinPixels, NEW k, ConsoleFits(k), NEW columns \in Nat, NEW isNew,
         NEW f \in setSmallFont(old, k.api, k.codePage, columns, isNew, k.windows8, k.accepted, k.fonts)
  PROVE  f \in 1..MinPixels
<1>1. \A codePage : WidthFor(codePage, columns, isNew, k.windows8) \in 1..MinPixels
  BY FontIs DEF MinPixels
<1>2. SmallFontVista(old, k.codePage, columns, isNew, k.windows8, k.accepted) \in 1..MinPixels
  BY <1>1 DEF SmallFontVista, WidthFor
<1>3. SmallFontsXP(old, k.fonts) \subseteq 1..MinPixels
  BY DEF SmallFontsXP, ConsoleFits
<1> QED
  BY <1>2, <1>3 DEF setSmallFont

-----------------------------------------------------------------------------
(* The console                                                              *)

ConsoleState == [bufX : Nat, bufY : Nat, top : Nat, w : Positive, h : Positive, cur : Nat,
                 font : 1..MinPixels, marker : NoRow..BUFFER_LINE_COUNT]

\* A window in a buffer, and the cursor.
Fits(c) ==
  /\ c \in ConsoleState
  /\ c.w <= c.bufX /\ c.top + c.h <= c.bufY /\ c.cur < c.bufY

\* The same in numbers.
LEMMA FitsIs ==
  ASSUME NEW c, Fits(c)
  PROVE  /\ c.bufX \in Nat /\ c.bufY \in Nat /\ c.top \in Nat /\ c.w \in Nat /\ c.h \in Nat /\ c.cur \in Nat
         /\ c.font \in 1..MinPixels /\ c.font \in Nat /\ c.marker \in Int /\ -1 <= c.marker
         /\ c.marker <= BUFFER_LINE_COUNT /\ 1 <= c.w /\ 1 <= c.h
         /\ c.w <= c.bufX /\ c.top + c.h <= c.bufY /\ c.cur < c.bufY
BY ResizeAssumption DEF Fits, ConsoleState, Positive, NoRow, MinPixels

\* The assumption in numbers.
LEMMA Limits ==
  /\ BUFFER_LINE_COUNT \in Nat /\ MAX_CONSOLE_WIDTH \in Nat /\ MAX_CONSOLE_HEIGHT \in Nat
  /\ SYNC_MARKER_LEN \in Nat /\ SYNC_MARKER_MARGIN \in Nat /\ 1 <= SYNC_MARKER_LEN /\ 1 <= SYNC_MARKER_MARGIN
  /\ 1 <= MAX_CONSOLE_WIDTH /\ 1 <= MAX_CONSOLE_HEIGHT
  /\ MAX_CONSOLE_HEIGHT + 2 * SYNC_MARKER_LEN + 3 * SYNC_MARKER_MARGIN <= BUFFER_LINE_COUNT
  /\ MAX_CONSOLE_HEIGHT < BUFFER_LINE_COUNT
  /\ Monitor.pixels \in Nat /\ 2 * MinPixels <= Monitor.pixels /\ Monitor.rows \in Nat /\ 1 <= Monitor.rows
BY ResizeAssumption DEF Positive

\* The desktop has room for a window of two columns and a row.
LEMMA LargestIs ==
  ASSUME NEW c, Fits(c)
  PROVE  /\ Largest(c).x \in Nat /\ 2 <= Largest(c).x
         /\ Largest(c).y = Monitor.rows /\ Largest(c).y \in Nat /\ 1 <= Largest(c).y
<1>1. Largest(c).x = Monitor.pixels \div c.font /\ Largest(c).y = Monitor.rows
  BY DEF Largest
<1>2. c.font \in 1..MinPixels
  BY FitsIs
<1> QED
  BY <1>1, <1>2, Limits, Cells

\* d is c with the window moved.
IsMoved(c, d, top, width, height) == d = moveWindow(c, top, width, height)

\* moveWindow moves the window or leaves it, and changes nothing else.
LEMMA MoveKeeps ==
  ASSUME NEW c, Fits(c), NEW top \in Int, NEW width \in Positive, NEW height \in Positive,
         NEW d, IsMoved(c, d, top, width, height)
  PROVE  /\ Fits(d) /\ d.bufX = c.bufX /\ d.bufY = c.bufY /\ d.cur = c.cur /\ d.font = c.font
         /\ d.marker = c.marker
         /\ \/ d.top = top /\ d.w = width /\ d.h = height
            \/ d.top = c.top /\ d.w = c.w /\ d.h = c.h
         /\ 0 <= top /\ top + height <= c.bufY /\ width <= c.bufX /\ width <= Largest(c).x
              /\ height <= Largest(c).y =>
              d.top = top /\ d.w = width /\ d.h = height
<1>1. CASE d = c
  <2>1. ~(/\ 0 <= top /\ top + height <= c.bufY /\ width <= c.bufX /\ width <= Largest(c).x
          /\ height <= Largest(c).y) \/ (c.top = top /\ c.w = width /\ c.h = height)
    BY <1>1 DEF IsMoved, moveWindow, Fits, ConsoleState
  <2> QED
    BY <1>1, <2>1
<1>2. CASE /\ top >= 0 /\ top + height <= c.bufY /\ width <= c.bufX
           /\ d = [c EXCEPT !.top = top, !.w = width, !.h = height]
  <2>1. c \in ConsoleState
    BY DEF Fits
  <2>2. /\ d.top = top /\ d.w = width /\ d.h = height /\ d.bufX = c.bufX /\ d.bufY = c.bufY
        /\ d.cur = c.cur /\ d.font = c.font /\ d.marker = c.marker
    BY <1>2, <2>1 DEF ConsoleState
  <2>3. top \in Nat
    BY <1>2
  <2>4. d \in ConsoleState
    BY <1>2, <2>1, <2>3 DEF ConsoleState
  <2> QED
    BY <1>2, <2>2, <2>4, FitsIs DEF Fits
<1> QED
  BY <1>1, <1>2 DEF IsMoved, moveWindow

\* The cursor is set.
LEMMA CursorKeeps ==
  ASSUME NEW c, Fits(c), NEW n \in Nat, n < c.bufY, NEW d, d = [c EXCEPT !.cur = n]
  PROVE  /\ Fits(d) /\ d.cur = n /\ d.bufX = c.bufX /\ d.bufY = c.bufY /\ d.top = c.top /\ d.w = c.w
         /\ d.h = c.h /\ d.font = c.font /\ d.marker = c.marker
BY FitsIs DEF Fits, ConsoleState

\* The marker is put down or lost.
LEMMA MarkerKeeps ==
  ASSUME NEW c, Fits(c), NEW n \in NoRow..BUFFER_LINE_COUNT,
         NEW d, d = [c EXCEPT !.marker = n]
  PROVE  /\ Fits(d) /\ d.marker = n /\ d.bufX = c.bufX /\ d.bufY = c.bufY /\ d.top = c.top /\ d.w = c.w
         /\ d.h = c.h /\ d.cur = c.cur /\ d.font = c.font
BY FitsIs DEF Fits, ConsoleState

\* A font makes the buffer wider or the window narrower.
LEMMA FontKeeps ==
  ASSUME NEW c, Fits(c), kind \in DOMAIN Consoles, NEW columns \in Nat, NEW new,
         NEW d \in SmallFonts(c, columns, new)
  PROVE  /\ Fits(d) /\ d.bufY = c.bufY /\ d.top = c.top /\ d.h = c.h /\ d.cur = c.cur
         /\ d.marker = c.marker /\ d.w <= c.w /\ c.bufX <= d.bufX
         /\ MinPixels <= d.bufX * d.font
<1>1. PICK f \in setSmallFont(c.font, Kind.api, Kind.codePage, columns, new,
                              Kind.windows8, Kind.accepted, Kind.fonts) : d = WithFont(c, f)
  BY DEF SmallFonts
<1>2. ConsoleFits(Kind) /\ c.font \in 1..MinPixels
  BY ResizeAssumption, FitsIs DEF Kind
<1>3. f \in 1..MinPixels
  BY <1>1, <1>2, FontSet
<1> DEFINE x == MaxInt(c.bufX, (MinPixels + f - 1) \div f)
           wide == [c EXCEPT !.font = f, !.bufX = x]
<1>4. x \in Nat /\ c.bufX <= x /\ MinPixels <= x * f
  <2>1. (MinPixels + f - 1) \div f \in Nat /\ MinPixels <= ((MinPixels + f - 1) \div f) * f
    BY <1>3, EnoughCells
  <2>2. x \in Nat /\ c.bufX <= x /\ (MinPixels + f - 1) \div f <= x
    BY <2>1, MaxIntIs, FitsIs
  <2>3. ((MinPixels + f - 1) \div f) * f <= x * f /\ x * f \in Nat /\ ((MinPixels + f - 1) \div f) * f \in Nat
    BY <1>3, <2>1, <2>2, Wider
  <2> HIDE DEF x
  <2> QED
    BY <2>1, <2>2, <2>3 DEF MinPixels
<1> HIDE DEF x
<1>5. Fits(wide) /\ wide.font = f /\ wide.bufX = x /\ wide.w = c.w
  <2>1. c \in ConsoleState
    BY DEF Fits
  <2>2. /\ wide.font = f /\ wide.bufX = x /\ wide.w = c.w /\ wide.h = c.h /\ wide.top = c.top
        /\ wide.bufY = c.bufY /\ wide.cur = c.cur
    BY <2>1 DEF ConsoleState
  <2>3. wide \in ConsoleState
    BY <1>3, <1>4, <2>1 DEF ConsoleState
  <2> QED
    BY <1>4, <2>2, <2>3, FitsIs DEF Fits
<1> HIDE DEF wide
<1>6. d = [wide EXCEPT !.w = MinInt(wide.w, Largest(wide).x)]
  BY <1>1 DEF WithFont, wide, x
<1>7. MinInt(wide.w, Largest(wide).x) \in Positive /\ MinInt(wide.w, Largest(wide).x) <= wide.w
  BY <1>5, LargestIs, FitsIs, MinIntIs DEF Positive
<1>8. Fits(d) /\ d.font = f /\ d.bufX = x /\ d.w <= c.w
  <2>1. wide \in ConsoleState
    BY <1>5 DEF Fits
  <2>2. /\ d.font = f /\ d.bufX = x /\ d.w = MinInt(wide.w, Largest(wide).x) /\ d.h = wide.h
        /\ d.top = wide.top /\ d.bufY = wide.bufY /\ d.cur = wide.cur
    BY <1>5, <1>6, <2>1 DEF ConsoleState
  <2>3. d \in ConsoleState
    BY <1>6, <1>7, <2>1 DEF ConsoleState
  <2>4. wide.w <= wide.bufX /\ wide.top + wide.h <= wide.bufY /\ wide.cur < wide.bufY
        /\ wide.w \in Nat /\ wide.bufX \in Nat
    BY <1>5, FitsIs
  <2> HIDE DEF x
  <2>5. d.w \in Nat
    BY <1>7, <2>2 DEF Positive
  <2> QED
    BY <1>5, <1>7, <2>2, <2>3, <2>4, <2>5 DEF Fits
<1>9. d.bufY = c.bufY /\ d.top = c.top /\ d.h = c.h /\ d.cur = c.cur /\ d.marker = c.marker
  BY <1>6 DEF wide, Fits, ConsoleState
<1> QED
  BY <1>4, <1>8, <1>9

\* A buffer of another size has the window in it, at most one line further up than it must be.
LEMMA ResizedKeeps ==
  ASSUME NEW c, Fits(c), NEW x \in Nat, NEW y \in Nat, SizeAccepted(c, x, y), NEW d \in Resized(c, x, y)
  PROVE  /\ Fits(d) /\ d.bufX = x /\ d.bufY = y /\ d.h = c.h /\ d.w = c.w /\ d.font = c.font
         /\ d.marker = IF c.marker + SYNC_MARKER_LEN <= y THEN c.marker ELSE NoRow
<1>1. PICK s \in {0, -1, 1} :
        d = [c EXCEPT !.bufX = x, !.bufY = y, !.top = MaxInt(0, MinInt(c.top + s, y - c.h)),
                      !.cur = MaxInt(0, MinInt(c.cur + s, y - 1)),
                      !.marker = IF c.marker + SYNC_MARKER_LEN <= y THEN c.marker ELSE NoRow]
  BY DEF Resized
<1>2. c.w <= x /\ c.h <= y
  BY DEF SizeAccepted
<1>3. /\ MaxInt(0, MinInt(c.top + s, y - c.h)) \in Nat
      /\ MaxInt(0, MinInt(c.top + s, y - c.h)) + c.h <= y
      /\ MaxInt(0, MinInt(c.cur + s, y - 1)) \in Nat /\ MaxInt(0, MinInt(c.cur + s, y - 1)) < y
  BY <1>2, FitsIs, MaxIntIs, MinIntIs
<1>4. (IF c.marker + SYNC_MARKER_LEN <= y THEN c.marker ELSE NoRow) \in NoRow..BUFFER_LINE_COUNT
  BY FitsIs, Limits DEF NoRow
<1> QED
  BY <1>1, <1>2, <1>3, <1>4, FitsIs DEF Fits, ConsoleState

\* resizeBufferRange gives up only if no width up to 20 makes the window's minimum.
LEMMA RangeKeeps ==
  ASSUME NEW c, Fits(c), NEW x \in Positive, NEW y \in Nat, NEW d \in resizeBufferRange(c, x, y)
  PROVE  /\ Fits(d) /\ d.h = c.h /\ d.w = c.w /\ d.font = c.font
         /\ \/ /\ d = c
               /\ c.w <= x /\ c.h <= y => MaxInt(20, x) * c.font < MinPixels
            \/ /\ x <= d.bufX /\ d.bufY = y /\ MinPixels <= d.bufX * d.font
               /\ d.marker = IF c.marker + SYNC_MARKER_LEN <= y THEN c.marker ELSE NoRow
               /\ SizeAccepted(c, d.bufX, y) /\ d \in Resized(c, d.bufX, y)
<1> DEFINE accepted == {w \in {x} \union (x + 1)..20 : SizeAccepted(c, w, y)}
<1>1. x \in Nat /\ accepted \in SUBSET Nat /\ \A w \in accepted : x <= w
  BY DEF Positive
<1>2. /\ c.bufX \in Nat /\ c.bufY \in Nat /\ c.w \in Nat /\ c.h \in Nat /\ 1 <= c.w
      /\ c.w <= c.bufX /\ c.font \in 1..MinPixels
  BY FitsIs
<1>3. CASE accepted = {}
  <2>1. d = c
    BY <1>3 DEF resizeBufferRange
  <2>2. ASSUME c.w <= x, c.h <= y PROVE MaxInt(20, x) * c.font < MinPixels
    <3>1. MaxInt(20, x) \in {x} \union (x + 1)..20 /\ x <= MaxInt(20, x) /\ MaxInt(20, x) \in Nat
      BY <1>1, MaxIntIs
    <3>2. ~SizeAccepted(c, MaxInt(20, x), y)
      BY <1>3, <3>1
    <3>3. c.w <= MaxInt(20, x)
      BY <1>1, <1>2, <2>2, <3>1
    <3>4. MaxInt(20, x) * c.font \in Nat
      BY <1>2, <3>1, Wider
    <3> QED
      BY <2>2, <3>2, <3>3, <3>4 DEF SizeAccepted, MinPixels
  <2> QED
    BY <2>1, <2>2
<1>4. CASE accepted # {}
  <2>1. PICK w \in accepted : w = CHOOSE u \in accepted : \A v \in accepted : u <= v
    BY <1>1, <1>4, Smallest, Zenon
  <2>2. d \in Resized(c, w, y)
    BY <1>4, <2>1 DEF resizeBufferRange
  <2>3. w \in Nat /\ x <= w /\ SizeAccepted(c, w, y)
    BY <1>1, <2>1
  <2>4. /\ Fits(d) /\ d.bufX = w /\ d.bufY = y /\ d.h = c.h /\ d.w = c.w /\ d.font = c.font
        /\ d.marker = IF c.marker + SYNC_MARKER_LEN <= y THEN c.marker ELSE NoRow
    BY <2>2, <2>3, ResizedKeeps
  <2>5. MinPixels <= d.bufX * d.font
    <3>1. w * c.font \in Nat /\ w * c.font >= MinPixels
      BY <1>2, <2>3, Wider DEF SizeAccepted
    <3> QED
      BY <2>4, <3>1 DEF MinPixels
  <2> QED
    BY <2>2, <2>3, <2>4, <2>5
<1> QED
  BY <1>3, <1>4

-----------------------------------------------------------------------------
(* The inductive invariant                                                  *)

Started == pc \notin {"detect", "construct"}
Resizing == {"font", "shrink", "buffer", "expand"}

Typed ==
  /\ kind \in DOMAIN Consoles /\ Fits(con) /\ Fits(info)
  /\ ptySize \in [cols : Positive, rows : Positive]
  /\ frozen \in BOOLEAN /\ isNewW10 \in BOOLEAN /\ directMode \in BOOLEAN /\ forced \in BOOLEAN
  /\ interfered \in BOOLEAN /\ torn \in BOOLEAN /\ crept \in Nat
  /\ syncRow \in NoRow..BUFFER_LINE_COUNT /\ dirtyLineCount \in 0..BUFFER_LINE_COUNT
  /\ dirtyWindowTop \in Int
  /\ job \in [bufX : Nat, bufY : Nat, cols : Nat, rows : Nat]

\* Once the agent has made the console, it is neither too large nor too narrow.
Small ==
  /\ Started => /\ con.h <= MAX_CONSOLE_HEIGHT /\ MinPixels <= con.bufX * con.font
                /\ ptySize.cols <= MAX_CONSOLE_WIDTH /\ ptySize.rows <= MAX_CONSOLE_HEIGHT
  /\ pc \in {"sync", "clear"} \cup Resizing => info.h <= MAX_CONSOLE_HEIGHT

Detected ==
  /\ IF pc = "detect" THEN con = Kind.start ELSE isNewW10 = Kind.new
  /\ ~Started => con.marker = NoRow /\ ~directMode

\* A resize begins with the console frozen, in the mode the info calls for.
Held ==
  /\ forced /\ pc \in {"info", "sync", "clear"} => frozen
  /\ pc \in {"clear"} \cup Resizing => forced /\ directMode = NewDirectMode

\* What is known of the console as long as no program has done anything.
Unmoved ==
  ~interfered =>
    /\ pc = "sync" => con = info
    /\ pc \in {"clear", "font", "shrink", "buffer"} => con.bufY = info.bufY

\* The sizes the resize is for, and how far it has come.
JobRight ==
  /\ pc \in Resizing => /\ job.bufX = ptySize.cols /\ ptySize.rows <= job.bufY
                        /\ ~directMode => job.bufY = BUFFER_LINE_COUNT
  /\ pc \in Resizing \ {"font"} => /\ job.cols = MinInt(ptySize.cols, Largest(con).x)
                                   /\ job.rows = MinInt(ptySize.rows, Largest(con).y)
  /\ pc \in {"buffer", "expand"} => con.w <= job.cols /\ con.h <= job.rows
  /\ pc = "expand" =>
       /\ job.cols <= con.bufX
       /\ ~interfered =>
            /\ MinPixels <= MaxInt(20, ptySize.cols) * con.font => con.bufY = job.bufY
            /\ ~directMode => con.bufY = BUFFER_LINE_COUNT

\* Where the marker is while no program has moved the window up behind the agent's back.
\* When it has scrolled to row 0, the window is so far down that a new one is put down.
NotTorn ==
  ~torn =>
    /\ pc = "sync" => /\ info.top <= con.top
                      /\ 1 <= info.top /\ ~NewDirectMode => con.bufY = BUFFER_LINE_COUNT
    /\ directMode \/ (pc = "sync" /\ NewDirectMode) => con.marker = NoRow
    /\ con.marker # NoRow =>
         /\ con.bufY = BUFFER_LINE_COUNT
         /\ con.marker + SYNC_MARKER_LEN + SYNC_MARKER_MARGIN <= con.top + crept
         /\ con.marker = 0 => BUFFER_LINE_COUNT <= con.top + MAX_CONSOLE_HEIGHT + crept
         /\ pc \in Resizing => con.marker <= MarkerLimit

\* The scraper knows where the marker is.
Kept ==
  /\ pc = "clear" /\ ~directMode /\ syncRow # NoRow => con.marker = syncRow
  /\ pc \in {"clear", "done"} \cup Resizing /\ ~directMode /\ ~interfered /\ ~torn
       /\ crept <= SYNC_MARKER_MARGIN /\ syncRow # NoRow =>
       con.marker = syncRow /\ 1 <= syncRow

IInv ==
  /\ Typed /\ Small /\ Detected /\ Held /\ Unmoved /\ JobRight /\ NotTorn /\ Kept
  /\ SizeHonoured /\ DirtyLinesVisible

\* An agent that starts finds the console as it is.
LEMMA StartsWell == Init => IInv
<1> SUFFICES ASSUME Init PROVE IInv
  OBVIOUS
<1>1. ConsoleFits(Kind) /\ kind \in DOMAIN Consoles /\ con = Kind.start /\ info = Kind.start
  BY ResizeAssumption DEF Init, Kind
<1>2. Fits(con) /\ Fits(info) /\ con.marker = NoRow
  BY <1>1, Limits DEF ConsoleFits, Fits, ConsoleState, Positive, NoRow
<1>3. ptySize \in [cols : Positive, rows : Positive]
  BY ResizeAssumption DEF Init
<1>4. Typed
  <2>1. syncRow \in NoRow..BUFFER_LINE_COUNT /\ dirtyLineCount \in 0..BUFFER_LINE_COUNT /\ dirtyWindowTop \in Int
    BY Limits DEF Init, NoRow
  <2>2. job \in [bufX : Nat, bufY : Nat, cols : Nat, rows : Nat]
    BY DEF Init, NoJob
  <2>3. crept \in Nat
    BY DEF Init
  <2> QED
    BY <1>1, <1>2, <1>3, <2>1, <2>2, <2>3 DEF Init, Typed
<1>5. pc = "detect" /\ directMode = FALSE
  BY DEF Init
<1> QED
  BY <1>1, <1>2, <1>4, <1>5 DEF IInv, Small, Started, Resizing, Detected, Held, Unmoved, JobRight, NotTorn,
       Kept, SizeHonoured, DirtyLinesVisible

-----------------------------------------------------------------------------
(* Programs                                                                 *)

\* Programs make the window no larger.  They print, clear, or give the buffer its height back.
LEMMA ProgramMoves ==
  ASSUME Typed, Small, ProgramStep
  PROVE  /\ Fits(con') /\ con'.w = con.w /\ con'.bufX = con.bufX /\ con'.font = con.font /\ con'.h <= con.h
         /\ \/ /\ con'.bufY = con.bufY /\ con'.h = con.h /\ con.top <= con'.top
               /\ \/ con'.marker = NoRow \/ con'.marker = con.marker
                  \/ /\ con'.marker \in Nat /\ con'.marker <= con.marker
                     /\ con'.top + con'.h = con.bufY
            \/ con'.top = 0 /\ con'.marker = NoRow
            \/ /\ con.bufY < BUFFER_LINE_COUNT /\ con'.bufY = BUFFER_LINE_COUNT
               /\ con'.top = con.top /\ con'.h = con.h /\ con'.marker = con.marker
<1>1. /\ con \in ConsoleState /\ con.bufX \in Nat /\ con.bufY \in Nat /\ con.top \in Nat /\ con.w \in Nat /\ con.h \in Nat
      /\ con.cur \in Nat /\ con.font \in 1..MinPixels /\ con.marker \in Int /\ -1 <= con.marker
      /\ con.marker <= BUFFER_LINE_COUNT /\ 1 <= con.w /\ 1 <= con.h
      /\ con.w <= con.bufX /\ con.top + con.h <= con.bufY /\ con.cur < con.bufY
  BY FitsIs DEF Typed, Fits
<1>0. NoRow \in NoRow..BUFFER_LINE_COUNT
  BY Limits DEF NoRow
<1>2. CASE \E n \in {1, BUFFER_LINE_COUNT} : con' = Printed(con, n)
  <2>1. PICK n \in Nat : con' = Printed(con, n)
    BY <1>2, Limits
  <2> DEFINE cur == MinInt(con.cur + n, con.bufY - 1)
             scrolled == con.cur + n - cur
             top == MaxInt(con.top, cur - con.h + 1)
             marker == IF con.marker >= scrolled THEN con.marker - scrolled ELSE NoRow
  <2>2. /\ cur \in Nat /\ cur < con.bufY /\ scrolled \in Nat /\ (scrolled > 0 => cur = con.bufY - 1)
    BY <1>1, MinIntIs
  <2>3. con' = [con EXCEPT !.cur = cur, !.top = top, !.marker = marker]
    BY <2>1 DEF Printed
  <2> HIDE DEF cur
  <2>4. top \in Nat /\ con.top <= top /\ top + con.h <= con.bufY /\ (scrolled > 0 => top + con.h = con.bufY)
    BY <1>1, <2>2, MaxIntIs
  <2>5. marker \in NoRow..BUFFER_LINE_COUNT /\ (marker = NoRow \/ (marker \in Nat /\ marker = con.marker - scrolled))
    BY <1>1, <2>2, Limits DEF NoRow
  <2> HIDE DEF top, marker, scrolled
  <2>6. con' \in ConsoleState
    BY <1>1, <2>2, <2>3, <2>4, <2>5 DEF ConsoleState
  <2>7. /\ con'.cur = cur /\ con'.top = top /\ con'.marker = marker /\ con'.w = con.w /\ con'.h = con.h
        /\ con'.bufX = con.bufX /\ con'.bufY = con.bufY /\ con'.font = con.font
    BY <1>1, <2>3 DEF ConsoleState
  <2>8. Fits(con')
    BY <1>1, <2>2, <2>4, <2>6, <2>7 DEF Fits
  <2> QED
    BY <1>1, <2>2, <2>4, <2>5, <2>7, <2>8
<1>3. CASE con' = [con EXCEPT !.cur = 0, !.top = 0, !.marker = NoRow]
  <2>1. con' \in ConsoleState
    BY <1>0, <1>1, <1>3 DEF ConsoleState
  <2>2. /\ con'.cur = 0 /\ con'.top = 0 /\ con'.marker = NoRow /\ con'.w = con.w /\ con'.h = con.h
        /\ con'.bufX = con.bufX /\ con'.bufY = con.bufY /\ con'.font = con.font
    BY <1>1, <1>3 DEF ConsoleState
  <2> QED
    BY <1>1, <2>1, <2>2 DEF Fits
<1>4. CASE \E h \in {2, con.h} :
             h <= con.h /\ con' = [con EXCEPT !.h = h, !.bufY = h, !.cur = 0, !.top = 0, !.marker = NoRow]
  <2>1. PICK h \in {2, con.h} :
             h <= con.h /\ con' = [con EXCEPT !.h = h, !.bufY = h, !.cur = 0, !.top = 0, !.marker = NoRow]
    BY <1>4
  <2>2. h \in Nat /\ 1 <= h /\ h \in Positive
    BY <1>1 DEF Positive
  <2>3. con' \in ConsoleState
    BY <1>0, <1>1, <2>1, <2>2 DEF ConsoleState
  <2>4. /\ con'.cur = 0 /\ con'.top = 0 /\ con'.marker = NoRow /\ con'.w = con.w /\ con'.h = h
        /\ con'.bufX = con.bufX /\ con'.bufY = h /\ con'.font = con.font
    BY <1>1, <2>1 DEF ConsoleState
  <2> QED
    BY <1>1, <2>1, <2>2, <2>3, <2>4 DEF Fits
<1>5. CASE con.bufY < BUFFER_LINE_COUNT /\ con' = [con EXCEPT !.bufY = BUFFER_LINE_COUNT]
  <2>1. con' \in ConsoleState
    BY <1>1, <1>5, Limits DEF ConsoleState
  <2>2. /\ con'.cur = con.cur /\ con'.top = con.top /\ con'.marker = con.marker /\ con'.w = con.w /\ con'.h = con.h
        /\ con'.bufX = con.bufX /\ con'.bufY = BUFFER_LINE_COUNT /\ con'.font = con.font
    BY <1>1, <1>5 DEF ConsoleState
  <2> QED
    BY <1>1, <1>5, <2>1, <2>2, Limits DEF Fits
<1>6. CASE con' = [con EXCEPT !.cur = con.top]
  <2>1. con' \in ConsoleState
    BY <1>1, <1>6 DEF ConsoleState
  <2>2. /\ con'.cur = con.top /\ con'.top = con.top /\ con'.marker = con.marker /\ con'.w = con.w /\ con'.h = con.h
        /\ con'.bufX = con.bufX /\ con'.bufY = con.bufY /\ con'.font = con.font
    BY <1>1, <1>6 DEF ConsoleState
  <2> QED
    BY <1>1, <2>1, <2>2 DEF Fits
<1> QED
  BY <1>2, <1>3, <1>4, <1>5, <1>6 DEF ProgramStep

\* Programs keep the invariant.
LEMMA ProgramKeeps ==
  ASSUME IInv, ProgramStep
  PROVE  IInv'
<1> USE DEF IInv
<1>1. /\ Fits(con') /\ con'.w = con.w /\ con'.bufX = con.bufX /\ con'.font = con.font /\ con'.h <= con.h
      /\ \/ /\ con'.bufY = con.bufY /\ con'.h = con.h /\ con.top <= con'.top
            /\ \/ con'.marker = NoRow \/ con'.marker = con.marker
               \/ /\ con'.marker \in Nat /\ con'.marker <= con.marker
                  /\ con'.top + con'.h = con.bufY
         \/ con'.top = 0 /\ con'.marker = NoRow
         \/ /\ con.bufY < BUFFER_LINE_COUNT /\ con'.bufY = BUFFER_LINE_COUNT
            /\ con'.top = con.top /\ con'.h = con.h /\ con'.marker = con.marker
  BY ProgramMoves
<1>2. /\ kind' = kind /\ frozen' = frozen /\ isNewW10' = isNewW10 /\ directMode' = directMode /\ ptySize' = ptySize
      /\ syncRow' = syncRow /\ dirtyWindowTop' = dirtyWindowTop /\ dirtyLineCount' = dirtyLineCount
      /\ pc' = pc /\ info' = info /\ forced' = forced /\ job' = job /\ crept' = crept
      /\ ~frozen /\ Started /\ interfered' = (pc # "idle")
      /\ (~torn' => ~torn) /\ (pc = "sync" /\ ~torn' => ~(con'.top < info.top)) /\ torn' \in BOOLEAN
      /\ interfered' \in BOOLEAN
  BY DEF ProgramStep, scraperVars, Started
<1>3. /\ con.h \in Nat /\ con'.h \in Nat /\ con.w \in Nat /\ con.top \in Nat /\ con'.top \in Nat /\ con.bufY \in Nat
      /\ con.marker \in Int /\ con'.marker \in Int /\ info.top \in Nat /\ job.cols \in Nat /\ job.rows \in Nat
      /\ crept \in Nat /\ con.top + con.h <= con.bufY /\ con'.bufY \in Nat
  BY <1>1, FitsIs DEF Typed
<1>4. Typed'
  BY <1>1, <1>2 DEF Typed
<1>5. Small'
  BY <1>1, <1>2, <1>3, Limits DEF Small, Started
<1>6. Detected' /\ Held' /\ Unmoved'
  BY <1>2 DEF Detected, Held, Unmoved, Started, Kind, Resizing, NewDirectMode
<1>7. JobRight'
  <2>1. Largest(con') = Largest(con)
    BY <1>1 DEF Largest
  <2>2. ~interfered' => pc = "idle"
    BY <1>2
  <2>3. pc \in {"buffer", "expand"} => con'.w <= job.cols /\ con'.h <= job.rows
    BY <1>1, <1>3 DEF JobRight
  <2> HIDE DEF IInv
  <2> QED
    BY <1>1, <1>2, <2>1, <2>2, <2>3 DEF JobRight, Resizing, IInv
<1>8. NotTorn'
  <2> SUFFICES ASSUME ~torn' PROVE NotTorn'
    BY DEF NotTorn
  <2>1. ~torn /\ (pc = "sync" => info.top <= con'.top)
    BY <1>2, <1>3
  <2>2. pc = "sync" => /\ info.top <= con'.top
                       /\ 1 <= info.top /\ ~NewDirectMode => con'.bufY = BUFFER_LINE_COUNT
    BY <1>1, <1>3, <2>1, Limits DEF NotTorn
  <2>3. con'.marker # NoRow => con.marker # NoRow
    BY <1>1, <1>3 DEF NoRow
  <2>4. directMode \/ (pc = "sync" /\ NewDirectMode) => con'.marker = NoRow
    BY <2>1, <2>3 DEF NotTorn
  <2>5. ASSUME con'.marker # NoRow
        PROVE  /\ con'.bufY = BUFFER_LINE_COUNT
               /\ con'.marker + SYNC_MARKER_LEN + SYNC_MARKER_MARGIN <= con'.top + crept
               /\ con'.marker = 0 => BUFFER_LINE_COUNT <= con'.top + MAX_CONSOLE_HEIGHT + crept
               /\ pc \in Resizing => con'.marker <= MarkerLimit
    <3>1. /\ con.bufY = BUFFER_LINE_COUNT
          /\ con.marker + SYNC_MARKER_LEN + SYNC_MARKER_MARGIN <= con.top + crept
          /\ con.marker = 0 => BUFFER_LINE_COUNT <= con.top + MAX_CONSOLE_HEIGHT + crept
          /\ pc \in Resizing => con.marker <= MarkerLimit
      BY <2>1, <2>3, <2>5 DEF NotTorn
    <3>2. MarkerLimit \in Int
      BY Limits DEF MarkerLimit, Typed, Positive
    <3>3. con'.h <= MAX_CONSOLE_HEIGHT
      BY <1>2, <1>5 DEF Small, Started
    <3>4. con'.bufY = con.bufY /\ con.top <= con'.top
          /\ \/ con'.marker = con.marker
             \/ /\ con'.marker \in Nat /\ con'.marker <= con.marker
                /\ con'.top + con'.h = con.bufY
      <4>1. CASE con'.top = 0 /\ con'.marker = NoRow
        BY <2>5, <4>1
      <4>2. CASE con.bufY < BUFFER_LINE_COUNT
        BY <1>3, <3>1, <4>2
      <4> QED
        BY <1>1, <2>5, <4>1, <4>2
    <3> QED
      BY <1>3, <3>1, <3>2, <3>3, <3>4, Limits
  <2> QED
    BY <1>2, <2>2, <2>4, <2>5 DEF NotTorn, NewDirectMode, MarkerLimit
<1>9. Kept' /\ SizeHonoured' /\ DirtyLinesVisible'
  BY <1>2 DEF Kept, Held, SizeHonoured, DirtyLinesVisible, Resizing
<1> QED
  BY <1>4, <1>5, <1>6, <1>7, <1>8, <1>9

-----------------------------------------------------------------------------
(* The start                                                                *)

\* What the detection makes of a window of one cell.
Widened(o) == IF SizeAccepted(o, 400, 1) THEN [o EXCEPT !.bufX = 400, !.bufY = 1, !.cur = 0] ELSE o

\* It has more than one column whether the console takes 400 or not.
LEMMA WidenedKeeps ==
  ASSUME NEW o, Fits(o), 2 <= o.bufX, o.top = 0, o.w = 1, o.h = 1
  PROVE  Fits(Widened(o)) /\ 2 <= Widened(o).bufX /\ Widened(o).marker = o.marker
<1> DEFINE v == Widened(o)
<1>1. v = o \/ v = [o EXCEPT !.bufX = 400, !.bufY = 1, !.cur = 0]
  BY DEF Widened
<1> HIDE DEF v
<1>2. Fits(v) /\ 2 <= v.bufX /\ v.marker = o.marker
  <2>1. CASE v = o
    BY <2>1
  <2>2. CASE v = [o EXCEPT !.bufX = 400, !.bufY = 1, !.cur = 0]
    <3>1. o \in ConsoleState
      BY DEF Fits
    <3>2. v \in ConsoleState
      <4>1. PICK x, y, n \in Nat : x = 400 /\ y = 1 /\ n = 0
        OBVIOUS
      <4>2. v = [o EXCEPT !.bufX = x, !.bufY = y, !.cur = n]
        BY <2>2, <4>1
      <4> QED
        BY <3>1, <4>2 DEF ConsoleState
    <3>3. /\ v.bufX = 400 /\ v.bufY = 1 /\ v.cur = 0 /\ v.top = o.top /\ v.w = o.w /\ v.h = o.h
          /\ v.marker = o.marker
      BY <2>2, <3>1 DEF ConsoleState
    <3> QED
      BY <3>2, <3>3 DEF Fits
  <2> QED
    BY <1>1, <2>1, <2>2
<1> QED
  BY <1>2 DEF v

\* A window of one cell has more than one column when the cursor is looked at.
LEMMA DetectKeeps ==
  ASSUME IInv, DetectNewWindows10Console
  PROVE  IInv'
<1>1. Typed /\ con = Kind.start /\ con.marker = NoRow /\ directMode = FALSE
  BY DEF IInv, Detected, Started, DetectNewWindows10Console, Typed
<1>2. ConsoleFits(Kind) /\ Fits(con) /\ kind \in DOMAIN Consoles
  BY <1>1, ResizeAssumption DEF Typed, Kind
<1>3. PICK c \in WindowForDetection : Detect(c)
  BY DEF DetectNewWindows10Console
<1>4. /\ Fits(c) /\ c.marker = NoRow
      /\ c.w = 1 /\ c.h = 1 => ~Kind.windows8
  <2>1. CASE c = con /\ ~(con.w = 1 /\ con.h = 1 /\ Kind.windows8)
    BY <1>1, <1>2, <2>1
  <2>2. CASE c \in ExpandedForDetection
    <3>1. PICK b \in SmallFonts(con, 400, FALSE) :
            LET v == Widened(moveWindow(b, 0, 1, 1))
            IN c = moveWindow(moveWindow(v, 0, 2, 1), 0, MinInt(Largest(b).x, v.bufX), 1)
      BY <2>2 DEF ExpandedForDetection, Widened
    <3> DEFINE o == moveWindow(b, 0, 1, 1)
               v == Widened(o)
               m == moveWindow(v, 0, 2, 1)
               n == MinInt(Largest(b).x, v.bufX)
    <3>2. Fits(b) /\ con.bufX <= b.bufX /\ 2 <= b.bufX /\ b.marker = NoRow
      <4>0. PICK new : new = FALSE
        OBVIOUS
      <4>1. b \in SmallFonts(con, 400, new)
        BY <4>0
      <4>2. Fits(b) /\ con.bufX <= b.bufX /\ b.marker = con.marker
        BY <1>2, <4>1, FontKeeps
      <4>3. 2 <= con.bufX
        BY <1>1, <1>2 DEF ConsoleFits
      <4> QED
        BY <1>1, <1>2, <4>2, <4>3, FitsIs
    <3>0. 1 \in Positive /\ 2 \in Positive /\ 0 \in Int
      BY DEF Positive
    <3>7. IsMoved(m, c, 0, n, 1)
      BY <3>1 DEF IsMoved
    <3>10. IsMoved(v, m, 0, 2, 1)
      BY DEF IsMoved
    <3>11. IsMoved(b, o, 0, 1, 1)
      BY DEF IsMoved
    <3> HIDE DEF o
    <3>3. Fits(o) /\ 2 <= o.bufX /\ o.marker = NoRow /\ o.top = 0 /\ o.h = 1 /\ o.w = 1
      <4>1. 0 <= 0 /\ 0 + 1 <= b.bufY /\ 1 <= b.bufX /\ 1 <= Largest(b).x /\ 1 <= Largest(b).y
        BY <3>2, FitsIs, LargestIs
      <4> QED
        BY <3>0, <3>2, <3>11, <4>1, MoveKeeps
    <3>4. Fits(v) /\ 2 <= v.bufX /\ v.marker = NoRow
      BY <3>3, WidenedKeeps
    <3> HIDE DEF v, m
    <3>5. Fits(m) /\ m.w = 2 /\ m.marker = NoRow
      <4>1. 0 <= 0 /\ 0 + 1 <= v.bufY /\ 2 <= v.bufX /\ 2 <= Largest(v).x /\ 1 <= Largest(v).y
        BY <3>4, FitsIs, LargestIs
      <4> QED
        BY <3>0, <3>4, <3>10, <4>1, MoveKeeps
    <3>6. n \in Positive /\ 2 <= n
      BY <3>2, <3>4, LargestIs, FitsIs, MinIntIs DEF Positive
    <3> HIDE DEF n
    <3>9. Fits(c) /\ c.marker = m.marker /\ (c.w = n \/ c.w = m.w)
      BY <3>0, <3>5, <3>6, <3>7, MoveKeeps
    <3> QED
      BY <3>5, <3>6, <3>9, FitsIs
  <2> QED
    BY <2>1, <2>2 DEF WindowForDetection
<1>5. Fits(con') /\ con'.marker = NoRow
  <2>1. (con' = [c EXCEPT !.cur = 0] \/ con' = c) /\ 0 < c.bufY
    BY <1>3, <1>4, FitsIs DEF Detect
  <2> QED
    BY <1>4, <2>1, CursorKeeps
<1>6. isNewW10' = Kind.new /\ isNewW10' \in BOOLEAN
  <2>1. isNewW10' = (Kind.windows8 /\ (Kind.new \/ (c.w = 1 /\ c.h = 1)))
    BY <1>3 DEF Detect
  <2>2. Kind.new \in BOOLEAN /\ Kind.windows8 \in BOOLEAN /\ (Kind.new => Kind.windows8)
    BY <1>2 DEF ConsoleFits
  <2> QED
    BY <1>4, <2>1, <2>2
<1>7. /\ kind' = kind /\ frozen' = frozen /\ directMode' = directMode /\ ptySize' = ptySize
      /\ syncRow' = syncRow /\ dirtyWindowTop' = dirtyWindowTop /\ dirtyLineCount' = dirtyLineCount
      /\ info' = info /\ forced' = forced /\ job' = job /\ crept' = crept
      /\ interfered' = interfered /\ torn' = torn /\ pc' = "construct"
  BY DEF DetectNewWindows10Console, scraperVars, historyVars
<1>8. Typed'
  BY <1>1, <1>5, <1>6, <1>7 DEF Typed
<1>9. Small' /\ Held' /\ Unmoved' /\ JobRight' /\ Kept' /\ SizeHonoured' /\ DirtyLinesVisible'
  BY <1>7 DEF Small, Held, Unmoved, JobRight, Kept, SizeHonoured, DirtyLinesVisible, Started, Resizing
<1>10. Detected' /\ NotTorn'
  BY <1>1, <1>5, <1>6, <1>7 DEF Detected, NotTorn, Started, Kind
<1> QED
  BY <1>8, <1>9, <1>10 DEF IInv

\* Limited keeps to the largest console.
LEMMA LimitedIs ==
  ASSUME NEW size \in [cols : Positive, rows : Positive]
  PROVE  /\ Limited(size) \in [cols : Positive, rows : Positive]
         /\ Limited(size).cols <= MAX_CONSOLE_WIDTH /\ Limited(size).rows <= MAX_CONSOLE_HEIGHT
<1>1. size.cols \in Nat /\ 1 <= size.cols /\ size.rows \in Nat /\ 1 <= size.rows
  BY DEF Positive
<1>2. /\ MinInt(size.cols, MAX_CONSOLE_WIDTH) \in Positive /\ MinInt(size.rows, MAX_CONSOLE_HEIGHT) \in Positive
      /\ MinInt(size.cols, MAX_CONSOLE_WIDTH) <= MAX_CONSOLE_WIDTH
      /\ MinInt(size.rows, MAX_CONSOLE_HEIGHT) <= MAX_CONSOLE_HEIGHT
  BY <1>1, Limits, MinIntIs DEF Positive
<1> QED
  BY <1>2 DEF Limited

\* What fits the desktop is at least one cell.
LEMMA VisibleIs ==
  ASSUME NEW c, Fits(c), NEW n \in Positive
  PROVE  /\ MinInt(n, Largest(c).x) \in Positive /\ MinInt(n, Largest(c).x) <= n
         /\ MinInt(n, Largest(c).x) <= Largest(c).x
         /\ MinInt(n, Largest(c).y) \in Positive /\ MinInt(n, Largest(c).y) <= n
         /\ MinInt(n, Largest(c).y) <= Largest(c).y
BY LargestIs, MinIntIs DEF Positive

\* The scraper makes the console small enough.
LEMMA ConstructKeeps ==
  ASSUME IInv, Construct
  PROVE  IInv'
<1> DEFINE cols == Limited(ptySize).cols
           rows == Limited(ptySize).rows
<1>1. Typed /\ Fits(con) /\ kind \in DOMAIN Consoles /\ con.marker = NoRow /\ directMode = FALSE /\ isNewW10 = Kind.new
  BY DEF IInv, Detected, Started, Construct, Typed
<1>2. /\ Limited(ptySize) \in [cols : Positive, rows : Positive]
      /\ cols <= MAX_CONSOLE_WIDTH /\ rows <= MAX_CONSOLE_HEIGHT
  BY <1>1, LimitedIs DEF Typed
<1>3. cols \in Positive /\ rows \in Positive /\ cols \in Nat /\ rows \in Nat
  BY <1>2 DEF Positive
<1> HIDE DEF cols, rows
<1>4. PICK c \in SmallFonts(con, cols, isNewW10) :
        \E d \in resizeBufferRange(moveWindow(c, 0, 1, 1), cols, BUFFER_LINE_COUNT) :
          con' = [moveWindow(d, 0, MinInt(cols, Largest(d).x), MinInt(rows, Largest(d).y)) EXCEPT !.cur = 0]
  BY DEF Construct, cols, rows
<1> DEFINE o == moveWindow(c, 0, 1, 1)
<1>5. PICK d \in resizeBufferRange(o, cols, BUFFER_LINE_COUNT) :
        con' = [moveWindow(d, 0, MinInt(cols, Largest(d).x), MinInt(rows, Largest(d).y)) EXCEPT !.cur = 0]
  BY <1>4
<1>6. Fits(c) /\ c.marker = NoRow /\ MinPixels <= c.bufX * c.font
  BY <1>1, <1>3, FontKeeps
<1>7. Fits(o) /\ o.marker = NoRow /\ o.h = 1 /\ MinPixels <= o.bufX * o.font
  <2>0. IsMoved(c, o, 0, 1, 1)
    BY DEF IsMoved
  <2> HIDE DEF o
  <2>1. /\ 1 \in Positive /\ 0 \in Int /\ 0 <= 0 /\ 0 + 1 <= c.bufY /\ 1 <= c.bufX
        /\ 1 <= Largest(c).x /\ 1 <= Largest(c).y
    BY <1>6, FitsIs, LargestIs DEF Positive
  <2> QED
    BY <1>6, <2>0, <2>1, MoveKeeps
<1> HIDE DEF o
<1>8. Fits(d) /\ d.h = 1 /\ d.marker = NoRow /\ MinPixels <= d.bufX * d.font
  BY <1>3, <1>7, RangeKeeps, Limits
<1> DEFINE x == MinInt(cols, Largest(d).x)
           y == MinInt(rows, Largest(d).y)
           m == moveWindow(d, 0, x, y)
<1>11. con' = [m EXCEPT !.cur = 0]
  BY <1>5
<1>17. IsMoved(d, m, 0, x, y)
  BY DEF IsMoved
<1> HIDE DEF m
<1>9. x \in Positive /\ y \in Positive /\ y <= rows
  BY <1>3, <1>8, VisibleIs
<1> HIDE DEF x, y
<1>10. Fits(m) /\ m.marker = NoRow /\ m.bufX = d.bufX /\ m.font = d.font
       /\ (m.h = 1 \/ m.h = y)
  BY <1>8, <1>9, <1>17, MoveKeeps
<1>12. Fits(con') /\ con'.marker = NoRow /\ con'.h <= MAX_CONSOLE_HEIGHT /\ MinPixels <= con'.bufX * con'.font
  <2>1. 0 < m.bufY
    BY <1>10, FitsIs
  <2>2. /\ Fits(con') /\ con'.h = m.h /\ con'.bufX = m.bufX /\ con'.marker = m.marker /\ con'.font = m.font
    BY <1>10, <1>11, <2>1, CursorKeeps
  <2>4. m.h <= MAX_CONSOLE_HEIGHT
    BY <1>2, <1>3, <1>9, <1>10, Limits DEF Positive
  <2> QED
    BY <1>8, <1>10, <2>2, <2>4
<1>13. /\ kind' = kind /\ frozen' = frozen /\ isNewW10' = isNewW10 /\ directMode' = directMode
       /\ syncRow' = syncRow /\ dirtyWindowTop' = dirtyWindowTop /\ dirtyLineCount' = dirtyLineCount
       /\ info' = info /\ forced' = forced /\ job' = job /\ crept' = crept
       /\ interfered' = interfered /\ torn' = torn /\ pc' = "idle" /\ ptySize' = Limited(ptySize)
  BY DEF Construct, historyVars
<1>14. Typed'
  BY <1>1, <1>2, <1>12, <1>13 DEF Typed
<1>15. Small' /\ Held' /\ Unmoved' /\ JobRight' /\ Kept' /\ SizeHonoured' /\ DirtyLinesVisible'
  BY <1>2, <1>12, <1>13 DEF Small, Held, Unmoved, JobRight, Kept, SizeHonoured, DirtyLinesVisible, Resizing, cols, rows
<1>16. Detected' /\ NotTorn'
  BY <1>1, <1>12, <1>13 DEF Detected, NotTorn, Started, Kind
<1> QED
  BY <1>14, <1>15, <1>16 DEF IInv

-----------------------------------------------------------------------------
(* The info and the scrape                                                  *)

\* A resize, or a poll, begins.
LEMMA BeginKeeps ==
  ASSUME IInv, ScrapeBuffer \/ \E size \in Sizes : ResizeWindow(size)
  PROVE  IInv'
<1>1. /\ ptySize' \in [cols : Positive, rows : Positive]
      /\ ptySize'.cols <= MAX_CONSOLE_WIDTH /\ ptySize'.rows <= MAX_CONSOLE_HEIGHT
  <2>1. CASE ScrapeBuffer
    BY <2>1 DEF ScrapeBuffer, scraperVars, IInv, Typed, Small, Started
  <2>2. CASE \E size \in Sizes : ResizeWindow(size)
    <3>1. PICK size \in Sizes : ResizeWindow(size)
      BY <2>2
    <3>2. size \in [cols : Positive, rows : Positive] /\ ptySize' = Limited(size)
      BY <3>1, ResizeAssumption DEF ResizeWindow
    <3> QED
      BY <3>2, LimitedIs
  <2> QED
    BY <2>1, <2>2
<1>2. /\ kind' = kind /\ con' = con /\ isNewW10' = isNewW10 /\ directMode' = directMode
      /\ syncRow' = syncRow /\ dirtyWindowTop' = dirtyWindowTop /\ dirtyLineCount' = dirtyLineCount
      /\ info' = info /\ job' = job /\ crept' = crept /\ interfered' = interfered /\ torn' = torn
      /\ pc = "idle" /\ pc' = "info" /\ frozen' \in BOOLEAN /\ forced' \in BOOLEAN /\ (forced' => frozen')
  BY DEF ScrapeBuffer, ResizeWindow, scraperVars, historyVars, IInv, Typed
<1>3. Typed'
  BY <1>1, <1>2 DEF IInv, Typed
<1>4. Small'
  BY <1>1, <1>2 DEF IInv, Small, Started, Resizing
<1>5. Detected' /\ Held' /\ Unmoved' /\ JobRight' /\ Kept' /\ SizeHonoured' /\ DirtyLinesVisible'
  BY <1>2 DEF IInv, Detected, Held, Unmoved, JobRight, Kept, SizeHonoured, DirtyLinesVisible, Started, Resizing, Kind
<1>6. NotTorn'
  BY <1>2 DEF IInv, NotTorn, Resizing
<1> QED
  BY <1>3, <1>4, <1>5, <1>6 DEF IInv

\* The info says how the console is.
LEMMA ReadInfoKeeps ==
  ASSUME IInv, ReadInfo
  PROVE  IInv'
<1>1. /\ kind' = kind /\ con' = con /\ isNewW10' = isNewW10 /\ directMode' = directMode /\ ptySize' = ptySize
      /\ syncRow' = syncRow /\ dirtyWindowTop' = dirtyWindowTop /\ dirtyLineCount' = dirtyLineCount
      /\ info' = con /\ job' = job /\ crept' = crept /\ interfered' = FALSE /\ torn' = torn
      /\ pc = "info" /\ pc' = "sync" /\ frozen' = frozen /\ forced' = forced
  BY DEF ReadInfo, scraperVars
<1>2. Typed'
  BY <1>1 DEF IInv, Typed
<1>3. Small' /\ Held'
  BY <1>1 DEF IInv, Small, Held, Started, Resizing
<1>4. Detected' /\ Unmoved' /\ JobRight' /\ Kept' /\ SizeHonoured' /\ DirtyLinesVisible'
  BY <1>1 DEF IInv, Detected, Unmoved, JobRight, Kept, SizeHonoured, DirtyLinesVisible, Started, Resizing, Kind
<1>5. con.top \in Nat
  BY FitsIs DEF IInv, Typed
<1>6. NotTorn'
  BY <1>1, <1>5 DEF IInv, NotTorn, NewDirectMode, Resizing
<1> QED
  BY <1>2, <1>3, <1>4, <1>6 DEF IInv

\* The mode is the one the info calls for.
LEMMA ChangeModeKeeps ==
  ASSUME IInv, ChangeMode
  PROVE  IInv'
<1>1. /\ kind' = kind /\ con' = con /\ isNewW10' = isNewW10 /\ directMode' = NewDirectMode /\ ptySize' = ptySize
      /\ syncRow' = NoRow /\ dirtyWindowTop' = NoRow /\ dirtyLineCount' = 0
      /\ info' = info /\ job' = job /\ crept' = crept /\ interfered' = interfered /\ torn' = torn
      /\ pc = "sync" /\ pc' = "sync" /\ NewDirectMode' = NewDirectMode /\ NewDirectMode \in BOOLEAN
  BY DEF ChangeMode, historyVars, NewDirectMode
<1>2. frozen' \in BOOLEAN /\ forced' \in BOOLEAN /\ (forced' => frozen')
  BY <1>1 DEF ChangeMode, IInv, Held, Typed
<1>3. Typed'
  <2>1. NoRow \in NoRow..BUFFER_LINE_COUNT /\ 0 \in 0..BUFFER_LINE_COUNT /\ NoRow \in Int
    BY Limits DEF NoRow
  <2> QED
    BY <1>1, <1>2, <2>1 DEF IInv, Typed
<1>4. Small' /\ Held' /\ Unmoved'
  BY <1>1, <1>2 DEF IInv, Small, Held, Unmoved, Started, Resizing
<1>5. Detected' /\ JobRight' /\ Kept' /\ SizeHonoured' /\ DirtyLinesVisible'
  BY <1>1 DEF IInv, Detected, JobRight, Kept, SizeHonoured, DirtyLinesVisible, Started, Resizing, Kind
<1>6. NotTorn'
  BY <1>1 DEF IInv, NotTorn, Resizing
<1> QED
  BY <1>3, <1>4, <1>5, <1>6 DEF IInv

\* In the direct mode nothing is tracked.
LEMMA SyncDirectKeeps ==
  ASSUME IInv, SyncDirect
  PROVE  IInv'
<1>1. /\ kind' = kind /\ con' = con /\ isNewW10' = isNewW10 /\ directMode' = directMode /\ ptySize' = ptySize
      /\ syncRow' = syncRow /\ dirtyWindowTop' = dirtyWindowTop /\ dirtyLineCount' = dirtyLineCount
      /\ info' = info /\ job' = job /\ crept' = crept /\ interfered' = interfered /\ torn' = torn
      /\ pc = "sync" /\ NewDirectMode = directMode /\ directMode /\ NewDirectMode' = NewDirectMode
      /\ frozen' = frozen /\ forced' = forced
      /\ \/ forced /\ pc' = "clear"
         \/ ~forced /\ pc' = "done"
  BY DEF SyncDirect, scraperVars, historyVars, NewDirectMode
<1>2. Typed'
  BY <1>1 DEF IInv, Typed
<1>3. Small' /\ Held' /\ Unmoved'
  BY <1>1 DEF IInv, Small, Held, Unmoved, Started, Resizing
<1>4. Detected' /\ JobRight' /\ Kept' /\ SizeHonoured' /\ DirtyLinesVisible'
  BY <1>1 DEF IInv, Detected, JobRight, Kept, SizeHonoured, DirtyLinesVisible, Started, Resizing, Kind
<1>5. NotTorn'
  BY <1>1 DEF IInv, NotTorn, Resizing
<1> QED
  BY <1>2, <1>3, <1>4, <1>5 DEF IInv

\* The marker is put down where the window is, or found where it was.
LEMMA SyncScrollingKeeps ==
  ASSUME IInv, SyncScrolling
  PROVE  IInv'
<1>1. /\ kind' = kind /\ isNewW10' = isNewW10 /\ directMode' = directMode /\ ptySize' = ptySize
      /\ dirtyWindowTop' = info.top
      /\ info' = info /\ job' = job /\ interfered' = interfered /\ torn' = torn
      /\ pc = "sync" /\ NewDirectMode = directMode /\ ~directMode /\ NewDirectMode' = NewDirectMode
      /\ frozen' = (frozen \/ forced) /\ forced' = forced
      /\ \/ forced /\ pc' = "clear"
         \/ ~forced /\ pc' = "done"
  BY DEF SyncScrolling, NewDirectMode
<1>2. /\ Typed /\ Fits(con) /\ Fits(info) /\ info.bufY = BUFFER_LINE_COUNT /\ crept \in Nat
      /\ syncRow \in NoRow..BUFFER_LINE_COUNT /\ dirtyLineCount \in 0..BUFFER_LINE_COUNT
  BY <1>1 DEF IInv, Typed, NewDirectMode
<1>3. /\ info.top \in Nat /\ info.h \in Nat /\ info.cur \in Nat /\ info.top + info.h <= BUFFER_LINE_COUNT
      /\ info.cur < BUFFER_LINE_COUNT /\ 1 <= info.h /\ con.top \in Nat /\ con.marker \in Int
      /\ con.marker \in NoRow..BUFFER_LINE_COUNT
  BY <1>2, FitsIs DEF NoRow
<1> DEFINE lost == syncRow # NoRow /\ con.marker = NoRow
           reset == lost \/ (dirtyWindowTop # NoRow /\ info.top < dirtyWindowTop)
           row == IF reset THEN NoRow ELSE IF syncRow = NoRow THEN NoRow ELSE con.marker
           newRow == info.top - SYNC_MARKER_LEN - SYNC_MARKER_MARGIN
           create == newRow >= row + SYNC_MARKER_LEN + SYNC_MARKER_MARGIN
           moved == ~reset /\ (row # syncRow \/ (dirtyWindowTop # NoRow /\ info.top > dirtyWindowTop))
           bottom == info.top + info.h
           part == IF reset THEN 0 ELSE IF moved THEN MaxInt(dirtyLineCount, bottom) ELSE dirtyLineCount
           dirty == MaxInt(MaxInt(info.cur + 1, info.top), part)
<1>4. /\ syncRow' = IF create THEN newRow ELSE row
      /\ con' = IF create THEN [con EXCEPT !.marker = newRow] ELSE con
      /\ dirtyLineCount' \in {dirty, MaxInt(dirty, bottom)}
      /\ crept' = IF create THEN 0 ELSE crept
  BY DEF SyncScrolling
<1>5. row = NoRow \/ row = con.marker
  OBVIOUS
<1>6. dirtyLineCount' \in 0..BUFFER_LINE_COUNT
  <2>1. part \in 0..BUFFER_LINE_COUNT
    <3>1. bottom \in 0..BUFFER_LINE_COUNT
      BY <1>3, Limits
    <3>2. MaxInt(dirtyLineCount, bottom) \in 0..BUFFER_LINE_COUNT
      BY <1>2, <3>1, MaxIntIs, Limits
    <3> HIDE DEF reset, moved, bottom
    <3> QED
      BY <1>2, <3>2, Limits
  <2> HIDE DEF part
  <2>2. dirty \in 0..BUFFER_LINE_COUNT
    BY <1>3, <2>1, MaxIntIs, Limits
  <2> HIDE DEF dirty
  <2>3. MaxInt(dirty, bottom) \in 0..BUFFER_LINE_COUNT
    BY <1>3, <2>2, MaxIntIs, Limits
  <2> QED
    BY <1>4, <2>2, <2>3
<1> HIDE DEF dirty, part, row, reset, moved
<1>7. create => newRow \in NoRow..BUFFER_LINE_COUNT /\ 1 <= newRow /\ 1 <= info.top
  BY <1>3, <1>5, Limits DEF NoRow
<1>8. /\ Fits(con') /\ con'.bufX = con.bufX /\ con'.bufY = con.bufY /\ con'.top = con.top /\ con'.w = con.w
      /\ con'.h = con.h /\ con'.cur = con.cur /\ con'.font = con.font
      /\ con'.marker = IF create THEN newRow ELSE con.marker
  <2>1. CASE create
    <3> HIDE DEF newRow
    <3>1. con' = [con EXCEPT !.marker = newRow]
      BY <1>4, <2>1
    <3> HIDE DEF create
    <3> QED
      BY <1>2, <1>7, <2>1, <3>1, MarkerKeeps
  <2>2. CASE ~create
    BY <1>2, <1>4, <2>2
  <2> QED
    BY <2>1, <2>2
<1> HIDE DEF create, newRow
<1>9. Typed'
  <2>1. syncRow' \in NoRow..BUFFER_LINE_COUNT
    BY <1>3, <1>4, <1>5, <1>7, Limits DEF NoRow
  <2>2. crept' \in Nat /\ dirtyWindowTop' \in Int
    BY <1>1, <1>2, <1>3, <1>4
  <2>3. frozen' \in BOOLEAN
    BY <1>1, <1>2 DEF Typed
  <2> QED
    BY <1>1, <1>2, <1>6, <1>8, <2>1, <2>2, <2>3 DEF Typed
<1>10. Small' /\ Held' /\ Unmoved'
  BY <1>1, <1>8 DEF IInv, Small, Held, Unmoved, Started, Resizing
<1>11. Detected' /\ JobRight' /\ SizeHonoured' /\ DirtyLinesVisible'
  BY <1>1 DEF IInv, Detected, JobRight, SizeHonoured, DirtyLinesVisible, Started, Resizing, Kind
<1>12. NotTorn'
  <2> SUFFICES ASSUME ~torn PROVE NotTorn'
    BY <1>1 DEF NotTorn
  <2>1. info.top <= con.top /\ (1 <= info.top => con.bufY = BUFFER_LINE_COUNT)
    BY <1>1 DEF IInv, NotTorn
  <2>2. ASSUME con'.marker # NoRow
        PROVE  /\ con'.bufY = BUFFER_LINE_COUNT
               /\ con'.marker + SYNC_MARKER_LEN + SYNC_MARKER_MARGIN <= con'.top + crept'
               /\ con'.marker = 0 => BUFFER_LINE_COUNT <= con'.top + MAX_CONSOLE_HEIGHT + crept'
    <3>1. CASE create
      <4>1. con'.marker = newRow /\ crept' = 0 /\ con'.top = con.top /\ con'.bufY = con.bufY
        BY <1>4, <1>8, <3>1
      <4>2. newRow + SYNC_MARKER_LEN + SYNC_MARKER_MARGIN = info.top
        BY <1>3, Limits DEF newRow
      <4> QED
        BY <1>3, <1>7, <2>1, <3>1, <4>1, <4>2
    <3>2. CASE ~create
      <4>1. con'.marker = con.marker /\ crept' = crept /\ con'.top = con.top /\ con'.bufY = con.bufY
        BY <1>4, <1>8, <3>2
      <4> QED
        BY <2>2, <4>1 DEF IInv, NotTorn
    <3> QED
      BY <3>1, <3>2
  <2> QED
    BY <1>1, <2>2 DEF NotTorn, Resizing
<1>13. Kept'
  <2>1. syncRow' # NoRow => con'.marker = syncRow'
    BY <1>4, <1>5, <1>8
  <2>2. ASSUME ~interfered, ~torn, crept' <= SYNC_MARKER_MARGIN, syncRow' # NoRow
        PROVE  1 <= syncRow'
    <3>1. CASE create
      BY <1>4, <1>7, <3>1
    <3>2. CASE ~create
      <4>1. syncRow' = con.marker /\ row = con.marker /\ con.marker # NoRow /\ crept' = crept
        BY <1>4, <1>5, <2>2, <3>2
      <4>2. info = con
        BY <1>1, <2>2 DEF IInv, Unmoved
      <4>3. con.marker = 0 => BUFFER_LINE_COUNT <= con.top + MAX_CONSOLE_HEIGHT + crept
        BY <2>2, <4>1 DEF IInv, NotTorn
      <4>4. con.top - SYNC_MARKER_LEN - SYNC_MARKER_MARGIN < con.marker + SYNC_MARKER_LEN + SYNC_MARKER_MARGIN
        BY <1>3, <3>2, <4>1, <4>2, Limits DEF create, newRow
      <4>5. con.marker # 0
        BY <1>2, <1>3, <2>2, <4>1, <4>3, <4>4, Limits
      <4> QED
        BY <1>3, <4>1, <4>5 DEF NoRow
    <3> QED
      BY <3>1, <3>2
  <2> QED
    BY <1>1, <2>1, <2>2 DEF Kept, Resizing
<1> QED
  BY <1>9, <1>10, <1>11, <1>12, <1>13 DEF IInv

\* The console is let go.
LEMMA DoneKeeps ==
  ASSUME IInv, Done
  PROVE  IInv'
<1>1. /\ kind' = kind /\ con' = con /\ isNewW10' = isNewW10 /\ directMode' = directMode /\ ptySize' = ptySize
      /\ syncRow' = syncRow /\ dirtyWindowTop' = dirtyWindowTop /\ dirtyLineCount' = dirtyLineCount
      /\ info' = Kind.start /\ job' = NoJob /\ crept' = crept /\ interfered' = FALSE /\ torn' = torn
      /\ pc = "done" /\ pc' = "idle" /\ frozen' = FALSE /\ forced' = FALSE
  BY DEF Done, scraperVars
<1>2. Fits(Kind.start)
  <2>1. ConsoleFits(Kind)
    BY ResizeAssumption DEF IInv, Typed, Kind
  <2> QED
    BY <2>1, Limits DEF ConsoleFits, Fits, ConsoleState, Positive, NoRow
<1>3. Typed'
  BY <1>1, <1>2 DEF IInv, Typed, NoJob
<1>4. Small' /\ Held' /\ Unmoved'
  BY <1>1 DEF IInv, Small, Held, Unmoved, Started, Resizing
<1>5. Detected' /\ JobRight' /\ Kept' /\ SizeHonoured' /\ DirtyLinesVisible'
  BY <1>1 DEF IInv, Detected, JobRight, Kept, SizeHonoured, DirtyLinesVisible, Started, Resizing, Kind
<1>6. NotTorn'
  BY <1>1 DEF IInv, NotTorn, Resizing
<1> QED
  BY <1>3, <1>4, <1>5, <1>6 DEF IInv

-----------------------------------------------------------------------------
(* The resize                                                               *)

\* The lines the window and the marker take fit the buffer with the largest window.
LEMMA MarkerLimitIs ==
  ASSUME IInv, Started
  PROVE  /\ ptySize.rows \in Nat /\ 1 <= ptySize.rows /\ ptySize.rows <= MAX_CONSOLE_HEIGHT
         /\ ptySize.cols \in Nat /\ 1 <= ptySize.cols
         /\ MarkerLimit \in Nat /\ 1 <= MarkerLimit
         /\ MarkerLimit + SYNC_MARKER_LEN + SYNC_MARKER_MARGIN + ptySize.rows = BUFFER_LINE_COUNT
<1>1. ptySize.rows \in Nat /\ 1 <= ptySize.rows /\ ptySize.cols \in Nat /\ 1 <= ptySize.cols
  BY DEF IInv, Typed, Positive
<1>2. ptySize.rows <= MAX_CONSOLE_HEIGHT
  BY DEF IInv, Small
<1> QED
  BY <1>1, <1>2, Limits DEF MarkerLimit

\* The marker goes up with the lines that are cleared, and never to row 0.
LEMMA ClearAboveKeeps ==
  ASSUME IInv, ClearAbove
  PROVE  IInv'
<1> DEFINE row == MinInt(syncRow, MarkerLimit)
<1>1. /\ kind' = kind /\ isNewW10' = isNewW10 /\ directMode' = directMode /\ ptySize' = ptySize
      /\ dirtyWindowTop' = dirtyWindowTop /\ dirtyLineCount' = dirtyLineCount
      /\ info' = info /\ crept' = crept /\ interfered' = interfered /\ torn' = torn
      /\ pc = "clear" /\ pc' = "font" /\ frozen' = FALSE /\ forced' = forced
      /\ job' = [bufX |-> ptySize.cols,
                 bufY |-> IF info.h = info.bufY THEN ptySize.rows ELSE MaxInt(ptySize.rows, info.bufY),
                 cols |-> 0, rows |-> 0]
      /\ NewDirectMode' = NewDirectMode /\ MarkerLimit' = MarkerLimit
  BY DEF ClearAbove, historyVars, NewDirectMode, MarkerLimit
<1>2. /\ Typed /\ Fits(con) /\ Fits(info) /\ crept \in Nat /\ syncRow \in NoRow..BUFFER_LINE_COUNT
      /\ Started /\ forced /\ directMode = NewDirectMode
  BY <1>1 DEF IInv, Typed, Started, Held
<1>3. /\ con.top \in Nat /\ con.marker \in Int /\ con.marker \in NoRow..BUFFER_LINE_COUNT /\ info.bufY \in Nat /\ info.h \in Nat
  BY <1>2, FitsIs DEF NoRow
<1>4. MarkerLimit \in Nat /\ 1 <= MarkerLimit
  BY <1>2, MarkerLimitIs
<1>5. syncRow # NoRow => /\ row \in 0..BUFFER_LINE_COUNT /\ row <= syncRow /\ row <= MarkerLimit
                         /\ (row = 0 => syncRow = 0) /\ (1 <= syncRow => 1 <= row)
  BY <1>2, <1>4, MinIntIs, Limits DEF NoRow
<1>6. PICK marker \in NoRow..BUFFER_LINE_COUNT :
        /\ con' = [con EXCEPT !.marker = marker]
        /\ directMode => marker = con.marker /\ syncRow' = syncRow
        /\ ~directMode /\ syncRow = NoRow => marker = NoRow /\ syncRow' = syncRow
        /\ ~directMode /\ syncRow # NoRow => marker = row /\ syncRow' = row
  <2>1. CASE directMode
    BY <1>3, <2>1 DEF ClearAbove
  <2>2. CASE ~directMode /\ syncRow = NoRow
    BY <1>2, <2>2 DEF ClearAbove
  <2>3. CASE ~directMode /\ syncRow # NoRow
    <3>1. row \in NoRow..BUFFER_LINE_COUNT
      BY <1>5, <2>3, Limits DEF NoRow
    <3>2. con' = [con EXCEPT !.marker = row] /\ syncRow' = row
      BY <2>3 DEF ClearAbove
    <3> HIDE DEF row
    <3> QED
      BY <2>3, <3>1, <3>2
  <2> QED
    BY <2>1, <2>2, <2>3
<1> HIDE DEF row
<1>7. /\ Fits(con') /\ con'.bufX = con.bufX /\ con'.bufY = con.bufY /\ con'.top = con.top /\ con'.w = con.w
      /\ con'.h = con.h /\ con'.cur = con.cur /\ con'.font = con.font /\ con'.marker = marker
  BY <1>2, <1>6, MarkerKeeps
<1>8. /\ job'.bufX = ptySize.cols /\ job'.bufY \in Nat /\ ptySize.rows <= job'.bufY
      /\ ~directMode => job'.bufY = BUFFER_LINE_COUNT
      /\ job' \in [bufX : Nat, bufY : Nat, cols : Nat, rows : Nat]
  <2>1. info.h <= MAX_CONSOLE_HEIGHT
    BY <1>1 DEF IInv, Small
  <2>2. ~directMode => info.bufY = BUFFER_LINE_COUNT
    BY <1>2 DEF NewDirectMode
  <2> DEFINE y == IF info.h = info.bufY THEN ptySize.rows ELSE MaxInt(ptySize.rows, info.bufY)
  <2>3. y \in Nat /\ ptySize.rows <= y /\ (~directMode => y = BUFFER_LINE_COUNT)
    BY <1>2, <1>3, <2>1, <2>2, MarkerLimitIs, MaxIntIs, Limits
  <2> HIDE DEF y
  <2>4. job' = [bufX |-> ptySize.cols, bufY |-> y, cols |-> 0, rows |-> 0]
    BY <1>1 DEF y
  <2> QED
    BY <1>2, <2>3, <2>4, MarkerLimitIs
<1>9. Typed'
  <2>1. syncRow' \in NoRow..BUFFER_LINE_COUNT
    BY <1>2, <1>5, <1>6, Limits DEF NoRow
  <2> QED
    BY <1>1, <1>2, <1>7, <1>8, <2>1 DEF Typed
<1>10. Small' /\ Held' /\ Unmoved'
  BY <1>1, <1>7 DEF IInv, Small, Held, Unmoved, Started, Resizing
<1>11. JobRight'
  BY <1>1, <1>8 DEF JobRight
<1>12. Detected' /\ SizeHonoured' /\ DirtyLinesVisible'
  BY <1>1 DEF IInv, Detected, SizeHonoured, DirtyLinesVisible, Started, Kind
<1>13. NotTorn'
  <2> SUFFICES ASSUME ~torn PROVE NotTorn'
    BY <1>1 DEF NotTorn
  <2>1. directMode => con'.marker = NoRow
    BY <1>6, <1>7 DEF IInv, NotTorn
  <2>2. ASSUME con'.marker # NoRow
        PROVE  /\ con'.bufY = BUFFER_LINE_COUNT
               /\ con'.marker + SYNC_MARKER_LEN + SYNC_MARKER_MARGIN <= con'.top + crept
               /\ con'.marker = 0 => BUFFER_LINE_COUNT <= con'.top + MAX_CONSOLE_HEIGHT + crept
               /\ con'.marker <= MarkerLimit
    <3>1. ~directMode /\ syncRow # NoRow /\ con'.marker = row
      BY <1>6, <1>7, <2>1, <2>2
    <3>2. con.marker = syncRow
      BY <1>1, <3>1 DEF IInv, Kept
    <3>3. /\ con.bufY = BUFFER_LINE_COUNT
          /\ con.marker + SYNC_MARKER_LEN + SYNC_MARKER_MARGIN <= con.top + crept
          /\ con.marker = 0 => BUFFER_LINE_COUNT <= con.top + MAX_CONSOLE_HEIGHT + crept
      BY <3>1, <3>2 DEF IInv, NotTorn
    <3> QED
      BY <1>2, <1>3, <1>4, <1>5, <1>7, <3>1, <3>2, <3>3, Limits
  <2> QED
    BY <1>1, <2>1, <2>2 DEF NotTorn
<1>14. Kept'
  <2>1. ASSUME ~directMode, ~interfered, ~torn, crept <= SYNC_MARKER_MARGIN, syncRow' # NoRow
        PROVE  con'.marker = syncRow' /\ 1 <= syncRow'
    <3>1. syncRow # NoRow /\ syncRow' = row /\ con'.marker = row
      BY <1>6, <1>7, <2>1
    <3>2. 1 <= syncRow
      BY <1>1, <2>1, <3>1 DEF IInv, Kept
    <3> QED
      BY <1>5, <3>1, <3>2
  <2> QED
    BY <1>1, <2>1 DEF Kept
<1> QED
  BY <1>9, <1>10, <1>11, <1>12, <1>13, <1>14 DEF IInv

\* What of the size fits the desktop is counted in cells of the new font.
LEMMA SetFontKeeps ==
  ASSUME IInv, SetFont
  PROVE  IInv'
<1>1. /\ kind' = kind /\ isNewW10' = isNewW10 /\ directMode' = directMode /\ ptySize' = ptySize
      /\ syncRow' = syncRow /\ dirtyWindowTop' = dirtyWindowTop /\ dirtyLineCount' = dirtyLineCount
      /\ info' = info /\ crept' = crept /\ interfered' = interfered /\ torn' = torn
      /\ pc = "font" /\ pc' = "shrink" /\ frozen' = frozen /\ forced' = forced
      /\ job' = [job EXCEPT !.cols = MinInt(ptySize.cols, Largest(con').x),
                            !.rows = MinInt(ptySize.rows, Largest(con').y)]
      /\ con' \in SmallFonts(con, ptySize.cols, isNewW10)
      /\ NewDirectMode' = NewDirectMode /\ MarkerLimit' = MarkerLimit
  BY DEF SetFont, scraperVars, historyVars, NewDirectMode, MarkerLimit
<1>2. /\ Typed /\ Fits(con) /\ kind \in DOMAIN Consoles /\ Started
      /\ job \in [bufX : Nat, bufY : Nat, cols : Nat, rows : Nat]
  BY <1>1 DEF IInv, Typed, Started
<1>3. ptySize.cols \in Positive /\ ptySize.rows \in Positive /\ ptySize.cols \in Nat
  BY <1>2 DEF Typed, Positive
<1>4. /\ Fits(con') /\ con'.bufY = con.bufY /\ con'.top = con.top /\ con'.h = con.h /\ con'.cur = con.cur
      /\ con'.marker = con.marker /\ MinPixels <= con'.bufX * con'.font
  BY <1>1, <1>2, <1>3, FontKeeps
<1>5. /\ job'.bufX = job.bufX /\ job'.bufY = job.bufY
      /\ job'.cols = MinInt(ptySize.cols, Largest(con').x) /\ job'.rows = MinInt(ptySize.rows, Largest(con').y)
      /\ job' \in [bufX : Nat, bufY : Nat, cols : Nat, rows : Nat]
  <2> DEFINE x == MinInt(ptySize.cols, Largest(con').x)
             y == MinInt(ptySize.rows, Largest(con').y)
  <2>1. x \in Nat /\ y \in Nat
    BY <1>3, <1>4, VisibleIs DEF Positive
  <2>2. job' = [job EXCEPT !.cols = x, !.rows = y]
    BY <1>1
  <2> HIDE DEF x, y
  <2>3. job'.bufX = job.bufX /\ job'.bufY = job.bufY /\ job'.cols = x /\ job'.rows = y
        /\ job' \in [bufX : Nat, bufY : Nat, cols : Nat, rows : Nat]
    BY <1>2, <2>1, <2>2
  <2> QED
    BY <2>3 DEF x, y
<1>6. Typed'
  BY <1>1, <1>2, <1>4, <1>5 DEF Typed
<1>7. Small' /\ Held' /\ Unmoved'
  BY <1>1, <1>4 DEF IInv, Small, Held, Unmoved, Started, Resizing
<1>8. JobRight'
  BY <1>1, <1>5 DEF IInv, JobRight, Resizing
<1>9. Detected' /\ SizeHonoured' /\ DirtyLinesVisible'
  BY <1>1 DEF IInv, Detected, SizeHonoured, DirtyLinesVisible, Started, Kind
<1>10. NotTorn' /\ Kept'
  BY <1>1, <1>4 DEF IInv, NotTorn, Kept, Resizing
<1> QED
  BY <1>6, <1>7, <1>8, <1>9, <1>10 DEF IInv

\* The sizes in numbers.
LEMMA JobIs ==
  ASSUME IInv, pc \in Resizing \ {"font"}
  PROVE  /\ job.bufX \in Nat /\ job.bufY \in Nat /\ job.cols \in Nat /\ job.rows \in Nat
         /\ 1 <= job.cols /\ 1 <= job.rows /\ job.cols \in Positive /\ job.rows \in Positive
         /\ job.cols <= ptySize.cols /\ job.rows <= ptySize.rows /\ job.bufX = ptySize.cols
         /\ ptySize.rows <= job.bufY /\ job.cols <= Largest(con).x /\ job.rows <= Largest(con).y
         /\ Largest(con).x \in Nat /\ Largest(con).y \in Nat
         /\ job.cols = MinInt(ptySize.cols, Largest(con).x) /\ job.rows = MinInt(ptySize.rows, Largest(con).y)
         /\ ~directMode => job.bufY = BUFFER_LINE_COUNT
<1>1. Fits(con) /\ ptySize.cols \in Positive /\ ptySize.rows \in Positive
      /\ job \in [bufX : Nat, bufY : Nat, cols : Nat, rows : Nat]
  BY DEF IInv, Typed
<1>2. /\ job.cols = MinInt(ptySize.cols, Largest(con).x) /\ job.rows = MinInt(ptySize.rows, Largest(con).y)
      /\ job.bufX = ptySize.cols /\ ptySize.rows <= job.bufY
      /\ ~directMode => job.bufY = BUFFER_LINE_COUNT
  BY DEF IInv, JobRight
<1>3. job.cols \in Positive /\ job.rows \in Positive /\ job.cols <= ptySize.cols /\ job.rows <= ptySize.rows
      /\ job.cols <= Largest(con).x /\ job.rows <= Largest(con).y
  BY <1>1, <1>2, VisibleIs
<1>4. Largest(con).x \in Nat /\ Largest(con).y \in Nat
  BY <1>1, LargestIs
<1> QED
  BY <1>1, <1>2, <1>3, <1>4 DEF Positive

\* A window that goes down no further than its place at the bottom of the buffer is below
\* the marker.
LEMMA MarkerStaysAbove ==
  ASSUME IInv, pc \in Resizing, ~torn, con.marker # NoRow,
         NEW height \in Nat, height <= ptySize.rows,
         NEW top \in Int, MinInt(con.bufY - height, con.top) <= top
  PROVE  /\ con.marker + SYNC_MARKER_LEN + SYNC_MARKER_MARGIN <= top + crept
         /\ con.marker = 0 => BUFFER_LINE_COUNT <= top + MAX_CONSOLE_HEIGHT + crept
<1>1. Fits(con) /\ crept \in Nat /\ Started
  BY DEF IInv, Typed, Started, Resizing
<1>2. con.top \in Nat /\ con.bufY \in Nat /\ con.marker \in Int
  BY <1>1, FitsIs
<1>3. /\ con.bufY = BUFFER_LINE_COUNT /\ con.marker <= MarkerLimit
      /\ con.marker + SYNC_MARKER_LEN + SYNC_MARKER_MARGIN <= con.top + crept
      /\ con.marker = 0 => BUFFER_LINE_COUNT <= con.top + MAX_CONSOLE_HEIGHT + crept
  BY DEF IInv, NotTorn
<1>4. /\ ptySize.rows \in Nat /\ ptySize.rows <= MAX_CONSOLE_HEIGHT /\ MarkerLimit \in Nat
      /\ MarkerLimit + SYNC_MARKER_LEN + SYNC_MARKER_MARGIN + ptySize.rows = BUFFER_LINE_COUNT
  BY <1>1, MarkerLimitIs
<1>5. top >= con.top \/ top >= con.bufY - height
  BY <1>2, MinIntIs
<1> QED
  BY <1>1, <1>2, <1>3, <1>4, <1>5, Limits

\* The cursor's line is included, and the window stays in the buffer.
LEMMA LineIsIncluded ==
  ASSUME NEW top \in Int, NEW height \in Nat, NEW line \in Int, 1 <= height
  PROVE  /\ EnsureLineIncluded(top, height, line) \in Int /\ EnsureLineIncluded(top, height, line) <= line
         /\ line < EnsureLineIncluded(top, height, line) + height
         /\ \/ EnsureLineIncluded(top, height, line) = line /\ line < top
            \/ EnsureLineIncluded(top, height, line) = top
            \/ EnsureLineIncluded(top, height, line) = line - height + 1 /\ top <= line - height + 1
BY DEF EnsureLineIncluded

\* The window is made as small as both sizes ask for: the console accepts that.
LEMMA ShrinkWindowKeeps ==
  ASSUME IInv, ShrinkWindow
  PROVE  IInv'
<1> DEFINE width == MinInt(con.bufX, job.cols)
           height == MinInt(con.bufY, job.rows)
           low == MinInt(con.bufY - height, con.top)
           top == IF CursorInWindow(con) THEN EnsureLineIncluded(low, height, con.cur) ELSE low
<1>1. /\ kind' = kind /\ isNewW10' = isNewW10 /\ directMode' = directMode /\ ptySize' = ptySize
      /\ syncRow' = syncRow /\ dirtyWindowTop' = dirtyWindowTop /\ dirtyLineCount' = dirtyLineCount
      /\ info' = info /\ crept' = crept /\ interfered' = interfered /\ torn' = torn
      /\ pc = "shrink" /\ pc' = "buffer" /\ frozen' = FALSE /\ forced' = forced /\ job' = job
      /\ IsMoved(con, con', top, width, height)
      /\ NewDirectMode' = NewDirectMode /\ MarkerLimit' = MarkerLimit
  BY DEF ShrinkWindow, scraperVars, historyVars, NewDirectMode, MarkerLimit, IsMoved
<1>2. Typed /\ Fits(con) /\ Started /\ pc \in Resizing \ {"font"}
  BY <1>1 DEF IInv, Typed, Started, Resizing
<1>3. /\ con.bufX \in Nat /\ con.bufY \in Nat /\ con.top \in Nat /\ con.cur \in Nat /\ con.h \in Nat /\ con.w \in Nat
      /\ 1 <= con.w /\ 1 <= con.h /\ con.w <= con.bufX /\ con.top + con.h <= con.bufY /\ con.cur < con.bufY
  BY <1>2, FitsIs
<1>4. /\ width \in Positive /\ height \in Positive /\ width <= con.bufX /\ height <= con.bufY
      /\ width <= job.cols /\ height <= job.rows
      /\ width \in Nat /\ height \in Nat /\ 1 <= height
  BY <1>2, <1>3, JobIs, MinIntIs DEF Positive
<1>5. height <= ptySize.rows /\ width <= Largest(con).x /\ height <= Largest(con).y
  BY <1>2, <1>4, JobIs, MarkerLimitIs
<1> HIDE DEF width, height
<1>6. low \in Nat /\ low <= con.top /\ low + height <= con.bufY /\ low = MinInt(con.bufY - height, con.top)
  BY <1>3, <1>4, MinIntIs
<1> HIDE DEF low
<1>7. top \in Int /\ low <= top /\ 0 <= top /\ top + height <= con.bufY
  <2>1. CASE CursorInWindow(con)
    <3>1. con.top <= con.cur
      BY <1>3, <2>1 DEF CursorInWindow
    <3>2. top = EnsureLineIncluded(low, height, con.cur)
      BY <2>1
    <3> HIDE DEF top
    <3>3. con.cur \in Int /\ low \in Int
      BY <1>3, <1>6
    <3>4. /\ top \in Int
          /\ (top = con.cur /\ con.cur < low) \/ top = low \/ (top = con.cur - height + 1 /\ low <= top)
      BY <1>4, <3>2, <3>3, LineIsIncluded
    <3> QED
      BY <1>3, <1>4, <1>6, <3>1, <3>4
  <2>2. CASE ~CursorInWindow(con)
    BY <1>6, <2>2
  <2> QED
    BY <2>1, <2>2
<1> HIDE DEF top
<1>8. /\ Fits(con') /\ con'.bufX = con.bufX /\ con'.bufY = con.bufY /\ con'.cur = con.cur /\ con'.font = con.font
      /\ con'.marker = con.marker /\ con'.top = top /\ con'.w = width /\ con'.h = height
  BY <1>1, <1>2, <1>4, <1>5, <1>7, MoveKeeps
<1>9. Typed'
  BY <1>1, <1>2, <1>8 DEF Typed
<1>10. Small' /\ Held' /\ Unmoved'
  <2>1. con'.h <= MAX_CONSOLE_HEIGHT
    BY <1>2, <1>4, <1>5, <1>8, MarkerLimitIs, Limits
  <2> QED
    BY <1>1, <1>8, <2>1 DEF IInv, Small, Held, Unmoved, Started, Resizing
<1>11. JobRight'
  <2>1. Largest(con') = Largest(con)
    BY <1>8 DEF Largest
  <2> QED
    BY <1>1, <1>4, <1>8, <2>1 DEF IInv, JobRight, Resizing
<1>12. Detected' /\ SizeHonoured' /\ DirtyLinesVisible'
  BY <1>1 DEF IInv, Detected, SizeHonoured, DirtyLinesVisible, Started, Kind
<1>13. NotTorn'
  <2> SUFFICES ASSUME ~torn PROVE NotTorn'
    BY <1>1 DEF NotTorn
  <2>1. con.marker # NoRow => /\ con.marker + SYNC_MARKER_LEN + SYNC_MARKER_MARGIN <= top + crept
                              /\ con.marker = 0 => BUFFER_LINE_COUNT <= top + MAX_CONSOLE_HEIGHT + crept
    BY <1>2, <1>4, <1>5, <1>6, <1>7, MarkerStaysAbove
  <2> QED
    BY <1>1, <1>8, <2>1 DEF IInv, NotTorn, Resizing
<1>14. Kept'
  BY <1>1, <1>8 DEF IInv, Kept, Resizing
<1> QED
  BY <1>9, <1>10, <1>11, <1>12, <1>13, <1>14 DEF IInv

\* The buffer gets its size, or there is no width it can have.
LEMMA ResizeBufferKeeps ==
  ASSUME IInv, ResizeBuffer
  PROVE  IInv'
<1>1. /\ kind' = kind /\ isNewW10' = isNewW10 /\ directMode' = directMode /\ ptySize' = ptySize
      /\ syncRow' = syncRow /\ dirtyWindowTop' = dirtyWindowTop /\ dirtyLineCount' = dirtyLineCount
      /\ info' = info /\ crept' = crept + MaxInt(0, con.top - con'.top) /\ interfered' = interfered /\ torn' = torn
      /\ pc = "buffer" /\ pc' = "expand" /\ frozen' = frozen /\ forced' = forced /\ job' = job
      /\ con' \in resizeBufferRange(con, job.bufX, job.bufY)
      /\ NewDirectMode' = NewDirectMode /\ MarkerLimit' = MarkerLimit
  BY DEF ResizeBuffer, scraperVars, NewDirectMode, MarkerLimit
<1>2. Typed /\ Fits(con) /\ Started /\ pc \in Resizing \ {"font"} /\ pc \in Resizing /\ crept \in Nat
  BY <1>1 DEF IInv, Typed, Started, Resizing
<1>3. /\ job.bufX = ptySize.cols /\ job.bufX \in Positive /\ job.bufY \in Nat /\ ptySize.cols \in Nat
      /\ job.cols \in Nat /\ job.cols <= ptySize.cols /\ job.rows \in Nat /\ job.rows <= job.bufY
      /\ ~directMode => job.bufY = BUFFER_LINE_COUNT
  BY <1>2, JobIs, MarkerLimitIs DEF Positive
<1>4. con.w <= job.cols /\ con.h <= job.rows
  BY <1>1 DEF IInv, JobRight
<1>5. /\ con.bufX \in Nat /\ con.top \in Nat /\ con.w \in Nat /\ con.h \in Nat /\ con.font \in 1..MinPixels
      /\ con.marker \in Int /\ con.marker \in NoRow..BUFFER_LINE_COUNT
  BY <1>2, FitsIs DEF NoRow
<1>6. /\ Fits(con') /\ con'.h = con.h /\ con'.w = con.w /\ con'.font = con.font
      /\ \/ con' = con /\ MaxInt(20, job.bufX) * con.font < MinPixels
         \/ /\ job.bufX <= con'.bufX /\ con'.bufY = job.bufY /\ MinPixels <= con'.bufX * con'.font
            /\ con'.marker = IF con.marker + SYNC_MARKER_LEN <= job.bufY THEN con.marker ELSE NoRow
  <2>1. con.w <= job.bufX /\ con.h <= job.bufY
    BY <1>3, <1>4, <1>5
  <2> QED
    BY <1>1, <1>2, <1>3, <2>1, RangeKeeps
<1>7. con'.top \in Nat
  BY <1>6, FitsIs
<1>8. crept' \in Nat /\ crept <= crept' /\ con.top + crept <= con'.top + crept'
  BY <1>1, <1>2, <1>5, <1>7, MaxIntIs
<1>9. MinPixels <= con.bufX * con.font
  BY <1>2 DEF IInv, Small
<1>10. job.cols <= con'.bufX
  <2>1. CASE con' = con /\ MaxInt(20, job.bufX) * con.font < MinPixels
    <3>1. MaxInt(20, job.bufX) \in Nat /\ job.bufX <= MaxInt(20, job.bufX)
      BY <1>3, MaxIntIs
    <3>2. ~(con.bufX <= MaxInt(20, job.bufX))
      <4> SUFFICES ASSUME con.bufX <= MaxInt(20, job.bufX) PROVE FALSE
        OBVIOUS
      <4>1. con.bufX * con.font <= MaxInt(20, job.bufX) * con.font /\ con.bufX * con.font \in Nat
            /\ MaxInt(20, job.bufX) * con.font \in Nat
        BY <1>5, <3>1, Wider
      <4> QED
        BY <1>9, <2>1, <4>1 DEF MinPixels
    <3> QED
      BY <1>3, <1>5, <2>1, <3>1, <3>2
  <2>2. CASE job.bufX <= con'.bufX
    BY <1>3, <1>6, <2>2, FitsIs
  <2> QED
    BY <1>6, <2>1, <2>2
<1>11. ~interfered =>
         /\ MinPixels <= MaxInt(20, ptySize.cols) * con'.font => con'.bufY = job.bufY
         /\ ~directMode => con'.bufY = BUFFER_LINE_COUNT
  <2>1. ~interfered /\ ~directMode => con.bufY = BUFFER_LINE_COUNT
    BY <1>1, <1>2 DEF IInv, Unmoved, Held, NewDirectMode
  <2>2. MaxInt(20, ptySize.cols) * con.font \in Nat
    BY <1>3, <1>5, MaxIntIs, Wider
  <2> QED
    BY <1>3, <1>6, <2>1, <2>2 DEF MinPixels
<1>12. Typed'
  BY <1>1, <1>2, <1>6, <1>8 DEF Typed
<1>13. Small' /\ Held' /\ Unmoved'
  <2>1. MinPixels <= con'.bufX * con'.font
    BY <1>6, <1>9
  <2> QED
    BY <1>1, <1>6, <2>1 DEF IInv, Small, Held, Unmoved, Started, Resizing
<1>14. JobRight'
  <2>1. Largest(con') = Largest(con)
    BY <1>6 DEF Largest
  <2> QED
    BY <1>1, <1>6, <1>10, <1>11, <2>1 DEF IInv, JobRight, Resizing
<1>15. Detected' /\ SizeHonoured' /\ DirtyLinesVisible'
  BY <1>1 DEF IInv, Detected, SizeHonoured, DirtyLinesVisible, Started, Kind
<1>16. NotTorn'
  <2> SUFFICES ASSUME ~torn PROVE NotTorn'
    BY <1>1 DEF NotTorn
  <2>1. directMode => con'.marker = NoRow
    <3>1. directMode => con.marker = NoRow
      BY DEF IInv, NotTorn
    <3> QED
      BY <1>6, <3>1
  <2>2. ASSUME con'.marker # NoRow
        PROVE  /\ con'.bufY = BUFFER_LINE_COUNT
               /\ con'.marker + SYNC_MARKER_LEN + SYNC_MARKER_MARGIN <= con'.top + crept'
               /\ con'.marker = 0 => BUFFER_LINE_COUNT <= con'.top + MAX_CONSOLE_HEIGHT + crept'
               /\ con'.marker <= MarkerLimit
    <3>1. con'.marker = con.marker /\ con.marker # NoRow /\ ~directMode
      BY <1>6, <2>1, <2>2
    <3>2. /\ con.bufY = BUFFER_LINE_COUNT /\ con.marker <= MarkerLimit
          /\ con.marker + SYNC_MARKER_LEN + SYNC_MARKER_MARGIN <= con.top + crept
          /\ con.marker = 0 => BUFFER_LINE_COUNT <= con.top + MAX_CONSOLE_HEIGHT + crept
      BY <1>2, <3>1 DEF IInv, NotTorn
    <3>3. con'.bufY = BUFFER_LINE_COUNT
      BY <1>3, <1>6, <3>1, <3>2
    <3> QED
      BY <1>2, <1>5, <1>7, <1>8, <3>1, <3>2, <3>3, Limits
  <2> QED
    BY <1>1, <2>1, <2>2 DEF NotTorn
<1>17. Kept'
  <2>1. ASSUME ~directMode, ~interfered, ~torn, crept' <= SYNC_MARKER_MARGIN, syncRow # NoRow
        PROVE  con'.marker = syncRow /\ 1 <= syncRow
    <3>1. crept <= SYNC_MARKER_MARGIN
      BY <1>2, <1>8, <2>1, Limits
    <3>2. con.marker = syncRow /\ 1 <= syncRow
      BY <1>2, <2>1, <3>1 DEF IInv, Kept
    <3>3. con.marker <= MarkerLimit
      BY <1>2, <2>1, <3>2 DEF IInv, NotTorn
    <3>4. con.marker + SYNC_MARKER_LEN <= BUFFER_LINE_COUNT
      BY <1>2, <1>5, <3>3, MarkerLimitIs, Limits
    <3>5. con'.marker = con.marker
      BY <1>3, <1>6, <2>1, <3>4
    <3> QED
      BY <3>2, <3>5
  <2> QED
    BY <1>1, <2>1 DEF Kept
<1> QED
  BY <1>12, <1>13, <1>14, <1>15, <1>16, <1>17 DEF IInv

\* Where the window's full size puts it: no further up than it was, or than the bottom
\* of the buffer needs.
LEMMA FinalTopIs ==
  ASSUME IInv, pc = "expand"
  PROVE  /\ FinalTop \in Int /\ MinInt(con.bufY - job.rows, con.top) <= FinalTop
         /\ CursorInWindow(con) => FinalTop <= con.cur /\ con.cur < FinalTop + job.rows
         /\ job.rows <= con.bufY /\ (~directMode => con.bufY = BUFFER_LINE_COUNT) =>
              /\ 0 <= FinalTop /\ FinalTop + job.rows <= con.bufY
              /\ ~directMode => dirtyLineCount <= FinalTop + job.rows \/ con.cur = FinalTop
<1> DEFINE top == MinInt(con.bufY - job.rows, con.top)
           dirty == IF ~directMode /\ dirtyLineCount > top + job.rows THEN dirtyLineCount - job.rows
                    ELSE top
<1>1. Fits(con) /\ pc \in Resizing \ {"font"} /\ dirtyLineCount \in 0..BUFFER_LINE_COUNT
  BY DEF IInv, Typed, Resizing
<1>2. /\ con.bufY \in Nat /\ con.top \in Nat /\ con.cur \in Nat /\ con.h \in Nat /\ con.cur < con.bufY
      /\ con.top + con.h <= con.bufY
  BY <1>1, FitsIs
<1>3. job.rows \in Nat /\ 1 <= job.rows
  BY <1>1, JobIs
<1>4. /\ top \in Int /\ top <= con.top /\ top + job.rows <= con.bufY /\ (job.rows <= con.bufY => 0 <= top)
  BY <1>2, <1>3, MinIntIs
<1>5. /\ FinalTop = IF CursorInWindow(con) THEN EnsureLineIncluded(dirty, job.rows, con.cur) ELSE dirty
      /\ top = MinInt(con.bufY - job.rows, con.top)
  BY DEF FinalTop
<1> HIDE DEF top
<1>6. /\ dirty \in Int /\ top <= dirty /\ (~directMode => dirtyLineCount <= dirty + job.rows)
      /\ (~directMode => con.bufY = BUFFER_LINE_COUNT) => dirty + job.rows <= con.bufY
  BY <1>1, <1>3, <1>4, Limits
<1> HIDE DEF dirty
<1>7. CASE CursorInWindow(con)
  <2>1. con.top <= con.cur
    BY <1>2, <1>7 DEF CursorInWindow
  <2>2. /\ FinalTop \in Int /\ FinalTop <= con.cur /\ con.cur < FinalTop + job.rows
        /\ \/ FinalTop = con.cur /\ con.cur < dirty
           \/ FinalTop = dirty
           \/ FinalTop = con.cur - job.rows + 1 /\ dirty <= FinalTop
    <3>1. FinalTop = EnsureLineIncluded(dirty, job.rows, con.cur) /\ con.cur \in Int
      BY <1>2, <1>5, <1>7
    <3> QED
      BY <1>3, <1>6, <3>1, LineIsIncluded
  <2> QED
    BY <1>1, <1>2, <1>3, <1>4, <1>5, <1>6, <2>1, <2>2, Limits
<1>8. CASE ~CursorInWindow(con)
  BY <1>1, <1>2, <1>3, <1>4, <1>5, <1>6, <1>8, Limits
<1> QED
  BY <1>7, <1>8

\* The window gets its size if the buffer has got its own.
LEMMA ExpandWindowMoves ==
  ASSUME IInv, ExpandWindow
  PROVE  /\ Fits(con') /\ con'.bufX = con.bufX /\ con'.bufY = con.bufY /\ con'.cur = con.cur /\ con'.font = con.font
         /\ con'.marker = con.marker
         /\ \/ con'.top = FinalTop /\ con'.w = job.cols /\ con'.h = job.rows
            \/ con'.top = con.top /\ con'.w = con.w /\ con'.h = con.h
         /\ job.rows <= con.bufY /\ (~directMode => con.bufY = BUFFER_LINE_COUNT) =>
              con'.top = FinalTop /\ con'.w = job.cols /\ con'.h = job.rows
<1>1. IsMoved(con, con', FinalTop, job.cols, job.rows) /\ pc = "expand" /\ Fits(con) /\ pc \in Resizing \ {"font"}
  BY DEF ExpandWindow, IsMoved, IInv, Typed, Resizing
<1>2. job.cols <= con.bufX
  BY <1>1 DEF IInv, JobRight
<1>3. /\ job.cols \in Positive /\ job.rows \in Positive /\ job.cols <= Largest(con).x /\ job.rows <= Largest(con).y
  BY <1>1, JobIs
<1>4. FinalTop \in Int
  BY <1>1, FinalTopIs
<1>5. job.rows <= con.bufY /\ (~directMode => con.bufY = BUFFER_LINE_COUNT) =>
        0 <= FinalTop /\ FinalTop + job.rows <= con.bufY
  BY <1>1, FinalTopIs
<1> QED
  BY <1>1, <1>2, <1>3, <1>4, <1>5, MoveKeeps

\* The resize ends with the size, the dirty lines and the marker where they must be.
LEMMA ExpandWindowKeeps ==
  ASSUME IInv, ExpandWindow
  PROVE  IInv'
<1>1. /\ kind' = kind /\ isNewW10' = isNewW10 /\ directMode' = directMode /\ ptySize' = ptySize
      /\ syncRow' = syncRow /\ dirtyWindowTop' = FinalTop /\ dirtyLineCount' = dirtyLineCount
      /\ info' = info /\ crept' = crept /\ interfered' = interfered /\ torn' = torn
      /\ pc = "expand" /\ pc' = "done" /\ frozen' = TRUE /\ forced' = forced /\ job' = job
  BY DEF ExpandWindow, historyVars
<1>2. Typed /\ Fits(con) /\ Started /\ pc \in Resizing \ {"font"} /\ pc \in Resizing
  BY <1>1 DEF IInv, Typed, Started, Resizing
<1>3. /\ Fits(con') /\ con'.bufX = con.bufX /\ con'.bufY = con.bufY /\ con'.cur = con.cur /\ con'.font = con.font
      /\ con'.marker = con.marker
      /\ \/ con'.top = FinalTop /\ con'.w = job.cols /\ con'.h = job.rows
         \/ con'.top = con.top /\ con'.w = con.w /\ con'.h = con.h
      /\ job.rows <= con.bufY /\ (~directMode => con.bufY = BUFFER_LINE_COUNT) =>
           con'.top = FinalTop /\ con'.w = job.cols /\ con'.h = job.rows
  BY ExpandWindowMoves
<1>4. FinalTop \in Int /\ MinInt(con.bufY - job.rows, con.top) <= FinalTop
  BY <1>1, FinalTopIs
<1>5. /\ job.rows \in Nat /\ job.rows <= ptySize.rows /\ ptySize.rows <= job.bufY /\ ptySize.rows \in Nat
      /\ ptySize.rows <= MAX_CONSOLE_HEIGHT /\ job.bufY \in Nat
      /\ job.cols = MinInt(ptySize.cols, Largest(con).x) /\ job.rows = MinInt(ptySize.rows, Largest(con).y)
      /\ ~directMode => job.bufY = BUFFER_LINE_COUNT
  BY <1>2, JobIs, MarkerLimitIs
<1>6. ~interfered => /\ MinPixels <= MaxInt(20, ptySize.cols) * con.font => con.bufY = job.bufY
                     /\ ~directMode => con.bufY = BUFFER_LINE_COUNT
  BY <1>1 DEF IInv, JobRight
<1>7. Largest(con') = Largest(con)
  BY <1>3 DEF Largest
<1>8. Typed'
  BY <1>1, <1>2, <1>3, <1>4 DEF Typed
<1>9. Small' /\ Held' /\ Unmoved' /\ JobRight'
  <2>1. con'.h <= MAX_CONSOLE_HEIGHT
    BY <1>2, <1>3, <1>5, Limits DEF IInv, Small
  <2> QED
    BY <1>1, <1>3, <2>1 DEF IInv, Small, Held, Unmoved, JobRight, Started, Resizing
<1>10. Detected'
  BY <1>1 DEF IInv, Detected, Started, Kind
<1>11. NotTorn'
  <2> SUFFICES ASSUME ~torn PROVE NotTorn'
    BY <1>1 DEF NotTorn
  <2>1. con.marker # NoRow => /\ con.marker + SYNC_MARKER_LEN + SYNC_MARKER_MARGIN <= FinalTop + crept
                              /\ con.marker = 0 => BUFFER_LINE_COUNT <= FinalTop + MAX_CONSOLE_HEIGHT + crept
    BY <1>2, <1>4, <1>5, MarkerStaysAbove
  <2>2. con.marker # NoRow => /\ con.bufY = BUFFER_LINE_COUNT
                              /\ con.marker + SYNC_MARKER_LEN + SYNC_MARKER_MARGIN <= con.top + crept
                              /\ con.marker = 0 => BUFFER_LINE_COUNT <= con.top + MAX_CONSOLE_HEIGHT + crept
    BY DEF IInv, NotTorn
  <2>3. directMode => con.marker = NoRow
    BY DEF IInv, NotTorn
  <2> QED
    BY <1>1, <1>3, <2>1, <2>2, <2>3 DEF NotTorn, Resizing
<1>12. Kept'
  BY <1>1, <1>3 DEF IInv, Kept, Resizing
<1>13. SizeHonoured'
  <2> SUFFICES ASSUME ~interfered, MinPixels <= MaxInt(20, ptySize.cols) * con.font
               PROVE  con'.w = MinInt(ptySize.cols, Largest(con').x) /\ con'.h = MinInt(ptySize.rows, Largest(con').y)
    <3>1. ptySize.cols \in Nat /\ con.font \in 1..MinPixels
      BY <1>2, MarkerLimitIs, FitsIs
    <3>2. MaxInt(20, ptySize.cols) * con.font \in Nat
      BY <3>1, MaxIntIs, Wider
    <3> QED
      BY <1>1, <1>3, <3>2 DEF SizeHonoured, MinPixels
  <2>1. con.bufY = job.bufY
    BY <1>6
  <2>2. job.rows <= con.bufY /\ (~directMode => con.bufY = BUFFER_LINE_COUNT)
    BY <1>5, <2>1
  <2> QED
    BY <1>3, <1>5, <1>7, <2>2
<1>14. DirtyLinesVisible'
  <2> SUFFICES ASSUME ~interfered, ~directMode
               PROVE  /\ dirtyLineCount <= con'.top + con'.h \/ con'.cur = con'.top
                      /\ FinalTop = con'.top
    BY <1>1 DEF DirtyLinesVisible
  <2>1. con.bufY = BUFFER_LINE_COUNT /\ job.rows <= con.bufY
    BY <1>5, <1>6, Limits
  <2>2. con'.top = FinalTop /\ con'.h = job.rows
    BY <1>3, <2>1
  <2>3. dirtyLineCount <= FinalTop + job.rows \/ con.cur = FinalTop
    BY <1>1, <2>1, FinalTopIs
  <2> QED
    BY <1>3, <2>2, <2>3
<1> QED
  BY <1>8, <1>9, <1>10, <1>11, <1>12, <1>13, <1>14 DEF IInv

-----------------------------------------------------------------------------
(* The theorems                                                             *)

\* Steps that change nothing.
LEMMA StutterKeeps ==
  ASSUME IInv, UNCHANGED vars
  PROVE  IInv'
<1>1. /\ kind' = kind /\ con' = con /\ isNewW10' = isNewW10 /\ directMode' = directMode /\ ptySize' = ptySize
      /\ syncRow' = syncRow /\ dirtyWindowTop' = dirtyWindowTop /\ dirtyLineCount' = dirtyLineCount
      /\ info' = info /\ job' = job /\ crept' = crept /\ interfered' = interfered /\ torn' = torn
      /\ pc' = pc /\ frozen' = frozen /\ forced' = forced
  BY DEF vars, scraperVars, historyVars
<1>2. Typed' /\ Small' /\ Detected' /\ Held'
  BY <1>1 DEF IInv, Typed, Small, Detected, Held, Started, Resizing, Kind, NewDirectMode
<1>3. Unmoved' /\ JobRight' /\ NotTorn' /\ Kept'
  BY <1>1 DEF IInv, Unmoved, JobRight, NotTorn, Kept, Resizing, NewDirectMode, MarkerLimit
<1>4. SizeHonoured' /\ DirtyLinesVisible'
  BY <1>1 DEF IInv, SizeHonoured, DirtyLinesVisible
<1> QED
  BY <1>2, <1>3, <1>4 DEF IInv

\* Every step keeps the invariant.
LEMMA StepsKeep ==
  ASSUME IInv, [Next]_vars
  PROVE  IInv'
<1>1. CASE Start
  BY <1>1, DetectKeeps, ConstructKeeps DEF Start
<1>2. CASE ScrapeBuffer \/ \E s \in Sizes : ResizeWindow(s)
  BY <1>2, BeginKeeps
<1>3. CASE Sync
  BY <1>3, ReadInfoKeeps, ChangeModeKeeps, SyncDirectKeeps, SyncScrollingKeeps, ClearAboveKeeps, SetFontKeeps,
     ShrinkWindowKeeps, ResizeBufferKeeps, ExpandWindowKeeps, DoneKeeps DEF Sync
<1>4. CASE ProgramStep
  BY <1>4, ProgramKeeps
<1>5. CASE UNCHANGED vars
  BY <1>5, StutterKeeps
<1> QED
  BY <1>1, <1>2, <1>3, <1>4, <1>5 DEF Next

\* The invariant holds whatever the sizes, the fonts and the programs.
THEOREM IInvHolds == Spec => []IInv
<1>1. Init => IInv
  BY StartsWell
<1>2. IInv /\ [Next]_vars => IInv'
  BY StepsKeep
<1> QED
  BY <1>1, <1>2, PTL DEF Spec

\* What the invariant says of the window.
LEMMA PlacedWell == IInv => WindowPlaced
<1> SUFFICES ASSUME IInv PROVE WindowPlaced
  OBVIOUS
<1>1. Typed /\ Fits(con)
  BY DEF IInv, Typed
<1>2. /\ con.top \in Nat /\ con.bufY \in Nat /\ con.h \in Nat /\ con.cur \in Nat /\ con.w \in Nat /\ con.bufX \in Nat
      /\ 1 <= con.w /\ con.w <= con.bufX /\ con.top + con.h <= con.bufY /\ con.cur < con.bufY
      /\ con.marker \in NoRow..BUFFER_LINE_COUNT
  BY <1>1, FitsIs DEF NoRow
<1>3. TypeOK
  <2>1. Started => ptySize.cols \in 1..MAX_CONSOLE_WIDTH /\ ptySize.rows \in 1..MAX_CONSOLE_HEIGHT
    BY <1>1, MarkerLimitIs, Limits DEF IInv, Small
  <2>2. con.top \in 0..(con.bufY - con.h) /\ con.cur \in 0..(con.bufY - 1) /\ con.w \in 1..con.bufX
    BY <1>2
  <2>3. {frozen, isNewW10, directMode, forced, interfered, torn} \subseteq BOOLEAN
    BY <1>1 DEF Typed
  <2> QED
    BY <1>1, <1>2, <2>1, <2>2, <2>3 DEF TypeOK, Typed, Started
<1>4. DetectionRight
  BY DEF IInv, Detected, DetectionRight
<1>5. MarkerAboveWindow
  <2> SUFFICES ASSUME pc = "done", ~directMode, syncRow # NoRow, ~interfered, ~torn, crept <= SYNC_MARKER_MARGIN
               PROVE  syncRow >= 1 /\ syncRow + SYNC_MARKER_LEN <= con.top
    BY DEF MarkerAboveWindow
  <2>1. con.marker = syncRow /\ 1 <= syncRow
    BY DEF IInv, Kept
  <2>2. con.marker + SYNC_MARKER_LEN + SYNC_MARKER_MARGIN <= con.top + crept
    BY <2>1 DEF IInv, NotTorn
  <2>3. syncRow \in Int /\ crept \in Nat
    BY <1>1, Limits DEF Typed, NoRow
  <2> QED
    BY <1>2, <2>1, <2>2, <2>3, Limits
<1> QED
  BY <1>3, <1>4, <1>5 DEF IInv, WindowPlaced

\* For every console, every desktop and every row of resizes and writing programs: the new
\* console is recognised, a resize that no program disturbs ends with the window at its full
\* size, the dirty lines in it and the marker above it, and the font is wide enough.
THEOREM WindowIsPlaced == Spec => []WindowAndFontRight
<1>1. IInv => WindowAndFontRight
  BY PlacedWell, FontsAreChosenWell DEF WindowAndFontRight
<1> QED
  BY <1>1, IInvHolds, PTL

\* The cursor that is in the window stays in it, whether the window gets its full size or not.
THEOREM CursorIsVisible == Spec => CursorStaysVisible
<1>1. ASSUME IInv, [Next]_vars, pc = "expand", CursorInWindow(con), pc' # "expand"
      PROVE  CursorInWindow(con')
  <2>1. ExpandWindow
    BY <1>1 DEF Next, Start, Sync, DetectNewWindows10Console, Construct, ResizeWindow, ScrapeBuffer, ReadInfo,
                ChangeMode, SyncDirect, SyncScrolling, ClearAbove, SetFont, ShrinkWindow, ResizeBuffer, Done,
                ProgramStep, vars
  <2>2. /\ Fits(con') /\ con'.cur = con.cur
        /\ \/ con'.top = FinalTop /\ con'.h = job.rows
           \/ con'.top = con.top /\ con'.h = con.h
    BY <1>1, <2>1, ExpandWindowMoves
  <2>3. FinalTop \in Int /\ FinalTop <= con.cur /\ con.cur < FinalTop + job.rows
    BY <1>1, FinalTopIs
  <2>4. con.cur \in Nat /\ job.rows \in Nat
    BY <1>1, FitsIs, JobIs DEF IInv, Typed, Resizing
  <2>5. CASE con'.top = FinalTop /\ con'.h = job.rows
    BY <2>2, <2>3, <2>4, <2>5 DEF CursorInWindow
  <2>6. CASE con'.top = con.top /\ con'.h = con.h
    BY <1>1, <2>2, <2>6 DEF CursorInWindow
  <2> QED
    BY <2>2, <2>5, <2>6
<1>2. IInv /\ [Next]_vars =>
        [pc = "expand" /\ CursorInWindow(con) => pc' = "expand" \/ CursorInWindow(con')]_vars
  BY <1>1
<1> QED
  BY <1>2, IInvHolds, PTL DEF Spec, CursorStaysVisible
=============================================================================
