----------------------------- MODULE ScreenProofs -----------------------------
(***************************************************************************)
(* Proof that the terminal shows the console after every scrape, and that  *)
(* Terminal knows it, for consoles and terminals of any sizes.  It goes up *)
(* from the folds over the operations, the characters and the lines, which *)
(* are replaced by tables of what they have made of the first k, to        *)
(* sendLine, the two scrapes, a program's writes and the resizes.  The      *)
(* invariants are in module ScreenInvariant.                               *)
(***************************************************************************)
EXTENDS ScreenInvariant, WellFoundedInduction, TLAPS

\* A set of numbers that is not empty has a smallest one.
LEMMA Smallest ==
  ASSUME NEW T \in SUBSET Nat, T # {}
  PROVE  \E x \in T : \A y \in T : x <= y
<1>1. IsWellFoundedOn(OpToRel(<, Nat), Nat)
  BY NatLessThanWellFounded, Zenon
<1>2. PICK x \in T : \A y \in T : ~(<<y, x>> \in OpToRel(<, Nat))
  BY <1>1, WFMin, Zenon
<1>3. ASSUME NEW y \in T PROVE ~(y < x)
  BY <1>2 DEF OpToRel
<1> QED
  BY <1>3

\* induction: a set of numbers with 0 and closed
LEMMA Counting ==
  ASSUME NEW n \in Nat, NEW T \in SUBSET Nat, 0 \in T, \A k \in 0..(n-1) : k \in T => k + 1 \in T
  PROVE  \A k \in 0..n : k \in T
<1> DEFINE bad == {k \in 0..n : k \notin T}
<1> SUFFICES ASSUME bad # {} PROVE FALSE
  OBVIOUS
<1>1. PICK x \in bad : \A y \in bad : x <= y
  <2>1. bad \in SUBSET Nat
    OBVIOUS
  <2> HIDE DEF bad
  <2> QED BY <2>1, Smallest
<1>2. x # 0 /\ x \in 1..n
  OBVIOUS
<1>3. x - 1 \in 0..(n-1) /\ x - 1 \notin bad
  BY <1>1, <1>2
<1>4. x - 1 \in T
  BY <1>3
<1> QED BY <1>3, <1>4, <1>2

\* The largest number up to k is k.
LEMMA MaxOfUpTo ==
  ASSUME NEW k \in Nat, k # 0
  PROVE  Max(1..k) = k /\ (1..k) \ {k} = 1..(k-1) /\ 1..k # {}
BY DEF Max

\* A set of numbers up to n has a largest one, which Max is.
LEMMA MaxIn ==
  ASSUME NEW n \in Nat, NEW s \in SUBSET (1..n), s # {}
  PROVE  Max(s) \in s /\ \A y \in s : Max(s) >= y
<1> DEFINE T == {n - y : y \in s}
<1>1. T \in SUBSET Nat /\ T # {}
  <2>1. \A y \in s : n - y \in Nat
    OBVIOUS
  <2>2. PICK y \in s : TRUE
    OBVIOUS
  <2>3. n - y \in T
    OBVIOUS
  <2> QED BY <2>1, <2>3
<1>2. PICK t \in T : \A y \in T : t <= y
  <2> HIDE DEF T
  <2> QED BY <1>1, Smallest
<1>3. PICK x \in s : t = n - x
  OBVIOUS
<1>4. \A y \in s : x >= y
  <2> SUFFICES ASSUME NEW y \in s PROVE x >= y
    OBVIOUS
  <2>1. n - y \in T
    OBVIOUS
  <2>2. n - x <= n - y
    BY <1>2, <1>3, <2>1
  <2>3. x \in 1..n /\ y \in 1..n
    OBVIOUS
  <2> QED BY <2>2, <2>3
<1> QED BY <1>4 DEF Max

\* The function that a fold over 1..n is: FoldLeft looks it up.
Table(it, n, a, step) ==
  it = [s \in SUBSET (1..n) |-> IF s = {} THEN a ELSE step[Max(s)][it[s \ {Max(s)}]]]

\* The table of a fold over 1..n exists.
LEMMA TableExists ==
  ASSUME NEW A, NEW n \in Nat, NEW step \in [1..n -> [A -> A]], NEW a \in A
  PROVE  \E it \in [SUBSET (1..n) -> A] : Table(it, n, a, step)
<1> DEFINE T == {k \in 0..n : \E it \in [SUBSET (1..k) -> A] :
                    \A s \in SUBSET (1..k) : it[s] = IF s = {} THEN a ELSE step[Max(s)][it[s \ {Max(s)}]]}
<1>1. 0 \in T
  <2> DEFINE it == [s \in SUBSET (1..0) |-> a]
  <2>1. it \in [SUBSET (1..0) -> A]
    OBVIOUS
  <2>2. \A s \in SUBSET (1..0) : s = {}
    OBVIOUS
  <2>3. \A s \in SUBSET (1..0) : it[s] = IF s = {} THEN a ELSE step[Max(s)][it[s \ {Max(s)}]]
    BY <2>2
  <2>4. 0 \in 0..n
    OBVIOUS
  <2> HIDE DEF it
  <2> QED BY <2>1, <2>3, <2>4
<1>2. ASSUME NEW k \in 0..(n-1), k \in T PROVE k + 1 \in T
  <2>1. PICK it \in [SUBSET (1..k) -> A] :
           \A s \in SUBSET (1..k) : it[s] = IF s = {} THEN a ELSE step[Max(s)][it[s \ {Max(s)}]]
    BY <1>2
  <2> DEFINE next == [s \in SUBSET (1..(k+1)) |->
                        IF k + 1 \in s THEN step[k + 1][it[s \ {k + 1}]] ELSE it[s]]
  <2>2. ASSUME NEW s \in SUBSET (1..(k+1)), k + 1 \in s
        PROVE  Max(s) = k + 1 /\ s \ {k + 1} \in SUBSET (1..k) /\ s # {}
    <3>1. Max(s) \in s /\ \A y \in s : Max(s) >= y
      <4>1. k + 1 \in Nat /\ s # {}
        BY <2>2
      <4> QED BY <4>1, MaxIn
    <3>2. Max(s) >= k + 1 /\ Max(s) \in 1..(k + 1)
      BY <3>1, <2>2
    <3>3. \A i \in s \ {k + 1} : i \in 1..k
      OBVIOUS
    <3> QED BY <3>2, <3>3, <2>2
  <2>3. ASSUME NEW s \in SUBSET (1..(k+1)), k + 1 \notin s
        PROVE  s \in SUBSET (1..k)
    BY <2>3
  <2>4. next \in [SUBSET (1..(k+1)) -> A]
    <3> SUFFICES ASSUME NEW s \in SUBSET (1..(k+1)) PROVE next[s] \in A
      OBVIOUS
    <3>1. CASE k + 1 \in s
      BY <2>2, <3>1
    <3>2. CASE k + 1 \notin s
      BY <3>2, <2>3
    <3> QED BY <3>1, <3>2
  <2>5. ASSUME NEW s \in SUBSET (1..(k+1))
        PROVE  next[s] = IF s = {} THEN a ELSE step[Max(s)][next[s \ {Max(s)}]]
    <3>1. CASE k + 1 \in s
      <4>1. next[s] = step[k + 1][it[s \ {k + 1}]]
        BY <3>1
      <4>2. s \ {k + 1} \in SUBSET (1..(k+1)) /\ k + 1 \notin s \ {k + 1}
        OBVIOUS
      <4>3. next[s \ {k + 1}] = it[s \ {k + 1}]
        BY <4>2
      <4> HIDE DEF next
      <4> QED BY <4>1, <4>3, <2>2, <3>1
    <3>2. CASE k + 1 \notin s
      <4>1. s \in SUBSET (1..k)
        BY <3>2, <2>3
      <4>2. next[s] = it[s]
        BY <3>2
      <4>3. it[s] = IF s = {} THEN a ELSE step[Max(s)][it[s \ {Max(s)}]]
        BY <2>1, <4>1
      <4>4. s \ {Max(s)} \in SUBSET (1..(k+1)) /\ k + 1 \notin s \ {Max(s)}
        BY <3>2
      <4>5. next[s \ {Max(s)}] = it[s \ {Max(s)}]
        BY <4>4
      <4> HIDE DEF next
      <4> QED BY <4>2, <4>3, <4>5
    <3> QED BY <3>1, <3>2
  <2>6. k + 1 \in 0..n
    OBVIOUS
  <2> HIDE DEF next
  <2> QED BY <2>4, <2>5, <2>6
<1>3. n \in T
  <2> HIDE DEF T
  <2>1. T \in SUBSET Nat
    BY DEF T
  <2>2. \A k \in 0..n : k \in T
    BY <1>1, <1>2, <2>1, Counting
  <2> QED BY <2>2
<1>4. PICK it \in [SUBSET (1..n) -> A] :
         \A s \in SUBSET (1..n) : it[s] = IF s = {} THEN a ELSE step[Max(s)][it[s \ {Max(s)}]]
  BY <1>3
<1>5. it = [s \in SUBSET (1..n) |-> IF s = {} THEN a ELSE step[Max(s)][it[s \ {Max(s)}]]]
  BY <1>4
<1> QED BY <1>5 DEF Table

\* Where it is known to be of A, it is such a table.
TableOn(it, n, a, step, A) ==
  \A s \in SUBSET (1..n) : it[s] = IF s = {} THEN a
                                   ELSE IF it[s \ {Max(s)}] \in A THEN step[Max(s)][it[s \ {Max(s)}]]
                                   ELSE it[s]

\* What has been made of the first k elements.
MadeUpTo(it, n, a, step, A) ==
  /\ it[1..0] = a
  /\ \A k \in 0..n : it[1..k] \in A
  /\ \A k \in 1..n : it[1..k] = step[k][it[1..(k - 1)]]

\* What it has for 1..k comes from what it has for 1..(k-1).
LEMMA TablePrefixes ==
  ASSUME NEW A, NEW n \in Nat, NEW step \in [1..n -> [A -> A]], NEW a \in A, NEW it,
         TableOn(it, n, a, step, A)
  PROVE  MadeUpTo(it, n, a, step, A)
<1>0. \A s \in SUBSET (1..n) : it[s] = IF s = {} THEN a
                                        ELSE IF it[s \ {Max(s)}] \in A THEN step[Max(s)][it[s \ {Max(s)}]]
                                        ELSE it[s]
  BY DEF TableOn
<1>1. it[1..0] = a
  <2>1. 1..0 = {} /\ {} \in SUBSET (1..n)
    OBVIOUS
  <2> QED BY <1>0, <2>1
<1>2. ASSUME NEW k \in 1..n, it[1..(k-1)] \in A
      PROVE  it[1..k] = step[k][it[1..(k - 1)]] /\ it[1..k] \in A
  <2>1. 1..k \in SUBSET (1..n)
    OBVIOUS
  <2>2. Max(1..k) = k /\ (1..k) \ {k} = 1..(k-1) /\ 1..k # {}
    <3>1. k \in Nat /\ k # 0
      OBVIOUS
    <3> QED BY <3>1, MaxOfUpTo
  <2>3. it[1..k] = step[k][it[1..(k - 1)]]
    BY <1>0, <1>2, <2>1, <2>2
  <2> QED BY <2>3, <1>2
<1> DEFINE T == {k \in 0..n : it[1..k] \in A}
<1>3. \A k \in 0..n : k \in T
  <2>1. T \in SUBSET Nat /\ 0 \in T
    BY <1>1
  <2>2. \A k \in 0..(n-1) : k \in T => k + 1 \in T
    <3> SUFFICES ASSUME NEW k \in 0..(n-1), k \in T PROVE k + 1 \in T
      OBVIOUS
    <3>1. k + 1 \in 1..n /\ (k + 1) - 1 = k
      OBVIOUS
    <3> QED BY <3>1, <1>2
  <2> HIDE DEF T
  <2> QED BY <2>1, <2>2, Counting
<1>4. \A k \in 0..n : it[1..k] \in A
  BY <1>3
<1>5. \A k \in 1..n : k - 1 \in 0..n
  OBVIOUS
<1> QED BY <1>1, <1>2, <1>4, <1>5 DEF MadeUpTo

-----------------------------------------------------------------------------
(* The user's terminal.                                                    *)

\* What ScreenAssumption says of the numbers.
LEMMA ConstantsFit ==
  /\ Height \in Nat /\ Height >= 1 /\ MaxWidth \in Nat /\ MaxWidth >= 1 /\ Widths \subseteq 1..MaxWidth
  /\ MaxTop \in Nat /\ OwnColor \in Nat
BY ScreenAssumption

\* A blank row is a row of places.
LEMMA BlankRowType ==
  ASSUME NEW color \in Nat
  PROVE  BlankRow(color) \in [1..MaxWidth -> Places]
BY DEF BlankRow, RemoteBlank, Places

\* A terminal of which one part is another one.
LEMMA RemoteEdits ==
  ASSUME NEW width \in Nat, NEW r \in RemoteType(width), Height \in Nat
  PROVE  /\ \A row \in 1..Height : [r EXCEPT !.row = row] \in RemoteType(width)
         /\ \A col \in 0..width : [r EXCEPT !.col = col] \in RemoteType(width)
         /\ \A color \in Nat : [r EXCEPT !.color = color] \in RemoteType(width)
         /\ \A visible \in BOOLEAN : [r EXCEPT !.visible = visible] \in RemoteType(width)
         /\ \A rows \in [1..Height -> [1..MaxWidth -> Places]] : [r EXCEPT !.rows = rows] \in RemoteType(width)
         /\ \A scrolled \in Nat : [r EXCEPT !.scrolled = scrolled] \in RemoteType(width)
BY DEF RemoteType

\* The fields of a terminal have their types.
LEMMA RemoteFields ==
  ASSUME NEW width \in Nat, NEW r \in RemoteType(width), Height \in Nat
  PROVE  /\ r.row \in 1..Height /\ r.col \in 0..width /\ r.color \in Nat /\ r.visible \in BOOLEAN
         /\ r.width = width /\ r.scrolled \in Nat /\ r.rows \in [1..Height -> [1..MaxWidth -> Places]]
BY DEF RemoteType

\* A line feed keeps the terminal's type.
LEMMA LineFeedType ==
  ASSUME NEW width \in Nat, width >= 1, NEW r \in RemoteType(width)
  PROVE  LineFeed(r) \in RemoteType(width)
<1>1. BlankRow(r.color) \in [1..MaxWidth -> Places]
  BY BlankRowType DEF RemoteType
<1> Height \in Nat
  BY ConstantsFit
<1>2. CASE r.row < Height
  <2>1. r.row + 1 \in 1..Height
    BY <1>2, RemoteFields
  <2>2. LineFeed(r) = [r EXCEPT !.row = r.row + 1]
    BY <1>2 DEF LineFeed
  <2>3. [r EXCEPT !.row = r.row + 1] \in RemoteType(width)
    BY <2>1 DEF RemoteType
  <2> QED BY <2>2, <2>3
<1>3. CASE ~(r.row < Height)
  <2> DEFINE rows == [k \in 1..Height |-> IF k < Height THEN r.rows[k + 1] ELSE BlankRow(r.color)]
  <2>1. rows \in [1..Height -> [1..MaxWidth -> Places]]
    BY <1>1, RemoteFields
  <2> HIDE DEF rows
  <2>2. [r EXCEPT !.rows = rows, !.scrolled = r.scrolled + 1] \in RemoteType(width)
    <3> DEFINE q == [r EXCEPT !.rows = rows]
    <3>1. q \in RemoteType(width)
      BY <2>1, RemoteEdits
    <3>2. [q EXCEPT !.scrolled = r.scrolled + 1] \in RemoteType(width)
      <4>1. r.scrolled + 1 \in Nat
        BY RemoteFields
      <4> HIDE DEF q
      <4> QED BY <3>1, <4>1, RemoteEdits
    <3> QED BY <3>2
  <2>3. LineFeed(r) = [r EXCEPT !.rows = rows, !.scrolled = r.scrolled + 1]
    BY <1>3 DEF LineFeed, rows
  <2> QED BY <2>2, <2>3
<1> QED BY <1>2, <1>3

\* So does a character, if a wide one has room.
LEMMA PutCharType ==
  ASSUME NEW width \in Nat, width >= 1, NEW r \in RemoteType(width), NEW ch \in Nat, NEW wide \in BOOLEAN,
         wide => width >= 2
  PROVE  PutChar(r, ch, wide) \in RemoteType(width)
<1> DEFINE n == IF wide THEN 2 ELSE 1
           r0 == [r EXCEPT !.col = 0]
           s == IF r.col + n > r.width THEN LineFeed(r0) ELSE r
           row == [i \in 1..MaxWidth |->
                     IF i = s.col + 1 THEN [ch |-> ch, part |-> IF wide THEN "left" ELSE "one", color |-> r.color]
                     ELSE IF wide /\ i = s.col + 2 THEN [ch |-> ch, part |-> "right", color |-> r.color]
                     ELSE s.rows[s.row][i]]
<1>1. r0 \in RemoteType(width)
  BY DEF RemoteType
<1>2. LineFeed(r0) \in RemoteType(width) /\ LineFeed(r0).col = 0
  <2>1. LineFeed(r0) \in RemoteType(width)
    BY <1>1, LineFeedType
  <2>2. LineFeed(r0).col = 0
    BY DEF LineFeed, RemoteType
  <2> QED BY <2>1, <2>2
<1>3. s \in RemoteType(width) /\ s.col + n <= width
  <2>1. width \in Nat /\ width >= 1 /\ r.col \in Nat /\ r.width = width
    BY ConstantsFit DEF RemoteType
  <2>2. CASE r.col + n > r.width
    BY <2>1, <2>2, <1>2
  <2>3. CASE ~(r.col + n > r.width)
    BY <2>1, <2>3
  <2> QED BY <2>2, <2>3
<1>4. PutChar(r, ch, wide) = [s EXCEPT !.rows[s.row] = row, !.col = @ + n]
  BY DEF PutChar
<1>5. row \in [1..MaxWidth -> Places]
  <2> HIDE DEF s
  <2>1. s.rows[s.row] \in [1..MaxWidth -> Places] /\ r.color \in Nat
    BY <1>3 DEF RemoteType
  <2> QED BY <2>1 DEF Places
<1>6. n \in Nat /\ n >= 1 /\ width \in Nat
  BY ConstantsFit
<1> HIDE DEF s, row, n
<1>7. [s EXCEPT !.rows[s.row] = row, !.col = @ + n] \in RemoteType(width)
  <2>1. s.col + n \in 0..width
    BY <1>3, <1>6 DEF RemoteType
  <2>2. [s.rows EXCEPT ![s.row] = row] \in [1..Height -> [1..MaxWidth -> Places]]
    BY <1>3, <1>5 DEF RemoteType
  <2>3. [s EXCEPT !.rows = [s.rows EXCEPT ![s.row] = row], !.col = s.col + n] \in RemoteType(width)
    BY <1>3, <2>1, <2>2 DEF RemoteType
  <2> QED BY <2>3
<1> QED BY <1>4, <1>7

\* So does every operation.
LEMMA PerformType ==
  ASSUME NEW width \in Nat, width >= 1, NEW r \in RemoteType(width), NEW o \in Ops(width)
  PROVE  Perform(r, o) \in RemoteType(width)
<1> Height \in Nat /\ Height >= 1
  BY ConstantsFit
<1>1. CASE o \in [op : {"put"}, ch : Nat, wide : {wide \in BOOLEAN : wide => width >= 2}]
  BY <1>1, PutCharType DEF Perform
<1>2. CASE o \in [op : {"CR", "CRLF", "EL", "ED", "HOME", "SHOW", "HIDE"}]
  <2>1. CASE o.op = "CR"
    BY <2>1 DEF Perform, RemoteType
  <2>2. CASE o.op = "CRLF"
    BY RemoteEdits, ConstantsFit, LineFeedType, <2>2 DEF Perform
  <2>3. CASE o.op = "EL"
    <3>1. Perform(r, o) = EraseToEol(r)
      BY <2>3 DEF Perform
    <3>2. EraseToEol(r) \in RemoteType(width)
      <4>1. [i \in 1..MaxWidth |-> IF i \in (IF r.col < r.width THEN r.col + 1 ELSE r.width)..r.width THEN RemoteBlank(r.color)
                                   ELSE r.rows[r.row][i]] \in [1..MaxWidth -> Places]
        <5>1. r.rows[r.row] \in [1..MaxWidth -> Places] /\ RemoteBlank(r.color) \in Places
          <6>1. r.row \in 1..Height /\ r.rows \in [1..Height -> [1..MaxWidth -> Places]] /\ r.color \in Nat
            BY RemoteFields
          <6>2. RemoteBlank(r.color) \in Places
            BY <6>1 DEF RemoteBlank, Places
          <6> QED BY <6>1, <6>2
        <5> QED BY <5>1
      <4>2. ASSUME NEW row \in [1..MaxWidth -> Places]
            PROVE  [r.rows EXCEPT ![r.row] = row] \in [1..Height -> [1..MaxWidth -> Places]]
        BY RemoteFields
      <4> QED BY <4>1, <4>2, RemoteEdits DEF EraseToEol
    <3> QED BY <3>1, <3>2
  <2>4. CASE o.op = "ED"
    BY BlankRowType, <2>4 DEF RemoteType, Perform
  <2>5. CASE o.op = "HOME"
    <3>1. Perform(r, o) = [[r EXCEPT !.row = 1] EXCEPT !.col = 0]
      BY <2>5 DEF Perform
    <3>2. [r EXCEPT !.row = 1] \in RemoteType(width)
      BY RemoteEdits
    <3>3. 0 \in 0..width
      OBVIOUS
    <3>4. [[r EXCEPT !.row = 1] EXCEPT !.col = 0] \in RemoteType(width)
      BY <3>2, <3>3, RemoteEdits
    <3> QED BY <3>1, <3>4, Zenon
  <2>6. CASE o.op = "SHOW"
    BY <2>6 DEF Perform, RemoteType
  <2>7. CASE o.op = "HIDE"
    BY <2>7 DEF Perform, RemoteType
  <2> QED BY <1>2, <2>1, <2>2, <2>3, <2>4, <2>5, <2>6, <2>7
<1>3. CASE o \in [op : {"CUU"}, n : Nat]
  <2>1. (IF r.row > o.n THEN r.row - o.n ELSE 1) \in 1..Height
    BY <1>3, RemoteFields
  <2>2. Perform(r, o) = [r EXCEPT !.row = IF r.row > o.n THEN r.row - o.n ELSE 1]
    BY <1>3 DEF Perform
  <2> QED BY <2>1, <2>2, RemoteEdits
<1>4. CASE o \in [op : {"CHA"}, column : Nat]
  <2>1. (IF o.column < r.width THEN o.column ELSE r.width - 1) \in 0..width
    BY <1>4, RemoteFields
  <2>2. Perform(r, o) = [r EXCEPT !.col = IF o.column < r.width THEN o.column ELSE r.width - 1]
    BY <1>4 DEF Perform
  <2> QED BY <2>1, <2>2, RemoteEdits
<1>5. CASE o \in [op : {"SGR"}, color : Nat \union {NoColor}]
  BY <1>5, ConstantsFit DEF Perform, RemoteType, NoColor
<1> QED BY <1>1, <1>2, <1>3, <1>4, <1>5 DEF Ops

\* What the terminal is after each of the operations.
LEMMA PerformAllTable ==
  ASSUME NEW width \in Nat, width >= 1, NEW r \in RemoteType(width), NEW ops \in Seq(Ops(width))
  PROVE  \E at \in [0..Len(ops) -> RemoteType(width)] :
           /\ at[0] = r /\ at[Len(ops)] = PerformAll(r, ops)
           /\ \A k \in 1..Len(ops) : at[k] = Perform(at[k - 1], ops[k])
<1> DEFINE n == Len(ops)
           A == RemoteType(width)
           step == [k \in 1..n |-> [x \in A |-> Perform(x, ops[k])]]
           Eq(it) == it = [s \in SUBSET (DOMAIN ops) |-> IF s = {} THEN r ELSE Perform(it[s \ {Max(s)}], ops[Max(s)])]
           it == CHOOSE iter : Eq(iter)
<1>1. n \in Nat /\ DOMAIN ops = 1..n
  OBVIOUS
<1>2. step \in [1..n -> [A -> A]]
  <2>1. \A k \in 1..n : ops[k] \in Ops(width)
    OBVIOUS
  <2>2. \A k \in 1..n : \A x \in A : Perform(x, ops[k]) \in A
    BY <2>1, PerformType
  <2> HIDE DEF A
  <2> QED BY <2>2
<1>3. PICK f \in [SUBSET (1..n) -> A] : Table(f, n, r, step)
  <2> HIDE DEF A, n, step
  <2>1. r \in A
    BY DEF A
  <2> QED BY <2>1, <1>1, <1>2, TableExists
<1>4. Eq(f)
  <2>1. ASSUME NEW s \in SUBSET (1..n), s # {}
        PROVE  step[Max(s)][f[s \ {Max(s)}]] = Perform(f[s \ {Max(s)}], ops[Max(s)])
    <3>1. Max(s) \in 1..n
      <4> HIDE DEF n
      <4> QED BY <1>1, <2>1, MaxIn
    <3>2. f[s \ {Max(s)}] \in A
      OBVIOUS
    <3> HIDE DEF A, n
    <3> QED BY <3>1, <3>2
  <2>2. f = [s \in SUBSET (1..n) |-> IF s = {} THEN r ELSE step[Max(s)][f[s \ {Max(s)}]]]
    BY <1>3 DEF Table
  <2> HIDE DEF n, step
  <2>3. f = [s \in SUBSET (1..n) |-> IF s = {} THEN r ELSE Perform(f[s \ {Max(s)}], ops[Max(s)])]
    BY <2>1, <2>2, Zenon
  <2> QED BY <2>3, <1>1
<1>5. Eq(it)
  BY <1>4
<1>6. PerformAll(r, ops) = it[DOMAIN ops]
  BY DEF PerformAll, FoldLeft, MapThenFoldSet
<1>7. /\ it[1..0] = r
      /\ \A k \in 0..n : it[1..k] \in A
      /\ \A k \in 1..n : it[1..k] = step[k][it[1..(k - 1)]]
  <2>1. \A s \in SUBSET (1..n) : it[s] = IF s = {} THEN r ELSE Perform(it[s \ {Max(s)}], ops[Max(s)])
    <3> HIDE DEF it
    <3> QED BY <1>5, <1>1
  <2>2. TableOn(it, n, r, step, A)
    <3> SUFFICES ASSUME NEW s \in SUBSET (1..n), s # {}, it[s \ {Max(s)}] \in A
                 PROVE  it[s] = step[Max(s)][it[s \ {Max(s)}]]
      <4> HIDE DEF it, A, step, n
      <4> QED BY <2>1 DEF TableOn
    <3>1. Max(s) \in 1..n
      <4> HIDE DEF n
      <4> QED BY <1>1, MaxIn
    <3>2. step[Max(s)][it[s \ {Max(s)}]] = Perform(it[s \ {Max(s)}], ops[Max(s)])
      <4> HIDE DEF A, n, it
      <4> QED BY <3>1
    <3> HIDE DEF A, n, it, step
    <3> QED BY <3>2, <2>1
  <2> HIDE DEF A, n, it, step
  <2>3. r \in A
    BY DEF A
  <2>4. n \in Nat /\ step \in [1..n -> [A -> A]]
    BY <1>1, <1>2
  <2>5. MadeUpTo(it, n, r, step, A)
    BY <2>2, <2>3, <2>4, TablePrefixes
  <2> QED BY <2>5 DEF MadeUpTo
<1> DEFINE at == [k \in 0..n |-> it[1..k]]
<1> HIDE DEF A, n, it
<1>8. at \in [0..n -> A] /\ at[0] = r /\ at[n] = PerformAll(r, ops)
  BY <1>1, <1>6, <1>7
<1>9. ASSUME NEW k \in 1..n PROVE at[k] = Perform(at[k - 1], ops[k])
  <2>1. k - 1 \in 0..n /\ k \in 0..n
    BY <1>1
  <2>2. it[1..(k - 1)] \in A
    BY <2>1, <1>7
  <2>3. step[k][it[1..(k - 1)]] = Perform(it[1..(k - 1)], ops[k])
    BY <2>2
  <2> QED BY <2>1, <2>3, <1>7
<1> HIDE DEF at
<1> QED BY <1>8, <1>9 DEF A, n

\* So do any number of them.
LEMMA PerformAllType ==
  ASSUME NEW width \in Nat, width >= 1, NEW r \in RemoteType(width), NEW ops \in Seq(Ops(width))
  PROVE  PerformAll(r, ops) \in RemoteType(width)
<1>1. PICK at \in [0..Len(ops) -> RemoteType(width)] : at[Len(ops)] = PerformAll(r, ops)
  BY PerformAllTable
<1>2. Len(ops) \in 0..Len(ops)
  OBVIOUS
<1> QED BY <1>1, <1>2

\* A terminal that performs nothing stays as it is.
LEMMA PerformNone ==
  ASSUME NEW width \in Nat, width >= 1, NEW r \in RemoteType(width)
  PROVE  PerformAll(r, <<>>) = r
<1> DEFINE ops == <<>>
<1>1. ops \in Seq(Ops(width)) /\ Len(ops) = 0
  OBVIOUS
<1> HIDE DEF ops
<1>2. PICK at \in [0..Len(ops) -> RemoteType(width)] : at[0] = r /\ at[Len(ops)] = PerformAll(r, ops)
  BY <1>1, PerformAllTable
<1> QED BY <1>1, <1>2 DEF ops

\* First the one operations, then the others.
LEMMA PerformConcat ==
  ASSUME NEW width \in Nat, width >= 1, NEW r \in RemoteType(width),
         NEW a \in Seq(Ops(width)), NEW b \in Seq(Ops(width))
  PROVE  PerformAll(r, a \o b) = PerformAll(PerformAll(r, a), b)
<1> DEFINE c == a \o b
           m == Len(a)
           n == Len(b)
           R == RemoteType(width)
<1>1. /\ c \in Seq(Ops(width)) /\ Len(c) = m + n /\ m \in Nat /\ n \in Nat
      /\ \A k \in 1..m : c[k] = a[k]
      /\ \A k \in 1..n : c[m + k] = b[k]
  OBVIOUS
<1> HIDE DEF c
<1>2. PICK f \in [0..m -> R] : /\ f[0] = r /\ f[m] = PerformAll(r, a)
                               /\ \A k \in 1..m : f[k] = Perform(f[k - 1], a[k])
  BY PerformAllTable
<1>3. PerformAll(r, a) \in R
  BY PerformAllType
<1>4. PICK g \in [0..n -> R] : /\ g[0] = PerformAll(r, a) /\ g[n] = PerformAll(PerformAll(r, a), b)
                               /\ \A k \in 1..n : g[k] = Perform(g[k - 1], b[k])
  BY <1>3, PerformAllTable
<1>5. PICK h \in [0..Len(c) -> R] : /\ h[0] = r /\ h[Len(c)] = PerformAll(r, c)
                                    /\ \A k \in 1..Len(c) : h[k] = Perform(h[k - 1], c[k])
  BY <1>1, PerformAllTable
<1> HIDE DEF R, m, n
<1>6. h[m] = f[m]
  <2> DEFINE T == {k \in 0..m : h[k] = f[k]}
  <2>1. T \in SUBSET Nat /\ 0 \in T
    BY <1>1, <1>2, <1>5
  <2>2. ASSUME NEW k \in 0..(m-1), k \in T PROVE k + 1 \in T
    <3>1. k + 1 \in 1..m /\ k + 1 \in 1..Len(c) /\ (k + 1) - 1 = k /\ k + 1 \in 0..m
      BY <1>1
    <3>2. h[k + 1] = Perform(h[k], c[k + 1]) /\ f[k + 1] = Perform(f[k], a[k + 1]) /\ c[k + 1] = a[k + 1]
      BY <3>1, <1>1, <1>2, <1>5
    <3> QED BY <2>2, <3>1, <3>2
  <2>3. \A k \in 0..m : k \in T
    <3> HIDE DEF T
    <3> QED BY <2>1, <2>2, <1>1, Counting
  <2>4. m \in 0..m
    BY <1>1
  <2> QED BY <2>3, <2>4
<1>7. h[m + n] = g[n]
  <2> DEFINE T == {k \in 0..n : h[m + k] = g[k]}
  <2>1. T \in SUBSET Nat /\ 0 \in T
    BY <1>1, <1>2, <1>4, <1>6
  <2>2. ASSUME NEW k \in 0..(n-1), k \in T PROVE k + 1 \in T
    <3>0. m \in Nat /\ n \in Nat /\ Len(c) = m + n
      BY <1>1
    <3>1. k + 1 \in 1..n /\ m + (k + 1) \in 1..Len(c) /\ m + (k + 1) - 1 = m + k /\ (k + 1) - 1 = k /\ k + 1 \in 0..n
      <4> HIDE DEF m, n, T
      <4> QED BY <3>0
    <3>2. h[m + (k + 1)] = Perform(h[m + k], c[m + (k + 1)]) /\ g[k + 1] = Perform(g[k], b[k + 1])
          /\ c[m + (k + 1)] = b[k + 1]
      BY <3>1, <1>1, <1>4, <1>5
    <3> QED BY <2>2, <3>1, <3>2
  <2>3. \A k \in 0..n : k \in T
    <3> HIDE DEF T
    <3> QED BY <2>1, <2>2, <1>1, Counting
  <2>4. n \in 0..n
    BY <1>1
  <2> QED BY <2>3, <2>4
<1> QED BY <1>1, <1>4, <1>5, <1>7 DEF c, n, m

\* One operation is performed as it is alone.
LEMMA PerformOne ==
  ASSUME NEW width \in Nat, width >= 1, NEW r \in RemoteType(width), NEW o \in Ops(width)
  PROVE  PerformAll(r, <<o>>) = Perform(r, o)
<1> DEFINE ops == <<o>>
<1>1. ops \in Seq(Ops(width)) /\ Len(ops) = 1 /\ ops[1] = o
  OBVIOUS
<1> HIDE DEF ops
<1>2. PICK at \in [0..Len(ops) -> RemoteType(width)] :
         /\ at[0] = r /\ at[Len(ops)] = PerformAll(r, ops)
         /\ \A k \in 1..Len(ops) : at[k] = Perform(at[k - 1], ops[k])
  BY <1>1, PerformAllTable
<1>3. 1 \in 1..Len(ops) /\ 1 - 1 = 0
  BY <1>1
<1>4. at[1] = Perform(at[0], o)
  BY <1>1, <1>2, <1>3
<1> QED BY <1>1, <1>2, <1>4 DEF ops

\* The last operation is performed last.
LEMMA PerformAppend ==
  ASSUME NEW width \in Nat, width >= 1, NEW r \in RemoteType(width),
         NEW ops \in Seq(Ops(width)), NEW o \in Ops(width)
  PROVE  PerformAll(r, Append(ops, o)) = Perform(PerformAll(r, ops), o)
<1>1. Append(ops, o) = ops \o <<o>> /\ <<o>> \in Seq(Ops(width))
  OBVIOUS
<1>2. PerformAll(r, ops \o <<o>>) = PerformAll(PerformAll(r, ops), <<o>>)
  BY <1>1, PerformConcat
<1>3. PerformAll(r, ops) \in RemoteType(width)
  BY PerformAllType
<1> QED BY <1>1, <1>2, <1>3, PerformOne
-----------------------------------------------------------------------------
(* The characters of a line.                                               *)

Characteristic == [at : Nat, n : 1..4, ch : Nat]

\* scanUnicodeScalarValue takes at least one cell and none behind the line.
LEMMA ScanType ==
  ASSUME NEW C, \A cell \in C : cell.ch \in Nat, NEW cells \in Seq(C), NEW i \in 1..Len(cells)
  PROVE  LET c == scanUnicodeScalarValue(cells, i)
         IN c \in Characteristic /\ c.at = i /\ c.n >= 1 /\ i + c.n <= Len(cells) + 1
<1>1. cells[i].ch \in Nat /\ Len(cells) \in Nat
  OBVIOUS
<1>2. \A k \in 1..Len(cells) : CellsOf(cells, k) \in 1..2 /\ k + CellsOf(cells, k) <= Len(cells) + 1
  BY DEF CellsOf, isFullWidthCharacter
<1> DEFINE w1 == CellsOf(cells, i)
           ch == cells[i].ch
           paired == HighSurrogate(ch) /\ i + w1 <= Len(cells) /\ LowSurrogate(cells[i + w1].ch)
           c == scanUnicodeScalarValue(cells, i)
<1>3. CASE paired
  <2>1. i + w1 \in 1..Len(cells)
    BY <1>2, <1>3
  <2>2. CellsOf(cells, i + w1) \in 1..2 /\ i + w1 + CellsOf(cells, i + w1) <= Len(cells) + 1
    BY <1>2, <2>1
  <2>3. cells[i + w1].ch \in Nat
    BY <2>1
  <2>4. decodeSurrogatePair(ch, cells[i + w1].ch) \in Nat
    <3> DEFINE low == cells[i + w1].ch
    <3>2. ch \in 55296..56319
      BY <1>3 DEF HighSurrogate
    <3>3. low \in 56320..57343
      BY <1>3 DEF LowSurrogate
    <3>4. decodeSurrogatePair(ch, low) \in Nat
      <4> HIDE DEF ch, low
      <4>1. ch \in Int /\ low \in Int /\ 55296 <= ch /\ 56320 <= low
        BY <3>2, <3>3
      <4> QED BY <4>1 DEF decodeSurrogatePair
    <3> QED BY <3>4
  <2>5. c = [at |-> i, n |-> w1 + CellsOf(cells, i + w1), ch |-> decodeSurrogatePair(ch, cells[i + w1].ch)]
    BY <1>3 DEF scanUnicodeScalarValue
  <2>6. w1 \in 1..2
    BY <1>2
  <2> HIDE DEF w1, ch, paired, c
  <2>7. w1 + CellsOf(cells, i + w1) \in 1..4
    BY <2>2, <2>6
  <2>8. c.at = i /\ c.n = w1 + CellsOf(cells, i + w1) /\ c \in Characteristic
    BY <2>4, <2>5, <2>7 DEF Characteristic
  <2> QED BY <2>8, <2>2, <2>6, <2>7 DEF c
<1>4. CASE ~paired
  <2>1. c = [at |-> i, n |-> w1, ch |-> IF HighSurrogate(ch) \/ LowSurrogate(ch) THEN Question ELSE ch]
    BY <1>4 DEF scanUnicodeScalarValue
  <2>2. w1 \in 1..2 /\ i + w1 <= Len(cells) + 1
    BY <1>2
  <2>3. (IF HighSurrogate(ch) \/ LowSurrogate(ch) THEN Question ELSE ch) \in Nat
    BY <1>1 DEF Question
  <2> HIDE DEF w1, ch, paired, c
  <2> QED BY <2>1, <2>2, <2>3 DEF Characteristic, c
<1> QED BY <1>3, <1>4

\* They follow one another from the cell `from` to the end of the line.
Chain(cs, cells, from) ==
  /\ cs \in Seq(Characteristic)
  /\ \A k \in 1..Len(cs) : cs[k].at \in from..Len(cells) /\ cs[k] = scanUnicodeScalarValue(cells, cs[k].at)
  /\ cs # <<>> => cs[1].at = from
  /\ \A k \in 1..(Len(cs) - 1) : cs[k + 1].at = cs[k].at + cs[k].n

Behind(cs, from) == IF cs = <<>> THEN from ELSE cs[Len(cs)].at + cs[Len(cs)].n

\* The characters of a line take its cells in order and to its end.
LEMMA CharactersChain ==
  ASSUME NEW C, \A cell \in C : cell.ch \in Nat, NEW cells \in Seq(C), NEW from \in 1..(Len(cells) + 1)
  PROVE  Chain(Characters(cells, from), cells, from) /\ Behind(Characters(cells, from), from) = Len(cells) + 1
<1> DEFINE n == Len(cells) - from + 1
           A == Seq(Characteristic)
           Add(seq, i) == IF seq # <<>> /\ i < Last(seq).at + Last(seq).n THEN seq
                          ELSE Append(seq, scanUnicodeScalarValue(cells, i))
           nums == [k \in 1..n |-> from + k - 1]
           step == [k \in 1..n |-> [seq \in A |-> Add(seq, from + k - 1)]]
           Eq(it) == it = [s \in SUBSET (DOMAIN nums) |-> IF s = {} THEN <<>> ELSE Add(it[s \ {Max(s)}], nums[Max(s)])]
           it == CHOOSE iter : Eq(iter)
<1>1. n \in Nat /\ DOMAIN nums = 1..n /\ <<>> \in A
  OBVIOUS
<1>2. step \in [1..n -> [A -> A]]
  <2>1. ASSUME NEW k \in 1..n, NEW seq \in A PROVE Add(seq, from + k - 1) \in A
    BY ScanType
  <2> HIDE DEF A, Add
  <2> QED BY <2>1
<1>3. PICK f \in [SUBSET (1..n) -> A] : Table(f, n, <<>>, step)
  <2> HIDE DEF A, n, step
  <2> QED BY <1>1, <1>2, TableExists
<1>4. ASSUME NEW s \in SUBSET (1..n), s # {}
      PROVE  Max(s) \in 1..n /\ nums[Max(s)] = from + Max(s) - 1
  <2>1. Max(s) \in 1..n
    <3> HIDE DEF n
    <3> QED BY <1>1, <1>4, MaxIn
  <2> HIDE DEF n
  <2> QED BY <2>1
<1>5. Eq(f)
  <2>1. ASSUME NEW s \in SUBSET (1..n), s # {}
        PROVE  step[Max(s)][f[s \ {Max(s)}]] = Add(f[s \ {Max(s)}], nums[Max(s)])
    <3>1. Max(s) \in 1..n /\ nums[Max(s)] = from + Max(s) - 1
      BY <1>4, <2>1
    <3>2. f[s \ {Max(s)}] \in A
      OBVIOUS
    <3> HIDE DEF A, n, nums, Add
    <3> QED BY <3>1, <3>2
  <2>2. f = [s \in SUBSET (1..n) |-> IF s = {} THEN <<>> ELSE step[Max(s)][f[s \ {Max(s)}]]]
    BY <1>3 DEF Table
  <2> HIDE DEF n, step, Add, nums
  <2>3. f = [s \in SUBSET (1..n) |-> IF s = {} THEN <<>> ELSE Add(f[s \ {Max(s)}], nums[Max(s)])]
    BY <2>1, <2>2, Zenon
  <2> QED BY <2>3, <1>1
<1>6. Eq(it)
  BY <1>5
<1>7. Characters(cells, from) = it[DOMAIN nums]
  BY DEF Characters, FoldLeft, MapThenFoldSet
<1>8. MadeUpTo(it, n, <<>>, step, A)
  <2>1. \A s \in SUBSET (1..n) : it[s] = IF s = {} THEN <<>> ELSE Add(it[s \ {Max(s)}], nums[Max(s)])
    <3> HIDE DEF it, Add
    <3> QED BY <1>6, <1>1
  <2>2. TableOn(it, n, <<>>, step, A)
    <3> SUFFICES ASSUME NEW s \in SUBSET (1..n), s # {}, it[s \ {Max(s)}] \in A
                 PROVE  it[s] = step[Max(s)][it[s \ {Max(s)}]]
      <4> HIDE DEF it, A, step, n, Add, nums
      <4> QED BY <2>1 DEF TableOn
    <3>1. Max(s) \in 1..n /\ nums[Max(s)] = from + Max(s) - 1
      BY <1>4
    <3>2. step[Max(s)][it[s \ {Max(s)}]] = Add(it[s \ {Max(s)}], nums[Max(s)])
      <4> HIDE DEF A, n, it, nums, Add
      <4> QED BY <3>1
    <3> HIDE DEF A, n, it, step, nums, Add
    <3> QED BY <3>2, <2>1
  <2> HIDE DEF A, n, it, step, Add
  <2> QED BY <1>1, <1>2, <2>2, TablePrefixes
<1> DEFINE at == [k \in 0..n |-> it[1..k]]
           T == {k \in 0..n : /\ Chain(at[k], cells, from)
                              /\ k = 0 => at[k] = <<>>
                              /\ k > 0 => at[k] # <<>> /\ at[k][Len(at[k])].at <= from + k - 1
                                          /\ Behind(at[k], from) >= from + k}
<1> HIDE DEF it
<1>9. 0 \in T
  <2>1. at[0] = <<>>
    BY <1>1, <1>8 DEF MadeUpTo
  <2>2. Chain(<<>>, cells, from)
    BY DEF Chain
  <2> HIDE DEF at
  <2> QED BY <1>1, <2>1, <2>2
<1>10. ASSUME NEW k \in 0..(n-1), k \in T PROVE k + 1 \in T
  <2> DEFINE i == from + k
             c == scanUnicodeScalarValue(cells, i)
             seq == at[k]
             next == at[k + 1]
  <2>1. i \in 1..Len(cells) /\ k + 1 \in 1..n /\ k \in 0..n /\ k + 1 \in 0..n
        /\ i \in Nat /\ k \in Nat /\ from \in Nat /\ Len(cells) \in Nat
    OBVIOUS
  <2>2. next = IF seq # <<>> /\ i < Last(seq).at + Last(seq).n THEN seq ELSE Append(seq, c)
    <3>1. it[1..(k+1)] = step[k + 1][it[1..((k + 1) - 1)]] /\ it[1..k] \in A
      BY <1>8, <2>1 DEF MadeUpTo
    <3>2. (k + 1) - 1 = k /\ from + (k + 1) - 1 = i
      OBVIOUS
    <3>3. step[k + 1][it[1..k]] = Add(it[1..k], i)
      <4> HIDE DEF Add, A
      <4> QED BY <2>1, <3>1, <3>2
    <3> HIDE DEF step, A
    <3> QED BY <2>1, <3>1, <3>2, <3>3
  <2>3. /\ Chain(seq, cells, from)
        /\ k = 0 => seq = <<>>
        /\ k > 0 => seq # <<>> /\ seq[Len(seq)].at <= from + k - 1 /\ Behind(seq, from) >= from + k
    BY <1>10
  <2>4. c \in Characteristic /\ c.at = i /\ c.n >= 1
    BY <2>1, ScanType
  <2>5. Chain(next, cells, from) /\ next # <<>> /\ next[Len(next)].at <= from + k /\ Behind(next, from) >= from + (k + 1)
    <3>1. CASE seq # <<>> /\ i < Last(seq).at + Last(seq).n
      <4>1. next = seq
        BY <2>2, <3>1
      <4>2. Last(seq) = seq[Len(seq)] /\ Len(seq) \in 1..Len(seq) /\ seq[Len(seq)] \in Characteristic
        BY <2>3, <3>1 DEF Chain, Last
      <4>3. Last(seq).at \in Nat /\ Last(seq).n \in 1..4
        BY <4>2 DEF Characteristic
      <4> HIDE DEF seq, next, i
      <4>4. Behind(next, from) = Last(seq).at + Last(seq).n
        BY <3>1, <4>1, <4>2 DEF Behind
      <4>5. i = from + k
        BY DEF i
      <4>6. seq[Len(seq)].at <= from + k
        BY <2>3, <3>1, <4>2, <4>3
      <4>7. i < Last(seq).at + Last(seq).n
        BY <3>1
      <4>8. Behind(next, from) >= from + (k + 1)
        BY <2>1, <4>3, <4>4, <4>5, <4>7
      <4> QED BY <2>3, <3>1, <4>1, <4>6, <4>8
    <3>2. CASE ~(seq # <<>> /\ i < Last(seq).at + Last(seq).n)
      <4>1. next = Append(seq, c)
        BY <2>2, <3>2
      <4>2. Behind(seq, from) = i
        <5>1. CASE seq = <<>>
          <6>1. k = 0 /\ Behind(seq, from) = from
            BY <2>1, <2>3, <5>1 DEF Behind
          <6> HIDE DEF seq
          <6> QED BY <6>1, <2>1
        <5>2. CASE seq # <<>>
          <6>1. Last(seq) = seq[Len(seq)] /\ Len(seq) \in 1..Len(seq) /\ seq[Len(seq)] \in Characteristic
            BY <2>3, <5>2 DEF Chain, Last
          <6>2. Last(seq).at \in Nat /\ Last(seq).n \in 1..4 /\ Behind(seq, from) = Last(seq).at + Last(seq).n
            BY <6>1, <5>2 DEF Characteristic, Behind
          <6>3. k > 0 /\ Behind(seq, from) >= from + k
            BY <2>3, <5>2
          <6>4. ~(i < Behind(seq, from))
            BY <3>2, <5>2, <6>2
          <6>5. Behind(seq, from) \in Nat
            BY <6>2
          <6>6. i = from + k
            OBVIOUS
          <6> HIDE DEF seq, i
          <6>7. \A x \in Nat : x >= from + k /\ ~(i < x) => x = i
            BY <2>1, <6>6
          <6> QED BY <6>3, <6>4, <6>5, <6>7
        <5> QED BY <5>1, <5>2
      <4> DEFINE L == Len(seq)
      <4>3. seq \in Seq(Characteristic) /\ L \in Nat
        BY <2>3 DEF Chain
      <4> HIDE DEF seq, next, c
      <4>4. /\ next \in Seq(Characteristic) /\ Len(next) = L + 1 /\ next[L + 1] = c
            /\ \A j \in 1..L : next[j] = seq[j]
        BY <4>1, <4>3, <2>4
      <4>5. \A j \in 1..Len(next) : next[j].at \in from..Len(cells) /\ next[j] = scanUnicodeScalarValue(cells, next[j].at)
        <5>1. \A j \in 1..L : seq[j].at \in from..Len(cells) /\ seq[j] = scanUnicodeScalarValue(cells, seq[j].at)
          BY <2>3 DEF Chain
        <5>2. c.at \in from..Len(cells) /\ c = scanUnicodeScalarValue(cells, c.at)
          BY <2>1, <2>4 DEF c
        <5> SUFFICES ASSUME NEW j \in 1..Len(next)
                     PROVE  next[j].at \in from..Len(cells) /\ next[j] = scanUnicodeScalarValue(cells, next[j].at)
          OBVIOUS
        <5>3. CASE j \in 1..L
          BY <5>3, <5>1, <4>4
        <5>4. CASE j = L + 1
          BY <5>4, <4>4, <5>2
        <5> QED BY <5>3, <5>4, <4>3, <4>4
      <4>6. next[1].at = from
        BY <4>2, <4>4, <2>4, <4>3, <2>3 DEF Behind, Chain
      <4>7. ASSUME NEW j \in 1..(Len(next) - 1) PROVE next[j + 1].at = next[j].at + next[j].n
        <5>1. CASE j < L
          <6>1. j \in 1..(L - 1) /\ j + 1 \in 1..L /\ j \in 1..L
            BY <5>1, <4>3
          <6>2. seq[j + 1].at = seq[j].at + seq[j].n
            BY <6>1, <2>3 DEF Chain, L
          <6> QED BY <6>1, <6>2, <4>4
        <5>2. CASE j = L
          BY <5>2, <4>3, <4>4, <4>2, <2>4 DEF Behind
        <5> QED BY <5>1, <5>2, <4>3, <4>4
      <4>8. next # <<>> /\ next[Len(next)] = c
        BY <4>3, <4>4
      <4>9. Behind(next, from) = i + c.n
        BY <4>8, <2>4 DEF Behind
      <4>10. Behind(next, from) >= from + (k + 1)
        BY <2>4, <4>9 DEF Characteristic
      <4>11. Chain(next, cells, from)
        BY <4>4, <4>5, <4>6, <4>7 DEF Chain
      <4> QED BY <4>8, <4>10, <4>11, <2>4
    <3> QED BY <3>1, <3>2
  <2> HIDE DEF at
  <2> QED BY <2>1, <2>5
<1>11. n \in T
  <2>1. T \in SUBSET Nat
    OBVIOUS
  <2> HIDE DEF T, n
  <2>2. \A k \in 0..n : k \in T
    BY <1>1, <1>9, <1>10, <2>1, Counting
  <2>3. n \in 0..n
    BY <1>1
  <2> QED BY <2>2, <2>3
<1> DEFINE cs == at[n]
<1>12. Characters(cells, from) = cs
  BY <1>1, <1>7
<1>13. /\ Chain(cs, cells, from)
       /\ n = 0 => cs = <<>>
       /\ n > 0 => cs # <<>> /\ Behind(cs, from) >= from + n
  BY <1>11
<1> HIDE DEF at, cs
<1>14. Behind(cs, from) = Len(cells) + 1
  <2>1. CASE n = 0
    BY <2>1, <1>13 DEF Behind
  <2>2. CASE n > 0
    <3>1. cs # <<>> /\ Len(cs) \in 1..Len(cs)
      BY <2>2, <1>13 DEF Chain
    <3> DEFINE c == cs[Len(cs)]
    <3>2. c.at \in from..Len(cells) /\ c = scanUnicodeScalarValue(cells, c.at)
      BY <3>1, <1>13 DEF Chain
    <3> HIDE DEF c
    <3>3. c.at \in 1..Len(cells)
      BY <3>2
    <3>4. c \in Characteristic /\ c.at + c.n <= Len(cells) + 1
      BY <3>2, <3>3, ScanType
    <3>5. Behind(cs, from) = c.at + c.n
      BY <3>1 DEF Behind, c
    <3>6. Behind(cs, from) >= from + n
      BY <2>2, <1>13
    <3>7. c.n \in Nat
      BY <3>4 DEF Characteristic
    <3> QED BY <3>3, <3>4, <3>5, <3>6, <3>7
  <2> QED BY <2>1, <2>2, <1>1
<1> QED BY <1>12, <1>13, <1>14
-----------------------------------------------------------------------------
(* The cells of the console.                                               *)

\* Between the cells i and i + 1 is no character.
Boundary(cells, i) == i + 1 \in 1..Len(cells) => cells[i + 1].half # "trail"

\* A console's cell has no half of a surrogate pair.
LEMMA CellFields ==
  ASSUME NEW cell \in Cell
  PROVE  /\ cell.ch \in Nat /\ cell.color \in Nat /\ cell.half \in {"none", "lead", "trail"}
         /\ ~HighSurrogate(cell.ch) /\ ~LowSurrogate(cell.ch) /\ (cell.half # "none" => cell.ch # 32)
BY DEF Cell, IsCell

\* The width of the character at a cell, in a line of such cells.
LEMMA CellsOfCell ==
  ASSUME NEW cells \in Seq(Cell), Paired(cells), NEW i \in 1..Len(cells)
  PROVE  /\ CellsOf(cells, i) = IF cells[i].half = "lead" THEN 2 ELSE 1
         /\ scanUnicodeScalarValue(cells, i) = [at |-> i, n |-> CellsOf(cells, i), ch |-> cells[i].ch]
         /\ Boundary(cells, i - 1) => Boundary(cells, i - 1 + CellsOf(cells, i))
<1>1. cells[i] \in Cell
  OBVIOUS
<1>2. ~HighSurrogate(cells[i].ch) /\ ~LowSurrogate(cells[i].ch) /\ cells[i].half \in {"none", "lead", "trail"}
  BY <1>1, CellFields
<1>3. cells[i].half = "lead" => i + 1 \in 1..Len(cells) /\ cells[i + 1].half = "trail" /\ cells[i + 1].ch = cells[i].ch
  BY DEF Paired
<1>4. CellsOf(cells, i) = IF cells[i].half = "lead" THEN 2 ELSE 1
  BY <1>3 DEF CellsOf, isFullWidthCharacter
<1>5. scanUnicodeScalarValue(cells, i) = [at |-> i, n |-> CellsOf(cells, i), ch |-> cells[i].ch]
  BY <1>2 DEF scanUnicodeScalarValue
<1>6. ASSUME Boundary(cells, i - 1), i - 1 + CellsOf(cells, i) + 1 \in 1..Len(cells),
             cells[i - 1 + CellsOf(cells, i) + 1].half = "trail"
      PROVE  FALSE
  BY <1>6, <1>4, <1>3 DEF Boundary, Paired
<1>7. Boundary(cells, i - 1) => Boundary(cells, i - 1 + CellsOf(cells, i))
  BY <1>6 DEF Boundary
<1> QED BY <1>4, <1>5, <1>7

\* What is in front of a boundary is such a line, too, and a boundary of it is one of the line's.
LEMMA PairedPrefix ==
  ASSUME NEW cells \in Seq(Cell), Paired(cells), NEW m \in 0..Len(cells), Boundary(cells, m)
  PROVE  /\ SubSeq(cells, 1, m) \in Seq(Cell) /\ Len(SubSeq(cells, 1, m)) = m
         /\ \A i \in 1..m : SubSeq(cells, 1, m)[i] = cells[i]
         /\ Paired(SubSeq(cells, 1, m))
<1> DEFINE s == SubSeq(cells, 1, m)
<1>1. s \in Seq(Cell) /\ Len(s) = m /\ \A i \in 1..m : s[i] = cells[i]
  OBVIOUS
<1> HIDE DEF s
<1>2. m \in Nat /\ Len(cells) \in Nat /\ m <= Len(cells)
  OBVIOUS
<1>3. ASSUME NEW i \in 1..Len(s), s[i].half = "lead"
      PROVE  i + 1 \in 1..Len(s) /\ s[i + 1].half = "trail" /\ s[i + 1].ch = s[i].ch /\ s[i + 1].color = s[i].color
  BY <1>1, <1>2, <1>3 DEF Paired, Boundary
<1>4. ASSUME NEW i \in 1..Len(s), s[i].half = "trail"
      PROVE  i - 1 \in 1..Len(s) /\ s[i - 1].half = "lead" /\ s[i - 1].ch = s[i].ch /\ s[i - 1].color = s[i].color
  BY <1>1, <1>2, <1>4 DEF Paired
<1> QED BY <1>1, <1>3, <1>4 DEF Paired, s

\* A line that another one begins with ends in front of a character of that.
LEMMA PrefixBoundary ==
  ASSUME NEW cells \in Seq(Cell), Paired(cells), NEW data \in Seq(Cell), Paired(data),
         Len(data) <= Len(cells), \A i \in 1..Len(data) : data[i] = cells[i]
  PROVE  Boundary(cells, Len(data))
<1> DEFINE m == Len(data)
<1> SUFFICES ASSUME m + 1 \in 1..Len(cells), cells[m + 1].half = "trail" PROVE FALSE
  BY DEF Boundary
<1>1. (m + 1) - 1 = m /\ m \in Nat
  OBVIOUS
<1>2. m \in 1..Len(cells) /\ cells[m].half = "lead"
  BY <1>1 DEF Paired
<1>3. m \in 1..m /\ data[m] = cells[m]
  BY <1>1, <1>2
<1>4. m + 1 \in 1..Len(data)
  BY <1>2, <1>3 DEF Paired
<1> QED BY <1>1, <1>4

\* The characters of such a line from a boundary on: each is the one in its first cell.
LEMMA CellCharacters ==
  ASSUME NEW cells \in Seq(Cell), Paired(cells), NEW m \in 0..Len(cells), Boundary(cells, m)
  PROVE  LET cs == Characters(cells, m + 1)
         IN /\ cs \in Seq(Characteristic)
            /\ \A k \in 1..Len(cs) :
                 /\ cs[k].at \in (m + 1)..Len(cells) /\ Boundary(cells, cs[k].at - 1)
                 /\ cs[k] = [at |-> cs[k].at, n |-> CellsOf(cells, cs[k].at), ch |-> cells[cs[k].at].ch]
            /\ cs # <<>> => cs[1].at = m + 1
            /\ \A k \in 1..(Len(cs) - 1) : cs[k + 1].at = cs[k].at + cs[k].n
            /\ Behind(cs, m + 1) = Len(cells) + 1
<1> DEFINE cs == Characters(cells, m + 1)
<1>1. Chain(cs, cells, m + 1) /\ Behind(cs, m + 1) = Len(cells) + 1
  BY CellFields, CharactersChain
<1> HIDE DEF cs
<1> DEFINE n == Len(cs)
           T == {k \in 0..n : k >= 1 => Boundary(cells, cs[k].at - 1)}
<1>2. n \in Nat /\ cs \in Seq(Characteristic)
  BY <1>1 DEF Chain
<1>3. \A k \in 1..n : cs[k].at \in (m + 1)..Len(cells) /\ cs[k] = scanUnicodeScalarValue(cells, cs[k].at)
  BY <1>1 DEF Chain
<1>4. \A k \in 1..n : cs[k] = [at |-> cs[k].at, n |-> CellsOf(cells, cs[k].at), ch |-> cells[cs[k].at].ch]
  <2> SUFFICES ASSUME NEW k \in 1..n
               PROVE  cs[k] = [at |-> cs[k].at, n |-> CellsOf(cells, cs[k].at), ch |-> cells[cs[k].at].ch]
    OBVIOUS
  <2>1. cs[k].at \in 1..Len(cells)
    BY <1>3
  <2> DEFINE i == cs[k].at
  <2> HIDE DEF i
  <2>2. scanUnicodeScalarValue(cells, i) = [at |-> i, n |-> CellsOf(cells, i), ch |-> cells[i].ch]
    BY <2>1, CellsOfCell DEF i
  <2> QED BY <2>2, <1>3 DEF i
<1>5. 0 \in T
  BY <1>2
<1>6. ASSUME NEW k \in 0..(n-1), k \in T PROVE k + 1 \in T
  <2>1. k + 1 \in 1..n /\ k + 1 \in 0..n /\ k \in Nat
    BY <1>2
  <2>2. CASE k = 0
    BY <2>1, <2>2, <1>2, <1>1 DEF Chain
  <2>3. CASE k # 0
    <3>1. k \in 1..n /\ k \in 1..(n - 1)
      BY <2>1, <2>3, <1>2
    <3>2. Boundary(cells, cs[k].at - 1)
      BY <1>6, <3>1
    <3> DEFINE i == cs[k].at
    <3>3. i \in 1..Len(cells) /\ i \in Nat
      BY <1>3, <3>1
    <3>4. cs[k + 1].at = i + CellsOf(cells, i)
      <4>1. cs[k + 1].at = cs[k].at + cs[k].n
        BY <1>1, <3>1 DEF Chain
      <4>2. cs[k].n = CellsOf(cells, i)
        <5>1. cs[k] = [at |-> i, n |-> CellsOf(cells, i), ch |-> cells[i].ch]
          BY <1>4, <3>1
        <5> HIDE DEF i
        <5>2. [at |-> i, n |-> CellsOf(cells, i), ch |-> cells[i].ch].n = CellsOf(cells, i)
          OBVIOUS
        <5> QED BY <5>1, <5>2
      <4> QED BY <4>1, <4>2
    <3> HIDE DEF i
    <3>5. Boundary(cells, i - 1 + CellsOf(cells, i))
      BY <3>2, <3>3, CellsOfCell DEF i
    <3>6. CellsOf(cells, i) \in Nat
      BY DEF CellsOf
    <3>7. cs[k + 1].at - 1 = i - 1 + CellsOf(cells, i)
      BY <3>3, <3>4, <3>6
    <3> QED BY <3>5, <3>7, <2>1
  <2> QED BY <2>2, <2>3
<1>7. \A k \in 0..n : k \in T
  <2>1. T \in SUBSET Nat
    OBVIOUS
  <2> HIDE DEF T, n
  <2> QED BY <1>2, <1>5, <1>6, <2>1, Counting
<1>8. \A k \in 1..n : Boundary(cells, cs[k].at - 1)
  BY <1>7
<1> QED BY <1>1, <1>2, <1>3, <1>4, <1>8 DEF Chain, cs
-----------------------------------------------------------------------------
(* What the terminal shows while a line is drawn.                          *)

\* r is r0 with cells d + 1 to pos drawn, and what follows them, up to some column, erased.
Drawing(r, r0, cells, d, pos, upto, colors) ==
  /\ r.row = r0.row /\ r.col = pos /\ r.visible = r0.visible /\ r.scrolled = r0.scrolled
  /\ \A k \in 1..Height : k # r0.row => r.rows[k] = r0.rows[k]
  /\ \A i \in 1..MaxWidth :
       IF i \in (d + 1)..pos THEN Shows(r.rows[r0.row][i], cells[i], colors, 0)
       ELSE IF i \in (pos + 1)..upto THEN Empty(r.rows[r0.row][i])
       ELSE r.rows[r0.row][i] = r0.rows[r0.row][i]

\* The fixed characters are characters, and a space stays one.
LEMMA FixedType ==
  ASSUME NEW ch \in Nat
  PROVE  fixSpecialCharacters(ch) \in Nat /\ fixSpecialCharacters(32) = 32
BY DEF fixSpecialCharacters, DoubleBox, Question

\* A character is put behind those drawn.
LEMMA DrawingPut ==
  ASSUME NEW width \in Nat, width >= 1, width <= MaxWidth, NEW r \in RemoteType(width), NEW r0 \in RemoteType(width),
         NEW cells \in Seq(Cell), Paired(cells), Len(cells) <= width,
         NEW d \in Nat, NEW pos \in Nat, d <= pos, NEW upto \in {0, width}, NEW colors \in BOOLEAN,
         pos + 1 \in 1..Len(cells), Boundary(cells, pos),
         Drawing(r, r0, cells, d, pos, upto, colors),
         colors => r.color = cells[pos + 1].color
  PROVE  LET n == CellsOf(cells, pos + 1)
             q == Perform(r, Put(fixSpecialCharacters(cells[pos + 1].ch), n = 2))
         IN /\ Drawing(q, r0, cells, d, pos + n, upto, colors) /\ q.color = r.color
            /\ pos + n <= Len(cells) /\ Boundary(cells, pos + n)
            /\ Put(fixSpecialCharacters(cells[pos + 1].ch), n = 2) \in Ops(width)
<1> DEFINE i0 == pos + 1
           n == CellsOf(cells, i0)
           ch == fixSpecialCharacters(cells[i0].ch)
           wide == n = 2
           o == Put(ch, wide)
           q == Perform(r, o)
           row0 == r0.row
           row == [i \in 1..MaxWidth |->
                     IF i = pos + 1 THEN [ch |-> ch, part |-> IF wide THEN "left" ELSE "one", color |-> r.color]
                     ELSE IF wide /\ i = pos + 2 THEN [ch |-> ch, part |-> "right", color |-> r.color]
                     ELSE r.rows[row0][i]]
<1>1. /\ Height \in Nat /\ Height >= 1 /\ MaxWidth \in Nat
      /\ r.row = row0 /\ r.col = pos /\ r.width = width /\ r0.width = width /\ row0 \in 1..Height
      /\ r.rows \in [1..Height -> [1..MaxWidth -> Places]]
  BY ConstantsFit, RemoteFields DEF Drawing
<1>2. /\ n = IF cells[i0].half = "lead" THEN 2 ELSE 1
      /\ Boundary(cells, i0 - 1) => Boundary(cells, i0 - 1 + n)
  BY CellsOfCell
<1>3. i0 - 1 = pos
  OBVIOUS
<1>4. Boundary(cells, pos + n)
  BY <1>2, <1>3
<1>5. n \in 1..2 /\ pos + n <= Len(cells) /\ (n = 2 => i0 + 1 \in 1..Len(cells))
  BY <1>2 DEF Paired
<1>6. cells[i0] \in Cell /\ cells[i0].ch \in Nat /\ ch \in Nat
  <2>1. cells[i0] \in Cell
    OBVIOUS
  <2> QED BY <2>1, CellFields, FixedType
<1>7. o \in Ops(width)
  <2>1. wide => width >= 2
    BY <1>5
  <2> HIDE DEF n, ch
  <2> QED BY <2>1, <1>6 DEF Ops, Put
<1>8. q = [r EXCEPT !.rows[row0] = row, !.col = pos + n]
  <2>1. q = PutChar(r, ch, wide)
    <3> HIDE DEF n, ch
    <3> QED BY DEF Perform, Put
  <2>2. n = IF wide THEN 2 ELSE 1
    BY <1>5
  <2>3. ~(pos + n > width)
    BY <1>5, <1>1
  <2> HIDE DEF n, ch
  <2>4. PutChar(r, ch, wide) = [r EXCEPT !.rows[r.row] = [i \in 1..MaxWidth |->
                     IF i = r.col + 1 THEN [ch |-> ch, part |-> IF wide THEN "left" ELSE "one", color |-> r.color]
                     ELSE IF wide /\ i = r.col + 2 THEN [ch |-> ch, part |-> "right", color |-> r.color]
                     ELSE r.rows[r.row][i]], !.col = r.col + n]
    BY <2>2, <2>3, <1>1 DEF PutChar
  <2> QED BY <2>1, <2>4, <1>1
<1>9. /\ q.row = r.row /\ q.col = pos + n /\ q.visible = r.visible /\ q.scrolled = r.scrolled /\ q.color = r.color
      /\ q.rows = [r.rows EXCEPT ![row0] = row]
  <2> HIDE DEF row, n, q, row0
  <2>1. q = [r EXCEPT !.rows = [r.rows EXCEPT ![row0] = row], !.col = pos + n]
    BY <1>8
  <2> QED BY <2>1 DEF RemoteType
<1>10. q.rows[row0] = row /\ \A k \in 1..Height : k # row0 => q.rows[k] = r.rows[k]
  <2> HIDE DEF row, q, row0
  <2> QED BY <1>9, <1>1
<1>11. ASSUME NEW i \in 1..MaxWidth
       PROVE  IF i \in (d + 1)..(pos + n) THEN Shows(row[i], cells[i], colors, 0)
              ELSE IF i \in (pos + n + 1)..upto THEN Empty(row[i])
              ELSE row[i] = r0.rows[row0][i]
  <2>0. IF i \in (d + 1)..pos THEN Shows(r.rows[row0][i], cells[i], colors, 0)
        ELSE IF i \in (pos + 1)..upto THEN Empty(r.rows[row0][i])
        ELSE r.rows[row0][i] = r0.rows[row0][i]
    BY DEF Drawing
  <2>1. CASE i = pos + 1
    <3>1. row[i] = [ch |-> ch, part |-> IF wide THEN "left" ELSE "one", color |-> r.color]
      BY <2>1
    <3>2. cells[i0].half # "trail"
      BY DEF Boundary
    <3>3. PartOf(cells[i0]) = IF wide THEN "left" ELSE "one"
      BY <3>2, <1>2 DEF PartOf
    <3>4. Shows(row[i], cells[i], colors, 0)
      <4> HIDE DEF ch, n, row
      <4> QED BY <2>1, <3>1, <3>3, <1>6 DEF Shows, ch
    <3>5. i \in (d + 1)..(pos + n)
      BY <2>1, <1>5
    <3> QED BY <3>4, <3>5
  <2>2. CASE i = pos + 2 /\ wide
    <3>1. row[i] = [ch |-> ch, part |-> "right", color |-> r.color]
      BY <2>2
    <3>2. cells[i0].half = "lead"
      BY <2>2, <1>2
    <3>3. i0 + 1 = i /\ cells[i].half = "trail" /\ cells[i].ch = cells[i0].ch /\ cells[i].color = cells[i0].color
      BY <2>2, <3>2 DEF Paired
    <3>4. PartOf(cells[i]) = "right"
      BY <3>3 DEF PartOf
    <3>5. Shows(row[i], cells[i], colors, 0)
      <4> HIDE DEF n, row
      <4> QED BY <3>1, <3>3, <3>4 DEF Shows
    <3>6. i \in (d + 1)..(pos + n)
      BY <2>2, <1>5
    <3> QED BY <3>5, <3>6
  <2>3. CASE i # pos + 1 /\ ~(i = pos + 2 /\ wide)
    <3>1. row[i] = r.rows[row0][i]
      BY <2>3
    <3>2. i \in (d + 1)..(pos + n) <=> i \in (d + 1)..pos
      BY <2>3, <1>5
    <3>3. i \notin (d + 1)..pos => (i \in (pos + n + 1)..upto <=> i \in (pos + 1)..upto)
      <4>1. n \in {1, 2} /\ (n = 2 <=> wide) /\ pos \in Nat /\ i \in Int /\ upto \in Int /\ d \in Int
        BY <1>5, <1>1
      <4>2. i # pos + 1 /\ ~(i = pos + 2 /\ n = 2)
        BY <2>3, <4>1
      <4> HIDE DEF n, row, row0
      <4> QED BY <4>1, <4>2
    <3> HIDE DEF row, n, row0
    <3> QED BY <2>0, <3>1, <3>2, <3>3
  <2> QED BY <2>1, <2>2, <2>3
<1>12. Drawing(q, r0, cells, d, pos + n, upto, colors)
  <2>1. \A k \in 1..Height : k # r0.row => q.rows[k] = r0.rows[k]
    BY <1>10 DEF Drawing
  <2>2. r.visible = r0.visible /\ r.scrolled = r0.scrolled
    BY DEF Drawing
  <2> HIDE DEF row, n, q
  <2> QED BY <1>1, <1>9, <1>10, <1>11, <2>1, <2>2 DEF Drawing
<1> QED BY <1>4, <1>5, <1>7, <1>9, <1>12

\* The rest of the line is erased.
LEMMA DrawingErase ==
  ASSUME NEW width \in Nat, width >= 1, width <= MaxWidth, NEW r \in RemoteType(width), NEW r0 \in RemoteType(width),
         NEW cells, NEW d \in Nat, NEW pos \in Nat, d <= pos, pos < width, NEW colors \in BOOLEAN,
         Drawing(r, r0, cells, d, pos, 0, colors)
  PROVE  /\ Drawing(Perform(r, Op("EL")), r0, cells, d, pos, width, colors)
         /\ Perform(r, Op("EL")).color = r.color /\ Op("EL") \in Ops(width)
         /\ \A i \in (pos + 1)..width : Perform(r, Op("EL")).rows[r0.row][i].color = r.color
<1> DEFINE q == Perform(r, Op("EL"))
           row0 == r0.row
           row == [i \in 1..MaxWidth |-> IF i \in (pos + 1)..width THEN RemoteBlank(r.color) ELSE r.rows[row0][i]]
<1>1. /\ Height \in Nat /\ MaxWidth \in Nat /\ row0 \in 1..Height
      /\ r.row = row0 /\ r.col = pos /\ r.width = width /\ r0.width = width
      /\ r.rows \in [1..Height -> [1..MaxWidth -> Places]]
  BY ConstantsFit, RemoteFields DEF Drawing
<1>2. q = [r EXCEPT !.rows = [r.rows EXCEPT ![row0] = row]]
  BY <1>1 DEF Perform, Op, EraseToEol
<1> HIDE DEF row0
<1>3. /\ q.row = r.row /\ q.col = pos /\ q.visible = r.visible /\ q.scrolled = r.scrolled /\ q.color = r.color
      /\ q.rows = [r.rows EXCEPT ![row0] = row]
  <2> HIDE DEF row, q
  <2> QED BY <1>1, <1>2 DEF RemoteType
<1>4. q.rows[row0] = row /\ \A k \in 1..Height : k # row0 => q.rows[k] = r.rows[k]
  <2> HIDE DEF row, q
  <2> QED BY <1>3, <1>1
<1>5. ASSUME NEW i \in 1..MaxWidth
      PROVE  IF i \in (d + 1)..pos THEN Shows(row[i], cells[i], colors, 0)
             ELSE IF i \in (pos + 1)..width THEN Empty(row[i])
             ELSE row[i] = r0.rows[row0][i]
  <2>0. IF i \in (d + 1)..pos THEN Shows(r.rows[row0][i], cells[i], colors, 0)
        ELSE r.rows[row0][i] = r0.rows[row0][i]
    BY DEF Drawing, row0
  <2>1. CASE i \in (pos + 1)..width
    <3>1. row[i] = RemoteBlank(r.color) /\ i \notin (d + 1)..pos
      BY <2>1
    <3> HIDE DEF row
    <3>2. Empty(row[i])
      BY <3>1 DEF Empty, RemoteBlank
    <3> QED BY <3>1, <3>2, <2>1
  <2>2. CASE i \notin (pos + 1)..width
    <3>1. row[i] = r.rows[row0][i]
      BY <2>2
    <3> HIDE DEF row
    <3> QED BY <3>1, <2>0, <2>2, <1>1
  <2> QED BY <2>1, <2>2
<1>6. Drawing(q, r0, cells, d, pos, width, colors)
  <2>1. \A k \in 1..Height : k # r0.row => r.rows[k] = r0.rows[k]
    BY DEF Drawing
  <2>2. r.visible = r0.visible /\ r.scrolled = r0.scrolled
    BY DEF Drawing
  <2> HIDE DEF row, q
  <2> QED BY <1>1, <1>3, <1>4, <1>5, <2>1, <2>2 DEF Drawing, row0
<1>7. Op("EL") \in Ops(width)
  BY DEF Op, Ops
<1>8. \A i \in (pos + 1)..width : q.rows[row0][i].color = r.color
  <2> HIDE DEF q
  <2>1. \A i \in (pos + 1)..width : i \in 1..MaxWidth
    BY <1>1
  <2> QED BY <2>1, <1>4 DEF RemoteBlank
<1> QED BY <1>3, <1>6, <1>7, <1>8 DEF row0

\* Setting the colour changes no cell that has been drawn.
LEMMA DrawingColor ==
  ASSUME NEW width \in Nat, width >= 1, NEW r \in RemoteType(width), NEW r0 \in RemoteType(width),
         NEW cells, NEW d, NEW pos, NEW upto, NEW colors, NEW color \in Nat,
         Drawing(r, r0, cells, d, pos, upto, colors)
  PROVE  /\ Drawing(Perform(r, [op |-> "SGR", color |-> color]), r0, cells, d, pos, upto, colors)
         /\ Perform(r, [op |-> "SGR", color |-> color]).color = color
         /\ [op |-> "SGR", color |-> color] \in Ops(width)
<1> DEFINE o == [op |-> "SGR", color |-> color]
           q == Perform(r, o)
<1>1. q = [r EXCEPT !.color = color]
  BY DEF Perform, NoColor
<1>2. /\ q.row = r.row /\ q.col = r.col /\ q.visible = r.visible /\ q.scrolled = r.scrolled /\ q.color = color
      /\ q.rows = r.rows
  <2> HIDE DEF q
  <2> QED BY <1>1 DEF RemoteType
<1>3. o \in Ops(width)
  BY DEF Ops
<1> HIDE DEF q
<1>4. Drawing(q, r0, cells, d, pos, upto, colors)
  BY <1>2 DEF Drawing
<1> QED BY <1>2, <1>3, <1>4 DEF q
-----------------------------------------------------------------------------
(* Drawing a line: the operations, and how many of them are kept.          *)

Accs(width) ==
  [ops : Seq(Ops(width)), kept : Nat, cells : Nat, color : Nat \union {NoColor}, erased : BOOLEAN]

Begun(t) == [ops |-> <<>>, kept |-> 0, cells |-> Len(t.data), color |-> t.color, erased |-> FALSE]

\* What Draw makes of it, part by part.
Recolored(t, cells, acc, g) == t.outputColor /\ cells[g.at].color # acc.color
ColorOps(t, cells, acc, g) ==
  IF Recolored(t, cells, acc, g) THEN Append(acc.ops, [op |-> "SGR", color |-> cells[g.at].color]) ELSE acc.ops
EndsLine(cells, g) == g.at - 1 + g.n = Len(cells)
EraseOps(t, cells, acc, g) ==
  IF EndsLine(cells, g) /\ ~t.plain THEN Append(ColorOps(t, cells, acc, g), Op("EL")) ELSE ColorOps(t, cells, acc, g)
PutOf(cells, g) == Put(fixSpecialCharacters(g.ch), CellsOf(cells, g.at) = 2)

DrawnFrom(e, t, cells, acc, g, width) ==
  /\ e \in Accs(width)
  /\ ColorOps(t, cells, acc, g) \in Seq(Ops(width)) /\ EraseOps(t, cells, acc, g) \in Seq(Ops(width))
  /\ e.color = IF Recolored(t, cells, acc, g) THEN cells[g.at].color ELSE acc.color
  /\ g.ch = 32 =>
       /\ e.ops = Append(ColorOps(t, cells, acc, g), Put(32, FALSE))
       /\ e.kept = IF Recolored(t, cells, acc, g) THEN Len(acc.ops) + 1 ELSE acc.kept
       /\ e.cells = IF Recolored(t, cells, acc, g) THEN g.at - 1 ELSE acc.cells
       /\ e.erased = acc.erased
  /\ g.ch # 32 =>
       /\ e.ops = Append(EraseOps(t, cells, acc, g), PutOf(cells, g))
       /\ e.kept = Len(e.ops) /\ e.cells = g.at - 1 + g.n
       /\ e.erased = (acc.erased \/ EndsLine(cells, g))

\* What Draw makes of its accumulator, field by field.
LEMMA DrawParts ==
  ASSUME NEW width \in Nat, NEW t, t.outputColor \in BOOLEAN, t.plain \in BOOLEAN, NEW cells \in Seq(Cell), NEW acc \in Accs(width),
         NEW g \in Characteristic, g.at \in 1..Len(cells), PutOf(cells, g) \in Ops(width)
  PROVE  DrawnFrom(Draw(t, cells, acc, g), t, cells, acc, g, width)
<1> DEFINE color == cells[g.at].color
           sgr == [op |-> "SGR", color |-> color]
           changed == Recolored(t, cells, acc, g)
           a == IF changed THEN [acc EXCEPT !.ops = Append(@, sgr), !.kept = Len(acc.ops) + 1, !.cells = g.at - 1, !.color = color]
                ELSE acc
           last == EndsLine(cells, g)
           put == PutOf(cells, g)
           ops == a.ops \o (IF last /\ ~t.plain THEN <<Op("EL")>> ELSE <<>>) \o <<put>>
           e == Draw(t, cells, acc, g)
<1>1. color \in Nat /\ g.at \in Nat /\ g.at >= 1 /\ g.n \in Nat
  BY CellFields DEF Characteristic
<1>2. e = IF g.ch = 32 THEN [a EXCEPT !.ops = Append(@, Put(32, FALSE))]
          ELSE [a EXCEPT !.ops = ops, !.kept = Len(ops), !.cells = g.at - 1 + g.n, !.erased = @ \/ last]
  BY DEF Draw, PutOf, EndsLine, Recolored
<1> HIDE DEF e
<1>3. sgr \in Ops(width) /\ Op("EL") \in Ops(width) /\ Put(32, FALSE) \in Ops(width)
  <2>1. sgr \in Ops(width)
    <3> HIDE DEF color
    <3> QED BY <1>1 DEF Ops
  <2>2. Op("EL") \in Ops(width)
    BY DEF Ops, Op
  <2>3. Put(32, FALSE) \in Ops(width)
    BY DEF Ops, Put
  <2> QED BY <2>1, <2>2, <2>3
<1>4. acc.ops \in Seq(Ops(width)) /\ acc.kept \in Nat /\ acc.cells \in Nat /\ acc.color \in Nat \union {NoColor}
      /\ acc.erased \in BOOLEAN
  BY DEF Accs
<1> HIDE DEF sgr, color, put, changed, last
<1>5. /\ a \in Accs(width)
      /\ a.ops = IF changed THEN Append(acc.ops, sgr) ELSE acc.ops
      /\ a.kept = IF changed THEN Len(acc.ops) + 1 ELSE acc.kept
      /\ a.cells = IF changed THEN g.at - 1 ELSE acc.cells
      /\ a.color = IF changed THEN color ELSE acc.color
      /\ a.erased = acc.erased
  <2>1. CASE changed
    <3>1. Append(acc.ops, sgr) \in Seq(Ops(width)) /\ Len(acc.ops) + 1 \in Nat /\ g.at - 1 \in Nat
      BY <1>1, <1>3, <1>4
    <3>2. a = [acc EXCEPT !.ops = Append(acc.ops, sgr), !.kept = Len(acc.ops) + 1, !.cells = g.at - 1, !.color = color]
      BY <2>1
    <3> HIDE DEF a
    <3> QED BY <2>1, <1>1, <3>1, <3>2 DEF Accs
  <2>2. CASE ~changed
    BY <2>2
  <2> QED BY <2>1, <2>2
<1>6. a.ops = ColorOps(t, cells, acc, g)
  BY <1>5 DEF ColorOps, changed, sgr, color
<1> HIDE DEF a
<1>7. a.ops \in Seq(Ops(width)) /\ a.kept \in Nat /\ a.cells \in Nat /\ a.color \in Nat \union {NoColor} /\ a.erased \in BOOLEAN
  BY <1>5 DEF Accs
<1>8. CASE g.ch = 32
  <2>1. e = [a EXCEPT !.ops = Append(a.ops, Put(32, FALSE))]
    BY <1>2, <1>8
  <2>2. Append(a.ops, Put(32, FALSE)) \in Seq(Ops(width))
    <3> DEFINE p == Put(32, FALSE)
    <3> HIDE DEF p
    <3>1. p \in Ops(width)
      BY <1>3 DEF p
    <3>2. Append(a.ops, p) \in Seq(Ops(width))
      BY <3>1, <1>7
    <3> QED BY <3>2 DEF p
  <2>3. e \in Accs(width) /\ e.ops = Append(a.ops, Put(32, FALSE)) /\ e.kept = a.kept /\ e.cells = a.cells
        /\ e.color = a.color /\ e.erased = a.erased
    BY <2>1, <2>2, <1>5 DEF Accs
  <2>4. EraseOps(t, cells, acc, g) \in Seq(Ops(width))
    BY <1>3, <1>6, <1>7 DEF EraseOps
  <2> QED BY <2>3, <2>4, <1>5, <1>6, <1>7, <1>8 DEF e, changed, color, DrawnFrom
<1>9. CASE g.ch # 32
  <2>1. ops = Append(EraseOps(t, cells, acc, g), put) /\ EraseOps(t, cells, acc, g) \in Seq(Ops(width))
    <3>1. CASE last /\ ~t.plain
      <4>1. EraseOps(t, cells, acc, g) = Append(a.ops, Op("EL"))
        BY <3>1, <1>6 DEF EraseOps, last
      <4>2. ops = a.ops \o <<Op("EL")>> \o <<put>>
        BY <3>1
      <4> HIDE DEF ops
      <4> QED BY <4>1, <4>2, <1>3, <1>7 DEF put
    <3>2. CASE ~(last /\ ~t.plain)
      <4>1. EraseOps(t, cells, acc, g) = a.ops
        BY <3>2, <1>6 DEF EraseOps, last
      <4>2. ops = a.ops \o <<>> \o <<put>>
        BY <3>2
      <4> HIDE DEF ops
      <4> QED BY <4>1, <4>2, <1>3, <1>7 DEF put
    <3> QED BY <3>1, <3>2
  <2> HIDE DEF ops
  <2>2. ops \in Seq(Ops(width)) /\ Len(ops) \in Nat /\ g.at - 1 + g.n \in Nat /\ (a.erased \/ last) \in BOOLEAN
    <3>1. put \in Ops(width)
      BY DEF put
    <3>2. ops \in Seq(Ops(width))
      BY <2>1, <3>1
    <3>3. (a.erased \/ last) \in BOOLEAN
      OBVIOUS
    <3> QED BY <1>1, <3>2, <3>3
  <2>3. e = [a EXCEPT !.ops = ops, !.kept = Len(ops), !.cells = g.at - 1 + g.n, !.erased = (a.erased \/ last)]
    BY <1>2, <1>9
  <2>4. e \in Accs(width) /\ e.ops = ops /\ e.kept = Len(ops) /\ e.cells = g.at - 1 + g.n /\ e.color = a.color
        /\ e.erased = (a.erased \/ last)
    BY <2>2, <2>3, <1>5 DEF Accs
  <2> QED BY <2>1, <2>4, <1>5, <1>6, <1>7, <1>9 DEF e, changed, color, put, last, DrawnFrom
<1> QED BY <1>8, <1>9

DrawTable(at, cs, t, cells) ==
  /\ at[0] = Begun(t) /\ at[Len(cs)] = Drawn(t, cells)
  /\ \A k \in 1..Len(cs) : at[k] = Draw(t, cells, at[k - 1], cs[k])

\* Drawn goes through the characters of the line one by one.
LEMMA DrawnTable ==
  ASSUME NEW width \in Nat, width >= 1, NEW cells \in Seq(Cell), Paired(cells), Len(cells) <= width,
         NEW t, t.data \in Seq(Cell), Len(t.data) <= Len(cells), Boundary(cells, Len(t.data)),
         t.color \in Nat \union {NoColor}, t.plain \in BOOLEAN, t.outputColor \in BOOLEAN
  PROVE  LET cs == Characters(cells, Len(t.data) + 1)
         IN \E at \in [0..Len(cs) -> Accs(width)] : DrawTable(at, cs, t, cells)
<1> DEFINE cs == Characters(cells, Len(t.data) + 1)
           n == Len(cs)
           A == Accs(width)
           a == Begun(t)
           step == [k \in 1..n |-> [x \in A |-> Draw(t, cells, x, cs[k])]]
           Eq(it) == it = [s \in SUBSET (DOMAIN cs) |-> IF s = {} THEN a ELSE Draw(t, cells, it[s \ {Max(s)}], cs[Max(s)])]
           it == CHOOSE iter : Eq(iter)
<1>0. /\ cs \in Seq(Characteristic)
      /\ \A k \in 1..n : /\ cs[k].at \in (Len(t.data) + 1)..Len(cells)
                         /\ cs[k] = [at |-> cs[k].at, n |-> CellsOf(cells, cs[k].at), ch |-> cells[cs[k].at].ch]
  <2>1. Len(t.data) \in 0..Len(cells)
    OBVIOUS
  <2> QED BY <2>1, CellCharacters
<1>7. Drawn(t, cells) = it[DOMAIN cs]
  BY DEF Drawn, FoldLeft, MapThenFoldSet, Begun
<1> HIDE DEF cs
<1>1. n \in Nat /\ DOMAIN cs = 1..n
  BY <1>0
<1>a. a \in A
  BY DEF Accs, Begun
<1>2. step \in [1..n -> [A -> A]]
  <2>1. ASSUME NEW k \in 1..n, NEW x \in A PROVE Draw(t, cells, x, cs[k]) \in A
    <3> DEFINE g == cs[k]
    <3>1. g \in Characteristic /\ g.at \in 1..Len(cells)
      <4>1. Len(t.data) \in Nat
        OBVIOUS
      <4>2. cs[k].at \in (Len(t.data) + 1)..Len(cells)
        BY <1>0
      <4>3. cs[k] \in Characteristic
        BY <1>0
      <4> QED BY <4>1, <4>2, <4>3
    <3>2. PutOf(cells, g) \in Ops(width)
      <4>1. g.ch \in Nat
        BY <3>1 DEF Characteristic
      <4>2. fixSpecialCharacters(g.ch) \in Nat
        BY <4>1, FixedType
      <4>3. CellsOf(cells, g.at) = 2 => width >= 2
        BY <3>1 DEF CellsOf, isFullWidthCharacter
      <4> HIDE DEF g
      <4> QED BY <4>2, <4>3 DEF PutOf, Put, Ops
    <3> HIDE DEF g
    <3>3. x \in Accs(width)
      OBVIOUS
    <3> HIDE DEF A
    <3>4. Draw(t, cells, x, g) \in Accs(width)
      <4>1. DrawnFrom(Draw(t, cells, x, g), t, cells, x, g, width)
        BY <3>1, <3>2, <3>3, DrawParts
      <4> QED BY <4>1 DEF DrawnFrom
    <3> QED BY <3>4 DEF g, A
  <2> HIDE DEF A, n
  <2> QED BY <2>1
<1>3. PICK f \in [SUBSET (1..n) -> A] : Table(f, n, a, step)
  <2> HIDE DEF A, n, step, a
  <2> QED BY <1>1, <1>2, <1>a, TableExists
<1>4. Eq(f)
  <2>1. ASSUME NEW s \in SUBSET (1..n), s # {}
        PROVE  step[Max(s)][f[s \ {Max(s)}]] = Draw(t, cells, f[s \ {Max(s)}], cs[Max(s)])
    <3>1. Max(s) \in 1..n
      <4> HIDE DEF n
      <4> QED BY <1>1, <2>1, MaxIn
    <3>2. f[s \ {Max(s)}] \in A
      OBVIOUS
    <3> HIDE DEF A, n
    <3> QED BY <3>1, <3>2
  <2>2. f = [s \in SUBSET (1..n) |-> IF s = {} THEN a ELSE step[Max(s)][f[s \ {Max(s)}]]]
    BY <1>3 DEF Table
  <2> HIDE DEF n, step, a
  <2>3. f = [s \in SUBSET (1..n) |-> IF s = {} THEN a ELSE Draw(t, cells, f[s \ {Max(s)}], cs[Max(s)])]
    BY <2>1, <2>2, Zenon
  <2> QED BY <2>3, <1>1
<1>5. Eq(it)
  BY <1>4
<1>8. MadeUpTo(it, n, a, step, A)
  <2>1. \A s \in SUBSET (1..n) : it[s] = IF s = {} THEN a ELSE Draw(t, cells, it[s \ {Max(s)}], cs[Max(s)])
    <3> HIDE DEF it, a
    <3> QED BY <1>5, <1>1
  <2>2. TableOn(it, n, a, step, A)
    <3> SUFFICES ASSUME NEW s \in SUBSET (1..n), s # {}, it[s \ {Max(s)}] \in A
                 PROVE  it[s] = step[Max(s)][it[s \ {Max(s)}]]
      <4> HIDE DEF it, A, step, n, a
      <4> QED BY <2>1 DEF TableOn
    <3>1. Max(s) \in 1..n
      <4> HIDE DEF n
      <4> QED BY <1>1, MaxIn
    <3>2. step[Max(s)][it[s \ {Max(s)}]] = Draw(t, cells, it[s \ {Max(s)}], cs[Max(s)])
      <4> HIDE DEF A, n, it
      <4> QED BY <3>1
    <3> HIDE DEF A, n, it, step, a
    <3> QED BY <3>2, <2>1
  <2> HIDE DEF A, n, it, step, a
  <2> QED BY <1>1, <1>2, <1>a, <2>2, TablePrefixes
<1> DEFINE at == [k \in 0..n |-> it[1..k]]
<1> HIDE DEF A, n, it, a
<1>9. at \in [0..n -> A] /\ at[0] = a /\ at[n] = Drawn(t, cells)
  BY <1>1, <1>7, <1>8 DEF MadeUpTo
<1>10. ASSUME NEW k \in 1..n PROVE at[k] = Draw(t, cells, at[k - 1], cs[k])
  <2>1. k - 1 \in 0..n /\ k \in 0..n
    BY <1>1
  <2>2. it[1..(k - 1)] \in A /\ it[1..k] = step[k][it[1..(k - 1)]]
    BY <2>1, <1>8 DEF MadeUpTo
  <2>3. step[k][it[1..(k - 1)]] = Draw(t, cells, it[1..(k - 1)], cs[k])
    BY <2>2
  <2> QED BY <2>1, <2>2, <2>3
<1> HIDE DEF at
<1> QED BY <1>9, <1>10 DEF A, n, a, cs, DrawTable

\* What is known of it when the cells up to pos have been drawn.
Quiet(t, cells) ==
  \A i, j \in (Len(t.data) + 1)..Len(cells) :
    cells[i].ch = 32 /\ (t.outputColor => cells[i].color = cells[j].color)

DrawnData(acc, pos, t, cells) ==
  /\ acc.kept <= Len(acc.ops)
  /\ Len(t.data) <= acc.cells /\ acc.cells <= pos /\ pos <= Len(cells)
  /\ Boundary(cells, acc.cells)
  /\ \A i \in (acc.cells + 1)..pos : cells[i].ch = 32 /\ (t.outputColor => cells[i].color = acc.color)
  /\ Len(t.data) < Len(cells) /\ ~acc.erased => acc.cells < Len(cells)
  /\ acc.erased => acc.cells = Len(cells)
  /\ \A i \in 1..Len(acc.ops) : acc.ops[i].op \in {"put", "SGR", "EL"} /\ (t.plain => acc.ops[i].op # "EL")
  /\ Quiet(t, cells) => /\ \A i \in 1..acc.kept : acc.ops[i].op = "SGR"
                        /\ IF pos = Len(t.data) THEN acc.ops = <<>>
                           ELSE t.outputColor => acc.color = cells[pos].color

DrawnShown(acc, pos, t, cells, r0) ==
  LET r == PerformAll(r0, acc.ops)
      kept == PerformAll(r0, SubSeq(acc.ops, 1, acc.kept))
      upto == IF acc.erased THEN r0.width ELSE 0
  IN /\ Drawing(r, r0, cells, Len(t.data), pos, upto, t.outputColor)
     /\ Drawing(kept, r0, cells, Len(t.data), acc.cells, upto, t.outputColor)
     /\ acc.color # NoColor => r.color = acc.color /\ kept.color = acc.color

\* Hypotheses on the line drawn and the terminal it is drawn on.
Drawable(t, cells, width) ==
  /\ width \in Nat /\ width >= 1 /\ width <= MaxWidth
  /\ cells \in Seq(Cell) /\ Paired(cells) /\ Len(cells) <= width
  /\ t.data \in Seq(Cell) /\ Len(t.data) <= Len(cells) /\ Boundary(cells, Len(t.data))
  /\ t.color \in Nat \union {NoColor} /\ t.plain \in BOOLEAN /\ t.outputColor \in BOOLEAN

\* One character more: what is known of the operations.
LEMMA DrawnDataStep ==
  ASSUME NEW width, NEW t, NEW cells, Drawable(t, cells, width), NEW acc \in Accs(width), NEW pos \in Nat,
         DrawnData(acc, pos, t, cells),
         NEW g \in Characteristic, g.at = pos + 1, g.n = CellsOf(cells, pos + 1), g.ch = cells[pos + 1].ch,
         pos + 1 \in 1..Len(cells), Boundary(cells, pos)
  PROVE  DrawnData(Draw(t, cells, acc, g), pos + g.n, t, cells) /\ Boundary(cells, pos + g.n)
         /\ DrawnFrom(Draw(t, cells, acc, g), t, cells, acc, g, width)
         /\ ~acc.erased /\ PutOf(cells, g) \in Ops(width)
<1> DEFINE e == Draw(t, cells, acc, g)
           d == Len(t.data)
           cell == cells[pos + 1]
           changed == Recolored(t, cells, acc, g)
           ops1 == ColorOps(t, cells, acc, g)
           ops2 == EraseOps(t, cells, acc, g)
           put == PutOf(cells, g)
           sgr == [op |-> "SGR", color |-> cell.color]
<1>1. /\ d \in Nat /\ Len(cells) \in Nat /\ d <= pos /\ cells \in Seq(Cell) /\ Paired(cells)
      /\ t.plain \in BOOLEAN /\ t.outputColor \in BOOLEAN /\ width \in Nat /\ Len(cells) <= width
  BY DEF DrawnData, Accs, Drawable
<1>2. cell \in Cell /\ cell.ch \in Nat /\ cell.color \in Nat /\ (cell.half # "none" => cell.ch # 32)
  BY <1>1, CellFields
<1>3. /\ g.n = IF cell.half = "lead" THEN 2 ELSE 1
      /\ Boundary(cells, pos + g.n)
  BY <1>1, CellsOfCell
<1>4. pos + g.n <= Len(cells) /\ g.n \in 1..2
  BY <1>1, <1>3 DEF Paired
<1>5. put \in Ops(width)
  <2>1. fixSpecialCharacters(g.ch) \in Nat
    BY <1>2, FixedType
  <2>2. CellsOf(cells, g.at) = 2 => width >= 2
    BY <1>1, <1>3, <1>4
  <2> QED BY <2>1, <2>2 DEF PutOf, Put, Ops
<1> HIDE DEF put
<1>6. DrawnFrom(e, t, cells, acc, g, width)
  <2>1. g.at \in 1..Len(cells)
    OBVIOUS
  <2> HIDE DEF e
  <2> QED BY <1>1, <1>5, <2>1, DrawParts DEF e, put
<1>7. /\ acc.kept <= Len(acc.ops) /\ d <= acc.cells /\ acc.cells <= pos /\ Boundary(cells, acc.cells)
      /\ \A i \in (acc.cells + 1)..pos : cells[i].ch = 32 /\ (t.outputColor => cells[i].color = acc.color)
      /\ acc.erased => acc.cells = Len(cells)
      /\ \A i \in 1..Len(acc.ops) : acc.ops[i].op \in {"put", "SGR", "EL"} /\ (t.plain => acc.ops[i].op # "EL")
      /\ Quiet(t, cells) => /\ \A i \in 1..acc.kept : acc.ops[i].op = "SGR"
                            /\ IF pos = d THEN acc.ops = <<>>
                               ELSE t.outputColor => acc.color = cells[pos].color
  BY DEF DrawnData
<1>8. /\ acc.ops \in Seq(Ops(width)) /\ acc.kept \in Nat /\ acc.cells \in Nat /\ acc.erased \in BOOLEAN
      /\ acc.color \in Nat \union {NoColor}
  BY DEF Accs
<1>9. ~acc.erased
  BY <1>7, <1>8, <1>1
<1>10. /\ e \in Accs(width) /\ ops1 \in Seq(Ops(width)) /\ ops2 \in Seq(Ops(width))
       /\ e.color = IF changed THEN cell.color ELSE acc.color
       /\ g.ch = 32 => /\ e.ops = Append(ops1, Put(32, FALSE))
                       /\ e.kept = IF changed THEN Len(acc.ops) + 1 ELSE acc.kept
                       /\ e.cells = IF changed THEN g.at - 1 ELSE acc.cells
                       /\ e.erased = acc.erased
       /\ g.ch # 32 => /\ e.ops = Append(ops2, put) /\ e.kept = Len(e.ops) /\ e.cells = g.at - 1 + g.n
                       /\ e.erased = (acc.erased \/ EndsLine(cells, g))
  BY <1>6 DEF DrawnFrom, put
<1> HIDE DEF e, ops1, ops2
<1>11. ops1 = IF changed THEN Append(acc.ops, sgr) ELSE acc.ops
  BY DEF ColorOps, ops1
<1>12. ops2 = IF EndsLine(cells, g) /\ ~t.plain THEN Append(ops1, Op("EL")) ELSE ops1
  BY DEF EraseOps, ops1, ops2
<1>13. (changed <=> t.outputColor /\ cell.color # acc.color) /\ (t.outputColor => e.color = cell.color)
  BY <1>10 DEF Recolored
<1> HIDE DEF changed
<1>14. put.op = "put" /\ Put(32, FALSE).op = "put" /\ sgr.op = "SGR" /\ Op("EL").op = "EL"
  BY DEF PutOf, Put, Op, put
<1> HIDE DEF sgr
<1>s. sgr \in Ops(width) /\ Op("EL") \in Ops(width) /\ Put(32, FALSE) \in Ops(width)
  BY <1>2 DEF Ops, sgr, Op, Put
<1>15. \A i \in 1..Len(ops1) : ops1[i].op \in {"put", "SGR", "EL"} /\ (t.plain => ops1[i].op # "EL")
  BY <1>7, <1>8, <1>11, <1>14, <1>s
<1>16. \A i \in 1..Len(ops2) : ops2[i].op \in {"put", "SGR", "EL"} /\ (t.plain => ops2[i].op # "EL")
  BY <1>10, <1>12, <1>14, <1>15, <1>s
<1>17. \A i \in 1..Len(e.ops) : e.ops[i].op \in {"put", "SGR", "EL"} /\ (t.plain => e.ops[i].op # "EL")
  <2>1. CASE g.ch = 32
    <3> DEFINE p == Put(32, FALSE)
    <3>1. e.ops = Append(ops1, p) /\ p \in Ops(width) /\ p.op = "put"
      BY <2>1, <1>10, <1>14, <1>s
    <3> HIDE DEF p
    <3> QED BY <3>1, <1>10, <1>15
  <2>2. CASE g.ch # 32
    <3>1. e.ops = Append(ops2, put)
      BY <2>2, <1>10
    <3> QED BY <3>1, <1>5, <1>10, <1>14, <1>16
  <2> QED BY <2>1, <2>2
<1>18. CASE g.ch = 32
  <2> DEFINE p == Put(32, FALSE)
  <2>0. p \in Ops(width)
    BY <1>s
  <2> HIDE DEF p
  <2>1. /\ e.ops = Append(ops1, p)
        /\ e.kept = IF changed THEN Len(acc.ops) + 1 ELSE acc.kept
        /\ e.cells = IF changed THEN pos ELSE acc.cells
        /\ ~e.erased /\ g.n = 1
    <3>1. g.n = 1
      BY <1>18, <1>2, <1>3
    <3>2. g.at - 1 = pos
      OBVIOUS
    <3> QED BY <1>9, <1>10, <1>18, <3>1, <3>2 DEF p
  <2>2. Len(e.ops) = Len(ops1) + 1 /\ Len(ops1) = (IF changed THEN Len(acc.ops) + 1 ELSE Len(acc.ops))
        /\ \A i \in 1..Len(ops1) : e.ops[i] = ops1[i]
    BY <1>8, <1>11, <1>s, <2>1, <1>10, <2>0
  <2>3. e.kept <= Len(e.ops) /\ d <= e.cells /\ e.cells <= pos + g.n
    <3>1. Len(acc.ops) \in Nat /\ acc.kept \in Nat /\ acc.cells \in Nat /\ acc.kept <= Len(acc.ops)
      BY <1>7, <1>8
    <3>2. e.kept <= Len(e.ops)
      BY <3>1, <2>1, <2>2
    <3>3. d <= e.cells /\ e.cells <= pos
      BY <2>1, <1>7, <1>1
    <3>4. e.cells \in Nat /\ g.n = 1
      BY <3>1, <2>1
    <3> HIDE DEF d
    <3> QED BY <3>2, <3>3, <3>4
  <2>4. Boundary(cells, e.cells)
    BY <2>1, <1>7
  <2>5. \A i \in (e.cells + 1)..(pos + g.n) : cells[i].ch = 32 /\ (t.outputColor => cells[i].color = e.color)
    <3> SUFFICES ASSUME NEW i \in (e.cells + 1)..(pos + g.n)
                 PROVE  cells[i].ch = 32 /\ (t.outputColor => cells[i].color = e.color)
      OBVIOUS
    <3>1. CASE i = pos + 1
      BY <3>1, <1>18, <1>13
    <3>2. CASE i # pos + 1
      BY <3>2, <2>1, <1>8, <1>7, <1>10
    <3> QED BY <3>1, <3>2
  <2>6. d < Len(cells) /\ ~e.erased => e.cells < Len(cells)
    BY <2>1, <1>7, <1>8, <1>1
  <2>7. ASSUME Quiet(t, cells)
        PROVE  /\ \A i \in 1..e.kept : e.ops[i].op = "SGR"
               /\ pos + g.n # d
               /\ t.outputColor => e.color = cells[pos + g.n].color
    <3>1. pos + g.n # d /\ pos + g.n = pos + 1
      BY <2>1, <1>1
    <3>2. t.outputColor => e.color = cells[pos + g.n].color
      BY <3>1, <1>13
    <3>3. ASSUME changed PROVE pos = d /\ acc.ops = <<>>
      <4>1. SUFFICES ASSUME pos # d PROVE FALSE
        BY <2>7, <1>7
      <4>2. acc.color = cells[pos].color
        BY <4>1, <2>7, <1>7, <1>13, <3>3
      <4>3. pos \in (d + 1)..Len(cells) /\ pos + 1 \in (d + 1)..Len(cells)
        BY <4>1, <1>1
      <4>4. cells[pos].color = cell.color
        BY <4>3, <2>7, <1>13, <3>3 DEF Quiet
      <4> QED BY <4>2, <4>4, <1>13, <3>3
    <3>4. \A i \in 1..e.kept : e.ops[i].op = "SGR"
      BY <3>3, <2>1, <1>11, <1>s, <2>2, <1>14, <1>7, <1>8, <2>7
    <3> QED BY <3>1, <3>2, <3>4
  <2> QED BY <2>1, <2>3, <2>4, <2>5, <2>6, <2>7, <1>3, <1>4, <1>5, <1>6, <1>9, <1>17 DEF DrawnData, e, put
<1>19. CASE g.ch # 32
  <2>1. /\ e.ops = Append(ops2, put) /\ e.kept = Len(e.ops) /\ e.cells = pos + g.n
        /\ (e.erased <=> EndsLine(cells, g))
    <3>1. g.at - 1 + g.n = pos + g.n
      BY <1>4
    <3> QED BY <3>1, <1>9, <1>10, <1>19
  <2>2. EndsLine(cells, g) <=> pos + g.n = Len(cells)
    BY <1>4 DEF EndsLine
  <2>3. e.kept <= Len(e.ops) /\ d <= e.cells /\ e.cells <= pos + g.n
    BY <2>1, <1>5, <1>10, <1>1, <1>4
  <2>4. \A i \in (e.cells + 1)..(pos + g.n) : FALSE
    BY <2>1, <1>4
  <2>5. ~Quiet(t, cells)
    BY <1>1, <1>19 DEF Quiet
  <2> QED BY <2>1, <2>2, <2>3, <2>4, <2>5, <1>3, <1>4, <1>5, <1>6, <1>9, <1>17, <1>1 DEF DrawnData, e, put
<1> QED BY <1>18, <1>19

\* One character more: what the terminal shows.
LEMMA DrawnShownStep ==
  ASSUME NEW width, NEW t, NEW cells, Drawable(t, cells, width), ~t.plain, NEW acc \in Accs(width), NEW pos \in Nat,
         NEW r0 \in RemoteType(width),
         DrawnData(acc, pos, t, cells), DrawnShown(acc, pos, t, cells, r0),
         NEW g \in Characteristic, g.at = pos + 1, g.n = CellsOf(cells, pos + 1), g.ch = cells[pos + 1].ch,
         pos + 1 \in 1..Len(cells), Boundary(cells, pos)
  PROVE  DrawnShown(Draw(t, cells, acc, g), pos + g.n, t, cells, r0)
<1> DEFINE e == Draw(t, cells, acc, g)
           d == Len(t.data)
           cell == cells[pos + 1]
           changed == Recolored(t, cells, acc, g)
           ops1 == ColorOps(t, cells, acc, g)
           ops2 == EraseOps(t, cells, acc, g)
           put == PutOf(cells, g)
           sgr == [op |-> "SGR", color |-> cell.color]
           colors == t.outputColor
           R == PerformAll(r0, acc.ops)
           K == PerformAll(r0, SubSeq(acc.ops, 1, acc.kept))
           R1 == PerformAll(r0, ops1)
           R2 == PerformAll(r0, ops2)
           n == g.n
<1>1. /\ d \in Nat /\ Len(cells) \in Nat /\ cells \in Seq(Cell) /\ Paired(cells) /\ colors \in BOOLEAN
      /\ width \in Nat /\ width >= 1 /\ width <= MaxWidth /\ Len(cells) <= width
  BY DEF Drawable
<1>w. r0.width = width /\ Height \in Nat
  BY <1>1, ConstantsFit, RemoteFields
<1>2. DrawnFrom(e, t, cells, acc, g, width) /\ ~acc.erased /\ put \in Ops(width)
      /\ DrawnData(e, pos + n, t, cells)
  BY DrawnDataStep
<1>3. /\ d <= acc.cells /\ acc.cells <= pos /\ acc.kept <= Len(acc.ops) /\ acc.ops \in Seq(Ops(width))
      /\ acc.kept \in Nat /\ acc.cells \in Nat /\ d <= pos
  BY <1>2, <1>1 DEF DrawnData, Accs
<1>4. cell \in Cell /\ cell.ch \in Nat /\ cell.color \in Nat /\ (cell.half # "none" => cell.ch # 32)
  BY <1>1, CellFields
<1>5. /\ e \in Accs(width) /\ ops1 \in Seq(Ops(width)) /\ ops2 \in Seq(Ops(width))
      /\ e.color = IF changed THEN cell.color ELSE acc.color
      /\ g.ch = 32 => /\ e.ops = Append(ops1, Put(32, FALSE))
                      /\ e.kept = IF changed THEN Len(acc.ops) + 1 ELSE acc.kept
                      /\ e.cells = IF changed THEN g.at - 1 ELSE acc.cells
                      /\ e.erased = acc.erased
      /\ g.ch # 32 => /\ e.ops = Append(ops2, put) /\ e.kept = Len(e.ops) /\ e.cells = g.at - 1 + g.n
                      /\ e.erased = (acc.erased \/ EndsLine(cells, g))
  BY <1>2 DEF DrawnFrom, put
<1>6. /\ ops1 = IF changed THEN Append(acc.ops, sgr) ELSE acc.ops
      /\ ops2 = IF EndsLine(cells, g) THEN Append(ops1, Op("EL")) ELSE ops1
      /\ (changed <=> colors /\ cell.color # acc.color)
  BY DEF ColorOps, EraseOps, Recolored
<1>7. /\ Drawing(R, r0, cells, d, pos, 0, colors)
      /\ Drawing(K, r0, cells, d, acc.cells, 0, colors)
      /\ acc.color # NoColor => R.color = acc.color /\ K.color = acc.color
  BY <1>2 DEF Accs, DrawnShown
<1> HIDE DEF e, put, ops1, ops2, changed
<1>8. R \in RemoteType(width)
  BY <1>1, <1>3, PerformAllType
<1>9. sgr \in Ops(width)
  <2> HIDE DEF cell
  <2> QED BY <1>4 DEF Ops
<1>10. /\ Drawing(R1, r0, cells, d, pos, 0, colors)
       /\ colors => R1.color = cell.color /\ e.color = cell.color
       /\ e.color # NoColor => R1.color = e.color
  <2>1. CASE changed
    <3>1. R1 = Perform(R, sgr)
      <4>1. PerformAll(r0, Append(acc.ops, sgr)) = Perform(R, sgr)
        <5> HIDE DEF sgr
        <5> QED BY <1>1, <1>3, <1>9, PerformAppend
      <4> QED BY <4>1, <2>1, <1>6
    <3>2. Drawing(Perform(R, sgr), r0, cells, d, pos, 0, colors) /\ Perform(R, sgr).color = cell.color
      <4>1. ASSUME NEW color \in Nat
            PROVE  /\ Drawing(Perform(R, [op |-> "SGR", color |-> color]), r0, cells, d, pos, 0, colors)
                   /\ Perform(R, [op |-> "SGR", color |-> color]).color = color
        <5> HIDE DEF R, colors, d
        <5> QED BY <1>1, <1>7, <1>8, DrawingColor
      <4>2. PICK color \in Nat : color = cell.color
        BY <1>4
      <4> HIDE DEF R, colors, d, cell
      <4> QED BY <4>1, <4>2, Zenon
    <3> HIDE DEF R, R1, sgr
    <3> QED BY <2>1, <3>1, <3>2, <1>5
  <2>2. CASE ~changed
    <3>1. R1 = R /\ e.color = acc.color
      BY <2>2, <1>5, <1>6
    <3>2. colors => acc.color = cell.color /\ acc.color # NoColor
      BY <2>2, <1>4, <1>6 DEF NoColor
    <3> HIDE DEF R, R1
    <3> QED BY <3>1, <3>2, <1>7
  <2> QED BY <2>1, <2>2
<1>11. R1 \in RemoteType(width) /\ R2 \in RemoteType(width)
  BY <1>1, <1>5, PerformAllType
<1>12. g.at - 1 = pos /\ put = Put(fixSpecialCharacters(cell.ch), CellsOf(cells, pos + 1) = 2) /\ n = CellsOf(cells, pos + 1)
  BY DEF PutOf, put
<1>13. CASE g.ch = 32
  <2>1. put = Put(32, FALSE) /\ n = 1
    <3>1. cell.half = "none"
      BY <1>4, <1>13
    <3>2. CellsOf(cells, pos + 1) = 1
      BY <3>1, <1>1, CellsOfCell
    <3>3. fixSpecialCharacters(32) = 32
      BY <1>4, FixedType
    <3>4. (CellsOf(cells, pos + 1) = 2) = FALSE
      BY <3>2
    <3>5. put = Put(32, FALSE)
      BY <3>3, <3>4, <1>12, <1>13, Zenon
    <3> QED BY <3>2, <3>5, <1>12
  <2>2. e.ops = Append(ops1, put) /\ ~e.erased
        /\ e.kept = (IF changed THEN Len(acc.ops) + 1 ELSE acc.kept)
        /\ e.cells = (IF changed THEN pos ELSE acc.cells)
    BY <1>2, <1>5, <1>12, <1>13, <2>1
  <2>3. PerformAll(r0, e.ops) = Perform(R1, put)
    BY <2>2, <1>1, <1>2, <1>5, PerformAppend
  <2>4. Drawing(Perform(R1, put), r0, cells, d, pos + n, 0, colors) /\ Perform(R1, put).color = R1.color
    <3> HIDE DEF R1, colors, d
    <3> QED BY <1>1, <1>3, <1>10, <1>11, <1>12, DrawingPut
  <2>5. SubSeq(e.ops, 1, e.kept) = IF changed THEN ops1 ELSE SubSeq(acc.ops, 1, acc.kept)
    <3>1. CASE changed
      <4>1. Len(ops1) = Len(acc.ops) + 1 /\ e.kept = Len(ops1)
        <5> HIDE DEF sgr
        <5> QED BY <3>1, <1>3, <1>6, <1>9, <2>2
      <4>2. SubSeq(Append(ops1, put), 1, Len(ops1)) = ops1
        BY <1>2, <1>5
      <4> QED BY <3>1, <4>1, <4>2, <2>2
    <3>2. CASE ~changed
      BY <3>2, <1>6, <2>2, <1>2, <1>3
    <3> QED BY <3>1, <3>2
  <2> DEFINE kept == PerformAll(r0, SubSeq(e.ops, 1, e.kept))
  <2>6. Drawing(kept, r0, cells, d, e.cells, 0, colors) /\ (e.color # NoColor => kept.color = e.color)
    <3>1. CASE changed
      <4>1. kept = R1 /\ e.cells = pos
        BY <3>1, <2>2, <2>5
      <4> HIDE DEF kept, R1
      <4> QED BY <4>1, <1>10
    <3>2. CASE ~changed
      <4>1. kept = K /\ e.cells = acc.cells /\ e.color = acc.color
        BY <3>2, <2>2, <2>5, <1>5
      <4> HIDE DEF kept, K
      <4> QED BY <4>1, <1>7
    <3> QED BY <3>1, <3>2
  <2>7. (IF e.erased THEN r0.width ELSE 0) = 0
    BY <2>2
  <2> HIDE DEF kept, R1
  <2> QED BY <2>3, <2>4, <2>6, <2>7, <1>10 DEF DrawnShown, e, kept
<1>14. CASE g.ch # 32
  <2> DEFINE ends == EndsLine(cells, g)
             upto == IF ends THEN width ELSE 0
  <2>1. e.ops = Append(ops2, put) /\ e.kept = Len(e.ops) /\ e.cells = pos + n /\ e.erased = ends
    BY <1>5, <1>14, <1>2, <1>12 DEF Accs, EndsLine
  <2>2. Drawing(R2, r0, cells, d, pos, upto, colors) /\ R2.color = R1.color
    <3>1. CASE ends
      <4>1. Op("EL") \in Ops(width)
        BY DEF Op, Ops
      <4>2. R2 = Perform(R1, Op("EL"))
        BY <1>1, <1>5, <4>1, PerformAppend, <3>1, <1>6
      <4>3. pos < width
        BY <1>1
      <4>4. Drawing(Perform(R1, Op("EL")), r0, cells, d, pos, width, colors) /\ Perform(R1, Op("EL")).color = R1.color
        <5> HIDE DEF R1, colors, d
        <5> QED BY <1>1, <1>3, <1>10, <1>11, <4>3, DrawingErase
      <4>5. upto = width
        BY <3>1
      <4> HIDE DEF R1, R2, ends, upto
      <4> QED BY <4>2, <4>4, <4>5
    <3>2. CASE ~ends
      <4>1. R2 = R1
        BY <3>2, <1>6
      <4>2. upto = 0
        BY <3>2
      <4> HIDE DEF R1, R2, ends, upto
      <4> QED BY <4>1, <4>2, <1>10
    <3> QED BY <3>1, <3>2
  <2>3. PerformAll(r0, e.ops) = Perform(R2, put)
    BY <2>1, <1>1, <1>2, <1>5, PerformAppend
  <2>4. Drawing(Perform(R2, put), r0, cells, d, pos + n, upto, colors) /\ Perform(R2, put).color = R2.color
    <3>1. upto \in {0, width}
      OBVIOUS
    <3> HIDE DEF R2, R1, colors, d, ends, upto
    <3> QED BY <1>1, <1>3, <1>10, <1>11, <1>12, <2>2, <3>1, DrawingPut
  <2>5. SubSeq(e.ops, 1, e.kept) = e.ops
    <3>1. PICK ops : ops = e.ops
      OBVIOUS
    <3>2. ops \in Seq(Ops(width)) /\ e.kept = Len(ops)
      BY <3>1, <1>5, <2>1 DEF Accs
    <3>3. SubSeq(ops, 1, Len(ops)) = ops
      BY <3>2
    <3> QED BY <3>1, <3>2, <3>3
  <2>6. upto = IF e.erased THEN r0.width ELSE 0
    BY <2>1, <1>w
  <2> HIDE DEF R1, R2, ends, upto
  <2> QED BY <2>1, <2>2, <2>3, <2>4, <2>5, <2>6, <1>10 DEF DrawnShown, e
<1> QED BY <1>13, <1>14

\* A line has been drawn: what is known of the operations, and what the terminal shows that
\* has performed them.
Starts(t, r0) == ~t.plain /\ r0.col = Len(t.data) /\ (t.color # NoColor => r0.color = t.color)

\* All the characters are drawn, and shown by a terminal that starts behind what was sent.
LEMMA DrawnHolds ==
  ASSUME NEW width, NEW t, NEW cells, Drawable(t, cells, width), NEW r0 \in RemoteType(width)
  PROVE  /\ Drawn(t, cells) \in Accs(width) /\ DrawnData(Drawn(t, cells), Len(cells), t, cells)
         /\ Starts(t, r0) => DrawnShown(Drawn(t, cells), Len(cells), t, cells, r0)
<1> DEFINE m == Len(t.data)
           cs == Characters(cells, m + 1)
           n == Len(cs)
           p(k) == IF k = n THEN Len(cells) ELSE cs[k + 1].at - 1
<1>1. /\ width \in Nat /\ width >= 1 /\ cells \in Seq(Cell) /\ Paired(cells) /\ Len(cells) <= width
      /\ t.data \in Seq(Cell) /\ m \in 0..Len(cells) /\ Boundary(cells, m) /\ m \in Nat /\ Len(cells) \in Nat
      /\ m <= Len(cells) /\ t.color \in Nat \union {NoColor} /\ t.plain \in BOOLEAN /\ t.outputColor \in BOOLEAN
  BY DEF Drawable
<1>2. /\ cs \in Seq(Characteristic)
      /\ \A k \in 1..n :
           /\ cs[k].at \in (m + 1)..Len(cells) /\ Boundary(cells, cs[k].at - 1)
           /\ cs[k] = [at |-> cs[k].at, n |-> CellsOf(cells, cs[k].at), ch |-> cells[cs[k].at].ch]
      /\ cs # <<>> => cs[1].at = m + 1
      /\ \A k \in 1..(n - 1) : cs[k + 1].at = cs[k].at + cs[k].n
      /\ Behind(cs, m + 1) = Len(cells) + 1
  <2> HIDE DEF m
  <2> QED BY <1>1, CellCharacters
<1>a. PICK at \in [0..n -> Accs(width)] : DrawTable(at, cs, t, cells)
  BY <1>1, DrawnTable
<1> HIDE DEF cs
<1>3. /\ at[0] = Begun(t) /\ at[n] = Drawn(t, cells)
      /\ \A k \in 1..n : at[k] = Draw(t, cells, at[k - 1], cs[k])
  BY <1>a DEF DrawTable
<1>b. ASSUME NEW k \in 1..n
      PROVE  /\ cs[k].at \in (m + 1)..Len(cells) /\ Boundary(cells, cs[k].at - 1)
             /\ cs[k].n = CellsOf(cells, cs[k].at) /\ cs[k].ch = cells[cs[k].at].ch /\ cs[k] \in Characteristic
  <2>a. cs[k].at \in (m + 1)..Len(cells) /\ Boundary(cells, cs[k].at - 1)
    BY <1>2, Zenon
  <2>b. cs \in Seq(Characteristic)
    BY <1>2, Zenon
  <2>1. cs[k].at \in (m + 1)..Len(cells) /\ Boundary(cells, cs[k].at - 1) /\ cs[k] \in Characteristic
    BY <2>a, <2>b
  <2>2. cs[k] = [at |-> cs[k].at, n |-> CellsOf(cells, cs[k].at), ch |-> cells[cs[k].at].ch]
    BY <1>2
  <2> DEFINE g == cs[k]
  <2>3. g = [at |-> g.at, n |-> CellsOf(cells, g.at), ch |-> cells[g.at].ch]
    BY <2>2
  <2> HIDE DEF g
  <2>4. g.n = CellsOf(cells, g.at) /\ g.ch = cells[g.at].ch
    BY <2>3
  <2> QED BY <2>1, <2>4 DEF g
<1>c. /\ cs # <<>> => cs[1].at = m + 1
      /\ \A k \in 1..(n - 1) : cs[k + 1].at = cs[k].at + cs[k].n
      /\ Behind(cs, m + 1) = Len(cells) + 1
  BY <1>2
<1>4. n \in Nat
  BY <1>2
<1>5. p(0) = m /\ \A k \in 0..n : p(k) \in Nat
  <2> HIDE DEF m
  <2>1. CASE n = 0
    BY <2>1, <1>2, <1>1 DEF Behind
  <2>2. CASE n # 0
    <3>1. cs # <<>>
      BY <2>2, <1>2
    <3>2. \A k \in 0..(n - 1) : cs[k + 1].at \in (m + 1)..Len(cells)
      <4> SUFFICES ASSUME NEW k \in 0..(n - 1) PROVE cs[k + 1].at \in (m + 1)..Len(cells)
        OBVIOUS
      <4>1. k + 1 \in 1..n
        BY <1>4
      <4> QED BY <4>1, <1>b
    <3>3. p(0) = m
      BY <2>2, <3>1, <1>1, <1>c, <1>4
    <3>4. ASSUME NEW k \in 0..n PROVE p(k) \in Nat
      BY <1>1, <1>4, <3>2
    <3> QED BY <3>3, <3>4
  <2> QED BY <2>1, <2>2
<1>6. ASSUME NEW k \in 0..(n - 1)
      PROVE  LET g == cs[k + 1]
             IN /\ g \in Characteristic /\ g.at = p(k) + 1 /\ g.n = CellsOf(cells, p(k) + 1)
                /\ g.ch = cells[p(k) + 1].ch /\ p(k) + 1 \in 1..Len(cells) /\ Boundary(cells, p(k))
                /\ p(k + 1) = p(k) + g.n
  <2> HIDE DEF m
  <2>1. k + 1 \in 1..n /\ k # n
    BY <1>4
  <2>2. cs[k + 1] \in Characteristic
    BY <2>1, <1>2
  <2>3. cs[k + 1].at \in (m + 1)..Len(cells) /\ Boundary(cells, cs[k + 1].at - 1)
        /\ cs[k + 1].n = CellsOf(cells, cs[k + 1].at) /\ cs[k + 1].ch = cells[cs[k + 1].at].ch
    BY <2>1, <1>b
  <2>4. p(k) = cs[k + 1].at - 1 /\ p(k) + 1 = cs[k + 1].at
    BY <2>1, <2>3, <1>1
  <2>5. p(k + 1) = p(k) + cs[k + 1].n
    <3>1. CASE k + 1 = n
      <4>1. cs # <<>>
        BY <3>1, <1>2, <1>4
      <4>2. cs[n].at + cs[n].n = Len(cells) + 1
        BY <4>1, <1>c DEF Behind
      <4>3. p(k + 1) = Len(cells) /\ cs[n] = cs[k + 1]
        BY <3>1
      <4>4. cs[k + 1].n \in Int /\ cs[k + 1].at \in Int
        BY <2>2 DEF Characteristic
      <4>5. cs[k + 1].at + cs[k + 1].n = Len(cells) + 1
        BY <4>2, <4>3
      <4>6. Len(cells) = cs[k + 1].at - 1 + cs[k + 1].n
        <5>1. PICK x, nn, w : x = cs[k + 1].at /\ nn = cs[k + 1].n /\ w = Len(cells)
          OBVIOUS
        <5>2. x \in Int /\ nn \in Int /\ w \in Int /\ x + nn = w + 1
          BY <4>4, <4>5, <5>1
        <5>3. w = x - 1 + nn
          BY <5>2
        <5> QED BY <5>1, <5>3
      <4> HIDE DEF p
      <4> QED BY <4>3, <4>6, <2>4
    <3>2. CASE k + 1 # n
      <4>1. k + 1 \in 1..(n - 1)
        BY <3>2, <1>4
      <4>2. cs[k + 1 + 1].at = cs[k + 1].at + cs[k + 1].n
        BY <4>1, <1>c
      <4>3. p(k + 1) = cs[k + 1 + 1].at - 1
        BY <3>2
      <4>4. cs[k + 1].n \in Int
        BY <2>2 DEF Characteristic
      <4> HIDE DEF p
      <4> QED BY <4>2, <4>3, <4>4, <2>4, <2>3, <1>1
    <3> QED BY <3>1, <3>2
  <2> HIDE DEF p
  <2> QED BY <2>2, <2>3, <2>4, <2>5, <1>1
<1> HIDE DEF p, n
<1> DEFINE T == {k \in Nat : k \in 0..n =>
                   /\ DrawnData(at[k], p(k), t, cells)
                   /\ Starts(t, r0) => DrawnShown(at[k], p(k), t, cells, r0)}
<1>7. 0 \in T
  <2> DEFINE b == Begun(t)
  <2>1. at[0] = b /\ p(0) = m
    BY <1>3, <1>5
  <2>2. b.ops = <<>> /\ b.kept = 0 /\ b.cells = m /\ b.color = t.color /\ b.erased = FALSE
    BY DEF Begun
  <2>3. DrawnData(b, m, t, cells)
    <3> HIDE DEF b
    <3> QED BY <2>2, <1>1 DEF DrawnData
  <2>4. Starts(t, r0) => DrawnShown(b, m, t, cells, r0)
    <3> SUFFICES ASSUME Starts(t, r0) PROVE DrawnShown(b, m, t, cells, r0)
      OBVIOUS
    <3>1. PerformAll(r0, <<>>) = r0
      BY <1>1, PerformNone
    <3>2. SubSeq(b.ops, 1, b.kept) = <<>>
      BY <2>2
    <3>3. Drawing(r0, r0, cells, m, m, 0, t.outputColor)
      BY <1>1 DEF Drawing, Starts
    <3> HIDE DEF b, m
    <3> QED BY <2>2, <3>1, <3>2, <3>3 DEF DrawnShown, Starts, m
  <2> HIDE DEF b, m
  <2> QED BY <2>1, <2>3, <2>4
<1>8. \A k \in 0..(n - 1) : k \in T => k + 1 \in T
  <2> SUFFICES ASSUME NEW k \in 0..(n - 1), DrawnData(at[k], p(k), t, cells),
                      Starts(t, r0) => DrawnShown(at[k], p(k), t, cells, r0)
               PROVE  /\ DrawnData(at[k + 1], p(k + 1), t, cells)
                      /\ Starts(t, r0) => DrawnShown(at[k + 1], p(k + 1), t, cells, r0)
    BY <1>4
  <2> DEFINE g == cs[k + 1]
  <2>1. /\ g \in Characteristic /\ g.at = p(k) + 1 /\ g.n = CellsOf(cells, p(k) + 1)
        /\ g.ch = cells[p(k) + 1].ch /\ p(k) + 1 \in 1..Len(cells) /\ Boundary(cells, p(k))
        /\ p(k + 1) = p(k) + g.n
    BY <1>6
  <2>2. at[k + 1] = Draw(t, cells, at[k], g)
    BY <1>4, <1>3
  <2>3. at[k] \in Accs(width) /\ p(k) \in Nat
    BY <1>4, <1>3, <1>5
  <2> HIDE DEF g
  <2>4. DrawnData(Draw(t, cells, at[k], g), p(k) + g.n, t, cells)
    BY <2>1, <2>3, DrawnDataStep
  <2>5. ASSUME Starts(t, r0) PROVE DrawnShown(Draw(t, cells, at[k], g), p(k) + g.n, t, cells, r0)
    BY <2>1, <2>3, <2>5, DrawnShownStep DEF Starts
  <2> QED BY <2>1, <2>2, <2>4, <2>5
<1>9. \A k \in 0..n : k \in T
  <2>1. T \in SUBSET Nat
    OBVIOUS
  <2> HIDE DEF T
  <2> QED BY <2>1, <1>4, <1>7, <1>8, Counting
<1>10. n \in 0..n /\ p(n) = Len(cells)
  BY <1>4 DEF p
<1> QED BY <1>3, <1>9, <1>10

-----------------------------------------------------------------------------
(* Moving to another line.                                                 *)

\* How far the terminal scrolls if its cursor is moved down to a row, and what a row then has.
Up(row) == IF row > Height THEN row - Height ELSE 0
FedRow(r, k, up) == IF k + up <= Height THEN r.rows[k + up] ELSE BlankRow(r.color)

\* q is r with the cursor moved n lines.
Moved(r, q, n) ==
  /\ q.row = r.row + n - Up(r.row + n)
  /\ q.color = r.color /\ q.scrolled = r.scrolled + Up(r.row + n)
  /\ \A k \in 1..Height : q.rows[k] = FedRow(r, k, Up(r.row + n))

\* CR and LF move the cursor one line down.
LEMMA LineFeedMoves ==
  ASSUME NEW width \in Nat, width >= 1, NEW r \in RemoteType(width), NEW q \in RemoteType(width), NEW n \in Nat,
         Moved(r, q, n)
  PROVE  Moved(r, LineFeed([q EXCEPT !.col = 0]), n + 1) /\ LineFeed([q EXCEPT !.col = 0]).col = 0
         /\ LineFeed([q EXCEPT !.col = 0]).visible = q.visible
<1> DEFINE c == [q EXCEPT !.col = 0]
           f == LineFeed(c)
           u == Up(r.row + n)
           v == Up(r.row + n + 1)
<1>1. /\ Height \in Nat /\ Height >= 1
      /\ r.row \in 1..Height /\ q.row \in 1..Height /\ q.scrolled \in Nat /\ r.scrolled \in Nat
      /\ q.rows \in [1..Height -> [1..MaxWidth -> Places]]
  BY ConstantsFit, RemoteFields
<1>2. /\ c.row = q.row /\ c.rows = q.rows /\ c.color = q.color /\ c.visible = q.visible /\ c.scrolled = q.scrolled
      /\ c.col = 0 /\ c \in RemoteType(width)
  BY DEF RemoteType
<1>3. /\ q.row = r.row + n - u /\ q.color = r.color /\ q.scrolled = r.scrolled + u
      /\ \A k \in 1..Height : q.rows[k] = FedRow(r, k, u)
  BY DEF Moved
<1>0. v = Up(r.row + (n + 1)) /\ (r.row + n >= Height => u = r.row + n - Height /\ v = r.row + n + 1 - Height)
  <2>1. PICK x \in Nat : x = r.row
    BY <1>1
  <2>2. x + (n + 1) = x + n + 1 /\ x \in Int
    OBVIOUS
  <2>3. Up(x + (n + 1)) = Up(x + n + 1)
    BY <2>2
  <2>4. x + n >= Height => Up(x + n) = x + n - Height /\ Up(x + n + 1) = x + n + 1 - Height
    BY <1>1 DEF Up
  <2> QED BY <2>1, <2>3, <2>4
<1> HIDE DEF c
<1>4. CASE r.row + n < Height
  <2>1. u = 0 /\ v = 0
    BY <1>1, <1>4 DEF Up
  <2>2. f = [c EXCEPT !.row = c.row + 1]
    BY <1>1, <1>2, <1>3, <1>4, <2>1 DEF LineFeed
  <2>3. f.row = c.row + 1 /\ f.rows = c.rows /\ f.color = c.color /\ f.visible = c.visible
        /\ f.scrolled = c.scrolled /\ f.col = 0
    BY <2>2, <1>2 DEF RemoteType
  <2>6. Up(r.row + (n + 1)) = v
    BY <1>0
  <2> HIDE DEF f, u, v
  <2>4. f.row = r.row + (n + 1) - v /\ f.scrolled = r.scrolled + v
    <3>1. PICK x, y : x = r.row /\ y = r.scrolled
      OBVIOUS
    <3>2. x \in Int /\ y \in Int /\ n \in Int /\ u = 0 /\ v = 0
      BY <3>1, <1>1, <2>1
    <3>3. f.row = (x + n - 0) + 1 /\ f.scrolled = y + 0
      BY <3>1, <3>2, <2>3, <1>2, <1>3
    <3>4. (x + n - 0) + 1 = x + (n + 1) - 0
      BY <3>2
    <3> QED BY <3>1, <3>2, <3>3, <3>4
  <2>5. \A k \in 1..Height : f.rows[k] = FedRow(r, k, v)
    BY <2>1, <2>3, <1>2, <1>3
  <2> QED BY <2>3, <2>4, <2>5, <2>6, <1>2, <1>3 DEF Moved, f, c
<1>5. CASE r.row + n >= Height
  <2>1. u \in Nat /\ v = u + 1 /\ r.row + n - u = Height
    <3>1. u = r.row + n - Height /\ v = r.row + n + 1 - Height
      BY <1>0, <1>5
    <3>2. PICK x \in Nat : x = r.row
      BY <1>1
    <3> HIDE DEF u, v
    <3>3. u = x + n - Height /\ v = x + n + 1 - Height /\ x + n >= Height /\ Height \in Nat
      BY <3>1, <3>2, <1>1, <1>5
    <3>4. u \in Nat /\ v = u + 1 /\ x + n - u = Height
      BY <3>3
    <3> QED BY <3>2, <3>4
  <2>2. f = [c EXCEPT !.rows = [k \in 1..Height |-> IF k < Height THEN c.rows[k + 1] ELSE BlankRow(c.color)],
                      !.scrolled = c.scrolled + 1]
    BY <1>1, <1>2, <1>3, <2>1 DEF LineFeed
  <2>3. /\ f.row = c.row /\ f.color = c.color /\ f.visible = c.visible /\ f.col = 0
        /\ f.scrolled = c.scrolled + 1
        /\ f.rows = [k \in 1..Height |-> IF k < Height THEN c.rows[k + 1] ELSE BlankRow(c.color)]
    BY <2>2, <1>2 DEF RemoteType
  <2>6. Up(r.row + (n + 1)) = v
    BY <1>0
  <2> HIDE DEF f, u, v
  <2>4. f.row = r.row + (n + 1) - v /\ f.scrolled = r.scrolled + v
    <3>1. r.row \in Int /\ r.scrolled \in Int /\ n \in Int /\ u \in Int
      BY <1>1, <2>1
    <3>2. f.row = r.row + n - u /\ f.scrolled = r.scrolled + u + 1
      BY <2>3, <1>2, <1>3
    <3>3. r.row + (n + 1) - (u + 1) = r.row + n - u /\ r.scrolled + (u + 1) = r.scrolled + u + 1
      BY <3>1
    <3> QED BY <3>2, <3>3, <2>1
  <2>5. ASSUME NEW k \in 1..Height PROVE f.rows[k] = FedRow(r, k, v)
    BY <2>3, <1>1, <1>2, <2>1, <1>3 DEF FedRow
  <2> QED BY <2>3, <2>4, <2>5, <2>6, <1>2, <1>3 DEF Moved, f, c
<1> QED BY <1>1, <1>4, <1>5

\* So do n of them n lines.
LEMMA CrLfsMove ==
  ASSUME NEW width \in Nat, width >= 1, NEW r \in RemoteType(width), NEW n \in Nat
  PROVE  /\ CrLfs(n) \in Seq(Ops(width)) /\ Moved(r, PerformAll(r, CrLfs(n)), n)
         /\ n >= 1 => PerformAll(r, CrLfs(n)).col = 0
         /\ PerformAll(r, CrLfs(n)).visible = r.visible
         /\ \A i \in 1..Len(CrLfs(n)) : CrLfs(n)[i].op = "CRLF"
<1> DEFINE o == Op("CRLF")
<1>1. o \in Ops(width) /\ o.op = "CRLF"
  BY DEF Op, Ops
<1>2. ASSUME NEW j \in Nat
      PROVE  CrLfs(j) \in Seq(Ops(width)) /\ Len(CrLfs(j)) = j /\ \A i \in 1..j : CrLfs(j)[i] = o
  <2>1. CrLfs(j) = [i \in 1..j |-> o]
    BY DEF CrLfs
  <2> HIDE DEF o
  <2>2. CrLfs(j) \in Seq(Ops(width))
    BY <2>1, <1>1
  <2> QED BY <2>1, <2>2
<1> HIDE DEF o
<1>3. ASSUME NEW j \in Nat PROVE CrLfs(j + 1) = Append(CrLfs(j), o)
  <2> DEFINE a == CrLfs(j)
             b == CrLfs(j + 1)
  <2>1. a \in Seq(Ops(width)) /\ Len(a) = j /\ \A i \in 1..j : a[i] = o
    BY <1>2
  <2>2. b \in Seq(Ops(width)) /\ Len(b) = j + 1 /\ \A i \in 1..(j + 1) : b[i] = o
    BY <1>2
  <2> HIDE DEF a, b
  <2>3. Append(a, o) \in Seq(Ops(width)) /\ Len(Append(a, o)) = j + 1
    BY <2>1, <1>1
  <2>4. \A i \in 1..(j + 1) : Append(a, o)[i] = o
    BY <2>1
  <2>5. b = Append(a, o)
    BY <2>2, <2>3, <2>4
  <2> QED BY <2>5 DEF a, b
<1> DEFINE T == {j \in Nat : /\ Moved(r, PerformAll(r, CrLfs(j)), j)
                             /\ j >= 1 => PerformAll(r, CrLfs(j)).col = 0
                             /\ PerformAll(r, CrLfs(j)).visible = r.visible}
<1>4. 0 \in T
  <2>1. CrLfs(0) = <<>>
    BY <1>2
  <2>2. PerformAll(r, CrLfs(0)) = r
    BY <2>1, PerformNone
  <2>3. Moved(r, r, 0)
    BY ConstantsFit, RemoteFields DEF Up, FedRow, Moved
  <2> QED BY <2>2, <2>3
<1>5. \A j \in 0..(n - 1) : j \in T => j + 1 \in T
  <2> SUFFICES ASSUME NEW j \in 0..(n - 1), Moved(r, PerformAll(r, CrLfs(j)), j),
                      PerformAll(r, CrLfs(j)).visible = r.visible
               PROVE  /\ Moved(r, PerformAll(r, CrLfs(j + 1)), j + 1)
                      /\ PerformAll(r, CrLfs(j + 1)).col = 0
                      /\ PerformAll(r, CrLfs(j + 1)).visible = r.visible
    OBVIOUS
  <2> DEFINE q == PerformAll(r, CrLfs(j))
  <2>1. j \in Nat /\ CrLfs(j) \in Seq(Ops(width)) /\ q \in RemoteType(width)
    BY <1>2, PerformAllType
  <2>2. PerformAll(r, CrLfs(j + 1)) = Perform(q, o)
    BY <2>1, <1>1, <1>3, PerformAppend
  <2> HIDE DEF q
  <2>3. Perform(q, o) = LineFeed([q EXCEPT !.col = 0])
    BY <1>1 DEF Perform
  <2>4. Moved(r, LineFeed([q EXCEPT !.col = 0]), j + 1) /\ LineFeed([q EXCEPT !.col = 0]).col = 0
        /\ LineFeed([q EXCEPT !.col = 0]).visible = q.visible
    BY <2>1, LineFeedMoves DEF q
  <2> QED BY <2>2, <2>3, <2>4 DEF q
<1>6. n \in T
  <2>1. T \in SUBSET Nat /\ n \in 0..n
    OBVIOUS
  <2> HIDE DEF T
  <2> QED BY <2>1, <1>4, <1>5, Counting
<1>7. CrLfs(n) \in Seq(Ops(width)) /\ \A i \in 1..Len(CrLfs(n)) : CrLfs(n)[i].op = "CRLF"
  BY <1>1, <1>2
<1> QED BY <1>6, <1>7

-----------------------------------------------------------------------------
(* What a Terminal writes, and what the user's terminal is then.           *)

\* The user's terminal, that was r0, when it has performed what t has written.
Now(r0, t) == PerformAll(r0, t.out)

\* The cursor has been hidden and shown as t has it, or not at all since it was r0.
ForCursor(ops) == \E i \in 1..Len(ops) : ops[i].op \in {"HIDE", "SHOW"}
CursorTold(t, r0, hidden) ==
  IF ForCursor(t.out) THEN t.hidden = ~Now(r0, t).visible
  ELSE t.hidden = hidden /\ Now(r0, t).visible = r0.visible

SameTerm(t, u) ==
  /\ u.line = t.line /\ u.column = t.column /\ u.data = t.data /\ u.valid = t.valid
  /\ u.color = t.color /\ u.plain = t.plain /\ u.outputColor = t.outputColor
SameScreen(r, q) == q.rows = r.rows /\ q.row = r.row /\ q.col = r.col /\ q.color = r.color /\ q.scrolled = r.scrolled

Wrote(t, u, ops, r0, width) ==
  /\ u \in TermType(width) /\ SameTerm(t, u) /\ u.hidden = t.hidden /\ u.out = t.out \o ops
  /\ Now(r0, t) \in RemoteType(width) /\ Now(r0, u) \in RemoteType(width)
  /\ Now(r0, u) = PerformAll(Now(r0, t), ops)

\* The terminal keeps its type when it performs what was written.
LEMMA NowType ==
  ASSUME NEW width \in Nat, width >= 1, NEW r0 \in RemoteType(width), NEW t \in TermType(width)
  PROVE  Now(r0, t) \in RemoteType(width)
BY PerformAllType DEF TermType, Now

\* What is appended to what appends only appends.
LEMMA AppendingMore ==
  ASSUME NEW width \in Nat, NEW a \in Seq(Ops(width)), NEW b \in Seq(Ops(width)), Appending(a), Appending(b)
  PROVE  Appending(a \o b)
<1> SUFFICES ASSUME NEW i \in 1..Len(a \o b) PROVE (a \o b)[i].op \in {"put", "SGR", "CRLF"}
  BY DEF Appending
<1>1. CASE i <= Len(a)
  BY <1>1 DEF Appending
<1>2. CASE i > Len(a)
  <2>1. i - Len(a) \in 1..Len(b) /\ (a \o b)[i] = b[i - Len(a)]
    BY <1>2
  <2> QED BY <2>1 DEF Appending
<1> QED BY <1>1, <1>2

\* What is written more is performed after what was written.
LEMMA WriteHolds ==
  ASSUME NEW width \in Nat, width >= 1, NEW r0 \in RemoteType(width), NEW t \in TermType(width),
         NEW ops \in Seq(Ops(width))
  PROVE  Wrote(t, Write(t, ops), ops, r0, width)
<1> DEFINE u == Write(t, ops)
<1>1. t.out \in Seq(Ops(width))
  BY DEF TermType
<1>2. t.out \o ops \in Seq(Ops(width))
  BY <1>1
<1>3. u = [t EXCEPT !.out = t.out \o ops]
  BY DEF Write
<1> HIDE DEF u
<1>4. u \in TermType(width) /\ SameTerm(t, u) /\ u.hidden = t.hidden /\ u.out = t.out \o ops
  BY <1>2, <1>3 DEF TermType, SameTerm
<1>5. Now(r0, u) = PerformAll(Now(r0, t), ops)
  BY <1>1, PerformConcat, <1>4 DEF Now
<1>6. Now(r0, t) \in RemoteType(width) /\ Now(r0, u) \in RemoteType(width)
  BY <1>4, NowType
<1> QED BY <1>4, <1>5, <1>6 DEF Wrote, u

\* Something is written that is not for the cursor.
LEMMA CursorKept ==
  ASSUME NEW width \in Nat, width >= 1, NEW r0 \in RemoteType(width), NEW t \in TermType(width), NEW u \in TermType(width),
         NEW ops \in Seq(Ops(width)), u.out = t.out \o ops, u.hidden = t.hidden,
         Now(r0, u).visible = Now(r0, t).visible, ~ForCursor(ops), NEW hidden, CursorTold(t, r0, hidden)
  PROVE  CursorTold(u, r0, hidden)
<1>1. t.out \in Seq(Ops(width)) /\ Len(t.out) \in Nat /\ Len(ops) \in Nat
  BY DEF TermType
<1>2. ForCursor(u.out) <=> ForCursor(t.out)
  <2> DEFINE b == t.out \o ops
  <2>1. Len(b) = Len(t.out) + Len(ops)
    BY <1>1
  <2>2. \A i \in 1..Len(t.out) : b[i] = t.out[i]
    BY <1>1
  <2>3. ASSUME NEW i \in 1..Len(b), i > Len(t.out) PROVE i - Len(t.out) \in 1..Len(ops) /\ b[i] = ops[i - Len(t.out)]
    BY <1>1, <2>3
  <2> HIDE DEF b
  <2>4. ForCursor(t.out) => ForCursor(b)
    <3> SUFFICES ASSUME NEW i \in 1..Len(t.out), t.out[i].op \in {"HIDE", "SHOW"}
                 PROVE  \E j \in 1..Len(b) : b[j].op \in {"HIDE", "SHOW"}
      BY DEF ForCursor
    <3>1. i \in 1..Len(b) /\ b[i] = t.out[i]
      BY <1>1, <2>1, <2>2
    <3> QED BY <3>1
  <2>5. ForCursor(b) => ForCursor(t.out)
    <3> SUFFICES ASSUME NEW i \in 1..Len(b), b[i].op \in {"HIDE", "SHOW"}
                 PROVE  \E j \in 1..Len(t.out) : t.out[j].op \in {"HIDE", "SHOW"}
      BY DEF ForCursor
    <3>1. ~(i > Len(t.out))
      <4> SUFFICES ASSUME i > Len(t.out) PROVE FALSE
        OBVIOUS
      <4>1. i - Len(t.out) \in 1..Len(ops) /\ b[i] = ops[i - Len(t.out)]
        BY <2>3
      <4> QED BY <4>1 DEF ForCursor
    <3>2. i \in 1..Len(t.out) /\ b[i] = t.out[i]
      BY <3>1, <1>1, <2>1, <2>2
    <3> QED BY <3>2
  <2> QED BY <2>4, <2>5 DEF b
<1> QED BY <1>2 DEF CursorTold

\* The cursor is hidden or shown.
LEMMA CursorSet ==
  ASSUME NEW width \in Nat, width >= 1, NEW r0 \in RemoteType(width), NEW t \in TermType(width), NEW u \in TermType(width),
         NEW o \in Ops(width), u.out = t.out \o <<o>>, o.op \in {"HIDE", "SHOW"},
         u.hidden = ~Now(r0, u).visible, NEW hidden
  PROVE  CursorTold(u, r0, hidden)
BY DEF TermType, ForCursor, CursorTold

HidCursor(t, u, r0, width) ==
  /\ u \in TermType(width) /\ SameTerm(t, u) /\ (TermOK(t) => TermOK(u)) /\ (t.plain => u = t)
  /\ SameScreen(Now(r0, t), Now(r0, u)) /\ Now(r0, t) \in RemoteType(width) /\ Now(r0, u) \in RemoteType(width)
  /\ ~t.plain => u.hidden
  /\ ~t.plain /\ (t.hidden => ~Now(r0, t).visible) => ~Now(r0, u).visible

\* hideTerminalCursor hides the cursor and does nothing else.
LEMMA HideHolds ==
  ASSUME NEW width \in Nat, width >= 1, NEW r0 \in RemoteType(width), NEW t \in TermType(width)
  PROVE  /\ HidCursor(t, hideTerminalCursor(t), r0, width)
         /\ \A hidden \in BOOLEAN :
              ~t.plain /\ (t.hidden => ~Now(r0, t).visible) /\ CursorTold(t, r0, hidden)
                => CursorTold(hideTerminalCursor(t), r0, hidden)
<1> DEFINE u == hideTerminalCursor(t)
<1>1. t.plain \in BOOLEAN /\ t.hidden \in BOOLEAN /\ Now(r0, t) \in RemoteType(width)
  BY NowType DEF TermType
<1>2. CASE t.plain \/ t.hidden
  BY <1>2, <1>1 DEF hideTerminalCursor, HidCursor, SameTerm, SameScreen
<1>3. CASE ~t.plain /\ ~t.hidden
  <2> DEFINE w == Write(t, <<Op("HIDE")>>)
  <2>0. Op("HIDE") \in Ops(width) /\ Op("HIDE").op = "HIDE" /\ <<Op("HIDE")>> \in Seq(Ops(width))
    BY DEF Op, Ops
  <2>1. Wrote(t, w, <<Op("HIDE")>>, r0, width)
    BY <2>0, WriteHolds
  <2>2. u = [w EXCEPT !.hidden = TRUE]
    BY <1>3 DEF hideTerminalCursor
  <2> HIDE DEF w, u
  <2>3. u \in TermType(width) /\ SameTerm(t, u) /\ u.hidden = TRUE /\ u.out = w.out
    BY <2>1, <2>2 DEF Wrote, TermType, SameTerm
  <2>4. Now(r0, u) = Perform(Now(r0, t), Op("HIDE"))
    BY <2>1, <2>3, <1>1, <2>0, PerformOne DEF Wrote, Now
  <2>5. Now(r0, u) = [Now(r0, t) EXCEPT !.visible = FALSE]
    BY <2>4 DEF Perform, Op
  <2>6. Now(r0, u).visible = FALSE /\ SameScreen(Now(r0, t), Now(r0, u)) /\ Now(r0, u) \in RemoteType(width)
    BY <2>5, <1>1 DEF RemoteType, SameScreen
  <2>7. TermOK(t) => TermOK(u)
    BY <2>3, <1>3 DEF TermOK, SameTerm
  <2>8. \A hidden : CursorTold(u, r0, hidden)
    BY <2>0, <2>1, <2>3, <2>6, CursorSet DEF Wrote
  <2>9. HidCursor(t, u, r0, width)
    BY <2>3, <2>6, <2>7, <1>1, <1>3 DEF HidCursor
  <2> QED BY <2>8, <2>9 DEF u
<1> QED BY <1>1, <1>2, <1>3

\* The cursor at the start of a line that is d lines below.
Began(t, u, r0, d, width) ==
  /\ Now(r0, u) \in RemoteType(width) /\ Now(r0, u).col = 0
  /\ Now(r0, t).row + d >= 1 => Moved(Now(r0, t), Now(r0, u), d)

\* CR and CUU move the cursor up, which does not scroll.
LEMMA MoveUp ==
  ASSUME NEW width \in Nat, width >= 1, NEW r \in RemoteType(width), NEW n \in Nat, n >= 1
  PROVE  LET ops == <<Op("CR"), [op |-> "CUU", n |-> n]>>
         IN /\ ops \in Seq(Ops(width)) /\ ~ForCursor(ops)
            /\ PerformAll(r, ops).col = 0 /\ PerformAll(r, ops).visible = r.visible
            /\ r.row - n >= 1 => Moved(r, PerformAll(r, ops), 0 - n)
<1> DEFINE a == Op("CR")
           b == [op |-> "CUU", n |-> n]
           c == Perform(r, a)
           q == Perform(c, b)
<1>1. a \in Ops(width) /\ b \in Ops(width) /\ a.op = "CR" /\ b.op = "CUU" /\ b.n = n
  BY DEF Ops, Op
<1>2. <<a>> \in Seq(Ops(width)) /\ <<b>> \in Seq(Ops(width)) /\ <<a, b>> = <<a>> \o <<b>>
  BY <1>1
<1>3. c \in RemoteType(width)
  BY <1>1, PerformType
<1>4. PerformAll(r, <<a, b>>) = q
  <2> HIDE DEF a, b
  <2>1. PerformAll(r, <<a>> \o <<b>>) = PerformAll(PerformAll(r, <<a>>), <<b>>)
    BY <1>2, PerformConcat
  <2>2. PerformAll(r, <<a>>) = c
    BY <1>1, PerformOne
  <2> HIDE DEF c
  <2>3. PerformAll(c, <<b>>) = q
    BY <1>1, <1>3, PerformOne
  <2> QED BY <1>2, <2>1, <2>2, <2>3
<1>5. c = [r EXCEPT !.col = 0]
  BY <1>1 DEF Perform
<1>6. r.row \in 1..Height /\ Height \in Nat /\ r.scrolled \in Nat
  BY ConstantsFit, RemoteFields
<1>7. q = [c EXCEPT !.row = IF c.row > n THEN c.row - n ELSE 1]
  <2> HIDE DEF c, b
  <2> QED BY <1>1 DEF Perform
<1>8. q.row = (IF r.row > n THEN r.row - n ELSE 1) /\ q.col = 0 /\ q.rows = r.rows /\ q.color = r.color
      /\ q.visible = r.visible /\ q.scrolled = r.scrolled
  <2> HIDE DEF q, c
  <2> QED BY <1>5, <1>7 DEF RemoteType
<1>9. r.row - n >= 1 => Moved(r, q, 0 - n)
  <2> HIDE DEF q
  <2> SUFFICES ASSUME r.row - n >= 1 PROVE Moved(r, q, 0 - n)
    OBVIOUS
  <2>1. r.row + (0 - n) = r.row - n /\ ~(r.row - n > Height)
    BY <1>6
  <2>2. Up(r.row + (0 - n)) = 0
    BY <2>1 DEF Up
  <2>3. \A k \in 1..Height : r.rows[k] = FedRow(r, k, 0)
    BY <1>6 DEF FedRow
  <2>4. q.row = r.row - n
    BY <1>6, <1>8
  <2> QED BY <1>6, <1>8, <2>1, <2>2, <2>3, <2>4 DEF Moved
<1>10. <<a, b>> \in Seq(Ops(width)) /\ ~ForCursor(<<a, b>>)
  <2>1. <<a, b>> \in Seq(Ops(width)) /\ Len(<<a, b>>) = 2 /\ <<a, b>>[1] = a /\ <<a, b>>[2] = b
    BY <1>1, <1>2
  <2> HIDE DEF a, b
  <2> QED BY <2>1, <1>1 DEF ForCursor
<1> QED BY <1>4, <1>8, <1>9, <1>10

\* A terminal without escape sequences has got nothing but line feeds.
Fed(t, u, r0) == \E n \in Nat : n >= 1 /\ Now(r0, u) = PerformAll(Now(r0, t), CrLfs(n))

\* Terminal::moveTerminalToLine, if it has to move.
LEMMA MoveHolds ==
  ASSUME NEW width \in Nat, width >= 1, NEW r0 \in RemoteType(width), NEW t \in TermType(width), TermOK(t),
         NEW line \in Nat, line # t.line
  PROVE  LET u == moveTerminalToLine(t, line)
         IN /\ u \in TermType(width) /\ TermOK(u)
            /\ u.line = line /\ u.column = 0 /\ u.data = <<>> /\ u.valid
            /\ u.color = t.color /\ u.plain = t.plain /\ u.outputColor = t.outputColor
            /\ ~t.plain => /\ Began(t, u, r0, line - t.line, width) /\ u.hidden
                           /\ (t.hidden => ~Now(r0, t).visible) => ~Now(r0, u).visible
                           /\ \A hidden \in BOOLEAN :
                                CursorTold(t, r0, hidden) /\ (t.hidden => ~Now(r0, t).visible)
                                  => CursorTold(u, r0, hidden)
            /\ t.plain => Fed(t, u, r0)
<1> DEFINE u == moveTerminalToLine(t, line)
           h == hideTerminalCursor(t)
           n == IF line > t.line THEN line - t.line ELSE t.line - line
           moves == IF line > t.line THEN CrLfs(line - t.line)
                    ELSE IF t.plain THEN CrLfs(1)
                    ELSE <<Op("CR"), [op |-> "CUU", n |-> t.line - line]>>
           w == Write(h, moves)
           r == Now(r0, h)
<1>1. t.line \in Nat /\ n \in Nat /\ n >= 1 /\ t.plain \in BOOLEAN /\ t.hidden \in BOOLEAN
  BY DEF TermType
<1>2. HidCursor(t, h, r0, width) /\ \A hidden \in BOOLEAN :
              ~t.plain /\ (t.hidden => ~Now(r0, t).visible) /\ CursorTold(t, r0, hidden)
                => CursorTold(h, r0, hidden)
  BY HideHolds
<1>3. u = AtLineStart([w EXCEPT !.line = line])
  BY DEF moveTerminalToLine
<1> HIDE DEF h, u
<1>4. h \in TermType(width) /\ SameTerm(t, h) /\ TermOK(h) /\ SameScreen(Now(r0, t), r) /\ r \in RemoteType(width)
      /\ Now(r0, t) \in RemoteType(width) /\ (~t.plain => h.hidden)
      /\ (~t.plain /\ (t.hidden => ~Now(r0, t).visible) => ~r.visible)
  BY <1>2 DEF HidCursor
<1> DEFINE p == PerformAll(r, moves)
<1>5. /\ moves \in Seq(Ops(width)) /\ ~ForCursor(moves) /\ p.col = 0 /\ p.visible = r.visible
      /\ ~t.plain /\ r.row + (line - t.line) >= 1 => Moved(r, p, line - t.line)
      /\ t.plain => Appending(moves) /\ \E j \in Nat : j >= 1 /\ moves = CrLfs(j)
  <2> HIDE DEF r
  <2>1. CASE line > t.line
    <3>1. moves = CrLfs(n) /\ n = line - t.line
      BY <2>1
    <3> HIDE DEF moves, n
    <3>2. moves \in Seq(Ops(width)) /\ Moved(r, p, n) /\ p.col = 0 /\ p.visible = r.visible
          /\ \A i \in 1..Len(moves) : moves[i].op = "CRLF"
      <4>1. r \in RemoteType(width) /\ n \in Nat /\ n >= 1 /\ moves = CrLfs(n) /\ p = PerformAll(r, moves)
        BY <1>1, <1>4, <3>1
      <4> HIDE DEF p
      <4> QED BY <4>1, CrLfsMove
    <3>3. ~ForCursor(moves) /\ Appending(moves)
      BY <3>2 DEF ForCursor, Appending
    <3> QED BY <1>1, <3>1, <3>2, <3>3
  <2>2. CASE ~(line > t.line) /\ t.plain
    <3>0. PICK j \in Nat : j = 1
      OBVIOUS
    <3>1. moves = CrLfs(j) /\ j >= 1
      BY <2>2, <3>0
    <3> HIDE DEF moves
    <3>2. moves \in Seq(Ops(width)) /\ p.col = 0 /\ p.visible = r.visible
          /\ \A i \in 1..Len(moves) : moves[i].op = "CRLF"
      BY <1>4, <3>1, CrLfsMove
    <3>3. ~ForCursor(moves) /\ Appending(moves)
      BY <3>2 DEF ForCursor, Appending
    <3> QED BY <2>2, <3>0, <3>1, <3>2, <3>3
  <2>3. CASE ~(line > t.line) /\ ~t.plain
    <3>1. moves = <<Op("CR"), [op |-> "CUU", n |-> n]>> /\ line - t.line = 0 - n
      BY <1>1, <2>3
    <3>2. r.row \in Int
      BY <1>4, ConstantsFit, RemoteFields
    <3>3. r.row + (line - t.line) = r.row - n
      BY <1>1, <3>1, <3>2
    <3> HIDE DEF moves, n
    <3>4. moves \in Seq(Ops(width)) /\ ~ForCursor(moves) /\ p.col = 0 /\ p.visible = r.visible
          /\ (r.row - n >= 1 => Moved(r, p, 0 - n))
      BY <1>1, <1>4, <3>1, MoveUp
    <3> QED BY <2>3, <3>1, <3>3, <3>4
  <2> QED BY <2>1, <2>2, <2>3
<1> HIDE DEF moves, n
<1>6. Wrote(h, w, moves, r0, width)
  BY <1>4, <1>5, WriteHolds
<1> HIDE DEF w
<1>7. /\ u \in TermType(width) /\ u.line = line /\ u.column = 0 /\ u.data = <<>> /\ u.valid = TRUE
      /\ u.color = w.color /\ u.plain = w.plain /\ u.outputColor = w.outputColor /\ u.hidden = w.hidden /\ u.out = w.out
  <2>1. w \in TermType(width) /\ <<>> \in Seq(Cell) /\ 0 \in 0..MaxWidth
    BY <1>6, ConstantsFit DEF Wrote
  <2> QED BY <1>3, <2>1 DEF TermType, AtLineStart
<1>8. u.color = t.color /\ u.plain = t.plain /\ u.outputColor = t.outputColor /\ u.hidden = h.hidden
      /\ u.out = h.out \o moves /\ Now(r0, u) = p
  BY <1>4, <1>6, <1>7 DEF Wrote, SameTerm, Now
<1>9. TermOK(u)
  <2>1. h.plain => Appending(h.out \o moves)
    BY <1>4, <1>5, AppendingMore DEF TermOK, TermType, SameTerm
  <2> QED BY <2>1, <1>4, <1>7, <1>8 DEF TermOK, SameTerm, Paired
<1>10. ASSUME ~t.plain PROVE Began(t, u, r0, line - t.line, width)
  <2>1. p \in RemoteType(width)
    BY <1>6 DEF Wrote
  <2>2. r.row = Now(r0, t).row /\ \A q, d : Moved(r, q, d) <=> Moved(Now(r0, t), q, d)
    BY <1>4 DEF SameScreen, Moved, FedRow
  <2> HIDE DEF r, p
  <2> QED BY <2>1, <2>2, <1>5, <1>8, <1>10 DEF Began
<1>11. ASSUME ~t.plain, NEW hidden \in BOOLEAN, CursorTold(t, r0, hidden), t.hidden => ~Now(r0, t).visible
       PROVE  CursorTold(u, r0, hidden)
  BY <1>2, <1>11, <1>5, <1>8, <1>4, <1>7, CursorKept
<1>12. t.plain => Fed(t, u, r0)
  <2>1. t.plain => h = t
    BY <1>2 DEF HidCursor
  <2> QED BY <2>1, <1>5, <1>8 DEF Fed
<1> QED BY <1>4, <1>5, <1>7, <1>8, <1>9, <1>10, <1>11, <1>12 DEF u

Told(t, r0, resized, hidden) == Known(t, Now(r0, t), resized) /\ CursorTold(t, r0, hidden)

\* The terminal is known where the cursor has moved to, too.
MovedTo(t, u, r0, line, width) ==
  /\ u \in TermType(width) /\ TermOK(u) /\ u.line = line
  /\ u.plain = t.plain /\ u.outputColor = t.outputColor
  /\ Moved(Now(r0, t), Now(r0, u), line - t.line)

\* moveTerminalToLine brings the cursor to the line, and the terminal stays known.
LEMMA MoveTold ==
  ASSUME NEW width \in Nat, width >= 1, NEW r0 \in RemoteType(width), NEW t \in TermType(width), TermOK(t),
         NEW line \in Nat, ~t.plain, NEW resized, NEW hidden \in BOOLEAN, Told(t, r0, resized, hidden),
         Now(r0, t).row + (line - t.line) >= 1
  PROVE  /\ MovedTo(t, moveTerminalToLine(t, line), r0, line, width)
         /\ Told(moveTerminalToLine(t, line), r0, resized, hidden)
<1> DEFINE u == moveTerminalToLine(t, line)
           r == Now(r0, t)
           q == Now(r0, u)
<1>1. t.line \in Nat /\ r \in RemoteType(width) /\ r.row \in 1..Height /\ Height \in Nat /\ r.scrolled \in Nat
      /\ r.width = width
  <2>1. r \in RemoteType(width)
    BY NowType
  <2> HIDE DEF r
  <2> QED BY <2>1, ConstantsFit, RemoteFields DEF TermType
<1>2. CASE line = t.line
  <2>1. u = t
    BY <1>2 DEF moveTerminalToLine
  <2>2. line - t.line = 0 /\ r.row + 0 = r.row
    BY <1>1, <1>2
  <2>3. Up(r.row) = 0
    BY <1>1 DEF Up
  <2>4. \A k \in 1..Height : r.rows[k] = FedRow(r, k, 0)
    BY <1>1 DEF FedRow
  <2>5. Moved(r, r, 0)
    <3> HIDE DEF r
    <3> QED BY <1>1, <2>2, <2>3, <2>4 DEF Moved
  <2> HIDE DEF r, u
  <2> QED BY <1>2, <2>1, <2>2, <2>5 DEF r, u, MovedTo
<1>3. CASE line # t.line
  <2>1. /\ u \in TermType(width) /\ TermOK(u)
        /\ u.line = line /\ u.column = 0 /\ u.data = <<>> /\ u.valid
        /\ u.color = t.color /\ u.plain = t.plain /\ u.outputColor = t.outputColor
        /\ ~t.plain => /\ Began(t, u, r0, line - t.line, width) /\ u.hidden
                       /\ (t.hidden => ~Now(r0, t).visible) => ~Now(r0, u).visible
                       /\ \A hid \in BOOLEAN :
                            CursorTold(t, r0, hid) /\ (t.hidden => ~Now(r0, t).visible)
                              => CursorTold(u, r0, hid)
    BY <1>3, MoveHolds
  <2> HIDE DEF u
  <2>2. Moved(r, q, line - t.line) /\ q.col = 0
    BY <2>1 DEF Began
  <2>3. t.hidden => ~r.visible
    BY DEF Told, Known
  <2>4. q.color = r.color
    <3> HIDE DEF r, q
    <3> QED BY <2>2 DEF Moved
  <2>5. Known(u, q, resized)
    <3>1. Len(u.data) = 0
      BY <2>1
    <3>2. u.color # NoColor => q.color = u.color
      BY <2>1, <2>4 DEF Told, Known
    <3> HIDE DEF q, r
    <3> QED BY <2>1, <2>2, <2>3, <3>1, <3>2 DEF Known, q, r
  <2>6. CursorTold(u, r0, hidden)
    BY <2>1, <2>3 DEF Told
  <2> QED BY <2>1, <2>2, <2>5, <2>6 DEF MovedTo, Told, u
<1> QED BY <1>2, <1>3

\* Terminal::sendLine goes back to the start of the line unless what has been sent of it is right.
Rewound(t, u, cells, width) ==
  /\ u \in TermType(width) /\ TermOK(u) /\ u.valid /\ u.line = t.line /\ u.color = t.color
  /\ u.plain = t.plain /\ u.outputColor = t.outputColor
  /\ u.column = Len(u.data) /\ Len(u.data) <= Len(cells)
  /\ \A i \in 1..Len(u.data) : u.data[i] = cells[i]
  /\ ~t.plain => Len(u.data) < Len(cells)
SameRows(r, q) == q.rows = r.rows /\ q.row = r.row /\ q.color = r.color

\* What is not rewound is right, and the cursor is behind what is kept.
LEMMA RewindHolds ==
  ASSUME NEW width \in Nat, width >= 1, NEW r0 \in RemoteType(width), NEW t \in TermType(width), TermOK(t),
         NEW cells \in Seq(Cell), Len(cells) >= 1, Len(cells) <= width
  PROVE  /\ Rewound(t, Rewind(t, cells), cells, width)
         /\ IF CanAppend(t, cells) THEN Rewind(t, cells) = t ELSE t.plain => Fed(t, Rewind(t, cells), r0)
         /\ \A resized : \A hidden \in BOOLEAN :
              ~t.plain /\ Told(t, r0, resized, hidden)
                => /\ Told(Rewind(t, cells), r0, resized, hidden)
                   /\ SameRows(Now(r0, t), Now(r0, Rewind(t, cells)))
                   /\ Now(r0, Rewind(t, cells)).col = Len(Rewind(t, cells).data)
<1> DEFINE u == Rewind(t, cells)
           h == hideTerminalCursor(t)
           ops == IF t.plain THEN CrLfs(1) ELSE <<Op("CR")>>
           w == Write(h, ops)
           r == Now(r0, h)
<1>1. t.plain \in BOOLEAN /\ t.hidden \in BOOLEAN /\ t.valid \in BOOLEAN /\ t.column \in Nat /\ t.data \in Seq(Cell)
      /\ Len(t.data) \in Nat /\ Len(cells) \in Nat /\ MaxWidth \in Nat
  BY ConstantsFit DEF TermType
<1>2. CASE CanAppend(t, cells)
  <2>1. u = t
    BY <1>2 DEF Rewind
  <2>2. t.valid /\ t.column = Len(t.data)
    BY <1>2 DEF CanAppend, TermOK
  <2>3. Len(t.data) <= Len(cells) /\ (~t.plain => Len(t.data) < Len(cells)) /\ \A i \in 1..Len(t.data) : t.data[i] = cells[i]
    <3>1. CASE t.column > 0
      <4>1. Len(cells) >= Len(t.data) + (IF t.plain THEN 0 ELSE 1) /\ SubSeq(cells, 1, Len(t.data)) = t.data
        BY <1>2, <3>1 DEF CanAppend
      <4>2. Len(t.data) <= Len(cells) /\ (~t.plain => Len(t.data) < Len(cells))
        <5>1. CASE t.plain
          BY <4>1, <5>1, <1>1
        <5>2. CASE ~t.plain
          BY <4>1, <5>2, <1>1
        <5> QED BY <5>1, <5>2
      <4>3. \A i \in 1..Len(t.data) : SubSeq(cells, 1, Len(t.data))[i] = cells[i]
        BY <4>2, <1>1
      <4> QED BY <4>1, <4>2, <4>3
    <3>2. CASE ~(t.column > 0)
      BY <3>2, <2>2, <1>1
    <3> QED BY <3>1, <3>2
  <2>4. Rewound(t, t, cells, width)
    BY <2>2, <2>3, <1>1 DEF Rewound
  <2>5. ASSUME NEW resized, NEW hidden \in BOOLEAN, ~t.plain, Told(t, r0, resized, hidden)
        PROVE  SameRows(Now(r0, t), Now(r0, t)) /\ Now(r0, t).col = Len(t.data)
    BY NowType, RemoteFields, ConstantsFit, <2>5, <2>2, <2>3, <1>1 DEF Told, Known, SameRows
  <2> QED BY <1>2, <2>1, <2>4, <2>5
<1>3. CASE ~CanAppend(t, cells)
  <2>1. HidCursor(t, h, r0, width) /\ \A hidden \in BOOLEAN :
              ~t.plain /\ (t.hidden => ~Now(r0, t).visible) /\ CursorTold(t, r0, hidden)
                => CursorTold(h, r0, hidden)
    BY HideHolds
  <2>2. u = AtLineStart(w)
    BY <1>3 DEF Rewind
  <2> HIDE DEF h, u
  <2>3. h \in TermType(width) /\ SameTerm(t, h) /\ TermOK(h) /\ SameScreen(Now(r0, t), r) /\ r \in RemoteType(width)
        /\ Now(r0, t) \in RemoteType(width) /\ (~t.plain => h.hidden)
        /\ (~t.plain /\ (t.hidden => ~Now(r0, t).visible) => ~r.visible)
    BY <2>1 DEF HidCursor
  <2> DEFINE p == PerformAll(r, ops)
  <2>4. /\ ops \in Seq(Ops(width)) /\ ~ForCursor(ops)
        /\ t.plain => Appending(ops) /\ \E j \in Nat : j >= 1 /\ ops = CrLfs(j)
    <3>1. CASE t.plain
      <4>0. PICK j \in Nat : j = 1
        OBVIOUS
      <4>1. ops = CrLfs(j)
        BY <3>1, <4>0
      <4> HIDE DEF ops, r
      <4>2. ops \in Seq(Ops(width)) /\ \A i \in 1..Len(ops) : ops[i].op = "CRLF"
        BY <2>3, <4>1, CrLfsMove
      <4>3. ~ForCursor(ops) /\ Appending(ops)
        BY <4>2 DEF ForCursor, Appending
      <4> QED BY <4>0, <4>1, <4>2, <4>3
    <3>2. CASE ~t.plain
      <4>1. ops = <<Op("CR")>> /\ Op("CR") \in Ops(width) /\ Op("CR").op = "CR"
        BY <3>2 DEF Op, Ops
      <4> HIDE DEF ops
      <4>2. ops \in Seq(Ops(width)) /\ Len(ops) = 1 /\ ops[1] = Op("CR")
        BY <4>1
      <4> QED BY <3>2, <4>1, <4>2 DEF ForCursor
    <3> QED BY <3>1, <3>2
  <2>5. ~t.plain => p.col = 0 /\ p.visible = r.visible /\ p.rows = r.rows /\ p.row = r.row /\ p.color = r.color
    <3> SUFFICES ASSUME ~t.plain
                 PROVE  p.col = 0 /\ p.visible = r.visible /\ p.rows = r.rows /\ p.row = r.row /\ p.color = r.color
      OBVIOUS
    <3>1. ops = <<Op("CR")>> /\ Op("CR") \in Ops(width)
      BY DEF Op, Ops
    <3> HIDE DEF r
    <3>2. p = Perform(r, Op("CR"))
      BY <2>3, <3>1, PerformOne
    <3>3. p = [r EXCEPT !.col = 0]
      BY <3>2 DEF Perform, Op
    <3> HIDE DEF p
    <3> QED BY <2>3, <3>3 DEF RemoteType
  <2> HIDE DEF ops
  <2>6. Wrote(h, w, ops, r0, width)
    BY <2>3, <2>4, WriteHolds
  <2> HIDE DEF w
  <2>7. /\ u \in TermType(width) /\ u.line = w.line /\ u.column = 0 /\ u.data = <<>> /\ u.valid = TRUE
        /\ u.color = w.color /\ u.plain = w.plain /\ u.outputColor = w.outputColor /\ u.hidden = w.hidden /\ u.out = w.out
    <3>1. w \in TermType(width) /\ <<>> \in Seq(Cell) /\ 0 \in 0..MaxWidth
      BY <2>6, ConstantsFit DEF Wrote
    <3> QED BY <2>2, <3>1 DEF TermType, AtLineStart
  <2>8. u.line = t.line /\ u.color = t.color /\ u.plain = t.plain /\ u.outputColor = t.outputColor /\ u.hidden = h.hidden
        /\ u.out = h.out \o ops /\ Now(r0, u) = p
    BY <2>3, <2>6, <2>7 DEF Wrote, SameTerm, Now
  <2>9. TermOK(u) /\ Len(u.data) = 0
    <3>1. h.plain => Appending(h.out \o ops)
      BY <2>3, <2>4, AppendingMore DEF TermOK, TermType, SameTerm
    <3> QED BY <3>1, <2>3, <2>7, <2>8 DEF TermOK, SameTerm, Paired
  <2>10. Rewound(t, u, cells, width)
    BY <1>1, <2>7, <2>8, <2>9 DEF Rewound
  <2>11. ASSUME NEW resized, NEW hidden \in BOOLEAN, ~t.plain, Told(t, r0, resized, hidden)
         PROVE  /\ Told(u, r0, resized, hidden) /\ SameRows(Now(r0, t), Now(r0, u))
                /\ Now(r0, u).col = Len(u.data)
    <3>1. t.hidden => ~Now(r0, t).visible
      BY <2>11 DEF Told, Known
    <3>2. CursorTold(h, r0, hidden)
      BY <2>1, <2>11, <3>1 DEF Told
    <3>3. Now(r0, u).visible = Now(r0, h).visible
      BY <2>5, <2>8, <2>11
    <3>4. CursorTold(u, r0, hidden)
      BY <2>3, <2>4, <2>7, <2>8, <3>2, <3>3, CursorKept
    <3>5. SameRows(Now(r0, t), Now(r0, u)) /\ Now(r0, u).col = 0 /\ ~Now(r0, u).visible
      <4> HIDE DEF r, p
      <4> QED BY <2>3, <2>5, <2>8, <2>11, <3>1 DEF SameRows, SameScreen
    <3>6. u.color # NoColor => Now(r0, u).color = u.color
      BY <2>11, <2>8, <3>5 DEF Told, Known, SameRows
    <3>7. Known(u, Now(r0, u), resized)
      <4> DEFINE q == Now(r0, u)
      <4> HIDE DEF q
      <4> QED BY <2>7, <2>9, <3>5, <3>6 DEF Known, q
    <3> QED BY <2>9, <3>4, <3>5, <3>7 DEF Told
  <2>12. t.plain => Fed(t, u, r0)
    <3>1. t.plain => h = t
      BY <2>1 DEF HidCursor
    <3> QED BY <3>1, <2>4, <2>8 DEF Fed
  <2> QED BY <1>3, <2>10, <2>11, <2>12 DEF u
<1> QED BY <1>2, <1>3

\* The row of the cursor shows a line.
Redrawn(r, q, cells, width, colors, resized) ==
  /\ q.row = r.row /\ \A k \in 1..Height : k # r.row => q.rows[k] = r.rows[k]
  /\ \A i \in 1..MaxWidth :
       IF i <= Len(cells) THEN Shows(q.rows[r.row][i], cells[i], colors, resized)
       ELSE IF i <= width THEN Empty(q.rows[r.row][i])
       ELSE q.rows[r.row][i] = r.rows[r.row][i]

\* What has been drawn and kept, and what it leaves to erase.
KeptOps(e) == SubSeq(e.ops, 1, e.kept) \o (IF e.erased THEN <<>> ELSE <<Op("EL")>>)
DrawnAway(r, q, e, ops, cells, width, colors, resized) ==
  /\ ops \in Seq(Ops(width)) /\ ~ForCursor(ops)
  /\ q.col = e.cells /\ q.visible = r.visible /\ (e.color # NoColor => q.color = e.color)
  /\ Redrawn(r, q, cells, width, colors, resized)

\* The rest of the line is erased unless the line fills its row.
LEMMA DrawnErased ==
  ASSUME NEW width \in Nat, width >= 1, width <= MaxWidth, NEW t, NEW cells, Drawable(t, cells, width), ~t.plain,
         NEW r0 \in RemoteType(width), Starts(t, r0), NEW resized,
         \A i \in 1..Len(t.data) : Shows(r0.rows[r0.row][i], cells[i], t.outputColor, resized),
         Len(t.data) < Len(cells),
         NEW e, e = Drawn(t, cells)
  PROVE  DrawnAway(r0, PerformAll(r0, KeptOps(e)), e, KeptOps(e), cells, width, t.outputColor, resized)
<1> DEFINE kept == SubSeq(e.ops, 1, e.kept)
           ops == kept \o (IF e.erased THEN <<>> ELSE <<Op("EL")>>)
           K == PerformAll(r0, kept)
           q == PerformAll(r0, ops)
           d == Len(t.data)
           colors == t.outputColor
           row == r0.row
           Goal == /\ ops \in Seq(Ops(width)) /\ ~ForCursor(ops)
                   /\ q.col = e.cells /\ q.visible = r0.visible /\ (e.color # NoColor => q.color = e.color)
                   /\ Redrawn(r0, q, cells, width, colors, resized)
<1>1. /\ cells \in Seq(Cell) /\ Len(cells) \in Nat /\ Len(cells) <= width /\ d \in Nat /\ colors \in BOOLEAN
      /\ MaxWidth \in Nat /\ Height \in Nat /\ row \in 1..Height
  BY ConstantsFit, RemoteFields DEF Drawable
<1>2. e \in Accs(width) /\ DrawnData(e, Len(cells), t, cells) /\ DrawnShown(e, Len(cells), t, cells, r0)
  BY DrawnHolds
<1>3. e.ops \in Seq(Ops(width)) /\ e.kept \in Nat /\ e.cells \in Nat /\ e.color \in Nat \union {NoColor}
      /\ e.erased \in BOOLEAN
  BY <1>2 DEF Accs
<1>4. /\ e.kept <= Len(e.ops) /\ d <= e.cells /\ e.cells <= Len(cells)
      /\ \A i \in (e.cells + 1)..Len(cells) : cells[i].ch = 32 /\ (colors => cells[i].color = e.color)
      /\ ~e.erased => e.cells < Len(cells)
      /\ e.erased => e.cells = Len(cells)
      /\ \A i \in 1..Len(e.ops) : e.ops[i].op \in {"put", "SGR", "EL"}
  BY <1>2 DEF DrawnData
<1>5. kept \in Seq(Ops(width)) /\ Len(kept) = e.kept /\ \A i \in 1..e.kept : kept[i] = e.ops[i]
  <2> DEFINE o == e.ops
             n == e.kept
  <2>1. o \in Seq(Ops(width)) /\ n \in 0..Len(o)
    BY <1>3, <1>4
  <2> HIDE DEF o, n
  <2>2. SubSeq(o, 1, n) \in Seq(Ops(width)) /\ Len(SubSeq(o, 1, n)) = n /\ \A i \in 1..n : SubSeq(o, 1, n)[i] = o[i]
    BY <2>1
  <2> QED BY <2>2 DEF o, n
<1>6. \A i \in 1..e.kept : kept[i].op \in {"put", "SGR", "EL"}
  BY <1>3, <1>4, <1>5
<1>7. K \in RemoteType(width)
  BY <1>5, PerformAllType
<1>8. /\ e.color # NoColor => K.color = e.color
      /\ Drawing(K, r0, cells, d, e.cells, IF e.erased THEN width ELSE 0, colors)
  BY RemoteFields, <1>1, <1>2 DEF DrawnShown
<1>9. \A k \in 1..Height : k # row => K.rows[k] = r0.rows[k]
  BY <1>8 DEF Drawing
<1>10. K.row = row /\ K.col = e.cells /\ K.visible = r0.visible
  BY <1>8 DEF Drawing
<1>11. \A i \in (e.cells + 1)..Len(cells) :
         cells[i].ch = 32 /\ PartOf(cells[i]) = "one" /\ (colors => cells[i].color = e.color /\ e.color # NoColor)
  <2> SUFFICES ASSUME NEW i \in (e.cells + 1)..Len(cells)
               PROVE  cells[i].ch = 32 /\ PartOf(cells[i]) = "one" /\ (colors => cells[i].color = e.color /\ e.color # NoColor)
    OBVIOUS
  <2>1. i \in 1..Len(cells) /\ cells[i].ch = 32 /\ (colors => cells[i].color = e.color)
    BY <1>1, <1>3, <1>4
  <2>2. cells[i] \in Cell
    BY <2>1, <1>1
  <2>3. cells[i].half = "none" /\ cells[i].color \in Nat
    BY <2>1, <2>2, CellFields
  <2> QED BY <2>1, <2>3 DEF PartOf, NoColor
<1> HIDE DEF K, kept, colors, d
<1>12. ASSUME e.erased PROVE Goal
  <2>1. ops = kept
    BY <1>5, <1>12
  <2>2. ~ForCursor(kept)
    BY <1>5, <1>6 DEF ForCursor
  <2>3. Drawing(K, r0, cells, d, e.cells, width, colors) /\ e.cells = Len(cells)
    BY <1>4, <1>8, <1>12
  <2>4. ASSUME NEW i \in 1..MaxWidth
        PROVE  IF i <= Len(cells) THEN Shows(K.rows[row][i], cells[i], colors, resized)
               ELSE IF i <= width THEN Empty(K.rows[row][i])
               ELSE K.rows[row][i] = r0.rows[row][i]
    <3>1. IF i \in (d + 1)..Len(cells) THEN Shows(K.rows[row][i], cells[i], colors, 0)
          ELSE IF i \in (Len(cells) + 1)..width THEN Empty(K.rows[row][i])
          ELSE K.rows[row][i] = r0.rows[row][i]
      BY <2>3 DEF Drawing
    <3>2. i <= d => Shows(r0.rows[row][i], cells[i], colors, resized)
      BY <1>1 DEF d, colors
    <3>3. i \in (d + 1)..Len(cells) => Shows(K.rows[row][i], cells[i], colors, resized)
      BY <3>1 DEF Shows
    <3> QED BY <3>1, <3>2, <3>3, <1>1, <1>4
  <2>5. Redrawn(r0, K, cells, width, colors, resized)
    BY <2>4, <1>9, <1>10 DEF Redrawn
  <2> QED BY <2>1, <2>2, <2>5, <1>5, <1>8, <1>10 DEF K
<1>13. ASSUME ~e.erased PROVE Goal
  <2> DEFINE E == Perform(K, Op("EL"))
  <2>1. ops = Append(kept, Op("EL")) /\ Op("EL") \in Ops(width) /\ Op("EL").op = "EL"
    <3>1. ops = kept \o <<Op("EL")>>
      BY <1>13
    <3>2. Op("EL") \in Ops(width) /\ Op("EL").op = "EL"
      BY DEF Op, Ops
    <3> HIDE DEF ops
    <3> QED BY <3>1, <3>2, <1>5
  <2>2. ops \in Seq(Ops(width)) /\ ~ForCursor(ops)
    <3> DEFINE o == Op("EL")
    <3>1. ops = Append(kept, o) /\ o \in Ops(width) /\ o.op = "EL"
      BY <2>1
    <3> HIDE DEF ops, o
    <3>2. ops \in Seq(Ops(width)) /\ Len(ops) = e.kept + 1 /\ ops[e.kept + 1] = o /\ \A i \in 1..e.kept : ops[i] = kept[i]
      BY <3>1, <1>5, <1>3
    <3>3. \A i \in 1..(e.kept + 1) : i \in 1..e.kept \/ i = e.kept + 1
      BY <1>3
    <3> QED BY <3>1, <3>2, <3>3, <1>6 DEF ForCursor
  <2>3. q = E
    <3> DEFINE o == Op("EL")
    <3>1. ops = Append(kept, o) /\ o \in Ops(width)
      BY <2>1
    <3> HIDE DEF ops, o
    <3> QED BY <3>1, <1>5, PerformAppend DEF K, o
  <2>4. e.cells < width /\ Drawing(K, r0, cells, d, e.cells, 0, colors)
    BY <1>1, <1>3, <1>4, <1>8, <1>13
  <2>5. /\ Drawing(E, r0, cells, d, e.cells, width, colors) /\ E.color = K.color
        /\ \A i \in (e.cells + 1)..width : E.rows[row][i].color = K.color
    BY <2>4, <1>1, <1>3, <1>4, <1>7, DrawingErase
  <2> HIDE DEF E
  <2>6. E.row = row /\ E.col = e.cells /\ E.visible = r0.visible /\ \A k \in 1..Height : k # row => E.rows[k] = r0.rows[k]
    BY <2>5 DEF Drawing
  <2>7. ASSUME NEW i \in 1..MaxWidth
        PROVE  IF i <= Len(cells) THEN Shows(E.rows[row][i], cells[i], colors, resized)
               ELSE IF i <= width THEN Empty(E.rows[row][i])
               ELSE E.rows[row][i] = r0.rows[row][i]
    <3>1. IF i \in (d + 1)..e.cells THEN Shows(E.rows[row][i], cells[i], colors, 0)
          ELSE IF i \in (e.cells + 1)..width THEN Empty(E.rows[row][i])
          ELSE E.rows[row][i] = r0.rows[row][i]
      BY <2>5 DEF Drawing
    <3>2. i <= d => Shows(r0.rows[row][i], cells[i], colors, resized)
      BY <1>1 DEF d, colors
    <3>3. i \in (d + 1)..e.cells => Shows(E.rows[row][i], cells[i], colors, resized)
      BY <3>1 DEF Shows
    <3>4. i \in (e.cells + 1)..Len(cells) => Shows(E.rows[row][i], cells[i], colors, resized)
      <4> SUFFICES ASSUME i \in (e.cells + 1)..Len(cells) PROVE Shows(E.rows[row][i], cells[i], colors, resized)
        OBVIOUS
      <4>1. i \in (e.cells + 1)..width /\ i \notin (d + 1)..e.cells
        BY <1>1, <1>3
      <4>2. Empty(E.rows[row][i]) /\ E.rows[row][i].color = K.color
        BY <4>1, <3>1, <2>5
      <4>3. cells[i].ch = 32 /\ PartOf(cells[i]) = "one" /\ (colors => cells[i].color = K.color)
        BY <1>8, <1>11
      <4>4. fixSpecialCharacters(cells[i].ch) = 32
        BY <4>3, FixedType
      <4> QED BY <4>2, <4>3, <4>4 DEF Shows, Empty
    <3> QED BY <3>1, <3>2, <3>3, <3>4, <1>1, <1>3, <1>4
  <2>8. Redrawn(r0, E, cells, width, colors, resized)
    BY <2>6, <2>7 DEF Redrawn
  <2>9. e.color # NoColor => E.color = e.color
    BY <2>5, <1>8
  <2> QED BY <2>2, <2>3, <2>6, <2>8, <2>9
<1>14. ops = KeptOps(e)
  BY DEF KeptOps, kept
<1>15. Goal
  BY <1>3, <1>12, <1>13
<1> QED BY <1>14, <1>15 DEF DrawnAway, colors

\* Terminal::sendLine has written the line and is behind the last cell it has sent.
LineSent(t, u, line, cells, width) ==
  /\ u \in TermType(width) /\ TermOK(u) /\ u.valid /\ u.line = line
  /\ u.plain = t.plain /\ u.outputColor = t.outputColor
  /\ u.column <= Len(cells) /\ Len(u.data) = u.column /\ \A i \in 1..u.column : u.data[i] = cells[i]
  /\ \A i \in (u.column + 1)..Len(cells) : cells[i].ch = 32 /\ (t.outputColor => cells[i].color = u.color)

\* A terminal without escape sequences has got characters and colours, but no characters if all is blank.
Printed(t, u, cells, r0, width) ==
  \E ops \in Seq(Ops(width)) :
    /\ Appending(ops) /\ Now(r0, u) = PerformAll(Now(r0, t), ops)
    /\ Quiet(t, cells) => \A i \in 1..Len(ops) : ops[i].op = "SGR"

\* The row of the cursor shows the line that is written.
LEMMA WriteLineHolds ==
  ASSUME NEW width \in Nat, width >= 1, width <= MaxWidth, NEW r0 \in RemoteType(width), NEW t \in TermType(width),
         TermOK(t), t.valid, NEW cells \in Seq(Cell), Paired(cells), Len(cells) <= width,
         t.column = Len(t.data), Len(t.data) <= Len(cells), \A i \in 1..Len(t.data) : t.data[i] = cells[i],
         ~t.plain => Len(t.data) < Len(cells), NEW cursorColumn
  PROVE  /\ LineSent(t, WriteLine(t, cells, cursorColumn, Drawn(t, cells)), t.line, cells, width)
         /\ t.plain => Printed(t, WriteLine(t, cells, cursorColumn, Drawn(t, cells)), cells, r0, width)
         /\ \A resized : \A hidden \in BOOLEAN :
              ~t.plain /\ Told(t, r0, resized, hidden) /\ Now(r0, t).col = Len(t.data)
                => /\ Told(WriteLine(t, cells, cursorColumn, Drawn(t, cells)), r0, resized, hidden)
                   /\ Redrawn(Now(r0, t), Now(r0, WriteLine(t, cells, cursorColumn, Drawn(t, cells))),
                              cells, width, t.outputColor, resized)
<1> DEFINE e == Drawn(t, cells)
           u == WriteLine(t, cells, cursorColumn, e)
           h == IF cursorColumn # -1 /\ e.cells > cursorColumn THEN hideTerminalCursor(t) ELSE t
           kept == SubSeq(e.ops, 1, e.kept)
           ops == kept \o (IF e.erased \/ t.plain THEN <<>> ELSE <<Op("EL")>>)
           w == Write(h, ops)
           data == SubSeq(cells, 1, e.cells)
<1>0. /\ t.plain \in BOOLEAN /\ t.hidden \in BOOLEAN /\ t.data \in Seq(Cell) /\ Len(t.data) \in Nat /\ Len(cells) \in Nat
      /\ MaxWidth \in Nat /\ t.color \in Nat \union {NoColor} /\ t.outputColor \in BOOLEAN
  BY ConstantsFit DEF TermType
<1>1. Drawable(t, cells, width)
  BY <1>0, PrefixBoundary DEF TermOK, Drawable
<1>2. e \in Accs(width) /\ DrawnData(e, Len(cells), t, cells)
  BY <1>1, DrawnHolds
<1>3. e.ops \in Seq(Ops(width)) /\ e.kept \in Nat /\ e.cells \in Nat /\ e.color \in Nat \union {NoColor}
      /\ e.erased \in BOOLEAN
  BY <1>2 DEF Accs
<1>4. e.kept <= Len(e.ops) /\ e.cells <= Len(cells) /\ Boundary(cells, e.cells)
  BY <1>2 DEF DrawnData
<1>5. HidCursor(t, hideTerminalCursor(t), r0, width) /\ \A hidden \in BOOLEAN :
            ~t.plain /\ (t.hidden => ~Now(r0, t).visible) /\ CursorTold(t, r0, hidden)
              => CursorTold(hideTerminalCursor(t), r0, hidden)
  BY HideHolds
<1>6. /\ h \in TermType(width) /\ SameTerm(t, h) /\ TermOK(h) /\ SameScreen(Now(r0, t), Now(r0, h))
      /\ Now(r0, t) \in RemoteType(width) /\ Now(r0, h) \in RemoteType(width)
      /\ ~t.plain /\ (t.hidden => ~Now(r0, t).visible) => (h.hidden => ~Now(r0, h).visible)
      /\ \A hidden \in BOOLEAN :
            ~t.plain /\ (t.hidden => ~Now(r0, t).visible) /\ CursorTold(t, r0, hidden) => CursorTold(h, r0, hidden)
  <2>1. CASE cursorColumn # -1 /\ e.cells > cursorColumn
    <3>1. h = hideTerminalCursor(t)
      BY <2>1
    <3> HIDE DEF h
    <3> QED BY <3>1, <1>5 DEF HidCursor
  <2>2. CASE ~(cursorColumn # -1 /\ e.cells > cursorColumn)
    <3>1. h = t
      BY <2>2
    <3> HIDE DEF h
    <3> QED BY <3>1, <1>5 DEF HidCursor, SameTerm, SameScreen
  <2> QED BY <2>1, <2>2
<1> HIDE DEF h
<1>7. u = [w EXCEPT !.data = data, !.column = e.cells, !.color = e.color]
  BY <1>6 DEF WriteLine, SameTerm, h
<1> HIDE DEF e
<1>8. ops \in Seq(Ops(width))
  <2> DEFINE o == e.ops
             n == e.kept
             el == Op("EL")
  <2>1. o \in Seq(Ops(width)) /\ n \in 0..Len(o)
    BY <1>3, <1>4
  <2>2. el \in Ops(width)
    BY DEF Op, Ops
  <2>3. SubSeq(o, 1, n) \in Seq(Ops(width))
    <3> HIDE DEF o, n
    <3> QED BY <2>1
  <2>4. kept \in Seq(Ops(width))
    BY <2>3
  <2> HIDE DEF kept, el
  <2>5. <<el>> \in Seq(Ops(width)) /\ <<>> \in Seq(Ops(width))
    BY <2>2
  <2>6. kept \o <<el>> \in Seq(Ops(width)) /\ kept \o <<>> \in Seq(Ops(width))
    BY <2>4, <2>5
  <2> QED BY <2>6 DEF el
<1>p. t.plain => Appending(ops) /\ (Quiet(t, cells) => \A i \in 1..Len(ops) : ops[i].op = "SGR")
  <2> SUFFICES ASSUME t.plain PROVE Appending(ops) /\ (Quiet(t, cells) => \A i \in 1..Len(ops) : ops[i].op = "SGR")
    OBVIOUS
  <2> DEFINE o == e.ops
             n == e.kept
  <2>1. o \in Seq(Ops(width)) /\ n \in 0..Len(o)
    BY <1>3, <1>4
  <2>2. /\ \A i \in 1..Len(o) : o[i].op \in {"put", "SGR"}
        /\ Quiet(t, cells) => \A i \in 1..n : o[i].op = "SGR"
    BY <1>2 DEF DrawnData
  <2>3. ops = SubSeq(o, 1, n) \o <<>>
    OBVIOUS
  <2> HIDE DEF o, n, ops
  <2>4. ops = SubSeq(o, 1, n) /\ Len(ops) = n /\ \A i \in 1..n : ops[i] = o[i]
    BY <2>1, <2>3
  <2>5. Appending(ops)
    BY <2>1, <2>2, <2>4 DEF Appending
  <2>6. Quiet(t, cells) => \A i \in 1..Len(ops) : ops[i].op = "SGR"
    BY <2>2, <2>4
  <2> QED BY <2>5, <2>6
<1>9. Wrote(h, w, ops, r0, width)
  <2> HIDE DEF ops
  <2> QED BY <1>6, <1>8, WriteHolds
<1>10. data \in Seq(Cell) /\ Len(data) = e.cells /\ Paired(data) /\ \A i \in 1..e.cells : data[i] = cells[i]
  <2>1. e.cells \in 0..Len(cells)
    BY <1>0, <1>3, <1>4
  <2> DEFINE m == e.cells
  <2> HIDE DEF m
  <2>2. SubSeq(cells, 1, m) \in Seq(Cell) /\ Len(SubSeq(cells, 1, m)) = m
        /\ (\A i \in 1..m : SubSeq(cells, 1, m)[i] = cells[i]) /\ Paired(SubSeq(cells, 1, m))
    BY <2>1, <1>4, PairedPrefix DEF m
  <2> QED BY <2>2 DEF m
<1> HIDE DEF w, ops, data, u
<1>11. /\ u \in TermType(width) /\ u.line = w.line /\ u.column = e.cells /\ u.data = data /\ u.valid = w.valid
       /\ u.color = e.color /\ u.plain = w.plain /\ u.outputColor = w.outputColor /\ u.hidden = w.hidden /\ u.out = w.out
  <2>1. w \in TermType(width) /\ e.cells \in 0..MaxWidth
    BY <1>0, <1>3, <1>4, <1>9 DEF Wrote
  <2> QED BY <2>1, <1>3, <1>7, <1>10 DEF TermType
<1>12. u.line = t.line /\ u.valid = t.valid /\ u.plain = t.plain /\ u.outputColor = t.outputColor /\ u.hidden = h.hidden
       /\ u.out = h.out \o ops /\ Now(r0, u) = PerformAll(Now(r0, h), ops)
  BY <1>6, <1>9, <1>11 DEF Wrote, SameTerm, Now
<1>13. LineSent(t, u, t.line, cells, width)
  <2>1. h.plain => Appending(h.out \o ops)
    BY <1>6, <1>8, <1>p, AppendingMore DEF TermOK, TermType, SameTerm
  <2>2. TermOK(u)
    BY <2>1, <1>6, <1>10, <1>11, <1>12 DEF TermOK, SameTerm
  <2>3. \A i \in (e.cells + 1)..Len(cells) : cells[i].ch = 32 /\ (t.outputColor => cells[i].color = e.color)
    BY <1>2 DEF DrawnData
  <2> QED BY <2>2, <2>3, <1>10, <1>11, <1>12, <1>4, <1>6 DEF SameTerm, TermOK, LineSent
<1>14. ASSUME NEW resized, NEW hidden \in BOOLEAN, ~t.plain, Told(t, r0, resized, hidden), Now(r0, t).col = Len(t.data)
       PROVE  /\ Told(u, r0, resized, hidden)
              /\ Redrawn(Now(r0, t), Now(r0, u), cells, width, t.outputColor, resized)
  <2> DEFINE r == Now(r0, t)
             p == Now(r0, h)
             q == Now(r0, u)
  <2>1. t.hidden => ~r.visible
    BY <1>14 DEF Told, Known
  <2>2. CursorTold(h, r0, hidden) /\ (h.hidden => ~p.visible)
    BY <2>1, <1>6, <1>14 DEF Told
  <2>3. SameScreen(r, p) /\ p \in RemoteType(width)
    BY <1>6
  <2>4. Starts(t, p) /\ \A i \in 1..Len(t.data) : Shows(p.rows[p.row][i], cells[i], t.outputColor, resized)
    <3> HIDE DEF p
    <3>1. /\ t.color # NoColor => r.color = t.color
          /\ \A i \in 1..Len(t.data) : Shows(r.rows[r.row][i], t.data[i], t.outputColor, resized)
      BY <1>14 DEF Told, Known
    <3> HIDE DEF r
    <3> QED BY <3>1, <2>3, <1>14 DEF SameScreen, Starts, r
  <2>5. ops = KeptOps(e)
    BY <1>14 DEF ops, KeptOps
  <2>6. Len(t.data) < Len(cells) /\ e = Drawn(t, cells)
    BY <1>14 DEF e
  <2>7. q = PerformAll(p, ops)
    BY <1>12
  <2> HIDE DEF p, q, r
  <2>8. /\ ~ForCursor(ops)
        /\ q.col = e.cells /\ q.visible = p.visible /\ (e.color # NoColor => q.color = e.color)
        /\ Redrawn(p, q, cells, width, t.outputColor, resized)
    <3>1. DrawnAway(p, PerformAll(p, KeptOps(e)), e, KeptOps(e), cells, width, t.outputColor, resized)
      BY <1>1, <1>14, <2>3, <2>4, <2>6, DrawnErased
    <3>2. DrawnAway(p, q, e, ops, cells, width, t.outputColor, resized)
      BY <3>1, <2>5, <2>7
    <3> QED BY <3>2 DEF DrawnAway
  <2>9. CursorTold(u, r0, hidden)
    BY <2>2, <2>8, <1>6, <1>8, <1>11, <1>12, CursorKept DEF p, q
  <2>10. Redrawn(r, q, cells, width, t.outputColor, resized)
    BY <2>3, <2>8 DEF SameScreen, Redrawn
  <2>11. \A i \in 1..Len(u.data) : Shows(q.rows[q.row][i], u.data[i], u.outputColor, resized)
    <3> SUFFICES ASSUME NEW i \in 1..Len(u.data) PROVE Shows(q.rows[q.row][i], u.data[i], u.outputColor, resized)
      OBVIOUS
    <3>1. i \in 1..e.cells /\ u.data[i] = cells[i]
      BY <1>10, <1>11
    <3>2. i \in 1..MaxWidth /\ i <= Len(cells)
      BY <3>1, <1>0, <1>3, <1>4
    <3>3. q.row = r.row /\ Shows(q.rows[r.row][i], cells[i], t.outputColor, resized)
      BY <3>2, <2>10 DEF Redrawn
    <3> QED BY <3>1, <3>3, <1>12
  <2>12. Known(u, q, resized)
    BY <2>2, <2>8, <2>11, <1>11, <1>12 DEF Known
  <2> QED BY <2>9, <2>10, <2>12 DEF Told, q, r
<1>15. t.plain => Printed(t, u, cells, r0, width)
  <2>1. t.plain => h = t
    BY <1>5 DEF h, HidCursor
  <2> QED BY <2>1, <1>p, <1>8, <1>12 DEF Printed
<1> QED BY <1>13, <1>14, <1>15 DEF u, e

\* A line is sent: the terminal scrolls as far as the line is below it, and shows it.
Sent(t, u, r0, line, cells, width, resized) ==
  LET r == Now(r0, t)
      q == Now(r0, u)
      up == Up(r.row + (line - t.line))
  IN /\ q.row = r.row + (line - t.line) - up
     /\ \A k \in 1..Height : k # q.row => q.rows[k] = FedRow(r, k, up)
     /\ \A i \in 1..MaxWidth :
          IF i <= Len(cells) THEN Shows(q.rows[q.row][i], cells[i], t.outputColor, resized)
          ELSE IF i <= width THEN Empty(q.rows[q.row][i])
          ELSE q.rows[q.row][i] = FedRow(r, q.row, up)[i]

\* sendLine brings the line to its row, and the terminal stays known.
LEMMA SendHolds ==
  ASSUME NEW width \in Nat, width >= 1, width <= MaxWidth, NEW r0 \in RemoteType(width), NEW t \in TermType(width),
         TermOK(t), NEW line \in Nat, NEW cells \in Seq(Cell), Paired(cells), Len(cells) >= 1, Len(cells) <= width,
         NEW cursorColumn
  PROVE  /\ LineSent(t, sendLine(t, line, cells, cursorColumn), line, cells, width)
         /\ \A resized : \A hidden \in BOOLEAN :
              ~t.plain /\ Told(t, r0, resized, hidden) /\ Now(r0, t).row + (line - t.line) >= 1
                => /\ Told(sendLine(t, line, cells, cursorColumn), r0, resized, hidden)
                   /\ Sent(t, sendLine(t, line, cells, cursorColumn), r0, line, cells, width, resized)
<1> DEFINE m == moveTerminalToLine(t, line)
           s == Rewind(m, cells)
           u == WriteLine(s, cells, cursorColumn, Drawn(s, cells))
<1>1. u = sendLine(t, line, cells, cursorColumn)
  BY DEF sendLine
<1>2. m \in TermType(width) /\ TermOK(m) /\ m.line = line /\ m.plain = t.plain /\ m.outputColor = t.outputColor
  <2>1. CASE line = t.line
    BY <2>1 DEF moveTerminalToLine
  <2>2. CASE line # t.line
    BY <2>2, MoveHolds
  <2> QED BY <2>1, <2>2
<1> HIDE DEF m
<1>3. Rewound(m, s, cells, width)
  BY <1>2, RewindHolds
<1>4. \A resized : \A hidden \in BOOLEAN :
        ~m.plain /\ Told(m, r0, resized, hidden)
          => Told(s, r0, resized, hidden) /\ SameRows(Now(r0, m), Now(r0, s)) /\ Now(r0, s).col = Len(s.data)
  BY <1>2, RewindHolds
<1> HIDE DEF s
<1>5. /\ s \in TermType(width) /\ TermOK(s) /\ s.valid /\ s.line = line /\ s.plain = t.plain /\ s.outputColor = t.outputColor
      /\ s.column = Len(s.data) /\ Len(s.data) <= Len(cells) /\ (\A i \in 1..Len(s.data) : s.data[i] = cells[i])
      /\ (~s.plain => Len(s.data) < Len(cells))
  BY <1>2, <1>3 DEF Rewound
<1>6. LineSent(s, u, s.line, cells, width)
  BY <1>5, WriteLineHolds
<1>7. \A resized : \A hidden \in BOOLEAN :
        ~s.plain /\ Told(s, r0, resized, hidden) /\ Now(r0, s).col = Len(s.data)
          => Told(u, r0, resized, hidden) /\ Redrawn(Now(r0, s), Now(r0, u), cells, width, s.outputColor, resized)
  BY <1>5, WriteLineHolds
<1> HIDE DEF u
<1>8. LineSent(t, u, line, cells, width)
  BY <1>5, <1>6 DEF LineSent
<1>9. ASSUME NEW resized, NEW hidden \in BOOLEAN, ~t.plain, Told(t, r0, resized, hidden),
             Now(r0, t).row + (line - t.line) >= 1
      PROVE  Told(u, r0, resized, hidden) /\ Sent(t, u, r0, line, cells, width, resized)
  <2>1. MovedTo(t, m, r0, line, width) /\ Told(m, r0, resized, hidden)
    BY <1>9, MoveTold DEF m
  <2>2. Told(s, r0, resized, hidden) /\ SameRows(Now(r0, m), Now(r0, s)) /\ Now(r0, s).col = Len(s.data)
    BY <2>1, <1>2, <1>4, <1>9
  <2>3. Told(u, r0, resized, hidden) /\ Redrawn(Now(r0, s), Now(r0, u), cells, width, t.outputColor, resized)
    BY <2>2, <1>5, <1>7, <1>9
  <2>4. Moved(Now(r0, t), Now(r0, m), line - t.line)
    BY <2>1 DEF MovedTo
  <2>5. Now(r0, m).row \in 1..Height
    BY <1>2, NowType, RemoteFields, ConstantsFit
  <2> DEFINE r == Now(r0, t)
             a == Now(r0, m)
             b == Now(r0, s)
             q == Now(r0, u)
             up == Up(r.row + (line - t.line))
  <2> HIDE DEF r, a, b, q
  <2>6. /\ a.row = r.row + (line - t.line) - up /\ \A k \in 1..Height : a.rows[k] = FedRow(r, k, up)
        /\ a.row \in 1..Height /\ b.rows = a.rows /\ b.row = a.row /\ q.row = b.row
        /\ \A k \in 1..Height : k # b.row => q.rows[k] = b.rows[k]
        /\ \A i \in 1..MaxWidth :
             IF i <= Len(cells) THEN Shows(q.rows[b.row][i], cells[i], t.outputColor, resized)
             ELSE IF i <= width THEN Empty(q.rows[b.row][i])
             ELSE q.rows[b.row][i] = b.rows[b.row][i]
    BY <2>2, <2>3, <2>4, <2>5 DEF Moved, SameRows, Redrawn, r, a, b, q
  <2> HIDE DEF up
  <2>7. /\ q.row = r.row + (line - t.line) - up
        /\ \A k \in 1..Height : k # q.row => q.rows[k] = FedRow(r, k, up)
        /\ \A i \in 1..MaxWidth :
             IF i <= Len(cells) THEN Shows(q.rows[q.row][i], cells[i], t.outputColor, resized)
             ELSE IF i <= width THEN Empty(q.rows[q.row][i])
             ELSE q.rows[q.row][i] = FedRow(r, q.row, up)[i]
    BY <2>6
  <2> QED BY <2>3, <2>7 DEF Sent, up, q, r
<1> QED BY <1>1, <1>8, <1>9

\* A terminal with its cursor hidden is as known as before.
LEMMA HideTold ==
  ASSUME NEW width \in Nat, width >= 1, NEW r0 \in RemoteType(width), NEW t \in TermType(width), ~t.plain,
         NEW resized, NEW hidden \in BOOLEAN, Told(t, r0, resized, hidden)
  PROVE  /\ Told(hideTerminalCursor(t), r0, resized, hidden) /\ hideTerminalCursor(t).hidden
         /\ SameScreen(Now(r0, t), Now(r0, hideTerminalCursor(t))) /\ SameTerm(t, hideTerminalCursor(t))
<1> DEFINE h == hideTerminalCursor(t)
           r == Now(r0, t)
           q == Now(r0, h)
<1>1. HidCursor(t, h, r0, width) /\ (~t.plain /\ (t.hidden => ~r.visible) /\ CursorTold(t, r0, hidden)
                                       => CursorTold(h, r0, hidden))
  BY HideHolds
<1>2. Known(t, r, resized) /\ CursorTold(t, r0, hidden)
  BY DEF Told
<1>3. t.hidden => ~r.visible
  BY <1>2 DEF Known
<1>4. r.width = width /\ q.width = width
  BY <1>1, RemoteFields, ConstantsFit DEF HidCursor
<1>5. h.hidden /\ ~q.visible /\ SameTerm(t, h) /\ SameScreen(r, q)
  BY <1>1, <1>3 DEF HidCursor
<1> HIDE DEF h, r, q
<1>6. Known(h, q, resized)
  BY <1>2, <1>4, <1>5 DEF Known, SameTerm, SameScreen
<1>7. CursorTold(h, r0, hidden)
  BY <1>1, <1>2, <1>3
<1> QED BY <1>5, <1>6, <1>7 DEF Told, h, r, q

\* Terminal::showTerminalCursor.
LEMMA ShowHolds ==
  ASSUME NEW width \in Nat, width >= 1, width <= MaxWidth, NEW r0 \in RemoteType(width), NEW t \in TermType(width),
         TermOK(t), NEW line \in Nat, NEW column \in Nat, column < width
  PROVE  LET u == showTerminalCursor(t, column, line)
         IN /\ u \in TermType(width) /\ TermOK(u) /\ u.line = line
            /\ u.plain = t.plain /\ u.outputColor = t.outputColor
            /\ ~t.plain => u.column = column /\ ~u.hidden
            /\ \A resized : \A hidden \in BOOLEAN :
                 ~t.plain /\ Told(t, r0, resized, hidden) /\ Now(r0, t).row + (line - t.line) >= 1
                   => Told(u, r0, resized, hidden) /\ Moved(Now(r0, t), Now(r0, u), line - t.line)
<1> DEFINE m == moveTerminalToLine(t, line)
           cha == [op |-> "CHA", column |-> column]
           c == IF m.column = column THEN m
                ELSE [Write(m, <<cha>>) EXCEPT !.valid = (column = 0), !.data = <<>>, !.column = column]
           u == IF t.plain THEN m
                ELSE IF c.hidden THEN [Write(c, <<Op("SHOW")>>) EXCEPT !.hidden = FALSE] ELSE c
<1>0. u = showTerminalCursor(t, column, line)
  BY DEF showTerminalCursor
<1>1. m \in TermType(width) /\ TermOK(m) /\ m.line = line /\ m.plain = t.plain /\ m.outputColor = t.outputColor
  BY MoveHolds DEF moveTerminalToLine
<1>2. ASSUME NEW resized, NEW hidden \in BOOLEAN, ~t.plain, Told(t, r0, resized, hidden),
             Now(r0, t).row + (line - t.line) >= 1
      PROVE  Told(m, r0, resized, hidden) /\ Moved(Now(r0, t), Now(r0, m), line - t.line)
  BY <1>2, MoveTold DEF MovedTo
<1> HIDE DEF m
<1>3. t.plain \in BOOLEAN /\ m.hidden \in BOOLEAN
  BY <1>1 DEF TermType
<1>4. /\ cha \in Ops(width) /\ cha.op = "CHA" /\ cha.column = column /\ <<cha>> \in Seq(Ops(width)) /\ ~ForCursor(<<cha>>)
      /\ Op("SHOW") \in Ops(width) /\ Op("SHOW").op = "SHOW" /\ <<Op("SHOW")>> \in Seq(Ops(width))
  <2>1. cha \in Ops(width) /\ cha.op = "CHA" /\ cha.column = column
    BY DEF Ops
  <2>2. Op("SHOW") \in Ops(width) /\ Op("SHOW").op = "SHOW"
    BY DEF Ops, Op
  <2> HIDE DEF cha
  <2>3. <<cha>> \in Seq(Ops(width)) /\ Len(<<cha>>) = 1 /\ <<cha>>[1] = cha
    BY <2>1
  <2>4. ~ForCursor(<<cha>>)
    BY <2>1, <2>3 DEF ForCursor
  <2> QED BY <2>1, <2>2, <2>3, <2>4
<1>5. /\ c \in TermType(width) /\ (~t.plain => TermOK(c)) /\ c.line = line /\ c.plain = t.plain
      /\ c.outputColor = t.outputColor /\ c.column = column /\ c.hidden = m.hidden
      /\ \A resized : \A hidden \in BOOLEAN :
           ~t.plain /\ Told(m, r0, resized, hidden)
             => /\ Told(c, r0, resized, hidden) /\ SameRows(Now(r0, m), Now(r0, c))
                /\ Now(r0, c).scrolled = Now(r0, m).scrolled
  <2>1. CASE m.column = column
    <3>1. c = m
      BY <2>1
    <3> HIDE DEF c
    <3> QED BY <3>1, <2>1, <1>1 DEF SameRows
  <2>2. CASE m.column # column
    <3> DEFINE w == Write(m, <<cha>>)
    <3>1. Wrote(m, w, <<cha>>, r0, width)
      <4> HIDE DEF cha
      <4> QED BY <1>1, <1>4, WriteHolds
    <3>2. c = [w EXCEPT !.valid = (column = 0), !.data = <<>>, !.column = column]
      BY <2>2
    <3> HIDE DEF w, c
    <3>3. /\ c \in TermType(width) /\ c.line = w.line /\ c.column = column /\ c.data = <<>> /\ c.valid = (column = 0)
          /\ c.color = w.color /\ c.plain = w.plain /\ c.outputColor = w.outputColor /\ c.hidden = w.hidden /\ c.out = w.out
      <4>1. w \in TermType(width) /\ <<>> \in Seq(Cell) /\ column \in 0..MaxWidth /\ (column = 0) \in BOOLEAN
        BY <3>1, ConstantsFit DEF Wrote
      <4> QED BY <3>2, <4>1 DEF TermType
    <3>4. /\ c.line = line /\ c.color = m.color /\ c.plain = t.plain /\ c.outputColor = t.outputColor /\ c.hidden = m.hidden
          /\ c.out = m.out \o <<cha>> /\ Now(r0, c) = PerformAll(Now(r0, m), <<cha>>)
      BY <3>1, <3>3, <1>1 DEF Wrote, SameTerm, Now
    <3>5. Len(c.data) = 0 /\ Paired(c.data)
      BY <3>3 DEF Paired
    <3>6. ~t.plain => TermOK(c)
      BY <3>3, <3>4, <3>5 DEF TermOK
    <3>7. ASSUME NEW resized, NEW hidden \in BOOLEAN, ~t.plain, Told(m, r0, resized, hidden)
          PROVE  /\ Told(c, r0, resized, hidden) /\ SameRows(Now(r0, m), Now(r0, c))
                 /\ Now(r0, c).scrolled = Now(r0, m).scrolled
      <4> DEFINE r == Now(r0, m)
                 q == Now(r0, c)
      <4>1. r \in RemoteType(width) /\ r.width = width
        BY <1>1, NowType, RemoteFields, ConstantsFit
      <4>2. q = Perform(r, cha)
        <5> HIDE DEF r, cha
        <5>1. PerformAll(r, <<cha>>) = Perform(r, cha)
          BY <4>1, <1>4, PerformOne
        <5> QED BY <5>1, <3>4 DEF r
      <4> HIDE DEF q, r
      <4>3. q = [r EXCEPT !.col = column]
        BY <4>1, <4>2 DEF Perform
      <4>4. q.col = column /\ q.rows = r.rows /\ q.row = r.row /\ q.color = r.color /\ q.visible = r.visible
            /\ q.scrolled = r.scrolled
        BY <4>1, <4>3 DEF RemoteType
      <4>5. CursorTold(m, r0, hidden) /\ Known(m, r, resized)
        BY <3>7 DEF Told, r
      <4>6. CursorTold(c, r0, hidden)
        <5> HIDE DEF cha
        <5> QED BY <1>1, <1>4, <3>3, <3>4, <4>4, <4>5, CursorKept DEF q, r
      <4>7. Known(c, q, resized)
        BY <3>3, <3>4, <3>5, <4>4, <4>5 DEF Known
      <4> QED BY <4>4, <4>6, <4>7 DEF Told, q, r, SameRows
    <3> QED BY <3>3, <3>4, <3>6, <3>7
  <2> QED BY <2>1, <2>2
<1> HIDE DEF c
<1>6. /\ u \in TermType(width) /\ TermOK(u) /\ u.line = line /\ u.plain = t.plain /\ u.outputColor = t.outputColor
      /\ ~t.plain => u.column = column /\ ~u.hidden
      /\ \A resized : \A hidden \in BOOLEAN :
           ~t.plain /\ Told(c, r0, resized, hidden)
             => /\ Told(u, r0, resized, hidden) /\ SameRows(Now(r0, c), Now(r0, u))
                /\ Now(r0, u).scrolled = Now(r0, c).scrolled
  <2>1. CASE t.plain
    <3>1. u = m
      BY <2>1
    <3> HIDE DEF u
    <3> QED BY <3>1, <2>1, <1>1
  <2>2. CASE ~t.plain /\ ~c.hidden
    <3>1. u = c
      BY <2>2
    <3> HIDE DEF u
    <3> QED BY <3>1, <2>2, <1>5 DEF SameRows
  <2>3. CASE ~t.plain /\ c.hidden
    <3> DEFINE w == Write(c, <<Op("SHOW")>>)
    <3>1. Wrote(c, w, <<Op("SHOW")>>, r0, width)
      BY <1>4, <1>5, WriteHolds
    <3>2. u = [w EXCEPT !.hidden = FALSE]
      BY <2>3
    <3> HIDE DEF w, u
    <3>3. /\ u \in TermType(width) /\ SameTerm(c, u) /\ u.hidden = FALSE /\ u.out = w.out
          /\ u.out = c.out \o <<Op("SHOW")>> /\ Now(r0, u) = PerformAll(Now(r0, c), <<Op("SHOW")>>)
      BY <3>1, <3>2 DEF Wrote, TermType, SameTerm, Now
    <3>4. TermOK(u)
      BY <3>3, <1>5, <2>3 DEF TermOK, SameTerm
    <3> DEFINE r == Now(r0, c)
               q == Now(r0, u)
    <3>5. r \in RemoteType(width)
      BY <1>5, NowType
    <3>6. q = Perform(r, Op("SHOW"))
      <4> HIDE DEF r
      <4>1. PerformAll(r, <<Op("SHOW")>>) = Perform(r, Op("SHOW"))
        BY <3>5, <1>4, PerformOne
      <4> QED BY <4>1, <3>3 DEF r
    <3> HIDE DEF q, r
    <3>7. q = [r EXCEPT !.visible = TRUE]
      BY <3>6 DEF Perform, Op
    <3>8. q.visible = TRUE /\ q.col = r.col /\ q.rows = r.rows /\ q.row = r.row /\ q.color = r.color
          /\ q.width = r.width /\ q.scrolled = r.scrolled
      BY <3>5, <3>7 DEF RemoteType
    <3>9. \A hidden : CursorTold(u, r0, hidden)
      BY <3>3, <3>8, <1>4, <1>5, CursorSet DEF q
    <3>10. ASSUME NEW resized, Known(c, r, resized) PROVE Known(u, q, resized)
      BY <3>3, <3>8, <3>10 DEF Known, SameTerm
    <3>11. SameRows(r, q)
      BY <3>8 DEF SameRows
    <3> QED BY <2>3, <1>5, <3>3, <3>4, <3>8, <3>9, <3>10, <3>11 DEF Told, q, r, SameTerm
  <2> QED BY <2>1, <2>2, <2>3, <1>3
<1> HIDE DEF u
<1>7. ASSUME NEW resized, NEW hidden \in BOOLEAN, ~t.plain, Told(t, r0, resized, hidden),
             Now(r0, t).row + (line - t.line) >= 1
      PROVE  Told(u, r0, resized, hidden) /\ Moved(Now(r0, t), Now(r0, u), line - t.line)
  <2>1. Told(m, r0, resized, hidden) /\ Moved(Now(r0, t), Now(r0, m), line - t.line)
    BY <1>2, <1>7
  <2>2. Told(c, r0, resized, hidden) /\ SameRows(Now(r0, m), Now(r0, c)) /\ Now(r0, c).scrolled = Now(r0, m).scrolled
    BY <2>1, <1>5, <1>7
  <2>3. Told(u, r0, resized, hidden) /\ SameRows(Now(r0, c), Now(r0, u)) /\ Now(r0, u).scrolled = Now(r0, c).scrolled
    BY <2>2, <1>6, <1>7
  <2> DEFINE r == Now(r0, t)
             a == Now(r0, m)
             q == Now(r0, u)
  <2>4. q.rows = a.rows /\ q.row = a.row /\ q.color = a.color /\ q.scrolled = a.scrolled
    BY <2>2, <2>3 DEF SameRows
  <2>5. Moved(r, q, line - t.line)
    <3>1. Moved(r, a, line - t.line)
      BY <2>1
    <3> HIDE DEF r, a, q
    <3> QED BY <3>1, <2>4 DEF Moved
  <2> QED BY <2>3, <2>5
<1> QED BY <1>0, <1>6, <1>7

\* Terminal::reset that clears the terminal.
Cleared(t, u, r0, line, width) ==
  /\ u \in TermType(width) /\ TermOK(u) /\ u.line = line /\ u.column = 0 /\ u.data = <<>> /\ ~u.hidden
  /\ u.plain = t.plain /\ u.outputColor = t.outputColor
  /\ t.plain => u.out = <<>>
  /\ ~t.plain => /\ \A resized : Told(u, r0, resized, FALSE)
                 /\ Now(r0, u).row = 1
                 /\ \A k \in 1..Height : Now(r0, u).rows[k] = BlankRow(OwnColor)

\* Terminal::reset that clears leaves an empty terminal that is known.
LEMMA ResetHolds ==
  ASSUME NEW width \in Nat, width >= 1, NEW r0 \in RemoteType(width), NEW t \in TermType(width),
         TermOK(t), t.out = <<>>, NEW line \in Nat
  PROVE  Cleared(t, reset(t, TRUE, line), r0, line, width)
<1> DEFINE sgr == [op |-> "SGR", color |-> NoColor]
           home == Op("HOME")
           ed == Op("ED")
           ops == IF ~t.plain THEN <<sgr, home, ed>> ELSE <<>>
           w == Write(t, ops)
           u == reset(t, TRUE, line)
<1>1. t.plain \in BOOLEAN /\ t.out = <<>>
  BY DEF TermType
<1>2. /\ sgr \in Ops(width) /\ home \in Ops(width) /\ ed \in Ops(width)
      /\ sgr.op = "SGR" /\ sgr.color = NoColor /\ home.op = "HOME" /\ ed.op = "ED"
  BY DEF Ops, Op
<1>3. u = [w EXCEPT !.line = line, !.column = 0, !.data = <<>>, !.hidden = FALSE, !.color = NoColor]
  BY DEF reset
<1> HIDE DEF sgr, home, ed
<1>4. ops \in Seq(Ops(width))
  BY <1>2
<1>5. Wrote(t, w, ops, r0, width)
  <2> HIDE DEF ops
  <2> QED BY <1>4, WriteHolds
<1> HIDE DEF w, u
<1>6. /\ u \in TermType(width) /\ u.line = line /\ u.column = 0 /\ u.data = <<>> /\ u.hidden = FALSE /\ u.color = NoColor
      /\ u.valid = t.valid /\ u.plain = t.plain /\ u.outputColor = t.outputColor /\ u.out = ops
  <2>1. w \in TermType(width) /\ <<>> \in Seq(Cell) /\ 0 \in 0..MaxWidth /\ NoColor \in Nat \union {NoColor}
    BY <1>5, ConstantsFit DEF Wrote
  <2>2. /\ u \in TermType(width) /\ u.line = line /\ u.column = 0 /\ u.data = <<>> /\ u.hidden = FALSE /\ u.color = NoColor
        /\ u.valid = w.valid /\ u.plain = w.plain /\ u.outputColor = w.outputColor /\ u.out = w.out
    BY <1>3, <2>1 DEF TermType
  <2>3. w.out = ops
    <3>1. w.out = <<>> \o ops
      BY <1>1, <1>5 DEF Wrote
    <3> HIDE DEF ops
    <3> QED BY <3>1, <1>4
  <2> QED BY <2>2, <2>3, <1>5 DEF Wrote, SameTerm
<1>7. TermOK(u)
  BY <1>6 DEF Paired, TermOK, Appending
<1>8. ASSUME ~t.plain
      PROVE  /\ \A resized : Told(u, r0, resized, FALSE)
             /\ Now(r0, u).row = 1 /\ \A k \in 1..Height : Now(r0, u).rows[k] = BlankRow(OwnColor)
  <2> DEFINE a == Perform(r0, sgr)
             b == Perform(a, home)
             q == Perform(b, ed)
  <2>1. a \in RemoteType(width) /\ b \in RemoteType(width)
    <3>1. a \in RemoteType(width)
      BY <1>2, PerformType
    <3> HIDE DEF a
    <3> QED BY <3>1, <1>2, PerformType
  <2>2. u.out = <<sgr, home, ed>>
    BY <1>6, <1>8
  <2>3. Now(r0, u) = q
    <3>1. <<sgr, home, ed>> = Append(Append(<<sgr>>, home), ed) /\ <<sgr>> \in Seq(Ops(width))
          /\ Append(<<sgr>>, home) \in Seq(Ops(width))
      BY <1>2
    <3>2. PerformAll(r0, <<sgr>>) = a
      BY <1>2, PerformOne
    <3>3. PerformAll(r0, Append(<<sgr>>, home)) = b
      BY <1>2, <3>1, <3>2, PerformAppend
    <3>4. PerformAll(r0, Append(Append(<<sgr>>, home), ed)) = q
      BY <1>2, <3>1, <3>3, PerformAppend
    <3> QED BY <3>1, <3>4, <2>2 DEF Now
  <2>4. a = [r0 EXCEPT !.color = OwnColor]
    BY <1>2 DEF Perform
  <2>5. b = [a EXCEPT !.row = 1, !.col = 0]
    <3> HIDE DEF a
    <3> QED BY <1>2 DEF Perform
  <2>6. q = [b EXCEPT !.rows = [k \in 1..Height |-> BlankRow(b.color)]]
    <3> HIDE DEF b
    <3> QED BY <1>2 DEF Perform
  <2> HIDE DEF a, b, q
  <2>7. a.color = OwnColor /\ a.visible = r0.visible
    BY <2>4 DEF RemoteType
  <2>8. b.row = 1 /\ b.col = 0 /\ b.color = OwnColor /\ b.visible = r0.visible
    BY <2>1, <2>5, <2>7 DEF RemoteType
  <2>9. q.row = 1 /\ q.col = 0 /\ q.visible = r0.visible /\ q.rows = [k \in 1..Height |-> BlankRow(OwnColor)]
    BY <2>1, <2>6, <2>8 DEF RemoteType
  <2>10. ~ForCursor(u.out)
    BY <2>2, <1>2 DEF ForCursor
  <2>11. CursorTold(u, r0, FALSE)
    BY <1>6, <2>3, <2>9, <2>10 DEF CursorTold
  <2>12. \A resized : Known(u, q, resized)
    BY <1>6, <2>9 DEF Known
  <2> QED BY <2>3, <2>9, <2>11, <2>12 DEF Told
<1> QED BY <1>6, <1>7, <1>8 DEF u, Cleared

-----------------------------------------------------------------------------
(* What the scraper remembers of the lines.                                *)

\* The fields of a remembered line have their types.
LEMMA LineRecordFields ==
  ASSUME NEW rec \in LineRecords
  PROVE  rec.length \in Nat /\ rec.data \in Seq(Cell) /\ rec.length <= Len(rec.data) /\ Len(rec.data) <= MaxWidth
         /\ Len(rec.data) \in Nat
  BY DEF LineRecords, LineType

\* What a line is set to is remembered; what was behind it stays.
LEMMA SetLineHolds ==
  ASSUME NEW rec \in LineRecords, NEW cells \in Seq(Cell), Len(cells) <= MaxWidth
  PROVE  /\ SetLine(rec, cells) \in LineRecords /\ Remembers(SetLine(rec, cells), cells)
         /\ Len(SetLine(rec, cells).data) = IF Len(rec.data) > Len(cells) THEN Len(rec.data) ELSE Len(cells)
         /\ \A i \in 1..Len(rec.data) : i > Len(cells) => SetLine(rec, cells).data[i] = rec.data[i]
<1> DEFINE n == Len(cells)
           m == Len(rec.data)
           rest == SubSeq(rec.data, n + 1, m)
           data == cells \o rest
           s == SetLine(rec, cells)
<1>1. rec.data \in Seq(Cell) /\ m \in Nat /\ m <= MaxWidth /\ n \in Nat /\ MaxWidth \in Nat
  BY LineRecordFields, ConstantsFit
<1>2. s.length = n /\ s.data = data /\ s = [length |-> n, data |-> data]
  BY DEF SetLine
<1>3. /\ rest \in Seq(Cell) /\ Len(rest) = (IF m > n THEN m - n ELSE 0)
      /\ \A i \in 1..Len(rest) : rest[i] = rec.data[n + i]
  <2> DEFINE q == rec.data
  <2> HIDE DEF q
  <2>1. CASE m > n
    BY <1>1, <2>1 DEF q
  <2>2. CASE ~(m > n)
    BY <1>1, <2>2 DEF q
  <2> QED BY <2>1, <2>2
<1> HIDE DEF rest
<1>4. data \in Seq(Cell) /\ Len(data) = (IF m > n THEN m ELSE n)
  BY <1>1, <1>3
<1>5. \A i \in 1..n : data[i] = cells[i]
  BY <1>1, <1>3
<1>6. ASSUME NEW i \in 1..m, i > n PROVE data[i] = rec.data[i]
  BY <1>1, <1>3, <1>6
<1> HIDE DEF data, n, m, s
<1>7. s \in LineRecords
  BY <1>1, <1>2, <1>4 DEF LineType, n, LineRecords
<1> QED BY <1>2, <1>4, <1>5, <1>6, <1>7 DEF Remembers, n, m, s

\* What a blank part of a line is.
LEMMA BlankPart ==
  ASSUME NEW s \in Seq(Cell), NEW j \in Nat, NEW l \in Nat, j <= l, l <= Len(s), NEW c,
         IsLineBlank(SubSeq(s, j + 1, l), c)
  PROVE  \A i \in (j + 1)..l : s[i] = BlankCell(c)
<1> DEFINE q == SubSeq(s, j + 1, l)
<1> SUFFICES ASSUME NEW i \in (j + 1)..l PROVE s[i] = BlankCell(c)
  OBVIOUS
<1>1. i - j \in Nat /\ i - j >= 1 /\ i - j <= l - j /\ j + (i - j) = i
  OBVIOUS
<1>2. Len(q) = l - j /\ \A k \in 1..(l - j) : q[k] = s[j + k]
  BY <1>1
<1>3. i - j \in DOMAIN q
  <2>1. q \in Seq(Cell)
    BY <1>1
  <2> HIDE DEF q
  <2> QED BY <2>1, <1>1, <1>2
<1>4. q[i - j] = BlankCell(c)
  BY <1>3 DEF IsLineBlank
<1>5. q[i - j] = s[i]
  <2> HIDE DEF q
  <2>1. i - j \in 1..(l - j)
    BY <1>1
  <2>2. q[i - j] = s[j + (i - j)]
    BY <2>1, <1>2
  <2> QED BY <2>2, <1>1
<1> QED BY <1>4, <1>5

\* A line that need not be sent is shown as it is.
LEMMA EqualShown ==
  ASSUME NEW rec \in LineRecords, NEW cells \in Seq(Cell), Len(cells) <= MaxWidth, LinesEqual(rec, cells),
         NEW n \in Nat, n <= MaxWidth, NEW row, NEW colors, NEW resized, RowShows(row, rec.data, n, colors, resized),
         resized = 0 => rec.length >= Len(cells)
  PROVE  RowShows(row, SetLine(rec, cells).data, n, colors, resized)
<1> DEFINE s == SetLine(rec, cells)
           m == Len(rec.data)
           k == Len(cells)
<1>1. /\ rec.length \in Nat /\ rec.data \in Seq(Cell) /\ rec.length <= m /\ m \in Nat /\ k \in Nat
  BY LineRecordFields
<1>2. /\ \A i \in 1..k : s.data[i] = cells[i]
      /\ Len(s.data) = IF m > k THEN m ELSE k
      /\ \A i \in 1..m : i > k => s.data[i] = rec.data[i]
  BY SetLineHolds DEF Remembers
<1>3. \A j \in Nat : \A i \in 1..j : j <= m => SubSeq(rec.data, 1, j)[i] = rec.data[i]
  BY <1>1
<1>4. \A j \in Nat : \A i \in 1..j : j <= k => SubSeq(cells, 1, j)[i] = cells[i]
  BY <1>1
<1> HIDE DEF s
<1>5. CASE rec.length >= k
  <2>1. \A i \in 1..k : rec.data[i] = cells[i]
    <3>1. CASE rec.length = k
      <4>1. SubSeq(rec.data, 1, k) = cells
        BY <3>1, <1>1 DEF LinesEqual
      <4> HIDE DEF m
      <4> QED BY <4>1, <3>1, <1>1, <1>3
    <3>2. CASE rec.length > k
      <4>1. SubSeq(rec.data, 1, k) = cells
        BY <3>2, <1>1 DEF LinesEqual, Shorter
      <4> HIDE DEF m
      <4> QED BY <4>1, <3>2, <1>1, <1>3
    <3> QED BY <3>1, <3>2, <1>1, <1>5
  <2>2. Len(s.data) = m /\ \A i \in 1..m : s.data[i] = rec.data[i]
    <3>1. m >= k
      BY <1>1, <1>5
    <3> HIDE DEF m, k
    <3>2. Len(s.data) = m
      BY <3>1, <1>1, <1>2
    <3> QED BY <3>2, <1>1, <1>2, <2>1
  <2> QED BY <2>2, <1>1 DEF RowShows, s
<1>6. CASE rec.length < k
  <2> DEFINE c == rec.data[rec.length].color
             seen == IF m < k THEN m ELSE k
  <2>1. /\ 0 < rec.length
        /\ SubSeq(rec.data, 1, rec.length) = SubSeq(cells, 1, rec.length)
        /\ IsLineBlank(SubSeq(rec.data, rec.length + 1, seen), c)
        /\ IsLineBlank(SubSeq(cells, rec.length + 1, k), c)
    BY <1>1, <1>6 DEF LinesEqual, Longer
  <2>2. resized # 0
    BY <1>1, <1>6
  <2>3. \A i \in 1..rec.length : rec.data[i] = cells[i]
    <3> DEFINE j == rec.length
    <3>1. j \in Nat /\ j <= m /\ j <= k
      BY <1>1, <1>6
    <3> HIDE DEF j, m, k
    <3>2. \A i \in 1..j : SubSeq(rec.data, 1, j)[i] = rec.data[i] /\ SubSeq(cells, 1, j)[i] = cells[i]
      BY <3>1, <1>3, <1>4
    <3> QED BY <3>2, <2>1 DEF j
  <2>4. \A i \in (rec.length + 1)..k : cells[i] = BlankCell(c)
    <3>1. rec.length \in Nat /\ k \in Nat /\ rec.length <= k /\ k <= Len(cells)
      BY <1>1, <1>6
    <3> HIDE DEF c
    <3>2. IsLineBlank(SubSeq(cells, rec.length + 1, k), c)
      BY <2>1
    <3> QED BY <3>1, <3>2, BlankPart
  <2>5. \A i \in (rec.length + 1)..seen : rec.data[i] = BlankCell(c)
    <3>1. rec.length \in Nat /\ seen \in Nat /\ rec.length <= seen /\ seen <= m
      BY <1>1, <1>6
    <3> HIDE DEF c, seen
    <3>2. IsLineBlank(SubSeq(rec.data, rec.length + 1, seen), c)
      BY <2>1
    <3> QED BY <3>1, <3>2, <1>1, BlankPart DEF m
  <2> SUFFICES ASSUME NEW i \in 1..n
               PROVE  IF i <= Len(s.data) THEN Shows(row[i], s.data[i], colors, resized) ELSE Empty(row[i])
    BY DEF RowShows, s
  <2>6. IF i <= m THEN Shows(row[i], rec.data[i], colors, resized) ELSE Empty(row[i])
    BY DEF RowShows
  <2> HIDE DEF m, k
  <2>7. CASE i > k
    BY <2>7, <1>1, <1>2, <2>6
  <2>8. CASE i <= k
    <3>1. i <= Len(s.data) /\ s.data[i] = cells[i]
      BY <2>8, <1>1, <1>2
    <3>2. CASE i <= m
      BY <3>2, <2>8, <1>1, <2>3, <2>4, <2>5, <3>1, <2>6
    <3>3. CASE i > m
      <4>1. s.data[i] = BlankCell(c)
        BY <3>3, <2>4, <2>8, <1>1, <3>1
      <4>2. Empty(row[i])
        BY <3>3, <1>1, <2>6
      <4>3. Shows(row[i], BlankCell(c), colors, resized)
        <5>1. fixSpecialCharacters(32) = 32
          BY FixedType
        <5> HIDE DEF c
        <5> QED BY <5>1, <4>2, <2>2 DEF BlankCell, Shows, Empty, PartOf
      <4> HIDE DEF s, c
      <4> QED BY <4>1, <4>3, <3>1
    <3> QED BY <3>2, <3>3, <1>1
  <2> QED BY <2>7, <2>8, <1>1
<1> QED BY <1>1, <1>5, <1>6
-----------------------------------------------------------------------------
(* One line of a scrape.                                                   *)

RowSent(x, y, line, cells, width) ==
  /\ y \in Scrapers(width) /\ y.lines[line] = SetLine(x.lines[line], cells)
  /\ \A l \in Rows : l # line => y.lines[l] = x.lines[l]
  /\ y.direct = x.direct /\ y.scraped = x.scraped /\ y.maxBuffered = x.maxBuffered
  /\ y.dirtyTop = x.dirtyTop /\ y.dirtyLines = x.dirtyLines
  /\ y.t.plain = x.t.plain /\ y.t.outputColor = x.t.outputColor

\* The console's rows are its lines from 0.
LEMMA RowsAreLines ==
  /\ Rows \subseteq Nat /\ \A i \in 0..(Height - 1) : i \in Rows
  /\ \A i \in Int : i \in Rows <=> 0 <= i /\ i <= Height - 1 + MaxTop
BY ConstantsFit DEF Rows

\* The fields of the scraper have their types.
LEMMA ScraperFields ==
  ASSUME NEW width \in Nat, NEW x \in Scrapers(width)
  PROVE  /\ x.direct \in BOOLEAN /\ x.lines \in [Rows -> LineRecords] /\ x.scraped \in 0..MaxTop
         /\ x.maxBuffered \in Int /\ x.dirtyTop \in Int /\ x.dirtyLines \in Int
         /\ x.t \in TermType(width) /\ TermOK(x.t)
         /\ x.t.plain \in BOOLEAN /\ x.t.outputColor \in BOOLEAN /\ x.t.line \in Nat /\ x.t.hidden \in BOOLEAN
         /\ x.t.out \in Seq(Ops(width)) /\ x.t.column \in 0..MaxWidth
BY DEF Scrapers, Terms, TermType

\* A new terminal has its type.
LEMMA NewRemoteType ==
  ASSUME NEW width \in Nat, NEW row \in 1..Height
  PROVE  NewRemote(width, row) \in RemoteType(width)
BY BlankRowType, ConstantsFit DEF NewRemote, RemoteType

\* SendRow: the line is remembered, and sent if it must be.
LEMMA SendRowHolds ==
  ASSUME NEW width \in Nat, width >= 1, width <= MaxWidth, NEW x \in Scrapers(width), NEW line \in Rows,
         NEW cells \in Seq(Cell), Paired(cells), Len(cells) >= 1, Len(cells) <= width, NEW cursorColumn,
         NEW changed \in BOOLEAN
  PROVE  /\ RowSent(x, SendRow(x, line, cells, cursorColumn, changed), line, cells, width)
         /\ SendRow(x, line, cells, cursorColumn, changed).t
              = IF changed THEN sendLine(x.t, line, cells, cursorColumn) ELSE x.t
<1> DEFINE t == IF changed THEN sendLine(x.t, line, cells, cursorColumn) ELSE x.t
           rec == SetLine(x.lines[line], cells)
           y == [x EXCEPT !.lines[line] = rec, !.t = t]
<1>0. y = SendRow(x, line, cells, cursorColumn, changed)
  BY DEF SendRow
<1>1. x.lines \in [Rows -> LineRecords] /\ x.t \in TermType(width) /\ TermOK(x.t) /\ line \in Nat
  BY ScraperFields, RowsAreLines
<1>2. t \in Terms(width) /\ t.plain = x.t.plain /\ t.outputColor = x.t.outputColor
  BY ConstantsFit, NewRemoteType, <1>1, SendHolds DEF LineSent, Terms
<1>3. rec \in LineRecords
  BY <1>1, ConstantsFit, SetLineHolds
<1> HIDE DEF t, rec
<1>4. /\ y.t = t /\ y.lines = [x.lines EXCEPT ![line] = rec]
      /\ y.direct = x.direct /\ y.scraped = x.scraped /\ y.maxBuffered = x.maxBuffered
      /\ y.dirtyTop = x.dirtyTop /\ y.dirtyLines = x.dirtyLines
      /\ y \in Scrapers(width)
  BY <1>1, <1>2, <1>3 DEF Scrapers
<1> HIDE DEF y
<1>5. RowSent(x, y, line, cells, width)
  BY <1>1, <1>2, <1>4 DEF RowSent, rec
<1> QED BY <1>0, <1>4, <1>5 DEF t

\* Row q of the terminal is row p after cells have been sent to it.
RowAfter(p, q, cells, width, colors, resized) ==
  \A i \in 1..MaxWidth :
    IF i <= Len(cells) THEN Shows(q[i], cells[i], colors, resized)
    ELSE IF i <= width THEN Empty(q[i]) ELSE q[i] = p[i]

\* A row that was sent shows what is remembered of its line.
LEMMA SentShown ==
  ASSUME NEW width \in Nat, width <= MaxWidth, NEW rec \in LineRecords, NEW cells \in Seq(Cell), Len(cells) <= width,
         NEW n \in Nat, n <= MaxWidth, NEW p, NEW q, NEW colors, NEW resized,
         RowAfter(p, q, cells, width, colors, resized),
         n <= width \/ RowShows(p, rec.data, n, colors, resized),
         Len(cells) = width \/ Len(rec.data) <= Len(cells)
  PROVE  RowShows(q, SetLine(rec, cells).data, n, colors, resized)
<1> DEFINE s == SetLine(rec, cells)
           m == Len(rec.data)
           k == Len(cells)
<1>1. rec.data \in Seq(Cell) /\ m \in Nat /\ k \in Nat /\ MaxWidth \in Nat /\ k <= MaxWidth
  BY LineRecordFields, ConstantsFit
<1>2. /\ \A i \in 1..k : s.data[i] = cells[i]
      /\ Len(s.data) = IF m > k THEN m ELSE k
      /\ \A i \in 1..m : i > k => s.data[i] = rec.data[i]
  BY <1>1, SetLineHolds DEF Remembers
<1> HIDE DEF s
<1> SUFFICES ASSUME NEW i \in 1..n
             PROVE  IF i <= Len(s.data) THEN Shows(q[i], s.data[i], colors, resized) ELSE Empty(q[i])
  BY DEF RowShows, s
<1>3. i \in 1..MaxWidth /\ i \in Nat /\ i >= 1
  BY <1>1
<1>4. IF i <= k THEN Shows(q[i], cells[i], colors, resized) ELSE IF i <= width THEN Empty(q[i]) ELSE q[i] = p[i]
  BY <1>3 DEF RowAfter
<1>5. CASE i <= k
  <2>1. i <= Len(s.data) /\ s.data[i] = cells[i]
    <3> HIDE DEF m, k
    <3> QED BY <1>1, <1>2, <1>3, <1>5
  <2> QED BY <2>1, <1>4, <1>5
<1>6. CASE i > k /\ i <= width
  <2>1. ~(i <= Len(s.data))
    <3>1. m <= k
      BY <1>1, <1>3, <1>6
    <3> HIDE DEF m, k
    <3> QED BY <3>1, <1>1, <1>2, <1>3, <1>6
  <2> QED BY <2>1, <1>1, <1>3, <1>4, <1>6
<1>7. CASE i > width
  <2>1. q[i] = p[i] /\ i > k
    BY <1>1, <1>3, <1>4, <1>7
  <2>2. IF i <= m THEN Shows(p[i], rec.data[i], colors, resized) ELSE Empty(p[i])
    BY <1>3, <1>7 DEF RowShows
  <2>3. i <= m => i <= Len(s.data) /\ s.data[i] = rec.data[i]
    <3> HIDE DEF m, k
    <3> QED BY <2>1, <1>1, <1>2, <1>3
  <2>4. ~(i <= m) => ~(i <= Len(s.data))
    <3> HIDE DEF m, k
    <3> QED BY <2>1, <1>1, <1>2, <1>3
  <2> QED BY <2>1, <2>2, <2>3, <2>4
<1> QED BY <1>1, <1>3, <1>5, <1>6, <1>7
-----------------------------------------------------------------------------
(* What is on the terminal of the lines that are remembered.               *)

\* A line that was forgotten equals none.
LEMMA NotEqualFresh ==
  ASSUME NEW rec \in LineRecords, NEW cells \in Seq(Cell), Len(cells) >= 1, LinesEqual(rec, cells)
  PROVE  rec.length # 0
BY LineRecordFields DEF LinesEqual

\* A line of direct mode.
LEMMA DirectRow ==
  ASSUME NEW width \in Nat, width >= 1, width <= MaxWidth, NEW x \in Scrapers(width), NEW r0 \in RemoteType(width),
         ~x.t.plain, NEW resized, NEW hidden \in BOOLEAN, Told(x.t, r0, resized, hidden),
         NEW cells \in Seq(Cell), Paired(cells), Len(cells) >= 1, Len(cells) <= width,
         DirectShows(x, Now(r0, x.t), width, resized, Len(cells)),
         NEW line \in 0..(Height - 1), NEW cursorColumn,
         Len(cells) = width \/ Len(x.lines[line].data) <= Len(cells),
         NEW y, y = SendRow(x, line, cells, cursorColumn, Detected(x, line, cells))
  PROVE  Told(y.t, r0, resized, hidden) /\ DirectShows(y, Now(r0, y.t), width, resized, Len(cells))
<1> DEFINE changed == Detected(x, line, cells)
           w == Len(cells)
           r == Now(r0, x.t)
           q == Now(r0, y.t)
           rec == x.lines[line]
           colors == x.t.outputColor
<1>1. line \in Rows /\ line \in Nat /\ line < Height /\ Height \in Nat /\ changed \in BOOLEAN /\ w \in Nat
  BY RowsAreLines, ConstantsFit DEF Detected
<1>2. RowSent(x, y, line, cells, width) /\ y.t = IF changed THEN sendLine(x.t, line, cells, cursorColumn) ELSE x.t
  <2> HIDE DEF changed
  <2>1. y = SendRow(x, line, cells, cursorColumn, changed)
    BY DEF changed
  <2> QED BY <2>1, <1>1, SendRowHolds
<1>3. /\ x.t \in TermType(width) /\ TermOK(x.t) /\ x.t.line \in Nat /\ x.lines \in [Rows -> LineRecords]
      /\ \A j \in 0..(Height - 1) : j \in Rows /\ x.lines[j] \in LineRecords
  BY ScraperFields, RowsAreLines
<1>4. /\ r.row = x.t.line + 1 /\ x.t.line < Height
      /\ \A j \in 0..(Height - 1) :
           x.lines[j].length = 0 \/ Ready(x.lines[j], r.rows[j + 1], width, colors, resized, w)
  BY DEF DirectShows
<1>5. /\ y.lines[line] = SetLine(rec, cells) /\ \A j \in 0..(Height - 1) : j # line => y.lines[j] = x.lines[j]
      /\ y.t.outputColor = colors
  BY <1>2, <1>3 DEF RowSent
<1>6. rec \in LineRecords /\ Remembers(SetLine(rec, cells), cells)
  BY <1>1, <1>3, ConstantsFit, SetLineHolds
<1>7. SetLine(rec, cells).length = w
  BY <1>6 DEF Remembers
<1>8. CASE changed
  <2> DEFINE u == sendLine(x.t, line, cells, cursorColumn)
  <2>1. r.row + (line - x.t.line) = line + 1
    BY <1>1, <1>3, <1>4
  <2>2. Told(u, r0, resized, hidden) /\ Sent(x.t, u, r0, line, cells, width, resized) /\ LineSent(x.t, u, line, cells, width)
    <3>1. r.row + (line - x.t.line) >= 1
      BY <2>1, <1>1
    <3> HIDE DEF u
    <3> QED BY <3>1, <1>1, <1>3, SendHolds DEF u
  <2>3. y.t = u
    BY <1>2, <1>8
  <2>4. Up(line + 1) = 0
    BY <1>1 DEF Up
  <2>5. /\ q.row = line + 1
        /\ \A k \in 1..Height : k # q.row => q.rows[k] = FedRow(r, k, 0)
        /\ \A i \in 1..MaxWidth :
             IF i <= w THEN Shows(q.rows[q.row][i], cells[i], colors, resized)
             ELSE IF i <= width THEN Empty(q.rows[q.row][i])
             ELSE q.rows[q.row][i] = FedRow(r, q.row, 0)[i]
    <3>0. Up(r.row + (line - x.t.line)) = 0
      BY <2>1, <1>1 DEF Up
    <3>3. q = Now(r0, u) /\ r = Now(r0, x.t)
      BY <2>3
    <3> HIDE DEF u, q, r, changed
    <3>1. q.row = r.row + ((line - x.t.line) - 0)
      BY <2>2, <3>3, <3>0 DEF Sent
    <3>2. q.row = line + 1
      <4>1. PICK z : z = x.t.line
        OBVIOUS
      <4>2. z \in Nat /\ line \in Nat /\ r.row = z + 1 /\ q.row = r.row + ((line - z) - 0)
        BY <4>1, <3>1, <1>1, <1>3, <1>4
      <4>3. (z + 1) + ((line - z) - 0) = line + 1
        BY <4>2
      <4> QED BY <4>2, <4>3
    <3> QED BY <3>0, <3>2, <3>3, <2>2 DEF Sent
  <2>6. \A k \in 1..Height : k # line + 1 => q.rows[k] = r.rows[k]
    <3>1. q.row = line + 1 /\ \A k \in 1..Height : k # q.row => q.rows[k] = FedRow(r, k, 0)
      BY <2>5
    <3> HIDE DEF q, r, rec, w
    <3>2. \A k \in 1..Height : FedRow(r, k, 0) = r.rows[k]
      BY <1>1 DEF FedRow
    <3> QED BY <3>1, <3>2
  <2>7. RowShows(q.rows[line + 1], SetLine(rec, cells).data, width, colors, resized)
    <3> DEFINE p == FedRow(r, q.row, 0)
               qq == q.rows[line + 1]
    <3>1. \A i \in 1..MaxWidth :
             IF i <= w THEN Shows(qq[i], cells[i], colors, resized)
             ELSE IF i <= width THEN Empty(qq[i])
             ELSE qq[i] = p[i]
      BY <2>5
    <3>4. RowAfter(p, qq, cells, width, colors, resized)
      BY <3>1 DEF RowAfter
    <3>2. w = width \/ Len(rec.data) <= w
      OBVIOUS
    <3> HIDE DEF p, qq, rec, colors
    <3>3. RowShows(qq, SetLine(rec, cells).data, width, colors, resized)
      BY <3>4, <3>2, <1>6, SentShown
    <3> QED BY <3>3 DEF qq
  <2>8. Ready(y.lines[line], q.rows[line + 1], width, colors, resized, w)
    BY <2>7, <1>5, <1>7, <1>1 DEF Ready
  <2>9. y.t.line = line
    BY <2>2, <2>3 DEF LineSent
  <2> HIDE DEF q, r, u, changed, rec, colors, w
  <2>10. ASSUME NEW j \in 0..(Height - 1)
         PROVE  y.lines[j].length = 0 \/ Ready(y.lines[j], q.rows[j + 1], width, colors, resized, w)
    <3>1. CASE j = line
      BY <3>1, <2>8
    <3>2. CASE j # line
      <4>1. j \in Int /\ j + 1 \in 1..Height /\ j + 1 # line + 1
        BY <3>2, <1>1
      <4>2. y.lines[j] = x.lines[j] /\ q.rows[j + 1] = r.rows[j + 1]
        BY <4>1, <3>2, <1>5, <2>6
      <4> QED BY <4>2, <1>4
    <3> QED BY <3>1, <3>2
  <2>11. DirectShows(y, q, width, resized, w)
    BY <2>5, <2>9, <2>10, <1>1, <1>5 DEF DirectShows
  <2> QED BY <2>2, <2>3, <2>11 DEF q, w
<1>9. CASE ~changed
  <2>1. y.t = x.t /\ q = r
    BY <1>2, <1>9
  <2>2. LinesEqual(rec, cells)
    BY <1>9 DEF Detected
  <2>3. rec.length # 0
    <3> HIDE DEF rec
    <3> QED BY <2>2, <1>6, NotEqualFresh
  <2>4. Ready(rec, r.rows[line + 1], width, colors, resized, w)
    BY <2>3, <1>4
  <2>5. RowShows(r.rows[line + 1], SetLine(rec, cells).data, width, colors, resized)
    <3> DEFINE row == r.rows[line + 1]
    <3>1. RowShows(row, rec.data, width, colors, resized) /\ (resized = 0 => rec.length >= w) /\ w <= MaxWidth
      BY <2>4, <1>1, ConstantsFit DEF Ready
    <3> HIDE DEF row, rec, colors
    <3>2. RowShows(row, SetLine(rec, cells).data, width, colors, resized)
      BY <3>1, <2>2, <1>6, EqualShown
    <3> QED BY <3>2 DEF row
  <2>6. Ready(y.lines[line], r.rows[line + 1], width, colors, resized, w)
    BY <2>5, <1>5, <1>7, <1>1 DEF Ready
  <2> HIDE DEF q, r, changed, rec, colors, w
  <2>7. ASSUME NEW j \in 0..(Height - 1)
        PROVE  y.lines[j].length = 0 \/ Ready(y.lines[j], r.rows[j + 1], width, colors, resized, w)
    BY <2>6, <1>4, <1>5
  <2>8. DirectShows(y, q, width, resized, w)
    BY <2>1, <2>7, <1>4, <1>5 DEF DirectShows
  <2> QED BY <2>1, <2>8 DEF q, w
<1> QED BY <1>8, <1>9
-----------------------------------------------------------------------------
(* Scrolling mode: lines lo to maxBuffered are on the terminal, as far as  *)
(* they have not scrolled away, and below them it is empty.                *)

ScrollRow(x, line, cells, cursorColumn, saw) ==
  [SendRow(x, line, cells, cursorColumn, saw) EXCEPT !.maxBuffered = Max2(@, line)]

\* The next line to be scraped is below the rows that have scrolled away, and at most new.
NextLine(x, r, lo, line) ==
  /\ lo <= line /\ (line <= x.maxBuffered + 1 \/ line = lo)
  /\ line + (r.row - x.t.line) \in 1..(Height + 1)

\* The line is sent if it is new or differs; the terminal scrolls at most by one row.
ScrolledBy(x, y, r, q, line) ==
  LET o == r.row - x.t.line
      p == q.row - y.t.line
  IN line + p \in 1..Height /\ (p = o \/ (p = o - 1 /\ line + p = Height))

ScrolledTo(x, y, r0, lo, line, resized, hidden, width) ==
  /\ Told(y.t, r0, resized, hidden) /\ ScrollShows(y, Now(r0, y.t), lo, resized, width)
  /\ ScrolledBy(x, y, Now(r0, x.t), Now(r0, y.t), line)

\* A line that a scrolling scrape sends is on its row, and those before it stay.
LEMMA ScrollSent ==
  ASSUME NEW width \in Nat, width >= 1, width <= MaxWidth, NEW x \in Scrapers(width), NEW r0 \in RemoteType(width),
         ~x.t.plain, NEW resized, NEW hidden \in BOOLEAN, Told(x.t, r0, resized, hidden),
         NEW lo \in Nat, NEW line \in Rows, NEW cells \in Seq(Cell), Paired(cells), Len(cells) = width,
         ScrollShows(x, Now(r0, x.t), lo, resized, width),
         NextLine(x, Now(r0, x.t), lo, line),
         NEW cursorColumn, NEW saw, saw = TRUE, NEW y, y = ScrollRow(x, line, cells, cursorColumn, saw)
  PROVE  ScrolledTo(x, y, r0, lo, line, resized, hidden, width)
<1>s. y = ScrollRow(x, line, cells, cursorColumn, TRUE)
  OBVIOUS
<1> DEFINE z == SendRow(x, line, cells, cursorColumn, TRUE)
           r == Now(r0, x.t)
           q == Now(r0, y.t)
           rec == x.lines[line]
           colors == x.t.outputColor
           u == sendLine(x.t, line, cells, cursorColumn)
           mb == x.maxBuffered
           o == r.row - x.t.line
           up == IF line + o = Height + 1 THEN 1 ELSE 0
<1>0. Len(cells) >= 1 /\ Len(cells) <= width
  OBVIOUS
<1>1. RowSent(x, z, line, cells, width) /\ z.t = u
  <2>1. PICK on \in BOOLEAN : on
    OBVIOUS
  <2> DEFINE zz == SendRow(x, line, cells, cursorColumn, on)
  <2>2. RowSent(x, zz, line, cells, width) /\ zz.t = IF on THEN sendLine(x.t, line, cells, cursorColumn) ELSE x.t
    BY SendRowHolds, <1>0
  <2>3. on = TRUE
    BY <2>1
  <2>4. zz = z
    BY <2>3
  <2> HIDE DEF z, zz
  <2> QED BY <2>1, <2>2, <2>4
<1>2. /\ x.t \in TermType(width) /\ TermOK(x.t) /\ x.t.line \in Nat /\ x.lines \in [Rows -> LineRecords] /\ mb \in Int
      /\ line \in Nat /\ Height \in Nat /\ MaxWidth \in Nat
  BY ScraperFields, RowsAreLines, ConstantsFit
<1>3. y = [z EXCEPT !.maxBuffered = Max2(@, line)]
  BY DEF ScrollRow
<1> HIDE DEF z
<1>4. /\ y.t = u /\ y.maxBuffered = Max2(mb, line)
      /\ y.lines[line] = SetLine(rec, cells) /\ \A l \in Rows : l # line => y.lines[l] = x.lines[l]
      /\ y.t.outputColor = colors
  BY <1>1, <1>3 DEF RowSent, Scrapers
<1>5. r \in RemoteType(width) /\ r.row \in 1..Height /\ r.row \in Nat /\ r.color \in Nat /\ o \in Int
  BY <1>2, NowType, RemoteFields
<1>a. /\ lo <= line /\ (line <= mb + 1 \/ line = lo)
      /\ line + o >= 1 /\ line + o <= Height + 1
  BY <1>2 DEF NextLine
<1>6. Told(u, r0, resized, hidden) /\ Sent(x.t, u, r0, line, cells, width, resized) /\ LineSent(x.t, u, line, cells, width)
  <2>1. r.row + (line - x.t.line) >= 1
    <3>1. x.t.line \in Int /\ line \in Int /\ r.row \in Int /\ line + (r.row - x.t.line) >= 1
      BY <1>2, <1>5, <1>a
    <3> HIDE DEF r, u
    <3> QED BY <3>1
  <2>2. LineSent(x.t, u, line, cells, width)
    BY <1>0, <1>2, SendHolds
  <2>3. Told(u, r0, resized, hidden) /\ Sent(x.t, u, r0, line, cells, width, resized)
    <3> HIDE DEF u, mb, o, up, rec, colors
    <3> QED BY <2>1, <1>0, <1>2, SendHolds DEF u
  <2> QED BY <2>2, <2>3
<1>7. y.t.line = line /\ q = Now(r0, u)
  BY <1>4, <1>6 DEF LineSent
<1> HIDE DEF u, q, r, rec, colors, o, up, mb
<1>8. /\ q.row = r.row + (line - x.t.line) - Up(r.row + (line - x.t.line))
      /\ \A k \in 1..Height : k # q.row => q.rows[k] = FedRow(r, k, Up(r.row + (line - x.t.line)))
      /\ RowAfter(FedRow(r, q.row, Up(r.row + (line - x.t.line))), q.rows[q.row], cells, width, colors, resized)
  BY <1>6, <1>7 DEF Sent, RowAfter, r, colors
<1>9. Up(r.row + (line - x.t.line)) = up /\ q.row = line + (o - up) /\ q.row \in 1..Height
  <2>1. o = r.row - x.t.line /\ up = IF line + o = Height + 1 THEN 1 ELSE 0
    BY DEF o, up
  <2>2. line + o >= 1 /\ line + o <= Height + 1
    BY <1>a
  <2>3. q.row = r.row + (line - x.t.line) - Up(r.row + (line - x.t.line))
    BY <1>8
  <2>4. r.row + (line - x.t.line) = line + o
    BY <2>1, <1>2, <1>5
  <2>5. Up(line + o) = up
    <3> DEFINE a == line + o
    <3>1. a \in Int /\ a <= Height + 1 /\ up = IF a = Height + 1 THEN 1 ELSE 0
      BY <2>1, <2>2, <1>2, <1>5
    <3> HIDE DEF a
    <3>2. Up(a) = up
      BY <3>1, <1>2 DEF Up
    <3> QED BY <3>2 DEF a
  <2>6. Up(r.row + (line - x.t.line)) = up
    BY <2>4, <2>5
  <2>7. q.row = r.row + ((line - x.t.line) - up)
    BY <2>3, <2>6
  <2> HIDE DEF r, q
  <2>8. up \in 0..1 /\ (up = 1 <=> line + o = Height + 1)
    BY <2>1
  <2>9. q.row = line + (o - up)
    <3> DEFINE a == r.row
               b == x.t.line
               c == q.row
    <3>1. a \in Int /\ b \in Int /\ line \in Int /\ up \in Int /\ c = a + ((line - b) - up) /\ o = a - b
      BY <1>2, <1>5, <2>1, <2>7, <2>8
    <3> HIDE DEF a, b, c
    <3>2. c = line + (o - up)
      BY <3>1
    <3> QED BY <3>2 DEF c
  <2>10. q.row \in 1..Height
    BY <2>2, <2>8, <2>9, <1>2, <1>5
  <2> QED BY <2>6, <2>9, <2>10
<1>10. /\ \A k \in 1..Height : k # q.row => q.rows[k] = FedRow(r, k, up)
       /\ RowAfter(FedRow(r, q.row, up), q.rows[q.row], cells, width, colors, resized)
  <2> DEFINE U == Up(r.row + (line - x.t.line))
             V == up
  <2>1. U = V
    BY <1>9
  <2>2. /\ \A k \in 1..Height : k # q.row => q.rows[k] = FedRow(r, k, U)
        /\ RowAfter(FedRow(r, q.row, U), q.rows[q.row], cells, width, colors, resized)
    BY <1>8
  <2> HIDE DEF U, V
  <2>3. /\ \A k \in 1..Height : k # q.row => q.rows[k] = FedRow(r, k, V)
        /\ RowAfter(FedRow(r, q.row, V), q.rows[q.row], cells, width, colors, resized)
    BY <2>1, <2>2
  <2> QED BY <2>3 DEF V
<1>11. /\ mb + o <= Height
       /\ \A l \in Rows : IF l > mb THEN x.lines[l] = FreshLine ELSE l >= lo => LineThere(x, r, l, resized, width)
       /\ \A k \in 1..Height : k > mb + o => \A i \in 1..MaxWidth : Empty(r.rows[k][i])
  BY DEF ScrollShows, r, o, mb
<1>12. up \in 0..1 /\ (up = 1 <=> line + o = Height + 1)
  BY DEF up
<1> DEFINE p == o - up
<1>13. q.row = line + p /\ p \in Int /\ q.row - y.t.line = p /\ p = o - up
  BY <1>9, <1>12, <1>2, <1>5, <1>7
<1>b. ASSUME NEW l \in Int PROVE l + (q.row - y.t.line) = l + p
  BY <1>13
<1>14. RowShows(FedRow(r, q.row, up), rec.data, MaxWidth, colors, resized)
  <2>1. CASE line <= mb
    <3>1. up = 0 /\ q.row = line + o /\ line + o <= Height /\ line + o \in 1..Height
      BY <2>1, <1>2, <1>5, <1>9, <1>11, <1>12
    <3>2. FedRow(r, q.row, up) = r.rows[line + o]
      BY <3>1, <1>2, <1>5 DEF FedRow
    <3>3. LineThere(x, r, line, resized, width)
      BY <2>1, <1>2, <1>a, <1>11
    <3>4. RowShows(r.rows[line + o], rec.data, MaxWidth, colors, resized)
      BY <3>1, <3>3 DEF LineThere, rec, colors, o
    <3> QED BY <3>2, <3>4
  <2>2. CASE line > mb
    <3>1. rec = FreshLine
      BY <2>2, <1>11 DEF rec
    <3>2. Len(rec.data) = 0
      BY <3>1 DEF FreshLine
    <3>3. ASSUME NEW i \in 1..MaxWidth PROVE Empty(FedRow(r, q.row, up)[i])
      <4>1. CASE up = 0
        BY <4>1, <2>2, <1>2, <1>5, <1>9, <1>11 DEF FedRow
      <4>2. CASE up = 1
        BY <4>2, <1>2, <1>5, <1>9, <1>12 DEF FedRow, BlankRow, Empty, RemoteBlank
      <4> QED BY <4>1, <4>2, <1>12
    <3>4. \A i \in 1..MaxWidth : ~(i <= 0)
      BY <1>2
    <3> QED BY <3>2, <3>3, <3>4 DEF RowShows
  <2> QED BY <2>1, <2>2, <1>2
<1>15. RowShows(q.rows[q.row], SetLine(rec, cells).data, MaxWidth, colors, resized)
       /\ SetLine(rec, cells).length = width
  <2>1. rec \in LineRecords /\ Len(cells) <= MaxWidth /\ MaxWidth <= MaxWidth
    BY <1>2 DEF rec
  <2> DEFINE a == FedRow(r, q.row, up)
             b == q.rows[q.row]
  <2>2. RowAfter(a, b, cells, width, colors, resized) /\ RowShows(a, rec.data, MaxWidth, colors, resized)
    BY <1>10, <1>14
  <2> HIDE DEF a, b
  <2>3. RowShows(b, SetLine(rec, cells).data, MaxWidth, colors, resized)
    BY <2>1, <2>2, <1>0, <1>2, SentShown
  <2>4. SetLine(rec, cells).length = width
    BY <2>1, SetLineHolds DEF Remembers
  <2> QED BY <2>3, <2>4 DEF b
<1>16. LineThere(y, q, line, resized, width)
  <2>1. line + (q.row - y.t.line) = q.row
    BY <1>b, <1>13, <1>2
  <2>2. y.lines[line] = SetLine(rec, cells) /\ y.t.outputColor = colors
    BY <1>4
  <2>3. y.lines[line].length = width /\ RowShows(q.rows[q.row], y.lines[line].data, MaxWidth, colors, resized)
    BY <2>2, <1>15
  <2> DEFINE at == line + (q.row - y.t.line)
  <2>4. at = q.row
    BY <2>1, Zenon
  <2>6. width >= width
    OBVIOUS
  <2> HIDE DEF at
  <2>5. RowShows(q.rows[at], y.lines[line].data, MaxWidth, y.t.outputColor, resized)
    BY <2>2, <2>3, <2>4
  <2> QED BY <2>3, <2>5, <2>6, Zenon DEF LineThere, at
<1> HIDE DEF p
<1>17. ASSUME NEW l \in Rows, l # line, l <= mb, l >= lo PROVE LineThere(y, q, l, resized, width)
  <2>0. l \in Nat
    BY RowsAreLines
  <2>1. LineThere(x, r, l, resized, width) /\ y.lines[l] = x.lines[l]
    <3>1. ~(l > mb)
      BY <1>17, <2>0, <1>2
    <3> QED BY <3>1, <1>17, <1>11, <1>4
  <2>2. ASSUME l + (q.row - y.t.line) \in 1..Height
        PROVE  RowShows(q.rows[l + (q.row - y.t.line)], y.lines[l].data, MaxWidth, y.t.outputColor, resized)
    <3>0. l + p \in 1..Height
      <4>1. l + (q.row - y.t.line) = l + p
        BY <1>13, Zenon
      <4> QED BY <4>1, <2>2, Zenon
    <3>1. l + p \in 1..Height /\ l + p # q.row
      BY <3>0, <1>13, <1>17, <2>0, <1>2
    <3>2. l + o = l + p + up /\ l + o \in 1..Height
      BY <3>1, <1>2, <1>5, <1>11, <1>12, <1>13, <1>17, <2>0 DEF p
    <3>3. q.rows[l + p] = FedRow(r, l + p, up)
      BY <3>1, <1>10
    <3>4. FedRow(r, l + p, up) = r.rows[l + o]
      BY <3>2, <1>2, <1>5, <1>12, <1>13, <2>0 DEF FedRow
    <3>5. RowShows(r.rows[l + o], x.lines[l].data, MaxWidth, colors, resized)
      BY <2>1, <3>2 DEF LineThere, o, colors
    <3> QED BY <3>3, <3>4, <3>5, <2>1, <1>4, <1>13
  <2> QED BY <2>1, <2>2 DEF LineThere
<1> DEFINE nb == Max2(mb, line)
<1>18. nb \in Int /\ nb >= mb /\ nb >= line /\ (nb = mb \/ nb = line)
  BY <1>2 DEF Max2
<1>19. nb + p <= Height
  <2> HIDE DEF nb, o
  <2> QED BY <1>2, <1>5, <1>9, <1>11, <1>12, <1>13, <1>18
<1>20. ASSUME NEW l \in Rows
       PROVE  IF l > nb THEN y.lines[l] = FreshLine ELSE l >= lo => LineThere(y, q, l, resized, width)
  <2>0. l \in Nat
    BY RowsAreLines
  <2> HIDE DEF nb
  <2>1. CASE l > nb
    <3>1. l > mb /\ l # line
      BY <2>1, <2>0, <1>18, <1>2
    <3> QED BY <2>1, <3>1, <1>4, <1>11
  <2>2. ASSUME ~(l > nb), l >= lo PROVE LineThere(y, q, l, resized, width)
    <3>1. CASE l = line
      BY <3>1, <1>16
    <3>2. CASE l # line
      <4>1. l <= mb
        BY <2>2, <3>2, <2>0, <1>2, <1>18, <1>a
      <4> QED BY <4>1, <3>2, <2>2, <1>17
    <3> QED BY <3>1, <3>2
  <2> QED BY <2>1, <2>2
<1>21. ASSUME NEW k \in 1..Height, k > nb + p, NEW i \in 1..MaxWidth PROVE Empty(q.rows[k][i])
  <2> HIDE DEF nb, o
  <2>0. k \in Int
    OBVIOUS
  <2>1. k > line + p /\ k # q.row
    BY <1>21, <2>0, <1>13, <1>18, <1>2
  <2>2. up = 0
    BY <1>2, <1>5, <1>12, <1>13, <2>1, <2>0
  <2>3. q.rows[k] = FedRow(r, k, 0)
    BY <2>1, <2>2, <1>10
  <2>4. FedRow(r, k, 0) = r.rows[k]
    BY <2>0, <1>2 DEF FedRow
  <2>5. k > mb + o
    BY <2>2, <1>5, <1>13, <1>21, <2>0, <1>2, <1>18
  <2> QED BY <2>3, <2>4, <2>5, <1>11
<1>22. ScrollShows(y, q, lo, resized, width)
  <2>1. y.maxBuffered + (q.row - y.t.line) = nb + p /\ y.maxBuffered = nb
    BY <1>4, <1>13
  <2> HIDE DEF nb, p
  <2> QED BY <2>1, <1>19, <1>20, <1>21 DEF ScrollShows
<1>23. ScrolledBy(x, y, r, q, line)
  <2>1. q.row - y.t.line = p /\ line + p \in 1..Height
    BY <1>9, <1>13
  <2>2. p = o \/ (p = o - 1 /\ line + p = Height)
    BY <1>5, <1>13, <1>2, <1>12
  <2> HIDE DEF p
  <2> QED BY <2>1, <2>2 DEF ScrolledBy, o
<1> QED BY <1>4, <1>6, <1>22, <1>23 DEF q, r, ScrolledTo

\* A line that is not sent.
LEMMA ScrollSkipped ==
  ASSUME NEW width \in Nat, width >= 1, width <= MaxWidth, NEW x \in Scrapers(width), NEW r0 \in RemoteType(width),
         ~x.t.plain, NEW resized, NEW hidden \in BOOLEAN, Told(x.t, r0, resized, hidden), NEW lo \in Nat, NEW line \in Rows, NEW cells \in Seq(Cell), Paired(cells), Len(cells) = width,
         ScrollShows(x, Now(r0, x.t), lo, resized, width), NextLine(x, Now(r0, x.t), lo, line),
         line <= x.maxBuffered, LinesEqual(x.lines[line], cells),
         NEW cursorColumn, NEW saw, saw = FALSE, NEW y, y = ScrollRow(x, line, cells, cursorColumn, saw)
  PROVE  ScrolledTo(x, y, r0, lo, line, resized, hidden, width)
<1>s. y = ScrollRow(x, line, cells, cursorColumn, FALSE)
  OBVIOUS
<1> DEFINE z == SendRow(x, line, cells, cursorColumn, FALSE)
           r == Now(r0, x.t)
           rec == x.lines[line]
           mb == x.maxBuffered
<1>0. Len(cells) >= 1 /\ Len(cells) <= width
  OBVIOUS
<1>1. RowSent(x, z, line, cells, width) /\ z.t = x.t
  <2>1. PICK on \in BOOLEAN : ~on
    OBVIOUS
  <2> DEFINE zz == SendRow(x, line, cells, cursorColumn, on)
  <2>2. RowSent(x, zz, line, cells, width) /\ zz.t = IF on THEN sendLine(x.t, line, cells, cursorColumn) ELSE x.t
    BY SendRowHolds, <1>0
  <2>3. on = FALSE
    BY <2>1
  <2>4. zz = z
    BY <2>3
  <2> HIDE DEF z, zz
  <2> QED BY <2>1, <2>2, <2>4
<1>2. /\ x.t \in TermType(width) /\ x.t.line \in Nat /\ x.lines \in [Rows -> LineRecords] /\ mb \in Int
      /\ line \in Nat /\ Height \in Nat /\ MaxWidth \in Nat
  BY ScraperFields, RowsAreLines, ConstantsFit
<1>3. y = [z EXCEPT !.maxBuffered = Max2(@, line)]
  BY DEF ScrollRow
<1> HIDE DEF z
<1>4. /\ y.t = x.t /\ y.maxBuffered = mb
      /\ y.lines[line] = SetLine(rec, cells) /\ \A l \in Rows : l # line => y.lines[l] = x.lines[l]
  BY <1>1, <1>3, <1>2 DEF RowSent, Scrapers, Max2
<1>5. r \in RemoteType(width) /\ r.row \in 1..Height /\ r.row \in Nat
  BY <1>2, NowType, RemoteFields
<1>6. Now(r0, y.t) = r
  BY <1>4
<1> HIDE DEF r
<1>7. ScrollShows(x, r, lo, resized, width) /\ NextLine(x, r, lo, line)
  BY DEF r
<1>8. ASSUME NEW l \in Rows, ~(l > mb), l >= lo PROVE LineThere(y, r, l, resized, width)
  <2>1. LineThere(x, r, l, resized, width)
    BY <1>7, <1>8 DEF ScrollShows
  <2>2. CASE l # line
    BY <2>1, <2>2, <1>4 DEF LineThere
  <2>3. CASE l = line
    <3> DEFINE row == r.rows[l + (r.row - x.t.line)]
               at == l + (r.row - x.t.line)
               colors == x.t.outputColor
               s == SetLine(rec, cells)
    <3>1. rec \in LineRecords /\ Len(cells) <= MaxWidth /\ MaxWidth <= MaxWidth /\ Len(cells) = width
      BY <1>2
    <3>2. (resized = 0 => rec.length >= width) /\ (at \in 1..Height => RowShows(row, rec.data, MaxWidth, colors, resized))
      BY <2>1, <2>3 DEF LineThere
    <3>3. s.length = width /\ width >= width
      BY <3>1, SetLineHolds DEF Remembers
    <3> HIDE DEF row, rec, colors, s, at
    <3>4. ASSUME at \in 1..Height PROVE RowShows(row, s.data, MaxWidth, colors, resized)
      BY <3>1, <3>2, <3>4, <1>2, EqualShown DEF rec, s
    <3>5. y.lines[l] = s /\ y.t = x.t
      BY <2>3, <1>4 DEF s
    <3> QED BY <3>3, <3>4, <3>5, Zenon DEF LineThere, row, at, colors
  <2> QED BY <2>2, <2>3
<1>9. ScrollShows(y, r, lo, resized, width)
  <2>1. ASSUME NEW l \in Rows
        PROVE  IF l > y.maxBuffered THEN y.lines[l] = FreshLine ELSE l >= lo => LineThere(y, r, l, resized, width)
    BY <1>2, <1>4, <1>7, <1>8 DEF ScrollShows
  <2> QED BY <2>1, <1>4, <1>7 DEF ScrollShows
<1>10. ScrolledBy(x, y, r, r, line)
  <2>1. line + (r.row - x.t.line) \in 1..Height
    <3>1. mb + (r.row - x.t.line) <= Height
      BY <1>7 DEF ScrollShows
    <3>2. line + (r.row - x.t.line) \in 1..(Height + 1)
      BY <1>7 DEF NextLine
    <3>3. line <= mb
      OBVIOUS
    <3> HIDE DEF mb
    <3> QED BY <3>1, <3>2, <3>3, <1>2, <1>5
  <2> QED BY <2>1, <1>4 DEF ScrolledBy
<1> QED BY <1>4, <1>6, <1>9, <1>10 DEF r, ScrolledTo
-----------------------------------------------------------------------------
(* The folds of a scrape.                                                  *)

Steps(at, n, a, step) == at[0] = a /\ \A k \in 1..n : at[k] = step[k][at[k - 1]]

\* What a fold makes of n elements, step by step.
LEMMA FoldSteps ==
  ASSUME NEW A, NEW n \in Nat, NEW step \in [1..n -> [A -> A]], NEW a \in A, NEW it,
         TableOn(it, n, a, step, A)
  PROVE  \E at \in [0..n -> A] : Steps(at, n, a, step) /\ at[n] = it[1..n]
<1> DEFINE at == [k \in 0..n |-> it[1..k]]
<1>1. MadeUpTo(it, n, a, step, A)
  BY TablePrefixes
<1>2. at \in [0..n -> A] /\ at[0] = a /\ at[n] = it[1..n]
  BY <1>1 DEF MadeUpTo
<1>3. ASSUME NEW k \in 1..n PROVE at[k] = step[k][at[k - 1]]
  BY <1>1 DEF MadeUpTo
<1> HIDE DEF at
<1> QED BY <1>2, <1>3 DEF Steps

\* What a direct scrape reads of the console.
DirectCells(c, line, n) == SubSeq(c.rows[c.top + line], 1, n)
CursorSeen(c, n) == c.visible /\ c.cur.row \in c.top..(c.top + Height - 1) /\ c.cur.col < n
DirectLine(c, n, a, line) ==
  SendRow(a, line, DirectCells(c, line, n), CursorOn(c, line, CursorSeen(c, n)),
          Detected(a, line, DirectCells(c, line, n)))
Scrapable(c, n) ==
  \A line \in 0..(Height - 1) :
    /\ DirectCells(c, line, n) \in Seq(Cell) /\ Paired(DirectCells(c, line, n)) /\ Len(DirectCells(c, line, n)) = n

DirectTable(at, s, c, n) ==
  /\ at[0] = HideUnless(s, CursorSeen(c, n))
  /\ \A k \in 1..Height : at[k] = DirectLine(c, n, at[k - 1], k - 1)
  /\ DirectScrape(s, c, n) = ShowIf(at[Height], c, CursorSeen(c, n))

\* Hiding the cursor keeps the scraper's type.
LEMMA HideUnlessType ==
  ASSUME NEW width \in Nat, width >= 1, NEW s \in Scrapers(width), NEW shown
  PROVE  HideUnless(s, shown) \in Scrapers(width)
<1>1. 1 \in 1..Height
  BY ConstantsFit
<1>2. NewRemote(width, 1) \in RemoteType(width)
  BY <1>1, NewRemoteType
<1>3. s.t \in TermType(width) /\ TermOK(s.t)
  BY ScraperFields
<1>4. HidCursor(s.t, hideTerminalCursor(s.t), NewRemote(width, 1), width)
  BY <1>2, <1>3, HideHolds
<1>5. hideTerminalCursor(s.t) \in Terms(width)
  BY <1>3, <1>4 DEF HidCursor, Terms
<1> QED BY <1>5 DEF HideUnless, Scrapers

\* The direct scrape goes through its lines one by one.
LEMMA DirectTableExists ==
  ASSUME NEW width \in Nat, width >= 1, width <= MaxWidth, NEW s \in Scrapers(width), NEW n \in 1..width, NEW c,
         Scrapable(c, n)
  PROVE  \E at \in [0..Height -> Scrapers(width)] : DirectTable(at, s, c, n)
<1> DEFINE m == Height
           seq == [i \in 1..Height |-> i - 1]
           A == Scrapers(width)
           shown == CursorSeen(c, n)
           a == HideUnless(s, shown)
           step == [k \in 1..m |-> [x \in A |-> DirectLine(c, n, x, seq[k])]]
           Eq(it) == it = [t \in SUBSET (DOMAIN seq) |-> IF t = {} THEN a ELSE DirectLine(c, n, it[t \ {Max(t)}], seq[Max(t)])]
           it == CHOOSE iter : Eq(iter)
<1>7. DirectScrape(s, c, n) = ShowIf(it[DOMAIN seq], c, shown)
  BY DEF DirectScrape, FoldLeft, MapThenFoldSet, DirectLine, DirectCells, CursorSeen
<1>1. m \in Nat /\ DOMAIN seq = 1..m /\ \A k \in 1..m : seq[k] = k - 1
  BY ConstantsFit
<1> HIDE DEF seq
<1>a. a \in A
  BY HideUnlessType
<1>2. step \in [1..m -> [A -> A]]
  <2>1. ASSUME NEW k \in 1..m, NEW x \in A PROVE DirectLine(c, n, x, seq[k]) \in A
    <3> DEFINE line == seq[k]
               cells == DirectCells(c, line, n)
               changed == Detected(x, line, cells)
               cc == CursorOn(c, line, CursorSeen(c, n))
    <3>1. line \in 0..(Height - 1) /\ line \in Rows
      BY <1>1, RowsAreLines
    <3>2. cells \in Seq(Cell) /\ Paired(cells) /\ Len(cells) = n /\ Len(cells) >= 1 /\ Len(cells) <= width
      BY <3>1 DEF Scrapable
    <3>3. changed \in BOOLEAN
      BY DEF Detected
    <3> HIDE DEF line, cells, changed, cc
    <3>4. RowSent(x, SendRow(x, line, cells, cc, changed), line, cells, width)
      BY <3>1, <3>2, <3>3, SendRowHolds
    <3>5. SendRow(x, line, cells, cc, changed) \in Scrapers(width)
      BY <3>4 DEF RowSent
    <3> QED BY <3>5 DEF DirectLine, line, cells, changed, cc
  <2> HIDE DEF A, m
  <2> QED BY <2>1
<1>3. PICK f \in [SUBSET (1..m) -> A] : Table(f, m, a, step)
  <2> HIDE DEF A, m, step, a
  <2> QED BY <1>1, <1>2, <1>a, TableExists
<1>4. Eq(f)
  <2>1. ASSUME NEW t \in SUBSET (1..m), t # {}
        PROVE  step[Max(t)][f[t \ {Max(t)}]] = DirectLine(c, n, f[t \ {Max(t)}], seq[Max(t)])
    <3>1. Max(t) \in 1..m
      <4> HIDE DEF m
      <4> QED BY <1>1, <2>1, MaxIn
    <3>2. f[t \ {Max(t)}] \in A
      OBVIOUS
    <3> HIDE DEF A, m
    <3> QED BY <3>1, <3>2
  <2>2. f = [t \in SUBSET (1..m) |-> IF t = {} THEN a ELSE step[Max(t)][f[t \ {Max(t)}]]]
    BY <1>3 DEF Table
  <2> HIDE DEF m, step, a
  <2>3. f = [t \in SUBSET (1..m) |-> IF t = {} THEN a ELSE DirectLine(c, n, f[t \ {Max(t)}], seq[Max(t)])]
    BY <2>1, <2>2, Zenon
  <2> QED BY <2>3, <1>1
<1>5. Eq(it)
  BY <1>4
<1>8. TableOn(it, m, a, step, A)
  <2>1. \A t \in SUBSET (1..m) : it[t] = IF t = {} THEN a ELSE DirectLine(c, n, it[t \ {Max(t)}], seq[Max(t)])
    <3> HIDE DEF it, a
    <3> QED BY <1>5, <1>1
  <2> SUFFICES ASSUME NEW t \in SUBSET (1..m), t # {}, it[t \ {Max(t)}] \in A
               PROVE  it[t] = step[Max(t)][it[t \ {Max(t)}]]
    <3> HIDE DEF it, A, step, m, a
    <3> QED BY <2>1 DEF TableOn
  <2>2. Max(t) \in 1..m
    <3> HIDE DEF m
    <3> QED BY <1>1, MaxIn
  <2>3. step[Max(t)][it[t \ {Max(t)}]] = DirectLine(c, n, it[t \ {Max(t)}], seq[Max(t)])
    <3> HIDE DEF A, m, it
    <3> QED BY <2>2
  <2> HIDE DEF A, m, it, step, a
  <2> QED BY <2>3, <2>1
<1> HIDE DEF it
<1>9. PICK at \in [0..m -> A] : Steps(at, m, a, step) /\ at[m] = it[1..m]
  <2> HIDE DEF A, m, step, a
  <2>1. m \in Nat
    BY <1>1
  <2>2. step \in [1..m -> [A -> A]]
    BY <1>2
  <2>3. a \in A
    BY <1>a
  <2>4. TableOn(it, m, a, step, A)
    BY <1>8
  <2> QED BY <2>1, <2>2, <2>3, <2>4, FoldSteps
<1>10. ASSUME NEW k \in 1..m PROVE at[k] = DirectLine(c, n, at[k - 1], k - 1)
  <2>1. at[k] = step[k][at[k - 1]] /\ at[k - 1] \in A
    <3>1. k - 1 \in 0..m
      BY <1>1
    <3> HIDE DEF A, m, step, a
    <3> QED BY <3>1, <1>9 DEF Steps
  <2>2. step[k][at[k - 1]] = DirectLine(c, n, at[k - 1], seq[k])
    BY <2>1
  <2> QED BY <2>1, <2>2, <1>1
<1>11. at[0] = a /\ DirectScrape(s, c, n) = ShowIf(at[m], c, shown)
  <2> HIDE DEF A, step, a, shown
  <2> QED BY <1>1, <1>7, <1>9 DEF Steps
<1>12. DirectTable(at, s, c, n)
  BY <1>10, <1>11 DEF DirectTable
<1> QED BY <1>12
-----------------------------------------------------------------------------
(* sendLine never shows the cursor.                                        *)

KeepsHidden(t, u) == u.plain = t.plain /\ u.outputColor = t.outputColor /\ (t.hidden => u.hidden)

\* hideTerminalCursor does not forget a hidden cursor.
LEMMA HideKeepsHidden ==
  ASSUME NEW width \in Nat, NEW t \in TermType(width)
  PROVE  KeepsHidden(t, hideTerminalCursor(t)) /\ hideTerminalCursor(t) \in TermType(width)
<1>1. CASE t.plain \/ t.hidden
  BY <1>1 DEF hideTerminalCursor, KeepsHidden
<1>2. CASE ~(t.plain \/ t.hidden)
  <2>1. <<Op("HIDE")>> \in Seq(Ops(width))
    BY DEF Op, Ops
  <2> DEFINE out == t.out \o <<Op("HIDE")>>
  <2>2. hideTerminalCursor(t) = [[t EXCEPT !.out = out] EXCEPT !.hidden = TRUE]
    BY <1>2 DEF hideTerminalCursor, Write
  <2>3. out \in Seq(Ops(width))
    BY <2>1 DEF TermType
  <2> HIDE DEF out
  <2>4. [[t EXCEPT !.out = out] EXCEPT !.hidden = TRUE] \in TermType(width)
    BY <2>3 DEF TermType
  <2> QED BY <1>2, <2>2, <2>4 DEF TermType, KeepsHidden
<1> QED BY <1>1, <1>2

\* Nor does what goes to the start of a line,
LEMMA StartKeepsHidden ==
  ASSUME NEW width \in Nat, NEW t \in TermType(width), NEW ops \in Seq(Ops(width)), NEW line \in Nat
  PROVE  /\ KeepsHidden(t, AtLineStart([Write(t, ops) EXCEPT !.line = line]))
         /\ KeepsHidden(t, AtLineStart(Write(t, ops)))
         /\ KeepsHidden(t, Write(t, ops))
BY DEF AtLineStart, Write, TermType, KeepsHidden

\* nor moveTerminalToLine,
LEMMA MoveKeepsHidden ==
  ASSUME NEW width \in Nat, NEW t \in TermType(width), NEW line \in Nat
  PROVE  KeepsHidden(t, moveTerminalToLine(t, line))
<1> DEFINE moves == IF line > t.line THEN CrLfs(line - t.line)
                    ELSE IF t.plain THEN CrLfs(1)
                    ELSE <<Op("CR"), [op |-> "CUU", n |-> t.line - line]>>
           h == hideTerminalCursor(t)
<1>1. CASE line = t.line
  BY <1>1 DEF moveTerminalToLine, KeepsHidden
<1>2. CASE line # t.line
  <2>1. moves \in Seq(Ops(width))
    <3>1. t.line \in Nat
      BY DEF TermType
    <3>2. ASSUME NEW n \in Nat PROVE CrLfs(n) \in Seq(Ops(width))
      BY DEF CrLfs, Op, Ops
    <3>3. CASE line > t.line
      BY <3>1, <3>2, <3>3
    <3>4. CASE ~(line > t.line) /\ t.plain
      <4>1. PICK one \in Nat : one = 1
        OBVIOUS
      <4> QED BY <4>1, <3>2, <3>4
    <3>5. CASE ~(line > t.line) /\ ~t.plain
      <4>1. t.line - line \in Nat
        BY <1>2, <3>1, <3>5
      <4>2. Op("CR") \in Ops(width) /\ [op |-> "CUU", n |-> t.line - line] \in Ops(width)
        BY <4>1 DEF Op, Ops
      <4> QED BY <4>2, <3>5
    <3> QED BY <3>3, <3>4, <3>5
  <2>2. h \in TermType(width) /\ KeepsHidden(t, h)
    BY HideKeepsHidden
  <2>3. moveTerminalToLine(t, line) = AtLineStart([Write(h, moves) EXCEPT !.line = line])
    BY <1>2 DEF moveTerminalToLine
  <2> HIDE DEF h, moves
  <2>4. KeepsHidden(h, AtLineStart([Write(h, moves) EXCEPT !.line = line]))
    BY <2>1, <2>2, StartKeepsHidden
  <2> QED BY <2>2, <2>3, <2>4 DEF KeepsHidden
<1> QED BY <1>1, <1>2

\* nor Rewind,
LEMMA RewindKeepsHidden ==
  ASSUME NEW width \in Nat, NEW t \in TermType(width), NEW cells
  PROVE  KeepsHidden(t, Rewind(t, cells))
<1> DEFINE ops == IF t.plain THEN CrLfs(1) ELSE <<Op("CR")>>
           h == hideTerminalCursor(t)
<1>1. CASE CanAppend(t, cells)
  BY <1>1 DEF Rewind, KeepsHidden
<1>2. CASE ~CanAppend(t, cells)
  <2>1. ops \in Seq(Ops(width))
    <3>1. CrLfs(1) \in Seq(Ops(width))
      BY DEF CrLfs, Op, Ops
    <3>2. <<Op("CR")>> \in Seq(Ops(width))
      BY DEF Op, Ops
    <3> QED BY <3>1, <3>2
  <2>2. h \in TermType(width) /\ KeepsHidden(t, h)
    BY HideKeepsHidden
  <2>3. Rewind(t, cells) = AtLineStart(Write(h, ops))
    BY <1>2 DEF Rewind
  <2> HIDE DEF h, ops
  <2>4. KeepsHidden(h, AtLineStart(Write(h, ops)))
    BY <2>1, <2>2, StartKeepsHidden
  <2> QED BY <2>2, <2>3, <2>4 DEF KeepsHidden
<1> QED BY <1>1, <1>2

\* nor sendLine, which has hidden it before it writes.
LEMMA SendKeepsHidden ==
  ASSUME NEW width \in Nat, width >= 1, width <= MaxWidth, NEW t \in TermType(width), TermOK(t), NEW line \in Nat,
         NEW cells \in Seq(Cell), Len(cells) >= 1, Len(cells) <= width, NEW cursorColumn
  PROVE  KeepsHidden(t, sendLine(t, line, cells, cursorColumn))
<1> DEFINE m == moveTerminalToLine(t, line)
           s == Rewind(m, cells)
           drawn == Drawn(s, cells)
           h == IF cursorColumn # -1 /\ drawn.cells > cursorColumn THEN hideTerminalCursor(s) ELSE s
           ops == SubSeq(drawn.ops, 1, drawn.kept) \o (IF drawn.erased \/ s.plain THEN <<>> ELSE <<Op("EL")>>)
<1>0. NewRemote(width, 1) \in RemoteType(width)
  BY ConstantsFit, NewRemoteType
<1>1. m \in TermType(width) /\ TermOK(m) /\ KeepsHidden(t, m)
  BY <1>0, MoveHolds, MoveKeepsHidden DEF moveTerminalToLine, KeepsHidden
<1> HIDE DEF m
<1>2. s \in TermType(width) /\ KeepsHidden(m, s)
  BY <1>0, <1>1, RewindHolds, RewindKeepsHidden DEF Rewound
<1> HIDE DEF s
<1>3. h \in TermType(width) /\ KeepsHidden(s, h)
  BY <1>2, HideKeepsHidden DEF KeepsHidden
<1> DEFINE u == [[h EXCEPT !.out = @ \o ops]
                   EXCEPT !.data = SubSeq(cells, 1, drawn.cells), !.column = drawn.cells, !.color = drawn.color]
<1>4. sendLine(t, line, cells, cursorColumn) = u
  BY DEF sendLine, WriteLine, Write, m, s
<1> HIDE DEF h, ops, drawn
<1>5. KeepsHidden(h, u)
  BY <1>3 DEF TermType, KeepsHidden
<1> QED BY <1>1, <1>2, <1>3, <1>4, <1>5 DEF KeepsHidden
-----------------------------------------------------------------------------
(* directScrapeOutput.                                                     *)

SameFields(a, x) ==
  /\ x.direct = a.direct /\ x.scraped = a.scraped /\ x.maxBuffered = a.maxBuffered
  /\ x.dirtyTop = a.dirtyTop /\ x.dirtyLines = a.dirtyLines
  /\ x.t.plain = a.t.plain /\ x.t.outputColor = a.t.outputColor

DirectDone(a, x, k, c, n) ==
  /\ SameFields(a, x) /\ KeepsHidden(a.t, x.t)
  /\ \A j \in 0..(Height - 1) : IF j < k THEN Remembers(x.lines[j], DirectCells(c, j, n)) ELSE x.lines[j] = a.lines[j]

\* There is nothing behind what is remembered of the line, or it is sent as far as the terminal is wide.
Fits(x, n, width) == n = width \/ \A j \in 0..(Height - 1) : Len(x.lines[j].data) <= n

\* One line of a direct scrape is remembered and shown.
LEMMA DirectLineHolds ==
  ASSUME NEW width \in Nat, width >= 1, width <= MaxWidth, NEW x \in Scrapers(width), NEW n \in 1..width, NEW c,
         Scrapable(c, n), NEW line \in 0..(Height - 1), NEW y, y = DirectLine(c, n, x, line)
  PROVE  /\ RowSent(x, y, line, DirectCells(c, line, n), width) /\ KeepsHidden(x.t, y.t)
         /\ \A r0 \in RemoteType(width) : \A resized : \A hidden \in BOOLEAN :
              /\ ~x.t.plain /\ Told(x.t, r0, resized, hidden) /\ DirectShows(x, Now(r0, x.t), width, resized, n)
              /\ n = width \/ Len(x.lines[line].data) <= n
              => Told(y.t, r0, resized, hidden) /\ DirectShows(y, Now(r0, y.t), width, resized, n)
<1> DEFINE cells == DirectCells(c, line, n)
           changed == Detected(x, line, cells)
           cc == CursorOn(c, line, CursorSeen(c, n))
<1>1. line \in Rows /\ line \in Nat
  BY RowsAreLines
<1>2. cells \in Seq(Cell) /\ Paired(cells) /\ Len(cells) = n /\ Len(cells) >= 1 /\ Len(cells) <= width
  BY DEF Scrapable
<1>3. changed \in BOOLEAN
  BY DEF Detected
<1>4. y = SendRow(x, line, cells, cc, changed)
  BY DEF DirectLine
<1>5. x.t \in TermType(width) /\ TermOK(x.t)
  BY ScraperFields
<1> HIDE DEF cells, cc
<1>6. RowSent(x, y, line, cells, width)
      /\ y.t = IF changed THEN sendLine(x.t, line, cells, cc) ELSE x.t
  <2> HIDE DEF changed
  <2> QED BY <1>1, <1>2, <1>3, <1>4, SendRowHolds
<1>7. KeepsHidden(x.t, y.t)
  BY <1>1, <1>2, <1>5, SendKeepsHidden, <1>6 DEF KeepsHidden
<1>8. ASSUME NEW r0 \in RemoteType(width), NEW resized, NEW hidden \in BOOLEAN,
             ~x.t.plain, Told(x.t, r0, resized, hidden), DirectShows(x, Now(r0, x.t), width, resized, n),
             n = width \/ Len(x.lines[line].data) <= n
      PROVE  Told(y.t, r0, resized, hidden) /\ DirectShows(y, Now(r0, y.t), width, resized, n)
  BY <1>4, <1>2, <1>8, DirectRow
<1> QED BY <1>6, <1>7, <1>8 DEF cells

\* So are all of them.
LEMMA DirectFold ==
  ASSUME NEW width \in Nat, width >= 1, width <= MaxWidth, NEW s \in Scrapers(width), NEW n \in 1..width, NEW c,
         Scrapable(c, n)
  PROVE  \E x \in Scrapers(width) :
           /\ DirectScrape(s, c, n) = ShowIf(x, c, CursorSeen(c, n))
           /\ DirectDone(HideUnless(s, CursorSeen(c, n)), x, Height, c, n)
           /\ \A r0 \in RemoteType(width) : \A resized : \A hidden \in BOOLEAN :
                LET a == HideUnless(s, CursorSeen(c, n))
                IN ~a.t.plain /\ Told(a.t, r0, resized, hidden) /\ DirectShows(a, Now(r0, a.t), width, resized, n)
                   /\ Fits(a, n, width)
                   => Told(x.t, r0, resized, hidden) /\ DirectShows(x, Now(r0, x.t), width, resized, n)
<1> DEFINE a == HideUnless(s, CursorSeen(c, n))
<1>1. PICK at \in [0..Height -> Scrapers(width)] : DirectTable(at, s, c, n)
  BY DirectTableExists
<1>0. Height \in Nat
  BY ConstantsFit
<1>2. /\ at[0] = a /\ DirectScrape(s, c, n) = ShowIf(at[Height], c, CursorSeen(c, n))
      /\ \A k \in 1..Height : at[k] = DirectLine(c, n, at[k - 1], k - 1)
  BY <1>1 DEF DirectTable
<1> HIDE DEF a
<1> DEFINE T == {k \in 0..Height : DirectDone(a, at[k], k, c, n)}
<1>3. 0 \in T
  BY <1>2, <1>0 DEF KeepsHidden, SameFields, DirectDone
<1>4. ASSUME NEW k \in 0..(Height - 1) PROVE at[k] \in Scrapers(width) /\ at[k + 1] = DirectLine(c, n, at[k], k)
  BY <1>0, <1>2
<1>5. ASSUME NEW k \in 0..(Height - 1)
      PROVE  RowSent(at[k], at[k + 1], k, DirectCells(c, k, n), width) /\ KeepsHidden(at[k].t, at[k + 1].t)
  BY <1>4, DirectLineHolds
<1>6. ASSUME NEW k \in 0..(Height - 1), k \in T PROVE k + 1 \in T
  <2>1. DirectDone(a, at[k], k, c, n) /\ k \in Nat /\ k + 1 \in 0..Height
    BY <1>0, <1>6
  <2>2. RowSent(at[k], at[k + 1], k, DirectCells(c, k, n), width) /\ KeepsHidden(at[k].t, at[k + 1].t)
    BY <1>5
  <2> DEFINE x == at[k]
             y == at[k + 1]
  <2>3. x \in Scrapers(width)
    BY <1>4
  <2> HIDE DEF x, y
  <2>4. SameFields(a, y) /\ KeepsHidden(a.t, y.t)
    BY <2>1, <2>2 DEF DirectDone, SameFields, KeepsHidden, RowSent, x, y
  <2>5. ASSUME NEW j \in 0..(Height - 1)
        PROVE  IF j < k + 1 THEN Remembers(y.lines[j], DirectCells(c, j, n)) ELSE y.lines[j] = a.lines[j]
    <3>1. IF j < k THEN Remembers(x.lines[j], DirectCells(c, j, n)) ELSE x.lines[j] = a.lines[j]
      BY <2>1 DEF DirectDone, x
    <3>2. j \in Rows /\ k \in Rows
      BY RowsAreLines
    <3>3. CASE j = k
      BY <2>2, <2>3, <3>2, ScraperFields, ConstantsFit, SetLineHolds, <3>3, <2>1 DEF RowSent, x, y, Scrapable
    <3>4. CASE j # k
      BY <2>2, <3>2, <3>4, <2>1, <3>1 DEF RowSent, x, y
    <3> QED BY <3>3, <3>4
  <2>6. DirectDone(a, y, k + 1, c, n)
    BY <2>4, <2>5 DEF DirectDone
  <2> QED BY <2>1, <2>6 DEF y
<1>7. \A k \in 0..Height : k \in T
  <2>1. T \in SUBSET Nat
    OBVIOUS
  <2> HIDE DEF T
  <2> QED BY <2>1, <1>0, <1>3, <1>6, Counting
<1>8. \A k \in 0..Height : DirectDone(a, at[k], k, c, n)
  BY <1>7
<1>9. ASSUME NEW r0 \in RemoteType(width), NEW resized, NEW hidden \in BOOLEAN,
             ~a.t.plain, Told(a.t, r0, resized, hidden), DirectShows(a, Now(r0, a.t), width, resized, n),
             Fits(a, n, width)
      PROVE  Told(at[Height].t, r0, resized, hidden) /\ DirectShows(at[Height], Now(r0, at[Height].t), width, resized, n)
  <2> DEFINE P(x) == Told(x.t, r0, resized, hidden) /\ DirectShows(x, Now(r0, x.t), width, resized, n)
             S == {k \in 0..Height : P(at[k])}
  <2>1. 0 \in S
    BY <1>0, <1>2, <1>9
  <2>2. ASSUME NEW k \in 0..(Height - 1), k \in S PROVE k + 1 \in S
    <3>1. k \in 0..Height /\ k + 1 \in 0..Height /\ k \in Nat
      BY <1>0
    <3>2. at[k] \in Scrapers(width) /\ at[k + 1] = DirectLine(c, n, at[k], k)
      BY <1>4
    <3>3. ~at[k].t.plain /\ at[k].lines[k] = a.lines[k]
      BY <3>1, <1>8, <1>9 DEF DirectDone, SameFields
    <3>4. n = width \/ Len(at[k].lines[k].data) <= n
      BY <3>3, <1>9 DEF Fits
    <3>5. Told(at[k].t, r0, resized, hidden) /\ DirectShows(at[k], Now(r0, at[k].t), width, resized, n)
      BY <2>2
    <3>6. Told(at[k + 1].t, r0, resized, hidden) /\ DirectShows(at[k + 1], Now(r0, at[k + 1].t), width, resized, n)
      <4> DEFINE x == at[k]
                 y == at[k + 1]
      <4>1. /\ x \in Scrapers(width) /\ y = DirectLine(c, n, x, k) /\ ~x.t.plain
            /\ n = width \/ Len(x.lines[k].data) <= n
            /\ Told(x.t, r0, resized, hidden) /\ DirectShows(x, Now(r0, x.t), width, resized, n)
        BY <3>2, <3>3, <3>4, <3>5
      <4> HIDE DEF x, y, S, P, T
      <4>2. \A rr \in RemoteType(width) : \A re : \A hi \in BOOLEAN :
              /\ ~x.t.plain /\ Told(x.t, rr, re, hi) /\ DirectShows(x, Now(rr, x.t), width, re, n)
              /\ n = width \/ Len(x.lines[k].data) <= n
              => Told(y.t, rr, re, hi) /\ DirectShows(y, Now(rr, y.t), width, re, n)
        BY <4>1, DirectLineHolds
      <4>3. Told(y.t, r0, resized, hidden) /\ DirectShows(y, Now(r0, y.t), width, resized, n)
        BY <4>1, <4>2
      <4> QED BY <4>3 DEF y
    <3> QED BY <3>1, <3>6
  <2>3. \A k \in 0..Height : k \in S
    <3>1. S \in SUBSET Nat
      OBVIOUS
    <3> HIDE DEF S
    <3> QED BY <3>1, <1>0, <2>1, <2>2, Counting
  <2>4. Height \in S
    BY <2>3, <1>0
  <2> QED BY <2>4
<1> HIDE DEF T
<1>10. at[Height] \in Scrapers(width)
  BY <1>0
<1>11. DirectDone(a, at[Height], Height, c, n)
  BY <1>8, <1>0
<1> QED BY <1>2, <1>9, <1>10, <1>11 DEF a
-----------------------------------------------------------------------------
(* How a scrape begins and ends: the cursor is hidden, or shown again.     *)

SamePlace(x, u, r, q) ==
  q.row - u.t.line = r.row - x.t.line /\ \A k \in 1..Height : q.rows[k] = r.rows[k]

Begins(s, a, shown) ==
  /\ SameFields(s, a) /\ a.lines = s.lines /\ KeepsHidden(s.t, a.t) /\ a.t.line = s.t.line
  /\ ~shown => a.t.plain \/ a.t.hidden
  /\ shown \/ s.t.plain \/ s.t.hidden => a = s

\* The start of a scrape: nothing but the cursor changes.
LEMMA HideUnlessHolds ==
  ASSUME NEW width \in Nat, width >= 1, NEW s \in Scrapers(width), NEW shown \in BOOLEAN
  PROVE  /\ HideUnless(s, shown) \in Scrapers(width) /\ Begins(s, HideUnless(s, shown), shown)
         /\ \A r0 \in RemoteType(width) : \A resized : \A hidden \in BOOLEAN :
              ~s.t.plain /\ Told(s.t, r0, resized, hidden)
                => Told(HideUnless(s, shown).t, r0, resized, hidden)
                   /\ SamePlace(s, HideUnless(s, shown), Now(r0, s.t), Now(r0, HideUnless(s, shown).t))
<1> DEFINE a == HideUnless(s, shown)
           h == hideTerminalCursor(s.t)
<1>0. NewRemote(width, 1) \in RemoteType(width)
  BY ConstantsFit, NewRemoteType
<1>1. s.t \in TermType(width) /\ TermOK(s.t) /\ s.t.plain \in BOOLEAN
  BY ScraperFields
<1>2. HidCursor(s.t, h, NewRemote(width, 1), width) /\ KeepsHidden(s.t, h)
  BY <1>0, <1>1, HideHolds, HideKeepsHidden
<1>3. h \in Terms(width) /\ h.line = s.t.line /\ h.plain = s.t.plain /\ h.outputColor = s.t.outputColor
      /\ (h.plain \/ h.hidden)
  BY <1>1, <1>2 DEF HidCursor, Terms, SameTerm
<1>4. (s.t.plain \/ s.t.hidden) => h = s.t
  BY DEF hideTerminalCursor
<1> HIDE DEF h
<1>5. CASE shown
  <2>1. a = s
    BY <1>5 DEF HideUnless
  <2>2. Begins(s, s, shown)
    BY <1>5 DEF Begins, SameFields, KeepsHidden
  <2> HIDE DEF a
  <2> QED BY <2>1, <2>2 DEF SamePlace, a
<1>6. CASE ~shown
  <2>1. a = [s EXCEPT !.t = h]
    BY <1>6 DEF HideUnless, h
  <2> HIDE DEF a
  <2>2. /\ a \in Scrapers(width) /\ a.t = h /\ a.lines = s.lines
        /\ a.direct = s.direct /\ a.scraped = s.scraped /\ a.maxBuffered = s.maxBuffered
        /\ a.dirtyTop = s.dirtyTop /\ a.dirtyLines = s.dirtyLines
    BY <2>1, <1>3 DEF Scrapers
  <2>3. h = s.t => a = s
    BY <2>1 DEF Scrapers
  <2>4. Begins(s, a, shown)
    BY <2>2, <2>3, <1>2, <1>3, <1>4, <1>6 DEF Begins, SameFields
  <2>5. ASSUME NEW r0 \in RemoteType(width), NEW resized, NEW hidden \in BOOLEAN, ~s.t.plain,
               Told(s.t, r0, resized, hidden)
        PROVE  Told(a.t, r0, resized, hidden) /\ SamePlace(s, a, Now(r0, s.t), Now(r0, a.t))
    BY <2>5, <1>1, HideTold, <2>2, <1>3 DEF h, SameScreen, SamePlace
  <2> QED BY <2>2, <2>4, <2>5 DEF a
<1> QED BY <1>5, <1>6

Ends(x, u, c, shown) ==
  /\ SameFields(x, u) /\ u.lines = x.lines
  /\ ~shown => u = x
  /\ shown => u.t.line = c.cur.row /\ (~u.t.plain => u.t.column = c.cur.col /\ ~u.t.hidden)

\* The end of a scrape: the cursor goes where the console's is, and no row changes.
LEMMA ShowIfHolds ==
  ASSUME NEW width \in Nat, width >= 1, width <= MaxWidth, NEW x \in Scrapers(width), NEW shown \in BOOLEAN, NEW c,
         c.cur.row \in Nat, c.cur.col \in Nat, shown => c.cur.col < width
  PROVE  /\ ShowIf(x, c, shown) \in Scrapers(width) /\ Ends(x, ShowIf(x, c, shown), c, shown)
         /\ \A r0 \in RemoteType(width) : \A resized : \A hidden \in BOOLEAN :
              /\ ~x.t.plain /\ Told(x.t, r0, resized, hidden)
              /\ shown => c.cur.row + (Now(r0, x.t).row - x.t.line) \in 1..Height
              => Told(ShowIf(x, c, shown).t, r0, resized, hidden)
                 /\ SamePlace(x, ShowIf(x, c, shown), Now(r0, x.t), Now(r0, ShowIf(x, c, shown).t))
<1> DEFINE u == ShowIf(x, c, shown)
           v == showTerminalCursor(x.t, c.cur.col, c.cur.row)
           row == c.cur.row
           col == c.cur.col
<1>0. NewRemote(width, 1) \in RemoteType(width)
  BY ConstantsFit, NewRemoteType
<1>1. x.t \in TermType(width) /\ TermOK(x.t) /\ x.t.plain \in BOOLEAN /\ x.t.line \in Nat /\ Height \in Nat
  BY ScraperFields, ConstantsFit
<1>2. CASE ~shown
  <2>1. u = x
    BY <1>2 DEF ShowIf
  <2>2. Ends(x, x, c, shown)
    BY <1>2 DEF Ends, SameFields
  <2> HIDE DEF u
  <2> QED BY <2>1, <2>2 DEF SamePlace, u
<1>3. CASE shown
  <2>1. u = [x EXCEPT !.t = v]
    BY <1>3 DEF ShowIf
  <2>2. row \in Nat /\ col \in Nat /\ col < width
    BY <1>3
  <2> HIDE DEF u, row, col
  <2>3. /\ v \in TermType(width) /\ TermOK(v) /\ v.line = row
        /\ v.plain = x.t.plain /\ v.outputColor = x.t.outputColor
        /\ ~x.t.plain => v.column = col /\ ~v.hidden
    <3>1. ASSUME NEW L \in Nat, NEW C \in Nat, C < width
          PROVE  LET w == showTerminalCursor(x.t, C, L)
                 IN /\ w \in TermType(width) /\ TermOK(w) /\ w.line = L
                    /\ w.plain = x.t.plain /\ w.outputColor = x.t.outputColor
                    /\ ~x.t.plain => w.column = C /\ ~w.hidden
      BY <3>1, <1>0, <1>1, ShowHolds
    <3>2. v = showTerminalCursor(x.t, col, row)
      BY DEF row, col
    <3> HIDE DEF v
    <3> QED BY <3>1, <3>2, <2>2
  <2>4. ASSUME NEW r0 \in RemoteType(width), NEW resized, NEW hidden \in BOOLEAN, ~x.t.plain,
               Told(x.t, r0, resized, hidden), Now(r0, x.t).row + (row - x.t.line) >= 1
        PROVE  Told(v, r0, resized, hidden) /\ Moved(Now(r0, x.t), Now(r0, v), row - x.t.line)
    <3>1. ASSUME NEW L \in Nat, NEW C \in Nat, C < width, Now(r0, x.t).row + (L - x.t.line) >= 1
          PROVE  LET w == showTerminalCursor(x.t, C, L)
                 IN Told(w, r0, resized, hidden) /\ Moved(Now(r0, x.t), Now(r0, w), L - x.t.line)
      BY <3>1, <2>4, <1>1, ShowHolds
    <3>2. v = showTerminalCursor(x.t, col, row)
      BY DEF row, col
    <3> HIDE DEF v
    <3> QED BY <3>1, <3>2, <2>2, <2>4
  <2> HIDE DEF v
  <2>5. /\ u \in Scrapers(width) /\ u.t = v /\ u.lines = x.lines
        /\ u.direct = x.direct /\ u.scraped = x.scraped /\ u.maxBuffered = x.maxBuffered
        /\ u.dirtyTop = x.dirtyTop /\ u.dirtyLines = x.dirtyLines
    BY <2>3, <2>1 DEF Terms, Scrapers
  <2>6. Ends(x, u, c, shown)
    BY <2>3, <2>5, <1>3 DEF Ends, SameFields, row, col
  <2>7. ASSUME NEW r0 \in RemoteType(width), NEW resized, NEW hidden \in BOOLEAN, ~x.t.plain,
               Told(x.t, r0, resized, hidden), row + (Now(r0, x.t).row - x.t.line) \in 1..Height
        PROVE  Told(u.t, r0, resized, hidden) /\ SamePlace(x, u, Now(r0, x.t), Now(r0, u.t))
    <3> DEFINE r == Now(r0, x.t)
               q == Now(r0, v)
               from == x.t.line
    <3>1. r.row \in Nat /\ from \in Nat
      BY <1>1, NowType, RemoteFields
    <3>2. row + (r.row - from) \in 1..Height
      BY <2>7
    <3> HIDE DEF r, from
    <3>3. r.row + (row - from) >= 1 /\ r.row + (row - from) <= Height
      BY <3>1, <3>2, <2>2, <1>1
    <3>4. Told(v, r0, resized, hidden) /\ Moved(r, q, row - from)
      BY <3>3, <2>4, <2>7 DEF r, from
    <3> HIDE DEF q
    <3>5. Up(r.row + (row - from)) = 0
      <4> DEFINE d == r.row + (row - from)
      <4>1. d \in Int /\ ~(d > Height)
        BY <3>1, <3>3, <2>2, <1>1
      <4> HIDE DEF d
      <4>2. Up(d) = 0
        BY <4>1 DEF Up
      <4> QED BY <4>2 DEF d
    <3>6. q.row = r.row + ((row - from) - 0) /\ \A k \in 1..Height : q.rows[k] = FedRow(r, k, 0)
      BY <3>4, <3>5 DEF Moved
    <3>7. \A k \in 1..Height : q.rows[k] = r.rows[k]
      BY <3>6, <1>1 DEF FedRow
    <3>8. q.row - row = r.row - from
      BY <3>1, <3>6, <2>2
    <3>9. u.t.line = row /\ u.t = v
      BY <2>3, <2>5
    <3> QED BY <3>4, <3>7, <3>8, <3>9 DEF SamePlace, q, r, from
  <2> QED BY <2>5, <2>6, <2>7, <1>3 DEF u, row
<1> QED BY <1>2, <1>3

\* What a direct terminal shows depends on its rows and its place only.
LEMMA DirectSame ==
  ASSUME NEW width \in Nat, NEW n \in Nat, NEW resized, NEW x, NEW u, NEW r, NEW q,
         DirectShows(x, r, width, resized, n), u.lines = x.lines, u.t.outputColor = x.t.outputColor,
         SamePlace(x, u, r, q), r.row \in Nat, q.row \in Nat, x.t.line \in Nat, u.t.line \in Nat, u.t.line < Height
  PROVE  DirectShows(u, q, width, resized, n)
BY ConstantsFit DEF DirectShows, SamePlace

DirectEnds(s, u, c, n) ==
  /\ SameFields(s, u) /\ \A j \in 0..(Height - 1) : Remembers(u.lines[j], DirectCells(c, j, n))
  /\ IF CursorSeen(c, n) THEN u.t.line = c.cur.row /\ (~u.t.plain => u.t.column = c.cur.col /\ ~u.t.hidden)
     ELSE u.t.plain \/ u.t.hidden

\* directScrapeOutput: the lines are remembered, and on the terminal.
LEMMA DirectHolds ==
  ASSUME NEW width \in Nat, width >= 1, width <= MaxWidth, NEW s \in Scrapers(width), NEW n \in 1..width, NEW c,
         Scrapable(c, n), c.visible \in BOOLEAN, c.cur.row \in Nat, c.cur.col \in Nat, c.top = 0
  PROVE  /\ DirectScrape(s, c, n) \in Scrapers(width) /\ DirectEnds(s, DirectScrape(s, c, n), c, n)
         /\ \A r0 \in RemoteType(width) : \A resized : \A hidden \in BOOLEAN :
              ~s.t.plain /\ Told(s.t, r0, resized, hidden) /\ DirectShows(s, Now(r0, s.t), width, resized, n)
              /\ Fits(s, n, width)
              => Told(DirectScrape(s, c, n).t, r0, resized, hidden)
                 /\ DirectShows(DirectScrape(s, c, n), Now(r0, DirectScrape(s, c, n).t), width, resized, n)
<1> DEFINE shown == CursorSeen(c, n)
           a == HideUnless(s, shown)
           u == DirectScrape(s, c, n)
<1>1. shown \in BOOLEAN /\ Height \in Nat /\ Height >= 1
  BY ConstantsFit DEF CursorSeen
<1>2. shown => c.cur.row < Height /\ c.cur.col < n
  <2> SUFFICES ASSUME shown PROVE c.cur.row < Height /\ c.cur.col < n
    OBVIOUS
  <2>1. c.cur.row \in 0..(0 + Height - 1) /\ c.cur.col < n
    BY DEF CursorSeen
  <2> QED BY <2>1, <1>1
<1> HIDE DEF shown
<1>3. PICK x \in Scrapers(width) :
        /\ u = ShowIf(x, c, shown) /\ DirectDone(a, x, Height, c, n)
        /\ \A r0 \in RemoteType(width) : \A resized : \A hidden \in BOOLEAN :
             ~a.t.plain /\ Told(a.t, r0, resized, hidden) /\ DirectShows(a, Now(r0, a.t), width, resized, n)
             /\ Fits(a, n, width)
             => Told(x.t, r0, resized, hidden) /\ DirectShows(x, Now(r0, x.t), width, resized, n)
  BY DirectFold DEF shown
<1> HIDE DEF u
<1>4. a \in Scrapers(width) /\ Begins(s, a, shown)
  BY <1>1, HideUnlessHolds
<1>5. c.cur.col < width \/ ~shown
  BY <1>2
<1>6. u \in Scrapers(width) /\ Ends(x, u, c, shown)
  BY <1>1, <1>3, <1>5, ShowIfHolds
<1>7. SameFields(s, u)
  BY <1>3, <1>4, <1>6 DEF Begins, Ends, DirectDone, SameFields
<1>8. \A j \in 0..(Height - 1) : Remembers(u.lines[j], DirectCells(c, j, n))
  BY <1>1, <1>3, <1>6 DEF DirectDone, Ends
<1>9. IF shown THEN u.t.line = c.cur.row /\ (~u.t.plain => u.t.column = c.cur.col /\ ~u.t.hidden)
      ELSE u.t.plain \/ u.t.hidden
  BY <1>6, <1>3, <1>4 DEF Ends, Begins, DirectDone, KeepsHidden
<1>10. DirectEnds(s, u, c, n)
  BY <1>7, <1>8, <1>9 DEF DirectEnds, shown
<1>11. ASSUME NEW r0 \in RemoteType(width), NEW resized, NEW hidden \in BOOLEAN, ~s.t.plain,
              Told(s.t, r0, resized, hidden), DirectShows(s, Now(r0, s.t), width, resized, n), Fits(s, n, width)
       PROVE  Told(u.t, r0, resized, hidden) /\ DirectShows(u, Now(r0, u.t), width, resized, n)
  <2>0. ASSUME NEW y \in Scrapers(width)
        PROVE  y.t.line \in Nat /\ Now(r0, y.t).row \in Nat
    BY ScraperFields, NowType, <1>1, RemoteFields
  <2>1. Told(a.t, r0, resized, hidden) /\ SamePlace(s, a, Now(r0, s.t), Now(r0, a.t))
    BY <1>1, <1>11, HideUnlessHolds
  <2>2. a.lines = s.lines /\ a.t.line = s.t.line /\ ~a.t.plain /\ a.t.outputColor = s.t.outputColor
    BY <1>4, <1>11 DEF Begins, SameFields
  <2>3. s.t.line < Height
    BY <1>11 DEF DirectShows
  <2>4. DirectShows(a, Now(r0, a.t), width, resized, n)
    <3>1. Now(r0, s.t).row \in Nat /\ Now(r0, a.t).row \in Nat /\ s.t.line \in Nat /\ a.t.line \in Nat
      BY <2>0, <1>4
    <3> HIDE DEF a
    <3> QED BY <3>1, <2>1, <2>2, <2>3, <1>11, DirectSame
  <2>5. Fits(a, n, width)
    BY <2>2, <1>11 DEF Fits
  <2>6. Told(x.t, r0, resized, hidden) /\ DirectShows(x, Now(r0, x.t), width, resized, n)
    BY <2>1, <2>2, <2>4, <2>5, <1>3
  <2>7. ~x.t.plain
    BY <2>2, <1>3 DEF DirectDone, SameFields
  <2>8. shown => c.cur.row + (Now(r0, x.t).row - x.t.line) \in 1..Height
    <3>1. Now(r0, x.t).row = x.t.line + 1 /\ x.t.line \in Nat
      BY <2>6, <2>0 DEF DirectShows
    <3>2. Now(r0, x.t).row - x.t.line = 1
      BY <3>1
    <3> HIDE DEF a
    <3> QED BY <3>2, <1>1, <1>2
  <2>9. Told(u.t, r0, resized, hidden) /\ SamePlace(x, u, Now(r0, x.t), Now(r0, u.t))
    BY <2>6, <2>7, <2>8, <1>1, <1>3, <1>5, ShowIfHolds
  <2>10. DirectShows(u, Now(r0, u.t), width, resized, n)
    <3>1. Now(r0, x.t).row \in Nat /\ Now(r0, u.t).row \in Nat /\ x.t.line \in Nat /\ u.t.line \in Nat
      BY <2>0, <1>6
    <3>2. u.lines = x.lines /\ u.t.outputColor = x.t.outputColor
      BY <1>6 DEF Ends, SameFields
    <3>3. u.t.line < Height
      BY <1>2, <1>6, <2>6 DEF Ends, DirectShows
    <3> QED BY <3>1, <3>2, <3>3, <2>6, <2>9, DirectSame
  <2> QED BY <2>9, <2>10
<1> QED BY <1>6, <1>10, <1>11 DEF u
-----------------------------------------------------------------------------
(* scanForDirtyLines.                                                      *)

ScanLine(c, acc, line) == IF BlankBelow(c, line) THEN acc ELSE line + 1

ScanTable(at, c, dirty, m) ==
  /\ at[0] = dirty /\ at[m] = ScanForDirtyLines(c, dirty)
  /\ \A k \in 1..m : at[k] = ScanLine(c, at[k - 1], dirty + k - 1)

\* The scan for dirty lines goes through the window one by one.
LEMMA ScanTableExists ==
  ASSUME NEW c, c.top \in Nat, NEW dirty \in Nat, NEW m \in Nat, m = c.top + Height - dirty
  PROVE  \E at \in [0..m -> Nat] : ScanTable(at, c, dirty, m)
<1> DEFINE seq == [i \in 1..(c.top + Height - dirty) |-> dirty + i - 1]
           A == Nat
           a == dirty
           step == [k \in 1..m |-> [x \in A |-> ScanLine(c, x, seq[k])]]
           Eq(it) == it = [t \in SUBSET (DOMAIN seq) |-> IF t = {} THEN a ELSE ScanLine(c, it[t \ {Max(t)}], seq[Max(t)])]
           it == CHOOSE iter : Eq(iter)
<1>7. ScanForDirtyLines(c, dirty) = it[DOMAIN seq]
  BY DEF ScanForDirtyLines, FoldLeft, MapThenFoldSet, ScanLine, BlankBelow
<1>1. DOMAIN seq = 1..m /\ \A k \in 1..m : seq[k] = dirty + k - 1 /\ seq[k] \in Nat
  OBVIOUS
<1> HIDE DEF seq
<1>a. a \in A
  OBVIOUS
<1>2. step \in [1..m -> [A -> A]]
  <2>1. ASSUME NEW k \in 1..m, NEW x \in A PROVE ScanLine(c, x, seq[k]) \in A
    BY <1>1 DEF ScanLine
  <2> HIDE DEF A
  <2> QED BY <2>1
<1>3. PICK f \in [SUBSET (1..m) -> A] : Table(f, m, a, step)
  <2> HIDE DEF A, step, a
  <2> QED BY <1>2, <1>a, TableExists
<1>4. Eq(f)
  <2>1. ASSUME NEW t \in SUBSET (1..m), t # {}
        PROVE  step[Max(t)][f[t \ {Max(t)}]] = ScanLine(c, f[t \ {Max(t)}], seq[Max(t)])
    <3>1. Max(t) \in 1..m
      BY <2>1, MaxIn
    <3>2. f[t \ {Max(t)}] \in A
      OBVIOUS
    <3> HIDE DEF A
    <3> QED BY <3>1, <3>2
  <2>2. f = [t \in SUBSET (1..m) |-> IF t = {} THEN a ELSE step[Max(t)][f[t \ {Max(t)}]]]
    BY <1>3 DEF Table
  <2> HIDE DEF step, a
  <2>3. f = [t \in SUBSET (1..m) |-> IF t = {} THEN a ELSE ScanLine(c, f[t \ {Max(t)}], seq[Max(t)])]
    BY <2>1, <2>2, Zenon
  <2> QED BY <2>3, <1>1
<1>5. Eq(it)
  BY <1>4
<1>8. TableOn(it, m, a, step, A)
  <2>1. \A t \in SUBSET (1..m) : it[t] = IF t = {} THEN a ELSE ScanLine(c, it[t \ {Max(t)}], seq[Max(t)])
    <3> HIDE DEF it, a
    <3> QED BY <1>5, <1>1
  <2> SUFFICES ASSUME NEW t \in SUBSET (1..m), t # {}, it[t \ {Max(t)}] \in A
               PROVE  it[t] = step[Max(t)][it[t \ {Max(t)}]]
    <3> HIDE DEF it, A, step, a
    <3> QED BY <2>1 DEF TableOn
  <2>2. Max(t) \in 1..m
    BY MaxIn
  <2>3. step[Max(t)][it[t \ {Max(t)}]] = ScanLine(c, it[t \ {Max(t)}], seq[Max(t)])
    <3> HIDE DEF A, it
    <3> QED BY <2>2
  <2> HIDE DEF A, it, step, a
  <2> QED BY <2>3, <2>1
<1> HIDE DEF it
<1>9. PICK at \in [0..m -> A] : Steps(at, m, a, step) /\ at[m] = it[1..m]
  <2> HIDE DEF A, step, a
  <2>2. step \in [1..m -> [A -> A]]
    BY <1>2
  <2>3. a \in A
    BY <1>a
  <2>4. TableOn(it, m, a, step, A)
    BY <1>8
  <2> QED BY <2>2, <2>3, <2>4, FoldSteps
<1>10. ASSUME NEW k \in 1..m PROVE at[k] = ScanLine(c, at[k - 1], dirty + k - 1)
  <2>1. at[k] = step[k][at[k - 1]] /\ at[k - 1] \in A
    <3>1. k - 1 \in 0..m
      OBVIOUS
    <3> HIDE DEF A, step, a
    <3> QED BY <3>1, <1>9 DEF Steps
  <2>2. step[k][at[k - 1]] = ScanLine(c, at[k - 1], seq[k])
    BY <2>1
  <2>3. seq[k] = dirty + k - 1
    BY <1>1
  <2> HIDE DEF step
  <2> QED BY <2>1, <2>2, <2>3
<1>11. at[0] = a /\ at[m] = ScanForDirtyLines(c, dirty)
  <2> HIDE DEF A, step, a
  <2> QED BY <1>1, <1>7, <1>9 DEF Steps
<1>12. ScanTable(at, c, dirty, m)
  BY <1>10, <1>11 DEF ScanTable
<1> QED BY <1>12

\* The lines of the window that are not dirty are blank.
LEMMA ScanHolds ==
  ASSUME NEW c, c.top \in Nat, NEW dirty \in Nat, dirty <= c.top + Height
  PROVE  /\ ScanForDirtyLines(c, dirty) \in dirty..(c.top + Height)
         /\ \A line \in dirty..(c.top + Height - 1) : line >= ScanForDirtyLines(c, dirty) => BlankBelow(c, line)
         /\ (\A line \in dirty..(c.top + Height - 1) : BlankBelow(c, line)) => ScanForDirtyLines(c, dirty) = dirty
<1> DEFINE m == c.top + Height - dirty
           top == c.top
           D == ScanForDirtyLines(c, dirty)
<1>0. Height \in Nat /\ top \in Nat /\ m \in Nat /\ dirty + m = top + Height
  BY ConstantsFit
<1>1. PICK at \in [0..m -> Nat] : ScanTable(at, c, dirty, m)
  BY <1>0, ScanTableExists
<1> HIDE DEF m, D, top
<1>2. at[0] = dirty /\ at[m] = D /\ \A k \in 1..m : at[k] = ScanLine(c, at[k - 1], dirty + k - 1)
  BY <1>1 DEF ScanTable, D
<1> DEFINE P(k) == /\ at[k] \in dirty..(dirty + k)
                   /\ \A line \in dirty..(dirty + k - 1) : line >= at[k] => BlankBelow(c, line)
                   /\ (\A line \in dirty..(dirty + k - 1) : BlankBelow(c, line)) => at[k] = dirty
           T == {k \in 0..m : P(k)}
<1>3. 0 \in T
  BY <1>2, <1>0
<1>4. ASSUME NEW k \in 0..(m - 1), k \in T PROVE k + 1 \in T
  <2>1. P(k) /\ k \in Nat /\ k + 1 \in 0..m /\ k + 1 \in 1..m /\ (k + 1) - 1 = k
    BY <1>0, <1>4
  <2> DEFINE line == dirty + k
             x == at[k]
             y == at[k + 1]
  <2>2. line \in Nat /\ dirty + (k + 1) - 1 = line
    BY <2>1
  <2>3. y = ScanLine(c, x, line)
    BY <2>1, <1>2, <2>2
  <2>4. /\ x \in dirty..line
        /\ \A l \in dirty..(line - 1) : l >= x => BlankBelow(c, l)
        /\ (\A l \in dirty..(line - 1) : BlankBelow(c, l)) => x = dirty
    BY <2>1
  <2> HIDE DEF line, x, y, P, T
  <2>5. /\ y \in dirty..(line + 1)
        /\ \A l \in dirty..line : l >= y => BlankBelow(c, l)
        /\ (\A l \in dirty..line : BlankBelow(c, l)) => y = dirty
    <3>1. CASE BlankBelow(c, line)
      <4>1. y = x
        BY <3>1, <2>3 DEF ScanLine
      <4>2. ASSUME NEW l \in dirty..line, l >= y PROVE BlankBelow(c, l)
        BY <2>2, <4>1, <4>2, <3>1, <2>4
      <4>3. ASSUME \A l \in dirty..line : BlankBelow(c, l) PROVE y = dirty
        BY <2>2, <4>1, <4>3, <2>4
      <4> QED BY <4>1, <4>2, <4>3, <2>2, <2>4
    <3>2. CASE ~BlankBelow(c, line)
      BY <3>2, <2>3, <2>2, <2>4 DEF ScanLine
    <3> QED BY <3>1, <3>2
  <2>6. P(k + 1)
    BY <2>1, <2>2, <2>5 DEF line, P, y
  <2> QED BY <2>1, <2>6 DEF T
<1>5. \A k \in 0..m : k \in T
  <2>1. T \in SUBSET Nat
    OBVIOUS
  <2> HIDE DEF T
  <2> QED BY <2>1, <1>0, <1>3, <1>4, Counting
<1>6. P(m)
  BY <1>5, <1>0
<1>7. dirty + m = top + Height /\ dirty + m - 1 = top + Height - 1
  BY <1>0
<1> QED BY <1>2, <1>6, <1>7 DEF D, top
-----------------------------------------------------------------------------
(* scrollingScrapeOutput: the fold over the lines.                         *)

InWindow(c) == c.visible /\ c.cur.row \in c.top..(c.top + Height - 1)

ScrollLine(c, shown, acc, line) ==
  LET saw == acc.saw \/ line > acc.s.maxBuffered \/ Detected(acc.s, line, c.rows[line])
  IN [saw |-> saw, s |-> ScrollRow(acc.s, line, c.rows[line], CursorOn(c, line, shown), saw)]

\* The lines from first on, m of them.
SentLines(c, s, shown, first, m) ==
  FoldLeft(LAMBDA acc, line : ScrollLine(c, shown, acc, line), [saw |-> FALSE, s |-> HideUnless(s, shown)],
           [i \in 1..m |-> first + i - 1]).s

ScrollTable(at, c, s, shown, first, m) ==
  /\ at[0] = [saw |-> FALSE, s |-> HideUnless(s, shown)]
  /\ \A k \in 1..m : at[k] = ScrollLine(c, shown, at[k - 1], first + k - 1)
  /\ SentLines(c, s, shown, first, m) = at[m].s

Sweeps(width) == [saw : BOOLEAN, s : Scrapers(width)]

\* One line of the scrape.
Swept(acc, new, c, line, width) ==
  /\ new \in Sweeps(width) /\ KeepsHidden(acc.s.t, new.s.t)
  /\ new.s.direct = acc.s.direct /\ new.s.scraped = acc.s.scraped
  /\ new.s.dirtyTop = acc.s.dirtyTop /\ new.s.dirtyLines = acc.s.dirtyLines
  /\ new.s.maxBuffered = Max2(acc.s.maxBuffered, line)
  /\ new.s.lines[line] = SetLine(acc.s.lines[line], c.rows[line])
  /\ \A l \in Rows : l # line => new.s.lines[l] = acc.s.lines[l]
  /\ new.saw \/ (~acc.saw /\ line <= acc.s.maxBuffered /\ LinesEqual(acc.s.lines[line], c.rows[line]) /\ new.s.t = acc.s.t)
  /\ new.saw => acc.saw \/ ~(line <= acc.s.maxBuffered /\ LinesEqual(acc.s.lines[line], c.rows[line]))

\* One line of a scrolling scrape is remembered, and sent if it must be.
LEMMA ScrollLineHolds ==
  ASSUME NEW width \in Nat, width >= 1, width <= MaxWidth, NEW c, HasRows(c, width), NEW shown,
         NEW acc \in Sweeps(width), NEW line \in Rows
  PROVE  Swept(acc, ScrollLine(c, shown, acc, line), c, line, width)
<1> DEFINE cells == c.rows[line]
           saw == acc.saw \/ line > acc.s.maxBuffered \/ Detected(acc.s, line, cells)
           cc == CursorOn(c, line, shown)
           x == acc.s
           z == SendRow(x, line, cells, cc, saw)
           y == ScrollRow(x, line, cells, cc, saw)
<1>1. x \in Scrapers(width) /\ acc.saw \in BOOLEAN
  BY DEF Sweeps
<1>2. cells \in Seq(Cell) /\ Paired(cells) /\ Len(cells) >= 1 /\ Len(cells) <= width
  BY DEF HasRows
<1>3. x.t \in TermType(width) /\ TermOK(x.t) /\ x.maxBuffered \in Int /\ line \in Nat
  BY <1>1, ScraperFields, RowsAreLines
<1>4. ScrollLine(c, shown, acc, line) = [saw |-> saw, s |-> y]
  BY DEF ScrollLine
<1>5. saw \in BOOLEAN
  BY <1>1 DEF Detected
<1>6. /\ saw \/ (~acc.saw /\ line <= x.maxBuffered /\ LinesEqual(x.lines[line], cells))
      /\ saw => acc.saw \/ ~(line <= x.maxBuffered /\ LinesEqual(x.lines[line], cells))
  BY <1>3 DEF Detected
<1> HIDE DEF cells, saw, cc, x
<1>7. RowSent(x, z, line, cells, width) /\ z.t = IF saw THEN sendLine(x.t, line, cells, cc) ELSE x.t
  BY <1>1, <1>2, <1>5, SendRowHolds
<1>8. KeepsHidden(x.t, z.t)
  BY <1>2, <1>3, SendKeepsHidden, <1>7 DEF KeepsHidden
<1>9. y = [z EXCEPT !.maxBuffered = Max2(@, line)]
  BY DEF ScrollRow
<1> HIDE DEF z, y
<1>10. /\ y \in Scrapers(width) /\ y.t = z.t /\ y.lines = z.lines
       /\ y.direct = z.direct /\ y.scraped = z.scraped /\ y.dirtyTop = z.dirtyTop /\ y.dirtyLines = z.dirtyLines
       /\ y.maxBuffered = Max2(x.maxBuffered, line)
  BY <1>7, <1>3, <1>9 DEF RowSent, Max2, Scrapers
<1>11. saw \/ y.t = x.t
  BY <1>7, <1>10
<1> DEFINE new == [saw |-> saw, s |-> y]
<1>12. new \in Sweeps(width) /\ new.saw = saw /\ new.s = y
  BY <1>5, <1>10 DEF Sweeps
<1> HIDE DEF new
<1>13. Swept(acc, new, c, line, width)
  BY <1>6, <1>7, <1>8, <1>10, <1>11, <1>12 DEF Swept, RowSent, x, cells
<1> QED BY <1>4, <1>13 DEF new

\* The scrolling scrape goes through its lines one by one.
LEMMA ScrollTableExists ==
  ASSUME NEW width \in Nat, width >= 1, width <= MaxWidth, NEW c, HasRows(c, width), NEW s \in Scrapers(width),
         NEW shown, NEW first \in Nat, NEW m \in Nat, \A k \in 1..m : first + k - 1 \in Rows
  PROVE  \E at \in [0..m -> Sweeps(width)] : ScrollTable(at, c, s, shown, first, m)
<1> DEFINE seq == [i \in 1..m |-> first + i - 1]
           A == Sweeps(width)
           a == [saw |-> FALSE, s |-> HideUnless(s, shown)]
           step == [k \in 1..m |-> [x \in A |-> ScrollLine(c, shown, x, seq[k])]]
           Eq(it) == it = [t \in SUBSET (DOMAIN seq) |-> IF t = {} THEN a ELSE ScrollLine(c, shown, it[t \ {Max(t)}], seq[Max(t)])]
           it == CHOOSE iter : Eq(iter)
<1>7. SentLines(c, s, shown, first, m) = it[DOMAIN seq].s
  BY DEF SentLines, FoldLeft, MapThenFoldSet
<1>1. DOMAIN seq = 1..m /\ \A k \in 1..m : seq[k] = first + k - 1 /\ seq[k] \in Rows
  OBVIOUS
<1> HIDE DEF seq
<1>a. a \in A
  BY HideUnlessType DEF Sweeps
<1>2. step \in [1..m -> [A -> A]]
  <2>1. ASSUME NEW k \in 1..m, NEW x \in A PROVE ScrollLine(c, shown, x, seq[k]) \in A
    <3> DEFINE line == seq[k]
               new == ScrollLine(c, shown, x, line)
    <3>1. line \in Rows
      BY <1>1
    <3> HIDE DEF line
    <3>2. Swept(x, new, c, line, width)
      BY <3>1, ScrollLineHolds
    <3>3. new \in Sweeps(width)
      <4> HIDE DEF new
      <4> QED BY <3>2 DEF Swept
    <3> QED BY <3>3 DEF line
  <2> HIDE DEF A
  <2> QED BY <2>1
<1>3. PICK f \in [SUBSET (1..m) -> A] : Table(f, m, a, step)
  <2> HIDE DEF A, step, a
  <2> QED BY <1>2, <1>a, TableExists
<1>4. Eq(f)
  <2>1. ASSUME NEW t \in SUBSET (1..m), t # {}
        PROVE  step[Max(t)][f[t \ {Max(t)}]] = ScrollLine(c, shown, f[t \ {Max(t)}], seq[Max(t)])
    <3>1. Max(t) \in 1..m
      BY <2>1, MaxIn
    <3>2. f[t \ {Max(t)}] \in A
      OBVIOUS
    <3> HIDE DEF A
    <3> QED BY <3>1, <3>2
  <2>2. f = [t \in SUBSET (1..m) |-> IF t = {} THEN a ELSE step[Max(t)][f[t \ {Max(t)}]]]
    BY <1>3 DEF Table
  <2> HIDE DEF step, a
  <2>3. f = [t \in SUBSET (1..m) |-> IF t = {} THEN a ELSE ScrollLine(c, shown, f[t \ {Max(t)}], seq[Max(t)])]
    BY <2>1, <2>2, Zenon
  <2> QED BY <2>3, <1>1
<1>5. Eq(it)
  BY <1>4
<1>8. TableOn(it, m, a, step, A)
  <2>1. \A t \in SUBSET (1..m) : it[t] = IF t = {} THEN a ELSE ScrollLine(c, shown, it[t \ {Max(t)}], seq[Max(t)])
    <3> HIDE DEF it, a
    <3> QED BY <1>5, <1>1
  <2> SUFFICES ASSUME NEW t \in SUBSET (1..m), t # {}, it[t \ {Max(t)}] \in A
               PROVE  it[t] = step[Max(t)][it[t \ {Max(t)}]]
    <3> HIDE DEF it, A, step, a
    <3> QED BY <2>1 DEF TableOn
  <2>2. Max(t) \in 1..m
    BY MaxIn
  <2>3. step[Max(t)][it[t \ {Max(t)}]] = ScrollLine(c, shown, it[t \ {Max(t)}], seq[Max(t)])
    <3> HIDE DEF A, it
    <3> QED BY <2>2
  <2> HIDE DEF A, it, step, a
  <2> QED BY <2>3, <2>1
<1> HIDE DEF it
<1>9. PICK at \in [0..m -> A] : Steps(at, m, a, step) /\ at[m] = it[1..m]
  <2> HIDE DEF A, step, a
  <2>2. step \in [1..m -> [A -> A]]
    BY <1>2
  <2>3. a \in A
    BY <1>a
  <2>4. TableOn(it, m, a, step, A)
    BY <1>8
  <2> QED BY <2>2, <2>3, <2>4, FoldSteps
<1>10. ASSUME NEW k \in 1..m PROVE at[k] = ScrollLine(c, shown, at[k - 1], first + k - 1)
  <2>1. at[k] = step[k][at[k - 1]] /\ at[k - 1] \in A
    <3>1. k - 1 \in 0..m
      OBVIOUS
    <3> HIDE DEF A, step, a
    <3> QED BY <3>1, <1>9 DEF Steps
  <2>2. step[k][at[k - 1]] = ScrollLine(c, shown, at[k - 1], seq[k])
    BY <2>1
  <2>3. seq[k] = first + k - 1
    BY <1>1
  <2> HIDE DEF step
  <2> QED BY <2>1, <2>2, <2>3
<1>11. at[0] = a /\ SentLines(c, s, shown, first, m) = at[m].s
  <2> HIDE DEF A, step, a
  <2> QED BY <1>1, <1>7, <1>9 DEF Steps
<1>12. ScrollTable(at, c, s, shown, first, m)
  BY <1>10, <1>11 DEF ScrollTable
<1> QED BY <1>12
\* The state of the scrape before a line: the line is the next on the terminal, and the window
\* has not been scrolled out of it.
Sweeping(x, r0, lo, line, top, resized, hidden, width) ==
  /\ Told(x.t, r0, resized, hidden) /\ ScrollShows(x, Now(r0, x.t), lo, resized, width)
  /\ NextLine(x, Now(r0, x.t), lo, line) /\ top + (Now(r0, x.t).row - x.t.line) >= 1

\* However far the terminal scrolls, the window stays on it.
LEMMA SweepScrolls ==
  ASSUME NEW o \in Int, NEW p \in Int, NEW line \in Nat, NEW top \in Nat, line < top + Height, top + o >= 1,
         line + p \in 1..Height, p = o \/ (p = o - 1 /\ line + p = Height)
  PROVE  top + p >= 1 /\ (line + 1) + p \in 1..(Height + 1)
BY ConstantsFit

\* A line of a scrolling scrape, sent or not, is on its row.
LEMMA ScrollOne ==
  ASSUME NEW width \in Nat, width >= 1, width <= MaxWidth, NEW x \in Scrapers(width), NEW r0 \in RemoteType(width),
         ~x.t.plain, NEW resized, NEW hidden \in BOOLEAN, Told(x.t, r0, resized, hidden),
         NEW lo \in Nat, NEW line \in Rows, NEW cells \in Seq(Cell), Paired(cells), Len(cells) = width,
         ScrollShows(x, Now(r0, x.t), lo, resized, width), NextLine(x, Now(r0, x.t), lo, line),
         NEW cursorColumn, NEW saw, saw = TRUE \/ (saw = FALSE /\ line <= x.maxBuffered /\ LinesEqual(x.lines[line], cells)),
         NEW y, y = ScrollRow(x, line, cells, cursorColumn, saw)
  PROVE  ScrolledTo(x, y, r0, lo, line, resized, hidden, width)
BY ScrollSent, ScrollSkipped

\* So the scrape can go on with the next line.
LEMMA SweepRow ==
  ASSUME NEW width \in Nat, width >= 1, width <= MaxWidth, NEW x \in Scrapers(width), NEW y \in Scrapers(width),
         NEW line \in Rows, NEW cells \in Seq(Cell), Paired(cells), Len(cells) = width, NEW cursorColumn,
         NEW saw, saw = TRUE \/ (saw = FALSE /\ line <= x.maxBuffered /\ LinesEqual(x.lines[line], cells)),
         y = ScrollRow(x, line, cells, cursorColumn, saw), y.maxBuffered = Max2(x.maxBuffered, line),
         NEW r0 \in RemoteType(width), ~x.t.plain, NEW resized, NEW hidden \in BOOLEAN,
         NEW lo \in Nat, NEW top \in Nat, line < top + Height,
         Sweeping(x, r0, lo, line, top, resized, hidden, width)
  PROVE  Sweeping(y, r0, lo, line + 1, top, resized, hidden, width)
<1>3. x \in Scrapers(width) /\ y \in Scrapers(width)
  OBVIOUS
<1>5. Told(x.t, r0, resized, hidden) /\ ScrollShows(x, Now(r0, x.t), lo, resized, width)
      /\ NextLine(x, Now(r0, x.t), lo, line) /\ top + (Now(r0, x.t).row - x.t.line) >= 1
  BY DEF Sweeping
<1>7. y.maxBuffered = Max2(x.maxBuffered, line)
  OBVIOUS
<1>9. ScrolledTo(x, y, r0, lo, line, resized, hidden, width)
  BY <1>5, ScrollOne
<1> DEFINE o == Now(r0, x.t).row - x.t.line
           p == Now(r0, y.t).row - y.t.line
<1>10. o \in Int /\ p \in Int
  <2>1. ASSUME NEW z \in Scrapers(width) PROVE Now(r0, z.t).row \in Int /\ z.t.line \in Int
    <3>1. z.t \in TermType(width) /\ z.t.line \in Nat
      BY ScraperFields
    <3>2. Now(r0, z.t) \in RemoteType(width)
      BY <3>1, NowType
    <3>3. Now(r0, z.t).row \in 1..Height
      BY <3>2, RemoteFields, ConstantsFit
    <3> QED BY <3>1, <3>3
  <2> QED BY <2>1, <1>3
<1>11. line + p \in 1..Height /\ (p = o \/ (p = o - 1 /\ line + p = Height))
  BY <1>9 DEF ScrolledBy, ScrolledTo
<1>12. top + o >= 1
  BY <1>5
<1> HIDE DEF o, p
<1>13. line \in Nat /\ x.maxBuffered \in Int
  BY <1>3, RowsAreLines, ScraperFields
<1>14. top + p >= 1 /\ (line + 1) + p \in 1..(Height + 1)
  BY <1>10, <1>11, <1>12, <1>13, SweepScrolls
<1>15. lo <= line + 1 /\ line + 1 <= y.maxBuffered + 1
  BY <1>5, <1>7, <1>13 DEF NextLine, Max2
<1>16. NextLine(y, Now(r0, y.t), lo, line + 1)
  BY <1>14, <1>15 DEF NextLine, p
<1> QED BY <1>9, <1>14, <1>16 DEF Sweeping, ScrolledTo, p

\* A line of the scrape as the fold has it.
LEMMA SweepStep ==
  ASSUME NEW width \in Nat, width >= 1, width <= MaxWidth, NEW c, HasRows(c, width), NEW shown,
         NEW acc \in Sweeps(width), NEW line \in Rows, NEW r0 \in RemoteType(width), ~acc.s.t.plain,
         NEW resized, NEW hidden \in BOOLEAN, NEW lo \in Nat, NEW top \in Nat, line < top + Height,
         Sweeping(acc.s, r0, lo, line, top, resized, hidden, width),
         NEW new, new = ScrollLine(c, shown, acc, line)
  PROVE  Sweeping(new.s, r0, lo, line + 1, top, resized, hidden, width)
<1> DEFINE x == acc.s
           y == new.s
           cells == c.rows[line]
           cc == CursorOn(c, line, shown)
<1>1. Swept(acc, new, c, line, width)
  BY ScrollLineHolds
<1>2. new.saw \in BOOLEAN /\ y = ScrollRow(x, line, cells, cc, new.saw)
  <2>1. \E saw \in BOOLEAN : new = [saw |-> saw, s |-> ScrollRow(x, line, cells, cc, saw)]
    <3>1. acc.saw \in BOOLEAN
      BY DEF Sweeps
    <3> DEFINE saw == acc.saw \/ line > acc.s.maxBuffered \/ Detected(acc.s, line, c.rows[line])
    <3>2. saw \in BOOLEAN
      BY <3>1 DEF Detected
    <3>3. new = [saw |-> saw, s |-> ScrollRow(x, line, cells, cc, saw)]
      BY DEF ScrollLine
    <3> HIDE DEF saw, x, cells, cc
    <3> QED BY <3>2, <3>3
  <2> HIDE DEF x, cells, cc
  <2> QED BY <2>1
<1>3. x \in Scrapers(width) /\ y \in Scrapers(width)
  BY <1>1 DEF Swept, Sweeps
<1>4. cells \in Seq(Cell) /\ Paired(cells) /\ Len(cells) = width
  BY DEF HasRows
<1>6. ~x.t.plain
  OBVIOUS
<1>7. y.maxBuffered = Max2(x.maxBuffered, line)
  BY <1>1 DEF Swept
<1>8. new.saw \/ (line <= x.maxBuffered /\ LinesEqual(x.lines[line], cells))
  BY <1>1 DEF Swept
<1> HIDE DEF x, y, cells, cc
<1>9. Sweeping(x, r0, lo, line, top, resized, hidden, width)
  BY DEF x
<1>10. ASSUME NEW saw \in BOOLEAN, y = ScrollRow(x, line, cells, cc, saw),
             saw = TRUE \/ (saw = FALSE /\ line <= x.maxBuffered /\ LinesEqual(x.lines[line], cells))
      PROVE  Sweeping(y, r0, lo, line + 1, top, resized, hidden, width)
  BY <1>3, <1>4, <1>6, <1>7, <1>9, <1>10, SweepRow, ZenonT(60)
<1> QED BY <1>2, <1>8, <1>10 DEF y

\* The lines from first on are remembered, k of them; and if they had been remembered nothing is sent.
SweepDone(a, x, c, first, k) ==
  /\ KeepsHidden(a.t, x.t) /\ x.direct = a.direct /\ x.scraped = a.scraped
  /\ x.dirtyTop = a.dirtyTop /\ x.dirtyLines = a.dirtyLines
  /\ x.maxBuffered = IF k = 0 THEN a.maxBuffered ELSE Max2(a.maxBuffered, first + k - 1)
  /\ \A l \in Rows : IF l \in first..(first + k - 1) THEN Remembers(x.lines[l], c.rows[l])
                     ELSE x.lines[l] = a.lines[l]

KnewAll(a, c, first, k) ==
  \A l \in first..(first + k - 1) : l <= a.maxBuffered /\ LinesEqual(a.lines[l], c.rows[l])

\* The lines up to this one are remembered; if they had been, nothing was sent.
LEMMA SweepDoneStep ==
  ASSUME NEW width \in Nat, NEW c, HasRows(c, width), width <= MaxWidth, NEW a \in Scrapers(width), NEW acc \in Sweeps(width),
         NEW new, NEW first \in Nat, NEW k \in Nat, NEW line \in Rows, line = first + k,
         Swept(acc, new, c, line, width), SweepDone(a, acc.s, c, first, k),
         KnewAll(a, c, first, k) => ~acc.saw /\ acc.s.t = a.t
  PROVE  /\ SweepDone(a, new.s, c, first, k + 1)
         /\ KnewAll(a, c, first, k + 1) => ~new.saw /\ new.s.t = a.t
<1> DEFINE x == acc.s
           y == new.s
           cells == c.rows[line]
<1>1. /\ KeepsHidden(a.t, x.t) /\ x.direct = a.direct /\ x.scraped = a.scraped
      /\ x.dirtyTop = a.dirtyTop /\ x.dirtyLines = a.dirtyLines
      /\ x.maxBuffered = IF k = 0 THEN a.maxBuffered ELSE Max2(a.maxBuffered, first + k - 1)
      /\ \A l \in Rows : IF l \in first..(first + k - 1) THEN Remembers(x.lines[l], c.rows[l])
                         ELSE x.lines[l] = a.lines[l]
  BY DEF SweepDone
<1>2. /\ KeepsHidden(x.t, y.t) /\ y.direct = x.direct /\ y.scraped = x.scraped
      /\ y.dirtyTop = x.dirtyTop /\ y.dirtyLines = x.dirtyLines
      /\ y.maxBuffered = Max2(x.maxBuffered, line) /\ y.lines[line] = SetLine(x.lines[line], cells)
      /\ \A l \in Rows : l # line => y.lines[l] = x.lines[l]
  BY DEF Swept
<1>3. new.saw => acc.saw \/ ~(line <= x.maxBuffered /\ LinesEqual(x.lines[line], cells))
  BY DEF Swept
<1>4. ~new.saw => y.t = x.t
  BY DEF Swept
<1>5. KnewAll(a, c, first, k) => ~acc.saw /\ x.t = a.t
  OBVIOUS
<1>6. x \in Scrapers(width)
  BY DEF Sweeps
<1>7. a.maxBuffered \in Int /\ x.maxBuffered \in Int /\ x.lines \in [Rows -> LineRecords] /\ a.lines \in [Rows -> LineRecords]
  BY <1>6, ScraperFields
<1>8. Rows \subseteq Nat
  BY RowsAreLines
<1>9. cells \in Seq(Cell) /\ Len(cells) = width
  BY DEF HasRows
<1> HIDE DEF x, y, cells
<1>10. first + (k + 1) - 1 = line /\ k + 1 # 0 /\ line \in Nat /\ first + k - 1 = line - 1
  OBVIOUS
<1>11. y.maxBuffered = Max2(a.maxBuffered, line)
  BY <1>1, <1>2, <1>10, <1>7 DEF Max2
<1>12. ASSUME NEW l \in Rows
       PROVE  IF l \in first..line THEN Remembers(y.lines[l], c.rows[l]) ELSE y.lines[l] = a.lines[l]
  <2>1. CASE l = line
    BY <1>7, <1>9, SetLineHolds, <2>1, <1>10, <1>2 DEF cells
  <2>2. CASE l # line
    BY <2>2, <1>8, <1>10, <1>1, <1>2
  <2> QED BY <2>1, <2>2
<1>13. SweepDone(a, y, c, first, k + 1)
  BY <1>1, <1>2, <1>10, <1>11, <1>12 DEF KeepsHidden, SweepDone
<1>14. ASSUME KnewAll(a, c, first, k + 1) PROVE ~new.saw /\ y.t = a.t
  BY <1>10, <1>14, <1>1, <1>7, <1>3, <1>4, <1>5 DEF KnewAll, Max2, cells
<1> QED BY <1>13, <1>14 DEF y

\* All the lines of the scrape.
SweptTo(c, s, shown, first, m, top, width) ==
  \E x \in Scrapers(width) :
    /\ x = SentLines(c, s, shown, first, m) /\ SweepDone(HideUnless(s, shown), x, c, first, m)
    /\ KnewAll(HideUnless(s, shown), c, first, m) => x.t = HideUnless(s, shown).t
    /\ \A r0 \in RemoteType(width) : \A resized : \A hidden \in BOOLEAN :
         ~s.t.plain /\ Sweeping(HideUnless(s, shown), r0, first, first, top, resized, hidden, width)
           => Sweeping(x, r0, first, first + m, top, resized, hidden, width)

\* All the lines of a scrolling scrape are remembered and shown.
LEMMA SweepHolds ==
  ASSUME NEW width \in Nat, width >= 1, width <= MaxWidth, NEW c, HasRows(c, width), NEW s \in Scrapers(width),
         NEW shown, NEW first \in Nat, NEW m \in Nat, NEW top \in Nat,
         \A k \in 1..m : first + k - 1 \in Rows, first + m <= top + Height
  PROVE  SweptTo(c, s, shown, first, m, top, width)
<1>1. PICK at \in [0..m -> Sweeps(width)] : ScrollTable(at, c, s, shown, first, m)
  BY ScrollTableExists
<1> DEFINE a == HideUnless(s, shown)
<1>2. at[0] = [saw |-> FALSE, s |-> a] /\ SentLines(c, s, shown, first, m) = at[m].s
      /\ \A k \in 1..m : at[k] = ScrollLine(c, shown, at[k - 1], first + k - 1)
  BY <1>1 DEF ScrollTable
<1>3. a \in Scrapers(width) /\ a.t.plain = s.t.plain
  <2>1. a \in Scrapers(width)
    BY HideUnlessType
  <2>2. KeepsHidden(s.t, hideTerminalCursor(s.t))
    BY ScraperFields, HideKeepsHidden
  <2>3. s.t \in TermType(width)
    BY ScraperFields
  <2>4. a.t = s.t \/ a.t = hideTerminalCursor(s.t)
    BY DEF HideUnless, Scrapers
  <2> QED BY <2>1, <2>2, <2>4 DEF KeepsHidden
<1> HIDE DEF a
<1> DEFINE Q(acc, k) ==
             /\ SweepDone(a, acc.s, c, first, k)
             /\ KnewAll(a, c, first, k) => ~acc.saw /\ acc.s.t = a.t
             /\ \A r0 \in RemoteType(width) : \A resized : \A hidden \in BOOLEAN :
                  ~s.t.plain /\ Sweeping(a, r0, first, first, top, resized, hidden, width)
                    => Sweeping(acc.s, r0, first, first + k, top, resized, hidden, width)
           T == {k \in 0..m : Q(at[k], k)}
<1>4. 0 \in T
  BY <1>2, RowsAreLines DEF SweepDone, KeepsHidden
<1>5. ASSUME NEW k \in 0..(m - 1), k \in T PROVE k + 1 \in T
  <2>1. k + 1 \in 1..m /\ k + 1 \in 0..m /\ k \in 0..m /\ k \in Nat /\ (k + 1) - 1 = k
    OBVIOUS
  <2> DEFINE acc == at[k]
             new == at[k + 1]
             line == first + k
  <2>2. Q(acc, k)
    <3> HIDE DEF Q
    <3> QED BY <1>5
  <2> HIDE DEF T
  <2>3. acc \in Sweeps(width) /\ new \in Sweeps(width)
    BY <2>1
  <2>4. line = first + (k + 1) - 1 /\ line < top + Height
    BY ConstantsFit, <2>1
  <2>5. line \in Rows
    BY <2>1, <2>4
  <2>6. new = ScrollLine(c, shown, acc, line)
    BY <1>2, <2>1, <2>4
  <2> HIDE DEF acc, new
  <2>7. SweepDone(a, acc.s, c, first, k) /\ (KnewAll(a, c, first, k) => ~acc.saw /\ acc.s.t = a.t)
    BY <2>2
  <2>8. \A r0 \in RemoteType(width) : \A resized : \A hidden \in BOOLEAN :
          ~s.t.plain /\ Sweeping(a, r0, first, first, top, resized, hidden, width)
            => Sweeping(acc.s, r0, first, line, top, resized, hidden, width)
    BY <2>2
  <2>9. line = first + k
    OBVIOUS
  <2>10. line < top + Height
    BY <2>4
  <2> HIDE DEF Q, line
  <2>11. Swept(acc, new, c, line, width)
    BY <2>3, <2>5, <2>6, ScrollLineHolds
  <2>12. SweepDone(a, new.s, c, first, k + 1) /\ (KnewAll(a, c, first, k + 1) => ~new.saw /\ new.s.t = a.t)
    BY <1>3, <2>1, <2>3, <2>5, <2>7, <2>9, <2>11, SweepDoneStep
  <2>13. acc.s.t.plain = a.t.plain
    BY <2>7 DEF SweepDone, KeepsHidden
  <2>14. ASSUME NEW r0 \in RemoteType(width), NEW resized, NEW hidden \in BOOLEAN, ~s.t.plain,
                Sweeping(a, r0, first, first, top, resized, hidden, width)
         PROVE  Sweeping(new.s, r0, first, line + 1, top, resized, hidden, width)
    BY <2>8, <2>14, <2>13, <1>3, <2>3, <2>5, <2>6, <2>10, SweepStep
  <2>15. line + 1 = first + (k + 1)
    BY <2>1, <2>9
  <2>16. Q(new, k + 1)
    BY <2>12, <2>14, <2>15 DEF Q
  <2> QED BY <2>1, <2>16 DEF T, new
<1>6. \A k \in 0..m : k \in T
  <2>1. T \in SUBSET Nat
    OBVIOUS
  <2> HIDE DEF T
  <2> QED BY <2>1, <1>4, <1>5, Counting
<1>7. Q(at[m], m)
  BY <1>6
<1>8. at[m].s \in Scrapers(width)
  BY <1>1 DEF Sweeps
<1> QED BY <1>2, <1>7, <1>8 DEF a, SweptTo
-----------------------------------------------------------------------------
(* scrollingScrapeOutput, all of it.                                       *)

ScrollStart(s0, c) ==
  LET moved == s0.dirtyTop # -1
  IN IF moved /\ c.top < s0.dirtyTop THEN ResetConsoleTracking(s0, TRUE, c.top)
     ELSE IF moved /\ c.top > s0.dirtyTop
     THEN [s0 EXCEPT !.dirtyLines = Max2(@, c.top + Height)] ELSE s0

DirtyBelow(s, c) == ScanForDirtyLines(c, Max2(Max2(s.dirtyLines, c.cur.row + 1), c.top))

ScrollEnd(x, c, dirty) == [x EXCEPT !.dirtyTop = c.top, !.dirtyLines = dirty, !.scraped = c.top]

ScrollFrom(s, c) ==
  LET first == Min2(s.scraped, c.top)
      stop == Min2(DirtyBelow(s, c), c.top + Height)
  IN ShowIf(ScrollEnd(SentLines(c, s, InWindow(c), first, stop - first), c, DirtyBelow(s, c)), c, InWindow(c))

\* A scrolling scrape starts with ScrollStart.
LEMMA ScrollingIsFrom ==
  ASSUME NEW s0, NEW c
  PROVE  ScrollingScrape(s0, c) = ScrollFrom(ScrollStart(s0, c), c)
BY DEF ScrollingScrape, ScrollFrom, ScrollStart, DirtyBelow, ScrollEnd, SentLines, ScrollLine, ScrollRow, InWindow

\* What the scrape of the lines starts from.
ScrollReady(s, c) ==
  /\ s.dirtyLines \in Nat /\ s.dirtyLines <= c.top + Height /\ s.scraped <= c.top
  /\ s.maxBuffered < s.dirtyLines

\* The window is in the console, and the cursor in the window.
LEMMA WindowRows ==
  ASSUME NEW width \in Nat, NEW c, ConsoleOK(c, width)
  PROVE  /\ c.top \in Nat /\ c.top <= MaxTop /\ c.cur.row \in Nat /\ c.cur.col \in Nat /\ c.visible \in BOOLEAN
         /\ c.direct \in BOOLEAN /\ c.top <= c.cur.row /\ c.cur.row < c.top + Height
         /\ InWindow(c) = c.visible
         /\ \A l \in Nat : l < c.top + Height => l \in Rows
BY ConstantsFit, RowsAreLines DEF ConsoleOK, Consoles, InWindow

\* The lines below those scanned are blank, and the cursor is above them.
LEMMA DirtyHolds ==
  ASSUME NEW width \in Nat, NEW c, ConsoleOK(c, width), NEW s, ScrollReady(s, c)
  PROVE  /\ DirtyBelow(s, c) \in Nat /\ s.dirtyLines <= DirtyBelow(s, c) /\ c.cur.row < DirtyBelow(s, c)
         /\ c.top < DirtyBelow(s, c) /\ DirtyBelow(s, c) <= c.top + Height
         /\ \A l \in DirtyBelow(s, c)..(c.top + Height - 1) : BlankBelow(c, l)
         /\ c.cur.row < s.dirtyLines /\ (\A l \in s.dirtyLines..(c.top + Height - 1) : BlankBelow(c, l))
              => DirtyBelow(s, c) = s.dirtyLines
<1> DEFINE d == Max2(Max2(s.dirtyLines, c.cur.row + 1), c.top)
           top == c.top
           row == c.cur.row
           n == s.dirtyLines
<1>1. top \in Nat /\ row \in Nat /\ top <= row /\ row < top + Height /\ Height \in Nat
  BY WindowRows, ConstantsFit
<1>2. n \in Nat /\ n <= top + Height
  BY DEF ScrollReady
<1> HIDE DEF top, row, n
<1>3. d \in Nat /\ d <= top + Height /\ row < d /\ n <= d /\ top < d /\ (row < n => d = n)
  <2>1. d = IF n >= row + 1 THEN n ELSE row + 1
    BY <1>1, <1>2 DEF Max2, n, row, top
  <2> HIDE DEF d
  <2> QED BY <2>1, <1>1, <1>2
<1> HIDE DEF d
<1> DEFINE D == ScanForDirtyLines(c, d)
<1>4. /\ D \in d..(top + Height)
      /\ \A line \in d..(top + Height - 1) : line >= D => BlankBelow(c, line)
      /\ (\A line \in d..(top + Height - 1) : BlankBelow(c, line)) => D = d
  BY <1>1, <1>3, ScanHolds DEF top
<1>5. DirtyBelow(s, c) = D
  BY DEF DirtyBelow, d
<1> HIDE DEF D
<1>6. D \in Nat /\ d <= D /\ D <= top + Height
  BY <1>1, <1>3, <1>4
<1>7. \A l \in D..(top + Height - 1) : BlankBelow(c, l)
  BY <1>1, <1>3, <1>6, <1>4
<1>8. row < n /\ (\A l \in n..(top + Height - 1) : BlankBelow(c, l)) => D = n
  BY <1>3, <1>4
<1> QED BY <1>1, <1>2, <1>3, <1>5, <1>6, <1>7, <1>8 DEF top, row, n

\* What a scrolling terminal shows depends on its rows and its place only.
LEMMA ScrollSame ==
  ASSUME NEW width \in Nat, NEW resized, NEW x, NEW u, NEW r, NEW q, NEW lo \in Nat, NEW lo2 \in Nat, lo <= lo2,
         ScrollShows(x, r, lo, resized, width), u.lines = x.lines, u.t.outputColor = x.t.outputColor,
         u.maxBuffered = x.maxBuffered, SamePlace(x, u, r, q)
  PROVE  ScrollShows(u, q, lo2, resized, width)
<1> DEFINE o == r.row - x.t.line
           mb == x.maxBuffered
<1>1. q.row - u.t.line = o /\ \A k \in 1..Height : q.rows[k] = r.rows[k]
  BY DEF SamePlace
<1>2. /\ mb + o <= Height
      /\ \A l \in Rows : IF l > mb THEN x.lines[l] = FreshLine ELSE l >= lo => LineThere(x, r, l, resized, width)
      /\ \A k \in 1..Height : k > mb + o => \A i \in 1..MaxWidth : Empty(r.rows[k][i])
  BY DEF ScrollShows
<1>3. ASSUME NEW l \in Rows, LineThere(x, r, l, resized, width)
      PROVE  LineThere(u, q, l, resized, width)
  <2>1. /\ resized = 0 => x.lines[l].length >= width
        /\ l + o \in 1..Height => RowShows(r.rows[l + o], x.lines[l].data, MaxWidth, x.t.outputColor, resized)
    BY <1>3 DEF LineThere
  <2>2. l + o \in 1..Height => q.rows[l + o] = r.rows[l + o]
    BY <1>1
  <2> HIDE DEF o
  <2> QED BY <2>1, <2>2, <1>1 DEF LineThere
<1>4. ASSUME NEW l \in Rows
      PROVE  IF l > mb THEN u.lines[l] = FreshLine ELSE l >= lo2 => LineThere(u, q, l, resized, width)
  BY RowsAreLines, <1>2, <1>3
<1>5. \A k \in 1..Height : k > mb + o => \A i \in 1..MaxWidth : Empty(q.rows[k][i])
  BY <1>1, <1>2
<1> HIDE DEF o
<1>6. u.maxBuffered = mb
  OBVIOUS
<1> HIDE DEF mb
<1> QED BY <1>1, <1>2, <1>4, <1>5, <1>6 DEF ScrollShows

\* The result of a scrape of the window.
ScrollEnds(s, u, c) ==
  /\ u.direct = s.direct /\ u.scraped = c.top /\ u.dirtyTop = c.top
  /\ u.dirtyLines = DirtyBelow(s, c) /\ u.maxBuffered = DirtyBelow(s, c) - 1
  /\ u.t.plain = s.t.plain /\ u.t.outputColor = s.t.outputColor
  /\ \A l \in c.top..(c.top + Height - 1) : l < DirtyBelow(s, c) => Remembers(u.lines[l], c.rows[l])
  /\ IF c.visible THEN u.t.line = c.cur.row /\ (~u.t.plain => u.t.column = c.cur.col /\ ~u.t.hidden)
     ELSE u.t.plain \/ u.t.hidden

ScrollBegins(s, r0, resized, hidden, width) ==
  /\ Told(s.t, r0, resized, hidden) /\ ScrollShows(s, Now(r0, s.t), s.scraped, resized, width)
  /\ s.scraped + (Now(r0, s.t).row - s.t.line) \in 1..(Height + 1)

ScrollKept(u, r0, resized, hidden, width) ==
  /\ Told(u.t, r0, resized, hidden) /\ ScrollShows(u, Now(r0, u.t), u.scraped, resized, width)
  /\ u.scraped + (Now(r0, u.t).row - u.t.line) >= 1

\* The lines that are swept.
LEMMA SweptLines ==
  ASSUME NEW width \in Nat, NEW c, ConsoleOK(c, width), NEW s \in Scrapers(width), ScrollReady(s, c)
  PROVE  LET first == Min2(s.scraped, c.top)
             m == Min2(DirtyBelow(s, c), c.top + Height) - first
         IN /\ first = s.scraped /\ first \in Nat /\ m \in Nat /\ m # 0 /\ first + m = DirtyBelow(s, c)
            /\ \A k \in 1..m : first + k - 1 \in Rows
<1> DEFINE d == DirtyBelow(s, c)
           top == c.top
<1>1. d \in Nat /\ top < d /\ d <= top + Height
  BY DirtyHolds
<1>2. top \in Nat /\ Height \in Nat /\ \A l \in Nat : l < top + Height => l \in Rows
  BY WindowRows, ConstantsFit
<1>3. s.scraped \in Nat /\ s.scraped <= top
  BY ScraperFields, ConstantsFit DEF ScrollReady
<1> HIDE DEF d, top
<1>4. Min2(s.scraped, top) = s.scraped
  BY <1>2, <1>3 DEF Min2
<1>5. Min2(d, top + Height) = d
  BY <1>1, <1>2 DEF Min2
<1> DEFINE first == s.scraped
           m == d - first
<1>6. first \in Nat /\ m \in Nat /\ m # 0 /\ first + m = d
  BY <1>1, <1>2, <1>3
<1>7. ASSUME NEW k \in 1..m PROVE first + k - 1 \in Rows
  BY <1>1, <1>2, <1>6
<1> QED BY <1>4, <1>5, <1>6, <1>7 DEF d, top

\* A cursor that is shown where it is needs nothing written.
LEMMA ShowAgain ==
  ASSUME NEW width \in Nat, NEW x \in Scrapers(width), NEW c, c.visible, ShownAlready(x, c)
  PROVE  ShowIf(x, c, TRUE).t = x.t
<1> DEFINE t == x.t
           row == c.cur.row
           col == c.cur.col
           v == showTerminalCursor(t, col, row)
<1>1. t.line = row /\ (~t.plain => t.column = col /\ ~t.hidden)
  BY DEF ShownAlready
<1>2. ShowIf(x, c, TRUE).t = v
  BY DEF ShowIf, Scrapers
<1> HIDE DEF t, row, col
<1>3. moveTerminalToLine(t, row) = t
  BY <1>1 DEF moveTerminalToLine
<1>4. v = t
  BY <1>1, <1>3 DEF showTerminalCursor
<1> QED BY <1>2, <1>4 DEF t

\* The end of a scrape changes the counts of lines only.
LEMMA ScrollEndHolds ==
  ASSUME NEW width \in Nat, NEW x \in Scrapers(width), NEW c, c.top \in 0..MaxTop, NEW dirty \in Int
  PROVE  LET e == ScrollEnd(x, c, dirty)
         IN /\ e \in Scrapers(width) /\ e.t = x.t /\ e.lines = x.lines /\ e.maxBuffered = x.maxBuffered
            /\ e.direct = x.direct /\ e.scraped = c.top /\ e.dirtyTop = c.top /\ e.dirtyLines = dirty
<1>1. c.top \in Int
  OBVIOUS
<1> QED BY <1>1 DEF ScrollEnd, Scrapers

\* A scrolling scrape sends the lines up to the dirty ones and then shows the cursor.
LEMMA ScrollFromIs ==
  ASSUME NEW width \in Nat, width >= 1, width <= MaxWidth, NEW c, ConsoleOK(c, width), NEW s \in Scrapers(width),
         ScrollReady(s, c)
  PROVE  \E x \in Scrapers(width), m \in Nat :
           /\ m # 0 /\ s.scraped + m = DirtyBelow(s, c)
           /\ ScrollFrom(s, c) = ShowIf(ScrollEnd(x, c, DirtyBelow(s, c)), c, c.visible)
           /\ SweepDone(HideUnless(s, c.visible), x, c, s.scraped, m)
           /\ KnewAll(HideUnless(s, c.visible), c, s.scraped, m) => x.t = HideUnless(s, c.visible).t
           /\ \A r0 \in RemoteType(width) : \A resized : \A hidden \in BOOLEAN :
                ~s.t.plain /\ Sweeping(HideUnless(s, c.visible), r0, s.scraped, s.scraped, c.top, resized, hidden, width)
                  => Sweeping(x, r0, s.scraped, DirtyBelow(s, c), c.top, resized, hidden, width)
<1> DEFINE first == Min2(s.scraped, c.top)
           d == DirtyBelow(s, c)
           m == Min2(d, c.top + Height) - first
           shown == c.visible
           top == c.top
<1>1. /\ first = s.scraped /\ first \in Nat /\ m \in Nat /\ m # 0 /\ first + m = d
      /\ \A k \in 1..m : first + k - 1 \in Rows
  BY SweptLines
<1>2. ScrollFrom(s, c) = ShowIf(ScrollEnd(SentLines(c, s, shown, first, m), c, d), c, shown)
  BY WindowRows DEF ScrollFrom
<1>3. top \in Nat /\ d <= top + Height
  BY WindowRows, DirtyHolds
<1>4. HasRows(c, width)
  BY DEF ConsoleOK
<1> HIDE DEF first, d, m, shown, top
<1>5. first + m <= top + Height
  BY <1>1, <1>3
<1>6. PICK x \in Scrapers(width) :
        /\ x = SentLines(c, s, shown, first, m) /\ SweepDone(HideUnless(s, shown), x, c, first, m)
        /\ KnewAll(HideUnless(s, shown), c, first, m) => x.t = HideUnless(s, shown).t
        /\ \A r0 \in RemoteType(width) : \A resized : \A hidden \in BOOLEAN :
             ~s.t.plain /\ Sweeping(HideUnless(s, shown), r0, first, first, top, resized, hidden, width)
               => Sweeping(x, r0, first, first + m, top, resized, hidden, width)
  <2>1. SweptTo(c, s, shown, first, m, top, width)
    BY <1>1, <1>3, <1>4, <1>5, SweepHolds
  <2> QED BY <2>1 DEF SweptTo
<1>7. /\ m # 0 /\ s.scraped + m = d
      /\ ScrollFrom(s, c) = ShowIf(ScrollEnd(x, c, d), c, shown)
      /\ SweepDone(HideUnless(s, shown), x, c, s.scraped, m)
      /\ KnewAll(HideUnless(s, shown), c, s.scraped, m) => x.t = HideUnless(s, shown).t
      /\ \A r0 \in RemoteType(width) : \A resized : \A hidden \in BOOLEAN :
           ~s.t.plain /\ Sweeping(HideUnless(s, shown), r0, s.scraped, s.scraped, top, resized, hidden, width)
             => Sweeping(x, r0, s.scraped, d, top, resized, hidden, width)
  BY <1>1, <1>2, <1>6
<1>8. m \in Nat
  BY <1>1
<1> HIDE DEF m
<1> QED BY <1>7, <1>8 DEF d, shown, top

\* The scrape of the window: what is remembered, and what the terminal shows.
LEMMA ScrollFromHolds ==
  ASSUME NEW width \in Nat, width >= 1, width <= MaxWidth, NEW c, ConsoleOK(c, width), NEW s \in Scrapers(width),
         ScrollReady(s, c)
  PROVE  /\ ScrollFrom(s, c) \in Scrapers(width) /\ ScrollEnds(s, ScrollFrom(s, c), c)
         /\ ShownAlready(s, c) /\ KnewAll(s, c, s.scraped, DirtyBelow(s, c) - s.scraped) => ScrollFrom(s, c).t = s.t
         /\ \A r0 \in RemoteType(width) : \A resized : \A hidden \in BOOLEAN :
              ~s.t.plain /\ ScrollBegins(s, r0, resized, hidden, width)
                => ScrollKept(ScrollFrom(s, c), r0, resized, hidden, width)
<1> DEFINE d == DirtyBelow(s, c)
           top == c.top
           shown == c.visible
           first == s.scraped
           row == c.cur.row
           a == HideUnless(s, shown)
           u == ScrollFrom(s, c)
<1>1. PICK x \in Scrapers(width), m \in Nat :
        /\ m # 0 /\ first + m = d
        /\ u = ShowIf(ScrollEnd(x, c, d), c, shown)
        /\ SweepDone(a, x, c, first, m)
        /\ KnewAll(a, c, first, m) => x.t = a.t
        /\ \A r0 \in RemoteType(width) : \A resized : \A hidden \in BOOLEAN :
             ~s.t.plain /\ Sweeping(a, r0, first, first, top, resized, hidden, width)
               => Sweeping(x, r0, first, d, top, resized, hidden, width)
  BY ScrollFromIs
<1>2. /\ top \in Nat /\ top <= MaxTop /\ row \in Nat /\ c.cur.col \in Nat /\ shown \in BOOLEAN
      /\ top <= row /\ row < top + Height /\ c.cur.col < width
  BY WindowRows DEF ConsoleOK
<1>3. d \in Nat /\ s.dirtyLines <= d /\ row < d /\ top < d /\ d <= top + Height
  BY DirtyHolds
<1>4. /\ first \in Nat /\ first <= top /\ s.maxBuffered \in Int /\ s.dirtyLines \in Nat /\ s.maxBuffered < s.dirtyLines
      /\ Height \in Nat /\ MaxTop \in Nat
  BY ScraperFields, ConstantsFit DEF ScrollReady
<1>5. a \in Scrapers(width) /\ Begins(s, a, shown)
  BY <1>2, HideUnlessHolds
<1> DEFINE e == ScrollEnd(x, c, d)
<1>6. /\ e \in Scrapers(width) /\ e.t = x.t /\ e.lines = x.lines /\ e.maxBuffered = x.maxBuffered
      /\ e.direct = x.direct /\ e.scraped = top /\ e.dirtyTop = top /\ e.dirtyLines = d
  <2>1. c.top \in 0..MaxTop /\ d \in Int
    BY <1>2, <1>3, <1>4
  <2> HIDE DEF d
  <2> QED BY <2>1, ScrollEndHolds
<1> HIDE DEF u, e
<1>7. u \in Scrapers(width) /\ Ends(e, u, c, shown)
  BY <1>1, <1>2, <1>6, ShowIfHolds DEF e
<1> HIDE DEF d, a
<1>8. x.maxBuffered = d - 1
  <2>1. x.maxBuffered = Max2(s.maxBuffered, d - 1)
    <3>1. x.maxBuffered = Max2(a.maxBuffered, first + m - 1) /\ a.maxBuffered = s.maxBuffered
      BY <1>1, <1>5 DEF SweepDone, Begins, SameFields
    <3>2. first + m - 1 = d - 1
      BY <1>1, <1>3, <1>4
    <3> HIDE DEF first
    <3> QED BY <3>1, <3>2
  <2> HIDE DEF first, top, row
  <2>2. ~(s.maxBuffered > d - 1) /\ d - 1 \in Int
    BY <1>3, <1>4
  <2> QED BY <2>1, <2>2, <1>4 DEF Max2
<1>9. ScrollEnds(s, u, c)
  <2>1. /\ u.direct = s.direct /\ u.scraped = top /\ u.dirtyTop = top /\ u.dirtyLines = d /\ u.maxBuffered = d - 1
        /\ u.t.plain = s.t.plain /\ u.t.outputColor = s.t.outputColor
    BY <1>1, <1>5, <1>6, <1>7, <1>8 DEF SweepDone, KeepsHidden, Begins, SameFields, Ends
  <2>2. \A l \in top..(top + Height - 1) : l < d => Remembers(u.lines[l], c.rows[l])
    <3> SUFFICES ASSUME NEW l \in top..(top + Height - 1), l < d PROVE Remembers(u.lines[l], c.rows[l])
      OBVIOUS
    <3>1. l \in Rows
      BY <1>2, <1>4, WindowRows
    <3>2. l \in first..(first + m - 1)
      <4> HIDE DEF first, top
      <4> QED BY <1>1, <1>2, <1>3, <1>4
    <3> QED BY <3>1, <3>2, <1>1, <1>6, <1>7 DEF SweepDone, Ends
  <2>3. IF shown THEN u.t.line = row /\ (~u.t.plain => u.t.column = c.cur.col /\ ~u.t.hidden)
        ELSE u.t.plain \/ u.t.hidden
    BY <1>7, <1>1, <1>5, <1>6 DEF Ends, Begins, SweepDone, KeepsHidden
  <2> QED BY <2>1, <2>2, <2>3 DEF ScrollEnds, d
<1>10. ASSUME ShownAlready(s, c), KnewAll(s, c, first, d - first)
       PROVE  u.t = s.t
  <2>1. a = s
    BY <1>5, <1>10 DEF Begins, ShownAlready
  <2>2. d - first = m
    BY <1>1, <1>3, <1>4
  <2>3. x.t = s.t
    BY <1>1, <1>10, <2>1, <2>2
  <2>4. CASE ~shown
    BY <2>3, <2>4, <1>6, <1>7 DEF Ends
  <2>5. CASE shown
    <3>1. ShownAlready(e, c)
      BY <1>6, <1>10, <2>3 DEF ShownAlready
    <3>2. ShowIf(e, c, TRUE).t = e.t
      BY <2>5, <3>1, <1>6, ShowAgain
    <3>3. shown = TRUE
      BY <2>5, <1>2
    <3>4. u = ShowIf(e, c, shown)
      BY <1>1 DEF e
    <3> HIDE DEF shown
    <3> QED BY <3>2, <3>3, <3>4, <2>3, <1>6
  <2> QED BY <2>4, <2>5
<1>11. ASSUME NEW r0 \in RemoteType(width), NEW resized, NEW hidden \in BOOLEAN, ~s.t.plain,
              ScrollBegins(s, r0, resized, hidden, width)
       PROVE  ScrollKept(u, r0, resized, hidden, width)
  <2> DEFINE r == Now(r0, s.t)
             p == Now(r0, a.t)
             q == Now(r0, x.t)
             v == Now(r0, u.t)
  <2>0. ASSUME NEW z \in Scrapers(width) PROVE Now(r0, z.t).row \in Int /\ z.t.line \in Int
    BY ScraperFields, NowType, RemoteFields, ConstantsFit
  <2>1. Told(s.t, r0, resized, hidden) /\ ScrollShows(s, r, first, resized, width)
        /\ first + (r.row - s.t.line) \in 1..(Height + 1)
    BY <1>11 DEF ScrollBegins
  <2>2. Told(a.t, r0, resized, hidden) /\ SamePlace(s, a, r, p)
    BY <1>2, <1>11, <2>1, HideUnlessHolds DEF a
  <2>3. a.lines = s.lines /\ a.t.outputColor = s.t.outputColor /\ a.maxBuffered = s.maxBuffered
    BY <1>5 DEF Begins, SameFields
  <2> DEFINE o == r.row - s.t.line
             o2 == q.row - x.t.line
  <2>4. o \in Int /\ o2 \in Int
    BY <2>0
  <2>5. p.row - a.t.line = o
    BY <2>2 DEF SamePlace
  <2>6. ScrollShows(a, p, first, resized, width)
    <3> HIDE DEF r, p, first
    <3>1. first <= first
      BY <1>4
    <3> QED BY <3>1, <1>4, <2>1, <2>2, <2>3, ScrollSame
  <2>7. NextLine(a, p, first, first)
    <3> HIDE DEF p, r, first, o
    <3>1. first <= first
      BY <1>4
    <3>2. first + o \in 1..(Height + 1)
      BY <2>1 DEF o
    <3> QED BY <2>5, <3>1, <3>2 DEF NextLine
  <2>8. top + o >= 1
    <3>1. first + o \in 1..(Height + 1)
      BY <2>1
    <3> HIDE DEF o, first, top
    <3> QED BY <3>1, <2>4, <1>2, <1>4
  <2>9. Sweeping(a, r0, first, first, top, resized, hidden, width)
    <3> HIDE DEF o, first, top
    <3> QED BY <2>2, <2>5, <2>6, <2>7, <2>8 DEF Sweeping
  <2>10. Sweeping(x, r0, first, d, top, resized, hidden, width)
    BY <1>1, <1>11, <2>9
  <2>11. /\ Told(x.t, r0, resized, hidden) /\ ScrollShows(x, q, first, resized, width)
         /\ d + o2 \in 1..(Height + 1) /\ top + o2 >= 1
    BY <2>10 DEF Sweeping, NextLine
  <2>12. shown => row + o2 \in 1..Height
    <3> HIDE DEF o2, row, top
    <3> QED BY <2>4, <2>11, <1>2, <1>3, <1>4
  <2>13. ~e.t.plain
    BY <1>1, <1>5, <1>6, <1>11 DEF SweepDone, KeepsHidden, Begins, SameFields
  <2>14. Told(u.t, r0, resized, hidden) /\ SamePlace(e, u, q, v)
    <3>1. Now(r0, e.t) = q /\ Told(e.t, r0, resized, hidden) /\ q.row - e.t.line = o2
      BY <1>6, <2>11
    <3>2. shown => c.cur.row + (Now(r0, e.t).row - e.t.line) \in 1..Height
      BY <2>12, <3>1
    <3>3. shown => c.cur.col < width
      BY <1>2
    <3>4. u = ShowIf(e, c, shown)
      BY <1>1 DEF e
    <3> QED BY <1>2, <1>6, <2>13, <3>1, <3>2, <3>3, <3>4, ShowIfHolds
  <2>15. ScrollShows(u, v, top, resized, width)
    <3>1. u.lines = x.lines /\ u.t.outputColor = x.t.outputColor /\ u.maxBuffered = x.maxBuffered
      BY <1>6, <1>7 DEF Ends, SameFields
    <3>2. SamePlace(x, u, q, v)
      BY <2>14, <1>6 DEF SamePlace
    <3> HIDE DEF q, v, first, top
    <3> QED BY <3>1, <3>2, <2>11, <1>2, <1>4, ScrollSame
  <2>16. top + (v.row - u.t.line) >= 1
    <3>1. v.row - u.t.line = o2
      BY <2>14, <1>6 DEF SamePlace
    <3> HIDE DEF v, top, o2
    <3> QED BY <3>1, <2>11
  <2>17. u.scraped = top
    BY <1>6, <1>7 DEF Ends, SameFields
  <2> QED BY <2>14, <2>15, <2>16, <2>17 DEF ScrollKept
<1> QED BY <1>7, <1>9, <1>10, <1>11 DEF u, d
-----------------------------------------------------------------------------
(* A scrape that starts anew.                                              *)

NewlyTracked(s, z, line) ==
  /\ z.direct = s.direct /\ z.scraped = line /\ z.maxBuffered = -1 /\ z.dirtyTop = -1 /\ z.dirtyLines = 0
  /\ z.lines = [r \in Rows |-> FreshLine] /\ z.t.line = line
  /\ z.t.plain = s.t.plain /\ z.t.outputColor = s.t.outputColor /\ (s.t.plain => z.t.out = <<>>)

NewScreen(z, r0) ==
  /\ \A resized : Told(z.t, r0, resized, FALSE)
  /\ Now(r0, z.t).row = 1 /\ \A k \in 1..Height : Now(r0, z.t).rows[k] = BlankRow(OwnColor)

\* resetConsoleTracking leaves no line remembered and an empty terminal.
LEMMA ResetTracking ==
  ASSUME NEW width \in Nat, width >= 1, NEW s \in Scrapers(width), s.t.out = <<>>, NEW line \in 0..MaxTop
  PROVE  /\ ResetConsoleTracking(s, TRUE, line) \in Scrapers(width)
         /\ NewlyTracked(s, ResetConsoleTracking(s, TRUE, line), line)
         /\ ~s.t.plain => \A r0 \in RemoteType(width) : NewScreen(ResetConsoleTracking(s, TRUE, line), r0)
<1> DEFINE u == reset(s.t, TRUE, line)
           z == ResetConsoleTracking(s, TRUE, line)
<1>1. s.t \in TermType(width) /\ TermOK(s.t) /\ s.t.plain \in BOOLEAN /\ line \in Nat
  BY ConstantsFit, ScraperFields
<1>2. 1 \in 1..Height
  BY ConstantsFit
<1>3. NewRemote(width, 1) \in RemoteType(width)
  BY <1>2, NewRemoteType
<1>4. \A r0 \in RemoteType(width) : Cleared(s.t, u, r0, line, width)
  BY <1>1, ResetHolds
<1>5. z = [s EXCEPT !.lines = [r \in Rows |-> FreshLine], !.scraped = line, !.maxBuffered = -1,
                    !.dirtyTop = -1, !.dirtyLines = 0, !.t = u]
  BY DEF ResetConsoleTracking
<1>6. FreshLine \in LineRecords
  BY ConstantsFit DEF FreshLine, LineRecords, LineType
<1> HIDE DEF u, z
<1>7. u \in Terms(width)
  BY <1>3, <1>4 DEF Terms, Cleared
<1> DEFINE L == [r \in Rows |-> FreshLine]
<1>a. L \in [Rows -> LineRecords] /\ line \in 0..MaxTop /\ -1 \in Int /\ 0 \in Int
  BY <1>6
<1>b. z = [s EXCEPT !.lines = L, !.scraped = line, !.maxBuffered = -1, !.dirtyTop = -1, !.dirtyLines = 0, !.t = u]
  BY <1>5
<1> HIDE DEF L
<1>8. /\ z \in Scrapers(width) /\ z.t = u /\ z.lines = L /\ z.direct = s.direct
      /\ z.scraped = line /\ z.maxBuffered = -1 /\ z.dirtyTop = -1 /\ z.dirtyLines = 0
  BY <1>a, <1>b, <1>7 DEF Scrapers
<1>9. NewlyTracked(s, z, line)
  BY <1>3, <1>4, <1>8 DEF NewlyTracked, Cleared, L
<1>10. ASSUME NEW r0 \in RemoteType(width), ~s.t.plain PROVE NewScreen(z, r0)
  BY <1>4, <1>8, <1>10 DEF Cleared, NewScreen
<1> QED BY <1>8, <1>9, <1>10 DEF z

\* A blank place is empty.
LEMMA BlankIsEmpty ==
  ASSUME NEW i \in 1..MaxWidth
  PROVE  Empty(BlankRow(OwnColor)[i])
BY DEF Empty, BlankRow, RemoteBlank

\* An empty terminal shows that nothing is remembered, in scrolling mode
LEMMA NewlyScrolls ==
  ASSUME NEW s, NEW z, NEW line \in Nat, NewlyTracked(s, z, line), NEW r, r.row = 1,
         \A k \in 1..Height : r.rows[k] = BlankRow(OwnColor), NEW lo, NEW resized, NEW width
  PROVE  ScrollShows(z, r, lo, resized, width) /\ line + (r.row - z.t.line) = 1
BY ConstantsFit, RowsAreLines, BlankIsEmpty DEF NewlyTracked, ScrollShows

\* and in direct mode.
LEMMA NewlyDirect ==
  ASSUME NEW s, NEW z, NewlyTracked(s, z, 0), NEW r, r.row = 1, NEW n, NEW resized, NEW width
  PROVE  DirectShows(z, r, n, resized, width)
BY ConstantsFit, RowsAreLines DEF NewlyTracked, FreshLine, DirectShows

\* It goes on from what has been scraped, or starts anew.
StartsScroll(s, z, c, width) ==
  /\ z \in Scrapers(width) /\ ScrollReady(z, c) /\ z.direct = s.direct
  /\ z.t.plain = s.t.plain /\ z.t.outputColor = s.t.outputColor
  /\ s.dirtyTop \in {-1, c.top} => z = s
  /\ \A r0 \in RemoteType(width) : \A resized : \A hidden \in BOOLEAN :
       ~s.t.plain /\ ScrollBegins(s, r0, resized, hidden, width)
         => \E h \in {hidden, FALSE} : ScrollBegins(z, r0, resized, h, width)

\* A scrolling scrape goes on where the last one ended, or starts anew.
LEMMA ScrollStartHolds ==
  ASSUME NEW width \in Nat, width >= 1, NEW c, ConsoleOK(c, width), NEW s \in Scrapers(width),
         (s.dirtyTop = -1 /\ ScrollReady(s, c)) \/ (s.dirtyTop # -1 /\ s.t.out = <<>> /\ Counted(s)),
         NEW z, z = ScrollStart(s, c)
  PROVE  StartsScroll(s, z, c, width)
<1> DEFINE top == c.top
<1>1. top \in Nat /\ top \in 0..MaxTop /\ Height \in Nat /\ Height >= 1
  BY WindowRows, ConstantsFit
<1>2. /\ s.dirtyTop \in Int /\ s.dirtyLines \in Int /\ s.maxBuffered \in Int /\ s.scraped \in Nat
  BY ScraperFields, ConstantsFit
<1>3. CASE s.dirtyTop = -1
  BY <1>3 DEF ScrollStart, StartsScroll
<1>4. CASE s.dirtyTop # -1
  <2>0. /\ s.t.out = <<>> /\ s.dirtyLines \in Nat /\ s.maxBuffered = s.dirtyLines - 1
        /\ s.dirtyLines <= s.scraped + Height /\ s.dirtyTop = s.scraped /\ s.scraped < s.dirtyLines
    BY <1>4 DEF Counted
  <2>1. CASE top < s.dirtyTop
    <3>1. z = ResetConsoleTracking(s, TRUE, top)
      BY <1>4, <2>1 DEF ScrollStart
    <3>2. z \in Scrapers(width) /\ NewlyTracked(s, z, top)
      BY <3>1, <1>1, <2>0, ResetTracking
    <3>3. ScrollReady(z, c)
      <4>1. z.dirtyLines = 0 /\ z.scraped = top /\ z.maxBuffered = -1
        BY <3>2 DEF NewlyTracked
      <4>2. 0 \in Nat /\ 0 <= top + Height /\ top <= top /\ -1 < 0
        BY <1>1
      <4> HIDE DEF top
      <4>3. ScrollReady(z, c) <=> (z.dirtyLines \in Nat /\ z.dirtyLines <= top + Height /\ z.scraped <= top /\ z.maxBuffered < z.dirtyLines)
        BY DEF ScrollReady, top
      <4> QED BY <4>1, <4>2, <4>3
    <3>4. s.dirtyTop \notin {-1, top}
      BY <2>1, <1>1, <1>2, <1>4
    <3>5. ASSUME NEW r0 \in RemoteType(width), NEW resized, NEW hidden \in BOOLEAN, ~s.t.plain
          PROVE  ScrollBegins(z, r0, resized, FALSE, width)
      <4>1. Told(z.t, r0, resized, FALSE) /\ Now(r0, z.t).row = 1
            /\ \A k \in 1..Height : Now(r0, z.t).rows[k] = BlankRow(OwnColor)
        <5>1. NewScreen(z, r0)
          BY <3>1, <3>5, <1>1, <2>0, ResetTracking
        <5> QED BY <5>1 DEF NewScreen
      <4>2. ScrollShows(z, Now(r0, z.t), z.scraped, resized, width) /\ top + (Now(r0, z.t).row - z.t.line) = 1
        BY <4>1, <3>2, <1>1, NewlyScrolls
      <4>3. z.scraped = top
        BY <3>2 DEF NewlyTracked
      <4>4. 1 \in 1..(Height + 1)
        BY <1>1
      <4> QED BY <4>1, <4>2, <4>3, <4>4 DEF ScrollBegins
    <3> QED BY <3>2, <3>3, <3>4, <3>5 DEF NewlyTracked, StartsScroll
  <2>2. CASE top > s.dirtyTop
    <3> DEFINE n == Max2(s.dirtyLines, top + Height)
    <3>1. z = [s EXCEPT !.dirtyLines = n]
      <4>1. ~(top < s.dirtyTop)
        <5>1. top \in Int /\ s.dirtyTop \in Int /\ top > s.dirtyTop
          BY <2>2, <1>1, <1>2
        <5> HIDE DEF top, n
        <5> QED BY <5>1
      <4> QED BY <4>1, <1>4, <2>2 DEF ScrollStart
    <3>2. n = top + Height
      <4>1. s.dirtyLines <= top + Height /\ top + Height \in Nat
        <5>1. PICK lo, m : lo = s.scraped /\ m = s.dirtyLines
          OBVIOUS
        <5>2. top \in Nat /\ Height \in Nat /\ lo \in Nat /\ m \in Nat /\ m <= lo + Height /\ top > lo
          BY <5>1, <1>1, <1>2, <2>0, <2>2
        <5>3. m <= top + Height /\ top + Height \in Nat
          <6> HIDE DEF top
          <6> QED BY <5>2
        <5> QED BY <5>1, <5>3
      <4> HIDE DEF top
      <4> QED BY <4>1, <1>2 DEF Max2
    <3> HIDE DEF n
    <3>3. /\ z \in Scrapers(width) /\ z.t = s.t /\ z.lines = s.lines /\ z.direct = s.direct /\ z.scraped = s.scraped
          /\ z.maxBuffered = s.maxBuffered /\ z.dirtyLines = n
      BY <3>2, <1>1, <3>1 DEF Scrapers
    <3>4. ScrollReady(z, c)
      <4> DEFINE m == s.dirtyLines
                 lo == s.scraped
      <4>1. z.dirtyLines = top + Height /\ z.scraped = lo /\ z.maxBuffered = m - 1
        BY <3>2, <3>3, <2>0
      <4>2. m \in Nat /\ lo \in Nat /\ m <= lo + Height /\ top > lo
        BY <1>2, <2>0, <2>2
      <4> HIDE DEF top, m, lo
      <4>3. ScrollReady(z, c) <=> (z.dirtyLines \in Nat /\ z.dirtyLines <= top + Height /\ z.scraped <= top /\ z.maxBuffered < z.dirtyLines)
        BY DEF ScrollReady, top
      <4>4. top + Height \in Nat /\ top + Height <= top + Height /\ lo <= top /\ m - 1 < top + Height
        BY <4>2, <1>1
      <4> QED BY <4>1, <4>3, <4>4
    <3>5. s.dirtyTop \notin {-1, top}
      BY <2>2, <1>1, <1>2, <1>4
    <3>6. ASSUME NEW r0 \in RemoteType(width), NEW resized, NEW hidden \in BOOLEAN,
                 ScrollBegins(s, r0, resized, hidden, width)
          PROVE  ScrollBegins(z, r0, resized, hidden, width)
      BY <3>3, <3>6 DEF ScrollBegins, ScrollShows, LineThere
    <3> QED BY <3>3, <3>4, <3>5, <3>6 DEF StartsScroll
  <2>3. CASE top = s.dirtyTop
    <3>1. z = s
      <4>1. ~(top < s.dirtyTop) /\ ~(top > s.dirtyTop)
        BY <2>3, <1>1
      <4> QED BY <4>1 DEF ScrollStart
    <3>2. ScrollReady(s, c)
      <4> DEFINE m == s.dirtyLines
      <4>1. m \in Nat /\ m <= top + Height /\ s.scraped = top /\ s.maxBuffered = m - 1
        BY <2>0, <2>3
      <4>2. top <= top /\ m - 1 < m
        BY <4>1, <1>1
      <4> HIDE DEF top
      <4> QED BY <4>1, <4>2 DEF ScrollReady, top
    <3> QED BY <3>1, <3>2 DEF StartsScroll
  <2>4. top < s.dirtyTop \/ top > s.dirtyTop \/ top = s.dirtyTop
    BY <1>1, <1>2
  <2> QED BY <2>1, <2>2, <2>3, <2>4
<1> QED BY <1>3, <1>4

\* scrollingScrapeOutput from the state it is called in.
Scrolled(s, u, c) ==
  /\ u.direct = s.direct /\ u.t.plain = s.t.plain /\ u.t.outputColor = s.t.outputColor
  /\ Counted(u) \/ s.direct
  /\ u.dirtyTop = c.top /\ u.scraped = c.top /\ c.cur.row < u.dirtyLines
  /\ \A l \in u.dirtyLines..(c.top + Height - 1) : BlankBelow(c, l)
  /\ \A l \in c.top..(c.top + Height - 1) : l < u.dirtyLines => Remembers(u.lines[l], c.rows[l])
  /\ ShownAlready(u, c)

ScrollsOn(s, u, width) ==
  \A r0 \in RemoteType(width) : \A resized : \A hidden \in BOOLEAN :
    ~s.t.plain /\ ScrollBegins(s, r0, resized, hidden, width)
      => \E h \in {hidden, FALSE} : ScrollKept(u, r0, resized, h, width)

\* A line that is remembered as it is need not be sent.
LEMMA RememberedEqual ==
  ASSUME NEW rec \in LineRecords, NEW cells \in Seq(Cell), Remembers(rec, cells)
  PROVE  LinesEqual(rec, cells)
<1>1. rec.data \in Seq(Cell) /\ rec.length \in Nat /\ rec.length <= Len(rec.data) /\ rec.length = Len(cells)
  BY LineRecordFields DEF Remembers
<1>2. SubSeq(rec.data, 1, rec.length) = cells
  <2> DEFINE a == SubSeq(rec.data, 1, rec.length)
  <2>1. a \in Seq(Cell) /\ Len(a) = Len(cells) /\ \A i \in 1..Len(a) : a[i] = rec.data[i]
    BY <1>1
  <2>2. \A i \in 1..Len(cells) : rec.data[i] = cells[i]
    BY DEF Remembers
  <2> HIDE DEF a
  <2>3. a = cells
    BY <2>1, <2>2
  <2> QED BY <2>3 DEF a
<1> QED BY <1>1, <1>2 DEF LinesEqual

\* What a scrolling scrape leaves: the window remembered, shown, and nothing sent that had been.
LEMMA ScrollingHolds ==
  ASSUME NEW width \in Nat, width >= 1, width <= MaxWidth, NEW c, ConsoleOK(c, width), NEW s \in Scrapers(width),
         (s.dirtyTop = -1 /\ ScrollReady(s, c)) \/ (s.dirtyTop # -1 /\ s.t.out = <<>> /\ Counted(s)),
         NEW u, u = ScrollingScrape(s, c)
  PROVE  u \in Scrapers(width) /\ Scrolled(s, u, c) /\ ScrollsOn(s, u, width)
<1>z. PICK z : z = ScrollStart(s, c)
  OBVIOUS
<1> DEFINE d == DirtyBelow(z, c)
<1>0. StartsScroll(s, z, c, width)
  BY <1>z, ScrollStartHolds
<1>1. /\ z \in Scrapers(width) /\ ScrollReady(z, c) /\ z.direct = s.direct
      /\ z.t.plain = s.t.plain /\ z.t.outputColor = s.t.outputColor
      /\ \A r0 \in RemoteType(width) : \A resized : \A hidden \in BOOLEAN :
           ~s.t.plain /\ ScrollBegins(s, r0, resized, hidden, width)
             => \E h \in {hidden, FALSE} : ScrollBegins(z, r0, resized, h, width)
  BY <1>0 DEF StartsScroll
<1>2. u = ScrollFrom(z, c)
  BY <1>z, ScrollingIsFrom
<1>3. /\ u \in Scrapers(width) /\ ScrollEnds(z, u, c)
      /\ \A r0 \in RemoteType(width) : \A resized : \A hidden \in BOOLEAN :
           ~z.t.plain /\ ScrollBegins(z, r0, resized, hidden, width) => ScrollKept(u, r0, resized, hidden, width)
  BY <1>1, <1>2, ScrollFromHolds
<1>4. /\ d \in Nat /\ c.cur.row < d /\ c.top < d /\ d <= c.top + Height
      /\ \A l \in d..(c.top + Height - 1) : BlankBelow(c, l)
  BY <1>1, DirtyHolds
<1> HIDE DEF d
<1>5. /\ u.direct = z.direct /\ u.scraped = c.top /\ u.dirtyTop = c.top /\ u.dirtyLines = d /\ u.maxBuffered = d - 1
      /\ u.t.plain = z.t.plain /\ u.t.outputColor = z.t.outputColor
      /\ \A l \in c.top..(c.top + Height - 1) : l < d => Remembers(u.lines[l], c.rows[l])
      /\ ShownAlready(u, c)
  BY <1>3 DEF ScrollEnds, ShownAlready, d
<1>6. Counted(u) \/ s.direct
  BY WindowRows, <1>4, <1>1, <1>5 DEF Counted
<1>7. Scrolled(s, u, c)
  BY <1>1, <1>4, <1>5, <1>6 DEF Scrolled
<1>8. ScrollsOn(s, u, width)
  <2> SUFFICES ASSUME NEW r0 \in RemoteType(width), NEW resized, NEW hidden \in BOOLEAN, ~s.t.plain,
                      ScrollBegins(s, r0, resized, hidden, width)
               PROVE  \E h \in {hidden, FALSE} : ScrollKept(u, r0, resized, h, width)
    BY DEF ScrollsOn
  <2>1. PICK h \in {hidden, FALSE} : ScrollBegins(z, r0, resized, h, width)
    BY <1>1
  <2>2. h \in BOOLEAN /\ ~z.t.plain
    BY <1>1
  <2>3. ScrollKept(u, r0, resized, h, width)
    BY <2>1, <2>2, <1>3
  <2> QED BY <2>3
<1> QED BY <1>3, <1>7, <1>8

\* A scrape of what was scraped before sends nothing.
LEMMA ScrollingAgain ==
  ASSUME NEW width \in Nat, width >= 1, width <= MaxWidth, NEW c, ConsoleOK(c, width), NEW s \in Scrapers(width),
         s.t.out = <<>>, Counted(s), UpToDate(s, c), ~s.direct
  PROVE  ScrollingScrape(s, c).t = s.t
<1> DEFINE top == c.top
           d == DirtyBelow(s, c)
           m == s.dirtyLines
<1>1. /\ s.dirtyTop = top /\ c.cur.row < m /\ \A l \in m..(top + Height - 1) : BlankBelow(c, l)
      /\ \A l \in top..(top + Height - 1) : l < m => Remembers(s.lines[l], c.rows[l])
      /\ ShownAlready(s, c)
  BY DEF UpToDate
<1>2. top \in Nat /\ Height \in Nat /\ HasRows(c, width) /\ \A l \in Nat : l < top + Height => l \in Rows
  BY WindowRows, ConstantsFit DEF ConsoleOK
<1>3. s.dirtyTop # -1 /\ s.scraped = top /\ m \in Nat /\ s.maxBuffered = m - 1 /\ m <= top + Height
  BY <1>1, <1>2 DEF Counted
<1>4. ScrollStart(s, c) = s /\ ScrollReady(s, c)
  <2>1. (s.dirtyTop = -1 /\ ScrollReady(s, c)) \/ (s.dirtyTop # -1 /\ s.t.out = <<>> /\ Counted(s))
    BY <1>3
  <2> DEFINE z == ScrollStart(s, c)
  <2>2. z = z
    OBVIOUS
  <2> HIDE DEF z
  <2>3. ScrollReady(z, c) /\ (s.dirtyTop \in {-1, c.top} => z = s)
    BY <2>1, ScrollStartHolds DEF z, StartsScroll
  <2> QED BY <2>3, <1>1 DEF z
<1>5. d = m
  BY <1>1, <1>4, DirtyHolds
<1>6. KnewAll(s, c, s.scraped, d - s.scraped)
  <2> SUFFICES ASSUME NEW l \in s.scraped..(s.scraped + (d - s.scraped) - 1)
               PROVE  l <= s.maxBuffered /\ LinesEqual(s.lines[l], c.rows[l])
    BY DEF KnewAll
  <2>1. l \in Nat /\ top <= l /\ l < m
    <3> HIDE DEF top, d, m
    <3> QED BY <1>2, <1>3, <1>5
  <2>2. l \in Rows /\ l \in top..(top + Height - 1) /\ l <= m - 1
    <3>1. l < top + Height
      <4> HIDE DEF top, d, m
      <4> QED BY <2>1, <1>2, <1>3
    <3> HIDE DEF top, m
    <3> QED BY <2>1, <3>1, <1>2, <1>3
  <2>3. Remembers(s.lines[l], c.rows[l])
    BY <2>1, <2>2, <1>1
  <2>4. s.lines[l] \in LineRecords /\ c.rows[l] \in Seq(Cell)
    BY <2>2, <1>2, ScraperFields DEF HasRows
  <2>5. LinesEqual(s.lines[l], c.rows[l])
    BY <2>3, <2>4, RememberedEqual
  <2> QED BY <2>2, <2>5, <1>3
<1>7. ScrollFrom(s, c).t = s.t
  BY <1>1, <1>4, <1>6, ScrollFromHolds
<1> QED BY <1>4, <1>7, ScrollingIsFrom
-----------------------------------------------------------------------------
(* A whole scrape.                                                         *)

SyncedTo(s, m, c, width) ==
  /\ m \in Scrapers(width) /\ m.direct = c.direct /\ m.t.plain = s.t.plain /\ m.t.outputColor = s.t.outputColor
  /\ IF c.direct THEN Counted(m)
     ELSE (m.dirtyTop = -1 /\ ScrollReady(m, c)) \/ (m.dirtyTop # -1 /\ m.t.out = <<>> /\ Counted(m))
  /\ \A r0 \in RemoteType(width) : \A resized : \A hidden \in BOOLEAN :
       ~s.t.plain /\ Told(s.t, r0, resized, hidden) /\ LinesShown(s, Now(r0, s.t), width, resized)
         => \E h \in {hidden, FALSE} :
              IF c.direct THEN Told(m.t, r0, resized, h) /\ DirectShows(m, Now(r0, m.t), width, resized, width)
              ELSE ScrollBegins(m, r0, resized, h, width)

\* A scrape in the same mode starts from what is tracked,
LEMMA SyncedSame ==
  ASSUME NEW width \in Nat, width >= 1, NEW c, ConsoleOK(c, width), NEW s \in Scrapers(width),
         s.t.out = <<>>, Counted(s), s.direct = c.direct
  PROVE  SyncedTo(s, s, c, width)
<1> DEFINE top == c.top
           lo == s.scraped
           mb == s.maxBuffered
<1>1. top \in Nat /\ Height \in Nat /\ lo \in Nat /\ mb \in Int /\ s.dirtyLines \in Nat
  <2>1. top \in Nat /\ Height \in Nat /\ MaxTop \in Nat
    BY WindowRows, ConstantsFit
  <2>2. lo \in 0..MaxTop /\ mb \in Int
    BY ScraperFields
  <2>3. s.dirtyLines \in Nat
    BY DEF Counted
  <2> QED BY <2>1, <2>2, <2>3
<1>2. mb = s.dirtyLines - 1 /\ (s.dirtyTop = -1 => s.dirtyLines = 0 /\ lo = 0) /\ (s.dirtyTop # -1 => lo < s.dirtyLines)
  BY DEF Counted
<1>s. s.t.line \in Nat
  BY ScraperFields
<1>3. s.dirtyTop = -1 => ScrollReady(s, c)
  <2> SUFFICES ASSUME s.dirtyTop = -1 PROVE ScrollReady(s, c)
    OBVIOUS
  <2>1. s.dirtyLines = 0 /\ lo = 0 /\ mb = -1
    BY <1>2
  <2>2. 0 <= top + Height /\ 0 <= top /\ -1 < 0 /\ 0 \in Nat
    BY <1>1
  <2> HIDE DEF top
  <2> QED BY <2>1, <2>2 DEF ScrollReady, top
<1>4. ASSUME NEW r0 \in RemoteType(width), NEW resized, NEW hidden \in BOOLEAN, ~s.direct,
             Told(s.t, r0, resized, hidden), LinesShown(s, Now(r0, s.t), width, resized)
      PROVE  ScrollBegins(s, r0, resized, hidden, width)
  <2> DEFINE r == Now(r0, s.t)
             o == r.row - s.t.line
  <2>1. ScrollShows(s, r, lo, resized, width) /\ lo + o >= 1
    BY <1>4 DEF LinesShown
  <2>2. mb + o <= Height
    BY <2>1 DEF ScrollShows
  <2>3. o \in Int
    <3>1. r \in RemoteType(width)
      BY ScraperFields, NowType
    <3>2. r.row \in 1..Height
      <4>1. PICK p \in RemoteType(width) : p = r
        BY <3>1
      <4> HIDE DEF r
      <4>2. p.row \in 1..Height
        BY <1>1, RemoteFields
      <4> QED BY <4>1, <4>2
    <3> HIDE DEF r
    <3> QED BY <3>2, <1>1, <1>s
  <2>4. lo + o \in 1..(Height + 1)
    <3>1. lo <= mb + 1
      <4> HIDE DEF lo, mb
      <4> QED BY <1>1, <1>2
    <3> HIDE DEF lo, mb, o
    <3> QED BY <2>1, <2>2, <2>3, <3>1, <1>1
  <2> QED BY <2>1, <2>4, <1>4 DEF ScrollBegins
<1>5. ASSUME NEW r0 \in RemoteType(width), NEW resized, NEW hidden \in BOOLEAN,
             Told(s.t, r0, resized, hidden), LinesShown(s, Now(r0, s.t), width, resized)
      PROVE  IF c.direct THEN Told(s.t, r0, resized, hidden) /\ DirectShows(s, Now(r0, s.t), width, resized, width)
             ELSE ScrollBegins(s, r0, resized, hidden, width)
  BY <1>4, <1>5 DEF LinesShown
<1> QED BY <1>3, <1>5 DEF SyncedTo

\* one in another mode from nothing,
LEMMA SyncedAnew ==
  ASSUME NEW width \in Nat, width >= 1, NEW c, ConsoleOK(c, width), NEW s \in Scrapers(width), s.t.out = <<>>,
         NEW line, line = IF c.direct THEN 0 ELSE c.top,
         NEW m, m = [ResetConsoleTracking(s, TRUE, line) EXCEPT !.direct = c.direct]
  PROVE  SyncedTo(s, m, c, width)
<1>1. PICK z : z = ResetConsoleTracking(s, TRUE, line)
  OBVIOUS
<1>2. c.top \in Nat /\ c.top <= MaxTop /\ c.direct \in BOOLEAN /\ Height \in Nat /\ MaxTop \in Nat
  BY WindowRows, ConstantsFit
<1>3. line \in 0..MaxTop /\ line \in Nat /\ line <= c.top
  BY <1>2
<1>4. /\ z \in Scrapers(width) /\ NewlyTracked(s, z, line)
      /\ ~s.t.plain => \A r0 \in RemoteType(width) : NewScreen(z, r0)
  BY <1>1, <1>3, ResetTracking
<1>5. m = [z EXCEPT !.direct = c.direct]
  BY <1>1
<1>6. /\ m \in Scrapers(width) /\ m.direct = c.direct /\ m.t = z.t /\ m.lines = z.lines /\ m.scraped = line
      /\ m.maxBuffered = -1 /\ m.dirtyTop = -1 /\ m.dirtyLines = 0
      /\ m.t.plain = s.t.plain /\ m.t.outputColor = s.t.outputColor
  BY <1>2, <1>4, <1>5 DEF Scrapers, NewlyTracked
<1>7. IF c.direct THEN Counted(m) ELSE m.dirtyTop = -1 /\ ScrollReady(m, c)
  <2>1. CASE c.direct
    <3>1. line = 0
      BY <2>1
    <3>2. 0 \in Nat /\ -1 = 0 - 1 /\ 0 <= 0 + Height
      BY <1>2
    <3> QED BY <3>1, <3>2, <2>1, <1>6 DEF Counted
  <2>2. CASE ~c.direct
    <3>1. 0 \in Nat /\ 0 <= c.top + Height /\ -1 < 0
      BY <1>2
    <3> QED BY <3>1, <2>2, <1>3, <1>6 DEF ScrollReady
  <2> QED BY <2>1, <2>2
<1>8. ASSUME NEW r0 \in RemoteType(width), NEW resized, ~s.t.plain
      PROVE  IF c.direct THEN Told(m.t, r0, resized, FALSE) /\ DirectShows(m, Now(r0, m.t), width, resized, width)
             ELSE ScrollBegins(m, r0, resized, FALSE, width)
  <2> DEFINE q == Now(r0, z.t)
  <2>1. Told(z.t, r0, resized, FALSE) /\ q.row = 1 /\ \A k \in 1..Height : q.rows[k] = BlankRow(OwnColor)
    BY <1>4, <1>8 DEF NewScreen
  <2> HIDE DEF q
  <2>2. CASE c.direct
    <3>1. line = 0
      BY <2>2
    <3>2. NewlyTracked(s, z, 0)
      BY <3>1, <1>4
    <3>3. DirectShows(z, q, width, resized, width)
      BY <3>2, <2>1, NewlyDirect
    <3>4. DirectShows(m, q, width, resized, width)
      BY <3>3, <1>6 DEF DirectShows
    <3> QED BY <3>4, <2>1, <2>2, <1>6 DEF q
  <2>3. CASE ~c.direct
    <3>1. ScrollShows(z, q, line, resized, width) /\ line + (q.row - z.t.line) = 1
      BY <2>1, <1>3, <1>4, NewlyScrolls
    <3>2. z.maxBuffered = m.maxBuffered /\ z.t = m.t /\ z.lines = m.lines
      BY <1>4, <1>6 DEF NewlyTracked
    <3>3. ScrollShows(m, q, line, resized, width) /\ line + (q.row - m.t.line) = 1
      BY <3>1, <3>2 DEF ScrollShows, LineThere
    <3>4. 1 \in 1..(Height + 1)
      BY <1>2
    <3> QED BY <3>3, <3>4, <2>1, <2>3, <1>6 DEF ScrollBegins, q
  <2> QED BY <2>2, <2>3, <1>2
<1> QED BY <1>6, <1>7, <1>8 DEF SyncedTo

\* and syncConsoleContentAndSize chooses between them.
LEMMA ModeSyncedHolds ==
  ASSUME NEW width \in Nat, width >= 1, NEW c, ConsoleOK(c, width), NEW s \in Scrapers(width),
         s.t.out = <<>>, Counted(s)
  PROVE  SyncedTo(s, ModeSynced(s, c), c, width)
<1>1. CASE s.direct = c.direct
  BY <1>1, SyncedSame DEF ModeSynced
<1>2. CASE s.direct # c.direct
  <2>1. PICK line : line = IF c.direct THEN 0 ELSE c.top
    OBVIOUS
  <2>2. PICK m : m = [ResetConsoleTracking(s, TRUE, line) EXCEPT !.direct = c.direct]
    OBVIOUS
  <2>3. ModeSynced(s, c) = m
    BY <2>1, <2>2, <1>2 DEF ModeSynced
  <2> QED BY <2>1, <2>2, <2>3, SyncedAnew
<1> QED BY <1>1, <1>2

\* What a scrape leaves.
ScrapedTo(s, u, c, width) ==
  /\ u \in Scrapers(width) /\ Counted(u) /\ UpToDate(u, c)
  /\ u.t.plain = s.t.plain /\ u.t.outputColor = s.t.outputColor
  /\ \A r0 \in RemoteType(width) : \A resized : \A hidden \in BOOLEAN :
       ~s.t.plain /\ Told(s.t, r0, resized, hidden) /\ LinesShown(s, Now(r0, s.t), width, resized)
         => \E h \in {hidden, FALSE} : Told(u.t, r0, resized, h) /\ LinesShown(u, Now(r0, u.t), width, resized)

\* A direct scrape reads the whole window, from the console's first line.
LEMMA DirectRows ==
  ASSUME NEW width \in Nat, width >= 1, NEW c, ConsoleOK(c, width), c.direct
  PROVE  /\ Scrapable(c, width) /\ c.top = 0 /\ CursorSeen(c, width) = c.visible
         /\ \A j \in 0..(Height - 1) : DirectCells(c, j, width) = c.rows[j]
<1>1. c.top = 0 /\ c.visible \in BOOLEAN
  BY WindowRows DEF ConsoleOK
<1>2. ASSUME NEW j \in 0..(Height - 1)
      PROVE  /\ c.rows[j] \in Seq(Cell) /\ Paired(c.rows[j]) /\ Len(c.rows[j]) = width
             /\ DirectCells(c, j, width) = c.rows[j]
  <2>1. Height \in Nat /\ MaxTop \in Nat
    BY ConstantsFit
  <2>2. j \in Rows
    BY <2>1 DEF Rows
  <2>3. c.rows[j] \in Seq(Cell) /\ Paired(c.rows[j]) /\ Len(c.rows[j]) = width
    BY <2>2 DEF ConsoleOK, HasRows
  <2>4. PICK row \in Seq(Cell) : row = c.rows[j]
    BY <2>3
  <2>5. SubSeq(row, 1, width) = row
    BY <2>3, <2>4
  <2>6. c.top + j = j
    BY <1>1, <2>1
  <2> QED BY <2>3, <2>4, <2>5, <2>6 DEF DirectCells
<1>3. CursorSeen(c, width) = c.visible
  BY <1>1 DEF CursorSeen, ConsoleOK
<1> QED BY <1>1, <1>2, <1>3 DEF Scrapable

\* What a direct scrape leaves is up to date and shown,
LEMMA DirectScrapedHolds ==
  ASSUME NEW width \in Nat, width >= 1, width <= MaxWidth, NEW c, ConsoleOK(c, width), c.direct,
         NEW s \in Scrapers(width), NEW m, SyncedTo(s, m, c, width), NEW u, u = DirectScrape(m, c, width)
  PROVE  ScrapedTo(s, u, c, width)
<1>1. /\ Scrapable(c, width) /\ c.top = 0 /\ CursorSeen(c, width) = c.visible
      /\ \A j \in 0..(Height - 1) : DirectCells(c, j, width) = c.rows[j]
  BY DirectRows
<1>2. c.visible \in BOOLEAN /\ c.cur.row \in Nat /\ c.cur.col \in Nat /\ width \in 1..width /\ Height \in Nat
  BY WindowRows, ConstantsFit
<1>3. /\ m \in Scrapers(width) /\ m.direct = TRUE /\ m.t.plain = s.t.plain /\ m.t.outputColor = s.t.outputColor
      /\ Counted(m)
  BY DEF SyncedTo
<1>4. /\ u \in Scrapers(width) /\ DirectEnds(m, u, c, width)
      /\ \A r0 \in RemoteType(width) : \A resized : \A hidden \in BOOLEAN :
           ~m.t.plain /\ Told(m.t, r0, resized, hidden) /\ DirectShows(m, Now(r0, m.t), width, resized, width)
           /\ Fits(m, width, width)
           => Told(u.t, r0, resized, hidden) /\ DirectShows(u, Now(r0, u.t), width, resized, width)
  BY <1>1, <1>2, <1>3, DirectHolds
<1>5. SameFields(m, u)
  BY <1>4 DEF DirectEnds
<1>6. u.direct /\ Counted(u) /\ u.t.plain = s.t.plain /\ u.t.outputColor = s.t.outputColor
  BY <1>3, <1>5 DEF SameFields, Counted
<1>7. UpToDate(u, c)
  BY <1>1, <1>4, <1>2, <1>3, <1>5, <1>6 DEF DirectEnds, ShownAlready, SameFields, SyncedTo, UpToDate
<1>8. ASSUME NEW r0 \in RemoteType(width), NEW resized, NEW hidden \in BOOLEAN,
             ~s.t.plain, Told(s.t, r0, resized, hidden), LinesShown(s, Now(r0, s.t), width, resized)
      PROVE  \E h \in {hidden, FALSE} : Told(u.t, r0, resized, h) /\ LinesShown(u, Now(r0, u.t), width, resized)
  <2>1. PICK h \in {hidden, FALSE} : Told(m.t, r0, resized, h) /\ DirectShows(m, Now(r0, m.t), width, resized, width)
    BY <1>8 DEF SyncedTo
  <2>2. h \in BOOLEAN /\ Fits(m, width, width) /\ ~m.t.plain
    BY <1>3, <1>8 DEF Fits
  <2>3. Told(u.t, r0, resized, h) /\ DirectShows(u, Now(r0, u.t), width, resized, width)
    BY <1>4, <2>1, <2>2
  <2> QED BY <2>3, <1>6 DEF LinesShown
<1> QED BY <1>4, <1>6, <1>7, <1>8 DEF ScrapedTo

\* and what a scrolling scrape leaves,
LEMMA ScrollingScrapedHolds ==
  ASSUME NEW width \in Nat, width >= 1, width <= MaxWidth, NEW c, ConsoleOK(c, width), ~c.direct,
         NEW s \in Scrapers(width), NEW m, SyncedTo(s, m, c, width), NEW u, u = ScrollingScrape(m, c)
  PROVE  ScrapedTo(s, u, c, width)
<1>1. /\ m \in Scrapers(width) /\ m.direct = c.direct /\ m.t.plain = s.t.plain /\ m.t.outputColor = s.t.outputColor
      /\ (m.dirtyTop = -1 /\ ScrollReady(m, c)) \/ (m.dirtyTop # -1 /\ m.t.out = <<>> /\ Counted(m))
  BY DEF SyncedTo
<1>2. u \in Scrapers(width) /\ Scrolled(m, u, c) /\ ScrollsOn(m, u, width)
  BY <1>1, ScrollingHolds
<1>3. /\ u.direct = c.direct /\ ~u.direct /\ u.t.plain = s.t.plain /\ u.t.outputColor = s.t.outputColor
      /\ Counted(u)
  BY <1>1, <1>2 DEF Scrolled
<1>4. UpToDate(u, c)
  BY <1>2, <1>3 DEF UpToDate, Scrolled
<1>5. ASSUME NEW r0 \in RemoteType(width), NEW resized, NEW hidden \in BOOLEAN,
             ~s.t.plain, Told(s.t, r0, resized, hidden), LinesShown(s, Now(r0, s.t), width, resized)
      PROVE  \E h \in {hidden, FALSE} : Told(u.t, r0, resized, h) /\ LinesShown(u, Now(r0, u.t), width, resized)
  <2>1. PICK g \in {hidden, FALSE} : ScrollBegins(m, r0, resized, g, width)
    BY <1>5 DEF SyncedTo
  <2>2. g \in BOOLEAN /\ ~m.t.plain
    BY <1>1, <1>5
  <2>3. PICK h \in {g, FALSE} : ScrollKept(u, r0, resized, h, width)
    BY <1>2, <2>1, <2>2 DEF ScrollsOn
  <2>4. Told(u.t, r0, resized, h) /\ LinesShown(u, Now(r0, u.t), width, resized)
    BY <2>3, <1>3 DEF LinesShown, ScrollKept
  <2> QED BY <2>4
<1> QED BY <1>2, <1>3, <1>4, <1>5 DEF ScrapedTo

\* and what any scrape leaves.
LEMMA ScrapedHolds ==
  ASSUME NEW width \in Nat, width >= 1, width <= MaxWidth, NEW c, ConsoleOK(c, width), NEW s \in Scrapers(width),
         s.t.out = <<>>, Counted(s), NEW u, u = Scraped(s, c, width)
  PROVE  ScrapedTo(s, u, c, width)
<1>1. PICK m : m = ModeSynced(s, c)
  OBVIOUS
<1>2. SyncedTo(s, m, c, width)
  BY <1>1, ModeSyncedHolds
<1>3. u = IF m.direct THEN DirectScrape(m, c, width) ELSE ScrollingScrape(m, c)
  BY <1>1 DEF Scraped
<1>4. m.direct = c.direct
  BY <1>2 DEF SyncedTo
<1>5. CASE c.direct
  BY <1>2, <1>3, <1>4, <1>5, DirectScrapedHolds
<1>6. CASE ~c.direct
  BY <1>2, <1>3, <1>4, <1>6, ScrollingScrapedHolds
<1> QED BY <1>5, <1>6

-----------------------------------------------------------------------------
(* The steps.                                                              *)

\* What was written has gone.
Emptied(u, x, width) ==
  /\ x \in Scrapers(width) /\ x.t.out = <<>> /\ SameTerm(u.t, x.t) /\ x.t.hidden = u.t.hidden
  /\ x.direct = u.direct /\ x.lines = u.lines /\ x.scraped = u.scraped /\ x.maxBuffered = u.maxBuffered
  /\ x.dirtyTop = u.dirtyTop /\ x.dirtyLines = u.dirtyLines

\* What has been written and performed may be forgotten:
LEMMA EmptiedType ==
  ASSUME NEW width \in Nat, NEW old \in Nat, NEW u \in Scrapers(old), NEW x, x = [u EXCEPT !.t.out = <<>>]
  PROVE  Emptied(u, x, width)
<1>1. u.t \in TermType(old) /\ TermOK(u.t)
  BY ScraperFields
<1>2. PICK t : t = [u.t EXCEPT !.out = <<>>]
  OBVIOUS
<1>3. x = [u EXCEPT !.t = t]
  BY <1>2 DEF Scrapers
<1>4. /\ t \in TermType(width) /\ t.out = <<>> /\ t.hidden = u.t.hidden
      /\ SameTerm(u.t, t)
  <2>1. <<>> \in Seq(Ops(width))
    OBVIOUS
  <2> QED BY <1>1, <1>2, <2>1 DEF TermType, SameTerm
<1>5. TermOK(t)
  BY <1>1, <1>4 DEF TermOK, SameTerm, Appending
<1>6. t \in Terms(width)
  BY <1>4, <1>5 DEF Terms
<1>7. /\ x \in Scrapers(width) /\ x.t = t
      /\ x.direct = u.direct /\ x.lines = u.lines /\ x.scraped = u.scraped /\ x.maxBuffered = u.maxBuffered
      /\ x.dirtyTop = u.dirtyTop /\ x.dirtyLines = u.dirtyLines
  BY <1>3, <1>6 DEF Scrapers
<1> QED BY <1>4, <1>7 DEF Emptied

\* all that is known stays known.
LEMMA EmptiedHolds ==
  ASSUME NEW width \in Nat, NEW u, NEW x, Emptied(u, x, width)
  PROVE  /\ Counted(u) => Counted(x)
         /\ \A c : UpToDate(u, c) => UpToDate(x, c)
         /\ \A r, resized : Known(u.t, r, resized) => Known(x.t, r, resized)
         /\ \A r, resized, w : LinesShown(u, r, w, resized) => LinesShown(x, r, w, resized)
<1>1. Counted(u) => Counted(x)
  BY DEF Emptied, Counted
<1>2. ASSUME NEW c, UpToDate(u, c)
      PROVE  UpToDate(x, c)
  BY <1>2 DEF Emptied, SameTerm, UpToDate, ShownAlready
<1>3. ASSUME NEW r, NEW resized, Known(u.t, r, resized)
      PROVE  Known(x.t, r, resized)
  BY <1>3 DEF Emptied, SameTerm, Known
<1>4. ASSUME NEW r, NEW resized, NEW w, LinesShown(u, r, w, resized)
      PROVE  LinesShown(x, r, w, resized)
  BY <1>4 DEF LinesShown, DirectShows, Emptied, SameTerm, LineThere, ScrollShows
<1> QED BY <1>1, <1>2, <1>3, <1>4

\* Where nothing has been written the terminal is as it was.
LEMMA NothingTold ==
  ASSUME NEW width \in Nat, width >= 1, NEW r \in RemoteType(width), NEW t, t.out = <<>>, NEW resized, Known(t, r, resized)
  PROVE  Told(t, r, resized, t.hidden) /\ Now(r, t) = r
BY PerformNone DEF Now, ForCursor, Told, CursorTold

\* The width of the console and of the terminal.
LEMMA WidthFits ==
  ASSUME NEW c, NEW width, ConsoleOK(c, width)
  PROVE  width \in Nat /\ width >= 1 /\ width <= MaxWidth /\ Len(c.rows[0]) = width
BY ConstantsFit DEF ConsoleOK, Rows, HasRows

\* A scrape: what it sends is performed, and what it remembers is true of the terminal then.
LEMMA ScrapeStep ==
  ASSUME IInv, Scrape
  PROVE  IInv'
<1>1. PICK u : u = Scraped(sc, con, Width) /\ Deliver(u)
  BY DEF Scrape
<1>2. PICK width : width = Width
  OBVIOUS
<1>3. /\ ConsoleOK(con, width) /\ sc \in Scrapers(width) /\ sc.t.out = <<>> /\ Counted(sc)
      /\ remote \in RemoteType(width) /\ width \in Nat /\ width >= 1 /\ width <= MaxWidth
  BY <1>2, WidthFits DEF IInv
<1>4. ScrapedTo(sc, u, con, width)
  BY <1>1, <1>2, <1>3, ScrapedHolds
<1>5. /\ con' = con /\ pc' = "drawn" /\ resizes' = resizes /\ lostColumn' = lostColumn /\ Width' = width
  BY <1>2 DEF Scrape, Width
<1>6. u \in Scrapers(width) /\ u.t \in TermType(width)
  BY <1>3, <1>4, ScraperFields DEF ScrapedTo
<1>7. remote' = Now(remote, u.t) /\ sc' = [u EXCEPT !.t.out = <<>>]
  BY <1>1 DEF Deliver, Now
<1>8. Emptied(u, sc', width)
  BY <1>3, <1>6, <1>7, EmptiedType
<1>9. remote' \in RemoteType(width)
  BY <1>3, <1>6, <1>7, NowType
<1>10. Counted(sc') /\ UpToDate(sc', con)
  BY <1>3, <1>4, <1>8, EmptiedHolds DEF ScrapedTo
<1>11. lostHide' \in BOOLEAN
  BY <1>1 DEF Deliver, IInv
<1>12. ASSUME ~sc'.t.plain, ~lostColumn
       PROVE  /\ Known(sc'.t, remote', resizes) /\ (~sc'.t.hidden => remote'.visible \/ lostHide')
              /\ LinesShown(sc', remote', width, resizes)
  <2>1. ~sc.t.plain
    BY <1>4, <1>8, <1>12 DEF ScrapedTo, Emptied, SameTerm
  <2>2. Known(sc.t, remote, resizes) /\ LinesShown(sc, remote, width, resizes)
    BY <2>1, <1>2, <1>12 DEF IInv
  <2>3. Told(sc.t, remote, resizes, sc.t.hidden) /\ Now(remote, sc.t) = remote
    BY <1>3, <2>2, NothingTold
  <2>4. sc.t.hidden \in BOOLEAN
    BY <1>3, ScraperFields DEF TermType
  <2>5. PICK h \in {sc.t.hidden, FALSE} : Told(u.t, remote, resizes, h) /\ LinesShown(u, remote', width, resizes)
    BY <1>3, <1>4, <1>7, <2>1, <2>2, <2>3, <2>4 DEF ScrapedTo
  <2>6. Known(sc'.t, remote', resizes) /\ LinesShown(sc', remote', width, resizes)
    <3>1. Known(u.t, remote', resizes)
      BY <1>7, <2>5 DEF Told
    <3> QED BY <1>3, <1>8, <2>5, <3>1, EmptiedHolds
  <2>7. ASSUME ~sc'.t.hidden PROVE remote'.visible \/ lostHide'
    <3>1. ~u.t.hidden
      BY <1>8, <2>7 DEF Emptied
    <3>2. CASE ForCursor(u.t.out)
      BY <2>5, <3>2, <1>7, <1>9, <3>1 DEF Told, CursorTold, RemoteType
    <3>3. CASE ~ForCursor(u.t.out)
      <4>1. remote'.visible = remote.visible
        BY <2>5, <3>3, <1>7 DEF Told, CursorTold
      <4>2. DOMAIN u.t.out = 1..Len(u.t.out)
        BY <1>6 DEF TermType
      <4>3. lostHide' = (lostHide \/ (~remote.visible /\ ~u.t.hidden))
        BY <1>1, <3>3, <4>2 DEF Deliver, ForCursor
      <4> QED BY <3>1, <4>1, <4>3
    <3> QED BY <3>2, <3>3
  <2> QED BY <2>6, <2>7
<1>13. sc'.t.out = <<>> /\ sc' \in Scrapers(width) /\ resizes \in Nat /\ lostColumn \in BOOLEAN
  BY <1>8 DEF IInv, Emptied
<1> QED BY <1>3, <1>5, <1>8, <1>9, <1>10, <1>11, <1>12, <1>13 DEF IInv

-----------------------------------------------------------------------------
(* Programs.                                                               *)

\* The cell of a row that a glyph of n cells has been written to.
WrittenCell(row, w, i, n, glyph, k) ==
  IF k \in i..(i + n - 1)
  THEN /\ w[k].ch = glyph.ch /\ w[k].color = glyph.color
       /\ w[k].half = IF n = 1 THEN "none" ELSE IF k = i THEN "lead" ELSE "trail"
  ELSE IF (k = i - 1 /\ row[k].half = "lead") \/ (k = i + n /\ row[k].half = "trail")
       THEN w[k] = BlankCell(row[k].color) ELSE w[k] = row[k]

\* A blank is a cell.
LEMMA BlankIsCell ==
  ASSUME NEW color \in Nat
  PROVE  BlankCell(color) \in Cell /\ BlankCell(color).half = "none"
BY DEF BlankCell, Cell, IsCell, HighSurrogate, LowSurrogate

\* A half of a wide character that lost the other becomes a blank.
LEMMA HalvedType ==
  ASSUME NEW row \in Seq(Cell), NEW i
  PROVE  /\ Halved(row, i) \in Seq(Cell) /\ Len(Halved(row, i)) = Len(row)
         /\ \A k \in 1..Len(row) :
              Halved(row, i)[k] = IF (k = i - 1 /\ row[k].half = "lead") \/ (k = i + 1 /\ row[k].half = "trail")
                                  THEN BlankCell(row[k].color) ELSE row[k]
<1> DEFINE h == Halved(row, i)
<1>1. DOMAIN row = 1..Len(row) /\ Len(row) \in Nat
  OBVIOUS
<1>2. \A k \in 1..Len(row) : row[k] \in Cell /\ row[k].color \in Nat
  BY CellFields
<1>3. \A k \in 1..Len(row) : BlankCell(row[k].color) \in Cell
  BY <1>2, BlankIsCell
<1>4. h \in [1..Len(row) -> Cell]
  BY <1>1, <1>2, <1>3 DEF Halved
<1>5. h \in Seq(Cell) /\ Len(h) = Len(row)
  BY <1>1, <1>4
<1> QED BY <1>1, <1>5 DEF Halved

\* The cells of a row with a character written to it.
LEMMA WrittenCells ==
  ASSUME NEW row \in Seq(Cell), NEW i \in 1..Len(row), NEW glyph \in Glyphs, NEW n,
         n = IF glyph.wide THEN 2 ELSE 1, i + n - 1 <= Len(row), NEW w, w = Written(row, i, glyph)
  PROVE  w \in Seq(Cell) /\ Len(w) = Len(row) /\ \A k \in 1..Len(row) : WrittenCell(row, w, i, n, glyph, k)
<1>1. /\ glyph.ch \in Nat /\ glyph.wide \in BOOLEAN /\ glyph.color \in Nat
      /\ ~HighSurrogate(glyph.ch) /\ ~LowSurrogate(glyph.ch) /\ (glyph.wide => glyph.ch # 32)
  BY ScreenAssumption DEF GlyphAssumption
<1> DEFINE cell(half) == [ch |-> glyph.ch, half |-> half, color |-> glyph.color]
<1>2. cell("none") \in Cell /\ (glyph.wide => cell("lead") \in Cell /\ cell("trail") \in Cell)
  BY <1>1 DEF Cell, IsCell
<1>3. PICK h : h = Halved(row, i)
  OBVIOUS
<1>4. /\ h \in Seq(Cell) /\ Len(h) = Len(row)
      /\ \A k \in 1..Len(row) :
           h[k] = IF (k = i - 1 /\ row[k].half = "lead") \/ (k = i + 1 /\ row[k].half = "trail")
                  THEN BlankCell(row[k].color) ELSE row[k]
  BY <1>3, HalvedType
<1>5. \A k \in 1..Len(row) : row[k] \in Cell /\ row[k].color \in Nat /\ BlankCell(row[k].color).half = "none"
  BY CellFields, BlankIsCell
<1>6. CASE ~glyph.wide
  <2>1. w = [h EXCEPT ![i] = cell("none")] /\ n = 1
    BY <1>3, <1>6 DEF Written
  <2> HIDE DEF cell
  <2>2. w \in Seq(Cell) /\ Len(w) = Len(row) /\ w[i] = cell("none") /\ \A k \in 1..Len(row) : k # i => w[k] = h[k]
    BY <2>1, <1>2, <1>4
  <2> QED BY <2>1, <2>2, <1>4, <1>6 DEF WrittenCell, cell
<1>7. CASE glyph.wide
  <2>1. PICK g : g = Halved(h, i + 1)
    OBVIOUS
  <2>2. /\ g \in Seq(Cell) /\ Len(g) = Len(row)
        /\ \A k \in 1..Len(row) :
             g[k] = IF (k = (i + 1) - 1 /\ h[k].half = "lead") \/ (k = (i + 1) + 1 /\ h[k].half = "trail")
                    THEN BlankCell(h[k].color) ELSE h[k]
    <3>1. i + 1 \in Nat
      OBVIOUS
    <3> HIDE DEF cell
    <3>2. PICK j \in Nat : j = i + 1
      BY <3>1
    <3>3. g = Halved(h, j) /\ h \in Seq(Cell) /\ Len(h) = Len(row)
      BY <1>4, <2>1, <3>2
    <3>4. /\ g \in Seq(Cell) /\ Len(g) = Len(h)
          /\ \A k \in 1..Len(h) :
               g[k] = IF (k = j - 1 /\ h[k].half = "lead") \/ (k = j + 1 /\ h[k].half = "trail")
                      THEN BlankCell(h[k].color) ELSE h[k]
      BY <3>3, HalvedType
    <3> QED BY <3>2, <3>3, <3>4
  <2>3. w = [g EXCEPT ![i] = cell("lead"), ![i + 1] = cell("trail")] /\ n = 2
    BY <1>3, <1>7, <2>1 DEF Written
  <2>4. i + 1 \in 1..Len(row)
    BY <2>3
  <2>5. w \in Seq(Cell) /\ Len(w) = Len(row)
    <3>1. PICK g1 : g1 = [g EXCEPT ![i] = cell("lead")]
      OBVIOUS
    <3>2. g1 \in Seq(Cell) /\ Len(g1) = Len(row)
      BY <1>2, <1>7, <2>2, <3>1
    <3>3. w = [g1 EXCEPT ![i + 1] = cell("trail")]
      BY <2>3, <3>1
    <3> QED BY <1>2, <1>7, <2>4, <3>2, <3>3
  <2>6. \A k \in 1..Len(row) : w[k] = IF k = i THEN cell("lead") ELSE IF k = i + 1 THEN cell("trail") ELSE g[k]
    BY <2>2, <2>3, <2>4
  <2>7. ASSUME NEW k \in 1..Len(row)
        PROVE  WrittenCell(row, w, i, n, glyph, k)
    <3>1. CASE k = i \/ k = i + 1
      <4>1. k \in i..(i + n - 1) /\ n # 1
        BY <2>3, <3>1
      <4>2. w[k] = IF k = i THEN cell("lead") ELSE cell("trail")
        BY <2>6, <3>1
      <4>3. w[k].ch = glyph.ch /\ w[k].color = glyph.color /\ w[k].half = IF k = i THEN "lead" ELSE "trail"
        BY <4>2
      <4> QED BY <4>1, <4>3 DEF WrittenCell
    <3>2. CASE k < i
      BY <2>2, <2>3, <2>6, <3>2, <1>4 DEF WrittenCell
    <3>3. CASE k > i + 1
      BY <1>4, <2>3, <3>3, <2>2, <2>6 DEF WrittenCell
    <3> QED BY <3>1, <3>2, <3>3
  <2> QED BY <2>5, <2>7
<1> QED BY <1>1, <1>6, <1>7

\* Programs leave no half of a wide character alone.
LEMMA WrittenPaired ==
  ASSUME NEW row \in Seq(Cell), Paired(row), NEW i \in 1..Len(row), NEW glyph \in Glyphs, NEW n,
         n = IF glyph.wide THEN 2 ELSE 1, i + n - 1 <= Len(row), NEW w, w = Written(row, i, glyph)
  PROVE  Paired(w)
<1>1. w \in Seq(Cell) /\ Len(w) = Len(row) /\ \A k \in 1..Len(row) : WrittenCell(row, w, i, n, glyph, k)
  BY WrittenCells
<1>2. \A k \in 1..Len(row) : row[k].color \in Nat /\ BlankCell(row[k].color).half = "none"
  BY CellFields, BlankIsCell
<1>3. Len(row) \in Nat /\ n \in {1, 2}
  OBVIOUS
<1>4. ASSUME NEW k \in 1..Len(w), w[k].half = "lead"
      PROVE  k + 1 \in 1..Len(w) /\ w[k + 1].half = "trail" /\ w[k + 1].ch = w[k].ch /\ w[k + 1].color = w[k].color
  <2>1. WrittenCell(row, w, i, n, glyph, k) /\ k \in 1..Len(row)
    BY <1>1
  <2>2. CASE k \in i..(i + n - 1)
    BY <1>3, <1>4, <2>1, <2>2, <1>1 DEF WrittenCell
  <2>3. CASE k \notin i..(i + n - 1)
    BY <1>2, <1>4, <2>1, <2>3, <1>3, <1>1 DEF WrittenCell, Paired
  <2> QED BY <2>2, <2>3
<1>5. ASSUME NEW k \in 1..Len(w), w[k].half = "trail"
      PROVE  k - 1 \in 1..Len(w) /\ w[k - 1].half = "lead"
  <2>1. WrittenCell(row, w, i, n, glyph, k) /\ k \in 1..Len(row)
    BY <1>1
  <2>2. CASE k \in i..(i + n - 1)
    BY <1>3, <1>5, <2>1, <2>2, <1>1 DEF WrittenCell
  <2>3. CASE k \notin i..(i + n - 1)
    <3>1. w[k] = row[k] /\ k # i + n
      BY <1>2, <1>5, <2>1, <2>3 DEF WrittenCell
    <3>2. k - 1 \in 1..Len(row) /\ row[k - 1].half = "lead"
      BY <1>5, <2>1, <3>1 DEF Paired
    <3>3. k - 1 \notin i..(i + n - 1) /\ k - 1 # i - 1
      BY <1>3, <2>3, <3>1
    <3>4. WrittenCell(row, w, i, n, glyph, k - 1)
      BY <1>1, <3>2
    <3>5. w[k - 1] = row[k - 1]
      BY <3>2, <3>3, <3>4 DEF WrittenCell
    <3> QED BY <1>1, <3>2, <3>5
  <2> QED BY <2>2, <2>3
<1> QED BY <1>4, <1>5 DEF Paired

\* What programs do leaves a console of the same width.
LEMMA RowWritten ==
  ASSUME NEW c, NEW width, ConsoleOK(c, width), NEW row \in c.top..(c.top + Height - 1), NEW w \in Seq(Cell),
         Paired(w), Len(w) = width, NEW d, d = [c EXCEPT !.rows[row] = w]
  PROVE  ConsoleOK(d, width)
<1>1. c.top \in Nat /\ \A l \in Nat : l < c.top + Height => l \in Rows
  BY WindowRows, WidthFits
<1>2. row \in Rows /\ Height \in Nat
  BY <1>1, ConstantsFit
<1>3. c \in Consoles /\ c.rows \in [Rows -> Seq(Cell)]
  BY DEF ConsoleOK, Consoles
<1>4. PICK rows : rows = [c.rows EXCEPT ![row] = w]
  OBVIOUS
<1>5. rows \in [Rows -> Seq(Cell)] /\ \A l \in Rows : rows[l] = IF l = row THEN w ELSE c.rows[l]
  BY <1>2, <1>3, <1>4
<1>6. d = [c EXCEPT !.rows = rows]
  BY <1>4
<1>7. d \in Consoles /\ d.rows = rows /\ d.top = c.top /\ d.cur = c.cur /\ d.visible = c.visible /\ d.direct = c.direct
  BY <1>3, <1>5, <1>6 DEF Consoles
<1>8. HasRows(d, width)
  BY <1>5, <1>7 DEF ConsoleOK, HasRows
<1> QED BY <1>7, <1>8 DEF ConsoleOK

\* A console with its cursor elsewhere in the window is one.
LEMMA CursorMoved ==
  ASSUME NEW c, NEW width, ConsoleOK(c, width), NEW row \in c.top..(c.top + Height - 1), NEW col \in Nat, col < width,
         NEW d, d = [c EXCEPT !.cur = [row |-> row, col |-> col]]
  PROVE  ConsoleOK(d, width)
BY WindowRows, WidthFits DEF ConsoleOK, Consoles, HasRows

\* An empty console is one.
LEMMA EmptyConsole ==
  ASSUME NEW width \in Widths, NEW visible \in BOOLEAN, NEW direct \in BOOLEAN, NEW d,
         d = [rows |-> [r \in Rows |-> BlankCells(width)], top |-> 0, cur |-> [row |-> 0, col |-> 0],
              visible |-> visible, direct |-> direct]
  PROVE  ConsoleOK(d, width)
<1>1. Height \in Nat /\ Height >= 1 /\ OwnColor \in Nat /\ MaxTop \in Nat /\ width \in 1..MaxWidth
  BY ConstantsFit
<1>2. BlankCell(OwnColor) \in Cell /\ BlankCell(OwnColor).half = "none"
  BY <1>1, BlankIsCell
<1>3. PICK blank : blank = BlankCells(width)
  OBVIOUS
<1>4. blank \in [1..width -> Cell] /\ \A i \in 1..width : blank[i] = BlankCell(OwnColor)
  BY <1>2, <1>3 DEF BlankCells
<1>5. blank \in Seq(Cell) /\ Len(blank) = width
  BY <1>1, <1>4
<1>6. Paired(blank)
  BY <1>2, <1>4, <1>5 DEF Paired
<1>7. /\ d.rows = [r \in Rows |-> blank] /\ d.top = 0 /\ d.cur = [row |-> 0, col |-> 0]
      /\ d.direct = direct /\ d \in Consoles
  BY <1>1, <1>5, <1>3 DEF Consoles
<1>8. HasRows(d, width)
  BY <1>5, <1>6, <1>7 DEF HasRows
<1>9. d.cur.row \in d.top..(d.top + Height - 1) /\ d.cur.col < width
  BY <1>1, <1>7
<1> QED BY <1>7, <1>8, <1>9 DEF ConsoleOK

\* So is one that was cleared, in either mode.
LEMMA BlankConsole ==
  ASSUME NEW c, NEW width, ConsoleOK(c, width), NEW direct \in BOOLEAN, NEW d,
         d = [c EXCEPT !.rows = [r \in Rows |-> BlankCells(width)], !.top = 0,
                       !.cur = [row |-> 0, col |-> 0], !.direct = direct]
  PROVE  ConsoleOK(d, width)
<1>1. c \in Consoles /\ width \in Widths
  BY DEF ConsoleOK
<1>2. PICK visible \in BOOLEAN : visible = c.visible
  BY <1>1 DEF Consoles
<1>3. d = [rows |-> [r \in Rows |-> BlankCells(width)], top |-> 0, cur |-> [row |-> 0, col |-> 0],
           visible |-> visible, direct |-> direct]
  BY <1>1, <1>2 DEF Consoles
<1> QED BY <1>1, <1>3, EmptyConsole

\* So is one with the cursor on a new line, scrolled if need be.
LEMMA NewLine ==
  ASSUME NEW c, NEW width, ConsoleOK(c, width), c.cur.row + 1 \in Rows, c.direct => c.cur.row + 1 < Height,
         NEW d, d = [c EXCEPT !.cur = [row |-> c.cur.row + 1, col |-> 0], !.top = Max2(@, c.cur.row + 2 - Height)]
  PROVE  ConsoleOK(d, width)
<1> DEFINE row == c.cur.row
           top == c.top
           new == Max2(top, row + 2 - Height)
<1>1. /\ Height \in Nat /\ Height >= 1 /\ MaxTop \in Nat /\ width \in Nat /\ width >= 1
      /\ top \in Nat /\ top <= MaxTop /\ row \in Nat /\ top <= row /\ row < top + Height
      /\ c.direct \in BOOLEAN
  BY ConstantsFit, WidthFits, WindowRows
<1>2. row + 1 <= (Height - 1) + MaxTop /\ (c.direct => row + 1 < Height /\ top = 0)
  BY <1>1 DEF Rows, ConsoleOK
<1>3. new \in 0..MaxTop /\ row + 1 \in new..(new + Height - 1) /\ (c.direct => new = 0) /\ row + 1 \in Nat
  <2> HIDE DEF row, top
  <2> QED BY <1>1, <1>2 DEF Max2
<1>4. c \in Consoles
  BY DEF ConsoleOK
<1>5. /\ d.rows = c.rows /\ d.top = new /\ d.cur = [row |-> row + 1, col |-> 0]
      /\ d.visible = c.visible /\ d.direct = c.direct /\ d \in Consoles
  <2>1. PICK to : to = new
    OBVIOUS
  <2>2. PICK cur : cur = [row |-> row + 1, col |-> 0]
    OBVIOUS
  <2>3. to \in 0..MaxTop /\ cur \in [row : Nat, col : Nat]
    <3>1. 0 \in Nat
      OBVIOUS
    <3> HIDE DEF row, new
    <3> QED BY <1>3, <2>1, <2>2, <3>1
  <2>4. d = [c EXCEPT !.cur = cur, !.top = to]
    BY <2>1, <2>2
  <2>5. /\ d.rows = c.rows /\ d.top = to /\ d.cur = cur
        /\ d.visible = c.visible /\ d.direct = c.direct /\ d \in Consoles
    BY <1>4, <2>3, <2>4 DEF Consoles
  <2> QED BY <2>1, <2>2, <2>5
<1>6. HasRows(d, width)
  BY <1>5 DEF ConsoleOK, HasRows
<1>7. d.cur.row \in d.top..(d.top + Height - 1) /\ d.cur.col < width
  <2> HIDE DEF row, top, new
  <2> QED BY <1>1, <1>3, <1>5
<1>8. d.direct => d.top = 0
  BY <1>3, <1>5
<1> QED BY <1>5, <1>6, <1>7, <1>8 DEF ConsoleOK

\* A program leaves a console.
LEMMA ProgramConsole ==
  ASSUME NEW width, ConsoleOK(con, width), width = Width, Program
  PROVE  ConsoleOK(con', width)
<1>1. CASE \E glyph \in Glyphs, col \in 1..Width, row \in con.top..(con.top + Height - 1) :
             LET n == IF glyph.wide THEN 2 ELSE 1
             IN /\ col + n - 1 <= Width
                /\ \/ con' = [con EXCEPT !.rows[row] = Written(@, col, glyph)]
                   \/ con' = [con EXCEPT !.rows[row] = Written(@, col, glyph),
                                         !.cur = [row |-> row, col |-> Min2(col + n - 1, Width - 1)]]
  <2>1. PICK glyph \in Glyphs, col \in 1..Width, row \in con.top..(con.top + Height - 1), n \in {1, 2} :
          /\ n = IF glyph.wide THEN 2 ELSE 1
          /\ col + n - 1 <= Width
          /\ \/ con' = [con EXCEPT !.rows[row] = Written(@, col, glyph)]
             \/ con' = [con EXCEPT !.rows[row] = Written(@, col, glyph),
                                   !.cur = [row |-> row, col |-> Min2(col + n - 1, Width - 1)]]
    BY <1>1
  <2>2. /\ con.top \in Nat /\ Height \in Nat /\ width \in Nat /\ width >= 1
        /\ \A l \in Nat : l < con.top + Height => l \in Rows
    BY WindowRows, WidthFits, ConstantsFit
  <2>3. row \in Rows
    BY <2>2
  <2>4. PICK cells : cells = con.rows[row]
    OBVIOUS
  <2>5. cells \in Seq(Cell) /\ Paired(cells) /\ Len(cells) = width
    BY <2>3, <2>4 DEF ConsoleOK, HasRows
  <2>6. PICK w : w = Written(cells, col, glyph)
    OBVIOUS
  <2>7. col \in 1..Len(cells) /\ n = (IF glyph.wide THEN 2 ELSE 1) /\ col + n - 1 <= Len(cells)
    BY <2>1, <2>5
  <2>8. w \in Seq(Cell) /\ Len(w) = width /\ Paired(w)
    BY <2>5, <2>6, <2>7, WrittenCells, WrittenPaired
  <2>9. PICK d : d = [con EXCEPT !.rows[row] = w]
    OBVIOUS
  <2>10. ConsoleOK(d, width)
    BY <2>8, <2>9, RowWritten
  <2>11. PICK to : to = Min2(col + n - 1, Width - 1)
    OBVIOUS
  <2>12. to \in Nat /\ to < width
    BY <2>1, <2>2, <2>11 DEF Min2
  <2>13. d.top = con.top
    BY <2>9 DEF ConsoleOK, Consoles
  <2>14. row \in d.top..(d.top + Height - 1)
    BY <2>13
  <2>15. PICK e : e = [d EXCEPT !.cur = [row |-> row, col |-> to]]
    OBVIOUS
  <2>16. ConsoleOK(e, width)
    BY <2>10, <2>12, <2>14, <2>15, CursorMoved
  <2>17. con' = d \/ con' = e
    BY <2>1, <2>4, <2>6, <2>9, <2>11, <2>15 DEF ConsoleOK, Consoles
  <2> QED BY <2>10, <2>16, <2>17
<1>2. CASE /\ con.cur.row + 1 \in Rows /\ (con.direct => con.cur.row + 1 < Height)
           /\ con' = [con EXCEPT !.cur = [row |-> con.cur.row + 1, col |-> 0],
                                 !.top = Max2(@, con.cur.row + 2 - Height)]
  BY <1>2, NewLine
<1>3. CASE con' = [con EXCEPT !.visible = ~@]
  BY <1>3 DEF ConsoleOK, Consoles, HasRows
<1>4. CASE \E direct \in BOOLEAN :
             con' = [con EXCEPT !.rows = [r \in Rows |-> BlankCells(Width)], !.top = 0,
                                !.cur = [row |-> 0, col |-> 0], !.direct = direct]
  BY <1>4, BlankConsole
<1> QED BY <1>1, <1>2, <1>3, <1>4 DEF Program

\* What programs do changes nothing that the scraper and the terminal know of one another.
LEMMA ProgramStep ==
  ASSUME IInv, Program
  PROVE  IInv'
<1>1. PICK width : width = Width
  OBVIOUS
<1>2. ConsoleOK(con, width)
  BY <1>1 DEF IInv
<1>3. ConsoleOK(con', width)
  BY <1>1, <1>2, ProgramConsole
<1>4. Width' = width
  BY <1>3, WidthFits DEF Width
<1>5. /\ sc' = sc /\ remote' = remote /\ pc' = "changed" /\ resizes' = resizes
      /\ lostHide' = lostHide /\ lostColumn' = lostColumn
  BY DEF Program
<1>6. /\ sc \in Scrapers(width) /\ sc.t.out = <<>> /\ Counted(sc) /\ remote \in RemoteType(width)
      /\ resizes \in Nat /\ lostHide \in BOOLEAN /\ lostColumn \in BOOLEAN
      /\ ~sc.t.plain /\ ~lostColumn =>
           /\ Known(sc.t, remote, resizes) /\ (~sc.t.hidden => remote.visible \/ lostHide)
           /\ LinesShown(sc, remote, width, resizes)
  BY <1>1 DEF IInv
<1> QED BY <1>3, <1>4, <1>5, <1>6 DEF IInv

\* The first state: nothing sent, nothing shown.
LEMMA InitHolds ==
  ASSUME Init
  PROVE  IInv
<1>1. PICK width \in Widths, mode \in Modes :
        /\ con = [rows |-> [r \in Rows |-> BlankCells(width)], top |-> 0,
                  cur |-> [row |-> 0, col |-> 0], visible |-> TRUE, direct |-> FALSE]
        /\ sc = [direct |-> FALSE, lines |-> [r \in Rows |-> FreshLine], scraped |-> 0, maxBuffered |-> -1,
                 dirtyTop |-> -1, dirtyLines |-> 0, t |-> NewTerminal(mode.plain, mode.outputColor)]
        /\ remote = NewRemote(width, Height)
  BY DEF Init
<1>2. /\ Height \in Nat /\ Height >= 1 /\ MaxWidth \in Nat /\ MaxTop \in Nat /\ width \in 1..MaxWidth /\ OwnColor \in Nat
      /\ mode.plain \in BOOLEAN /\ mode.outputColor \in BOOLEAN
  BY ConstantsFit, ScreenAssumption
<1>3. ConsoleOK(con, width)
  <2>1. PICK visible \in BOOLEAN, direct \in BOOLEAN : visible = TRUE /\ direct = FALSE
    OBVIOUS
  <2>2. con = [rows |-> [r \in Rows |-> BlankCells(width)], top |-> 0, cur |-> [row |-> 0, col |-> 0],
               visible |-> visible, direct |-> direct]
    BY <1>1, <2>1
  <2> QED BY <2>2, EmptyConsole
<1>4. Width = width
  BY <1>3, WidthFits DEF Width
<1>5. remote \in RemoteType(width)
  BY <1>2, <1>1, NewRemoteType
<1>6. PICK t : t = NewTerminal(mode.plain, mode.outputColor)
  OBVIOUS
<1>7. /\ t.line = 0 /\ t.column = 0 /\ t.data = <<>> /\ t.valid = TRUE /\ ~t.hidden /\ t.color = NoColor /\ t.out = <<>>
      /\ t.plain \in BOOLEAN /\ t.outputColor \in BOOLEAN
      /\ t = [line |-> 0, column |-> 0, data |-> <<>>, valid |-> TRUE, hidden |-> FALSE, color |-> NoColor,
              plain |-> mode.plain, outputColor |-> mode.outputColor, out |-> <<>>]
  BY <1>2, <1>6 DEF NewTerminal
<1>8. t \in TermType(width) /\ TermOK(t)
  BY <1>2, <1>7 DEF TermType, Paired, TermOK, Appending
<1>9. FreshLine \in LineRecords
  BY ConstantsFit DEF FreshLine, LineRecords, LineType
<1>10. PICK lines : lines = [r \in Rows |-> FreshLine]
  OBVIOUS
<1>11. lines \in [Rows -> LineRecords] /\ \A l \in Rows : lines[l] = FreshLine
  BY <1>9, <1>10
<1>12. /\ sc.direct = FALSE /\ sc.lines = lines /\ sc.scraped = 0 /\ sc.maxBuffered = -1 /\ sc.dirtyTop = -1
       /\ sc.dirtyLines = 0 /\ sc.t = t /\ sc \in Scrapers(width)
  BY <1>2, <1>8, <1>1, <1>6, <1>10, <1>11 DEF Terms, Scrapers
<1>13. Counted(sc)
  BY <1>2, <1>12 DEF Counted
<1>14. remote.row = Height /\ remote.visible = TRUE /\ \A k \in 1..Height : remote.rows[k] = BlankRow(OwnColor)
  BY <1>1 DEF NewRemote
<1>15. Known(t, remote, 0)
  BY <1>1, <1>7 DEF NewRemote, Known
<1>16. LinesShown(sc, remote, width, 0)
  BY <1>2, <1>11, <1>12, RowsAreLines, <1>14, BlankIsEmpty, <1>7 DEF ScrollShows, LinesShown
<1>17. pc = "changed" /\ resizes = 0 /\ lostHide = FALSE /\ lostColumn = FALSE /\ 0 \in Nat
  BY DEF Init
<1> QED BY <1>3, <1>4, <1>5, <1>7, <1>12, <1>13, <1>14, <1>15, <1>16, <1>17 DEF IInv

-----------------------------------------------------------------------------
(* The terminal gets another width.                                        *)

\* A row of another width.
CutTo(row, cut, width) ==
  /\ cut \in Seq(Cell) /\ Len(cut) = width /\ Paired(cut)
  /\ width >= Len(row) => \A i \in 1..Len(row) : cut[i] = row[i]

\* A row that is cut leaves no half of a wide character alone.
LEMMA CutRowHolds ==
  ASSUME NEW row \in Seq(Cell), Paired(row), NEW width \in Nat, NEW cut, cut = CutRow(row, width)
  PROVE  CutTo(row, cut, width)
<1>1. BlankCell(OwnColor) \in Cell /\ BlankCell(OwnColor).half = "none"
  BY ConstantsFit, BlankIsCell
<1>2. Len(row) \in Nat /\ \A i \in 1..Len(row) : row[i] \in Cell
  OBVIOUS
<1>3. /\ DOMAIN cut = 1..width
      /\ \A i \in 1..width : cut[i] = IF i > Len(row) \/ (i = width /\ i < Len(row) /\ row[i].half = "lead")
                                      THEN BlankCell(OwnColor) ELSE row[i]
  BY DEF CutRow
<1>4. cut \in [1..width -> Cell]
  BY <1>2, <1>1, <1>3 DEF CutRow
<1>5. cut \in Seq(Cell) /\ Len(cut) = width
  BY <1>3, <1>4
<1>6. ASSUME NEW i \in 1..width, cut[i].half # "none"
      PROVE  i \in 1..Len(row) /\ cut[i] = row[i] /\ (i = width /\ i < Len(row) => row[i].half # "lead")
  BY <1>1, <1>2, <1>3, <1>6
<1>7. ASSUME NEW i \in 1..width, cut[i].half = "lead"
      PROVE  /\ i + 1 \in 1..width /\ cut[i + 1].half = "trail"
             /\ cut[i + 1].ch = cut[i].ch /\ cut[i + 1].color = cut[i].color
  BY <1>6, <1>7, <1>2, <1>3 DEF Paired
<1>8. ASSUME NEW i \in 1..width, cut[i].half = "trail"
      PROVE  /\ i - 1 \in 1..width /\ cut[i - 1].half = "lead"
             /\ cut[i - 1].ch = cut[i].ch /\ cut[i - 1].color = cut[i].color
  BY <1>6, <1>8, <1>2, <1>3 DEF Paired
<1>9. Paired(cut)
  BY <1>5, <1>7, <1>8 DEF Paired
<1>10. ASSUME width >= Len(row), NEW i \in 1..Len(row) PROVE cut[i] = row[i]
  BY <1>2, <1>3, <1>10
<1> QED BY <1>5, <1>9, <1>10 DEF CutTo

\* The rows of a resized console have its width.
LEMMA ResizedRows ==
  ASSUME NEW c, NEW old, ConsoleOK(c, old), NEW width \in Widths, NEW l \in Rows
  PROVE  CutRow(c.rows[l], width) \in Seq(Cell) /\ Paired(CutRow(c.rows[l], width)) /\ Len(CutRow(c.rows[l], width)) = width
<1>1. PICK row : row = c.rows[l]
  OBVIOUS
<1>2. row \in Seq(Cell) /\ Paired(row) /\ width \in Nat
  BY <1>1, ConstantsFit DEF ConsoleOK, HasRows
<1>3. CutTo(row, CutRow(row, width), width)
  BY <1>2, CutRowHolds
<1> QED BY <1>1, <1>3 DEF CutTo

\* A resize leaves a console.
LEMMA ResizedConsoleHolds ==
  ASSUME NEW old, ConsoleOK(con, old), NEW width \in Widths, NEW d, d = ResizedConsole(width)
  PROVE  ConsoleOK(d, width)
<1>1. /\ width \in Nat /\ width >= 1 /\ OwnColor \in Nat /\ con.cur.col \in Nat
  BY ConstantsFit, WindowRows, WidthFits
<1>2. BlankCell(OwnColor) \in Cell /\ BlankCell(OwnColor).half = "none"
  BY <1>1, BlankIsCell
<1>3. PICK blank : blank = BlankCells(width)
  OBVIOUS
<1>4. blank \in [1..width -> Cell] /\ \A i \in 1..width : blank[i] = BlankCell(OwnColor)
  BY <1>2, <1>3 DEF BlankCells
<1>5. blank \in Seq(Cell) /\ Len(blank) = width
  BY <1>1, <1>4
<1>6. Paired(blank)
  BY <1>2, <1>4, <1>5 DEF Paired
<1>7. PICK rows : rows = [r \in Rows |-> IF ~con.direct /\ r < con.top THEN blank ELSE CutRow(con.rows[r], width)]
  OBVIOUS
<1>8. \A l \in Rows : rows[l] \in Seq(Cell) /\ Paired(rows[l]) /\ Len(rows[l]) = width
  BY <1>5, <1>6, <1>7, ResizedRows
<1>9. rows \in [Rows -> Seq(Cell)]
  BY <1>7, <1>8
<1>10. PICK col : col = Min2(con.cur.col, width - 1)
  OBVIOUS
<1>11. col \in Nat /\ col < width
  BY <1>1, <1>10 DEF Min2
<1>12. con \in Consoles
  BY DEF ConsoleOK
<1>13. d = [con EXCEPT !.rows = rows, !.cur.col = col]
  BY <1>3, <1>7, <1>10 DEF ResizedConsole
<1>14. PICK cur : cur = [con.cur EXCEPT !.col = col]
  OBVIOUS
<1>15. cur \in [row : Nat, col : Nat] /\ cur.row = con.cur.row /\ cur.col = col
  BY <1>11, <1>12, <1>14 DEF Consoles
<1>16. d = [con EXCEPT !.rows = rows, !.cur = cur]
  BY <1>12, <1>13, <1>14 DEF Consoles
<1>17. /\ d \in Consoles /\ d.rows = rows /\ d.cur = cur /\ d.top = con.top /\ d.visible = con.visible
       /\ d.direct = con.direct
  BY <1>9, <1>12, <1>15, <1>16 DEF Consoles
<1>18. HasRows(d, width)
  BY <1>8, <1>17 DEF HasRows
<1> QED BY <1>11, <1>15, <1>17, <1>18 DEF ConsoleOK

\* What is known of the terminal is true of the wider one if the cursor has not been moved.
Widens(r, q, old, width) ==
  /\ q \in RemoteType(width) /\ q.rows = r.rows /\ q.row = r.row /\ q.visible = r.visible /\ q.color = r.color
  /\ \A t : \A resized \in Nat :
       Known(t, r, resized) /\ t.column \in Nat /\ (width > old => t.column = r.col) => Known(t, q, resized + 1)

\* A resized terminal is known unless its cursor was moved.
LEMMA WidenedHolds ==
  ASSUME NEW old \in Nat, NEW width \in Nat, width >= 1, NEW r \in RemoteType(old), NEW q, q = Widened(r, width)
  PROVE  Widens(r, q, old, width)
<1>1. r.col \in 0..old /\ r.width = old /\ Height \in Nat
  BY ConstantsFit, RemoteFields
<1>2. PICK col : col = IF r.col < width THEN r.col ELSE IF r.width < width THEN r.col ELSE width - 1
  OBVIOUS
<1>3. col \in 0..width
  BY <1>1, <1>2
<1>4. q = [r EXCEPT !.width = width, !.col = col]
  BY <1>2 DEF Widened
<1>5. /\ q \in RemoteType(width) /\ q.rows = r.rows /\ q.row = r.row /\ q.visible = r.visible /\ q.color = r.color
      /\ q.col = col /\ q.width = width
  BY <1>3, <1>4 DEF RemoteType
<1>6. ASSUME NEW t, NEW resized \in Nat, Known(t, r, resized), t.column \in Nat, width > old => t.column = r.col
      PROVE  Known(t, q, resized + 1)
  <2>1. t.column < width => col = t.column
    BY <1>1, <1>2, <1>6 DEF Known
  <2>2. resized + 1 # 0
    OBVIOUS
  <2>3. ASSUME NEW i \in 1..Len(t.data) PROVE Shows(q.rows[q.row][i], t.data[i], t.outputColor, resized + 1)
    BY <1>6, <2>2, <1>5 DEF Known, Shows
  <2> QED BY <1>5, <1>6, <2>1, <2>3 DEF Known
<1> QED BY <1>5, <1>6 DEF Widens

\* A terminal that has nothing to write is one for any width.
LEMMA QuietScraper ==
  ASSUME NEW old \in Nat, NEW width \in Nat, NEW s \in Scrapers(old), s.t.out = <<>>
  PROVE  s \in Scrapers(width)
<1>1. PICK x : x = [s EXCEPT !.t.out = <<>>]
  OBVIOUS
<1>2. x \in Scrapers(width)
  BY <1>1, EmptiedType DEF Emptied
<1>3. x = s
  BY ScraperFields, <1>1 DEF TermType, Scrapers
<1> QED BY <1>2, <1>3

\* In direct mode every line will be sent anew.
Forgotten(s, x) ==
  /\ x.lines = [r \in Rows |-> FreshLine] /\ x.t = s.t /\ x.direct = s.direct /\ x.scraped = s.scraped
  /\ x.maxBuffered = s.maxBuffered /\ x.dirtyTop = s.dirtyTop /\ x.dirtyLines = s.dirtyLines

\* A resize in direct mode forgets the lines, so all are sent again.
LEMMA LinesForgotten ==
  ASSUME NEW width \in Nat, NEW s \in Scrapers(width), s.direct, NEW x, x = ResizedLines(s)
  PROVE  x \in Scrapers(width) /\ Forgotten(s, x)
<1>1. FreshLine \in LineRecords
  BY ConstantsFit DEF FreshLine, LineRecords, LineType
<1>2. PICK lines : lines = [r \in Rows |-> FreshLine]
  OBVIOUS
<1>3. lines \in [Rows -> LineRecords]
  BY <1>1, <1>2
<1>4. x = [s EXCEPT !.lines = lines, !.maxBuffered = s.maxBuffered]
  BY <1>2 DEF ResizedLines
<1>5. /\ x \in Scrapers(width) /\ x.lines = lines /\ x.t = s.t /\ x.direct = s.direct /\ x.scraped = s.scraped
      /\ x.maxBuffered = s.maxBuffered /\ x.dirtyTop = s.dirtyTop /\ x.dirtyLines = s.dirtyLines
  BY <1>3, <1>4 DEF Scrapers
<1> QED BY <1>2, <1>5 DEF Forgotten

\* The window of the old width, on a buffer of the new one, of which as much is read as both have.
LEMMA CutWindow ==
  ASSUME NEW c, NEW old, ConsoleOK(c, old), c.direct, NEW width \in Widths,
         NEW d, d = [c EXCEPT !.rows = [r \in Rows |-> CutRow(c.rows[r], width)]],
         NEW n, n = Min2(old, width)
  PROVE  /\ Scrapable(d, n) /\ n \in 1..width /\ d.top = 0 /\ d.visible \in BOOLEAN
         /\ d.cur.row \in Nat /\ d.cur.col \in Nat
<1>1. /\ old \in Nat /\ old >= 1 /\ width \in Nat /\ width >= 1 /\ Height \in Nat
      /\ c.visible \in BOOLEAN /\ c.cur.row \in Nat /\ c.cur.col \in Nat /\ c.top = 0
  BY ConstantsFit, WidthFits, WindowRows DEF ConsoleOK
<1>2. n \in 1..width /\ n <= old
  BY <1>1 DEF Min2
<1>3. c \in Consoles
  BY DEF ConsoleOK
<1>4. PICK rows : rows = [r \in Rows |-> CutRow(c.rows[r], width)]
  OBVIOUS
<1>5. d.rows = rows /\ d.top = c.top /\ d.cur = c.cur /\ d.visible = c.visible
  BY <1>3, <1>4 DEF Consoles
<1>6. ASSUME NEW line \in 0..(Height - 1)
      PROVE  DirectCells(d, line, n) \in Seq(Cell) /\ Paired(DirectCells(d, line, n)) /\ Len(DirectCells(d, line, n)) = n
  <2>1. line \in Rows /\ d.top + line = line
    BY <1>1, <1>5, RowsAreLines
  <2>2. PICK row : row = c.rows[line]
    OBVIOUS
  <2>3. row \in Seq(Cell) /\ Paired(row) /\ Len(row) = old
    BY <2>1, <2>2 DEF ConsoleOK, HasRows
  <2>4. PICK cut : cut = CutRow(row, width)
    OBVIOUS
  <2>5. /\ cut \in Seq(Cell) /\ Len(cut) = width /\ Paired(cut)
        /\ width >= old => \A i \in 1..old : cut[i] = row[i]
    <3>1. CutTo(row, cut, width)
      BY <1>1, <2>3, <2>4, CutRowHolds
    <3> QED BY <2>3, <3>1 DEF CutTo
  <2>6. DirectCells(d, line, n) = SubSeq(cut, 1, n)
    BY <1>4, <1>5, <2>1, <2>2, <2>4 DEF DirectCells
  <2>7. SubSeq(cut, 1, n) \in Seq(Cell) /\ Len(SubSeq(cut, 1, n)) = n /\ \A i \in 1..n : SubSeq(cut, 1, n)[i] = cut[i]
    BY <1>2, <2>5
  <2>8. Paired(SubSeq(cut, 1, n))
    <3>1. CASE n = width
      <4>1. SubSeq(cut, 1, n) = cut
        BY <2>5, <2>7, <3>1
      <4> QED BY <2>5, <4>1
    <3>2. CASE n # width
      <4>1. n = old /\ width >= old
        BY <1>1, <3>2 DEF Min2
      <4>2. \A i \in 1..n : SubSeq(cut, 1, n)[i] = row[i]
        BY <2>5, <2>7, <4>1
      <4>3. SubSeq(cut, 1, n) = row
        BY <2>3, <2>7, <4>1, <4>2
      <4> QED BY <2>3, <4>3
    <3> QED BY <3>1, <3>2
  <2> QED BY <2>6, <2>7, <2>8
<1> QED BY <1>1, <1>2, <1>5, <1>6 DEF Scrapable

\* What the scrape that belongs to a resize leaves, and what the terminal shows then.
ResizedTo(s, u, r, q, resized, width) ==
  /\ u \in Scrapers(width) /\ Counted(u) /\ u.t.plain = s.t.plain
  /\ ~s.t.plain /\ Known(s.t, r, resized) /\ LinesShown(s, r, r.width, resized)
     /\ (width > r.width => s.t.column = r.col)
     => /\ Known(u.t, Now(q, u.t), resized + 1) /\ LinesShown(u, Now(q, u.t), width, resized + 1)
        /\ CursorTold(u.t, q, s.t.hidden)

\* What the terminal shows after a resize in direct mode.
LEMMA DirectResized ==
  ASSUME NEW c, NEW old, ConsoleOK(c, old), c.direct, NEW width \in Widths, NEW s \in Scrapers(old), s.t.out = <<>>,
         Counted(s), s.direct, NEW r \in RemoteType(old), NEW q, q = Widened(r, width), NEW resized \in Nat,
         NEW u, u = DirectScrape(ResizedLines(s), [c EXCEPT !.rows = [l \in Rows |-> CutRow(c.rows[l], width)]],
                                 Min2(old, width))
  PROVE  ResizedTo(s, u, r, q, resized, width)
<1>1. old \in Nat /\ width \in Nat /\ width >= 1 /\ width <= MaxWidth
  BY ConstantsFit, WidthFits
<1>w. Widens(r, q, old, width)
  BY <1>1, WidenedHolds
<1>2. PICK d : d = [c EXCEPT !.rows = [l \in Rows |-> CutRow(c.rows[l], width)]]
  OBVIOUS
<1>3. PICK n : n = Min2(old, width)
  OBVIOUS
<1>4. /\ Scrapable(d, n) /\ n \in 1..width /\ d.top = 0 /\ d.visible \in BOOLEAN
      /\ d.cur.row \in Nat /\ d.cur.col \in Nat
  BY <1>2, <1>3, CutWindow
<1>5. PICK x : x = ResizedLines(s)
  OBVIOUS
<1>6. x \in Scrapers(old) /\ Forgotten(s, x)
  BY <1>1, <1>5, LinesForgotten
<1>7. x \in Scrapers(width)
  BY <1>1, <1>6, QuietScraper DEF Forgotten
<1>8. u = DirectScrape(x, d, n)
  BY <1>2, <1>3, <1>5
<1>9. /\ u \in Scrapers(width) /\ DirectEnds(x, u, d, n)
      /\ \A r0 \in RemoteType(width) : \A z : \A hidden \in BOOLEAN :
           ~x.t.plain /\ Told(x.t, r0, z, hidden) /\ DirectShows(x, Now(r0, x.t), width, z, n) /\ Fits(x, n, width)
             => Told(u.t, r0, z, hidden) /\ DirectShows(u, Now(r0, u.t), width, z, n)
  BY <1>1, <1>4, <1>7, <1>8, DirectHolds
<1>10. Counted(u) /\ u.t.plain = s.t.plain /\ u.direct
  BY <1>6, <1>9 DEF DirectEnds, SameFields, Forgotten, Counted
<1>11. ASSUME ~s.t.plain, Known(s.t, r, resized), LinesShown(s, r, r.width, resized), width > r.width => s.t.column = r.col
       PROVE  /\ Known(u.t, Now(q, u.t), resized + 1) /\ LinesShown(u, Now(q, u.t), width, resized + 1)
              /\ CursorTold(u.t, q, s.t.hidden)
  <2>1. s.t.column \in Nat /\ s.t.hidden \in BOOLEAN /\ r.width = old
    BY <1>1, ScraperFields, RemoteFields, ConstantsFit
  <2>2. q \in RemoteType(width) /\ q.row = r.row /\ Known(s.t, q, resized + 1)
    BY <1>1, <1>11, <2>1, <1>w DEF Widens
  <2>3. Told(x.t, q, resized + 1, s.t.hidden) /\ Now(q, x.t) = q
    BY <1>1, <1>6, <2>2, NothingTold DEF Forgotten
  <2>4. DirectShows(x, q, width, resized + 1, n)
    BY <1>11, <1>6, RowsAreLines, <2>2 DEF LinesShown, DirectShows, Forgotten, FreshLine
  <2>5. Fits(x, n, width)
    BY <1>6, RowsAreLines, <1>4 DEF Forgotten, FreshLine, Fits
  <2>6. Told(u.t, q, resized + 1, s.t.hidden) /\ DirectShows(u, Now(q, u.t), width, resized + 1, n)
    BY <1>6, <1>9, <1>11, <2>1, <2>2, <2>3, <2>4, <2>5 DEF Forgotten
  <2>7. resized + 1 # 0
    OBVIOUS
  <2>8. DirectShows(u, Now(q, u.t), width, resized + 1, width)
    BY <2>6, <2>7 DEF DirectShows, Ready
  <2> QED BY <1>10, <2>6, <2>8 DEF Told, LinesShown
<1> QED BY <1>9, <1>10, <1>11 DEF ResizedTo

\* In scrolling mode the lines above the window become blank, and nothing is sent that was not sent before.
Blanked(u, x, c) ==
  /\ x.t = u.t /\ x.direct = u.direct /\ x.scraped = u.scraped /\ x.maxBuffered = u.maxBuffered
  /\ x.dirtyTop = u.dirtyTop /\ x.dirtyLines = u.dirtyLines
  /\ \A l \in Rows : ~(l < c.top) => x.lines[l] = u.lines[l]

\* A resize in scrolling mode takes the lines above the window for blank.
LEMMA LinesBlanked ==
  ASSUME NEW width \in Nat, ConsoleOK(con, width), NEW u \in Scrapers(width), ~u.direct, Counted(u), u.dirtyTop = con.top,
         NEW x, x = ResizedLines(u)
  PROVE  x \in Scrapers(width) /\ Blanked(u, x, con)
<1>1. con.top \in Nat /\ MaxWidth \in Nat /\ MaxWidth >= 1 /\ OwnColor \in Nat
  BY WindowRows, ConstantsFit
<1>2. BlankedLine(OwnColor) \in LineRecords
  <2>1. BlankCell(OwnColor) \in Cell
    BY <1>1, BlankIsCell
  <2>2. <<BlankCell(OwnColor)>> \in Seq(Cell) /\ Len(<<BlankCell(OwnColor)>>) = 1
    BY <2>1
  <2>3. 1 \in Nat /\ 1 <= 1
    OBVIOUS
  <2> QED BY <1>1, <2>2, <2>3 DEF BlankedLine, LineRecords, LineType
<1>3. u.lines \in [Rows -> LineRecords] /\ u.maxBuffered \in Int
  BY ScraperFields
<1>4. PICK lines : lines = [r \in Rows |-> IF r < con.top THEN BlankedLine(OwnColor) ELSE u.lines[r]]
  OBVIOUS
<1>5. lines \in [Rows -> LineRecords] /\ \A l \in Rows : ~(l < con.top) => lines[l] = u.lines[l]
  BY <1>2, <1>3, <1>4
<1>6. Max2(u.maxBuffered, con.top - 1) = u.maxBuffered
  BY <1>1 DEF Counted, Max2
<1>7. x = [u EXCEPT !.lines = lines, !.maxBuffered = Max2(u.maxBuffered, con.top - 1)]
  BY <1>4 DEF ResizedLines
<1>8. x = [u EXCEPT !.lines = lines, !.maxBuffered = u.maxBuffered]
  BY <1>6, <1>7
<1>9. /\ x \in Scrapers(width) /\ x.lines = lines /\ x.t = u.t /\ x.direct = u.direct /\ x.scraped = u.scraped
      /\ x.maxBuffered = u.maxBuffered /\ x.dirtyTop = u.dirtyTop /\ x.dirtyLines = u.dirtyLines
  BY <1>3, <1>5, <1>8 DEF Scrapers
<1> QED BY <1>5, <1>9 DEF Blanked

\* What the terminal shows of the window it goes on to show.
LEMMA BlankedShown ==
  ASSUME NEW width \in Nat, NEW c, ConsoleOK(c, width), NEW u \in Scrapers(width), Counted(u), ~u.direct, u.dirtyTop = c.top,
         NEW x, Blanked(u, x, c), NEW r \in RemoteType(width), NEW wide, NEW q, q.rows = r.rows, q.row = r.row,
         NEW resized \in Nat, LinesShown(u, r, width, resized)
  PROVE  LinesShown(x, q, wide, resized + 1)
<1>1. resized + 1 # 0 /\ c.top \in Nat /\ Rows \subseteq Nat
  BY WindowRows, RowsAreLines
<1>2. u.scraped = c.top /\ u.maxBuffered = u.dirtyLines - 1 /\ u.dirtyLines \in Nat /\ c.top < u.dirtyLines
  BY <1>1 DEF Counted
<1>3. ScrollShows(u, r, u.scraped, resized, width) /\ u.scraped + (r.row - u.t.line) >= 1
  BY DEF LinesShown
<1>4. PICK off : off = r.row - u.t.line
  OBVIOUS
<1>5. q.row - x.t.line = off /\ x.t.outputColor = u.t.outputColor /\ x.maxBuffered = u.maxBuffered /\ x.scraped = u.scraped
  BY <1>4 DEF Blanked
<1>6. ASSUME NEW l \in Rows, ~(l > u.maxBuffered), l >= u.scraped
      PROVE  LineThere(x, q, l, resized + 1, wide)
  <2>1. LineThere(u, r, l, resized, width)
    BY <1>3, <1>6 DEF ScrollShows
  <2>2. x.lines[l] = u.lines[l]
    BY <1>1, <1>2, <1>6 DEF Blanked
  <2>3. ASSUME l + off \in 1..Height
        PROVE  RowShows(q.rows[l + off], x.lines[l].data, MaxWidth, x.t.outputColor, resized + 1)
    BY <1>4, <2>1, <2>3, <1>1, <1>5, <2>2 DEF LineThere, RowShows, Shows
  <2> QED BY <1>1, <1>5, <2>3 DEF LineThere
<1>7. ASSUME NEW l \in Rows, l > u.maxBuffered
      PROVE  x.lines[l] = FreshLine
  BY <1>1, <1>2, <1>7, <1>3 DEF ScrollShows, Blanked
<1>8. u.maxBuffered + off <= Height /\ \A k \in 1..Height : k > u.maxBuffered + off => \A i \in 1..MaxWidth : Empty(r.rows[k][i])
  BY <1>3, <1>4 DEF ScrollShows
<1>9. ScrollShows(x, q, x.scraped, resized + 1, wide)
  BY <1>5, <1>6, <1>7, <1>8 DEF ScrollShows
<1>10. x.scraped + off >= 1
  BY <1>3, <1>4, <1>5
<1> QED BY <1>5, <1>9, <1>10 DEF LinesShown, Blanked

\* What it shows after a resize in scrolling mode.
LEMMA ScrollResized ==
  ASSUME NEW old, ConsoleOK(con, old), ~con.direct, NEW width \in Widths, NEW s \in Scrapers(old), s.t.out = <<>>,
         Counted(s), UpToDate(s, con), NEW r \in RemoteType(old), NEW q, q = Widened(r, width), NEW resized \in Nat,
         NEW x, x = ResizedLines(ScrollingScrape(s, con))
  PROVE  ResizedTo(s, x, r, q, resized, width)
<1>1. old \in Nat /\ old >= 1 /\ old <= MaxWidth /\ width \in Nat /\ width >= 1
  BY ConstantsFit, WidthFits
<1>w. Widens(r, q, old, width)
  BY <1>1, WidenedHolds
<1>2. ~s.direct /\ s.direct = con.direct
  BY DEF UpToDate
<1>3. PICK u : u = ScrollingScrape(s, con)
  OBVIOUS
<1>4. u = Scraped(s, con, old)
  BY <1>2, <1>3 DEF Scraped, ModeSynced
<1>5. ScrapedTo(s, u, con, old)
  BY <1>1, <1>4, ScrapedHolds
<1>6. u \in Scrapers(old) /\ Counted(u) /\ ~u.direct /\ u.dirtyTop = con.top
  BY <1>2, <1>5 DEF ScrapedTo, UpToDate
<1>7. u.t = s.t
  BY <1>1, <1>2, <1>3, ScrollingAgain
<1>8. x \in Scrapers(old) /\ Blanked(u, x, con)
  BY <1>1, <1>3, <1>6, LinesBlanked
<1>9. x.t = s.t /\ x \in Scrapers(width) /\ Counted(x)
  BY <1>7, <1>8, <1>1, QuietScraper, <1>6 DEF Blanked, Counted
<1>10. ASSUME ~s.t.plain, Known(s.t, r, resized), LinesShown(s, r, r.width, resized), width > r.width => s.t.column = r.col
       PROVE  /\ Known(x.t, Now(q, x.t), resized + 1) /\ LinesShown(x, Now(q, x.t), width, resized + 1)
              /\ CursorTold(x.t, q, s.t.hidden)
  <2>1. s.t.column \in Nat /\ s.t.hidden \in BOOLEAN /\ r.width = old
    BY <1>1, ScraperFields, RemoteFields, ConstantsFit
  <2>2. q \in RemoteType(width) /\ q.row = r.row /\ q.rows = r.rows /\ Known(s.t, q, resized + 1)
    BY <1>1, <1>10, <2>1, <1>w DEF Widens
  <2>3. Told(s.t, q, resized + 1, s.t.hidden) /\ Now(q, s.t) = q
    BY <1>1, <2>2, NothingTold
  <2>4. Told(s.t, r, resized, s.t.hidden) /\ Now(r, s.t) = r
    BY <1>1, <1>10, NothingTold
  <2>5. LinesShown(u, r, old, resized)
    BY <1>10, <2>1, <2>4, <1>5, <1>7 DEF ScrapedTo
  <2>6. LinesShown(x, q, width, resized + 1)
    BY <1>1, <1>6, <1>8, <2>2, <2>5, BlankedShown
  <2> QED BY <1>9, <2>2, <2>3, <2>6 DEF Told
<1> QED BY <1>9, <1>10 DEF ResizedTo

-----------------------------------------------------------------------------
(* What follows from the invariant.                                        *)

\* A place that shows a cell has what ShowsConsole asks.
LEMMA ShowsIsSame ==
  ASSUME NEW place, NEW cell, Shows(place, cell, Term.outputColor, resizes)
  PROVE  SameCell(place, cell)
BY DEF Shows, SameCell, PartOf

\* A row that shows what is remembered shows the console's line.
LEMMA RememberedShown ==
  ASSUME NEW width \in Nat, NEW rec \in LineRecords, NEW cells \in Seq(Cell), Len(cells) = width, Remembers(rec, cells),
         NEW n \in Nat, n >= width, NEW row, RowShows(row, rec.data, n, Term.outputColor, resizes)
  PROVE  \A i \in 1..width : SameCell(row[i], cells[i])
<1> SUFFICES ASSUME NEW i \in 1..width PROVE SameCell(row[i], cells[i])
  OBVIOUS
<1>1. rec.length = width /\ rec.data[i] = cells[i] /\ width <= Len(rec.data) /\ Len(rec.data) \in Nat
  <2>1. rec.length = width
    BY DEF Remembers
  <2>2. rec.data \in Seq(Cell) /\ rec.length <= Len(rec.data)
    BY LineRecordFields
  <2>3. rec.data[i] = cells[i]
    BY <2>1, <2>2 DEF Remembers
  <2> QED BY <2>1, <2>2, <2>3
<1>2. i \in 1..n /\ i <= Len(rec.data)
  BY <1>1
<1>3. Shows(row[i], rec.data[i], Term.outputColor, resizes)
  BY <1>2 DEF RowShows
<1> QED BY <1>1, <1>3, ShowsIsSame

\* Where the terminal shows a line.
LEMMA RowOfLine ==
  ASSUME IInv, NEW row \in Window
  PROVE  /\ row \in Nat /\ remote.row \in 1..Height /\ sc.t.line \in Nat
         /\ RowOf(row) = row + (remote.row - sc.t.line)
<1> DEFINE line == sc.t.line
<1>1. /\ ConsoleOK(con, Width) /\ sc \in Scrapers(Width) /\ remote \in RemoteType(Width) /\ Width \in Nat /\ Width >= 1
  BY WidthFits DEF IInv
<1>2. remote.row \in 1..Height /\ Height \in Nat
  BY <1>1, ConstantsFit, RemoteFields
<1>3. line \in Nat
  BY <1>1, ScraperFields
<1>4. con.top \in Nat /\ row \in Nat /\ (con.direct => con.top = 0)
  BY <1>1, <1>2, WindowRows DEF Window, ConsoleOK
<1>5. LineOf(row) = row
  BY <1>4 DEF LineOf
<1> HIDE DEF line
<1>6. RowOf(row) = remote.row + (row - line)
  BY <1>5 DEF RowOf, Term, line
<1>7. remote.row + (row - line) = row + (remote.row - line)
  <2>1. PICK x : x = remote.row
    OBVIOUS
  <2>2. x \in Int /\ row \in Int /\ line \in Int
    BY <2>1, <1>2, <1>3, <1>4
  <2>3. x + (row - line) = row + (x - line)
    BY <2>2
  <2> QED BY <2>1, <2>3
<1> QED BY <1>2, <1>3, <1>4, <1>6, <1>7 DEF line

\* After a scrape the window is shown, in direct mode
LEMMA DirectShown ==
  ASSUME IInv, pc = "drawn", ~Term.plain, ~lostColumn, con.direct, NEW row \in Window
  PROVE  RowOf(row) \in 1..Height /\ \A i \in 1..Width : SameCell(remote.rows[RowOf(row)][i], con.rows[row][i])
<1>1. /\ ConsoleOK(con, Width) /\ sc \in Scrapers(Width) /\ UpToDate(sc, con)
      /\ LinesShown(sc, remote, Width, resizes)
  BY DEF IInv, Term
<1>2. Width \in Nat /\ Width >= 1 /\ Width <= MaxWidth /\ Height \in Nat /\ con.top \in Nat /\ row \in Rows
  BY <1>1, WidthFits, ConstantsFit, WindowRows, RowOfLine DEF Window
<1>3. con.top = 0 /\ sc.direct
  BY <1>1 DEF ConsoleOK, UpToDate
<1>4. /\ row \in Nat /\ remote.row \in 1..Height /\ sc.t.line \in Nat
      /\ RowOf(row) = row + (remote.row - sc.t.line)
  BY RowOfLine
<1>5. row \in 0..(Height - 1)
  BY <1>2, <1>3 DEF Window
<1>6. DirectShows(sc, remote, Width, resizes, Width)
  BY <1>1, <1>3 DEF LinesShown
<1>7. remote.row = sc.t.line + 1
  BY <1>6 DEF DirectShows
<1>8. RowOf(row) = row + 1 /\ row + 1 \in 1..Height
  BY <1>2, <1>4, <1>5, <1>7
<1>9. sc.lines[row] \in LineRecords /\ con.rows[row] \in Seq(Cell) /\ Len(con.rows[row]) = Width
  BY <1>1, <1>2, ScraperFields DEF ConsoleOK, HasRows
<1>10. Remembers(sc.lines[row], con.rows[row])
  BY <1>1, <1>3 DEF UpToDate, Window
<1>11. sc.lines[row].length # 0
  BY <1>2, <1>9, <1>10 DEF Remembers
<1>12. RowShows(remote.rows[row + 1], sc.lines[row].data, Width, Term.outputColor, resizes)
  BY <1>5, <1>6, <1>11 DEF DirectShows, Ready, Term
<1>13. Width >= Width
  BY <1>2
<1>14. \A i \in 1..Width : SameCell(remote.rows[row + 1][i], con.rows[row][i])
  BY <1>2, <1>9, <1>10, <1>12, <1>13, RememberedShown
<1> QED BY <1>8, <1>14

\* and in scrolling mode, where lines never dirty are blank.
LEMMA ScrollShown ==
  ASSUME IInv, pc = "drawn", ~Term.plain, ~lostColumn, ~con.direct, NEW row \in Window
  PROVE  IF Tracked(row)
         THEN RowOf(row) \in 1..Height /\ \A i \in 1..Width : SameCell(remote.rows[RowOf(row)][i], con.rows[row][i])
         ELSE \A i \in 1..Width :
                /\ con.rows[row][i].ch = 32
                /\ RowOf(row) \in 1..Height => remote.rows[RowOf(row)][i].ch = 32
<1>1. /\ ConsoleOK(con, Width) /\ sc \in Scrapers(Width) /\ UpToDate(sc, con) /\ Counted(sc)
      /\ LinesShown(sc, remote, Width, resizes)
  BY DEF IInv, Term
<1>2. /\ Width \in Nat /\ Width <= MaxWidth /\ Height \in Nat /\ con.top \in Nat /\ row \in Rows
      /\ MaxWidth \in Nat /\ con.direct \in BOOLEAN
  BY <1>1, WidthFits, ConstantsFit, WindowRows, RowOfLine DEF Window
<1>3. ~sc.direct /\ sc.dirtyTop = con.top
  BY <1>1 DEF UpToDate
<1>4. /\ row \in Nat /\ remote.row \in 1..Height /\ sc.t.line \in Nat
      /\ RowOf(row) = row + (remote.row - sc.t.line)
  BY RowOfLine
<1>5. sc.scraped = con.top /\ sc.maxBuffered = sc.dirtyLines - 1 /\ sc.dirtyLines \in Nat
  BY <1>1, <1>2, <1>3 DEF Counted
<1>6. PICK off \in Int : off = remote.row - sc.t.line
  BY <1>2, <1>4
<1>7. ScrollShows(sc, remote, sc.scraped, resizes, Width) /\ sc.scraped + off >= 1
  BY <1>1, <1>3, <1>6 DEF LinesShown
<1>8. row >= con.top /\ row < con.top + Height
  BY <1>2 DEF Window
<1>9. con.rows[row] \in Seq(Cell) /\ Len(con.rows[row]) = Width /\ sc.lines[row] \in LineRecords
  BY <1>1, <1>2, ScraperFields DEF ConsoleOK, HasRows
<1>10. CASE row < sc.dirtyLines
  <2>1. row <= sc.maxBuffered /\ row >= sc.scraped /\ ~(row > sc.maxBuffered)
    BY <1>4, <1>5, <1>8, <1>10
  <2>2. sc.maxBuffered + off <= Height
    BY <1>6, <1>7 DEF ScrollShows
  <2>3. row + off \in 1..Height
    BY <1>2, <1>4, <1>5, <1>7, <2>1, <2>2
  <2>4. LineThere(sc, remote, row, resizes, Width)
    BY <1>2, <1>7, <2>1 DEF ScrollShows
  <2>5. RowShows(remote.rows[row + off], sc.lines[row].data, MaxWidth, Term.outputColor, resizes)
    BY <1>6, <2>3, <2>4 DEF LineThere, Term
  <2>6. Remembers(sc.lines[row], con.rows[row])
    BY <1>1, <1>10 DEF UpToDate, Window
  <2>7. \A i \in 1..Width : SameCell(remote.rows[row + off][i], con.rows[row][i])
    BY <1>2, <1>9, <2>5, <2>6, RememberedShown
  <2> QED BY <1>4, <1>6, <1>10, <2>3, <2>7 DEF Tracked
<1>11. CASE ~(row < sc.dirtyLines)
  <2>1. row \in sc.dirtyLines..(con.top + Height - 1)
    BY <1>2, <1>4, <1>5, <1>8, <1>11
  <2>2. BlankBelow(con, row)
    BY <1>1, <1>3, <2>1 DEF UpToDate
  <2>3. \A i \in 1..Width : con.rows[row][i].ch = 32
    BY <1>9, <2>2 DEF BlankBelow, IsLineBlank, BlankCell
  <2>4. ASSUME row + off \in 1..Height, NEW i \in 1..Width
        PROVE  remote.rows[row + off][i].ch = 32
    BY <1>4, <1>5, <1>11, <1>2, <1>6, <1>7, <2>4 DEF ScrollShows, Empty
  <2> QED BY <1>4, <1>6, <1>11, <2>3, <2>4 DEF Tracked
<1> QED BY <1>10, <1>11

\* The invariant implies ShowsConsole,
LEMMA ShowsConsoleHolds ==
  ASSUME IInv
  PROVE  ShowsConsole
<1> SUFFICES ASSUME pc = "drawn", ~Term.plain, ~lostColumn, NEW row \in Window
             PROVE  IF Tracked(row)
                    THEN /\ RowOf(row) \in 1..Height
                         /\ \A i \in 1..Width : SameCell(remote.rows[RowOf(row)][i], con.rows[row][i])
                    ELSE \A i \in 1..Width :
                           /\ con.rows[row][i].ch = 32
                           /\ RowOf(row) \in 1..Height => remote.rows[RowOf(row)][i].ch = 32
  BY DEF ShowsConsole
<1>1. CASE con.direct
  BY <1>1, DirectShown DEF Tracked
<1>2. CASE ~con.direct
  BY <1>2, ScrollShown
<1> QED BY <1>1, <1>2

\* TypeOK,
LEMMA TypeHolds ==
  ASSUME IInv
  PROVE  TypeOK
<1>1. ConsoleOK(con, Width) /\ sc \in Scrapers(Width) /\ remote \in RemoteType(Width) /\ sc.t.out = <<>>
  BY DEF IInv
<1>2. /\ Width \in Nat /\ Width >= 1 /\ Height \in Nat /\ con.top \in Nat /\ con.top <= MaxTop /\ con.cur.row \in Nat
      /\ con.cur.col \in Nat /\ con.cur.row < con.top + Height /\ \A l \in Nat : l < con.top + Height => l \in Rows
      /\ MaxTop \in Nat
  BY <1>1, WidthFits, ConstantsFit, WindowRows
<1>3. con.cur.col < Width /\ \A r \in Rows : Len(con.rows[r]) = Width
  BY <1>1 DEF ConsoleOK, HasRows
<1>4. con.top \in 0..MaxTop /\ con.cur.row \in Rows /\ con.cur.col \in 0..(Width - 1)
  BY <1>2, <1>3
<1>5. sc.t.column \in 0..MaxWidth /\ remote.row \in 1..Height /\ remote.col \in 0..remote.width
  BY <1>1, <1>2, ScraperFields, RemoteFields
<1> QED BY <1>1, <1>3, <1>4, <1>5 DEF TypeOK

\* BeliefTrue
LEMMA BeliefHolds ==
  ASSUME IInv
  PROVE  BeliefTrue
<1>1. sc \in Scrapers(Width) /\ remote \in RemoteType(Width) /\ ConsoleOK(con, Width)
  BY DEF IInv
<1>2. Width \in Nat /\ sc.t \in TermType(Width) /\ TermOK(sc.t)
  BY <1>1, WidthFits, ScraperFields
<1>3. Term.valid => Len(Term.data) = Term.column
  BY <1>2 DEF Term, TermOK
<1>4. DOMAIN Term.data = 1..Len(Term.data)
  BY <1>2 DEF Term, TermType
<1>5. ASSUME ~Term.plain, ~lostColumn
      PROVE  /\ Term.column < remote.width => remote.col = Term.column
             /\ Term.color # NoColor => remote.color = Term.color
             /\ Term.hidden => ~remote.visible
             /\ \A i \in 1..Len(Term.data) : SameCell(remote.rows[remote.row][i], Term.data[i])
  BY <1>5, ShowsIsSame DEF IInv, Term, Known
<1> QED BY <1>3, <1>4, <1>5 DEF BeliefTrue

\* and CursorShown.
LEMMA CursorHolds ==
  ASSUME IInv
  PROVE  CursorShown
<1> SUFFICES ASSUME pc = "drawn", ~Term.plain, ~lostColumn
             PROVE  IF CursorInWindow
                    THEN /\ remote.row = RowOf(con.cur.row) /\ remote.col = con.cur.col
                         /\ (remote.visible \/ lostHide)
                    ELSE ~remote.visible
  BY DEF CursorShown
<1>1. /\ ConsoleOK(con, Width) /\ sc \in Scrapers(Width) /\ remote \in RemoteType(Width) /\ UpToDate(sc, con)
      /\ Known(sc.t, remote, resizes) /\ (~sc.t.hidden => remote.visible \/ lostHide)
  BY DEF IInv, Term
<1>2. Width \in Nat /\ Height \in Nat
  BY <1>1, WidthFits, ConstantsFit
<1>3. remote.width = Width /\ remote.row \in 1..Height
  BY <1>1, <1>2, RemoteFields
<1>4. con.cur.row \in Window /\ con.cur.col < Width
  BY <1>1 DEF ConsoleOK, Window
<1>5. CursorInWindow = con.visible
  BY <1>1, <1>2, <1>4, WindowRows DEF CursorInWindow
<1>6. ShownAlready(sc, con)
  BY <1>1 DEF UpToDate
<1>7. CASE con.visible
  BY <1>6, <1>7, <1>4, RowOfLine, <1>2, <1>3, <1>1, <1>5 DEF ShownAlready, Term, Known
<1>8. CASE ~con.visible
  BY <1>6, <1>8, <1>1, <1>5 DEF ShownAlready, Term, Known
<1> QED BY <1>7, <1>8

\* A resize keeps the invariant: the lines that were shown still are, or will be sent again.
LEMMA ResizeStep ==
  ASSUME IInv, NEW width \in Widths, Resize(width)
  PROVE  IInv'
<1>1. PICK old : old = Width
  OBVIOUS
<1>2. /\ ConsoleOK(con, old) /\ sc \in Scrapers(old) /\ sc.t.out = <<>> /\ Counted(sc) /\ remote \in RemoteType(old)
      /\ resizes \in Nat /\ UpToDate(sc, con) /\ lostHide \in BOOLEAN /\ lostColumn \in BOOLEAN
  BY <1>1 DEF IInv, Resize
<1>3. old \in Nat /\ width \in Nat /\ width >= 1 /\ remote.width = old /\ con.direct = sc.direct /\ sc.direct \in BOOLEAN
  BY <1>2, WidthFits, ConstantsFit, RemoteFields, ScraperFields DEF UpToDate
<1>4. /\ resizes' = resizes + 1 /\ pc' = "changed" /\ con' = ResizedConsole(width) /\ lostHide' = lostHide
      /\ lostColumn' = (lostColumn \/ (width > remote.width /\ sc.t.column # remote.col))
  BY DEF Resize
<1>5. ConsoleOK(con', width)
  BY <1>2, <1>4, ResizedConsoleHolds
<1>6. Width' = width
  BY <1>5, WidthFits DEF Width
<1>7. PICK q : q = Widened(remote, width)
  OBVIOUS
<1>8. q \in RemoteType(width) /\ q.visible = remote.visible
  BY <1>2, <1>3, <1>7, WidenedHolds DEF Widens
<1>9. PICK u : u = IF sc.direct
                   THEN DirectScrape(ResizedLines(sc), [con EXCEPT !.rows = [r \in Rows |-> CutRow(con.rows[r], width)]],
                                     Min2(old, width))
                   ELSE ResizedLines(ScrollingScrape(sc, con))
  OBVIOUS
<1>10. remote' = Now(q, u.t) /\ sc' = [u EXCEPT !.t.out = <<>>]
  BY <1>1, <1>7, <1>9 DEF Resize, Now
<1>11. ResizedTo(sc, u, remote, q, resizes, width)
  BY <1>2, <1>3, <1>7, <1>9, DirectResized, ScrollResized
<1>12. u \in Scrapers(width) /\ Counted(u) /\ u.t.plain = sc.t.plain /\ u.t \in TermType(width)
  BY <1>3, <1>11, ScraperFields DEF ResizedTo
<1>13. Emptied(u, sc', width)
  BY <1>3, <1>10, <1>12, EmptiedType
<1>14. remote' \in RemoteType(width)
  BY <1>3, <1>8, <1>10, <1>12, NowType
<1>15. Counted(sc') /\ sc' \in Scrapers(width) /\ sc'.t.out = <<>>
  BY <1>3, <1>12, <1>13, EmptiedHolds DEF Emptied
<1>16. ASSUME ~sc'.t.plain, ~lostColumn'
       PROVE  /\ Known(sc'.t, remote', resizes') /\ (~sc'.t.hidden => remote'.visible \/ lostHide')
              /\ LinesShown(sc', remote', width, resizes')
  <2>1. ~sc.t.plain /\ ~lostColumn /\ (width > remote.width => sc.t.column = remote.col)
    BY <1>4, <1>12, <1>13, <1>16 DEF Emptied, SameTerm
  <2>2. Known(sc.t, remote, resizes) /\ (~sc.t.hidden => remote.visible \/ lostHide) /\ LinesShown(sc, remote, old, resizes)
    BY <1>1, <2>1 DEF IInv
  <2>3. /\ Known(u.t, remote', resizes') /\ LinesShown(u, remote', width, resizes') /\ CursorTold(u.t, q, sc.t.hidden)
    BY <1>3, <1>4, <1>10, <1>11, <2>1, <2>2 DEF ResizedTo
  <2>4. Known(sc'.t, remote', resizes') /\ LinesShown(sc', remote', width, resizes')
    BY <1>3, <1>13, <2>3, EmptiedHolds
  <2>5. ASSUME ~sc'.t.hidden PROVE remote'.visible \/ lostHide'
    BY <1>13, <2>5, <2>3, <1>10, <1>14, <1>8, <1>4, <2>2 DEF Emptied, CursorTold, RemoteType
  <2> QED BY <2>4, <2>5
<1>17. resizes' \in Nat /\ lostHide' \in BOOLEAN /\ lostColumn' \in BOOLEAN
  BY <1>2, <1>4
<1> QED BY <1>4, <1>5, <1>6, <1>14, <1>15, <1>16, <1>17 DEF IInv

\* Nothing changes when nothing changes.
LEMMA StutterStep ==
  ASSUME IInv, UNCHANGED vars
  PROVE  IInv'
BY DEF vars, Width, IInv

\* The inductive invariant holds: what is remembered is shown, and what is believed is true.
THEOREM InvariantHolds == Spec => []IInv
<1>1. Init => IInv
  BY InitHolds
<1>2. IInv /\ [Next]_vars => IInv'
  BY ProgramStep, ScrapeStep, ResizeStep, StutterStep DEF Next
<1> QED BY <1>1, <1>2, PTL DEF Spec

\* After a scrape the terminal has the console's characters and colours.
THEOREM ScreenShowsConsole == Spec => []ShowsConsole
<1>1. IInv => ShowsConsole
  BY ShowsConsoleHolds
<1> QED BY <1>1, InvariantHolds, PTL

\* What Terminal believes of the terminal, its cursor included, is so.
THEOREM TerminalIsKnown == Spec => []TerminalKnown
<1>1. IInv => TerminalKnown
  BY TypeHolds, BeliefHolds, CursorHolds DEF TerminalKnown
<1> QED BY <1>1, InvariantHolds, PTL

\* Both, which is what the run checks.
THEOREM ScreenIsRight == Spec => []ScreenRight
<1>1. ShowsConsole /\ TerminalKnown => ScreenRight
  BY DEF ScreenRight
<1> QED BY <1>1, ScreenShowsConsole, TerminalIsKnown, PTL
-----------------------------------------------------------------------------
(* A terminal without escape sequences: what it has got stays.             *)

\* r's rows, as far as its cursor has come, are those of q, which may have scrolled.
Risen(r, q) == q.scrolled - r.scrolled
Stays(r, q) ==
  /\ Risen(r, q) >= 0 /\ q.row + Risen(r, q) >= r.row
  /\ \A k \in (1 + Risen(r, q))..r.row, i \in 1..MaxWidth :
       k < r.row \/ i <= r.col => q.rows[k - Risen(r, q)][i] = r.rows[k][i]

\* q's cursor is not before r's.
After(r, q) == q.row + Risen(r, q) > r.row \/ (q.row + Risen(r, q) = r.row /\ q.col >= r.col)

\* Line feeds change nothing above, and are behind it.
LEMMA FeedStays ==
  ASSUME NEW old \in Nat, NEW width \in Nat, NEW r \in RemoteType(old), NEW q \in RemoteType(width),
         NEW p \in RemoteType(width), NEW n \in Nat, n >= 1, Moved(q, p, n), Stays(r, q)
  PROVE  Stays(r, p) /\ p.row + Risen(r, p) > r.row
<1>1. /\ Height \in Nat /\ r.row \in 1..Height /\ q.row \in 1..Height /\ p.row \in 1..Height
      /\ r.scrolled \in Nat /\ q.scrolled \in Nat /\ p.scrolled \in Nat
  BY ConstantsFit, RemoteFields
<1>2. PICK d \in Nat : d = Up(q.row + n)
  BY <1>1 DEF Up
<1>3. PICK up \in Nat : up = Risen(r, q)
  BY <1>1 DEF Stays, Risen
<1>4. Risen(r, p) = up + d /\ p.row + (up + d) > r.row
  BY <1>1, <1>2, <1>3 DEF Moved, Risen, Stays
<1>5. ASSUME NEW k \in (1 + (up + d))..r.row, NEW i \in 1..MaxWidth, k < r.row \/ i <= r.col
      PROVE  p.rows[k - (up + d)][i] = r.rows[k][i]
  <2>1. PICK j \in 1..Height : j = k - (up + d)
    BY <1>1
  <2>2. j + d = k - up /\ j + d <= Height /\ k \in (1 + up)..r.row
    BY <1>1, <2>1
  <2>3. p.rows[j] = q.rows[k - up]
    BY <1>2, <2>2 DEF Moved, FedRow
  <2> QED BY <2>1, <2>2, <2>3, <1>3, <1>5 DEF Stays
<1> QED BY <1>1, <1>4, <1>5 DEF Stays

\* What a character changes is behind the cursor,
Overwritten(q, p) ==
  /\ p.row = q.row /\ p.scrolled = q.scrolled /\ p.col \in Nat /\ p.col >= q.col
  /\ \A k \in 1..Height, i \in 1..MaxWidth : k # q.row \/ i <= q.col => p.rows[k][i] = q.rows[k][i]

LEMMA CellStays ==
  ASSUME NEW old \in Nat, NEW width \in Nat, NEW r \in RemoteType(old), NEW q \in RemoteType(width),
         Stays(r, q), After(r, q), NEW p, Overwritten(q, p)
  PROVE  Stays(r, p) /\ After(r, p)
<1>1. /\ Height \in Nat /\ r.row \in 1..Height /\ q.row \in 1..Height /\ q.col \in Nat /\ r.col \in Nat
      /\ r.scrolled \in Nat /\ q.scrolled \in Nat
  BY ConstantsFit, RemoteFields
<1>2. PICK up \in Nat : up = Risen(r, q)
  BY <1>1 DEF Stays, Risen
<1>3. Risen(r, p) = up
  BY <1>2 DEF Risen, Overwritten
<1>4. ASSUME NEW k \in (1 + up)..r.row, NEW i \in 1..MaxWidth, k < r.row \/ i <= r.col
      PROVE  p.rows[k - up][i] = r.rows[k][i]
  <2>1. PICK j \in 1..Height : j = k - up
    BY <1>1
  <2>2. q.rows[j][i] = r.rows[k][i]
    BY <1>2, <1>4, <2>1 DEF Stays
  <2>3. ASSUME j = q.row PROVE i <= q.col
    <3>1. k = q.row + up
      BY <1>1, <2>1, <2>3
    <3>2. k = r.row /\ q.col >= r.col
      BY <1>1, <1>2, <3>1 DEF After
    <3> QED BY <1>1, <1>4, <3>2
  <2> QED BY <2>1, <2>2, <2>3 DEF Overwritten
<1> QED BY <1>1, <1>2, <1>3, <1>4 DEF Stays, After, Overwritten

\* and so is a line feed.
LEMMA LineFeedStays ==
  ASSUME NEW old \in Nat, NEW width \in Nat, width >= 1, NEW r \in RemoteType(old), NEW q \in RemoteType(width),
         Stays(r, q), NEW p, p = LineFeed([q EXCEPT !.col = 0])
  PROVE  p \in RemoteType(width) /\ p.col = 0 /\ Stays(r, p) /\ p.row + Risen(r, p) > r.row
<1>1. /\ Height \in Nat /\ q.row \in 1..Height /\ q.scrolled \in Nat /\ [q EXCEPT !.col = 0] \in RemoteType(width)
      /\ 0 \in 0..width
  BY ConstantsFit, RemoteFields, RemoteEdits
<1>2. p \in RemoteType(width)
  BY <1>1, LineFeedType
<1>3. PICK n \in Nat : n = 0
  OBVIOUS
<1>4. Moved(q, q, n)
  <2>1. Up(q.row + n) = 0 /\ q.row + n = q.row
    BY <1>1, <1>3 DEF Up
  <2> QED BY <1>1, <1>3, <2>1 DEF Moved, FedRow
<1>5. Moved(q, p, n + 1) /\ p.col = 0
  BY <1>3, <1>4, LineFeedMoves
<1> QED BY <1>2, <1>3, <1>5, FeedStays

\* Characters go behind the cursor, in the next row if there is no room.
LEMMA PutStays ==
  ASSUME NEW old \in Nat, NEW width \in Nat, width >= 1, NEW r \in RemoteType(old), NEW q \in RemoteType(width),
         Stays(r, q), After(r, q), NEW ch \in Nat, NEW wide \in BOOLEAN, wide => width >= 2
  PROVE  Stays(r, PutChar(q, ch, wide)) /\ After(r, PutChar(q, ch, wide))
<1>1. PICK n \in 1..2 : n = IF wide THEN 2 ELSE 1
  OBVIOUS
<1>2. PICK s : s = IF q.col + n > q.width THEN LineFeed([q EXCEPT !.col = 0]) ELSE q
  OBVIOUS
<1>3. q.col \in Nat /\ q.width = width /\ n <= width
  BY <1>1, ConstantsFit, RemoteFields
<1>4. s \in RemoteType(width) /\ s.col + n <= width /\ Stays(r, s) /\ After(r, s)
  <2>1. CASE q.col + n > q.width
    BY <1>1, <1>2, <1>3, <2>1, LineFeedStays DEF After
  <2>2. CASE ~(q.col + n > q.width)
    BY <1>2, <1>3, <2>2
  <2> QED BY <2>1, <2>2
<1>5. PICK row : row = [i \in 1..MaxWidth |->
                          IF i = s.col + 1 THEN [ch |-> ch, part |-> IF wide THEN "left" ELSE "one", color |-> q.color]
                          ELSE IF wide /\ i = s.col + 2 THEN [ch |-> ch, part |-> "right", color |-> q.color]
                          ELSE s.rows[s.row][i]]
  OBVIOUS
<1>6. s.col \in Nat /\ s.rows \in [1..Height -> [1..MaxWidth -> Places]] /\ s.row \in 1..Height /\ q.color \in Nat
  BY <1>4, ConstantsFit, RemoteFields
<1>7. PICK p : p = PutChar(q, ch, wide)
  OBVIOUS
<1>8. Overwritten(s, p)
  <2>1. p = [s EXCEPT !.rows[s.row] = row, !.col = s.col + n]
    BY <1>1, <1>2, <1>5, <1>7 DEF PutChar
  <2>2. /\ p.row = s.row /\ p.scrolled = s.scrolled /\ p.col = s.col + n
        /\ \A k \in 1..Height : p.rows[k] = IF k = s.row THEN row ELSE s.rows[k]
    BY <1>4, <2>1 DEF RemoteType
  <2>3. \A i \in 1..MaxWidth : i <= s.col => row[i] = s.rows[s.row][i]
    BY <1>5, <1>6
  <2> QED BY <1>1, <1>6, <2>2, <2>3 DEF Overwritten
<1> QED BY <1>4, <1>7, <1>8, CellStays

\* So what only appends changes nothing that the cursor has passed; colours change nothing wherever it is.
LEMMA AppendingStays ==
  ASSUME NEW old \in Nat, NEW width \in Nat, width >= 1, NEW r \in RemoteType(old), NEW q \in RemoteType(width),
         NEW ops \in Seq(Ops(width)), Appending(ops), Stays(r, q),
         After(r, q) \/ \A i \in 1..Len(ops) : ops[i].op = "SGR",
         NEW p, p = PerformAll(q, ops)
  PROVE  Stays(r, p) /\ (After(r, q) => After(r, p))
<1>1. PICK at \in [0..Len(ops) -> RemoteType(width)] :
        /\ at[0] = q /\ at[Len(ops)] = p
        /\ \A k \in 1..Len(ops) : at[k] = Perform(at[k - 1], ops[k])
  BY PerformAllTable
<1> DEFINE Kept(s) == Stays(r, s) /\ (After(r, q) => After(r, s))
           T == {k \in 0..Len(ops) : Kept(at[k])}
<1>2. ASSUME NEW k \in 0..(Len(ops) - 1), k \in T
      PROVE  k + 1 \in T
  <2>1. PICK s \in RemoteType(width) : s = at[k] /\ Kept(s)
    BY <1>2
  <2>2. PICK o \in Ops(width) : o = ops[k + 1]
    OBVIOUS
  <2>3. PICK u : u = Perform(s, o)
    OBVIOUS
  <2>4. u = at[k + 1] /\ k + 1 \in 0..Len(ops)
    BY <1>1, <2>1, <2>2, <2>3
  <2>5. o.op \in {"put", "SGR", "CRLF"} /\ (After(r, q) \/ o.op = "SGR")
    BY <2>2 DEF Appending
  <2> HIDE DEF T
  <2>6. Kept(u)
    <3>1. CASE o.op = "put"
      <4>1. o.ch \in Nat /\ o.wide \in BOOLEAN /\ (o.wide => width >= 2) /\ u = PutChar(s, o.ch, o.wide)
        BY <2>3, <3>1 DEF Ops, Perform
      <4> QED BY <2>1, <2>5, <3>1, <4>1, PutStays
    <3>2. CASE o.op = "SGR"
      <4>1. u.rows = s.rows /\ u.row = s.row /\ u.col = s.col /\ u.scrolled = s.scrolled
        BY <2>3, <3>2 DEF Perform, RemoteType
      <4> QED BY <2>1, <4>1 DEF Stays, After, Risen
    <3>3. CASE o.op = "CRLF"
      <4>1. u = LineFeed([s EXCEPT !.col = 0])
        BY <2>3, <3>3 DEF Perform
      <4> QED BY <2>1, <4>1, LineFeedStays DEF After
    <3> QED BY <2>5, <3>1, <3>2, <3>3
  <2> QED BY <2>4, <2>6 DEF T
<1>3. 0 \in T /\ T \in SUBSET Nat
  BY <1>1
<1>4. Len(ops) \in T
  <2> HIDE DEF T
  <2>1. PICK n \in Nat : n = Len(ops)
    OBVIOUS
  <2>2. \A k \in 0..n : k \in T
    BY <1>2, <1>3, <2>1, Counting
  <2> QED BY <2>1, <2>2
<1> QED BY <1>1, <1>4

\* A terminal that has got line feeds is at the start of a row below.
LEMMA FedStays ==
  ASSUME NEW old \in Nat, NEW width \in Nat, width >= 1, NEW r \in RemoteType(old), NEW r0 \in RemoteType(width),
         NEW t \in TermType(width), NEW u \in TermType(width), Fed(t, u, r0)
  PROVE  Now(r0, u).col = 0 /\ (Stays(r, Now(r0, t)) => Stays(r, Now(r0, u)) /\ After(r, Now(r0, u)))
<1>1. PICK q \in RemoteType(width), p \in RemoteType(width) : q = Now(r0, t) /\ p = Now(r0, u)
  BY NowType
<1>2. PICK n \in Nat : n >= 1 /\ p = PerformAll(q, CrLfs(n))
  BY <1>1 DEF Fed
<1>3. Moved(q, p, n) /\ p.col = 0
  BY <1>2, CrLfsMove
<1> QED BY <1>1, <1>2, <1>3, FeedStays DEF After

\* sendLine appends: behind what is there, in a new row, or nothing but colours.
Opens(r, q, t, line, cells) == After(r, q) \/ line # t.line \/ (CanAppend(t, cells) => Quiet(t, cells))

LEMMA SendStays ==
  ASSUME NEW old \in Nat, NEW width \in Nat, width >= 1, width <= MaxWidth, NEW r \in RemoteType(old),
         NEW r0 \in RemoteType(width), NEW t \in TermType(width), TermOK(t), t.plain, NEW line \in Nat,
         NEW cells \in Seq(Cell), Paired(cells), Len(cells) >= 1, Len(cells) <= width, NEW cursorColumn,
         Stays(r, Now(r0, t)), Opens(r, Now(r0, t), t, line, cells)
  PROVE  Stays(r, Now(r0, sendLine(t, line, cells, cursorColumn)))
<1>1. PICK m : m = moveTerminalToLine(t, line)
  OBVIOUS
<1>2. /\ m \in TermType(width) /\ TermOK(m) /\ m.plain /\ Stays(r, Now(r0, m))
      /\ After(r, Now(r0, m)) \/ (CanAppend(m, cells) => Quiet(m, cells))
  <2>1. CASE line = t.line
    BY <1>1, <2>1 DEF moveTerminalToLine, Opens
  <2>2. CASE line # t.line
    BY <1>1, <2>2, MoveHolds, FedStays
  <2> QED BY <2>1, <2>2
<1>3. PICK s : s = Rewind(m, cells)
  OBVIOUS
<1>4. Rewound(m, s, cells, width) /\ IF CanAppend(m, cells) THEN s = m ELSE Fed(m, s, r0)
  BY <1>2, <1>3, RewindHolds
<1>5. /\ s \in TermType(width) /\ TermOK(s) /\ s.valid /\ s.plain
      /\ s.column = Len(s.data) /\ Len(s.data) <= Len(cells) /\ (\A i \in 1..Len(s.data) : s.data[i] = cells[i])
  BY <1>2, <1>4 DEF Rewound
<1>6. Stays(r, Now(r0, s)) /\ (After(r, Now(r0, s)) \/ Quiet(s, cells))
  BY <1>2, <1>4, <1>5, FedStays
<1>7. PICK u : u = sendLine(t, line, cells, cursorColumn)
  OBVIOUS
<1>8. u = WriteLine(s, cells, cursorColumn, Drawn(s, cells))
  BY <1>1, <1>3, <1>7 DEF sendLine
<1>9. Printed(s, u, cells, r0, width)
  BY <1>5, <1>8, WriteLineHolds
<1>10. PICK q \in RemoteType(width) : q = Now(r0, s)
  BY <1>5, NowType
<1>11. PICK ops \in Seq(Ops(width)) : /\ Appending(ops) /\ Now(r0, u) = PerformAll(q, ops)
                                      /\ Quiet(s, cells) => \A i \in 1..Len(ops) : ops[i].op = "SGR"
  BY <1>9, <1>10 DEF Printed
<1> QED BY <1>6, <1>7, <1>10, <1>11, AppendingStays

\* So it is when the line has been sent,
LEMMA SentFinished ==
  ASSUME NEW width \in Nat, NEW t, NEW u, NEW line, NEW cells \in Seq(Cell), LineSent(t, u, line, cells, width)
  PROVE  Finished(u, cells, Len(cells)) /\ u.line = line
<1>1. /\ u.line = line /\ u.column \in Nat /\ Len(u.data) = u.column /\ u.column <= Len(cells)
      /\ u.outputColor = t.outputColor /\ (\A i \in 1..u.column : u.data[i] = cells[i])
      /\ \A i \in (u.column + 1)..Len(cells) : cells[i].ch = 32 /\ (t.outputColor => cells[i].color = u.color)
  BY DEF LineSent, TermType
<1> QED BY <1>1 DEF Finished

\* and when it need not be sent: what is new is blank, too.
LEMMA EqualFinished ==
  ASSUME NEW t, t.data \in Seq(Cell), NEW rec \in LineRecords, NEW cells \in Seq(Cell), Len(cells) >= 1,
         rec.length <= Len(cells), LinesEqual(rec, cells), Finished(t, rec.data, rec.length)
  PROVE  Finished(t, cells, Len(cells))
<1>1. PICK n \in Nat, l \in Nat, d \in Nat, data \in Seq(Cell) :
        n = Len(cells) /\ l = rec.length /\ d = Len(t.data) /\ data = rec.data /\ l <= Len(data)
  BY LineRecordFields
<1>2. \A i \in 1..l : data[i] = cells[i]
  <2>1. SubSeq(data, 1, l) = SubSeq(cells, 1, l)
    <3>1. l = n => SubSeq(cells, 1, l) = cells
      BY <1>1
    <3> QED BY <1>1, <3>1 DEF LinesEqual, Longer
  <2>2. l <= Len(cells)
    BY <1>1
  <2>3. ASSUME NEW i \in 1..l PROVE SubSeq(data, 1, l)[i] = data[i] /\ SubSeq(cells, 1, l)[i] = cells[i]
    BY <1>1, <2>2
  <2> QED BY <2>1, <2>3
<1>3. \A i \in (l + 1)..n : cells[i] = BlankCell(data[l].color)
  <2>1. CASE l = n
    BY <2>1
  <2>2. CASE l # n
    <3>1. Longer(rec, cells)
      BY <1>1, <2>2 DEF LinesEqual
    <3>2. PICK color : color = data[l].color
      OBVIOUS
    <3>3. IsLineBlank(SubSeq(cells, l + 1, n), color)
      BY <1>1, <3>1, <3>2 DEF Longer
    <3>4. l <= n /\ n <= Len(cells)
      BY <1>1
    <3> QED BY <3>2, <3>3, <3>4, BlankPart
  <2> QED BY <2>1, <2>2
<1>4. l >= 1
  BY <1>1, NotEqualFresh
<1>5. \A i \in (d + 1)..l : data[i].ch = 32 /\ (t.outputColor => data[i].color = data[l].color)
  BY <1>1 DEF Finished
<1>6. ASSUME NEW i \in (d + 1)..n
      PROVE  cells[i].ch = 32 /\ (t.outputColor => cells[i].color = data[l].color)
  <2>1. CASE i <= l
    BY <1>1, <1>2, <1>5, <2>1
  <2>2. CASE i > l
    BY <1>1, <1>3, <2>2 DEF BlankCell
  <2> QED BY <1>1, <2>1, <2>2
<1>7. ASSUME NEW i \in (d + 1)..n PROVE t.outputColor => cells[i].color = cells[n].color
  BY <1>6, <1>7
<1>8. d <= n /\ \A i \in 1..d : t.data[i] = cells[i]
  BY <1>1, <1>2 DEF Finished
<1> QED BY <1>1, <1>6, <1>7, <1>8 DEF Finished

\* What is remembered is what was sent.
LEMMA RememberedFinished ==
  ASSUME NEW t, NEW cells, Finished(t, cells, Len(cells)), NEW rec, Remembers(rec, cells), Len(cells) \in Nat, Len(t.data) \in Nat
  PROVE  Finished(t, rec.data, rec.length)
BY DEF Finished, Remembers

\* One line of a direct scrape.
LEMMA DirectLinePlain ==
  ASSUME NEW old \in Nat, NEW width \in Nat, width >= 1, width <= MaxWidth, NEW r \in RemoteType(old),
         NEW r0 \in RemoteType(width), NEW x \in Scrapers(width), x.t.plain, NEW n \in 1..width, NEW c,
         Scrapable(c, n), NEW line \in 0..(Height - 1), x.lines[line].length <= n, NEW y, y = DirectLine(c, n, x, line)
  PROVE  /\ RowSent(x, y, line, DirectCells(c, line, n), width)
         /\ Ended(x, Now(r0, x.t)) \/ x.lines[line].length = 0 => Ended(y, Now(r0, y.t))
         /\ /\ x.lines[line].length = 0 /\ Stays(r, Now(r0, x.t))
            /\ Opens(r, Now(r0, x.t), x.t, line, DirectCells(c, line, n))
            => Stays(r, Now(r0, y.t)) /\ y.t.line = line
<1>1. PICK cells \in Seq(Cell) : cells = DirectCells(c, line, n)
  BY DEF Scrapable
<1>2. Paired(cells) /\ Len(cells) = n /\ Len(cells) >= 1 /\ Len(cells) <= width /\ Len(cells) <= MaxWidth
  BY <1>1, ConstantsFit DEF Scrapable
<1>3. PICK rec \in LineRecords : rec = x.lines[line]
  BY RowsAreLines, ScraperFields
<1>4. PICK changed \in BOOLEAN : changed = ~LinesEqual(rec, cells)
  OBVIOUS
<1>5. PICK cursor : cursor = CursorOn(c, line, CursorSeen(c, n))
  OBVIOUS
<1>6. y = SendRow(x, line, cells, cursor, changed)
  BY <1>1, <1>3, <1>4, <1>5 DEF DirectLine, Detected
<1>7. line \in Rows /\ line \in Nat
  BY RowsAreLines, ConstantsFit
<1>8. RowSent(x, y, line, cells, width) /\ y.t = IF changed THEN sendLine(x.t, line, cells, cursor) ELSE x.t
  BY <1>2, <1>6, <1>7, SendRowHolds
<1>9. Remembers(y.lines[line], cells)
  BY <1>2, <1>3, <1>8, SetLineHolds DEF RowSent
<1>10. x.t \in TermType(width) /\ TermOK(x.t) /\ x.t.line \in Nat /\ y.t \in TermType(width)
  BY <1>8, ScraperFields DEF RowSent
<1>11. ASSUME Finished(y.t, cells, Len(cells)), y.t.line = line
       PROVE  Ended(y, Now(r0, y.t))
  <2>1. Len(y.t.data) \in Nat
    BY <1>10 DEF TermType
  <2> QED BY <1>2, <1>9, <1>11, <2>1, RememberedFinished, ConstantsFit DEF Ended
<1>12. CASE changed
  <2>1. LineSent(x.t, y.t, line, cells, width)
    BY <1>2, <1>7, <1>8, <1>10, <1>12, SendHolds
  <2>2. Ended(y, Now(r0, y.t)) /\ y.t.line = line
    BY <1>11, <2>1, SentFinished
  <2>3. Stays(r, Now(r0, x.t)) /\ Opens(r, Now(r0, x.t), x.t, line, cells) => Stays(r, Now(r0, y.t))
    BY <1>2, <1>7, <1>8, <1>10, <1>12, SendStays
  <2> QED BY <1>1, <1>8, <2>2, <2>3
<1>13. CASE ~changed
  <2>1. y.t = x.t /\ rec.length # 0
    BY <1>2, <1>4, <1>8, <1>13, NotEqualFresh
  <2>2. ASSUME Ended(x, Now(r0, x.t)) PROVE Ended(y, Now(r0, y.t))
    <3>1. CASE Now(r0, x.t).col = 0
      BY <2>1, <2>2, <3>1 DEF Ended
    <3>2. CASE Now(r0, x.t).col # 0 /\ x.t.line = line
      <4>1. Finished(x.t, rec.data, rec.length) /\ x.t.data \in Seq(Cell)
        BY <1>3, <1>10, <2>2, <3>2 DEF Ended, TermType
      <4>2. Finished(x.t, cells, Len(cells))
        BY <1>2, <1>3, <1>4, <1>13, <4>1, EqualFinished
      <4> QED BY <1>11, <2>1, <3>2, <4>2
    <3>3. CASE Now(r0, x.t).col # 0 /\ x.t.line # line
      <4>1. x.t.line \in Rows
        BY <1>10, <2>2, RowsAreLines, ConstantsFit DEF Ended
      <4> QED BY <1>8, <2>1, <2>2, <3>3, <4>1 DEF Ended, RowSent
    <3> QED BY <3>1, <3>2, <3>3
  <2> QED BY <1>1, <1>3, <1>8, <2>1, <2>2
<1> QED BY <1>12, <1>13

\* The cursor is put at the start of its row, or where it is already.
LEMMA ShowPlain ==
  ASSUME NEW old \in Nat, NEW width \in Nat, width >= 1, NEW r \in RemoteType(old), NEW r0 \in RemoteType(width),
         NEW x \in Scrapers(width), x.t.plain, NEW c, c.cur.row \in Nat, NEW shown \in BOOLEAN, shown => c.cur.row < Height,
         NEW u, u = ShowIf(x, c, shown)
  PROVE  /\ Ended(x, Now(r0, x.t)) => Ended(u, Now(r0, u.t))
         /\ Stays(r, Now(r0, x.t)) => Stays(r, Now(r0, u.t))
<1>1. x.t \in TermType(width) /\ TermOK(x.t) /\ Height \in Nat
  BY ScraperFields, ConstantsFit
<1>2. PICK m : m = moveTerminalToLine(x.t, c.cur.row)
  OBVIOUS
<1>3. CASE ~shown \/ c.cur.row = x.t.line
  <2>1. shown => showTerminalCursor(x.t, c.cur.col, c.cur.row) = x.t
    BY <1>3 DEF showTerminalCursor, moveTerminalToLine
  <2> QED BY <2>1, <1>3 DEF ShowIf, Scrapers
<1>4. CASE shown /\ c.cur.row # x.t.line
  <2>1. m \in TermType(width) /\ m.line = c.cur.row /\ Fed(x.t, m, r0)
    BY <1>1, <1>2, <1>4, MoveHolds
  <2>2. u.t = m
    BY <1>2, <1>4 DEF ShowIf, showTerminalCursor, Scrapers
  <2>3. Now(r0, m).col = 0 /\ (Stays(r, Now(r0, x.t)) => Stays(r, Now(r0, m)))
    BY <1>1, <2>1, FedStays
  <2>4. u.t.line < Height
    BY <1>1, <1>4, <2>1, <2>2
  <2> QED BY <2>2, <2>3, <2>4 DEF Ended
<1> QED BY <1>3, <1>4

\* directScrapeOutput on a terminal without escape sequences.
DirectPlain(s, u, r, r0, cells) ==
  /\ Ended(s, Now(r0, s.t)) \/ s.lines[0].length = 0 => Ended(u, Now(r0, u.t))
  /\ /\ \A j \in 0..(Height - 1) : s.lines[j].length = 0
     /\ Stays(r, Now(r0, s.t)) /\ Opens(r, Now(r0, s.t), s.t, 0, cells)
     => Stays(r, Now(r0, u.t))

LEMMA DirectPlainHolds ==
  ASSUME NEW old \in Nat, NEW width \in Nat, width >= 1, width <= MaxWidth, NEW r \in RemoteType(old),
         NEW r0 \in RemoteType(width), NEW s \in Scrapers(width), s.t.plain, NEW n \in 1..width, NEW c,
         Scrapable(c, n), c.cur.row \in Nat, CursorSeen(c, n) => c.cur.row < Height,
         \A j \in 0..(Height - 1) : s.lines[j].length <= n
  PROVE  DirectPlain(s, DirectScrape(s, c, n), r, r0, DirectCells(c, 0, n))
<1>1. PICK at \in [0..Height -> Scrapers(width)] : DirectTable(at, s, c, n)
  BY DirectTableExists
<1>2. Height \in Nat /\ Height >= 1 /\ s.t \in TermType(width)
  BY ConstantsFit, ScraperFields
<1>3. /\ at[0] = s /\ DirectScrape(s, c, n) = ShowIf(at[Height], c, CursorSeen(c, n))
      /\ \A k \in 1..Height : at[k] = DirectLine(c, n, at[k - 1], k - 1)
  <2>1. hideTerminalCursor(s.t) = s.t
    BY DEF hideTerminalCursor
  <2> QED BY <1>1, <2>1 DEF DirectTable, HideUnless, Scrapers
<1> DEFINE Fresh == \A j \in 0..(Height - 1) : s.lines[j].length = 0
           E == Ended(s, Now(r0, s.t)) \/ s.lines[0].length = 0
           F == Fresh /\ Stays(r, Now(r0, s.t)) /\ Opens(r, Now(r0, s.t), s.t, 0, DirectCells(c, 0, n))
           P(x, k) == /\ x.t.plain /\ \A j \in k..(Height - 1) : x.lines[j] = s.lines[j]
                      /\ E => Ended(x, Now(r0, x.t)) \/ (k = 0 /\ x.lines[0].length = 0)
                      /\ F => Stays(r, Now(r0, x.t)) /\ (IF k = 0 THEN x = s ELSE x.t.line = k - 1)
           T == {k \in 0..Height : P(at[k], k)}
<1>4. 0 \in T
  BY <1>2, <1>3
<1>5. ASSUME NEW k \in 0..(Height - 1), k \in T PROVE k + 1 \in T
  <2>1. k \in Nat /\ k + 1 \in 1..Height /\ P(at[k], k)
    BY <1>2, <1>5
  <2>2. PICK x \in Scrapers(width), y \in Scrapers(width) :
          x = at[k] /\ y = at[k + 1] /\ y = DirectLine(c, n, x, k) /\ P(x, k)
    <3> HIDE DEF P, T
    <3>1. at[k + 1] = DirectLine(c, n, at[k], k) /\ at[k] \in Scrapers(width) /\ at[k + 1] \in Scrapers(width)
      BY <1>2, <1>3, <2>1
    <3> QED BY <2>1, <3>1
  <2> DEFINE cells == DirectCells(c, k, n)
  <2>3. x.lines[k] = s.lines[k] /\ x.t.plain
    BY <2>1, <2>2
  <2>4. /\ RowSent(x, y, k, cells, width)
        /\ Ended(x, Now(r0, x.t)) \/ x.lines[k].length = 0 => Ended(y, Now(r0, y.t))
        /\ x.lines[k].length = 0 /\ Stays(r, Now(r0, x.t)) /\ Opens(r, Now(r0, x.t), x.t, k, cells)
           => Stays(r, Now(r0, y.t)) /\ y.t.line = k
    BY <2>2, <2>3, DirectLinePlain
  <2>5. y.t.plain /\ \A j \in (k + 1)..(Height - 1) : y.lines[j] = s.lines[j]
    BY <2>1, <2>2, <2>3, <2>4, RowsAreLines DEF RowSent
  <2>6. E => Ended(y, Now(r0, y.t))
    BY <2>2, <2>4
  <2>7. F => Stays(r, Now(r0, y.t)) /\ y.t.line = k
    BY <2>1, <2>2, <2>3, <2>4 DEF Opens
  <2>8. P(y, k + 1)
    BY <2>1, <2>5, <2>6, <2>7
  <2>9. P(at[k + 1], k + 1)
    BY <2>2, <2>8
  <2> HIDE DEF P
  <2> QED BY <2>1, <2>9
<1>6. Height \in T
  <2>1. T \in SUBSET Nat
    OBVIOUS
  <2> HIDE DEF T
  <2>2. \A k \in 0..Height : k \in T
    BY <1>2, <1>4, <1>5, <2>1, Counting
  <2> QED BY <1>2, <2>2
<1>7. PICK x \in Scrapers(width) : x = at[Height] /\ P(x, Height)
  BY <1>2, <1>6
<1>r. PICK shown \in BOOLEAN : shown = CursorSeen(c, n)
  BY DEF CursorSeen
<1>8. PICK u : shown = CursorSeen(c, n) /\ u = ShowIf(x, c, shown) /\ u = DirectScrape(s, c, n)
  BY <1>3, <1>7, <1>r
<1> HIDE DEF P, T
<1>9. x.t.plain /\ (shown => c.cur.row < Height)
  BY <1>7, <1>8 DEF P
<1>10. (Ended(x, Now(r0, x.t)) => Ended(u, Now(r0, u.t))) /\ (Stays(r, Now(r0, x.t)) => Stays(r, Now(r0, u.t)))
  BY <1>8, <1>9, ShowPlain
<1> QED BY <1>2, <1>7, <1>8, <1>10 DEF DirectPlain, P

\* Of course a terminal's own rows stay.
LEMMA SelfStays ==
  ASSUME NEW width \in Nat, NEW r \in RemoteType(width)
  PROVE  Stays(r, r) /\ After(r, r)
<1>1. r.row \in 1..Height /\ r.col \in Nat /\ r.scrolled \in Nat /\ Risen(r, r) = 0
  BY RemoteFields, ConstantsFit DEF Risen
<1>2. \A k \in 1..r.row : k - Risen(r, r) = k
  BY <1>1
<1> QED BY <1>1, <1>2 DEF Stays, After

\* What was written has gone, which changes no line.
LEMMA EmptiedEnded ==
  ASSUME NEW u, NEW x, NEW width, Emptied(u, x, width), NEW r, Ended(u, r)
  PROVE  Ended(x, r)
<1>1. x.t.line = u.t.line /\ x.t.data = u.t.data /\ x.t.outputColor = u.t.outputColor /\ x.lines = u.lines
  BY DEF Emptied, SameTerm
<1>2. \A data, n : Finished(u.t, data, n) => Finished(x.t, data, n)
  BY <1>1 DEF Finished
<1> QED BY <1>1, <1>2 DEF Ended

\* Programs do not write to the terminal.
LEMMA ProgramPlain ==
  ASSUME IInv, PlainInv, Program
  PROVE  PlainInv' /\ Stays(remote, remote')
<1>1. PICK width : width = Width
  OBVIOUS
<1>2. ConsoleOK(con, width) /\ remote \in RemoteType(width)
  BY <1>1 DEF IInv
<1>3. Width' = width
  BY <1>1, <1>2, ProgramConsole, WidthFits DEF Width
<1>4. sc' = sc /\ remote' = remote
  BY DEF Program
<1>5. Stays(remote, remote')
  BY <1>2, <1>4, SelfStays, WidthFits
<1> QED BY <1>1, <1>3, <1>4, <1>5 DEF PlainInv

\* A scrape only appends.
LEMMA ScrapePlain ==
  ASSUME IInv, PlainInv, Scrape
  PROVE  PlainInv' /\ (sc.t.plain => Stays(remote, remote'))
<1>1. PICK width : width = Width
  OBVIOUS
<1>2. PICK u : u = Scraped(sc, con, width) /\ Deliver(u)
  BY <1>1 DEF Scrape
<1>3. PICK m : m = ModeSynced(sc, con)
  OBVIOUS
<1>4. /\ ConsoleOK(con, width) /\ sc \in Scrapers(width) /\ sc.t.out = <<>> /\ Counted(sc)
      /\ remote \in RemoteType(width) /\ width \in Nat /\ width >= 1 /\ width <= MaxWidth
  BY <1>1, WidthFits DEF IInv
<1>5. ScrapedTo(sc, u, con, width) /\ SyncedTo(sc, m, con, width)
  BY <1>2, <1>3, <1>4, ScrapedHolds, ModeSyncedHolds
<1>6. con' = con /\ Width' = width
  BY <1>1 DEF Scrape, Width
<1>7. u \in Scrapers(width) /\ u.t \in TermType(width) /\ TermOK(u.t) /\ UpToDate(u, con) /\ u.t.plain = sc.t.plain
  BY <1>4, <1>5, ScraperFields DEF ScrapedTo
<1>8. remote' = Now(remote, u.t) /\ sc' = [u EXCEPT !.t.out = <<>>]
  BY <1>2 DEF Deliver, Now
<1>9. Emptied(u, sc', width)
  BY <1>4, <1>7, <1>8, EmptiedType
<1>10. ASSUME sc.t.plain PROVE Stays(remote, remote')
  <2>1. PICK ops \in Seq(Ops(width)) : ops = u.t.out
    BY <1>7 DEF TermType
  <2>2. Appending(ops) /\ remote' = PerformAll(remote, ops)
    BY <1>7, <1>8, <1>10, <2>1 DEF TermOK, Now
  <2> QED BY <1>4, <2>2, SelfStays, AppendingStays
<1>11. ASSUME sc'.t.plain, sc'.direct
       PROVE  Ended(sc', remote') /\ \A j \in 0..(Height - 1) : sc'.lines[j].length <= width
  <2>1. sc.t.plain /\ u.direct /\ con.direct /\ sc'.lines = u.lines
    BY <1>7, <1>9, <1>11 DEF Emptied, SameTerm, UpToDate
  <2>2. m \in Scrapers(width) /\ m.direct /\ m.t.plain
    BY <1>5, <2>1 DEF SyncedTo
  <2>3. u = DirectScrape(m, con, width)
    BY <1>2, <1>3, <2>2 DEF Scraped
  <2>4. Scrapable(con, width) /\ con.top = 0 /\ \A j \in 0..(Height - 1) : DirectCells(con, j, width) = con.rows[j]
    BY <1>4, <2>1, DirectRows
  <2>5. con.cur.row \in Nat /\ con.cur.row < Height
    <3>1. con.cur.row \in con.top..(con.top + Height - 1) /\ Height \in Nat
      BY <1>4, ConstantsFit DEF ConsoleOK
    <3> QED BY <2>4, <3>1
  <2>6. /\ \A j \in 0..(Height - 1) : m.lines[j].length <= width
        /\ Ended(m, Now(remote, m.t)) \/ m.lines[0].length = 0
    <3>1. CASE sc.direct = con.direct
      <4>1. m = sc
        BY <1>3, <3>1 DEF ModeSynced
      <4>2. Now(remote, m.t) = remote
        BY <1>4, <4>1, PerformNone DEF Now
      <4> QED BY <1>1, <2>1, <3>1, <4>1, <4>2 DEF PlainInv
    <3>2. CASE sc.direct # con.direct
      <4>1. m.lines = [l \in Rows |-> FreshLine]
        BY <1>3, <1>4, <3>2 DEF ModeSynced, ResetConsoleTracking, Scrapers
      <4>2. \A j \in 0..(Height - 1) : m.lines[j].length = 0
        BY <4>1, RowsAreLines DEF FreshLine
      <4> QED BY <1>4, <4>2, ConstantsFit
    <3> QED BY <3>1, <3>2
  <2>7. PICK n \in 1..width : n = width
    BY <1>4
  <2>8. DirectPlain(m, u, remote, remote, DirectCells(con, 0, n))
    BY <1>4, <2>2, <2>3, <2>4, <2>5, <2>6, <2>7, DirectPlainHolds
  <2>9. Ended(u, remote')
    BY <1>8, <2>6, <2>8 DEF DirectPlain
  <2>10. ASSUME NEW j \in 0..(Height - 1) PROVE u.lines[j].length = width
    <3>1. j \in con.top..(con.top + Height - 1) /\ j \in Rows
      BY <2>4, RowsAreLines, ConstantsFit
    <3>2. Remembers(u.lines[j], con.rows[j]) /\ Len(con.rows[j]) = width
      BY <1>4, <1>7, <2>1, <3>1 DEF UpToDate, ConsoleOK, HasRows
    <3> QED BY <3>2 DEF Remembers
  <2> QED BY <1>4, <1>9, <2>1, <2>9, <2>10, EmptiedEnded
<1> QED BY <1>6, <1>10, <1>11 DEF PlainInv

\* What a narrower window leaves of the line that the cursor is in is blank behind what was sent.
LEMMA CutQuiet ==
  ASSUME NEW row \in Seq(Cell), NEW width \in Nat, width < Len(row), NEW t, Len(t.data) \in Nat,
         NEW rec, Remembers(rec, row), Finished(t, rec.data, rec.length),
         NEW cut, cut = CutRow(row, width), cut \in Seq(Cell), Len(cut) = width
  PROVE  Quiet(t, SubSeq(cut, 1, width))
<1>1. SubSeq(cut, 1, width) = cut
  OBVIOUS
<1>2. ASSUME NEW i \in (Len(t.data) + 1)..width
      PROVE  cut[i].ch = 32 /\ (t.outputColor => cut[i].color = rec.data[rec.length].color)
  <2>1. i \in 1..Len(row) /\ rec.data[i] = row[i] /\ i \in (Len(t.data) + 1)..rec.length
    BY <1>2 DEF Remembers
  <2>2. row[i].ch = 32 /\ (t.outputColor => row[i].color = rec.data[rec.length].color)
    BY <2>1 DEF Finished
  <2>3. row[i].half = "none"
    BY <2>1, <2>2, CellFields
  <2>4. cut[i] = row[i]
    BY <1>2, <2>1, <2>3 DEF CutRow
  <2> QED BY <2>2, <2>4
<1> QED BY <1>1, <1>2 DEF Quiet

\* A resize sends the lines again behind what is there, or nothing.
LEMMA ResizePlain ==
  ASSUME IInv, PlainInv, NEW width \in Widths, Resize(width)
  PROVE  PlainInv' /\ (sc.t.plain => Stays(remote, remote'))
<1>1. PICK old : old = Width
  OBVIOUS
<1>2. /\ ConsoleOK(con, old) /\ sc \in Scrapers(old) /\ sc.t.out = <<>> /\ Counted(sc) /\ remote \in RemoteType(old)
      /\ resizes \in Nat /\ UpToDate(sc, con)
  BY <1>1 DEF IInv, Resize
<1>3. /\ old \in Nat /\ width \in Nat /\ width >= 1 /\ width <= MaxWidth /\ remote.width = old /\ con.direct = sc.direct
      /\ sc.t \in TermType(old) /\ old >= 1
  BY <1>2, WidthFits, ConstantsFit, RemoteFields, ScraperFields DEF UpToDate
<1>4. con' = ResizedConsole(width) /\ width # old
  BY <1>3 DEF Resize
<1>5. Width' = width
  BY <1>2, <1>4, ResizedConsoleHolds, WidthFits DEF Width
<1>6. PICK q : q = Widened(remote, width)
  OBVIOUS
<1>7. /\ q \in RemoteType(width) /\ q.rows = remote.rows /\ q.row = remote.row /\ q.scrolled = remote.scrolled
      /\ q.col = remote.col \/ (remote.col # 0 /\ width < old)
  <2>1. Widens(remote, q, old, width)
    BY <1>2, <1>3, <1>6, WidenedHolds
  <2>2. q.scrolled = remote.scrolled /\ q.col = IF remote.col < width THEN remote.col
                                                ELSE IF remote.width < width THEN remote.col ELSE width - 1
    BY <1>2, <1>6 DEF Widened, RemoteType
  <2> QED BY <1>3, <1>4, <2>1, <2>2 DEF Widens
<1>8. Stays(remote, q) /\ (q.col = remote.col => After(remote, q))
  BY <1>2, <1>3, <1>7, SelfStays DEF Stays, After, Risen
<1>9. PICK u : u = IF sc.direct
                   THEN DirectScrape(ResizedLines(sc), [con EXCEPT !.rows = [r \in Rows |-> CutRow(con.rows[r], width)]],
                                     Min2(old, width))
                   ELSE ResizedLines(ScrollingScrape(sc, con))
  OBVIOUS
<1>10. remote' = Now(q, u.t) /\ sc' = [u EXCEPT !.t.out = <<>>]
  BY <1>1, <1>6, <1>9 DEF Resize, Now
<1>11. CASE ~sc.direct
  <2>1. PICK v : v = ScrollingScrape(sc, con)
    OBVIOUS
  <2>2. v = Scraped(sc, con, old)
    BY <1>3, <1>11, <2>1 DEF Scraped, ModeSynced
  <2>3. ScrapedTo(sc, v, con, old)
    BY <1>2, WidthFits, <2>2, ScrapedHolds
  <2>4. v \in Scrapers(old) /\ Counted(v) /\ ~v.direct /\ v.dirtyTop = con.top
    BY <1>3, <1>11, <2>3 DEF ScrapedTo, UpToDate
  <2>5. v.t = sc.t
    BY <1>2, <1>11, <2>1, WidthFits, ScrollingAgain
  <2>6. u \in Scrapers(old) /\ u.t = sc.t /\ ~u.direct
    BY <1>2, <1>3, <1>9, <1>11, <2>1, <2>4, <2>5, LinesBlanked DEF Blanked
  <2>7. ~sc'.direct /\ remote' = q
    BY <1>2, <1>3, <1>7, <1>10, <2>6, PerformNone DEF Now, Scrapers
  <2> QED BY <1>8, <2>7 DEF PlainInv
<1>12. CASE sc.direct
  <2>1. PICK d : d = [con EXCEPT !.rows = [r \in Rows |-> CutRow(con.rows[r], width)]]
    OBVIOUS
  <2>2. PICK n : n = Min2(old, width)
    OBVIOUS
  <2>3. /\ Scrapable(d, n) /\ n \in 1..width /\ d.top = 0 /\ d.visible \in BOOLEAN
        /\ d.cur.row \in Nat /\ d.cur.col \in Nat
    BY <1>2, <1>3, <1>12, <2>1, <2>2, CutWindow
  <2>4. PICK x : x = ResizedLines(sc)
    OBVIOUS
  <2>5. x \in Scrapers(old) /\ Forgotten(sc, x)
    BY <1>2, <1>3, <1>12, <2>4, LinesForgotten
  <2>6. x \in Scrapers(width) /\ x.t = sc.t
    BY <1>2, <1>3, <2>5, QuietScraper DEF Forgotten
  <2>7. u = DirectScrape(x, d, n)
    BY <1>9, <1>12, <2>1, <2>2, <2>4
  <2>8. u \in Scrapers(width) /\ DirectEnds(x, u, d, n)
    BY <1>3, <2>3, <2>6, <2>7, DirectHolds
  <2>9. Emptied(u, sc', width)
    BY <1>3, <1>10, <2>8, EmptiedType
  <2>10. u.t.plain = sc.t.plain
    BY <2>6, <2>8 DEF DirectEnds, SameFields
  <2>11. CASE ~sc.t.plain
    BY <2>9, <2>10, <2>11 DEF PlainInv, Emptied, SameTerm
  <2>12. CASE sc.t.plain
    <3>1. \A j \in 0..(Height - 1) : x.lines[j].length = 0
      BY <2>5, RowsAreLines DEF Forgotten, FreshLine
    <3>2. CursorSeen(d, n) => d.cur.row < Height
      BY <2>3, ConstantsFit DEF CursorSeen
    <3>3. Now(q, x.t) = q
      BY <1>2, <1>3, <1>7, <2>6, PerformNone DEF Now
    <3>4. DirectPlain(x, u, remote, q, DirectCells(d, 0, n))
      <4>1. \A j \in 0..(Height - 1) : x.lines[j].length <= n
        BY <2>3, <3>1
      <4> QED BY <1>2, <1>3, <1>7, <2>3, <2>6, <2>7, <2>12, <3>2, <4>1, DirectPlainHolds
    <3>5. Opens(remote, q, x.t, 0, DirectCells(d, 0, n))
      <4>1. CASE q.col = remote.col \/ x.t.line # 0
        BY <1>8, <4>1 DEF Opens
      <4>2. CASE q.col # remote.col /\ x.t.line = 0
        <5>1. remote.col # 0 /\ width < old /\ n = width /\ sc.t.line = 0 /\ 0 \in Rows /\ 0 \in 0..(Height - 1)
          BY <1>3, <1>7, <2>2, <2>6, <4>2, RowsAreLines, ConstantsFit DEF Min2
        <5>r. PICK rec : rec = sc.lines[0]
          OBVIOUS
        <5>2. PICK row \in Seq(Cell) : row = con.rows[0] /\ Len(row) = old /\ rec = sc.lines[0]
          BY <1>2, <5>1, <5>r DEF ConsoleOK, HasRows
        <5>3. Finished(sc.t, rec.data, rec.length)
          BY <1>12, <2>12, <5>1, <5>2 DEF PlainInv, Ended
        <5>4. Remembers(rec, row)
          BY <1>2, <1>3, <1>12, <5>1, <5>2, ConstantsFit DEF UpToDate, ConsoleOK
        <5>5. PICK cut : cut = CutRow(row, width)
          OBVIOUS
        <5>6. cut \in Seq(Cell) /\ Len(cut) = width
          BY <1>2, <5>1, <5>2, <5>5, ResizedRows
        <5>7. DirectCells(d, 0, n) = SubSeq(cut, 1, width)
          BY <1>2, <2>1, <2>3, <5>1, <5>2, <5>5 DEF DirectCells, ConsoleOK, Consoles
        <5>8. Quiet(sc.t, SubSeq(cut, 1, width))
          <6>1. Len(sc.t.data) \in Nat
            BY <1>3 DEF TermType
          <6> QED BY <1>3, <5>1, <5>2, <5>3, <5>4, <5>5, <5>6, <6>1, CutQuiet
        <5> QED BY <2>6, <5>7, <5>8 DEF Opens
      <4> QED BY <4>1, <4>2
    <3>6. Ended(u, remote') /\ Stays(remote, remote')
      BY <1>8, <1>10, <3>1, <3>3, <3>4, <3>5, ConstantsFit DEF DirectPlain
    <3>7. ASSUME NEW j \in 0..(Height - 1) PROVE u.lines[j].length <= width
      BY <2>3, <2>8 DEF DirectEnds, Remembers, Scrapable
    <3>8. Ended(sc', remote') /\ sc'.lines = u.lines
      BY <2>9, <3>6, EmptiedEnded DEF Emptied
    <3> QED BY <1>5, <3>6, <3>7, <3>8 DEF PlainInv
  <2> QED BY <2>11, <2>12
<1> QED BY <1>11, <1>12

\* A terminal without escape sequences only gets more: what its cursor has passed stays as it is.
THEOREM PlainIsAppended == Spec => PlainAppends
<1>1. Init => PlainInv
  BY DEF Init, PlainInv
<1>2. ASSUME IInv, PlainInv, [Next]_vars
      PROVE  PlainInv' /\ (sc.t.plain => Stays(remote, remote'))
  <2>1. CASE UNCHANGED vars
    <3>1. PlainInv'
      BY <1>2, <2>1 DEF vars, PlainInv, Width, Ended, Finished
    <3>2. remote' = remote /\ remote \in RemoteType(Width) /\ Width \in Nat
      BY <1>2, <2>1, WidthFits DEF vars, IInv
    <3> QED BY <3>1, <3>2, SelfStays
  <2> QED BY <1>2, <2>1, ProgramPlain, ScrapePlain, ResizePlain DEF Next
<1>3. IInv /\ PlainInv /\ [Next]_vars => PlainInv'
  BY <1>2
<1>4. IInv /\ PlainInv /\ [Next]_vars =>
        [Term.plain =>
           LET up == remote'.scrolled - remote.scrolled
           IN \A k \in (1 + up)..remote.row, i \in 1..MaxWidth :
                k < remote.row \/ i <= remote.col
                  => remote'.rows[k - up][i] = remote.rows[k][i]]_vars
  BY <1>2 DEF Term, Stays, Risen
<1> QED BY <1>1, <1>3, <1>4, InvariantHolds, PTL DEF Spec, PlainAppends
===============================================================================
