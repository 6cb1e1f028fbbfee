--------------------------- MODULE DefaultInputMap ---------------------------
(* agent/DefaultInputMap.cc: the escape sequences of the known terminals.  A  *)
(* row of the tables stands for many sequences, which the expansion adds to   *)
(* the map.  Bytes are numbers.                                               *)
EXTENDS InputMap, FiniteSetsExt

ESC == 27
LBRACKET == 91

\* The codes of the letters that end a sequence.
Letter(c) ==
  LET ascii == <<"A", "B", "C", "D", "E", "F", "G", "H", "I", "J", "K", "L", "M", "N", "O",
                 "P", "Q", "R", "S", "T", "U", "V", "W", "X", "Y", "Z", "", "", "", "", "", "",
                 "a", "b", "c", "d", "e", "f", "g", "h", "i", "j", "k", "l", "m", "n", "o",
                 "p", "q", "r", "s", "t", "u", "v", "w", "x", "y", "z">>
  IN CHOOSE code \in 65..122 : ascii[code - 64] = c

Digits(n) == IF n < 10 THEN <<48 + n>> ELSE <<48 + (n \div 10), 48 + (n % 10)>>

Bare == "kBare"
SemiMod == "kSemiMod"
BareMod == "kBareMod"
SuffixCtrl == "kSuffixCtrl"
SuffixShift == "kSuffixShift"
SuffixBoth == {SuffixCtrl, SuffixShift}

\* A row: may ESC stand before it for Alt; the byte behind ESC; the final letter
\* or the number; the forms it comes in; the key.
Row(alt, prefix, id, forms, key) ==
  [alt |-> alt, prefix |-> prefix, id |-> id, forms |-> forms, key |-> key]

Arrows == {<<"A", "a", "UP">>, <<"B", "b", "DOWN">>, <<"C", "c", "RIGHT">>, <<"D", "d", "LEFT">>}
Numpad == {<<"M", "RETURN", 13>>, <<"j", "MULTIPLY", 42>>, <<"k", "ADD", 43>>,
           <<"m", "SUBTRACT", 45>>, <<"n", "DELETE", 0>>, <<"o", "DIVIDE", 47>>,
           <<"p", "INSERT", 0>>, <<"q", "END", 0>>, <<"r", "DOWN", 0>>, <<"s", "NEXT", 0>>,
           <<"t", "LEFT", 0>>, <<"u", "CLEAR", 0>>, <<"v", "RIGHT", 0>>, <<"w", "HOME", 0>>,
           <<"x", "UP", 0>>, <<"y", "PRIOR", 0>>}

ArrowRows ==
  UNION {{Row(TRUE, LBRACKET, Letter(l[1]), {Bare, BareMod, SemiMod}, Key(l[3], 0, {})),
          Row(TRUE, Letter("O"), Letter(l[1]), {Bare}, Key(l[3], 0, {})),
          Row(TRUE, LBRACKET, Letter(l[2]), {Bare}, Key(l[3], 0, {"Shift"})),
          Row(TRUE, Letter("O"), Letter(l[2]), {Bare}, Key(l[3], 0, {"Ctrl"}))} : l \in Arrows}

EditRows ==
  {Row(TRUE, LBRACKET, Letter("E"), {Bare, SemiMod}, Key("CLEAR", 0, {})),
   Row(TRUE, LBRACKET, Letter("G"), {Bare, SemiMod}, Key("CLEAR", 0, {})),
   Row(TRUE, Letter("O"), Letter("G"), {Bare}, Key("CLEAR", 0, {})),
   Row(FALSE, LBRACKET, Letter("Z"), {Bare}, Key("TAB", 9, {"Shift"}))}
  \union UNION {{Row(TRUE, LBRACKET, Letter(l[1]), {Bare, BareMod, SemiMod}, Key(l[2], 0, {})),
                 Row(TRUE, Letter("O"), Letter(l[1]), {Bare}, Key(l[2], 0, {}))} :
                 l \in {<<"H", "HOME">>, <<"F", "END">>}}

FunctionRows ==
  UNION {{Row(TRUE, LBRACKET, Letter(l[1]), {SemiMod}, Key(l[2], 0, {})),
          Row(FALSE, Letter("O"), Letter(l[1]), {Bare, BareMod, SemiMod}, Key(l[2], 0, {}))} :
         l \in {<<"P", "F1">>, <<"Q", "F2">>, <<"R", "F3">>, <<"S", "F4">>}}

NumpadRows ==
  UNION {{Row(TRUE, Letter("O"), Letter(l[1]), {Bare, BareMod}, Key(l[2], l[3], {})),
          Row(TRUE, LBRACKET, Letter(l[1]), {Bare, SemiMod}, Key(l[2], l[3], {}))} : l \in Numpad}

escapeLetterEncodings == ArrowRows \union EditRows \union FunctionRows \union NumpadRows

escapeNumericEncodings ==
  LET plain == {<<1, "HOME">>, <<2, "INSERT">>, <<3, "DELETE">>, <<4, "END">>, <<5, "PRIOR">>,
                <<6, "NEXT">>, <<7, "HOME">>, <<8, "END">>, <<11, "F1">>, <<12, "F2">>,
                <<13, "F3">>, <<14, "F4">>, <<15, "F5">>, <<17, "F6">>, <<18, "F7">>,
                <<19, "F8">>, <<20, "F9">>, <<21, "F10">>, <<23, "F11">>, <<24, "F12">>}
      shifted == {<<25, "F3">>, <<26, "F4">>, <<28, "F5">>, <<29, "F6">>, <<31, "F7">>,
                  <<32, "F8">>, <<33, "F9">>, <<34, "F10">>}
      forms == {Bare, SemiMod} \union SuffixBoth
  IN {Row(TRUE, LBRACKET, l[1], forms, Key(l[2], 0, {})) : l \in plain}
     \union {Row(TRUE, LBRACKET, l[1], forms, Key(l[2], 0, {"Shift"})) : l \in shifted}

useEnhancedForVirtualKey(vk) ==
  vk \in {"UP", "DOWN", "LEFT", "RIGHT", "INSERT", "DELETE", "HOME", "END", "PRIOR", "NEXT"}

Enhance(key) == IF useEnhancedForVirtualKey(key.vk)
                THEN [key EXCEPT !.mods = @ \union {"Enhanced"}] ELSE key

simpleEncodings ==
  {[enc |-> <<127>>, key |-> Key("BACK", 8, {})],
   [enc |-> <<ESC, 127>>, key |-> Key("BACK", 8, {"LAlt"})],
   [enc |-> <<3>>, key |-> Key("C", 3, {"Ctrl"})]}
  \union UNION {{[enc |-> <<ESC, LBRACKET, LBRACKET, Letter(l[1])>>, key |-> Key(l[2], 0, {})],
                 [enc |-> <<ESC, ESC, LBRACKET, LBRACKET, Letter(l[1])>>,
                  key |-> Key(l[2], 0, {"LAlt"})]} :
                l \in {<<"A", "F1">>, <<"B", "F2">>, <<"C", "F3">>, <<"D", "F4">>, <<"E", "F5">>}}

\* setEncoding: the entry a sequence of row e makes.
Entry(e, enc, extra) ==
  LET mods == e.key.mods \union extra
      ch == IF "Ctrl" \notin mods THEN e.key.ch
            ELSE IF e.key.vk \in {"ADD", "DIVIDE", "MULTIPLY", "SUBTRACT"} THEN 0
            ELSE IF e.key.vk = "RETURN" THEN 10
            ELSE e.key.ch
  IN [enc |-> enc, key |-> Enhance(Key(e.key.vk, ch, mods))]

\* Modifiers 2..8: one more than Shift(1) + Alt(2) + Ctrl(4).
keyStateForMod(mod) ==
  {f \in {"Shift", "LAlt", "Ctrl"} :
     ((mod - 1) \div (IF f = "Shift" THEN 1 ELSE IF f = "LAlt" THEN 2 ELSE 4)) % 2 = 1}

\* expandNumericEncodingSuffix: the suffixes ~ $ ^ @ behind a number.
WithSuffixes(e, enc, extra) ==
  {Entry(e, Append(enc, 126), extra)}
  \union {Entry(e, Append(enc, 36), extra \union {"Shift"}) : f \in e.forms \intersect {SuffixShift}}
  \union {Entry(e, Append(enc, 94), extra \union {"Ctrl"}) : f \in e.forms \intersect {SuffixCtrl}}
  \union {Entry(e, Append(enc, 64), extra \union {"Shift", "Ctrl"}) : f \in e.forms \intersect SuffixBoth}

expandEncodingAfterAltPrefix(e, numeric, before, extra) ==
  LET start == before \o <<ESC, e.prefix>>
      mods == 2..8
  IN (IF Bare \notin e.forms THEN {}
      ELSE IF numeric THEN WithSuffixes(e, start \o Digits(e.id), extra)
      ELSE {Entry(e, Append(start, e.id), extra)})
     \union (IF BareMod \notin e.forms THEN {}
             ELSE {Entry(e, start \o <<48 + m, e.id>>, extra \union keyStateForMod(m)) : m \in mods})
     \union (IF SemiMod \notin e.forms THEN {}
             ELSE IF numeric
             THEN UNION {WithSuffixes(e, start \o Digits(e.id) \o <<59, 48 + m>>,
                                      extra \union keyStateForMod(m)) : m \in mods}
             ELSE {Entry(e, start \o <<49, 59, 48 + m, e.id>>, extra \union keyStateForMod(m)) : m \in mods})

expandEncoding(e, numeric) ==
  (IF e.alt THEN expandEncodingAfterAltPrefix(e, numeric, <<ESC>>, {"LAlt"}) ELSE {})
  \union expandEncodingAfterAltPrefix(e, numeric, <<>>, {})

RECURSIVE addEscapes(_, _, _)
addEscapes(map, rows, numeric) ==
  IF rows = {} THEN map
  ELSE LET e == CHOOSE x \in rows : TRUE
           Rest(m) == addEscapes(m, rows \ {e}, numeric)
       IN Strict(Rest, SetAll(map, expandEncoding(e, numeric)))

SimpleEntries == {[enc |-> s.enc, key |-> Enhance(s.key)] : s \in simpleEncodings}

addDefaultEntriesToInputMap(map) ==
  SetAll(addEscapes(addEscapes(map, escapeLetterEncodings, FALSE), escapeNumericEncodings, TRUE),
         SimpleEntries)

(****************************** what is checked *****************************)
DefaultMap == addDefaultEntriesToInputMap(EmptyNode)

\* The same entries as a set, without the tree, and what a lookup in them finds.
Entries == UNION {expandEncoding(e, FALSE) : e \in escapeLetterEncodings}
           \union UNION {expandEncoding(e, TRUE) : e \in escapeNumericEncodings}
           \union SimpleEntries

\* Each sequence with its key, and what is only the beginning of a sequence.
Table ==
  LET Encoded(entries) == {e.enc : e \in entries}
      Of(entries) ==
        [keyFor |-> [s \in Encoded(entries) |-> (CHOOSE e \in entries : e.enc = s).key],
         prefixes |-> UNION {{SubSeq(s, 1, n) : n \in 0..(Len(s) - 1)} : s \in Encoded(entries)}]
  IN Strict(Of, Entries)

LookupTable(input) ==
  LET In(table) ==
        LET lens == {n \in 1..Len(input) : SubSeq(input, 1, n) \in DOMAIN table.keyFor}
            len == Max(lens \union {0})
        IN [len |-> len,
            key |-> IF len = 0 THEN kKeyZero ELSE table.keyFor[SubSeq(input, 1, len)],
            incomplete |-> input \in table.prefixes]
  IN Strict(In, Table)

\* No two rows of the tables claim one sequence for different keys, so the order in
\* which addDefaultEntriesToInputMap sets them does not matter.
EncodingsUnambiguous == Cardinality(Entries) = Cardinality(DOMAIN Table.keyFor)

\* The tree finds for every sequence of the tables its key, for what is only the
\* beginning of one that it is incomplete, and ends the match at a foreign byte --
\* also at the nodes whose children have moved from the list to the table
\* (getOrCreateChild, getChild, lookupKey).
TreeIsTheTable ==
  LET map == DefaultMap
  IN \A s \in DOMAIN Table.keyFor \union Table.prefixes :
       /\ LookupKey(map, s) = LookupTable(s)
       /\ LookupKey(map, Append(s, 1)) = LookupTable(Append(s, 1))
==============================================================================
