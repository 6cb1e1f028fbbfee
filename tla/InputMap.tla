------------------------------ MODULE InputMap ------------------------------
(* agent/InputMap.h and InputMap.cc: the tree that tells which escape         *)
(* sequence means which key.  A node keeps up to kTinyCount children in a     *)
(* sorted list and moves them to a table when one more comes.                 *)
EXTENDS Integers, Sequences, TLC

kTinyCount == 8

\* A key: its virtual key code, the character it makes, and the state of the
\* modifier keys.  "" and 0 stand for "none".
Key(vk, ch, mods) == [vk |-> vk, ch |-> ch, mods |-> mods]
kKeyZero == Key("", 0, {})

\* `tiny` is the list, `branch` the table: the code's union.
EmptyNode == [key |-> kKeyZero, childCount |-> 0, tiny |-> <<>>, branch |-> <<>>]

HasKey(node) == node.key.vk # "" \/ node.key.ch # 0

NoChild == <<>>

\* Mutant of GetChild: the list is taken for the table one child too early.
GetChildEarly(node, ch) ==
  IF node.childCount < kTinyCount
  THEN LET at == {i \in 1..node.childCount : node.tiny[i].value = ch}
       IN IF at = {} THEN NoChild ELSE <<node.tiny[CHOOSE i \in at : TRUE].child>>
  ELSE IF ch \in DOMAIN node.branch THEN <<node.branch[ch]>> ELSE NoChild

\* The child for ch, in a sequence of length one, or NoChild.
GetChild(node, ch) ==
  IF node.childCount <= kTinyCount
  THEN LET at == {i \in 1..node.childCount : node.tiny[i].value = ch}
       IN IF at = {} THEN NoChild ELSE <<node.tiny[CHOOSE i \in at : TRUE].child>>
  ELSE IF ch \in DOMAIN node.branch THEN <<node.branch[ch]>> ELSE NoChild

\* The node with its child for ch replaced by, or extended by, `child`.
PutChild(node, ch, child) ==
  LET at == {i \in 1..Len(node.tiny) : node.tiny[i].value = ch}
      behind == {i \in 1..Len(node.tiny) : ch < node.tiny[i].value}
      index == IF behind = {} THEN Len(node.tiny) + 1
               ELSE CHOOSE i \in behind : \A j \in behind : i <= j
      entry == [value |-> ch, child |-> child]
      table == [c \in {node.tiny[i].value : i \in 1..Len(node.tiny)} |->
                  node.tiny[CHOOSE i \in 1..Len(node.tiny) : node.tiny[i].value = c].child]
      With(f) == (ch :> child) @@ f
  IN IF GetChild(node, ch) # NoChild
     THEN IF node.childCount <= kTinyCount
          THEN [node EXCEPT !.tiny = [@ EXCEPT ![CHOOSE i \in at : TRUE] = entry]]
          ELSE [node EXCEPT !.branch = With(@)]
     ELSE IF node.childCount < kTinyCount
     THEN [node EXCEPT !.childCount = @ + 1,
                       !.tiny = SubSeq(@, 1, index - 1) \o <<entry>> \o SubSeq(@, index, Len(@))]
     ELSE IF node.childCount = kTinyCount
     THEN [node EXCEPT !.childCount = @ + 1, !.tiny = <<>>, !.branch = With(table)]
     ELSE [node EXCEPT !.childCount = @ + 1, !.branch = With(@)]

RECURSIVE SetHelper(_, _, _)
SetHelper(node, encoding, key) ==
  IF encoding = <<>> THEN [node EXCEPT !.key = key]
  ELSE LET old == GetChild(node, encoding[1])
           child == IF old = NoChild THEN EmptyNode ELSE old[1]
       IN PutChild(node, encoding[1], SetHelper(child, Tail(encoding), key))

\* F(v), with v evaluated first: TLC passes arguments to operators unevaluated, and
\* a tree built in thousands of steps must not become one deep expression.
Strict(F(_), v) == CHOOSE r \in {F(x) : x \in {v}} : TRUE

\* Set every entry of a set of [enc, key].
RECURSIVE SetAll(_, _)
SetAll(map, entries) ==
  IF entries = {} THEN map
  ELSE LET e == CHOOSE x \in entries : TRUE
           Rest(m) == SetAll(m, entries \ {e})
       IN Strict(Rest, SetHelper(map, e.enc, e.key))

\* The longest match in `input`, and whether more bytes could make a longer one.
RECURSIVE LookupFrom(_, _, _, _, _)
LookupFrom(node, input, i, longestMatch, longestMatchLen) ==
  IF i > Len(input)
  THEN [len |-> longestMatchLen, key |-> longestMatch, incomplete |-> node.childCount > 0]
  ELSE LET child == GetChild(node, input[i])
       IN IF child = NoChild
          THEN [len |-> longestMatchLen, key |-> longestMatch, incomplete |-> FALSE]
          ELSE IF HasKey(child[1])
          THEN LookupFrom(child[1], input, i + 1, child[1].key, i)
          ELSE LookupFrom(child[1], input, i + 1, longestMatch, longestMatchLen)

LookupKey(map, input) == LookupFrom(map, input, 1, kKeyZero, 0)
=============================================================================
