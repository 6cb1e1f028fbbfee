----------------------------- MODULE TerminalColor -----------------------------
(* The colours of a console cell as the parameters of an SGR sequence              *)
(* (agent/Terminal.cc), and what a terminal shows for them.                        *)
EXTENDS Integers, SequencesExt

\* A colour is a set of flags; a cell's attribute has two, and two more flags.
Flags == {"red", "green", "blue", "bright"}
Colors == SUBSET Flags
Attributes == [fore : Colors, back : Colors, reverse : BOOLEAN, underscore : BOOLEAN]

BLACK == {}
DKGRAY == {"bright"}
LTGRAY == {"red", "green", "blue"}
WHITE == Flags

\* Scraper::attributesMask: which of the two more flags a console shows.
attributesMask(isCjk, grid, vt, isNewW10) ==
  [reverse |-> isCjk \/ grid \/ vt \/ isNewW10, underscore |-> isCjk \/ grid \/ vt]

Masked(attr, mask) ==
  [attr EXCEPT !.reverse = @ /\ mask.reverse, !.underscore = @ /\ mask.underscore]

Number(color) == (IF "red" \in color THEN 1 ELSE 0) + (IF "green" \in color THEN 2 ELSE 0)
                 + (IF "blue" \in color THEN 4 ELSE 0)

\* A bright colour comes behind a dim one that other terminals understand.
outputSetColorSgrParams(isFore, color) ==
  LET base == IF isFore THEN 30 ELSE 40
  IN IF "bright" \in color THEN <<base + Number(color), base + 60 + Number(color)>>
     ELSE <<base + Number(color)>>

\* Mutant of GroundParams: light gray text on white is set as such.
GroundParamsPlain(fore, back) ==
  IF back = BLACK
  THEN CASE fore = LTGRAY -> <<>>
         [] fore = WHITE -> <<1>>
         [] fore = DKGRAY -> <<37, 90>>
         [] OTHER -> outputSetColorSgrParams(TRUE, fore)
  ELSE IF back = WHITE THEN <<7>> \o outputSetColorSgrParams(TRUE, fore)
  ELSE outputSetColorSgrParams(TRUE, fore) \o outputSetColorSgrParams(FALSE, back)

\* Text on black is text on the terminal's own background, text on white text on its
\* inverted one, where the foreground is set as the background.
GroundParams(fore, back) ==
  IF back = BLACK
  THEN CASE fore = LTGRAY -> <<>>
         [] fore = WHITE -> <<1>>
         [] fore = DKGRAY -> <<37, 90>>
         [] OTHER -> outputSetColorSgrParams(TRUE, fore)
  ELSE IF back = WHITE
  THEN <<7>> \o (IF fore \in {LTGRAY, BLACK} THEN <<>> ELSE outputSetColorSgrParams(FALSE, fore))
  ELSE outputSetColorSgrParams(TRUE, fore) \o outputSetColorSgrParams(FALSE, back)

outputSetColor(attr) ==
  LET fore == IF attr.reverse THEN attr.back ELSE attr.fore
      back == IF attr.reverse THEN attr.fore ELSE attr.back
  IN <<0>> \o GroundParams(fore, back)
           \o (IF fore = back THEN <<8>> ELSE <<>>)
           \o (IF attr.underscore THEN <<4>> ELSE <<>>)

-------------------------------------------------------------------------------
(* A terminal that knows all of the parameters, or none of 90 to 107.        *)
Palette(n, bright) ==
  {f \in {"red", "green", "blue"} : (n \div (CASE f = "red" -> 1 [] f = "green" -> 2 [] OTHER -> 4)) % 2 = 1}
    \union (IF bright THEN {"bright"} ELSE {})

Own == {"own"}
Plainest == [fore |-> Own, back |-> Own, bold |-> FALSE, invert |-> FALSE, hide |-> FALSE, line |-> FALSE]

Understand(knowsBright, look, p) ==
  CASE p = 0 -> Plainest
    [] p = 1 -> [look EXCEPT !.bold = TRUE]
    [] p = 4 -> [look EXCEPT !.line = TRUE]
    [] p = 7 -> [look EXCEPT !.invert = TRUE]
    [] p = 8 -> [look EXCEPT !.hide = TRUE]
    [] p \in 30..37 -> [look EXCEPT !.fore = Palette(p - 30, FALSE)]
    [] p \in 40..47 -> [look EXCEPT !.back = Palette(p - 40, FALSE)]
    [] p \in 90..97 -> IF knowsBright THEN [look EXCEPT !.fore = Palette(p - 90, TRUE)] ELSE look
    [] p \in 100..107 -> IF knowsBright THEN [look EXCEPT !.back = Palette(p - 100, TRUE)] ELSE look
    [] OTHER -> look

Look(knowsBright, attr) ==
  LET Step(look, p) == Understand(knowsBright, look, p)
  IN FoldLeft(Step, Plainest, outputSetColor(attr))

(****************************** what is checked *****************************)
\* The flags of a cell a console does not show are not sent; text is hidden if and only if
\* the console does not show it either; two cells that look different in the console look
\* different in the terminal, but for light gray on white, which is black on white; and no
\* terminal that knows the bright colours is asked to draw text in the very colour it is
\* asked to draw the background in, without hiding it.
Seen(attr) == IF attr.reverse THEN [attr EXCEPT !.fore = attr.back, !.back = attr.fore, !.reverse = FALSE]
              ELSE attr
Shown(attr) == IF attr.back = WHITE /\ attr.fore = LTGRAY THEN [attr EXCEPT !.fore = BLACK] ELSE attr

ColorsTold ==
  \A mask \in {attributesMask(c, g, v, n) : c \in BOOLEAN, g \in BOOLEAN, v \in BOOLEAN, n \in BOOLEAN} :
    LET seen == {Seen(Masked(attr, mask)) : attr \in Attributes}
        look == [attr \in seen |-> Look(TRUE, attr)]
    IN /\ \A attr \in seen :
            /\ look[attr].hide <=> attr.fore = attr.back
            /\ look[attr].line => mask.underscore
            /\ look[attr].fore = look[attr].back => look[attr].fore = Own \/ look[attr].hide
       /\ \A attr \in Attributes : Look(TRUE, Masked(attr, mask)) = look[Seen(Masked(attr, mask))]
       /\ Cardinality({look[attr] : attr \in seen}) = Cardinality({Shown(attr) : attr \in seen})
================================================================================
