------------------------------- MODULE MCScreen -------------------------------
(* Small consoles for module Screen.                                           *)
EXTENDS Screen, TerminalColor

Glyph(ch, wide, color) == [ch |-> ch, wide |-> wide, color |-> color]
SomeGlyphs == {Glyph(97, FALSE, 2), Glyph(32, FALSE, 2), Glyph(9472, TRUE, 7)}
Mode(plain, outputColor) == [plain |-> plain, outputColor |-> outputColor]
SomeModes == {Mode(FALSE, TRUE), Mode(TRUE, FALSE)}

\* A line's characters take its cells in order, none an escape character or half of a pair,
\* and colours that differ in the console differ in the terminal: sendLine and
\* outputSetColor, which depend on no state and are evaluated in the first ones.
TextRightAtStart == Init => ScanSafe /\ ColorsTold
===============================================================================
