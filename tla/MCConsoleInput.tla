---------------------------- MODULE MCConsoleInput ----------------------------
(* ConsoleInput for TLC: keys of all kinds, and pairs of them that could be     *)
(* taken for one another.                                                       *)
EXTENDS ConsoleInput

Chars(s) == [i \in 1..Len(s) |-> Key("", s[i], {})]

\* A token: its bytes, the keys a program sees (without and with virtual terminal
\* input), and the mouse buttons held after it.
Token(bytes, keys, vt) == [bytes |-> bytes, held |-> {}, keys |-> (FALSE :> keys) @@ (TRUE :> vt)]
Mouse(bytes, held) == [bytes |-> bytes, held |-> held, keys |-> (FALSE :> <<>>) @@ (TRUE :> <<>>)]

MCLayout == (ESC :> [vk |-> "ESCAPE", mods |-> {}]) @@ (120 :> [vk |-> "X", mods |-> {}])
            @@ (64 :> [vk |-> "Q", mods |-> {"Ctrl", "RAlt"}])
            @@ (1 :> [vk |-> "A", mods |-> {"Ctrl"}])

Esc == Token(<<ESC>>, <<Key("ESCAPE", ESC, {})>>, Chars(<<ESC>>))
X == Token(<<120>>, <<Key("X", 120, {})>>, Chars(<<120>>))
AltX == Token(<<ESC, 120>>, <<Key("X", 120, {"LAlt"})>>, Chars(<<ESC, 120>>))
AltGrQ == Token(<<64>>, <<Key("Q", 64, {"Ctrl", "RAlt"})>>, Chars(<<64>>))
AltCtrlA == Token(<<ESC, 1>>, <<Key("A", 0, {"Ctrl", "LAlt"})>>, Chars(<<ESC, 1>>))
CtrlCToken == Token(<<3>>, <<Key("C", 3, {"Ctrl"})>>, <<Key("C", 3, {"Ctrl"})>>)
Up == Token(<<ESC, LBRACKET, 65>>, <<Key("UP", 0, {"Enhanced"})>>, <<Key("UP", 0, {})>>)
ShiftUp == Token(<<ESC, LBRACKET, 49, 59, 50, 65>>, <<Key("UP", 0, {"Shift", "Enhanced"})>>,
                 Chars(<<ESC, LBRACKET, 49, 59, 50, 65>>))
CtrlDelete == Token(<<ESC, LBRACKET, 51, 94>>, <<Key("DELETE", 0, {"Ctrl", "Enhanced"})>>,
                    Chars(<<ESC, LBRACKET, 51, 59, 53, 126>>))
\* U+00E9 and U+1F300.
EAcute == Token(<<195, 169>>, <<Key("", 233, {})>>, Chars(<<233>>))
Cyclone == Token(<<240, 159, 140, 128>>, <<Key("", 55356, {}), Key("", 57088, {})>>,
                 Chars(<<55356, 57088>>))

\* ESC [ < flags ; x ; 2 M: the left button, the right one, the wheel.
Sgr(flag, x, last) == <<ESC, LBRACKET, 60>> \o Digits(flag) \o <<59, 48 + x, 59, 50, last>>
LeftDown(x) == Mouse(Sgr(0, x, 77), {"left"})
LeftUp(x) == Mouse(Sgr(0, x, 109), {})
RightDown == Mouse(Sgr(2, 3, 77), {"right"})
WheelUp == Mouse(Sgr(64, 3, 77), {})
\* The same in the two older encodings.
RightDown1015 == Mouse(<<ESC, LBRACKET, 51, 52, 59, 51, 59, 50, 77>>, {"right"})
LeftDownDefault == Mouse(<<ESC, LBRACKET, 77, 32, 35, 34>>, {"left"})
AllUpDefault == Mouse(<<ESC, LBRACKET, 77, 35, 36, 37>>, {})

MCScripts ==
  {<<Esc, t>> : t \in {X, Up, Esc}}
  \union {<<Up, Esc>>, <<CtrlDelete, ShiftUp>>}
  \union {<<X, CtrlCToken, Up>>, <<AltGrQ, AltCtrlA>>, <<AltX, EAcute, Cyclone>>}
  \union {<<LeftDownDefault, AllUpDefault, LeftDownDefault, AllUpDefault, LeftDownDefault>>,
          <<LeftDown(3), LeftUp(4), LeftDown(4)>>,
          <<RightDown1015, AllUpDefault, RightDown>>, <<WheelUp, Up>>}

MCStarts == {[plain |-> FALSE, mouseMode |-> "force"], [plain |-> TRUE, mouseMode |-> "auto"]}
MCModes == {{"mouse", "extended"}, {"processed", "escape"}}
MCReplies == {<<ESC, LBRACKET, 49, 59, 49, 82>>}
MCWindow == [left |-> 5, top |-> 7, width |-> 4, height |-> 3]

\* These depend on no state, and are evaluated in the first ones.
\* The longest sequence of the table that matches is found, and only waits for more if
\* more can match; what is encoded for a program that asked for escape sequences reads
\* as the same key.
TablesRightAtStart == Init => InputMapRight /\ ReencodingRoundTrips
===============================================================================
