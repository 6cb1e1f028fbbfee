----------------------------- MODULE ConsoleInput -----------------------------
(* agent/ConsoleInput.cc and ConsoleInputReencoding.cc: the bytes of CONIN    *)
(* become input records of the console.  The bytes of a key may come in any   *)
(* number of pieces; a byte that could be the beginning of a sequence waits    *)
(* for more, for the terminal's answer to a DSR, or for a time-out.            *)
EXTENDS DefaultInputMap, UnicodeEncoding, SequencesExt

CONSTANTS
  Scripts,        \* what the user does: sequences of tokens
  Starts,         \* plain mode or not, and the spawn flag for the mouse
  Modes,          \* the console input modes programs set
  MaxDisturbances, \* bound: how often they do, or a time-out cuts a sequence
  DsrReplies,     \* the terminal's answers to a DSR
  WindowRect,     \* the rectangle of the last scrape
  MaxWire,        \* bound: the user waits while so many bytes are on their way
  MaxPiece,       \* bound: the agent reads so many bytes at once, or all there are
  Layout          \* VkKeyScan: the key of a character, where the layout has one

VARIABLES
  script,              \* the user: the tokens typed so far
  wire,                \* bytes between the terminal and the agent
  ends, replyEnds,     \* where in the wire a token or a reply ends; the replies only
  asked,               \* DSRs the terminal has not answered
  plainMode,               \* the agent is in plain mode: it sends no DSR
  mode, modeChanges,   \* the console's input mode
  events,              \* what the console has got
  byteQueue, dsrSent, late, mouseButtonState, doubleClick, clickLate,  \* members
  flags, mouseWindowRect,                                              \* members
  cut,                 \* history: the last byte handled was not the end of a token
  torn, ripped,        \* history: a time-out cut a sequence, and the queue and the wire
                       \* have not both been empty since; one did at any time
  base, expected       \* history: the keys that should have come after events[base]

mouseVars == <<mouseButtonState, doubleClick>>
vars == <<script, wire, ends, replyEnds, asked, plainMode, mode, modeChanges, events, byteQueue,
          dsrSent, late, mouseVars, clickLate, flags, mouseWindowRect, cut, torn, ripped, base,
          expected>>

-------------------------------------------------------------------------------
(* Patterns.  An element is a set of bytes, of which one must come, a number,   *)
(* or a number that may have a minus sign.                                     *)
Bytes(S) == [kind |-> "byte", set |-> S]
Number == [kind |-> "int", set |-> {}]
SignedInt == [kind |-> "signed", set |-> {}]

IsDigit(b) == b \in 48..57
NoMatch == [len |-> 0, vals |-> <<>>]
Incomplete == [len |-> -1, vals |-> <<>>]

RECURSIVE NumberAt(_, _, _)
NumberAt(s, from, to) ==
  IF from > to THEN 0 ELSE 10 * NumberAt(s, from, to - 1) + (s[to] - 48)

\* The macros CHECK, ADVANCE, SCAN_INT, SCAN_SIGNED_INT from position p of s on: a
\* number of more than seven digits is no match, the end of s an incomplete one.
RECURSIVE Scan(_, _, _, _)
Scan(s, p, pattern, vals) ==
  LET e == pattern[1]
      negative == e.kind = "signed" /\ s[p] = 45
      first == IF negative THEN p + 1 ELSE p
      run == {k \in first..Len(s) : \A i \in first..k : IsDigit(s[i])}
      last == IF e.kind = "byte" THEN p ELSE first + Cardinality(run) - 1
      n == IF e.kind = "byte" THEN s[p]
           ELSE (IF negative THEN -1 ELSE 1) * NumberAt(s, first, last)
  IN IF negative /\ first > Len(s) THEN Incomplete
     ELSE IF e.kind = "byte" /\ s[p] \notin e.set THEN NoMatch
     ELSE IF e.kind # "byte" /\ Cardinality(run) \notin 1..7 THEN NoMatch
     ELSE IF Len(pattern) = 1 THEN [len |-> last, vals |-> Append(vals, n)]
     ELSE IF last = Len(s) THEN Incomplete
     ELSE LET Rest(at) == Scan(s, at.p, at.pattern, at.vals)
          IN Strict(Rest, [p |-> last + 1, pattern |-> Tail(pattern), vals |-> Append(vals, n)])

Csi == <<Bytes({ESC}), Bytes({LBRACKET})>>
Semicolon == Bytes({59})
DsrPattern == Csi \o <<Number, Semicolon, Number, Bytes({Letter("R")})>>
DefaultPattern == Csi \o <<Bytes({Letter("M")}), Bytes(Byte), Bytes(Byte), Bytes(Byte)>>
Pattern1006 == Csi \o <<Bytes({60}), Number, Semicolon, SignedInt, Semicolon, SignedInt,
                        Bytes({Letter("M"), Letter("m")})>>
Pattern1015 == Csi \o <<Number, Semicolon, SignedInt, Semicolon, SignedInt, Bytes({Letter("M")})>>

Match(pattern, input) == Scan(input, 1, pattern, <<>>)

\* ESC [ row ; column R
MatchDsr(input) == Match(DsrPattern, input).len

MouseRecord(len, flags_, x, y, release) ==
  [len |-> len, flags |-> flags_, x |-> x, y |-> y, release |-> release]

\* ESC [ M and three bytes
MatchMouseDefault(input) ==
  LET Record(m) == IF m.len <= 0 THEN MouseRecord(m.len, 0, 0, 0, FALSE)
                   ELSE MouseRecord(m.len, (m.vals[4] - 32) % 256, (m.vals[5] - 33) % 256,
                                    (m.vals[6] - 33) % 256, FALSE)
  IN Strict(Record, Match(DefaultPattern, input))

\* ESC [ < flags ; x ; y M or m
MatchMouse1006(input) ==
  LET Record(m) == IF m.len <= 0 THEN MouseRecord(m.len, 0, 0, 0, FALSE)
                   ELSE MouseRecord(m.len, m.vals[4], m.vals[6] - 1, m.vals[8] - 1,
                                    m.vals[9] = Letter("m"))
  IN Strict(Record, Match(Pattern1006, input))

\* ESC [ flags ; x ; y M
MatchMouse1015(input) ==
  LET Record(m) == IF m.len <= 0 THEN MouseRecord(m.len, 0, 0, 0, FALSE)
                   ELSE MouseRecord(m.len, m.vals[3] - 32, m.vals[5] - 1, m.vals[7] - 1, FALSE)
  IN Strict(Record, Match(Pattern1015, input))

MatchMouseRecord(input) ==
  LET Or1015(r) == IF r.len # 0 THEN r ELSE MatchMouse1015(input)
      OrDefault(r) == IF r.len # 0 THEN r ELSE MatchMouseDefault(input)
  IN Strict(OrDefault, Strict(Or1015, MatchMouse1006(input)))

-------------------------------------------------------------------------------
(* Console input records.                                                      *)
Modifiers == {"CONTROL", "MENU", "SHIFT"}

\* appendInputRecord
KeyRecord(down, vk, ch, mods) ==
  [type |-> "key", down |-> down, vk |-> vk, ch |-> ch, mods |-> mods]

\* appendCPInputRecords: one record per UTF-16 unit of the code point.
CPRecords(down, vk, code, mods) ==
  LET ws == EncodeUtf16(code) IN [i \in 1..Len(ws) |-> KeyRecord(down, vk, ws[i], mods)]

LetterOf == [vk \in {"UP", "DOWN", "RIGHT", "LEFT", "CLEAR", "HOME", "END"} |->
  Letter(CASE vk = "UP" -> "A" [] vk = "DOWN" -> "B" [] vk = "RIGHT" -> "C" [] vk = "LEFT" -> "D"
           [] vk = "CLEAR" -> "E" [] vk = "HOME" -> "H" [] vk = "END" -> "F")]
NumberOf == [F1 |-> 11, F2 |-> 12, F3 |-> 13, F4 |-> 14, F5 |-> 15, F6 |-> 17, F7 |-> 18,
             F8 |-> 19, F9 |-> 20, F10 |-> 21, F11 |-> 23, F12 |-> 24,
             INSERT |-> 2, DELETE |-> 3, PRIOR |-> 5, NEXT |-> 6]

\* Mutant of ReencodedFlags: Alt and Ctrl are swapped.
ReencodedFlagsSwapped(mods) ==
  (IF "Shift" \in mods THEN 1 ELSE 0) + (IF "LAlt" \in mods THEN 4 ELSE 0)
  + (IF "Ctrl" \in mods THEN 2 ELSE 0)

ReencodedFlags(mods) ==
  (IF "Shift" \in mods THEN 1 ELSE 0) + (IF "LAlt" \in mods THEN 2 ELSE 0)
  + (IF "Ctrl" \in mods THEN 4 ELSE 0)

\* The characters a program in virtual terminal input mode reads for a key.
reencodeEscapedKeyPress(vk, code, mods) ==
  LET flag == ReencodedFlags(mods)
      modifier == IF flag = 0 THEN <<>> ELSE <<59, 49 + flag>>
      altPrefix == IF "LAlt" \in mods THEN <<ESC>> ELSE <<>>
      numeric == vk \in DOMAIN NumberOf
  IN IF numeric \/ vk \in DOMAIN LetterOf
     THEN <<ESC, LBRACKET>>
          \o (IF numeric THEN Digits(NumberOf[vk]) ELSE IF flag # 0 THEN <<49>> ELSE <<>>)
          \o modifier \o (IF numeric THEN <<126>> ELSE <<LetterOf[vk]>>)
     ELSE IF vk = "BACK" THEN altPrefix \o <<127>>
     ELSE IF vk = "TAB" /\ "Shift" \in mods THEN <<ESC, LBRACKET, Letter("Z")>>
     ELSE IF code # 0 THEN altPrefix \o EncodeUtf16(code)
     ELSE <<>>

\* st: the members a scan may change, the records not yet written, and the console.
\* flushInputRecords
Flush(st) == [st EXCEPT !.events = @ \o st.records, !.records = <<>>]

\* Mutant of SendMessage: the records before it are not flushed first.
SendMessageAtOnce(st, e) == [st EXCEPT !.events = @ \o e]

\* What goes past the input buffer goes behind what is already scanned.
SendMessage(st, e) == [Flush(st) EXCEPT !.events = @ \o e]

\* Mutant of AppendKeyPress: Shift is not released.
AppendKeyPressKeepShift(st, vk, chDown, chUp, winMods, vtCode, vtMods) ==
  LET held == SelectSeq(<<"Ctrl", "LAlt", "RAlt", "Shift">>, LAMBDA m : m \in winMods)
      VkOf(m) == CASE m = "Ctrl" -> "CONTROL" [] m = "Shift" -> "SHIFT" [] OTHER -> "MENU"
      Press(i) == KeyRecord(TRUE, VkOf(held[i]), 0, ToSet(SubSeq(held, 1, i)))
  IN [st EXCEPT !.records = @ \o [i \in 1..Len(held) |-> Press(i)]
                              \o CPRecords(TRUE, vk, chDown, winMods)]

\* The modifiers are pressed in a fixed order, then the key, and released in reverse.
AppendKeyPress(st, vk, chDown, chUp, winMods, vtCode, vtMods) ==
  LET held == SelectSeq(<<"Ctrl", "LAlt", "RAlt", "Shift">>, LAMBDA m : m \in winMods)
      VkOf(m) == CASE m = "Ctrl" -> "CONTROL" [] m = "Shift" -> "SHIFT" [] OTHER -> "MENU"
      State(i, m) == ToSet(SubSeq(held, 1, i)) \union (IF m = "RAlt" THEN {"Enhanced"} ELSE {})
      presses == [i \in 1..Len(held) |-> KeyRecord(TRUE, VkOf(held[i]), 0, State(i, held[i]))]
      releases == [i \in 1..Len(held) |-> KeyRecord(FALSE, VkOf(held[i]), 0, State(i - 1, held[i]))]
      mods == ToSet(held) \union (winMods \intersect {"Enhanced"})
      vt == reencodeEscapedKeyPress(vk, vtCode, vtMods)
      down == IF "escape" \in st.flags
              THEN [i \in 1..Len(vt) |-> KeyRecord(TRUE, "", vt[i], {})]
              ELSE CPRecords(TRUE, vk, chDown, mods)
  IN IF /\ "escape" \in st.flags
        /\ vk \in {"UP", "DOWN", "LEFT", "RIGHT", "HOME", "END"}
        /\ held = <<>>
     THEN SendMessage(st, <<[type |-> "message", down |-> TRUE, vk |-> vk, ch |-> 0, mods |-> {}],
                            [type |-> "message", down |-> FALSE, vk |-> vk, ch |-> 0, mods |-> {}]>>)
     ELSE [st EXCEPT !.records = @ \o presses \o down \o CPRecords(FALSE, vk, chUp, mods)
                                   \o Reverse(releases)]

\* A character the terminal sent, with ESC before it when terminalAltEscape.
AppendUtf8Char(st, bytes, terminalAltEscape) ==
  LET code == DecodeUtf8(bytes)
      known == code <= 65535 /\ code \in DOMAIN Layout
      layout == IF known THEN Layout[code] ELSE [vk |-> "", mods |-> {}]
      hidden == terminalAltEscape /\ "Ctrl" \in layout.mods
      alt == IF terminalAltEscape THEN {"LAlt"} ELSE {}
  IN IF code = kInvalid THEN st
     ELSE AppendKeyPress(st, layout.vk, IF hidden THEN 0 ELSE code,
                         IF hidden \/ terminalAltEscape THEN 0 ELSE code,
                         layout.mods \union alt, code, alt)

-------------------------------------------------------------------------------
(* The mouse.                                                                  *)
NoClick == [button |-> "", x |-> 0, y |-> 0, released |-> FALSE]
Bit(n, b) == (n \div b) % 2 = 1

\* Mutant of Clamp: one column or row too far.
ClampWide(v, size) == Max({0, Min({v, size})})

Clamp(v, size) == Max({0, Min({v, size - 1})})

\* Mutant of ButtonEvent: a double click does not end the detection.
ButtonEventTwice(st, r, button) ==
  IF r.release THEN [st EXCEPT !.buttons = @ \ {button}, !.click.released = TRUE]
  ELSE IF button \in st.buttons THEN st
  ELSE IF /\ st.click.button = button /\ st.click.x = r.x /\ st.click.y = r.y /\ ~clickLate
       THEN [st EXCEPT !.buttons = @ \union {button}, !.double = TRUE]
       ELSE [st EXCEPT !.buttons = @ \union {button}, !.clicked = TRUE,
                       !.click = [@ EXCEPT !.button = button, !.x = r.x, !.y = r.y]]

\* Mutant of ButtonEvent: the press that makes a double click is not remembered.
ButtonEventForgets(st, r, button) ==
  IF r.release
  THEN [st EXCEPT !.buttons = @ \ {button},
                  !.click = IF @.button = button THEN [@ EXCEPT !.released = TRUE] ELSE NoClick]
  ELSE IF button \in st.buttons THEN st
  ELSE IF /\ st.click.button = button /\ st.click.x = r.x /\ st.click.y = r.y
          /\ ~(clickLate /\ ~st.clicked)
       THEN [st EXCEPT !.double = TRUE, !.click = NoClick]
       ELSE [st EXCEPT !.buttons = @ \union {button}, !.clicked = TRUE,
                       !.click = [@ EXCEPT !.button = button, !.x = r.x, !.y = r.y]]

\* A press or release of one button; a press may complete a double click or begin one.
ButtonEvent(st, r, button) ==
  IF r.release
  THEN [st EXCEPT !.buttons = @ \ {button},
                  !.click = IF @.button = button THEN [@ EXCEPT !.released = TRUE] ELSE NoClick]
  ELSE IF button \in st.buttons THEN st
  ELSE IF /\ st.click.button = button /\ st.click.x = r.x /\ st.click.y = r.y
          /\ ~(clickLate /\ ~st.clicked)
       THEN [st EXCEPT !.buttons = @ \union {button}, !.double = TRUE, !.click = NoClick]
       ELSE [st EXCEPT !.buttons = @ \union {button}, !.clicked = TRUE,
                       !.click = [@ EXCEPT !.button = button, !.x = r.x, !.y = r.y]]

\* scanMouseInput, for a record that matched.
ScanMouse(before, r) ==
  LET button == r.flags % 4
      wheel == Bit(r.flags, 64)
      moved == IF ~wheel /\ Bit(r.flags, 32) THEN {"MOVED"} ELSE {}
      st == [before EXCEPT !.double = FALSE]
      after == IF wheel THEN st
               ELSE IF button = 3
               THEN [st EXCEPT !.buttons = {}, !.click.released = TRUE]
               ELSE ButtonEvent(st, r, <<"left", "middle", "right">>[button + 1])
      mods == {f \in {"Shift", "LAlt", "Ctrl"} :
                 Bit(r.flags, IF f = "Shift" THEN 4 ELSE IF f = "LAlt" THEN 8 ELSE 16)}
      event == [type |-> "mouse",
                x |-> mouseWindowRect.left + Clamp(r.x, mouseWindowRect.width),
                y |-> mouseWindowRect.top + Clamp(r.y, mouseWindowRect.height),
                mods |-> mods, buttons |-> after.buttons,
                wheel |-> IF ~wheel THEN "" ELSE IF button = 0 THEN "up" ELSE "down",
                flags |-> moved \union (IF after.double THEN {"DOUBLE_CLICK"} ELSE {})]
  IN IF wheel /\ button \notin {0, 1} THEN st
     ELSE IF "mouse" \in st.flags /\ "quickEdit" \notin st.flags
     THEN [after EXCEPT !.records = Append(@, event)]
     ELSE after

-------------------------------------------------------------------------------
(* scanInput: the first key, mouse event or reply of `input`.                   *)
Took(n, st) == [len |-> n, st |-> st]
Wait(st) == [len |-> -1, st |-> st]

CtrlC == [type |-> "ctrlC", down |-> TRUE, vk |-> "C", ch |-> 3, mods |-> {"Ctrl"}]

TakeKey(st, key) ==
  LET dn == IF {"Ctrl", "LAlt"} \subseteq key.mods THEN 0 ELSE key.ch
      up == IF "LAlt" \in key.mods THEN 0 ELSE dn
  IN AppendKeyPress(st, key.vk, dn, up, key.mods, key.ch, key.mods)

\* What no sequence begins with: Alt and a character, or a character.
ScanChar(st, input) ==
  LET altLen == IF input[1] = ESC /\ Len(input) >= 2 /\ input[2] # ESC
                THEN Utf8CharLength(input[2]) ELSE 0
      len == Utf8CharLength(input[1])
  IN IF altLen > 0
     THEN IF 1 + altLen > Len(input) THEN Wait(st)
          ELSE Took(1 + altLen, AppendUtf8Char(st, SubSeq(input, 2, 1 + altLen), TRUE))
     ELSE IF len = 0 THEN Took(1, st)
     ELSE IF len > Len(input) THEN Wait(st)
     ELSE Took(len, AppendUtf8Char(st, SubSeq(input, 1, len), FALSE))

ScanInput(st, input, isEof) ==
  LET Key_(found) == IF ~isEof /\ found.incomplete THEN Wait(st)
                     ELSE IF found.len > 0 THEN Took(found.len, TakeKey(st, found.key))
                     ELSE ScanChar(st, input)
      Mouse_(r) == IF r.len > 0 THEN Took(r.len, ScanMouse(st, r))
                   ELSE IF ~isEof /\ r.len = -1 THEN Wait(st)
                   ELSE Strict(Key_, LookupTable(input))
      Dsr_(len) == IF len > 0 THEN Took(len, [st EXCEPT !.dsrSent = FALSE])
                   ELSE IF ~isEof /\ len = -1 THEN Wait(st)
                   ELSE Strict(Mouse_, MatchMouseRecord(input))
  IN IF input[1] = 3 /\ "processed" \in mode THEN Took(1, SendMessage(st, <<CtrlC>>))
     ELSE IF input[1] = ESC THEN Strict(Dsr_, MatchDsr(input))
     ELSE Strict(Key_, LookupTable(input))

RECURSIVE ScanAll(_, _, _)
ScanAll(st, input, isEof) ==
  LET Rest(s) == IF s.len = -1 THEN [st |-> s.st, queue |-> s.queue]
                 ELSE ScanAll(s.st, SubSeq(s.queue, s.len + 1, Len(s.queue)), isEof)
      Scanned(queue) == ScanInput(st, queue, isEof) @@ ("queue" :> queue)
  IN IF input = <<>> THEN [st |-> st, queue |-> <<>>]
     ELSE Strict(Rest, Strict(Scanned, input))

\* doWrite: scan the queue as far as it goes and write the records.
DoWrite(queue, isEof, flags_) ==
  LET st == [flags |-> flags_, records |-> <<>>, events |-> events, dsrSent |-> dsrSent,
             buttons |-> mouseButtonState, click |-> doubleClick, clicked |-> FALSE,
             double |-> FALSE]
      Flushed(done) == [done EXCEPT !.st = Flush(@)]
      Done(bytes) == ScanAll(st, bytes, isEof)
  IN Strict(Flushed, Strict(Done, queue))

Write(done) ==
  /\ events' = done.st.events
  /\ mouseButtonState' = done.st.buttons
  /\ doubleClick' = done.st.click
  /\ clickLate' = (clickLate /\ ~done.st.clicked)

-------------------------------------------------------------------------------
(* The constructor, and the console's default mode.                            *)
InitialMode(mouseMode) ==
  {"processed", "mouse", "extended"} \union (IF mouseMode = "auto" THEN {"quickEdit"} ELSE {})

Init ==
  /\ script = <<>> /\ wire = <<>> /\ ends = {} /\ replyEnds = {} /\ asked = 0
  /\ \E start \in Starts : plainMode = start.plain /\ mode = InitialMode(start.mouseMode)
  /\ modeChanges = 0 /\ events = <<>>
  /\ byteQueue = <<>> /\ dsrSent = FALSE /\ late = FALSE
  /\ mouseButtonState = {} /\ doubleClick = NoClick /\ clickLate = FALSE
  /\ flags = mode /\ mouseWindowRect = [left |-> 0, top |-> 0, width |-> 1, height |-> 1]
  /\ cut = FALSE /\ torn = FALSE /\ ripped = FALSE /\ base = 0 /\ expected = <<>>

\* Bytes from the terminal come behind those on the way; a DSR reply splits no key.
Send(bytes) == /\ wire' = wire \o bytes
               /\ ends' = ends \union {Len(wire) + Len(bytes)}

\* The user types or moves the mouse.  After a lone ESC a user waits until it is seen:
\* what ESC and a key in one go mean, no program can tell.
Type(t) ==
  /\ \E s \in Scripts : IsPrefix(Append(script, t), s)
  /\ script # <<>> /\ script[Len(script)].bytes = <<ESC>> => wire = <<>> /\ byteQueue = <<>>
  /\ Len(wire) < MaxWire /\ Send(t.bytes)
  /\ script' = Append(script, t)
  /\ expected' = Append(expected, t.keys)
  /\ UNCHANGED <<replyEnds, asked, plainMode, mode, modeChanges, events, byteQueue, dsrSent, late,
                 mouseVars, clickLate, flags, mouseWindowRect, cut, torn, ripped, base>>

\* The terminal answers a DSR.
Answer(reply) ==
  /\ asked > 0 /\ asked' = asked - 1
  /\ Send(reply)
  /\ replyEnds' = replyEnds \union {Len(wire) + Len(reply)}
  /\ UNCHANGED <<script, expected, plainMode, mode, modeChanges, events, byteQueue, dsrSent, late,
                 mouseVars, clickLate, flags, mouseWindowRect, cut, torn, ripped, base>>

Disturbances == modeChanges + (IF ripped THEN 1 ELSE 0)

\* A program sets the console's input mode; the agent looks at the next poll.
SetMode(m) ==
  /\ Disturbances < MaxDisturbances /\ modeChanges' = modeChanges + 1
  /\ mode' = m /\ mode # m
  /\ torn' = (torn \/ ("escape" \in m) # ("escape" \in mode))
  /\ UNCHANGED <<script, expected, wire, ends, replyEnds, asked, plainMode, events, byteQueue,
                 dsrSent, late, mouseVars, clickLate, flags, mouseWindowRect, cut, ripped, base>>

\* History: what is expected begins anew when nothing is on its way any more.
Account(wasTorn) ==
  IF wasTorn /\ wire' = <<>> /\ byteQueue' = <<>> /\ flags' = mode
  THEN torn' = FALSE /\ base' = Len(events') /\ expected' = <<>>
  ELSE torn' = wasTorn /\ UNCHANGED <<base, expected>>

\* Mutant of WriteInput: the flag is not looked at, so that each piece sends a DSR.
WriteInputAsks(n) ==
  \E done \in {DoWrite(byteQueue \o SubSeq(wire, 1, n), FALSE, flags)} :
     /\ wire' = SubSeq(wire, n + 1, Len(wire))
     /\ ends' = {p - n : p \in {e \in ends : e > n}}
     /\ replyEnds' = {p - n : p \in {e \in replyEnds : e > n}}
     /\ cut' = (n \notin ends)
     /\ byteQueue' = done.queue
     /\ Write(done)
     /\ IF done.queue # <<>>
        THEN dsrSent' = TRUE /\ asked' = (IF plainMode THEN asked ELSE asked + 1)
        ELSE dsrSent' = done.st.dsrSent /\ UNCHANGED asked
     /\ late' = FALSE
     /\ UNCHANGED <<script, plainMode, mode, modeChanges, flags, mouseWindowRect, ripped>>
     /\ Account(torn)

\* The first n bytes of the wire have come: Agent::pollConinPipe and writeInput, and
\* Agent::sendDsr.
WriteInput(n) ==
  \E done \in {DoWrite(byteQueue \o SubSeq(wire, 1, n), FALSE, flags)} :
     /\ wire' = SubSeq(wire, n + 1, Len(wire))
     /\ ends' = {p - n : p \in {e \in ends : e > n}}
     /\ replyEnds' = {p - n : p \in {e \in replyEnds : e > n}}
     /\ cut' = (n \notin ends)
     /\ byteQueue' = done.queue
     /\ Write(done)
     /\ IF done.queue # <<>> /\ ~done.st.dsrSent
        THEN dsrSent' = TRUE /\ asked' = (IF plainMode THEN asked ELSE asked + 1)
        ELSE dsrSent' = done.st.dsrSent /\ UNCHANGED asked
     /\ late' = FALSE
     /\ UNCHANGED <<script, plainMode, mode, modeChanges, flags, mouseWindowRect, ripped>>
     /\ Account(torn)

\* Half a second, or more than one, without input.  It matters only for a queue that
\* waits and for a click that may become a double click.
ShortWait ==
  /\ doubleClick.button # "" /\ ~clickLate /\ clickLate' = TRUE
  /\ UNCHANGED <<script, wire, ends, replyEnds, asked, plainMode, mode, modeChanges, events,
                 byteQueue, dsrSent, late, mouseVars, flags, mouseWindowRect, cut, torn, ripped,
                 base, expected>>
LongWait ==
  /\ byteQueue # <<>> /\ ~late /\ late' = TRUE
  /\ cut => Disturbances < MaxDisturbances
  /\ clickLate' = (clickLate \/ doubleClick.button # "")
  /\ UNCHANGED <<script, wire, ends, replyEnds, asked, plainMode, mode, modeChanges, events,
                 byteQueue, dsrSent, mouseVars, flags, mouseWindowRect, cut, torn, ripped, base,
                 expected>>

\* Mutant of Poll: the time-out scans the queue as if more could come.
PollWaits ==
  LET timedOut == byteQueue # <<>> /\ late
  IN \E done \in {DoWrite(IF timedOut THEN byteQueue ELSE <<>>, FALSE, mode)} :
     /\ flags' = mode /\ mouseWindowRect' = WindowRect
     /\ byteQueue' = IF timedOut THEN done.queue ELSE byteQueue
     /\ Write(done) /\ dsrSent' = done.st.dsrSent
     /\ ripped' = (ripped \/ (timedOut /\ cut))
     /\ UNCHANGED <<script, wire, ends, replyEnds, asked, plainMode, mode, modeChanges, late, cut>>
     /\ Account(torn \/ (timedOut /\ cut))

\* One poll of the agent: updateInputFlags; flushIncompleteEscapeCode, for which the
\* queue is all there is; and, with the scrape, setMouseWindowRect.
Poll ==
  LET timedOut == byteQueue # <<>> /\ late
  IN \E done \in {DoWrite(IF timedOut THEN byteQueue ELSE <<>>, TRUE, mode)} :
     /\ flags' = mode /\ mouseWindowRect' = WindowRect
     /\ byteQueue' = IF timedOut THEN <<>> ELSE byteQueue
     /\ Write(done) /\ dsrSent' = done.st.dsrSent
     /\ ripped' = (ripped \/ (timedOut /\ cut))
     /\ UNCHANGED <<script, wire, ends, replyEnds, asked, plainMode, mode, modeChanges, late, cut>>
     /\ Account(torn \/ (timedOut /\ cut))

Tokens == UNION {ToSet(s) : s \in Scripts}

Next == \/ \E t \in Tokens : Type(t)
        \/ \E r \in DsrReplies : Answer(r)
        \/ \E m \in Modes : SetMode(m)
        \/ \E n \in 1..Len(wire) : n \in 1..MaxPiece \union {Len(wire)} /\ WriteInput(n)
        \/ ShortWait
        \/ LongWait
        \/ Poll

Spec == Init /\ [][Next]_vars

\* Time passes, the agent polls when it is time, and what was sent arrives; nobody need
\* send anything.
FairSpec ==
  /\ Spec /\ WF_vars(LongWait)
  /\ WF_vars(byteQueue # <<>> /\ late /\ Poll)
  /\ WF_vars(wire # <<>> /\ wire' = Tail(wire) /\ WriteInput(1))

-------------------------------------------------------------------------------
TypeOK ==
  /\ byteQueue \in Seq(Byte) /\ wire \in Seq(Byte) /\ ends \subseteq 1..Len(wire)
  /\ replyEnds \subseteq ends /\ asked \in Nat
  /\ {plainMode, dsrSent, late, clickLate, cut, torn, ripped} \subseteq BOOLEAN
  /\ mouseButtonState \subseteq {"left", "middle", "right"}
  /\ base \in 0..Len(events)
  /\ \A e \in ToSet(events) : e.type = "mouse" =>
       \E r \in {WindowRect, [left |-> 0, top |-> 0, width |-> 1, height |-> 1]} :
          e.x \in r.left..(r.left + r.width - 1) /\ e.y \in r.top..(r.top + r.height - 1)

\* The keys a program sees: key-downs that are no modifiers, and in virtual terminal
\* input mode the characters.
Keys ==
  LET IsKey(e) == /\ e.type # "mouse" /\ e.down /\ e.vk \notin Modifiers
                  /\ "escape" \in flags /\ e.type = "key" => e.ch # 0
      seen == SelectSeq(SubSeq(events, base + 1, Len(events)), IsKey)
  IN [i \in 1..Len(seen) |-> Key(seen[i].vk, seen[i].ch, seen[i].mods)]

Expected == FlattenSeq([i \in 1..Len(expected) |-> expected[i]["escape" \in flags]])

\* Every key arrives, once, in order and as the one it is, whatever the pieces its bytes
\* come in and wherever DSR replies come between; keys that bypass the input buffer keep
\* their place.  A time-out in the middle of a key or a change of the input mode damages
\* what is on its way and nothing after it (writeInput, doWrite, flushIncompleteEscapeCode).
\* Replies like ESC [ 1 ; 5 R are not among those typed here: right behind a lone Esc one
\* is read as Alt and a modified F3 (Agent.cc:234-237 asks for a cursor below row 1).
KeysAsTyped ==
  ~torn => /\ IsPrefix(Keys, Expected)
           /\ wire = <<>> /\ byteQueue = <<>> => Keys = Expected

\* m_dsrSent says that one DSR is not yet answered, and while bytes wait one is: a
\* terminal that answers makes no user wait for the time-out.  It is the time-out that
\* can break this, by cutting a reply (writeInput, scanInput).
AnswerOnItsWay ==
  ~plainMode /\ ~ripped =>
    /\ asked + Cardinality(replyEnds) = IF dsrSent THEN 1 ELSE 0
    /\ byteQueue # <<>> => dsrSent

\* No modifier key is left pressed, and what each record says of the modifiers is what
\* the records before it have pressed (appendKeyPress).
ModifiersTrue ==
  LET keys == SelectSeq(events, LAMBDA e : e.type = "key")
      Name(e) == IF e.vk = "CONTROL" THEN "Ctrl" ELSE IF e.vk = "SHIFT" THEN "Shift"
                 ELSE IF "Enhanced" \in e.mods THEN "RAlt" ELSE "LAlt"
      held[i \in 0..Len(keys)] ==
        IF i = 0 THEN {}
        ELSE IF keys[i].vk \notin Modifiers THEN held[i - 1]
        ELSE IF keys[i].down THEN held[i - 1] \union {Name(keys[i])}
        ELSE held[i - 1] \ {Name(keys[i])}
  IN /\ held[Len(keys)] = {}
     /\ \A i \in 1..Len(keys) :
          keys[i].vk # "" => keys[i].mods \ {"Enhanced"} = held[i]

\* What the agent thinks of the mouse buttons is what is held, once all is handled: the
\* last token that moved a button says what (scanMouseInput).
ButtonsFollow ==
  wire = <<>> /\ byteQueue = <<>> /\ ~ripped /\ script # <<>> =>
    mouseButtonState = script[Len(script)].held

\* A double click is the second press of a button at one place, with a release between
\* the two, and is not itself the first half of another (m_doubleClick).
DoubleClickJustified ==
  LET Double(i) == events[i].type = "mouse" /\ "DOUBLE_CLICK" \in events[i].flags
      Same(i, j) == /\ events[j].type = "mouse"
                    /\ \/ events[j].x = events[i].x /\ events[j].y = events[i].y
                       \/ events[j].x = 0 /\ events[j].y = 0      \* before the first scrape
                    /\ events[j].buttons = events[i].buttons /\ "MOVED" \notin events[j].flags
  IN ~ripped /\ modeChanges = 0 =>
       \A i \in 1..Len(events) : Double(i) =>
         \E j \in 1..(i - 1) :
           /\ Same(i, j) /\ ~Double(j)
           /\ \A k \in (j + 1)..(i - 1) : ~Double(k)
           /\ \E k \in (j + 1)..(i - 1) : events[k].buttons # events[i].buttons

\* What programs are told of keys and buttons agrees with itself and with what is held,
\* and what the agent thinks of its question with what the terminal owes.
RecordsTrue == TypeOK /\ AnswerOnItsWay /\ ModifiersTrue /\ ButtonsFollow /\ DoubleClickJustified

\* The map the constructor builds is that of the tables.
InputMapRight == EncodingsUnambiguous /\ TreeIsTheTable

\* What a key becomes for a program in virtual terminal input mode is a sequence the
\* tables know as that key (reencodeEscapedKeyPress against DefaultInputMap.cc).
ReencodingRoundTrips ==
  \A vk \in DOMAIN NumberOf \union DOMAIN LetterOf : \A mods \in SUBSET {"Shift", "LAlt", "Ctrl"} :
    LET s == reencodeEscapedKeyPress(vk, 0, mods)
        found == LookupTable(s)
    IN found.len = Len(s) /\ found.key = Enhance(Key(vk, 0, mods))

\* Nothing waits for ever, whether or not the terminal answers (flushIncompleteEscapeCode).
QueueDrains == byteQueue # <<>> ~> byteQueue = <<>>
===============================================================================
