---------------------------- MODULE MCConsoleResize ---------------------------
(* ConsoleResize for TLC: consoles old and new, with fonts of their own or none. *)
EXTENDS ConsoleResize

MCSizes == {[cols |-> 5, rows |-> 3], [cols |-> 100, rows |-> 2], [cols |-> 100, rows |-> 9],
            [cols |-> 500, rows |-> 5]}
MCStartSizes == {[cols |-> 100, rows |-> 3], [cols |-> 5, rows |-> 2], [cols |-> 500, rows |-> 9]}
MCMonitor == [pixels |-> 1280, rows |-> 6]

Normal == [bufX |-> 80, bufY |-> 10, top |-> 0, w |-> 80, h |-> 4, cur |-> 2, font |-> 8, marker |-> -1]
OneCell == [bufX |-> 80, bufY |-> 10, top |-> 0, w |-> 1, h |-> 1, cur |-> 0, font |-> 8, marker |-> -1]
ManyFonts == {"MSGothic", "LucidaConsole"}
Console(new, windows8, api, codePage, accepted, start) ==
  [new |-> new, windows8 |-> windows8, api |-> api, codePage |-> codePage, accepted |-> accepted,
   start |-> start, fonts |-> {[x |-> 3, y |-> 5, sets |-> TRUE], [x |-> 4, y |-> 6, sets |-> FALSE],
                               [x |-> 5, y |-> 8, sets |-> TRUE], [x |-> 8, y |-> 12, sets |-> TRUE]}]
MCConsoles ==
  [xp     |-> Console(FALSE, FALSE, "XP", 437, {}, Normal),
   vista  |-> Console(FALSE, FALSE, "Vista", 932, ManyFonts, OneCell),
   old8   |-> Console(FALSE, TRUE, "Vista", 936, ManyFonts, OneCell),
   new10  |-> Console(TRUE, TRUE, "Vista", 437, ManyFonts, Normal),
   noFont |-> Console(TRUE, TRUE, "Vista", 949, {}, Normal)]
===============================================================================
