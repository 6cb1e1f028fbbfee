----------------------------- MODULE ConsoleFont -----------------------------
(* agent/ConsoleFont.cc: a window is never larger than the desktop, nor, in    *)
(* pixels, narrower than a minimum; so the agent looks for the smallest font    *)
(* that makes the wanted number of columns wide enough.                        *)
EXTENDS Integers, Sequences, FiniteSetsExt

MinPixels == 160

\* Heights and widths of the fonts in pixels.
kLucidaFontSizes == <<<<5, 3>>, <<6, 4>>, <<8, 5>>, <<10, 6>>, <<12, 7>>, <<14, 8>>, <<16, 10>>,
                      <<18, 11>>, <<20, 12>>, <<36, 22>>, <<48, 29>>, <<60, 36>>, <<72, 43>>>>
k932GothicVista == <<<<6, 3>>, <<8, 4>>, <<10, 5>>, <<12, 6>>, <<13, 7>>, <<15, 8>>, <<17, 9>>,
                     <<19, 10>>, <<21, 11>>>>
ExtraLarge == <<<<36, 18>>, <<48, 24>>, <<60, 30>>, <<72, 36>>>>
k932GothicWin8 == <<<<5, 3>>, <<7, 4>>, <<9, 5>>, <<11, 6>>, <<13, 7>>, <<15, 8>>, <<17, 9>>,
                    <<20, 10>>, <<22, 11>>, <<24, 12>>>> \o ExtraLarge
k932GothicWin10 == <<<<6, 3>>, <<8, 4>>, <<10, 5>>, <<12, 6>>, <<14, 7>>, <<16, 8>>, <<18, 9>>,
                     <<20, 10>>, <<22, 11>>, <<24, 12>>>> \o ExtraLarge

\* The face and the sizes for a code page.
FaceOf(codePage, isNewW10, windows8) ==
  CASE codePage = 932 -> [name |-> "MSGothic", sizes |-> IF isNewW10 THEN k932GothicWin10
                                                        ELSE IF windows8 THEN k932GothicWin8
                                                        ELSE k932GothicVista]
    [] codePage = 936 -> [name |-> "NSimSun", sizes |-> k932GothicWin10]
    [] codePage = 949 -> [name |-> "GulimChe", sizes |-> k932GothicWin10]
    [] codePage = 950 -> [name |-> "MingLight", sizes |-> k932GothicWin10]
    [] OTHER -> [name |-> "LucidaConsole", sizes |-> kLucidaFontSizes]

MaxInt(a, b) == Max({a, b})
MinInt(a, b) == Min({a, b})

HalfColumns(columns) == MinInt(columns, MaxInt(40, columns \div 2))

\* Mutant of Roomy: half of the columns is not looked at.
RoomyWhole(width, columns) == width * columns >= MinPixels

Roomy(width, columns) == width * HalfColumns(columns) >= MinPixels

\* The smallest font of the best group there is: those that fit the columns and half of
\* them, those that fit the columns.  If there is none, the largest.
selectSmallFont(codePage, columns, isNewW10, windows8) ==
  LET face == FaceOf(codePage, isNewW10, windows8)
      widths == {face.sizes[i][2] : i \in 1..Len(face.sizes)}
      wide == {w \in widths : w * columns >= MinPixels}
      roomy == {w \in wide : Roomy(w, columns)}
  IN [face |-> face.name,
      width |-> IF roomy # {} THEN Min(roomy) ELSE IF wide # {} THEN Min(wide) ELSE Max(widths)]

EastAsian == {932, 936, 949, 950}

\* setSmallFontVista, on a console that accepts the faces `accepted` only: the font, or
\* the one there was.
SmallFontVista(old, codePage, columns, isNewW10, windows8, accepted) ==
  LET font == selectSmallFont(codePage, columns, isNewW10, windows8)
      fallback == selectSmallFont(0, columns, isNewW10, windows8)
  IN IF font.face \in accepted THEN font.width
     ELSE IF codePage \in EastAsian /\ fallback.face \in accepted THEN fallback.width
     ELSE old

\* setSmallFontXP: the fonts in the order of their sizes, narrow ones skipped, until one
\* is set.  A font is [x, y, sets].  Equal ones come in any order.
SmallFontsXP(old, fonts) ==
  LET usable == {f \in fonts : f.x >= 4 /\ f.sets}
      smallest == {f \in usable : \A g \in usable : f.x + f.y <= g.x + g.y}
  IN IF usable = {} THEN {old} ELSE {f.x : f \in smallest}

\* setSmallFont: the cell widths it may leave.
setSmallFont(old, api, codePage, columns, isNewW10, windows8, accepted, fonts) ==
  CASE api = "Vista" -> {SmallFontVista(old, codePage, columns, isNewW10, windows8, accepted)}
    [] api = "XP" -> SmallFontsXP(old, fonts)
    [] OTHER -> {old}

(****************************** what is checked *****************************)
\* For every code page, version of Windows and number of columns: wide enough if the
\* table has such a font; from 80 columns on half of them still fit; and more columns never
\* mean a larger font (selectSmallFont, whose score changes between 40 and 80 columns).
FontsChosenWell ==
  \A codePage \in EastAsian \union {437}, new \in BOOLEAN, w8 \in BOOLEAN :
    LET width == [c \in 1..330 |-> selectSmallFont(codePage, c, new, w8).width]
        widest == [i \in DOMAIN FaceOf(codePage, new, w8).sizes |->
                     FaceOf(codePage, new, w8).sizes[i][2]]
    IN \A c \in 2..330 :
         /\ (\E i \in DOMAIN widest : widest[i] * c >= MinPixels) => width[c] * c >= MinPixels
         /\ c >= 80 => width[c] * (c \div 2) >= MinPixels
         /\ width[c] <= width[c - 1]
==============================================================================
