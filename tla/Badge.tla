-------------------------------- MODULE Badge --------------------------------
(***************************************************************************)
(* The label a badge is printed on (badge-layout.ts and its two emitters,   *)
(* badge-zpl.ts for the PC42d lanes, badge-canvas.ts with badge-tspl.ts for *)
(* the Xprinter), as the rectangles of dots that get ink.  A text is the    *)
(* number of its upper-cased characters, a name the places where its words  *)
(* end; how wide a character is at each size is a parameter.                *)
(***************************************************************************)
EXTENDS Integers, SequencesExt, FiniteSetsExt

CONSTANTS Glyph,   \* dots per character of the name, at each size it may take
          Labels   \* what the station is asked to print

NameSizes == {24, 26, 28, 30, 32, 34, 36, 38}

ASSUME BadgeAssumption ==
    /\ Glyph \in [NameSizes -> Nat]
    /\ \A s, t \in NameSizes : s <= t => Glyph[s] <= Glyph[t]

VARIABLE label   \* [lang, name, role, company, title, qr]: the badge on its way out

(* The geometry ***********************************************************)
Box(x, y, w, h) == [x |-> x, y |-> y, w |-> w, h |-> h]
Within(b, c) == /\ b.x >= c.x /\ b.x + b.w <= c.x + c.w
                /\ b.y >= c.y /\ b.y + b.h <= c.y + c.h
Apart(b, c) == \/ b.x + b.w <= c.x \/ c.x + c.w <= b.x
               \/ b.y + b.h <= c.y \/ c.y + c.h <= b.y
Around(b, n) == Box(b.x - n, b.y - n, b.w + 2 * n, b.h + 2 * n)

Label == Box(0, 0, 480, 320)
Band == Box(0, 10, 480, 76)
QrMag == 5
QrBox == Box(300, 131, 29 * QrMag, 29 * QrMag)
TextLeft == 16
TextWidth == 249
LabelLanguages == {"zpl", "tspl"}
BandMax(lang) == IF lang = "zpl" THEN 50 ELSE 46

(* The role band **********************************************************)
\* A role is [other, printable, name]: whether it was typed, what the printer
\* has of it, and the length of the role's own name.
BandText(r) == IF r.other /\ r.printable > 0 THEN r.printable ELSE r.name

\* floor(448 / (0.62 n)), between 28 and the language's largest.
BandFontSize(n, max) ==
    IF n = 0 THEN max ELSE Max({28, Min({max, 44800 \div (62 * n)})})

(* The name ***************************************************************)
\* Words are joined by one space each; a line is its first and its last word.
WordStart(name, i) == IF i = 1 THEN 0 ELSE name[i - 1] + 1
Names == {name \in Seq(Nat) : /\ \A i \in DOMAIN name : name[i] > 0
                              /\ \A i, j \in DOMAIN name : i < j => name[i] + 1 < name[j]}

Measure(size, name, i, j) == (name[j] - WordStart(name, i)) * Glyph[size]
FitsLine(size, name, i, j) == Measure(size, name, i, j) <= TextWidth

\* Greedy: a line ends where the next word would not fit, or there is none; a
\* word wider than the line stays whole and is reported.
LineEnd(size, name, i) ==
    Min({j \in i..Len(name) : j = Len(name) \/ ~FitsLine(size, name, i, j + 1)})

\* Two lines at most.
Wrap(size, name) ==
    LET first == LineEnd(size, name, 1)
    IN IF name = <<>> THEN <<>>
       ELSE IF first = Len(name) THEN <<<<1, first>>>>
       ELSE <<<<1, first>>, <<first + 1, LineEnd(size, name, first + 1)>>>>

Consumed(lines) == IF lines = <<>> THEN 0 ELSE lines[Len(lines)][2]

\* A plausible bug: a line that is too wide is not an overflow.
OverflowsLines(size, name) == Consumed(Wrap(size, name)) < Len(name)

Overflows(size, name) ==
    LET lines == Wrap(size, name)
    IN \/ Consumed(lines) < Len(name)
       \/ \E k \in DOMAIN lines : ~FitsLine(size, name, lines[k][1], lines[k][2])

\* From 38 down by two until it fits, or at 24 whatever happens.
FitName(name) == Max({s \in NameSizes : ~Overflows(s, name)} \cup {24})

(* The two emitters *******************************************************)
\* A plausible bug: the canvas trusts the shrink and does not clip.
Unclipped(w) == w

\* Ink ends at the column, by ^FB or by the canvas's clip.
Clip(w) == Min({w, TextWidth})

LineHeight(size) == (2 * size * 42 + 38) \div 76

\* The PC42d's name is a block of two lines of 40 dots: ^FB breaks it there, and
\* prints what is left over on top of the second.  Only the canvas shrinks and wraps.
NameInk(l) ==
    IF l.lang = "zpl" THEN {Box(TextLeft, 104, TextWidth, 2 * 40)}
    ELSE LET size == FitName(l.name)
             lines == Wrap(size, l.name)
         IN {Box(TextLeft, 98 + (k - 1) * LineHeight(size),
                 Clip(Measure(size, l.name, lines[k][1], lines[k][2])), size) : k \in DOMAIN lines}

\* company and title: "none", "latin", or "foreign" to the printer's fonts,
\* which drop what they do not have.
Sanitize(text) == IF text = "foreign" THEN "none" ELSE text

LineInk(text, y, size) ==
    IF Sanitize(text) = "latin" THEN {Box(TextLeft, y, TextWidth, size)} ELSE {}

CompanyInk(l) == LineInk(l.company, 196, 26)

\* A title of which nothing can be printed reserves no line.
PrintableJobTitle(l) == Sanitize(l.title)
TitleInk(l) == LineInk(PrintableJobTitle(l), 230, 24)
TextInk(l) == NameInk(l) \cup CompanyInk(l) \cup TitleInk(l)

BandInk(l) ==
    LET size == BandFontSize(BandText(l.role), BandMax(l.lang))
    IN Box(TextLeft, 10 + (76 - size + 1) \div 2, 448, size)

\* qr: the host's length, or 0 without a code.  HTTPS://, host, /C/, 8 characters.
Payload(host) == 8 + host + 3 + 8

\* A host too long for the geometry costs the code, never the badge.
HasQr(l) == l.qr > 0 /\ Payload(l.qr) <= 48

\* The symbol the printer draws: the first version whose level Q holds so many
\* alphanumeric characters, 17 + 4v modules wide (ISO/IEC 18004).
Capacity == <<16, 29, 47, 67, 90>>
Version(n) == CHOOSE v \in DOMAIN Capacity :
                  /\ n <= Capacity[v] /\ \A u \in 1..(v - 1) : n > Capacity[u]
Symbol(l) == LET side == (17 + 4 * Version(Payload(l.qr))) * QrMag
             IN Box(QrBox.x, QrBox.y, side, side)

\* A label's job: the picture, and the symbol when there is a code to draw.
Ink(l) == TextInk(l) \cup {Band} \cup (IF HasQr(l) THEN {Symbol(l)} ELSE {})

(* The picture, packed for TSPL *******************************************)
\* Eight dots to a byte, the leftmost highest, and a zero bit is black.
Weight == <<128, 64, 32, 16, 8, 4, 2, 1>>
Cleared(black, row, col, k) == IF <<8 * col + k - 1, row>> \in black THEN Weight[k] ELSE 0
PackByte(black, row, col) ==
    255 - Cleared(black, row, col, 1) - Cleared(black, row, col, 2)
        - Cleared(black, row, col, 3) - Cleared(black, row, col, 4)
        - Cleared(black, row, col, 5) - Cleared(black, row, col, 6)
        - Cleared(black, row, col, 7) - Cleared(black, row, col, 8)

\* What the printer makes of bit k of the byte.
LeavesInk(byte, k) == (byte \div Weight[k]) % 2 = 0

\* What is packed is what is printed, for any eight dots.
PackingKeepsDots ==
    \A black \in SUBSET {<<x, 3>> : x \in 8..15} : \A k \in 1..8 :
        LeavesInk(PackByte(black, 3, 1), k) <=> <<7 + k, 3>> \in black

Badges == [lang : LabelLanguages, name : Names,
           role : [other : BOOLEAN, printable : Nat, name : Nat \ {0}],
           company : {"none", "latin", "foreign"}, title : {"none", "latin", "foreign"}, qr : Nat]
ASSUME LabelsAssumption == Labels \subseteq Badges

BadgeInit == label \in Labels

(* What must hold *********************************************************)
\* Whatever was typed, in both languages: all ink is on the label, no two
\* elements touch, the role stays inside its band, and nothing but the symbol
\* comes within four modules of it (the column, the clips and the shrinking of
\* badge-layout.ts, badge-zpl.ts and badge-canvas.ts).
LabelIsSafe ==
    LET ink == Ink(label)
    IN /\ \A b \in ink : Within(b, Label)
       /\ \A b, c \in ink : b # c => Apart(b, c)
       /\ Within(BandInk(label), Band)
       /\ HasQr(label) => \A b \in ink \ {Symbol(label)} :
              Apart(b, Around(Symbol(label), 4 * QrMag))

\* The ways to break a name after word k into at most two lines that fit.
Fitting(size, name) ==
    {k \in 0..Len(name) : /\ k > 0 => FitsLine(size, name, 1, k)
                          /\ k < Len(name) => FitsLine(size, name, k + 1, Len(name))}

\* On the canvas of the Xprinter, if any way of breaking the name at any size
\* prints it whole, it is printed whole, at the largest such size (wrapText's
\* greedy lines and fitName's descent lose nothing against all of them), and the
\* picture drawn is the one the printer unpacks (packBitmap).  In both languages a
\* band of up to 25 characters is never blank and never wider than the room for it.
\* Nothing is said of a name on the PC42d: badge-zpl.ts prints it at 40 dots in a
\* block of two lines, whatever its length.
LabelIsWhole ==
    LET sizes == {s \in NameSizes : Fitting(s, label.name) # {}}
        size == FitName(label.name)
        lines == Wrap(size, label.name)
        n == BandText(label.role)
        font == BandFontSize(n, BandMax(label.lang))
    IN /\ label.lang = "tspl" /\ sizes # {} =>
              /\ size = Max(sizes) /\ Consumed(lines) = Len(label.name)
              /\ \A k \in DOMAIN lines :
                    FitsLine(size, label.name, lines[k][1], lines[k][2])
       /\ label.lang = "tspl" => PackingKeepsDots
       /\ n \in 1..25 => 62 * n * font <= 44800
       /\ n > 0

\* badge-zpl.ts:81: "The payload is 48 alphanumeric characters, which at
\* error-correction level Q (25% recovery) is a version-3 symbol: 29 modules",
\* so that the spec's four blank modules stay free on every side.
QrHasQuietZone == HasQr(label) => Within(Around(Symbol(label), 4 * QrMag), Label)
==============================================================================
