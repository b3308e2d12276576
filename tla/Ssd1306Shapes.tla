---------------------------- MODULE Ssd1306Shapes ----------------------------
(***************************************************************************)
(* The pixels that the drawing functions of ssd1306.c touch, and the       *)
(* glyphs of its text functions.  A panel has Pages pages of Rows rows;    *)
(* a pixel is a pair of its column and its row, as the caller sees them,   *)
(* that is, before a flipped display turns the rows of a page around.      *)
(* Coordinates arrive in parameters of type uint8_t.                       *)
(***************************************************************************)
EXTENDS Integers, FiniteSets

CONSTANTS
    Width,       \* columns of the panel: 128
    Pages,       \* pages of the panel: 4, 8 or 16
    Rows,        \* bits of a segment, and columns of a character: 8
    U8           \* values of a uint8_t: 256

ASSUME ShapesAssumption ==
    /\ Width \in Nat \ {0} /\ Pages \in Nat \ {0} /\ Rows \in Nat \ {0}
    /\ U8 \in Nat /\ U8 >= 2 * Width /\ U8 >= Width + Pages * Rows

Height == Pages * Rows
Panel == (0 .. Width - 1) \X (0 .. Height - 1)

\* The value of an integer as a uint8_t argument.
Arg(n) == n % U8

Least(a, b) == IF a < b THEN a ELSE b
Greatest(a, b) == IF a < b THEN b ELSE a
Distance(a, b) == IF a < b THEN b - a ELSE a - b

\* A coordinate past the end becomes the last one.
Clamped(v, size) == Least(v, size - 1)

\* A coordinate that set_pixel does not refuse.
OnPanel(pixels) == pixels \cap Panel

(* ------------------------------- Lines --------------------------------- *)

\* Plausible bug: steps are decided as in textbooks that double the error,
\* but the error is not doubled.
ObliqueUndoubled(x0, y0, x1, y1) ==
    LET dx == Distance(x0, x1)
        dy == Distance(y0, y1)
        sx == IF x0 < x1 THEN 1 ELSE -1
        sy == IF y0 < y1 THEN 1 ELSE -1
        Walk[s \in Int \X Int \X Int] ==
            LET inX == s[3] > -dy /\ s[1] # x1
                inY == s[3] < dx /\ s[2] # y1
            IN  {<<s[1], s[2]>>} \cup
                IF s[1] = x1 /\ s[2] = y1
                THEN {}
                ELSE Walk[<<IF inX THEN s[1] + sx ELSE s[1],
                            IF inY THEN s[2] + sy ELSE s[2],
                            s[3] - (IF inX THEN dy ELSE 0) + (IF inY THEN dx ELSE 0)>>]
    IN  Walk[<<x0, y0, dx - dy>>]

\* One pass of the loop of ssd1306_set_line for oblique lines, which has
\* <<x, y, err>>.
LineStep(s, dx, dy, sx, sy) ==
    LET inX == s[3] > -dx
        inY == s[3] < dy
    IN  <<IF inX THEN s[1] + sx ELSE s[1],
          IF inY THEN s[2] + sy ELSE s[2],
          s[3] - (IF inX THEN dy ELSE 0) + (IF inY THEN dx ELSE 0)>>

\* The loop; division of a negative number rounds towards zero in C.
Oblique(x0, y0, x1, y1) ==
    LET dx == Distance(x0, x1)
        dy == Distance(y0, y1)
        sx == IF x0 < x1 THEN 1 ELSE -1
        sy == IF y0 < y1 THEN 1 ELSE -1
        Walk[s \in Int \X Int \X Int] ==
            {<<s[1], s[2]>>} \cup
            IF s[1] = x1 /\ s[2] = y1 THEN {} ELSE Walk[LineStep(s, dx, dy, sx, sy)]
    IN  Walk[<<x0, y0, IF dx > dy THEN dx \div 2 ELSE -(dy \div 2)>>]

\* ssd1306_set_line: both ends are moved onto the panel first.
Line(xa, ya, xb, yb) ==
    LET x0 == Clamped(xa, Width)   x1 == Clamped(xb, Width)
        y0 == Clamped(ya, Height)  y1 == Clamped(yb, Height)
    IN  IF x0 = x1 \/ y0 = y1
        THEN (Least(x0, x1) .. Greatest(x0, x1)) \X (Least(y0, y1) .. Greatest(y0, y1))
        ELSE Oblique(x0, y0, x1, y1)

(* ------------------------------ Circles -------------------------------- *)

\* One pass of the loop of ssd1306_set_circle, which has <<x, y, f>>: ddF_x
\* and ddF_y are 2x + 1 and -2y throughout.
CircleStep(s) ==
    LET down == IF s[3] >= 0 THEN 1 ELSE 0
        y == s[2] - down
    IN  <<s[1] + 1, y, s[3] - down * (2 * y) + 2 * (s[1] + 1) + 1>>

\* Plausible bug: f starts at 1 instead of 1 - r.
OctantFromOne(r) ==
    LET Walk[s \in Int \X Int \X Int] ==
            {<<s[1], s[2]>>} \cup IF s[1] < s[2] THEN Walk[CircleStep(s)] ELSE {}
    IN  Walk[<<0, r, 1>>]

\* The points <<x, y>> of one octant.
Octant(r) ==
    LET Walk[s \in Int \X Int \X Int] ==
            {<<s[1], s[2]>>} \cup IF s[1] < s[2] THEN Walk[CircleStep(s)] ELSE {}
    IN  Walk[<<0, r, 1 - r>>]

\* The eight points around the centre that a point of the octant stands for.
Mirrored(d) == {<<sx * d[1], sy * d[2]>> : sx, sy \in {-1, 1}}
                 \cup {<<sx * d[2], sy * d[1]>> : sx, sy \in {-1, 1}}

\* ssd1306_set_circle: what lies off the panel is refused by set_pixel, as
\* long as the uint8_t arguments do not wrap around back onto the panel.
Circle(x0, y0, r) ==
    OnPanel({<<Arg(x0 + d[1]), Arg(y0 + d[2])>> : d \in UNION {Mirrored(o) : o \in Octant(r)}})

\* ssd1306_display_filled_circle: one line for each pair of mirrored points,
\* whose ends set_line moves onto the panel.
Disc(x0, y0, r) ==
    LET Chord(dx, dy) == Line(Arg(x0 - dx), Arg(y0 + dy), Arg(x0 + dx), Arg(y0 + dy))
        chords == {<<r, 0>>} \cup
                  UNION {{<<o[1], o[2]>>, <<o[1], -o[2]>>, <<o[2], o[1]>>, <<o[2], -o[1]>>}
                            : o \in Octant(r) \ {<<0, r>>}}
    IN  OnPanel({<<Arg(x0 + d[1]), Arg(y0 + d[2])>> : d \in Mirrored(<<0, r>>)})
          \cup UNION {Chord(c[1], c[2]) : c \in chords}

(* ----------------------------- Rectangles ------------------------------ *)

\* A width or height that reaches the edge is cut to what is left.
Extent(at, length, size) == IF at + length >= size THEN size - at ELSE length

\* ssd1306_set_rectangle
Rectangle(x, y, w0, h0) ==
    LET w == Extent(x, w0, Width)
        h == Extent(y, h0, Height)
    IN  Line(x, y, x + w, y) \cup Line(x, y + h, x + w, y + h)
          \cup Line(x, y, x, y + h) \cup Line(x + w, y, x + w, y + h)

\* ssd1306_display_filled_rectangle
FilledRectangle(x, y, w0, h0) ==
    LET w == Extent(x, w0, Width)
    IN  UNION {Line(x, y + i, x + w, y + i) : i \in 0 .. Extent(y, h0, Height)}

\* ssd1306_set_bitmap, of the set of the places of its bits.
Bitmap(x, y, bits) == OnPanel({<<Arg(x + b[1]), Arg(y + b[2])>> : b \in bits})

(* ------------------------------- Glyphs -------------------------------- *)

\* A character of the font is a function from its columns to the rows that
\* are lit.  Piece number yy of the character made k times as large has
\* k * Rows columns of one page (text, text_x2, text_x3).
Piece(glyph, k, yy) ==
    [s \in 0 .. k * Rows - 1 |->
        {j \in 0 .. Rows - 1 : (yy * Rows + j) \div k \in glyph[s \div k]}]

\* The most characters of a text: 16, 8 and 5 of a panel of 128 columns.
TextMax(k) == Width \div (k * Rows)

Blank == [s \in 0 .. Rows - 1 |-> {}]
==============================================================================
