---------------------------- MODULE Ssd1306Canvas ----------------------------
(***************************************************************************)
(* What the display driver promises, in the pixels of the person who looks *)
(* at the panel: pages, bytes, transfers and the flipped mounting of the   *)
(* panel do not occur.  picture is what was drawn, shown what is seen.     *)
(* A call that returns OK has shown all that it was to show, and one that  *)
(* fails some of it, the first transfers.  Two things are left open: what  *)
(* set_pages draws, and whether a glyph and the text boxes were seen       *)
(* whole, of which the results of these calls say nothing.                 *)
(***************************************************************************)
EXTENDS Ssd1306Shapes, Sequences

VARIABLES
    picture,   \* the pixels drawn
    shown,     \* the pixels lit on the panel
    scroll,    \* the range of pages that scrolls, if any
    enabled,   \* whether the panel is on
    moving,    \* how the display itself moves its picture
    call,      \* the last call with its arguments
    result     \* what it returned

vars == <<picture, shown, scroll, enabled, moving, call, result>>

PageAt(q) == q[2] \div Rows
NoScroll == [on |-> FALSE, start |-> 0, end |-> 0]

\* In the places T what goal has, elsewhere what pixels has.
Over(pixels, T, goal) == (pixels \ T) \cup (goal \cap T)
Drawn(pixels, invert) == IF invert THEN picture \ pixels ELSE picture \cup pixels

Keep == UNCHANGED <<picture, shown>>
Returns(done) == result' = IF done THEN "OK" ELSE "FAILED"
SaysNothing == result' \in {"OK", "FAILED"}

(* ------------------- Drawing, and showing all pages -------------------- *)

Draw(goal) == picture' = goal /\ UNCHANGED shown /\ result' = "OK"

\* The pages are shown from the top downwards.
DrawAndShow(goal) ==
    /\ picture' = goal
    /\ \E n \in 0 .. Pages :
        /\ shown' = Over(shown, {q \in Panel : PageAt(q) < n}, goal)
        /\ Returns(n = Pages)

Refuse == Keep /\ result' = "REFUSED"

\* A character anywhere on one page, as the person sees it.
Image(c) ==
    LET Box == {q \in Panel : PageAt(q) = c.page /\ q[1] - c.segment \in 0 .. Rows - 1}
        goal == {q \in Box : q[2] % Rows \in c.glyph[q[1] - c.segment]}
    IN  IF c.page >= Pages \/ c.segment >= Width
        THEN Refuse
        ELSE \/ Keep /\ result' = "FAILED"
             \/ /\ picture' = Over(picture, Box, goal)
                /\ shown' = Over(shown, Box, goal)
                /\ result' = "OK"

(* --------------- Texts: drawn and shown cell by cell ------------------- *)

\* The characters of a text, k times as large, side by side from column 0
\* of a page on.
Lit(c, k) ==
    {q \in Panel :
        LET i == q[1] \div (k * Rows) + 1
            row == (q[2] - c.page * Rows) \div k
        IN  /\ i <= Len(c.text) /\ PageAt(q) >= c.page
            /\ (row \in c.text[i][(q[1] % (k * Rows)) \div k]) # c.invert}

\* Cells are the pieces of characters that lie in one page.
CellAt(q, page, k) == (q[1] \div (k * Rows)) * k + PageAt(q) - page

\* A text that does not fit the panel fails at its first cell below it.
Text(c, k) ==
    LET cells == Len(c.text) * k
        fit == IF c.page + k > Pages THEN Least(cells, Pages - c.page) ELSE cells
    IN  IF c.page >= Pages \/ Len(c.text) > TextMax(k)
        THEN Refuse
        ELSE \E n \in 0 .. fit :
                LET T == {q \in Panel : /\ PageAt(q) \in c.page .. c.page + k - 1
                                        /\ CellAt(q, c.page, k) < n}
                IN  /\ picture' = Over(picture, T, Lit(c, k))
                    /\ shown' = Over(shown, T, Lit(c, k))
                    /\ Returns(n = cells)

\* Pages cleared one after the other, each from the left to the right; at
\* gives the place of a page in this order.
Clear(count, at(_), isIn(_), invert) ==
    \E n \in 0 .. count * TextMax(1) :
        LET T == {q \in Panel : /\ isIn(PageAt(q))
                                /\ q[1] \div Rows < TextMax(1)
                                /\ at(PageAt(q)) * TextMax(1) + q[1] \div Rows < n}
            goal == IF invert THEN Panel ELSE {}
        IN  /\ picture' = Over(picture, T, goal)
            /\ shown' = Over(shown, T, goal)
            /\ Returns(n = count * TextMax(1))

\* Fading: row after row of a page goes dark, column after column.
Fade ==
    \E n \in 0 .. Pages * Rows * Width :
        LET perPage == Rows * Width
            Dark(q) == LET m == n - PageAt(q) * perPage
                       IN  IF m <= 0 THEN 0
                           ELSE Least(Rows, m \div Width + IF q[1] < m % Width THEN 1 ELSE 0)
            T == {q \in Panel : Dark(q) > 0}
            goal == {q \in Panel : q[2] % Rows >= Dark(q)}
        IN  /\ picture' = Over(picture, T, goal)
            /\ shown' = Over(shown, T, goal)
            /\ Returns(n = Pages * perPage)

(* ------------------------------ Movements ------------------------------ *)

\* ssd1306_display_wrap_around: pages turn sideways, or columns up and down.
Turned(c) ==
    LET inPages(q) == PageAt(q) \in c.start .. c.end
        inColumns(q) == q[1] \in c.start .. c.end
        From(q) == CASE c.dir = "right" /\ inPages(q) -> <<(q[1] - 1) % Width, q[2]>>
                     [] c.dir = "left" /\ inPages(q) -> <<(q[1] + 1) % Width, q[2]>>
                     [] c.dir = "up" /\ inColumns(q) -> <<q[1], (q[2] + 1) % Height>>
                     [] c.dir = "down" /\ inColumns(q) -> <<q[1], (q[2] - 1) % Height>>
                     [] OTHER -> q
    IN  {q \in Panel : From(q) \in picture}

\* Scrolling: from the end of the range on, each page takes over the page
\* before it, then the text enters at the start.
ScrollText(c) ==
    LET dir == IF scroll.start > scroll.end THEN -1 ELSE 1
        moves == Distance(scroll.start, scroll.end)
        Among(q, n) == \E t \in 0 .. n - 1 : PageAt(q) = scroll.end - t * dir
        moved == {q \in Panel : <<q[1], q[2] - dir * Rows>> \in picture}
        text == [c EXCEPT !.page = scroll.start]
    IN  IF Len(c.text) > TextMax(1) \/ ~scroll.on
        THEN Refuse
        ELSE \E n \in 0 .. moves + Len(c.text) :
                LET T(k) == {q \in Panel : Among(q, Least(k, moves))}
                    S == {q \in Panel : /\ PageAt(q) = scroll.start
                                        /\ q[1] \div Rows < n - moves}
                IN  /\ picture' = Over(Over(picture, T(n + 1), moved), S, Lit(text, 1))
                    /\ shown' = Over(Over(shown, T(n), moved), S, Lit(text, 1))
                    /\ Returns(n = moves + Len(c.text))

\* A text moves through a box from the right to the left, column by column.
\* Any character of the first may be missed, and the panel may stop at any
\* column.
Marquee(c, first, rest) ==
    LET box == Len(first) * Rows
        J == Len(rest) * Rows
        inBox(q) == PageAt(q) = c.page /\ q[1] \in c.segment .. c.segment + box - 1
        Column(glyphs, i) == glyphs[i \div Rows + 1][i % Rows]
        Bright(glyphs, i, q) == (q[2] % Rows \in Column(glyphs, i)) # c.invert
    IN  IF c.page >= Pages \/ c.segment + box > Width
        THEN Refuse
        ELSE
        \E lost \in SUBSET (1 .. Len(first)), last \in 0 .. J :
        LET Got(q) == (q[1] - c.segment) \div Rows + 1 \notin lost
            start(pixels) == {q \in Panel : IF inBox(q) /\ Got(q)
                                            THEN Bright(first, q[1] - c.segment, q)
                                            ELSE q \in pixels}
            after(pixels, j) ==
                {q \in Panel :
                    IF ~inBox(q) THEN q \in pixels
                    ELSE LET i == q[1] - c.segment + j
                         IN  IF i < box THEN <<q[1] + j, q[2]>> \in start(picture)
                             ELSE Bright(rest, i - box, q)}
        IN  /\ picture' = after(picture, J)
            /\ shown' = IF last = 0 THEN start(shown) ELSE after(shown, last)
            /\ SaysNothing

(* ------------------------------ All calls ------------------------------ *)

Pixels(c) ==
    CASE c.op = "line" -> Line(c.x, c.y, c.w, c.h)
      [] c.op = "circle" -> Circle(c.x, c.y, c.w)
      [] c.op = "disc" -> Disc(c.x, c.y, c.w)
      [] c.op = "rectangle" -> Rectangle(c.x, c.y, c.w, c.h)
      [] c.op = "filled_rectangle" -> FilledRectangle(c.x, c.y, c.w, c.h)
      [] OTHER -> {<<c.x, c.y>>}

Shape(c) ==
    LET goal == Drawn(OnPanel(Pixels(c)), c.invert)
    IN  IF c.op \in {"pixel", "rectangle", "filled_rectangle"} /\ <<c.x, c.y>> \notin Panel
        THEN Refuse
        ELSE IF c.show THEN DrawAndShow(goal) ELSE Draw(goal)

Step(c) ==
    \/ /\ c.op = "init"
       /\ \/ picture' = {} /\ UNCHANGED shown /\ result' = "OK"
          \/ Keep /\ result' = "FAILED"
    \/ c.op \in {"enable", "disable", "contrast", "hardware_scroll", "remove", "delete"}
         /\ Keep /\ result' \in {"OK", "FAILED"}
    \/ c.op = "get_pages" /\ Keep /\ result' = "OK"
    \/ c.op = "set_pages" /\ picture' \subseteq Panel /\ UNCHANGED shown /\ result' = "OK"
    \/ c.op \in {"pixel", "line", "circle", "disc", "rectangle", "filled_rectangle"} /\ Shape(c)
    \/ c.op = "bitmap" /\ LET goal == Drawn(Bitmap(c.x, c.y, c.bits), c.invert)
                          IN  IF c.show THEN DrawAndShow(goal) ELSE Draw(goal)
    \/ /\ c.op = "code"
       /\ IF c.known
          THEN /\ picture' = picture \cup Bitmap(c.x, c.y, c.bits)
               /\ \E n \in 0 .. Pages :
                    shown' = Over(shown, {q \in Panel : PageAt(q) < n}, picture')
               /\ SaysNothing
          ELSE Keep /\ result' = "FAILED"
    \/ c.op = "pages" /\ DrawAndShow(picture)
    \/ c.op = "text" /\ Text(c, c.size)
    \/ c.op = "image" /\ Image(c)
    \/ c.op = "clear" /\ LET at(p) == p  isIn(p) == TRUE IN Clear(Pages, at, isIn, c.invert)
    \/ c.op = "clear_page" /\
        IF c.page >= Pages
        THEN Refuse
        ELSE LET at(p) == 0  isIn(p) == p = c.page IN Clear(1, at, isIn, c.invert)
    \/ c.op = "fadeout" /\ Fade
    \/ /\ c.op = "wrap_around"
       /\ IF c.show THEN DrawAndShow(Turned(c)) ELSE Draw(Turned(c))
    \/ c.op = "set_scroll" /\ Keep /\ result' = "OK"
    \/ c.op = "scroll_text" /\ ScrollText(c)
    \/ c.op = "clear_scroll" /\
        IF scroll.on
        THEN LET at(p) == Distance(scroll.end, p)
                 isIn(p) == p \in Least(scroll.start, scroll.end) .. Greatest(scroll.start, scroll.end)
             IN  Clear(Distance(scroll.start, scroll.end) + 1, at, isIn, FALSE)
        ELSE Refuse
    \/ c.op = "banner" /\ Marquee(c, SubSeq(c.text, 1, c.box), SubSeq(c.text, c.box + 1, Len(c.text)))
    \/ c.op = "ticker" /\ LET blanks == [i \in 1 .. c.box |-> Blank]
                          IN  Marquee(c, blanks, c.text \o blanks)

Init ==
    /\ picture \subseteq Panel /\ shown \subseteq Panel /\ result = "OK"
    /\ moving = "no"

Next ==
    /\ Step(call')
    /\ scroll' = CASE call'.op = "init" /\ result' = "OK" -> NoScroll
                   [] call'.op = "set_scroll" ->
                        IF call'.start < Pages /\ call'.end < Pages
                        THEN [on |-> TRUE, start |-> call'.start, end |-> call'.end]
                        ELSE [scroll EXCEPT !.on = FALSE]
                   [] OTHER -> scroll
    /\ enabled' = IF result' # "OK" THEN enabled
                  ELSE (call'.op \in {"init", "enable"} \/ enabled) /\ call'.op # "disable"
    /\ moving' = CASE result' = "OK" /\ call'.op = "init" -> "no"
                   [] result' = "OK" /\ call'.op = "hardware_scroll" -> call'.dir
                   [] OTHER -> moving

Spec == Init /\ [][Next]_vars
==============================================================================
