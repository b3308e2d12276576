------------------------------- MODULE Ssd1306 -------------------------------
(***************************************************************************)
(* The display driver esp_ssd1306: the buffer of pages and segments it     *)
(* keeps, the memory of the display that it writes over I2C, and the       *)
(* functions of ssd1306.h, each one step.  Any transfer may fail.  With    *)
(* flip the panel is mounted upside down: the columns are turned by the    *)
(* display itself, pages and the bits of a segment by the driver.          *)
(* offset_x is 0, as in the default configurations.  A transfer that fails *)
(* leaves the display as it was.                                           *)
(***************************************************************************)
EXTENDS Ssd1306Shapes, SequencesExt

CONSTANTS
    Points,      \* coordinates tried, some of them off the panel
    Radii,       \* radii of circles tried
    Sizes,       \* widths and heights of rectangles tried
    Bitmaps,     \* bitmaps tried, each the set of the places of its bits
    Texts,       \* texts tried, sequences of characters
    Font,        \* glyphs of the BDF font: character -> [width, top, bits]
    Ranges,      \* ranges of pages or columns that wrap around
    BoxPages,    \* pages with a text box
    Starts,      \* what earlier calls left: buffer, display and scroll range
    MaxCost      \* bound on the calls of a behaviour, see Cheap and Costly

VARIABLES
    handle,      \* what became of the device handle
    flip,        \* config.flip_enabled
    page,        \* the buffer: page -> segment -> lit bits
    ram,         \* the memory of the display, of the same form
    scroll,      \* scroll_enabled, scroll_start, scroll_end
    enabled,     \* config.display_enabled
    moving,      \* the hardware scroll that the display was told
    copy,        \* the caller's buffer of get_pages and set_pages, in blocks
    call,        \* the last call with its arguments
    result,      \* what it returned
    fresh,       \* whether nothing was drawn before the last call
    cost         \* what the calls cost so far (bounded)

vars == <<handle, flip, page, ram, scroll, enabled, moving, copy, call, result, fresh, cost>>

PageNo == 0 .. Pages - 1
Segment == 0 .. Width - 1
Byte == SUBSET (0 .. Rows - 1)
Memory == [PageNo -> [Segment -> Byte]]
NoScroll == [on |-> FALSE, start |-> 0, end |-> 0]

\* A panel has no fewer pages than a uint8_t index can address.
ASSUME DisplayAssumption == MaxCost \in Nat /\ U8 % Width = 0 /\ U8 <= Pages * Width

ASSUME CallsAssumption ==
    /\ Points \subseteq Nat \X Nat /\ Radii \subseteq Nat
    /\ Ranges \subseteq Nat \X Nat /\ BoxPages \subseteq Nat
    /\ Texts \subseteq Seq([0 .. Rows - 1 -> Byte])
    /\ Starts \subseteq [used : BOOLEAN, page : Memory, ram : Memory,
                         scroll : [on : BOOLEAN, start : PageNo, end : PageNo]]

(* ------------------------- Bytes and transfers ------------------------- *)

\* ssd1306_rotate_byte
Rotated(byte) == {Rows - 1 - b : b \in byte}
Upright(byte) == IF flip THEN Rotated(byte) ELSE byte
Inverted(byte) == (0 .. Rows - 1) \ byte

\* The page of the display that a page of the buffer is sent to.
Mirror(p) == IF flip THEN Pages - 1 - p ELSE p

\* Plausible bug: the whole byte is turned around when one bit is set.
PlotTurningBytes(pg, pixels, invert) ==
    [p \in PageNo |-> [s \in Segment |->
        LET bits == {b \in 0 .. Rows - 1 : <<s, p * Rows + b>> \in pixels}
        IN  IF bits = {} THEN pg[p][s]
            ELSE Upright(IF invert THEN pg[p][s] \ bits ELSE pg[p][s] \cup bits)]]

\* ssd1306_set_pixel for each of some pixels of the panel.
Plot(pg, pixels, invert) ==
    [p \in PageNo |-> [s \in Segment |->
        LET bits == Upright({b \in 0 .. Rows - 1 : <<s, p * Rows + b>> \in pixels})
        IN  IF invert THEN pg[p][s] \ bits ELSE pg[p][s] \cup bits]]

Image(p, segment, bytes) == [page |-> p, segment |-> segment, bytes |-> bytes]

\* The images that cover a place.
Covering(images, p, s) ==
    {i \in DOMAIN images : images[i].page = p /\ s - images[i].segment \in DOMAIN images[i].bytes}

\* A memory after images with the numbers in sent, one after the other: each
\* place has the byte of the last image that covers it.  At is the page of
\* the images that goes to a page of the memory.
Written(memory, images, sent, At(_)) ==
    [p \in PageNo |-> [s \in Segment |->
        LET last == Max(Covering(images, At(p), s) \cap sent)
        IN  IF Covering(images, At(p), s) \cap sent = {} THEN memory[p][s]
            ELSE images[last].bytes[s - images[last].segment]]]

\* ssd1306_display_image for each of some images: to the buffer and, if the
\* transfer arrives, to the display.
Kept(pg, images, sent) == Written(pg, images, sent, LAMBDA p : p)
Displayed(memory, images, sent) == Written(memory, images, sent, Mirror)

\* A function that ends at the first transfer that is refused or fails.
Accepted(images) ==
    LET refused == {i \in DOMAIN images : images[i].page >= Pages}
    IN  IF refused = {} THEN Len(images) ELSE Min(refused) - 1

Transfer(pg, images) ==
    \E n \in 0 .. IF handle = "ready" THEN Accepted(images) ELSE 0 :
        /\ page' = Kept(pg, images, 1 .. n)
        /\ ram' = Displayed(ram, images, 1 .. n)
        /\ result' = IF n = Len(images) THEN "OK" ELSE "FAILED"

\* The images of ssd1306_display_pages.
WholePages(pg) == [i \in 1 .. Pages |-> Image(i - 1, 0, pg[i - 1])]

\* What a drawing function does with the buffer it computed.
Leave(pg, show) ==
    IF show THEN Transfer(pg, WholePages(pg))
    ELSE page' = pg /\ result' = "OK" /\ UNCHANGED ram

Refuse == UNCHANGED <<page, ram>> /\ result' = "REFUSED"

Empty == [p \in PageNo |-> [s \in Segment |-> {}]]

\* A call.  Those that are tried with many arguments cost two, the others
\* one: with MaxCost = 2 each of the former is tried in each of Starts, the
\* latter in sequences of two.
Calling(c, price) ==
    /\ cost + price <= MaxCost
    /\ cost' = cost + price
    /\ call' = c
    /\ fresh' = (page = Empty)
    /\ UNCHANGED flip

Settings == <<scroll, enabled, moving, copy>>
Cheap(c) == Calling(c, 1) /\ UNCHANGED <<handle, Settings>>
Costly(c) == Calling(c, 2) /\ UNCHANGED <<handle, Settings>>

\* The blocks of Width bytes that a uint8_t index can address: two.
Block == 0 .. U8 \div Width - 1
BlockOf(p) == ((p * Width) % U8) \div Width

(* ------------------------------ The handle ----------------------------- *)

Init ==
    /\ flip \in BOOLEAN
    /\ \E start \in Starts :
        /\ handle = IF start.used THEN "ready" ELSE "none"
        /\ page = start.page
        /\ ram = start.ram
        /\ scroll = start.scroll
        /\ enabled = start.used
    /\ moving = "no"
    /\ copy = [b \in Block |-> [s \in Segment |-> {}]]
    /\ call = [op |-> "none"]
    /\ result = "OK"
    /\ fresh = TRUE
    /\ cost = 0

\* ssd1306_init: the probe, the device or the set-up may fail; nothing of
\* the handle is left then.  The memory of the display is not cleared.
InitHandle ==
    /\ handle = "none"
    /\ Calling([op |-> "init"], 1)
    /\ \/ /\ handle' = "ready"
          /\ page' = Empty
          /\ scroll' = NoScroll
          /\ enabled' = TRUE
          /\ moving' = "no"
          /\ result' = "OK"
       \/ result' = "FAILED" /\ UNCHANGED <<handle, page, scroll, enabled, moving>>
    /\ UNCHANGED <<ram, copy>>

\* ssd1306_remove takes the device off the bus, once.
RemoveHandle ==
    /\ handle # "none"
    /\ Calling([op |-> "remove"], 1)
    /\ \/ handle' = "removed" /\ result' = "OK"
       \/ handle = "ready" /\ result' = "FAILED" /\ UNCHANGED handle
    /\ UNCHANGED <<page, ram, Settings>>

\* ssd1306_delete frees the handle whether or not it could be removed.
DeleteHandle ==
    /\ handle # "none"
    /\ Calling([op |-> "delete"], 1)
    /\ handle' = "none"
    /\ result' \in IF handle = "ready" THEN {"OK", "FAILED"} ELSE {"OK"}
    /\ UNCHANGED <<page, ram, Settings>>

(* ------------------------------ Commands ------------------------------- *)

\* A call that sends one command; done is what follows when it arrived.
Command(c, done) ==
    /\ Calling(c, 1)
    /\ \/ handle = "ready" /\ result' = "OK" /\ done
       \/ result' = "FAILED" /\ UNCHANGED <<enabled, moving>>
    /\ UNCHANGED <<handle, page, ram, scroll, copy>>

EnableDisplay == handle # "none" /\ Command([op |-> "enable"], enabled' = TRUE /\ UNCHANGED moving)
DisableDisplay == handle # "none" /\ Command([op |-> "disable"], enabled' = FALSE /\ UNCHANGED moving)
SetContrast == handle # "none" /\ Command([op |-> "contrast"], UNCHANGED <<enabled, moving>>)

\* ssd1306_set_hardware_scroll.  No panel is refused: the check compares the
\* panel's size, an enumeration, with a number of pages.
HardwareScroll ==
    /\ handle # "none"
    /\ \E dir \in {"right", "left", "up", "down", "no"} :
        Command([op |-> "hardware_scroll", dir |-> dir], moving' = dir /\ UNCHANGED enabled)

(* --------------------------- Copies of pages --------------------------- *)

\* ssd1306_get_pages and ssd1306_set_pages go through the caller's buffer
\* with an index of type uint8_t: pages that are two apart share a block.
GetPages ==
    /\ handle # "none"
    /\ Calling([op |-> "get_pages"], 1)
    /\ copy' = [b \in Block |-> page[Max({p \in PageNo : BlockOf(p) = b})]]
    /\ result' = "OK"
    /\ UNCHANGED <<handle, page, ram, scroll, enabled, moving>>

SetPages ==
    /\ handle # "none"
    /\ Cheap([op |-> "set_pages"])
    /\ page' = [p \in PageNo |-> copy[BlockOf(p)]]
    /\ result' = "OK"
    /\ UNCHANGED ram

(* ------------------------------- Shapes -------------------------------- *)

Draw(c, pixels) == Costly(c) /\ Leave(Plot(page, OnPanel(pixels), c.invert), c.show)

SetPixel ==
    /\ handle # "none"
    /\ \E p \in Points, inv \in BOOLEAN :
        LET c == [op |-> "pixel", x |-> p[1], y |-> p[2], invert |-> inv, show |-> FALSE]
        IN  IF p \in Panel THEN Draw(c, {p}) ELSE Costly(c) /\ Refuse

SetLine ==
    /\ handle # "none"
    /\ \E p, q \in Points, inv \in BOOLEAN :
        Draw([op |-> "line", x |-> p[1], y |-> p[2], w |-> q[1], h |-> q[2], invert |-> inv,
              show |-> FALSE], Line(p[1], p[2], q[1], q[2]))

SetCircle ==
    /\ handle # "none"
    /\ \E p \in Points, r \in Radii, inv, show \in BOOLEAN :
        Draw([op |-> "circle", x |-> p[1], y |-> p[2], w |-> r, invert |-> inv, show |-> show],
             Circle(p[1], p[2], r))

FillCircle ==
    /\ handle # "none"
    /\ \E p \in Points, r \in Radii, inv \in BOOLEAN :
        Draw([op |-> "disc", x |-> p[1], y |-> p[2], w |-> r, invert |-> inv, show |-> TRUE],
             Disc(p[1], p[2], r))

SetRectangle ==
    /\ handle # "none"
    /\ \E p \in Points, w, h \in Sizes, inv, show \in BOOLEAN :
        LET c == [op |-> "rectangle", x |-> p[1], y |-> p[2], w |-> w, h |-> h,
                  invert |-> inv, show |-> show]
        IN  IF p \in Panel THEN Draw(c, Rectangle(p[1], p[2], w, h)) ELSE Costly(c) /\ Refuse

FillRectangle ==
    /\ handle # "none"
    /\ \E p \in Points, w, h \in Sizes, inv \in BOOLEAN :
        LET c == [op |-> "filled_rectangle", x |-> p[1], y |-> p[2], w |-> w, h |-> h,
                  invert |-> inv, show |-> TRUE]
        IN  IF p \in Panel THEN Draw(c, FilledRectangle(p[1], p[2], w, h)) ELSE Costly(c) /\ Refuse

SetBitmap ==
    /\ handle # "none"
    /\ \E p \in Points, bits \in Bitmaps, inv, show \in BOOLEAN :
        Draw([op |-> "bitmap", x |-> p[1], y |-> p[2], bits |-> bits, invert |-> inv, show |-> show],
             Bitmap(p[1], p[2], bits))

DisplayPages == handle # "none" /\ Cheap([op |-> "pages"]) /\ Leave(page, TRUE)

(* -------------------------------- Texts -------------------------------- *)

Styled(bytes, invert) ==
    [s \in DOMAIN bytes |-> Upright(IF invert THEN Inverted(bytes[s]) ELSE bytes[s])]

\* The images of a text: character by character, and the pieces of each one
\* from its top page downwards.
TextImages(p, text, k, invert) ==
    [i \in 1 .. Len(text) * k |->
        LET nn == (i - 1) \div k
            yy == (i - 1) % k
        IN  Image(p + yy, nn * k * Rows, Styled(Piece(text[nn + 1], k, yy), invert))]

DisplayText ==
    /\ handle # "none"
    /\ \E p \in 0 .. Pages, text \in Texts, k \in 1 .. 3, inv \in BOOLEAN :
        /\ Costly([op |-> "text", page |-> p, text |-> text, size |-> k, invert |-> inv])
        /\ IF p >= Pages \/ Len(text) > TextMax(k)
           THEN Refuse
           ELSE Transfer(page, TextImages(p, text, k, inv))

\* ssd1306_display_image, called with a character.  The caller turns it for
\* a flipped panel, and lets it end on the panel: what is longer would be
\* copied past the page.
DisplayImage ==
    /\ handle # "none"
    /\ \E p \in 0 .. Pages, segment \in 0 .. Width, text \in Texts : \E i \in DOMAIN text :
        /\ segment + Rows <= Width \/ segment = Width
        /\ Costly([op |-> "image", page |-> p, segment |-> segment, glyph |-> text[i]])
        /\ IF p >= Pages \/ segment >= Width
           THEN Refuse
           ELSE Transfer(page, <<Image(p, segment, Styled(text[i], FALSE))>>)

\* ssd1306_clear_display_page for some pages in turn: lines of blanks.
ClearImages(pages, invert) ==
    [i \in 1 .. Len(pages) * TextMax(1) |->
        Image(pages[(i - 1) \div TextMax(1) + 1], ((i - 1) % TextMax(1)) * Rows, Styled(Blank, invert))]

ClearDisplayPage ==
    /\ handle # "none"
    /\ \E p \in 0 .. Pages, inv \in BOOLEAN :
        /\ Cheap([op |-> "clear_page", page |-> p, invert |-> inv])
        /\ IF p >= Pages THEN Refuse ELSE Transfer(page, ClearImages(<<p>>, inv))

ClearDisplay ==
    /\ handle # "none"
    /\ \E inv \in BOOLEAN :
        /\ Cheap([op |-> "clear", invert |-> inv])
        /\ Transfer(page, ClearImages([i \in 1 .. Pages |-> i - 1], inv))

\* ssd1306_display_fadeout: page by page and byte by byte, shifted once more
\* for each row.
FadeImages ==
    [i \in 1 .. Pages * (Rows * Width) |->
        LET line == ((i - 1) % (Rows * Width)) \div Width
            byte == IF flip THEN 0 .. Rows - 2 - line ELSE line + 1 .. Rows - 1
        IN  Image((i - 1) \div (Rows * Width), (i - 1) % Width, [s \in {0} |-> byte])]

Fadeout ==
    /\ handle # "none"
    /\ Costly([op |-> "fadeout"])
    /\ Transfer(page, FadeImages)

(* ------------------------------ Movements ------------------------------ *)

Sideways(pg, start, end, step) ==
    [p \in PageNo |-> IF p \in start .. end
                      THEN [s \in Segment |-> pg[p][(s + step) % Width]]
                      ELSE pg[p]]

\* The bits of a column move by one, the last one into the next page.
UpOrDown(pg, start, end, up) ==
    LET bits(p, s) == Upright(pg[p % Pages][s])
        Up(p, s) == {b - 1 : b \in bits(p, s) \ {0}}
                      \cup (IF 0 \in bits(p + 1, s) THEN {Rows - 1} ELSE {})
        Down(p, s) == {b + 1 : b \in bits(p, s) \ {Rows - 1}}
                        \cup (IF Rows - 1 \in bits(p - 1, s) THEN {0} ELSE {})
    IN  [p \in PageNo |-> [s \in Segment |->
            IF s \in start .. end THEN Upright(IF up THEN Up(p, s) ELSE Down(p, s)) ELSE pg[p][s]]]

\* ssd1306_display_wrap_around, with a negative delay: no display.
WrapAround ==
    /\ handle # "none"
    /\ \E dir \in {"right", "left", "up", "down"}, range \in Ranges, show \in BOOLEAN :
        /\ Cheap([op |-> "wrap_around", dir |-> dir, start |-> range[1], end |-> range[2],
                  show |-> show])
        /\ Leave(CASE dir = "right" -> Sideways(page, range[1], Least(range[2], Pages - 1), -1)
                   [] dir = "left" -> Sideways(page, range[1], Least(range[2], Pages - 1), 1)
                   [] OTHER -> UpOrDown(page, range[1], Least(range[2], Width - 1), dir = "up"),
                 show)

\* Plausible bug: a range that is not on the panel is not refused.
SetSoftwareScrollAnywhere ==
    /\ handle # "none"
    /\ \E start, end \in 0 .. Pages :
        /\ start # end
        /\ Calling([op |-> "set_scroll", start |-> start, end |-> end], 1)
        /\ scroll' = [on |-> TRUE, start |-> start, end |-> end]
        /\ result' = "OK"
        /\ UNCHANGED <<handle, page, ram, enabled, moving, copy>>

\* start = end is left out: the loop of the next function does not meet it.
SetSoftwareScroll ==
    /\ handle # "none"
    /\ \E start, end \in 0 .. Pages :
        /\ start # end
        /\ Calling([op |-> "set_scroll", start |-> start, end |-> end], 1)
        /\ scroll' = IF start < Pages /\ end < Pages
                     THEN [on |-> TRUE, start |-> start, end |-> end]
                     ELSE [scroll EXCEPT !.on = FALSE]
        /\ result' = "OK"
        /\ UNCHANGED <<handle, page, ram, enabled, moving, copy>>

\* The pages of the range from the end backwards.
Backwards ==
    LET dir == IF scroll.start > scroll.end THEN -1 ELSE 1
    IN  [i \in 1 .. Distance(scroll.start, scroll.end) + 1 |-> scroll.end - (i - 1) * dir]

\* ssd1306_display_software_scroll_text: each page is copied in the buffer
\* and shown before the next one is copied; then the text takes the first.
ScrollText ==
    /\ handle # "none"
    /\ \E text \in Texts, inv \in BOOLEAN :
        /\ Cheap([op |-> "scroll_text", page |-> 0, text |-> text, invert |-> inv])
        /\ IF Len(text) > TextMax(1) \/ ~scroll.on
           THEN Refuse
           ELSE LET moves == Len(Backwards) - 1
                    images == [i \in 1 .. moves |-> Image(Backwards[i], 0, page[Backwards[i + 1]])]
                                \o TextImages(scroll.start, text, 1, inv)
                IN  \E n \in 0 .. IF handle = "ready" THEN Len(images) ELSE 0 :
                        /\ page' = Kept(page, images, 1 .. IF n < moves THEN n + 1 ELSE n)
                        /\ ram' = Displayed(ram, images, 1 .. n)
                        /\ result' = IF n = Len(images) THEN "OK" ELSE "FAILED"

ClearSoftwareScroll ==
    /\ handle # "none"
    /\ Cheap([op |-> "clear_scroll"])
    /\ IF scroll.on
       THEN Transfer(page, ClearImages(Backwards, FALSE))
       ELSE Refuse

\* The two text boxes: first fills the box, rest moves in from the right,
\* one column and one transfer at a time.  No transfer is looked at.
Marquee(c, first, rest) ==
    LET box == Len(first) * Rows
        cells == TextImages(c.page, first, 1, c.invert)
        fill == [i \in DOMAIN cells |-> [cells[i] EXCEPT !.segment = @ + c.segment]]
        new == TextImages(c.page, rest, 1, c.invert)
        steps == Len(rest) * Rows
    IN  IF c.page >= Pages \/ c.segment + box > Width
        THEN Refuse
        ELSE \E lost \in SUBSET DOMAIN fill, last \in 0 .. steps :
            LET filled == Kept(page, fill, DOMAIN fill \ lost)
                Box(n) == <<Image(c.page, c.segment, [s \in 0 .. box - 1 |->
                    IF s + n < box THEN filled[c.page][c.segment + s + n]
                    ELSE new[(s + n - box) \div Rows + 1].bytes[(s + n - box) % Rows]])>>
            IN  /\ handle = "ready" \/ (lost = DOMAIN fill /\ last = 0)
                /\ page' = Kept(filled, Box(steps), {1})
                /\ ram' = Displayed(Displayed(ram, fill, DOMAIN fill \ lost), Box(last),
                                    IF last = 0 THEN {} ELSE {1})
                /\ result' = "OK"

\* A text shorter than its box is left out: the function reads behind it.
Banner ==
    /\ handle # "none"
    /\ \E p \in BoxPages, segment \in {0, 1}, text \in Texts, box \in 1 .. 2, inv \in BOOLEAN :
        LET c == [op |-> "banner", page |-> p, segment |-> segment, text |-> text, box |-> box,
                  invert |-> inv]
        IN  /\ Len(text) >= box
            /\ Costly(c)
            /\ Marquee(c, SubSeq(text, 1, box), SubSeq(text, box + 1, Len(text)))

Ticker ==
    /\ handle # "none"
    /\ \E p \in BoxPages, text \in Texts, box \in 1 .. 2 :
        LET c == [op |-> "ticker", page |-> p, segment |-> 1, text |-> text, box |-> box,
                  invert |-> FALSE]
            blanks == [i \in 1 .. box |-> Blank]
        IN  Costly(c) /\ Marquee(c, blanks, text \o blanks)

(* -------------------------------- BDF ---------------------------------- *)

\* The bits of a text in a BDF font: each character has a width and a first
\* row of its own, and a character that the font lacks takes no room.
Layout(text) ==
    LET Add(sofar, ch) ==
            IF ch \notin DOMAIN Font THEN sofar
            ELSE [x |-> sofar.x + Font[ch].width,
                  bits |-> sofar.bits \cup {<<sofar.x + b[1], Font[ch].top + b[2]>> : b \in Font[ch].bits}]
    IN  FoldLeft(Add, [x |-> 0, bits |-> {}], text).bits

DisplayBdfText ==
    /\ handle # "none"
    /\ \E p \in Points, text \in [1 .. 2 -> DOMAIN Font \cup {"unknown"}] :
        Draw([op |-> "bitmap", x |-> p[1], y |-> p[2], bits |-> Layout(text), invert |-> FALSE,
              show |-> TRUE], Bitmap(p[1], p[2], Layout(text)))

\* ssd1306_display_bdf_code does not look at what showing the bitmap returns.
DisplayBdfCode ==
    /\ handle # "none"
    /\ \E p \in Points, ch \in DOMAIN Font \cup {"unknown"} :
        LET bits == Layout(<<ch>>)
            pg == Plot(page, Bitmap(p[1], p[2], bits), FALSE)
        IN  /\ Costly([op |-> "code", x |-> p[1], y |-> p[2], bits |-> bits,
                         known |-> ch \in DOMAIN Font])
            /\ IF ch \notin DOMAIN Font
               THEN UNCHANGED <<page, ram>> /\ result' = "FAILED"
               ELSE /\ page' = pg
                    /\ result' = "OK"
                    /\ \E n \in 0 .. IF handle = "ready" THEN Pages ELSE 0 :
                        ram' = Displayed(ram, WholePages(pg), 1 .. n)

(* -------------------------------- Spec --------------------------------- *)

Next ==
    \/ InitHandle \/ RemoveHandle \/ DeleteHandle
    \/ EnableDisplay \/ DisableDisplay \/ SetContrast \/ HardwareScroll
    \/ GetPages \/ SetPages
    \/ SetPixel \/ SetLine \/ SetCircle \/ FillCircle \/ SetRectangle \/ FillRectangle
    \/ SetBitmap \/ DisplayPages
    \/ DisplayText \/ DisplayImage \/ ClearDisplayPage \/ ClearDisplay \/ Fadeout \/ WrapAround
    \/ SetSoftwareScroll \/ ScrollText \/ ClearSoftwareScroll \/ Banner \/ Ticker
    \/ DisplayBdfText \/ DisplayBdfCode

Spec == Init /\ [][Next]_vars

(* ----------------------------- Properties ------------------------------ *)

\* Every byte of the buffer and of the display exists, on every page, and
\* the pages that scroll are pages of the panel (ssd1306_set_software_scroll).
TypeOK ==
    /\ handle \in {"none", "ready", "removed"}
    /\ flip \in BOOLEAN
    /\ page \in Memory /\ ram \in Memory
    /\ scroll \in [on : BOOLEAN, start : PageNo, end : PageNo]
    /\ enabled \in BOOLEAN
    /\ moving \in {"right", "left", "up", "down", "no"}
    /\ copy \in [Block -> [Segment -> Byte]]
    /\ result \in {"OK", "FAILED", "REFUSED"}
    /\ fresh \in BOOLEAN /\ cost \in 0 .. MaxCost

\* The pixels of the buffer, and those that a person sees who looks at the
\* display, which hangs upside down when it is flipped.
Picture ==
    {q \in Panel : q[2] % Rows \in Upright(page[q[2] \div Rows][q[1]])}
Shown ==
    {q \in Panel : LET seen == IF flip THEN Height - 1 - q[2] ELSE q[2]
                   IN  seen % Rows \in ram[seen \div Rows][q[1]]}

Canvas == INSTANCE Ssd1306Canvas WITH picture <- Picture, shown <- Shown

\* Whatever the calls, whichever transfer fails and however the panel is
\* mounted: what is drawn and what is seen are what Ssd1306Canvas says.  A
\* call that returns ESP_OK has shown all that it was to show, except for
\* ssd1306_display_bdf_code and the two text boxes: they do not look at
\* their transfers, and nothing is said of their results.  Nothing is said
\* either of what ssd1306_set_pages draws: its uint8_t index loses pages,
\* and what ssd1306.h:312-328 says of it does not hold.
ImplementsCanvas == Canvas!Spec

\* A shape was drawn on an empty buffer.
FirstShape(op) == call.op = op /\ fresh /\ ~call.invert

\* On the circle of radius r to the nearest pixel.
OnRing(dx, dy, r) ==
    LET a == Least(Distance(dx, 0), Distance(dy, 0))
        b == Greatest(Distance(dx, 0), Distance(dy, 0))
    IN  (b = 0 \/ b * b - b < r * r - a * a) /\ r * r - a * a <= b * b + b

\* A line joins its ends without a gap, one pixel thick and nowhere further
\* than half a pixel from the straight line (ssd1306_set_line).
LineIsStraight ==
    FirstShape("line") =>
        LET x0 == Clamped(call.x, Width)   x1 == Clamped(call.w, Width)
            y0 == Clamped(call.y, Height)  y1 == Clamped(call.h, Height)
            long == Greatest(Distance(x0, x1), Distance(y0, y1))
        IN  /\ {<<x0, y0>>, <<x1, y1>>} \subseteq Picture
            /\ Cardinality(Picture) = long + 1
            /\ \A q \in Picture :
                /\ q[1] \in Least(x0, x1) .. Greatest(x0, x1)
                /\ q[2] \in Least(y0, y1) .. Greatest(y0, y1)
                /\ 2 * Distance((q[1] - x0) * (y1 - y0), (q[2] - y0) * (x1 - x0)) <= long

\* A circle has the pixels nearest to it, as far as they are on the panel
\* (ssd1306_set_circle), unless its coordinates pass U8 and begin again at 0;
\* a disc that does not reach past the left or upper edge has those inside
\* too (ssd1306_display_filled_circle).
CircleIsRound ==
    /\ FirstShape("circle") /\ call.w + Greatest(Width, Height) <= U8
         /\ call.x + call.w < U8 /\ call.y + call.w < U8 =>
        Picture = {q \in Panel : OnRing(q[1] - call.x, q[2] - call.y, call.w)}
    /\ FirstShape("disc") /\ <<call.x, call.y>> \in Panel /\ call.w <= Least(call.x, call.y) =>
        Picture = {q \in Panel : \E dx \in Distance(q[1], call.x) .. call.w :
                                    OnRing(dx, q[2] - call.y, call.w)}
==============================================================================
