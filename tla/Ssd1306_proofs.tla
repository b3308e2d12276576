---------------------------- MODULE Ssd1306_proofs ----------------------------
(***************************************************************************)
(* The display driver implements the canvas, for every panel mounted       *)
(* either way, every argument and whichever transfers fail.                *)
(* What its loops draw is a straight line, a circle, a disc.               *)
(***************************************************************************)
EXTENDS Ssd1306, SequenceTheorems, FiniteSetTheorems, NaturalsInduction,
        WellFoundedInduction, TLAPS

-----------------------------------------------------------------------------
(* Division by a number that is not known, and the end of a finite set.    *)

LEMMA DivMod ==
    ASSUME NEW a \in Int, NEW d \in Nat \ {0}
    PROVE  \E q \in Int, r \in 0 .. d - 1 : a = d * q + r /\ q = a \div d /\ r = a % d
OBVIOUS

LEMMA DivUnique ==
    ASSUME NEW d \in Nat \ {0}, NEW q \in Int, NEW r \in 0 .. d - 1
    PROVE  (d * q + r) \div d = q /\ (d * q + r) % d = r
OBVIOUS

LEMMA Product ==
    ASSUME NEW a \in Int, NEW b \in Int, NEW d \in Nat, a <= b
    PROVE  d * a <= d * b
OBVIOUS

\* A product of quotients: below a multiple of d, the quotient is below too.
LEMMA QuotientBelow ==
    ASSUME NEW d \in Nat \ {0}, NEW q \in Int, NEW r \in 0 .. d - 1, NEW m \in Int
    PROVE  d * q + r < d * m <=> q < m
<1>1. q < m => d * q + r < d * m
  <2> SUFFICES ASSUME q < m PROVE d * q + r < d * m
    OBVIOUS
  <2>1. PICK k \in Nat : m = q + 1 + k
    <3>1. m - q - 1 \in Nat /\ m = q + 1 + (m - q - 1)
      OBVIOUS
    <3> QED
      BY <3>1
  <2>2. d * m = d * q + d + d * k /\ d * k \in Nat
    BY <2>1
  <2> QED
    BY <2>2
<1>2. q >= m => d * q + r >= d * m
  <2> SUFFICES ASSUME q >= m PROVE d * q + r >= d * m
    OBVIOUS
  <2>1. PICK k \in Nat : q = m + k
    <3>1. q - m \in Nat /\ q = m + (q - m)
      OBVIOUS
    <3> QED
      BY <3>1
  <2>2. d * q = d * m + d * k /\ d * k \in Nat
    BY <2>1
  <2> QED
    BY <2>2
<1> QED
  BY <1>1, <1>2

LEMMA LessOnNat ==
    ASSUME NEW x \in Nat, NEW y \in Nat, y < x
    PROVE  <<y, x>> \in OpToRel(<, Nat)
BY Zenon DEF OpToRel

LEMMA LeastOf ==
    ASSUME NEW S \in SUBSET Nat, S # {}
    PROVE  Min(S) \in S /\ \A x \in S : Min(S) <= x
<1>1. PICK x \in S : \A y \in S : ~(<<y, x>> \in OpToRel(<, Nat))
  BY Zenon, NatLessThanWellFounded, WFMin
<1>2. \A y \in S : ~(y < x)
  BY Zenon, <1>1, LessOnNat
<1>3. \A y \in S : x <= y
  BY <1>2
<1> QED
  BY <1>3, Zenon DEF Min

LEMMA GreatestOf ==
    ASSUME NEW n \in Nat, NEW S \in SUBSET (1 .. n), S # {}
    PROVE  Max(S) \in S /\ \A x \in S : x <= Max(S)
<1> DEFINE D == {n - x : x \in S}
<1>1. \A x \in S : n - x \in Nat /\ n - x \in D
  OBVIOUS
<1>2. D \in SUBSET Nat
  BY <1>1, Zenon
<1>3. D # {}
  BY <1>1, Zenon
<1>4. Min(D) \in D /\ \A x \in D : Min(D) <= x
  BY <1>2, <1>3, LeastOf
<1>5. PICK x \in S : Min(D) = n - x
  BY <1>4
<1>6. \A y \in S : n - x <= n - y
  BY <1>4, <1>5
<1>7. \A y \in S : x >= y
  BY <1>6
<1> QED
  BY <1>5, <1>7 DEF Max

-----------------------------------------------------------------------------
(* Pixels and bits.                                                        *)

\* The bit of a byte that has row b of its page.
Bit(b) == IF flip THEN Rows - 1 - b ELSE b

\* A display whose pages are turned around.
Facing(memory) == [p \in PageNo |-> memory[Mirror(p)]]

\* The pixels of a buffer, as a person sees them.
Seen(memory) == {q \in Panel : Bit(q[2] % Rows) \in memory[Canvas!PageAt(q)][q[1]]}

LEMMA PanelSizes ==
    /\ Width \in Nat \ {0} /\ Pages \in Nat \ {0} /\ Rows \in Nat \ {0}
    /\ Pages * Rows \in Nat /\ Pages * Rows = Rows * Pages
BY ShapesAssumption

LEMMA PixelOnPage ==
    ASSUME NEW q \in Panel
    PROVE  /\ q[1] \in Segment /\ q[2] \in 0 .. Height - 1 /\ q = <<q[1], q[2]>>
           /\ Canvas!PageAt(q) \in PageNo /\ q[2] % Rows \in 0 .. Rows - 1
           /\ q[2] = Rows * Canvas!PageAt(q) + (q[2] % Rows)
<1>1. q[1] \in Segment /\ q[2] \in Nat /\ q[2] < Rows * Pages /\ q = <<q[1], q[2]>>
  BY PanelSizes DEF Panel, Segment, Height
<1>2. PICK p \in Int, b \in 0 .. Rows - 1 :
          q[2] = Rows * p + b /\ p = q[2] \div Rows /\ b = q[2] % Rows
  BY <1>1, PanelSizes, DivMod
<1>3. p < Pages /\ 0 < p + 1
  <2>1. Rows * p + b < Rows * Pages
    BY <1>1, <1>2
  <2>2. Rows * (-1) + (Rows - 1) < Rows * p + b
    BY <1>1, <1>2, PanelSizes
  <2>3. p < Pages
    BY <2>1, PanelSizes, QuotientBelow
  <2>4. ~(p < 0)
    <3>1. p < 0 => Rows * p + b < Rows * 0
      BY PanelSizes, QuotientBelow
    <3>2. Rows * 0 = 0 /\ Rows * p + b >= 0
      BY <1>1, <1>2, PanelSizes
    <3> QED
      BY <3>1, <3>2, PanelSizes
  <2> QED
    BY <2>3, <2>4, PanelSizes
<1>4. p \in PageNo
  BY <1>3, PanelSizes DEF PageNo
<1>5. q[2] \in 0 .. Height - 1
  BY <1>1, PanelSizes DEF Height
<1> QED
  BY <1>1, <1>2, <1>4, <1>5 DEF Canvas!PageAt

LEMMA PageOfPixel ==
    ASSUME NEW p \in PageNo, NEW b \in 0 .. Rows - 1, NEW s \in Segment
    PROVE  /\ <<s, p * Rows + b>> \in Panel
           /\ (p * Rows + b) \div Rows = p /\ (p * Rows + b) % Rows = b
<1>1. p \in Nat /\ p < Pages /\ p * Rows = Rows * p
  BY PanelSizes DEF PageNo
<1>2. (Rows * p + b) \div Rows = p /\ (Rows * p + b) % Rows = b
  BY <1>1, PanelSizes, DivUnique
<1>3. Rows * p + b < Rows * Pages
  BY <1>1, PanelSizes, QuotientBelow
<1>4. Rows * p \in Nat
  BY <1>1, PanelSizes
<1>5. p * Rows + b \in 0 .. Height - 1
  BY <1>1, <1>3, <1>4, PanelSizes DEF Height
<1> QED
  BY <1>1, <1>2, <1>5 DEF Panel, Segment

LEMMA UprightBits ==
    ASSUME flip \in BOOLEAN, NEW byte \in Byte
    PROVE  /\ Upright(byte) \in Byte
           /\ \A b \in 0 .. Rows - 1 :
                  /\ Bit(b) \in 0 .. Rows - 1 /\ Bit(Bit(b)) = b
                  /\ b \in Upright(byte) <=> Bit(b) \in byte
<1>1. CASE flip
  BY <1>1, PanelSizes DEF Byte, Upright, Rotated, Bit
<1>2. CASE ~flip
  BY <1>2, PanelSizes DEF Byte, Upright, Bit
<1> QED
  BY <1>1, <1>2

LEMMA MirrorPages ==
    ASSUME flip \in BOOLEAN, NEW p \in PageNo
    PROVE  Mirror(p) \in PageNo /\ Mirror(Mirror(p)) = p
BY PanelSizes DEF Mirror, PageNo

LEMMA FacingMemory ==
    ASSUME flip \in BOOLEAN, NEW memory \in Memory
    PROVE  Facing(memory) \in Memory
BY MirrorPages DEF Facing, Memory

\* What the refinement mapping calls picture and shown.
LEMMA PictureIsSeen ==
    ASSUME flip \in BOOLEAN, page \in Memory
    PROVE  Picture = Seen(page)
<1> SUFFICES ASSUME NEW q \in Panel
             PROVE  q[2] % Rows \in Upright(page[q[2] \div Rows][q[1]])
                       <=> Bit(q[2] % Rows) \in page[Canvas!PageAt(q)][q[1]]
  BY DEF Picture, Seen
<1>1. page[Canvas!PageAt(q)][q[1]] \in Byte /\ q[2] % Rows \in 0 .. Rows - 1
  BY PixelOnPage DEF Memory
<1>2. q[2] % Rows \in Upright(page[Canvas!PageAt(q)][q[1]])
          <=> Bit(q[2] % Rows) \in page[Canvas!PageAt(q)][q[1]]
  BY <1>1, UprightBits, Zenon
<1> QED
  BY <1>2 DEF Canvas!PageAt

LEMMA ShownIsSeen ==
    ASSUME flip \in BOOLEAN, ram \in Memory
    PROVE  Shown = Seen(Facing(ram))
<1> SUFFICES ASSUME NEW q \in Panel
             PROVE  (LET seen == IF flip THEN Height - 1 - q[2] ELSE q[2]
                     IN  seen % Rows \in ram[seen \div Rows][q[1]])
                       <=> Bit(q[2] % Rows) \in Facing(ram)[Canvas!PageAt(q)][q[1]]
  BY DEF Shown, Seen
<1> DEFINE p == Canvas!PageAt(q)
           b == q[2] % Rows
<1>1. p \in PageNo /\ b \in 0 .. Rows - 1 /\ q[2] = Rows * p + b /\ p = q[2] \div Rows
  BY PixelOnPage DEF Canvas!PageAt
<1> HIDE DEF p, b
<1>2. Facing(ram)[p] = ram[Mirror(p)]
  BY <1>1 DEF Facing
<1>3. CASE flip
  <2>1. Height - 1 - q[2] = (Pages - 1 - p) * Rows + (Rows - 1 - b)
    <3>1. (Pages - 1 - p) * Rows = Rows * Pages - Rows - Rows * p
      <4>1. p \in Int /\ Pages \in Int /\ Rows \in Int
        BY <1>1, PanelSizes DEF PageNo
      <4> QED
        BY <4>1
    <3>2. Rows * p \in Int /\ Rows * Pages \in Int /\ Height = Rows * Pages
      BY <1>1, PanelSizes DEF PageNo, Height
    <3>3. Height - 1 - q[2] = Rows * Pages - 1 - (Rows * p + b)
      BY <1>1, <3>2
    <3> QED
      BY <1>1, <3>1, <3>2, <3>3, PanelSizes DEF PageNo
  <2>2. Pages - 1 - p \in PageNo /\ Rows - 1 - b \in 0 .. Rows - 1
    BY <1>1, PanelSizes DEF PageNo
  <2>3. /\ (Height - 1 - q[2]) \div Rows = Pages - 1 - p
        /\ (Height - 1 - q[2]) % Rows = Rows - 1 - b
    BY <2>1, <2>2, PixelOnPage, PageOfPixel
  <2> QED
    BY <1>2, <1>3, <2>3 DEF Bit, Mirror, p, b
<1>4. CASE ~flip
  BY <1>1, <1>2, <1>4 DEF Bit, Mirror, p, b
<1> QED
  BY <1>3, <1>4

-----------------------------------------------------------------------------
(* Images that arrive.                                                     *)

\* Images number 1 to n, of bytes.
ImagesOK(images, n) ==
    /\ n \in Nat /\ DOMAIN images = 1 .. n /\ images = [i \in 1 .. n |-> images[i]]
    /\ \A i \in 1 .. n : \A s \in DOMAIN images[i].bytes : images[i].bytes[s] \in Byte

LEMMA LastCovering ==
    ASSUME NEW images, NEW n, ImagesOK(images, n), NEW sent, NEW p, NEW s,
           Covering(images, p, s) \cap sent # {}
    PROVE  /\ Max(Covering(images, p, s) \cap sent) \in Covering(images, p, s) \cap sent
           /\ Max(Covering(images, p, s) \cap sent) \in 1 .. n
           /\ \A i \in Covering(images, p, s) \cap sent : i <= Max(Covering(images, p, s) \cap sent)
           /\ images[Max(Covering(images, p, s) \cap sent)].bytes
                [s - images[Max(Covering(images, p, s) \cap sent)].segment] \in Byte
<1> DEFINE S == Covering(images, p, s) \cap sent
           last == Max(S)
<1>1. S \in SUBSET (1 .. n) /\ n \in Nat
  BY DEF ImagesOK, Covering
<1>2. last \in S /\ \A i \in S : i <= last
  BY <1>1, GreatestOf
<1>3. images[last].bytes[s - images[last].segment] \in Byte
  BY <1>1, <1>2 DEF ImagesOK, Covering
<1> QED
  BY <1>1, <1>2, <1>3

LEMMA KeptMemory ==
    ASSUME NEW memory \in Memory, NEW images, NEW n, ImagesOK(images, n), NEW sent
    PROVE  Kept(memory, images, sent) \in Memory
<1> SUFFICES ASSUME NEW p \in PageNo, NEW s \in Segment
             PROVE  (IF Covering(images, p, s) \cap sent = {} THEN memory[p][s]
                     ELSE images[Max(Covering(images, p, s) \cap sent)].bytes
                            [s - images[Max(Covering(images, p, s) \cap sent)].segment]) \in Byte
  BY DEF Kept, Written, Memory
<1>1. CASE Covering(images, p, s) \cap sent = {}
  BY <1>1 DEF Memory
<1>2. CASE Covering(images, p, s) \cap sent # {}
  BY <1>2, LastCovering, Zenon
<1> QED
  BY <1>1, <1>2

LEMMA FacingDisplayed ==
    ASSUME flip \in BOOLEAN, NEW memory \in Memory, NEW images, NEW n, ImagesOK(images, n), NEW sent
    PROVE  /\ Facing(Displayed(memory, images, sent)) = Kept(Facing(memory), images, sent)
           /\ Displayed(memory, images, sent) \in Memory
<1> DEFINE At(m, p, s, from) ==
        LET last == Max(Covering(images, from, s) \cap sent)
        IN  IF Covering(images, from, s) \cap sent = {} THEN m[p][s]
            ELSE images[last].bytes[s - images[last].segment]
<1>1. Displayed(memory, images, sent) =
          [p \in PageNo |-> [s \in Segment |-> At(memory, p, s, Mirror(p))]]
  BY DEF Displayed, Written
<1>2. Kept(Facing(memory), images, sent) =
          [p \in PageNo |-> [s \in Segment |-> At(Facing(memory), p, s, p)]]
  BY DEF Kept, Written
<1>3. ASSUME NEW p \in PageNo, NEW s \in Segment
      PROVE  At(memory, Mirror(p), s, Mirror(Mirror(p))) = At(Facing(memory), p, s, p)
  BY MirrorPages, Zenon DEF Facing
<1>4. ASSUME NEW p \in PageNo, NEW s \in Segment
      PROVE  At(memory, p, s, Mirror(p)) \in Byte
  <2>1. CASE Covering(images, Mirror(p), s) \cap sent = {}
    BY <2>1 DEF Memory
  <2>2. CASE Covering(images, Mirror(p), s) \cap sent # {}
    BY <2>2, LastCovering, Zenon
  <2> QED
    BY <2>1, <2>2
<1> HIDE DEF At
<1>5. ASSUME NEW p \in PageNo
      PROVE  Facing(Displayed(memory, images, sent))[p] = Kept(Facing(memory), images, sent)[p]
  <2>1. Facing(Displayed(memory, images, sent))[p] =
            [s \in Segment |-> At(memory, Mirror(p), s, Mirror(Mirror(p)))]
    BY <1>1, MirrorPages DEF Facing
  <2>2. Kept(Facing(memory), images, sent)[p] = [s \in Segment |-> At(Facing(memory), p, s, p)]
    BY <1>2
  <2> QED
    BY <1>3, <2>1, <2>2
<1>6. Displayed(memory, images, sent) \in Memory
  BY <1>1, <1>4 DEF Memory
<1>7. /\ Facing(Displayed(memory, images, sent)) =
            [p \in PageNo |-> Facing(Displayed(memory, images, sent))[p]]
      /\ Kept(Facing(memory), images, sent) =
            [p \in PageNo |-> Kept(Facing(memory), images, sent)[p]]
  BY <1>2 DEF Facing
<1> QED
  BY <1>5, <1>6, <1>7

\* The images that are sent cover the pixels T, where the last one of those
\* that cover a pixel has what goal says.
LastSays(images, sent, T, goal) ==
    \A q \in Panel :
        LET by == Covering(images, Canvas!PageAt(q), q[1]) \cap sent
            last == Max(by)
        IN  /\ q \in T <=> by # {}
            /\ by # {} => (q \in goal <=>
                  Bit(q[2] % Rows) \in images[last].bytes[q[1] - images[last].segment])

\* What is seen once they have arrived.
LEMMA Landed ==
    ASSUME flip \in BOOLEAN, NEW memory \in Memory, NEW images, NEW n, ImagesOK(images, n),
           NEW sent, NEW T \in SUBSET Panel, NEW goal, LastSays(images, sent, T, goal)
    PROVE  Seen(Kept(memory, images, sent)) = Canvas!Over(Seen(memory), T, goal)
<1> SUFFICES ASSUME NEW q \in Panel
             PROVE  q \in Seen(Kept(memory, images, sent)) <=> q \in Canvas!Over(Seen(memory), T, goal)
  BY DEF Seen, Canvas!Over
<1> DEFINE by == Covering(images, Canvas!PageAt(q), q[1]) \cap sent
           there == images[Max(by)].bytes[q[1] - images[Max(by)].segment]
<1>1. Kept(memory, images, sent)[Canvas!PageAt(q)][q[1]] =
          IF by = {} THEN memory[Canvas!PageAt(q)][q[1]] ELSE there
  BY PixelOnPage DEF Kept, Written
<1>2. /\ q \in T <=> by # {}
      /\ by # {} => (q \in goal <=> Bit(q[2] % Rows) \in there)
  BY DEF LastSays
<1> HIDE DEF by, there
<1> QED
  BY <1>1, <1>2 DEF Seen, Canvas!Over

-----------------------------------------------------------------------------
(* The images and buffers of the functions are of bytes.                   *)

LEMMA LenOfList ==
    ASSUME NEW n \in Nat, NEW f, DOMAIN f = 1 .. n, f = [i \in 1 .. n |-> f[i]]
    PROVE  Len(f) = n
<1>1. f \in Seq({f[i] : i \in 1 .. n})
  <2>1. f \in [1 .. n -> {f[i] : i \in 1 .. n}]
    OBVIOUS
  <2> QED
    BY <2>1, SeqDef
<1> QED
  BY <1>1, LenProperties

LEMMA TextMaxType ==
    ASSUME NEW k \in 1 .. 3
    PROVE  TextMax(k) \in Nat /\ (k * Rows) * TextMax(k) <= Width /\ k * Rows \in Nat \ {0}
<1> DEFINE d == k * Rows
<1>1. d \in Nat \ {0} /\ Width \in Nat
  BY PanelSizes
<1> HIDE DEF d
<1>2. PICK q \in Int, r \in 0 .. d - 1 : Width = d * q + r /\ q = Width \div d
  BY <1>1, DivMod
<1>3. d * q <= Width
  BY <1>1, <1>2
<1>4. ~(q < 0)
  <2>1. q < 0 => d * q + r < d * 0
    BY <1>1, <1>2, QuotientBelow
  <2>2. d * 0 = 0
    BY <1>1
  <2> QED
    BY <1>1, <1>2, <2>1, <2>2
<1> QED
  BY <1>1, <1>2, <1>3, <1>4 DEF TextMax, d

LEMMA StyledBytes ==
    ASSUME flip \in BOOLEAN, NEW bytes, NEW invert,
           \A s \in DOMAIN bytes : bytes[s] \in Byte
    PROVE  /\ DOMAIN Styled(bytes, invert) = DOMAIN bytes
           /\ \A s \in DOMAIN bytes : Styled(bytes, invert)[s] \in Byte
<1>1. \A s \in DOMAIN bytes : (IF invert THEN Inverted(bytes[s]) ELSE bytes[s]) \in Byte
  BY DEF Inverted, Byte
<1> QED
  BY <1>1, UprightBits DEF Styled

LEMMA WholePagesOK ==
    ASSUME NEW memory \in Memory
    PROVE  ImagesOK(WholePages(memory), Pages) /\ Len(WholePages(memory)) = Pages
<1>1. /\ Pages \in Nat /\ DOMAIN WholePages(memory) = 1 .. Pages
      /\ \A i \in 1 .. Pages : WholePages(memory)[i] = Image(i - 1, 0, memory[i - 1])
      /\ WholePages(memory) = [i \in 1 .. Pages |-> WholePages(memory)[i]]
  BY PanelSizes DEF WholePages
<1>2. \A i \in 1 .. Pages : i - 1 \in PageNo
  BY PanelSizes DEF PageNo
<1> QED
  BY <1>1, <1>2, LenOfList DEF ImagesOK, Image, Memory

LEMMA TextImagesOK ==
    ASSUME flip \in BOOLEAN, NEW p, NEW text, Len(text) \in Nat, NEW k \in 1 .. 3, NEW invert
    PROVE  /\ ImagesOK(TextImages(p, text, k, invert), Len(text) * k)
           /\ Len(TextImages(p, text, k, invert)) = Len(text) * k
<1> DEFINE images == TextImages(p, text, k, invert)
           n == Len(text) * k
           bytes(i) == Styled(Piece(text[(i - 1) \div k + 1], k, (i - 1) % k), invert)
<1>1. /\ n \in Nat /\ DOMAIN images = 1 .. n
      /\ images = [i \in 1 .. n |-> images[i]]
      /\ \A i \in 1 .. n : images[i] = Image(p + ((i - 1) % k), ((i - 1) \div k) * k * Rows, bytes(i))
  BY DEF TextImages
<1>2. \A i \in 1 .. n : \A s \in DOMAIN bytes(i) : bytes(i)[s] \in Byte
  <2> SUFFICES ASSUME NEW i \in 1 .. n
               PROVE  \A s \in DOMAIN bytes(i) : bytes(i)[s] \in Byte
    OBVIOUS
  <2> DEFINE piece == Piece(text[(i - 1) \div k + 1], k, (i - 1) % k)
  <2>1. \A s \in DOMAIN piece : piece[s] \in Byte
    BY DEF Piece, Byte
  <2> HIDE DEF piece
  <2>2. \A s \in DOMAIN Styled(piece, invert) : Styled(piece, invert)[s] \in Byte
    BY <2>1, StyledBytes
  <2> QED
    BY <2>2 DEF piece
<1> HIDE DEF bytes
<1> QED
  BY <1>1, <1>2, LenOfList DEF ImagesOK, Image

LEMMA ClearImagesOK ==
    ASSUME flip \in BOOLEAN, NEW pages, Len(pages) \in Nat, NEW invert
    PROVE  /\ ImagesOK(ClearImages(pages, invert), Len(pages) * TextMax(1))
           /\ Len(ClearImages(pages, invert)) = Len(pages) * TextMax(1)
<1> DEFINE images == ClearImages(pages, invert)
           n == Len(pages) * TextMax(1)
<1>1. TextMax(1) \in Nat
  BY TextMaxType
<1>2. /\ n \in Nat /\ DOMAIN images = 1 .. n
      /\ images = [i \in 1 .. n |-> images[i]]
      /\ \A i \in 1 .. n : images[i].bytes = Styled(Blank, invert)
  BY <1>1 DEF ClearImages, Image
<1>3. \A s \in DOMAIN Styled(Blank, invert) : Styled(Blank, invert)[s] \in Byte
  <2>1. \A s \in DOMAIN Blank : Blank[s] \in Byte
    BY DEF Blank, Byte
  <2> QED
    BY <2>1, StyledBytes
<1> QED
  BY <1>2, <1>3, LenOfList DEF ImagesOK

LEMMA FadeImagesOK ==
    ASSUME flip \in BOOLEAN
    PROVE  /\ ImagesOK(FadeImages, Pages * (Rows * Width))
           /\ Len(FadeImages) = Pages * (Rows * Width)
<1> DEFINE n == Pages * (Rows * Width)
           line(i) == ((i - 1) % (Rows * Width)) \div Width
           byte(i) == IF flip THEN 0 .. Rows - 2 - line(i) ELSE line(i) + 1 .. Rows - 1
<1>1. n \in Nat /\ Rows * Width \in Nat \ {0}
  BY PanelSizes
<1>2. /\ DOMAIN FadeImages = 1 .. n
      /\ FadeImages = [i \in 1 .. n |-> FadeImages[i]]
      /\ \A i \in 1 .. n : FadeImages[i].bytes = [s \in {0} |-> byte(i)]
  BY DEF FadeImages, Image
<1>3. ASSUME NEW i \in 1 .. n
      PROVE  byte(i) \in Byte
  <2>1. (i - 1) % (Rows * Width) \in Nat
    BY <1>1, DivMod
  <2>2. line(i) \in Nat
    BY <2>1, PanelSizes, DivMod
  <2> HIDE DEF line
  <2> QED
    BY <2>2, PanelSizes DEF Byte
<1> HIDE DEF byte
<1> QED
  BY ZenonT(30), <1>1, <1>2, <1>3, LenOfList DEF ImagesOK

LEMMA PlotMemory ==
    ASSUME flip \in BOOLEAN, NEW memory \in Memory, NEW pixels, NEW invert
    PROVE  Plot(memory, pixels, invert) \in Memory
<1> SUFFICES ASSUME NEW p \in PageNo, NEW s \in Segment
             PROVE  LET bits == Upright({b \in 0 .. Rows - 1 : <<s, p * Rows + b>> \in pixels})
                    IN  (IF invert THEN memory[p][s] \ bits ELSE memory[p][s] \cup bits) \in Byte
  BY DEF Plot, Memory
<1> DEFINE row == {b \in 0 .. Rows - 1 : <<s, p * Rows + b>> \in pixels}
<1>1. row \in Byte /\ memory[p][s] \in Byte
  BY DEF Byte, Memory
<1> HIDE DEF row
<1>2. Upright(row) \in Byte
  BY <1>1, UprightBits
<1> QED
  BY <1>1, <1>2 DEF Byte, row

LEMMA SidewaysMemory ==
    ASSUME NEW memory \in Memory, NEW start, NEW end, NEW step \in Int
    PROVE  Sideways(memory, start, end, step) \in Memory
<1>1. \A s \in Segment : (s + step) % Width \in Segment
  BY PanelSizes DEF Segment
<1> QED
  BY <1>1 DEF Sideways, Memory

LEMMA UpOrDownMemory ==
    ASSUME flip \in BOOLEAN, NEW memory \in Memory, NEW start, NEW end, NEW up \in BOOLEAN
    PROVE  UpOrDown(memory, start, end, up) \in Memory
<1> DEFINE bits(p, s) == Upright(memory[p % Pages][s])
           Up(p, s) == {b - 1 : b \in bits(p, s) \ {0}}
                         \cup (IF 0 \in bits(p + 1, s) THEN {Rows - 1} ELSE {})
           Down(p, s) == {b + 1 : b \in bits(p, s) \ {Rows - 1}}
                           \cup (IF Rows - 1 \in bits(p - 1, s) THEN {0} ELSE {})
           there(p, s) == IF s \in start .. end THEN Upright(IF up THEN Up(p, s) ELSE Down(p, s))
                          ELSE memory[p][s]
<1>1. ASSUME NEW p \in PageNo, NEW s \in Segment
      PROVE  there(p, s) \in Byte
  <2>1. p % Pages \in PageNo /\ p \in Int
    BY PanelSizes DEF PageNo
  <2>2. bits(p, s) \in Byte
    BY <2>1, UprightBits DEF Memory
  <2> HIDE DEF bits
  <2>3. Up(p, s) \in Byte /\ Down(p, s) \in Byte
    BY <2>2, PanelSizes DEF Byte
  <2> HIDE DEF Up, Down
  <2>4. Upright(IF up THEN Up(p, s) ELSE Down(p, s)) \in Byte
    BY <2>3, UprightBits
  <2> QED
    BY <2>4 DEF Memory
<1>2. UpOrDown(memory, start, end, up) = [p \in PageNo |-> [s \in Segment |-> there(p, s)]]
  BY DEF UpOrDown
<1> HIDE DEF there
<1> QED
  BY <1>1, <1>2 DEF Memory

-----------------------------------------------------------------------------
(* Type correctness.                                                       *)

LEMMA TransferMemory ==
    ASSUME flip \in BOOLEAN, NEW pg \in Memory, ram \in Memory,
           NEW images, NEW n, ImagesOK(images, n), Transfer(pg, images)
    PROVE  page' \in Memory /\ ram' \in Memory /\ result' \in {"OK", "FAILED"}
<1>1. PICK k : /\ page' = Kept(pg, images, 1 .. k)
               /\ ram' = Displayed(ram, images, 1 .. k)
               /\ result' = IF k = Len(images) THEN "OK" ELSE "FAILED"
  BY DEF Transfer
<1> QED
  BY <1>1, KeptMemory, FacingDisplayed

LEMMA LeaveMemory ==
    ASSUME flip \in BOOLEAN, NEW pg \in Memory, ram \in Memory, NEW show, Leave(pg, show)
    PROVE  page' \in Memory /\ ram' \in Memory /\ result' \in {"OK", "FAILED"}
<1>1. CASE show
  BY <1>1, WholePagesOK, TransferMemory DEF Leave
<1>2. CASE ~show
  BY <1>2 DEF Leave
<1> QED
  BY <1>1, <1>2

\* What a call leaves of the types, apart from the buffers and the result.
LEMMA CallingTypes ==
    ASSUME TypeOK, NEW c, NEW price \in Nat, Calling(c, price)
    PROVE  flip' = flip /\ flip' \in BOOLEAN /\ fresh' \in BOOLEAN /\ cost' \in 0 .. MaxCost
BY DisplayAssumption DEF Calling, TypeOK

\* The calls that draw or show change the buffers and the result only.
LEMMA DrawingTypes ==
    ASSUME TypeOK, NEW c, Cheap(c) \/ Costly(c),
           page' \in Memory, ram' \in Memory, result' \in {"OK", "FAILED", "REFUSED"}
    PROVE  TypeOK'
<1>1. PICK price \in {1, 2} : Calling(c, price) /\ UNCHANGED <<handle, scroll, enabled, moving, copy>>
  BY DEF Cheap, Costly, Settings
<1>2. flip' \in BOOLEAN /\ fresh' \in BOOLEAN /\ cost' \in 0 .. MaxCost
  BY <1>1, CallingTypes
<1> QED
  BY <1>1, <1>2 DEF TypeOK, Block, Segment, Byte, PageNo

LEMMA TextType ==
    ASSUME NEW text \in Texts
    PROVE  /\ text \in Seq([0 .. Rows - 1 -> Byte]) /\ Len(text) \in Nat
           /\ \A i \in 1 .. Len(text) : text[i] \in [0 .. Rows - 1 -> Byte]
<1>1. text \in Seq([0 .. Rows - 1 -> Byte])
  BY CallsAssumption
<1> QED
  BY <1>1, LenProperties, ElementOfSeq

\* The pages that scroll, from the end of the range on.
LEMMA BackwardsType ==
    ASSUME scroll.start \in PageNo, scroll.end \in PageNo
    PROVE  /\ Distance(scroll.start, scroll.end) \in 0 .. Pages - 1
           /\ Len(Backwards) = Distance(scroll.start, scroll.end) + 1
           /\ DOMAIN Backwards = 1 .. Distance(scroll.start, scroll.end) + 1
           /\ \A i \in 1 .. Distance(scroll.start, scroll.end) + 1 :
                /\ Backwards[i] \in PageNo
                /\ Backwards[i] = scroll.end - (i - 1) * (IF scroll.start > scroll.end THEN -1 ELSE 1)
<1> DEFINE d == Distance(scroll.start, scroll.end)
<1>1. d \in 0 .. Pages - 1
  BY PanelSizes DEF Distance, PageNo
<1>2. /\ Backwards = [i \in 1 .. d + 1 |->
                scroll.end - (i - 1) * (IF scroll.start > scroll.end THEN -1 ELSE 1)]
      /\ Backwards = [i \in 1 .. d + 1 |-> Backwards[i]] /\ DOMAIN Backwards = 1 .. d + 1
  BY DEF Backwards
<1>3. ASSUME NEW i \in 1 .. d + 1
      PROVE  scroll.end - (i - 1) * (IF scroll.start > scroll.end THEN -1 ELSE 1) \in PageNo
  <2>1. CASE scroll.start > scroll.end
    BY <2>1, PanelSizes DEF Distance, PageNo
  <2>2. CASE ~(scroll.start > scroll.end)
    BY <2>2, PanelSizes DEF Distance, PageNo
  <2> QED
    BY <2>1, <2>2
<1> HIDE DEF d
<1>4. Len(Backwards) = d + 1
  <2>1. d + 1 \in Nat
    BY <1>1, PanelSizes
  <2> QED
    BY <1>2, <2>1, LenOfList
<1> QED
  BY <1>1, <1>2, <1>3, <1>4 DEF d

\* The images of ssd1306_display_software_scroll_text.
ScrollImages(text, invert) ==
    [i \in 1 .. Len(Backwards) - 1 |-> Image(Backwards[i], 0, page[Backwards[i + 1]])]
        \o TextImages(scroll.start, text, 1, invert)

LEMMA ScrollImagesOK ==
    ASSUME TypeOK, NEW text, Len(text) \in Nat, NEW invert
    PROVE  LET moves == Len(Backwards) - 1
               images == ScrollImages(text, invert)
           IN  /\ moves = Distance(scroll.start, scroll.end) /\ moves \in Nat
               /\ ImagesOK(images, moves + Len(text)) /\ Len(images) = moves + Len(text)
               /\ \A i \in 1 .. moves : images[i] = Image(Backwards[i], 0, page[Backwards[i + 1]])
               /\ \A i \in 1 .. Len(text) :
                    images[moves + i] = TextImages(scroll.start, text, 1, invert)[i]
<1> DEFINE moves == Len(Backwards) - 1
           images == ScrollImages(text, invert)
           pages == [i \in 1 .. moves |-> Image(Backwards[i], 0, page[Backwards[i + 1]])]
           cells == TextImages(scroll.start, text, 1, invert)
<1>1. /\ flip \in BOOLEAN /\ scroll.start \in PageNo /\ scroll.end \in PageNo /\ page \in Memory
  BY DEF TypeOK
<1>2. /\ moves = Distance(scroll.start, scroll.end) /\ moves \in Nat
      /\ \A i \in 1 .. moves + 1 : Backwards[i] \in PageNo
  BY <1>1, BackwardsType
<1>3. ImagesOK(cells, Len(text)) /\ Len(cells) = Len(text)
  <2>1. Len(text) * 1 = Len(text)
    OBVIOUS
  <2>2. flip \in BOOLEAN /\ Len(text) \in Nat /\ 1 \in 1 .. 3
    BY <1>1
  <2>3. ImagesOK(cells, Len(text) * 1) /\ Len(cells) = Len(text) * 1
    BY ONLY <2>2, TextImagesOK DEF cells
  <2> QED
    BY <2>1, <2>3
<1> HIDE DEF moves, cells
<1>4. pages = [i \in 1 .. moves |-> pages[i]] /\ DOMAIN pages = 1 .. moves
  OBVIOUS
<1>5. \A i \in 1 .. moves : \A s \in DOMAIN pages[i].bytes : pages[i].bytes[s] \in Byte
  BY <1>1, <1>2 DEF Image, Memory
<1>6. \A i \in 1 .. moves : pages[i] = Image(Backwards[i], 0, page[Backwards[i + 1]])
  OBVIOUS
<1> HIDE DEF pages
<1> DEFINE S == {pages[i] : i \in 1 .. moves} \cup {cells[i] : i \in 1 .. Len(text)}
<1>7. pages \in Seq(S) /\ Len(pages) = moves
  <2>1. pages \in [1 .. moves -> S]
    BY <1>4
  <2> QED
    BY <1>2, <1>4, <2>1, SeqDef, LenOfList
<1>8. cells \in Seq(S)
  <2>1. cells \in [1 .. Len(text) -> S]
    BY <1>3 DEF ImagesOK
  <2> QED
    BY <2>1, SeqDef
<1>9. images = pages \o cells
  BY DEF ScrollImages, pages, cells, moves
<1> HIDE DEF images, S
<1>10. /\ images \in Seq(S) /\ Len(images) = moves + Len(text)
       /\ \A i \in 1 .. moves + Len(text) :
            images[i] = IF i <= moves THEN pages[i] ELSE cells[i - moves]
  <2>1. /\ pages \o cells \in Seq(S) /\ Len(pages \o cells) = Len(pages) + Len(cells)
        /\ \A i \in 1 .. Len(pages) + Len(cells) :
             (pages \o cells)[i] = IF i <= Len(pages) THEN pages[i] ELSE cells[i - Len(pages)]
    BY <1>7, <1>8, ConcatProperties
  <2>2. Len(pages) = moves /\ Len(cells) = Len(text)
    BY <1>3, <1>7
  <2> QED
    BY <1>9, <2>1, <2>2
<1>11. DOMAIN images = 1 .. moves + Len(text) /\ images = [i \in 1 .. moves + Len(text) |-> images[i]]
  BY <1>10, LenProperties
<1>12. ASSUME NEW i \in 1 .. moves + Len(text)
       PROVE  \A s \in DOMAIN images[i].bytes : images[i].bytes[s] \in Byte
  <2>1. CASE i <= moves
    BY <1>2, <1>5, <1>10, <2>1
  <2>2. CASE ~(i <= moves)
    <3>1. i - moves \in 1 .. Len(text) /\ images[i] = cells[i - moves]
      BY <1>2, <1>10, <2>2
    <3> QED
      BY <1>3, <3>1 DEF ImagesOK
  <2> QED
    BY <2>1, <2>2
<1>13. ImagesOK(images, moves + Len(text))
  BY <1>2, <1>11, <1>12 DEF ImagesOK
<1>14. \A i \in 1 .. Len(text) : images[moves + i] = cells[i]
  BY <1>2, <1>10
<1>15. \A i \in 1 .. moves : images[i] = Image(Backwards[i], 0, page[Backwards[i + 1]])
  BY <1>2, <1>6, <1>10
<1> QED
  BY <1>2, <1>10, <1>13, <1>14, <1>15 DEF images, moves, cells

Glyph == [0 .. Rows - 1 -> Byte]

\* The bytes of a character of normal size.
CellBytes(glyph, invert) == Styled(Piece(glyph, 1, 0), invert)

LEMMA CellOfGlyph ==
    ASSUME flip \in BOOLEAN, NEW glyph \in Glyph, NEW invert \in BOOLEAN
    PROVE  /\ CellBytes(glyph, invert) \in Glyph
           /\ \A s, b \in 0 .. Rows - 1 :
                  Bit(b) \in CellBytes(glyph, invert)[s] <=> (b \in glyph[s]) # invert
<1>1. Piece(glyph, 1, 0) = glyph
  <2>1. DOMAIN Piece(glyph, 1, 0) = 0 .. Rows - 1
    BY PanelSizes DEF Piece
  <2>2. ASSUME NEW s \in 0 .. Rows - 1
        PROVE  Piece(glyph, 1, 0)[s] = glyph[s]
    <3>1. s \in 0 .. 1 * Rows - 1 /\ s \div 1 = s
      BY PanelSizes
    <3>2. Piece(glyph, 1, 0)[s] = {j \in 0 .. Rows - 1 : (0 * Rows + j) \div 1 \in glyph[s \div 1]}
      BY <3>1 DEF Piece
    <3>3. \A j \in 0 .. Rows - 1 : (0 * Rows + j) \div 1 = j
      BY PanelSizes
    <3>4. glyph[s] \in SUBSET (0 .. Rows - 1)
      BY DEF Glyph, Byte
    <3> QED
      BY <3>1, <3>2, <3>3, <3>4
  <2> QED
    BY <2>1, <2>2 DEF Glyph, Piece
<1>2. \A s \in 0 .. Rows - 1 :
          CellBytes(glyph, invert)[s] = Upright(IF invert THEN Inverted(glyph[s]) ELSE glyph[s])
  BY <1>1 DEF CellBytes, Styled, Glyph
<1>3. CellBytes(glyph, invert) = [s \in 0 .. Rows - 1 |-> CellBytes(glyph, invert)[s]]
  BY <1>1 DEF CellBytes, Styled, Glyph
<1>4. ASSUME NEW s \in 0 .. Rows - 1
      PROVE  /\ CellBytes(glyph, invert)[s] \in Byte
             /\ \A b \in 0 .. Rows - 1 :
                   Bit(b) \in CellBytes(glyph, invert)[s] <=> (b \in glyph[s]) # invert
  <2> DEFINE byte == IF invert THEN Inverted(glyph[s]) ELSE glyph[s]
  <2>1. /\ byte \in Byte
        /\ \A b \in 0 .. Rows - 1 : b \in byte <=> (b \in glyph[s]) # invert
    BY DEF Glyph, Byte, Inverted
  <2> HIDE DEF byte
  <2>2. /\ Upright(byte) \in Byte
        /\ \A b \in 0 .. Rows - 1 : /\ Bit(b) \in 0 .. Rows - 1 /\ Bit(Bit(b)) = b
                                    /\ b \in Upright(byte) <=> Bit(b) \in byte
    BY <2>1, UprightBits
  <2>3. \A b \in 0 .. Rows - 1 : Bit(b) \in Upright(byte) <=> b \in byte
    BY <2>2
  <2>4. CellBytes(glyph, invert)[s] = Upright(byte)
    BY <1>2 DEF byte
  <2> QED
    BY <2>1, <2>2, <2>3, <2>4
<1> QED
  BY <1>3, <1>4 DEF Glyph

LEMMA TextCells ==
    ASSUME flip \in BOOLEAN, NEW p \in Nat, NEW text, Len(text) \in Nat, NEW invert
    PROVE  LET cells == TextImages(p, text, 1, invert)
           IN  /\ ImagesOK(cells, Len(text)) /\ Len(cells) = Len(text)
               /\ \A i \in 1 .. Len(text) :
                     cells[i] = Image(p, (i - 1) * Rows, CellBytes(text[i], invert))
<1> DEFINE cells == TextImages(p, text, 1, invert)
<1>1. Len(text) * 1 = Len(text)
  OBVIOUS
<1>2. ImagesOK(cells, Len(text)) /\ Len(cells) = Len(text)
  BY <1>1, TextImagesOK
<1>3. ASSUME NEW i \in 1 .. Len(text)
      PROVE  cells[i] = Image(p, (i - 1) * Rows, CellBytes(text[i], invert))
  <2>1. (i - 1) \div 1 = i - 1 /\ (i - 1) % 1 = 0 /\ p + 0 = p /\ (i - 1) + 1 = i
        /\ (i - 1) * 1 * Rows = (i - 1) * Rows /\ i \in 1 .. Len(text) * 1
    BY PanelSizes
  <2>2. cells[i] = Image(p + ((i - 1) % 1), ((i - 1) \div 1) * 1 * Rows,
                         Styled(Piece(text[((i - 1) \div 1) + 1], 1, (i - 1) % 1), invert))
    BY <2>1 DEF TextImages
  <2> HIDE DEF cells
  <2> QED
    BY <2>1, <2>2 DEF CellBytes
<1> QED
  BY <1>2, <1>3

\* The two parts of a text box: its first contents, and the box when the
\* rest has moved in by n columns.
Fill(c, first) ==
    LET cells == TextImages(c.page, first, 1, c.invert)
    IN  [i \in DOMAIN cells |-> [cells[i] EXCEPT !.segment = @ + c.segment]]

BoxImage(c, first, rest, filled, n) ==
    LET box == Len(first) * Rows
        new == TextImages(c.page, rest, 1, c.invert)
    IN  <<Image(c.page, c.segment, [s \in 0 .. box - 1 |->
            IF s + n < box THEN filled[c.page][c.segment + s + n]
            ELSE new[(s + n - box) \div Rows + 1].bytes[(s + n - box) % Rows]])>>

LEMMA FillOK ==
    ASSUME flip \in BOOLEAN, NEW c, c.page \in Nat, NEW first, Len(first) \in Nat
    PROVE  /\ ImagesOK(Fill(c, first), Len(first))
           /\ \A i \in 1 .. Len(first) :
                 Fill(c, first)[i] = Image(c.page, (i - 1) * Rows + c.segment, CellBytes(first[i], c.invert))
<1> DEFINE cells == TextImages(c.page, first, 1, c.invert)
<1>1. /\ ImagesOK(cells, Len(first))
      /\ \A i \in 1 .. Len(first) :
            cells[i] = Image(c.page, (i - 1) * Rows, CellBytes(first[i], c.invert))
  BY TextCells
<1>2. Fill(c, first) = [i \in DOMAIN cells |-> [cells[i] EXCEPT !.segment = @ + c.segment]]
  BY DEF Fill
<1> HIDE DEF cells
<1>3. DOMAIN cells = 1 .. Len(first)
  BY <1>1 DEF ImagesOK
<1>4. ASSUME NEW i \in 1 .. Len(first)
      PROVE  /\ Fill(c, first)[i] = Image(c.page, (i - 1) * Rows + c.segment, CellBytes(first[i], c.invert))
             /\ Fill(c, first)[i].bytes = cells[i].bytes
  BY <1>1, <1>2, <1>3 DEF Image
<1> QED
  BY <1>1, <1>2, <1>3, <1>4 DEF ImagesOK

\* The columns of a list of characters.
LEMMA ColumnOf ==
    ASSUME NEW n \in Nat, NEW i \in 0 .. n * Rows - 1
    PROVE  /\ i \div Rows + 1 \in 1 .. n /\ i % Rows \in 0 .. Rows - 1
           /\ i = Rows * (i \div Rows) + (i % Rows)
<1>1. n * Rows = Rows * n /\ i \in Int
  BY PanelSizes
<1>2. PICK q \in Int, r \in 0 .. Rows - 1 : i = Rows * q + r /\ q = i \div Rows /\ r = i % Rows
  BY <1>1, PanelSizes, DivMod
<1>3. q < n
  <2>1. Rows * q + r < Rows * n
    BY <1>1, <1>2, PanelSizes
  <2> QED
    BY <1>2, <2>1, PanelSizes, QuotientBelow
<1>4. ~(q < 0)
  <2>1. q < 0 => Rows * q + r < Rows * 0
    BY <1>2, PanelSizes, QuotientBelow
  <2>2. Rows * 0 = 0 /\ Rows * q + r >= 0
    BY <1>2, PanelSizes
  <2> QED
    BY <1>2, <2>1, <2>2, PanelSizes
<1> QED
  BY <1>2, <1>3, <1>4

BoxImageSays(c, first, rest, filled, n) ==
    LET image == BoxImage(c, first, rest, filled, n)[1]
        box == Len(first) * Rows
    IN  /\ image.page = c.page /\ image.segment = c.segment /\ DOMAIN image.bytes = 0 .. box - 1
        /\ \A s \in 0 .. box - 1 : image.bytes[s] =
              IF s + n < box THEN filled[c.page][c.segment + s + n]
              ELSE CellBytes(rest[(s + n - box) \div Rows + 1], c.invert)[(s + n - box) % Rows]

LEMMA BoxImageOK ==
    ASSUME flip \in BOOLEAN, NEW c, c.page \in PageNo, c.segment \in Nat, c.invert \in BOOLEAN,
           NEW first, Len(first) \in Nat, c.segment + Len(first) * Rows <= Width,
           NEW rest \in Seq(Glyph), NEW filled \in Memory, NEW n \in 0 .. Len(rest) * Rows
    PROVE  /\ ImagesOK(BoxImage(c, first, rest, filled, n), 1)
           /\ BoxImageSays(c, first, rest, filled, n)
<1> DEFINE box == Len(first) * Rows
           new == TextImages(c.page, rest, 1, c.invert)
           image == BoxImage(c, first, rest, filled, n)[1]
           byte(s) == IF s + n < box THEN filled[c.page][c.segment + s + n]
                      ELSE CellBytes(rest[(s + n - box) \div Rows + 1], c.invert)[(s + n - box) % Rows]
<1>1. box \in Nat /\ n \in Nat /\ Len(rest) \in Nat /\ c.page \in Nat
  BY PanelSizes, LenProperties DEF PageNo
<1>2. \A i \in 1 .. Len(rest) : new[i].bytes = CellBytes(rest[i], c.invert)
  <2> SUFFICES ASSUME NEW i \in 1 .. Len(rest)
               PROVE  new[i].bytes = CellBytes(rest[i], c.invert)
    OBVIOUS
  <2>1. new[i] = Image(c.page, (i - 1) * Rows, CellBytes(rest[i], c.invert))
    BY <1>1, TextCells
  <2> HIDE DEF new
  <2> QED
    BY <2>1 DEF Image
<1>3. \A i \in 1 .. Len(rest) : CellBytes(rest[i], c.invert) \in Glyph
  BY ElementOfSeq, CellOfGlyph
<1>4. image = Image(c.page, c.segment, [s \in 0 .. box - 1 |->
                 IF s + n < box THEN filled[c.page][c.segment + s + n]
                 ELSE new[(s + n - box) \div Rows + 1].bytes[(s + n - box) % Rows]])
  BY DEF BoxImage
<1>5. ASSUME NEW s \in 0 .. box - 1
      PROVE  image.bytes[s] = byte(s) /\ byte(s) \in Byte
  <2>1. image.bytes[s] = IF s + n < box THEN filled[c.page][c.segment + s + n]
                         ELSE new[(s + n - box) \div Rows + 1].bytes[(s + n - box) % Rows]
    BY <1>4 DEF Image
  <2> HIDE DEF new, image
  <2>2. CASE s + n < box
    <3>1. c.segment + s + n \in Segment
      BY SMTT(30), <1>1, <2>2, PanelSizes DEF Segment
    <3> QED
      BY <2>1, <2>2, <3>1 DEF Memory
  <2>3. CASE ~(s + n < box)
    <3>1. s + n - box \in 0 .. Len(rest) * Rows - 1
      BY <1>1, <2>3, PanelSizes
    <3>2. (s + n - box) \div Rows + 1 \in 1 .. Len(rest) /\ (s + n - box) % Rows \in 0 .. Rows - 1
      BY <1>1, <3>1, ColumnOf
    <3> QED
      BY <1>2, <1>3, <2>1, <2>3, <3>2 DEF Glyph
  <2> QED
    BY <2>2, <2>3
<1>6. image.page = c.page /\ image.segment = c.segment /\ DOMAIN image.bytes = 0 .. box - 1
  BY <1>4 DEF Image
<1>7. /\ DOMAIN BoxImage(c, first, rest, filled, n) = 1 .. 1
      /\ BoxImage(c, first, rest, filled, n) = [i \in 1 .. 1 |-> BoxImage(c, first, rest, filled, n)[i]]
  BY DEF BoxImage
<1>8. ImagesOK(BoxImage(c, first, rest, filled, n), 1)
  <2>1. \A i \in 1 .. 1 : i = 1
    OBVIOUS
  <2> HIDE DEF byte, box
  <2>2. \A s \in DOMAIN image.bytes : image.bytes[s] \in Byte
    BY <1>5, <1>6
  <2> QED
    BY <1>7, <2>1, <2>2 DEF ImagesOK
<1> HIDE DEF image
<1> QED
  BY <1>5, <1>6, <1>8 DEF image, BoxImageSays

\* A text box in its parts: what was lost of the first contents, and the last
\* column at which the box was shown.
MarqueeDone(c, first, rest, lost, last) ==
    LET filled == Kept(page, Fill(c, first), (1 .. Len(first)) \ lost)
        steps == Len(rest) * Rows
    IN  /\ page' = Kept(filled, BoxImage(c, first, rest, filled, steps), {1})
        /\ ram' = Displayed(Displayed(ram, Fill(c, first), (1 .. Len(first)) \ lost),
                            BoxImage(c, first, rest, filled, last), IF last = 0 THEN {} ELSE {1})
        /\ result' = "OK"

LEMMA MarqueeParts ==
    ASSUME flip \in BOOLEAN, NEW c, c.page \in Nat, c.segment \in Nat,
           NEW first, Len(first) \in Nat, NEW rest,
           Marquee(c, first, rest), c.page < Pages, c.segment + Len(first) * Rows <= Width
    PROVE  \E lost \in SUBSET (1 .. Len(first)), last \in 0 .. Len(rest) * Rows :
               MarqueeDone(c, first, rest, lost, last)
<1>1. DOMAIN Fill(c, first) = 1 .. Len(first)
  BY FillOK DEF ImagesOK
<1>2. ~(c.page >= Pages \/ c.segment + Len(first) * Rows > Width)
  BY PanelSizes
<1>3. \E lost \in SUBSET DOMAIN Fill(c, first), last \in 0 .. Len(rest) * Rows :
        LET filled == Kept(page, Fill(c, first), DOMAIN Fill(c, first) \ lost)
        IN  /\ page' = Kept(filled, BoxImage(c, first, rest, filled, Len(rest) * Rows), {1})
            /\ ram' = Displayed(Displayed(ram, Fill(c, first), DOMAIN Fill(c, first) \ lost),
                            BoxImage(c, first, rest, filled, last), IF last = 0 THEN {} ELSE {1})
            /\ result' = "OK"
  BY <1>2 DEF Marquee, Fill, BoxImage
<1> QED
  BY <1>1, <1>3 DEF MarqueeDone

LEMMA MarqueeMemory ==
    ASSUME flip \in BOOLEAN, page \in Memory, ram \in Memory,
           NEW c, c.page \in Nat, c.segment \in Nat, c.invert \in BOOLEAN,
           NEW first, Len(first) \in Nat, NEW rest \in Seq(Glyph), Marquee(c, first, rest)
    PROVE  page' \in Memory /\ ram' \in Memory /\ result' \in {"OK", "REFUSED"}
<1>1. CASE c.page < Pages /\ c.segment + Len(first) * Rows <= Width
  <2>1. PICK lost \in SUBSET (1 .. Len(first)), last \in 0 .. Len(rest) * Rows :
            MarqueeDone(c, first, rest, lost, last)
    BY <1>1, MarqueeParts
  <2> DEFINE sent == (1 .. Len(first)) \ lost
             filled == Kept(page, Fill(c, first), sent)
             steps == Len(rest) * Rows
  <2>2. filled \in Memory /\ Displayed(ram, Fill(c, first), sent) \in Memory
    BY FillOK, KeptMemory, FacingDisplayed
  <2>3. c.page \in PageNo /\ steps \in 0 .. steps
    BY <1>1, PanelSizes, LenProperties DEF PageNo
  <2> HIDE DEF sent, filled, steps
  <2>4. /\ ImagesOK(BoxImage(c, first, rest, filled, steps), 1)
        /\ ImagesOK(BoxImage(c, first, rest, filled, last), 1)
    BY <1>1, <2>2, <2>3, BoxImageOK DEF steps
  <2>5. /\ Kept(filled, BoxImage(c, first, rest, filled, steps), {1}) \in Memory
        /\ Displayed(Displayed(ram, Fill(c, first), sent), BoxImage(c, first, rest, filled, last),
                     IF last = 0 THEN {} ELSE {1}) \in Memory
    BY <2>2, <2>4, KeptMemory, FacingDisplayed
  <2> QED
    BY <2>1, <2>5 DEF MarqueeDone, sent, filled, steps
<1>2. CASE ~(c.page < Pages /\ c.segment + Len(first) * Rows <= Width)
  <2>1. c.page >= Pages \/ c.segment + Len(first) * Rows > Width
    BY <1>2, PanelSizes
  <2> QED
    BY <2>1 DEF Marquee, Refuse
<1> QED
  BY <1>1, <1>2

LEMMA HandleTypes ==
    ASSUME TypeOK, InitHandle \/ RemoveHandle \/ DeleteHandle
    PROVE  TypeOK'
<1>1. Empty \in Memory /\ NoScroll \in [on : BOOLEAN, start : PageNo, end : PageNo]
  BY PanelSizes DEF Empty, Memory, Byte, NoScroll, PageNo
<1>2. PICK c : Calling(c, 1)
  BY DEF InitHandle, RemoveHandle, DeleteHandle
<1>3. flip' \in BOOLEAN /\ fresh' \in BOOLEAN /\ cost' \in 0 .. MaxCost
  BY <1>2, CallingTypes
<1> USE DEF TypeOK
<1>4. CASE InitHandle
  BY <1>1, <1>3, <1>4 DEF InitHandle, Block, Segment, Byte, PageNo, Memory
<1>5. CASE RemoveHandle
  BY <1>3, <1>5 DEF RemoveHandle, Settings, Block, Segment, Byte, PageNo, Memory
<1>6. CASE DeleteHandle
  BY <1>3, <1>6 DEF DeleteHandle, Settings, Block, Segment, Byte, PageNo, Memory
<1> QED
  BY <1>4, <1>5, <1>6

LEMMA CommandTypes ==
    ASSUME TypeOK, EnableDisplay \/ DisableDisplay \/ SetContrast \/ HardwareScroll
    PROVE  TypeOK'
<1>1. PICK c : Calling(c, 1)
  BY DEF EnableDisplay, DisableDisplay, SetContrast, HardwareScroll, Command
<1>2. flip' \in BOOLEAN /\ fresh' \in BOOLEAN /\ cost' \in 0 .. MaxCost
  BY <1>1, CallingTypes
<1>3. UNCHANGED <<handle, page, ram, scroll, copy>> /\ result' \in {"OK", "FAILED"}
  BY DEF EnableDisplay, DisableDisplay, SetContrast, HardwareScroll, Command
<1>4. enabled' \in BOOLEAN /\ moving' \in {"right", "left", "up", "down", "no"}
  BY DEF EnableDisplay, DisableDisplay, SetContrast, HardwareScroll, Command, TypeOK
<1> QED
  BY <1>2, <1>3, <1>4 DEF TypeOK, Block, Segment, Byte, PageNo, Memory

\* The blocks of the caller's buffer are those of the page numbers.
LEMMA Blocks ==
    /\ U8 \div Width \in Nat \ {0} /\ U8 = Width * (U8 \div Width) /\ U8 \div Width <= Pages
    /\ \A p \in PageNo : BlockOf(p) \in Block /\ BlockOf(p) = p % (U8 \div Width)
<1> DEFINE room == U8 \div Width
<1>1. PICK q \in Int, r \in 0 .. Width - 1 : U8 = Width * q + r /\ q = room /\ r = U8 % Width
  BY ShapesAssumption, DivMod
<1>2. r = 0
  BY <1>1, DisplayAssumption
<1> HIDE DEF room
<1>3. room \in Int /\ U8 = Width * room
  <2>1. q = room
    BY <1>1 DEF room
  <2>2. U8 = Width * q + r /\ Width * q \in Int
    BY <1>1, PanelSizes
  <2> QED
    BY <1>2, <2>1, <2>2
<1>4. room > 0 /\ room <= Pages
  <2>1. Width * 0 + 0 < Width * room => 0 < room
    BY <1>3, PanelSizes, QuotientBelow
  <2>2. Width * Pages + 0 < Width * room <=> Pages < room
    BY <1>3, PanelSizes, QuotientBelow
  <2>3. Width * Pages = Pages * Width /\ Width * 0 = 0
    BY PanelSizes
  <2> QED
    BY <1>3, <2>1, <2>2, <2>3, PanelSizes, ShapesAssumption, DisplayAssumption
<1>5. ASSUME NEW p \in PageNo
      PROVE  BlockOf(p) = p % room /\ p % room \in 0 .. room - 1
  <2>1. PICK k \in Int, b \in 0 .. room - 1 : p = room * k + b /\ b = p % room
    BY <1>3, <1>4, PanelSizes, DivMod DEF PageNo
  <2>2. p * Width = U8 * k + Width * b
    <3>1. p * Width = (room * k + b) * Width
      BY <2>1
    <3>2. (room * k + b) * Width = (Width * room) * k + Width * b
      BY <1>3, <1>4, PanelSizes
    <3> QED
      BY <1>3, <3>1, <3>2
  <2>3. Width * b \in 0 .. U8 - 1
    <3>1. Width * b + 0 < Width * room
      BY <1>3, PanelSizes, QuotientBelow
    <3>2. Width * b \in Nat
      BY <1>4, PanelSizes
    <3> QED
      BY <1>3, <3>1, <3>2, PanelSizes
  <2>4. (U8 * k + Width * b) % U8 = Width * b
    <3>1. U8 \in Nat \ {0}
      BY ShapesAssumption
    <3> QED
      BY <2>3, <3>1, DivUnique
  <2>5. (Width * b + 0) \div Width = b /\ Width * b + 0 = Width * b
    BY <2>3, PanelSizes, ShapesAssumption, DivUnique
  <2> QED
    BY <2>1, <2>2, <2>4, <2>5 DEF BlockOf
<1> QED
  BY <1>3, <1>4, <1>5 DEF room, Block

LEMMA PagesOfBlock ==
    ASSUME NEW b \in Block
    PROVE  /\ Max({p \in PageNo : BlockOf(p) = b}) \in PageNo
           /\ Max({p \in PageNo : BlockOf(p) = b}) = Pages - 1 - ((Pages - 1 - b) % (U8 \div Width))
<1> DEFINE room == U8 \div Width
           S == {p \in PageNo : BlockOf(p) = b}
           m == Pages - 1 - ((Pages - 1 - b) % room)
<1>1. room \in Nat \ {0} /\ room <= Pages /\ b \in 0 .. room - 1
      /\ \A p \in PageNo : BlockOf(p) = p % room
  BY Blocks DEF Block
<1> HIDE DEF room
<1>2. PICK k \in Int, r \in 0 .. room - 1 : Pages - 1 - b = room * k + r /\ r = (Pages - 1 - b) % room
  BY <1>1, PanelSizes, DivMod
<1>3. m = room * k + b /\ m = Pages - 1 - r
  <2>1. room * k \in Int
    BY <1>1
  <2> QED
    BY <1>1, <1>2, <2>1, PanelSizes
<1>4. m \in PageNo /\ m % room = b
  <2>1. (room * k + b) % room = b
    BY <1>1, DivUnique
  <2> QED
    BY <1>1, <1>2, <1>3, <2>1, PanelSizes DEF PageNo
<1>5. ASSUME NEW p \in S
      PROVE  p <= m
  <2>1. PICK j \in Int, c \in 0 .. room - 1 : p = room * j + c /\ c = p % room
    BY <1>1, PanelSizes, DivMod DEF PageNo
  <2>2. c = b
    BY <1>1, <2>1
  <2>3. ~(k < j)
    <3>1. k < j => room * k + (room - 1) < room * j
      BY <1>1, QuotientBelow
    <3>2. room * k \in Int /\ room * j \in Int
      BY <1>1
    <3>3. p < Pages /\ Pages - 1 = room * k + r + b
      BY <1>1, <1>2, <3>2, PanelSizes DEF PageNo
    <3>4. k < j => room * k + room <= room * j
      <4>1. k < j => room * (k + 1) <= room * j
        BY <1>1, Product
      <4>2. room * (k + 1) = room * k + room
        BY <1>1
      <4> QED
        BY <4>1, <4>2
    <3> QED
      BY <1>1, <2>1, <2>2, <3>2, <3>3, <3>4, PanelSizes
  <2>4. room * j <= room * k
    BY <1>1, <2>3, Product
  <2> QED
    BY <1>1, <1>3, <2>1, <2>2, <2>4
<1>6. m \in S
  BY <1>1, <1>4
<1>7. Max(S) = m
  <2>1. S \in SUBSET Int /\ m \in S /\ \A p \in S : p <= m
    BY <1>5, <1>6, PanelSizes DEF PageNo
  <2> HIDE DEF S, m
  <2>2. Max(S) \in S /\ \A y \in S : Max(S) >= y
    <3>1. \E x \in S : \A y \in S : x >= y
      BY <2>1
    <3> QED
      BY <3>1, Zenon DEF Max
  <2>3. Max(S) \in Int /\ m \in Int /\ Max(S) <= m /\ Max(S) >= m
    BY <2>1, <2>2
  <2> QED
    BY <2>3
<1> QED
  BY <1>4, <1>7 DEF room

LEMMA CopyTypes ==
    ASSUME TypeOK, GetPages \/ SetPages
    PROVE  TypeOK'
<1>1. CASE GetPages
  <2>1. flip' \in BOOLEAN /\ fresh' \in BOOLEAN /\ cost' \in 0 .. MaxCost
    BY <1>1, CallingTypes DEF GetPages
  <2>2. [b \in Block |-> page[Max({p \in PageNo : BlockOf(p) = b})]] \in [Block -> [Segment -> Byte]]
    BY PagesOfBlock DEF TypeOK, Memory
  <2>3. /\ copy' \in [Block -> [Segment -> Byte]] /\ result' = "OK"
        /\ UNCHANGED <<handle, page, ram, scroll, enabled, moving>>
    BY <1>1, <2>2 DEF GetPages
  <2>4. copy' \in [Block' -> [Segment' -> Byte']]
    BY <2>3 DEF Block, Segment, Byte
  <2> QED
    BY <2>1, <2>3, <2>4 DEF TypeOK, Memory, Segment, Byte, PageNo
<1>2. CASE SetPages
  <2>1. [p \in PageNo |-> copy[BlockOf(p)]] \in Memory
    BY Blocks DEF TypeOK, Memory
  <2>2. page' \in Memory /\ ram' \in Memory /\ result' = "OK"
    BY <1>2, <2>1 DEF SetPages, TypeOK
  <2> QED
    BY <1>2, <2>2, DrawingTypes DEF SetPages
<1> QED
  BY <1>1, <1>2

LEMMA DrawTypes ==
    ASSUME TypeOK, NEW c, NEW pixels, Draw(c, pixels)
    PROVE  TypeOK'
<1>1. Plot(page, OnPanel(pixels), c.invert) \in Memory
  BY PlotMemory DEF TypeOK
<1>2. page' \in Memory /\ ram' \in Memory /\ result' \in {"OK", "FAILED"}
  BY <1>1, LeaveMemory DEF Draw, TypeOK
<1> QED
  BY <1>2, DrawingTypes DEF Draw

LEMMA RefuseTypes ==
    ASSUME TypeOK, NEW c, Cheap(c) \/ Costly(c), Refuse
    PROVE  TypeOK'
BY DrawingTypes DEF Refuse, TypeOK

LEMMA TransferTypes ==
    ASSUME TypeOK, NEW c, Cheap(c) \/ Costly(c), NEW images, NEW n, ImagesOK(images, n),
           Transfer(page, images)
    PROVE  TypeOK'
<1>1. page' \in Memory /\ ram' \in Memory /\ result' \in {"OK", "FAILED"}
  BY TransferMemory DEF TypeOK
<1> QED
  BY <1>1, DrawingTypes

LEMMA ShapeTypes ==
    ASSUME TypeOK, \/ SetPixel \/ SetLine \/ SetCircle \/ FillCircle \/ SetRectangle \/ FillRectangle
                   \/ SetBitmap \/ DisplayBdfText
    PROVE  TypeOK'
<1>1. CASE SetPixel
  BY <1>1, DrawTypes, RefuseTypes DEF SetPixel
<1>2. CASE SetLine
  BY <1>2, DrawTypes DEF SetLine
<1>3. CASE SetCircle \/ FillCircle
  BY <1>3, DrawTypes DEF SetCircle, FillCircle
<1>4. CASE SetRectangle
  BY <1>4, DrawTypes, RefuseTypes DEF SetRectangle
<1>5. CASE FillRectangle
  BY <1>5, DrawTypes, RefuseTypes DEF FillRectangle
<1>6. CASE SetBitmap \/ DisplayBdfText
  BY <1>6, DrawTypes DEF SetBitmap, DisplayBdfText
<1> QED
  BY <1>1, <1>2, <1>3, <1>4, <1>5, <1>6

LEMMA CodeTypes ==
    ASSUME TypeOK, DisplayBdfCode
    PROVE  TypeOK'
<1>1. PICK p \in Points, ch \in DOMAIN Font \cup {"unknown"} :
          LET bits == Layout(<<ch>>)
              pg == Plot(page, Bitmap(p[1], p[2], bits), FALSE)
          IN  /\ Costly([op |-> "code", x |-> p[1], y |-> p[2], bits |-> bits,
                         known |-> ch \in DOMAIN Font])
              /\ IF ch \notin DOMAIN Font
                 THEN UNCHANGED <<page, ram>> /\ result' = "FAILED"
                 ELSE /\ page' = pg
                      /\ result' = "OK"
                      /\ \E n \in 0 .. IF handle = "ready" THEN Pages ELSE 0 :
                          ram' = Displayed(ram, WholePages(pg), 1 .. n)
  BY DEF DisplayBdfCode
<1> DEFINE pg == Plot(page, Bitmap(p[1], p[2], Layout(<<ch>>)), FALSE)
<1>2. pg \in Memory /\ page \in Memory /\ ram \in Memory /\ flip \in BOOLEAN
  BY PlotMemory DEF TypeOK
<1> HIDE DEF pg
<1>3. \A n : Displayed(ram, WholePages(pg), 1 .. n) \in Memory
  BY <1>2, WholePagesOK, FacingDisplayed
<1>4. page' \in Memory /\ ram' \in Memory /\ result' \in {"OK", "FAILED"}
  BY <1>1, <1>2, <1>3 DEF pg
<1> QED
  BY <1>1, <1>4, DrawingTypes

\* A character of a text, and one image of it.
LEMMA GlyphOfText ==
    ASSUME NEW text \in Texts, NEW i \in DOMAIN text
    PROVE  text[i] \in Glyph
<1>1. text \in Seq(Glyph)
  BY TextType DEF Glyph
<1> QED
  BY <1>1, LenProperties, ElementOfSeq

LEMMA OneImageOK ==
    ASSUME flip \in BOOLEAN, NEW p, NEW segment, NEW glyph \in Glyph
    PROVE  /\ ImagesOK(<<Image(p, segment, Styled(glyph, FALSE))>>, 1)
           /\ Len(<<Image(p, segment, Styled(glyph, FALSE))>>) = 1
<1> DEFINE bytes == Styled(glyph, FALSE)
<1>1. \A s \in DOMAIN glyph : glyph[s] \in Byte
  BY DEF Glyph
<1>2. \A s \in DOMAIN bytes : bytes[s] \in Byte
  BY <1>1, StyledBytes
<1> HIDE DEF bytes
<1> DEFINE image == Image(p, segment, bytes)
           images == <<image>>
<1>3. \A s \in DOMAIN image.bytes : image.bytes[s] \in Byte
  BY <1>2 DEF Image
<1> HIDE DEF image
<1>4. images[1] = image /\ DOMAIN images = 1 .. 1 /\ Len(images) = 1
  OBVIOUS
<1>5. images = [i \in 1 .. 1 |-> images[i]]
  OBVIOUS
<1> HIDE DEF images
<1>6. ImagesOK(images, 1) /\ Len(images) = 1
  BY <1>3, <1>4, <1>5 DEF ImagesOK
<1> QED
  BY <1>6 DEF images, image, bytes

LEMMA TextTypes ==
    ASSUME TypeOK,
           \/ DisplayText \/ DisplayImage \/ ClearDisplayPage \/ ClearDisplay \/ Fadeout
           \/ ClearSoftwareScroll \/ DisplayPages
    PROVE  TypeOK'
<1>0. flip \in BOOLEAN /\ page \in Memory /\ ram \in Memory
  BY DEF TypeOK
<1>1. CASE DisplayText
  <2>1. PICK p \in 0 .. Pages, text \in Texts, k \in 1 .. 3, inv \in BOOLEAN :
          /\ Costly([op |-> "text", page |-> p, text |-> text, size |-> k, invert |-> inv])
          /\ Refuse \/ Transfer(page, TextImages(p, text, k, inv))
    BY <1>1 DEF DisplayText
  <2>2. ImagesOK(TextImages(p, text, k, inv), Len(text) * k)
    BY <1>0, TextType, TextImagesOK
  <2> QED
    BY <2>1, <2>2, RefuseTypes, TransferTypes
<1>2. CASE ClearDisplay
  <2> DEFINE pages == [i \in 1 .. Pages |-> i - 1]
  <2>1. PICK inv \in BOOLEAN :
          /\ Cheap([op |-> "clear", invert |-> inv])
          /\ Transfer(page, ClearImages(pages, inv))
    BY <1>2 DEF ClearDisplay
  <2>2. Len(pages) \in Nat
    BY PanelSizes
  <2> HIDE DEF pages
  <2>3. ImagesOK(ClearImages(pages, inv), Len(pages) * TextMax(1))
    BY <1>0, <2>2, ClearImagesOK
  <2> QED
    BY <2>1, <2>3, TransferTypes
<1>3. CASE Fadeout
  BY <1>0, <1>3, FadeImagesOK, TransferTypes DEF Fadeout
<1>4. CASE ClearSoftwareScroll
  <2>1. /\ Cheap([op |-> "clear_scroll"])
        /\ Refuse \/ Transfer(page, ClearImages(Backwards, FALSE))
    BY <1>4 DEF ClearSoftwareScroll
  <2>2. Len(Backwards) \in Nat
    BY BackwardsType, PanelSizes DEF TypeOK
  <2>3. ImagesOK(ClearImages(Backwards, FALSE), Len(Backwards) * TextMax(1))
    BY <1>0, <2>2, ClearImagesOK
  <2> QED
    BY <2>1, <2>3, RefuseTypes, TransferTypes
<1>5. CASE DisplayPages
  <2>1. page' \in Memory /\ ram' \in Memory /\ result' \in {"OK", "FAILED"}
    BY <1>0, <1>5, LeaveMemory DEF DisplayPages
  <2> QED
    BY <1>5, <2>1, DrawingTypes DEF DisplayPages
<1>6. CASE DisplayImage
  <2>1. PICK p \in 0 .. Pages, segment \in 0 .. Width, text \in Texts : \E i \in DOMAIN text :
          /\ Costly([op |-> "image", page |-> p, segment |-> segment, glyph |-> text[i]])
          /\ Refuse \/ Transfer(page, <<Image(p, segment, Styled(text[i], FALSE))>>)
    BY <1>6 DEF DisplayImage
  <2>2. PICK i \in DOMAIN text :
          /\ Costly([op |-> "image", page |-> p, segment |-> segment, glyph |-> text[i]])
          /\ Refuse \/ Transfer(page, <<Image(p, segment, Styled(text[i], FALSE))>>)
    BY <2>1
  <2>3. ImagesOK(<<Image(p, segment, Styled(text[i], FALSE))>>, 1)
    BY <1>0, GlyphOfText, OneImageOK
  <2> QED
    BY <2>2, <2>3, RefuseTypes, TransferTypes
<1>7. CASE ClearDisplayPage
  <2>1. PICK p \in 0 .. Pages, inv \in BOOLEAN :
          /\ Cheap([op |-> "clear_page", page |-> p, invert |-> inv])
          /\ Refuse \/ Transfer(page, ClearImages(<<p>>, inv))
    BY <1>7 DEF ClearDisplayPage
  <2>2. Len(<<p>>) \in Nat
    OBVIOUS
  <2>3. ImagesOK(ClearImages(<<p>>, inv), Len(<<p>>) * TextMax(1))
    BY <1>0, <2>2, ClearImagesOK
  <2> QED
    BY <2>1, <2>3, RefuseTypes, TransferTypes
<1> QED
  BY <1>1, <1>2, <1>3, <1>4, <1>5, <1>6, <1>7

\* The buffer that ssd1306_display_wrap_around leaves.
Wrapped(dir, start, end) ==
    CASE dir = "right" -> Sideways(page, start, Least(end, Pages - 1), -1)
      [] dir = "left" -> Sideways(page, start, Least(end, Pages - 1), 1)
      [] OTHER -> UpOrDown(page, start, Least(end, Width - 1), dir = "up")

LEMMA WrappedMemory ==
    ASSUME flip \in BOOLEAN, page \in Memory, NEW dir, NEW start, NEW end
    PROVE  Wrapped(dir, start, end) \in Memory
<1>1. -1 \in Int /\ 1 \in Int /\ (dir = "up") \in BOOLEAN
  OBVIOUS
<1>2. CASE dir = "right"
  <2>1. Wrapped(dir, start, end) = Sideways(page, start, Least(end, Pages - 1), -1)
    BY <1>2 DEF Wrapped
  <2> QED
    BY <1>1, <2>1, SidewaysMemory
<1>3. CASE dir = "left"
  <2>1. Wrapped(dir, start, end) = Sideways(page, start, Least(end, Pages - 1), 1)
    BY <1>3 DEF Wrapped
  <2> QED
    BY <1>1, <2>1, SidewaysMemory
<1>4. CASE dir # "right" /\ dir # "left"
  <2>1. Wrapped(dir, start, end) = UpOrDown(page, start, Least(end, Width - 1), dir = "up")
    BY <1>4 DEF Wrapped
  <2>2. UpOrDown(page, start, Least(end, Width - 1), dir = "up") \in Memory
    BY <1>1, UpOrDownMemory, Zenon
  <2> QED
    BY <2>1, <2>2
<1> QED
  BY <1>2, <1>3, <1>4

LEMMA MovementTypes ==
    ASSUME TypeOK, WrapAround \/ SetSoftwareScroll \/ ScrollText
    PROVE  TypeOK'
<1>0. flip \in BOOLEAN /\ page \in Memory /\ ram \in Memory
  BY DEF TypeOK
<1>1. CASE WrapAround
  <2>1. PICK dir \in {"right", "left", "up", "down"}, range \in Ranges, show \in BOOLEAN :
          /\ Cheap([op |-> "wrap_around", dir |-> dir, start |-> range[1], end |-> range[2],
                    show |-> show])
          /\ Leave(Wrapped(dir, range[1], range[2]), show)
    BY <1>1 DEF WrapAround, Wrapped
  <2>2. Wrapped(dir, range[1], range[2]) \in Memory
    BY <1>0, WrappedMemory
  <2>3. page' \in Memory /\ ram' \in Memory /\ result' \in {"OK", "FAILED"}
    BY <1>0, <2>1, <2>2, LeaveMemory
  <2> QED
    BY <2>1, <2>3, DrawingTypes
<1>2. CASE SetSoftwareScroll
  <2>1. PICK start, end \in 0 .. Pages :
          /\ Calling([op |-> "set_scroll", start |-> start, end |-> end], 1)
          /\ scroll' = IF start < Pages /\ end < Pages
                       THEN [on |-> TRUE, start |-> start, end |-> end]
                       ELSE [scroll EXCEPT !.on = FALSE]
          /\ result' = "OK"
          /\ UNCHANGED <<handle, page, ram, enabled, moving, copy>>
    BY <1>2 DEF SetSoftwareScroll
  <2>2. flip' \in BOOLEAN /\ fresh' \in BOOLEAN /\ cost' \in 0 .. MaxCost
    BY <2>1, CallingTypes
  <2>3. scroll' \in [on : BOOLEAN, start : PageNo, end : PageNo]
    <3>1. CASE start < Pages /\ end < Pages
      <4>1. start \in PageNo /\ end \in PageNo
        BY <3>1, PanelSizes DEF PageNo
      <4> QED
        BY <2>1, <3>1, <4>1
    <3>2. CASE ~(start < Pages /\ end < Pages)
      BY <2>1, <3>2 DEF TypeOK
    <3> QED
      BY <3>1, <3>2
  <2> QED
    BY <2>1, <2>2, <2>3 DEF TypeOK, Block, Segment, Byte, PageNo, Memory
<1>3. CASE ScrollText
  <2>1. PICK text \in Texts, inv \in BOOLEAN :
          /\ Cheap([op |-> "scroll_text", page |-> 0, text |-> text, invert |-> inv])
          /\ \/ Refuse
             \/ \E n, k :
                  /\ page' = Kept(page, ScrollImages(text, inv), 1 .. k)
                  /\ ram' = Displayed(ram, ScrollImages(text, inv), 1 .. n)
                  /\ result' \in {"OK", "FAILED"}
    BY ZenonT(90), <1>3 DEF ScrollText, ScrollImages
  <2>2. PICK m : ImagesOK(ScrollImages(text, inv), m)
    BY TextType, ScrollImagesOK
  <2>3. CASE Refuse
    BY <2>1, <2>3, RefuseTypes
  <2>4. CASE ~Refuse
    <3>1. page' \in Memory /\ ram' \in Memory /\ result' \in {"OK", "FAILED"}
      BY <1>0, <2>1, <2>2, <2>4, KeptMemory, FacingDisplayed
    <3> QED
      BY <2>1, <3>1, DrawingTypes
  <2> QED
    BY <2>3, <2>4
<1> QED
  BY <1>1, <1>2, <1>3

\* The texts of the text boxes.
LEMMA BoxTexts ==
    ASSUME NEW text \in Texts, NEW box \in 1 .. 2
    PROVE  /\ text \in Seq(Glyph)
           /\ Blank \in Glyph
           /\ Len([i \in 1 .. box |-> Blank]) = box
           /\ text \o [i \in 1 .. box |-> Blank] \in Seq(Glyph)
           /\ Len(text) >= box => /\ Len(SubSeq(text, 1, box)) = box
                                  /\ SubSeq(text, 1, box) \in Seq(Glyph)
                                  /\ SubSeq(text, box + 1, Len(text)) \in Seq(Glyph)
<1>1. text \in Seq(Glyph)
  BY TextType DEF Glyph
<1>2. Blank \in Glyph
  BY DEF Blank, Glyph, Byte
<1>3. [i \in 1 .. box |-> Blank] \in Seq(Glyph)
  <2>1. [i \in 1 .. box |-> Blank] \in [1 .. box -> Glyph] /\ box \in Nat
    BY <1>2
  <2> QED
    BY <2>1, SeqDef
<1>4. Len([i \in 1 .. box |-> Blank]) = box
  <2>1. box \in Nat /\ DOMAIN [i \in 1 .. box |-> Blank] = 1 .. box
    OBVIOUS
  <2> QED
    BY <2>1, <1>3, LenProperties, LenOfList
<1>5. ASSUME Len(text) >= box
      PROVE  /\ Len(SubSeq(text, 1, box)) = box
             /\ SubSeq(text, 1, box) \in Seq(Glyph)
             /\ SubSeq(text, box + 1, Len(text)) \in Seq(Glyph)
  BY <1>1, <1>5, SubSeqProperties, LenProperties
<1> QED
  BY <1>1, <1>2, <1>3, <1>4, <1>5, ConcatProperties

LEMMA BoxTypes ==
    ASSUME TypeOK, Banner \/ Ticker
    PROVE  TypeOK'
<1>0. flip \in BOOLEAN /\ page \in Memory /\ ram \in Memory
  BY DEF TypeOK
<1>1. ASSUME NEW c, c.page \in Nat, c.segment \in Nat, c.invert \in BOOLEAN,
             NEW first, Len(first) \in Nat, NEW rest \in Seq(Glyph), Costly(c), Marquee(c, first, rest)
      PROVE  TypeOK'
  <2>1. page' \in Memory /\ ram' \in Memory /\ result' \in {"OK", "REFUSED"}
    BY <1>0, <1>1, MarqueeMemory
  <2> QED
    BY <1>1, <2>1, DrawingTypes
<1>2. CASE Banner
  <2>1. PICK p \in BoxPages, segment \in {0, 1}, text \in Texts, box \in 1 .. 2, inv \in BOOLEAN :
           LET c == [op |-> "banner", page |-> p, segment |-> segment, text |-> text, box |-> box,
                     invert |-> inv]
           IN  /\ Len(text) >= box
               /\ Costly(c)
               /\ Marquee(c, SubSeq(text, 1, box), SubSeq(text, box + 1, Len(text)))
    BY <1>2 DEF Banner
  <2> DEFINE c == [op |-> "banner", page |-> p, segment |-> segment, text |-> text, box |-> box,
                   invert |-> inv]
  <2>2. c.page \in Nat /\ c.segment \in Nat /\ c.invert \in BOOLEAN /\ box \in Nat
    BY CallsAssumption
  <2>3. Len(text) >= box /\ Costly(c)
           /\ Marquee(c, SubSeq(text, 1, box), SubSeq(text, box + 1, Len(text)))
    BY <2>1
  <2> HIDE DEF c
  <2>4. /\ Len(SubSeq(text, 1, box)) \in Nat
        /\ SubSeq(text, box + 1, Len(text)) \in Seq(Glyph)
    BY <2>2, <2>3, BoxTexts
  <2> QED
    BY <1>1, <2>2, <2>3, <2>4
<1>3. CASE Ticker
  <2>1. PICK p \in BoxPages, text \in Texts, box \in 1 .. 2 :
           LET c == [op |-> "ticker", page |-> p, segment |-> 1, text |-> text, box |-> box,
                     invert |-> FALSE]
               blanks == [i \in 1 .. box |-> Blank]
           IN  Costly(c) /\ Marquee(c, blanks, text \o blanks)
    BY <1>3 DEF Ticker
  <2> DEFINE c == [op |-> "ticker", page |-> p, segment |-> 1, text |-> text, box |-> box,
                   invert |-> FALSE]
             blanks == [i \in 1 .. box |-> Blank]
  <2>2. c.page \in Nat /\ c.segment \in Nat /\ c.invert \in BOOLEAN /\ box \in Nat
    BY CallsAssumption
  <2>3. Costly(c) /\ Marquee(c, blanks, text \o blanks)
    BY <2>1
  <2>4. Len(blanks) \in Nat /\ text \o blanks \in Seq(Glyph)
    BY <2>2, BoxTexts
  <2> HIDE DEF c, blanks
  <2> QED
    BY <1>1, <2>2, <2>3, <2>4
<1> QED
  BY <1>2, <1>3

LEMMA StepTypes ==
    ASSUME TypeOK, [Next]_vars
    PROVE  TypeOK'
<1>1. CASE UNCHANGED vars
  BY <1>1 DEF vars, TypeOK, Block, Segment, Byte, PageNo, Memory
<1>2. CASE Next
  BY <1>2, HandleTypes, CommandTypes, CopyTypes, ShapeTypes, CodeTypes, TextTypes, MovementTypes,
     BoxTypes DEF Next
<1> QED
  BY <1>1, <1>2

\* Every byte of the buffer and of the display exists on every page, and the
\* pages that scroll are pages of the panel (ssd1306_set_software_scroll).
THEOREM TypeCorrect == Spec => []TypeOK
<1>1. Init => TypeOK
  <2> SUFFICES ASSUME Init
               PROVE  TypeOK
    OBVIOUS
  <2>1. PICK start \in Starts :
            /\ handle = IF start.used THEN "ready" ELSE "none"
            /\ page = start.page
            /\ ram = start.ram
            /\ scroll = start.scroll
            /\ enabled = start.used
    BY DEF Init
  <2>2. /\ start.used \in BOOLEAN /\ start.page \in Memory /\ start.ram \in Memory
        /\ start.scroll \in [on : BOOLEAN, start : PageNo, end : PageNo]
    BY CallsAssumption
  <2>3. copy \in [Block -> [Segment -> Byte]]
    BY DEF Init, Byte
  <2>4. cost \in 0 .. MaxCost
    BY DisplayAssumption DEF Init
  <2> QED
    BY <2>1, <2>2, <2>3, <2>4 DEF Init, TypeOK
<1>2. TypeOK /\ [Next]_vars => TypeOK'
  BY StepTypes
<1> QED
  BY <1>1, <1>2, PTL DEF Spec

-----------------------------------------------------------------------------
(* The refinement mapping, before and after a step.                        *)

\* The canvas has operators of its own for the same shapes.
LEMMA SameOperators ==
    /\ Canvas!Panel = Panel /\ Canvas!Height = Height /\ Canvas!Blank = Blank
    /\ \A k : Canvas!TextMax(k) = TextMax(k)
    /\ \A pixels : Canvas!OnPanel(pixels) = OnPanel(pixels)
    /\ \A a, b : /\ Canvas!Least(a, b) = Least(a, b)
                 /\ Canvas!Greatest(a, b) = Greatest(a, b)
                 /\ Canvas!Distance(a, b) = Distance(a, b)
    /\ \A x, y, bits : Canvas!Bitmap(x, y, bits) = Bitmap(x, y, bits)
BY DEF Canvas!Panel, Panel, Canvas!Height, Height, Canvas!Blank, Blank, Canvas!TextMax, TextMax,
       Canvas!OnPanel, OnPanel, Canvas!Least, Least, Canvas!Greatest, Greatest,
       Canvas!Distance, Distance, Canvas!Bitmap, Bitmap, Canvas!Arg, Arg

LEMMA SameOblique ==
    ASSUME NEW xa, NEW ya, NEW xb, NEW yb
    PROVE  Canvas!Oblique(xa, ya, xb, yb) = Oblique(xa, ya, xb, yb)
BY DEF Canvas!Oblique, Oblique, Canvas!LineStep, LineStep, Canvas!Distance, Distance,
       Canvas!Height, Height

LEMMA SameLine ==
    ASSUME NEW xa, NEW ya, NEW xb, NEW yb
    PROVE  Canvas!Line(xa, ya, xb, yb) = Line(xa, ya, xb, yb)
BY SameOblique DEF Canvas!Line, Line, Canvas!Clamped, Clamped, Canvas!Height, Height,
       Canvas!Least, Least, Canvas!Greatest, Greatest

LEMMA SameOctant ==
    ASSUME NEW r
    PROVE  Canvas!Octant(r) = Octant(r)
BY DEF Canvas!Octant, Octant, Canvas!CircleStep, CircleStep

LEMMA SameCircle ==
    ASSUME NEW x, NEW y, NEW r
    PROVE  Canvas!Circle(x, y, r) = Circle(x, y, r)
<1>1. \A d : Canvas!Mirrored(d) = Mirrored(d)
  BY DEF Canvas!Mirrored, Mirrored
<1> QED
  BY <1>1, SameOctant DEF Canvas!Circle, Circle, Canvas!OnPanel, OnPanel, Canvas!Arg, Arg,
      Canvas!Panel, Panel, Canvas!Height, Height
LEMMA SameDisc ==
    ASSUME NEW x, NEW y, NEW r
    PROVE  Canvas!Disc(x, y, r) = Disc(x, y, r)
<1>1. \A d : Canvas!Mirrored(d) = Mirrored(d)
  BY DEF Canvas!Mirrored, Mirrored
<1> QED
  BY <1>1, SameOctant, SameLine DEF Canvas!Disc, Disc, Canvas!OnPanel, OnPanel, Canvas!Arg, Arg,
      Canvas!Panel, Panel, Canvas!Height, Height

LEMMA SameRectangles ==
    ASSUME NEW x, NEW y, NEW w, NEW h
    PROVE  /\ Canvas!Rectangle(x, y, w, h) = Rectangle(x, y, w, h)
           /\ Canvas!FilledRectangle(x, y, w, h) = FilledRectangle(x, y, w, h)
BY SameLine DEF Canvas!Rectangle, Rectangle, Canvas!FilledRectangle, FilledRectangle,
   Canvas!Extent, Extent, Canvas!Height, Height

Mapped == Picture = Seen(page) /\ Shown = Seen(Facing(ram))

LEMMA Mapping == TypeOK => Mapped
BY PictureIsSeen, ShownIsSeen DEF TypeOK, Mapped

LEMMA MappingAfter ==
    TypeOK' /\ flip' = flip => Picture' = Seen(page') /\ Shown' = Seen(Facing(ram'))
<1>1. TypeOK' => Mapped'
  BY Mapping, PTL
<1>2. flip' = flip => Seen(page)' = Seen(page') /\ Seen(Facing(ram))' = Seen(Facing(ram'))
  BY DEF Seen, Bit, Canvas!PageAt, Panel, Height, Facing, Mirror, PageNo
<1> QED
  BY <1>1, <1>2 DEF Mapped

\* A step of the canvas in which the settings stay as they are.
LEMMA Painted ==
    ASSUME TypeOK, NEW c, Cheap(c) \/ Costly(c), Canvas!Step(c),
           c.op \notin {"init", "enable", "disable", "hardware_scroll", "set_scroll", "get_pages"}
    PROVE  Canvas!Next
<1>1. /\ call' = c /\ flip' = flip /\ scroll' = scroll /\ enabled' = enabled /\ moving' = moving
  BY DEF Cheap, Costly, Calling, Settings
<1>3. Canvas!Step(call')
  BY <1>1
<1>4. enabled \in BOOLEAN
  BY DEF TypeOK
<1>5. scroll' = CASE call'.op = "init" /\ result' = "OK" -> Canvas!NoScroll
                   [] call'.op = "set_scroll" ->
                        IF call'.start < Pages /\ call'.end < Pages
                        THEN [on |-> TRUE, start |-> call'.start, end |-> call'.end]
                        ELSE [scroll EXCEPT !.on = FALSE]
                   [] OTHER -> scroll
  BY <1>1
<1>6. enabled' = IF result' # "OK" THEN enabled
                 ELSE (call'.op \in {"init", "enable"} \/ enabled) /\ call'.op # "disable"
  BY <1>1, <1>4
<1>7. moving' = CASE result' = "OK" /\ call'.op = "init" -> "no"
                   [] result' = "OK" /\ call'.op = "hardware_scroll" -> call'.dir
                   [] OTHER -> moving
  BY <1>1
<1> QED
  BY <1>1, <1>3, <1>5, <1>6, <1>7 DEF Canvas!Next

-----------------------------------------------------------------------------
(* Transfers, as they are seen.                                            *)

LEMMA NothingLanded ==
    ASSUME flip \in BOOLEAN, NEW memory \in Memory, NEW images
    PROVE  Kept(memory, images, {}) = memory /\ Displayed(memory, images, {}) = memory
<1>1. memory = [p \in PageNo |-> [s \in Segment |-> memory[p][s]]]
  BY DEF Memory
<1>2. \A p, s : Covering(images, p, s) \cap {} = {}
  OBVIOUS
<1> QED
  BY <1>1, <1>2 DEF Kept, Displayed, Written

\* The images that are sent cover the pixels T, and all of those that cover
\* a pixel have there what goal says.
Agree(images, sent, T, goal) ==
    /\ \A q \in Panel : \A i \in Covering(images, Canvas!PageAt(q), q[1]) \cap sent :
          /\ q \in T
          /\ q \in goal <=> Bit(q[2] % Rows) \in images[i].bytes[q[1] - images[i].segment]
    /\ \A q \in T : Covering(images, Canvas!PageAt(q), q[1]) \cap sent # {}

LEMMA AgreeSays ==
    ASSUME NEW images, NEW n, ImagesOK(images, n), NEW sent, NEW T \in SUBSET Panel, NEW goal,
           Agree(images, sent, T, goal)
    PROVE  LastSays(images, sent, T, goal)
<1>1. ASSUME NEW q \in Panel
      PROVE  LET by == Covering(images, Canvas!PageAt(q), q[1]) \cap sent
                 last == Max(by)
             IN  /\ q \in T <=> by # {}
                 /\ by # {} => (q \in goal <=>
                       Bit(q[2] % Rows) \in images[last].bytes[q[1] - images[last].segment])
  <2> DEFINE by == Covering(images, Canvas!PageAt(q), q[1]) \cap sent
  <2>1. by # {} => Max(by) \in by
    BY LastCovering
  <2>2. \A i \in by : /\ q \in T
                      /\ q \in goal <=> Bit(q[2] % Rows) \in images[i].bytes[q[1] - images[i].segment]
    BY DEF Agree
  <2>3. q \in T => by # {}
    BY DEF Agree
  <2> HIDE DEF by
  <2>4. q \in T <=> by # {}
    BY <2>2, <2>3
  <2>5. by # {} => (q \in goal <=>
                Bit(q[2] % Rows) \in images[Max(by)].bytes[q[1] - images[Max(by)].segment])
    BY <2>1, <2>2
  <2> QED
    BY <2>4, <2>5 DEF by
<1> QED
  BY <1>1, Zenon DEF LastSays

LEMMA LandedAlike ==
    ASSUME flip \in BOOLEAN, NEW memory \in Memory, NEW images, NEW n, ImagesOK(images, n),
           NEW sent, NEW T \in SUBSET Panel, NEW goal, Agree(images, sent, T, goal)
    PROVE  Seen(Kept(memory, images, sent)) = Canvas!Over(Seen(memory), T, goal)
BY AgreeSays, Landed

LEMMA AcceptedBelow ==
    ASSUME NEW images, NEW n, ImagesOK(images, n), Len(images) = n
    PROVE  /\ Accepted(images) \in 0 .. n
           /\ \A i \in 1 .. n : images[i].page >= Pages => Accepted(images) < i
           /\ (\A i \in 1 .. n : ~(images[i].page >= Pages)) => Accepted(images) = n
<1> DEFINE refused == {i \in DOMAIN images : images[i].page >= Pages}
<1>1. n \in Nat /\ DOMAIN images = 1 .. n
  BY DEF ImagesOK
<1>2. CASE refused = {}
  <2>1. Accepted(images) = n
    BY <1>2 DEF Accepted
  <2> QED
    BY <1>1, <1>2, <2>1
<1>3. CASE refused # {}
  <2>1. refused \in SUBSET Nat /\ refused \subseteq 1 .. n
    BY <1>1
  <2>2. Min(refused) \in refused /\ \A i \in refused : Min(refused) <= i
    BY <1>3, <2>1, LeastOf, Zenon
  <2>3. Accepted(images) = Min(refused) - 1
    BY <1>3 DEF Accepted
  <2>4. Min(refused) \in 1 .. n /\ \A i \in 1 .. n : images[i].page >= Pages => Min(refused) <= i
    BY <1>1, <2>1, <2>2
  <2>5. ~\A i \in 1 .. n : ~(images[i].page >= Pages)
    BY <1>1, <1>3
  <2> HIDE DEF refused
  <2> QED
    BY <1>1, <2>3, <2>4, <2>5
<1> QED
  BY <1>2, <1>3

LEMMA TransferSeen ==
    ASSUME TypeOK, TypeOK', flip' = flip,
           NEW images, NEW n, ImagesOK(images, n), Len(images) = n, NEW pg, Transfer(pg, images)
    PROVE  \E k \in 0 .. Accepted(images) :
               /\ Picture' = Seen(Kept(pg, images, 1 .. k))
               /\ Shown' = Seen(Kept(Facing(ram), images, 1 .. k))
               /\ result' = IF k = n THEN "OK" ELSE "FAILED"
<1>1. Accepted(images) \in Nat
  BY AcceptedBelow DEF ImagesOK
<1>2. PICK k \in 0 .. Accepted(images) :
          /\ page' = Kept(pg, images, 1 .. k)
          /\ ram' = Displayed(ram, images, 1 .. k)
          /\ result' = IF k = n THEN "OK" ELSE "FAILED"
  <2>1. \A k \in 0 .. IF handle = "ready" THEN Accepted(images) ELSE 0 : k \in 0 .. Accepted(images)
    BY <1>1
  <2> QED
    BY <2>1 DEF Transfer
<1>3. Facing(ram') = Kept(Facing(ram), images, 1 .. k)
  BY <1>2, FacingDisplayed DEF TypeOK
<1>4. Picture' = Seen(page') /\ Shown' = Seen(Facing(ram'))
  BY MappingAfter
<1> QED
  BY <1>2, <1>3, <1>4

\* Pages that the driver shows from the top downwards.
LEMMA WholePagesSeen ==
    ASSUME flip \in BOOLEAN, NEW pg \in Memory, NEW memory \in Memory, NEW n \in 0 .. Pages
    PROVE  Seen(Kept(memory, WholePages(pg), 1 .. n)) =
               Canvas!Over(Seen(memory), {q \in Panel : Canvas!PageAt(q) < n}, Seen(pg))
<1> DEFINE images == WholePages(pg)
           T == {q \in Panel : Canvas!PageAt(q) < n}
<1>1. ImagesOK(images, Pages) /\ T \in SUBSET Panel /\ Pages \in Nat
  BY WholePagesOK, PanelSizes
<1>2. DOMAIN images = 1 .. Pages /\ \A i \in 1 .. Pages : images[i] = Image(i - 1, 0, pg[i - 1])
  BY DEF WholePages
<1> HIDE DEF images
<1>3. ASSUME NEW q \in Panel
      PROVE  /\ Canvas!PageAt(q) \in PageNo /\ Canvas!PageAt(q) + 1 \in 1 .. Pages
             /\ Covering(images, Canvas!PageAt(q), q[1]) = {Canvas!PageAt(q) + 1}
             /\ images[Canvas!PageAt(q) + 1].bytes[q[1] - images[Canvas!PageAt(q) + 1].segment] =
                    pg[Canvas!PageAt(q)][q[1]]
  <2> DEFINE p == Canvas!PageAt(q)
  <2>1. p \in PageNo /\ q[1] \in Segment
    BY PixelOnPage
  <2> HIDE DEF p
  <2>2. p + 1 \in 1 .. Pages /\ p + 1 - 1 = p /\ q[1] - 0 = q[1]
    BY <2>1, PanelSizes DEF PageNo, Segment
  <2>3. images[p + 1] = Image(p, 0, pg[p])
    <3> DEFINE i == p + 1
    <3>1. i \in 1 .. Pages /\ i - 1 = p
      BY <2>1, <2>2, PanelSizes DEF PageNo
    <3> HIDE DEF i
    <3>2. images[i] = Image(i - 1, 0, pg[i - 1])
      BY <1>2, <3>1
    <3> QED
      BY <3>1, <3>2 DEF i
  <2>4. DOMAIN pg[p] = Segment
    BY <2>1 DEF Memory
  <2>5. \A i \in 1 .. Pages : images[i].page = p <=> i = p + 1
    BY <1>2, <2>1 DEF Image, PageNo
  <2>6. q[1] - images[p + 1].segment \in DOMAIN images[p + 1].bytes
    BY <2>1, <2>2, <2>3, <2>4 DEF Image
  <2>7. Covering(images, p, q[1]) = {p + 1}
    BY <1>2, <2>2, <2>5, <2>6 DEF Covering
  <2>8. images[p + 1].bytes[q[1] - images[p + 1].segment] = pg[p][q[1]]
    BY <2>2, <2>3 DEF Image
  <2> QED
    BY <2>1, <2>2, <2>7, <2>8 DEF p
<1>4. ASSUME NEW q \in Panel, NEW i \in Covering(images, Canvas!PageAt(q), q[1]) \cap (1 .. n)
      PROVE  /\ q \in T
             /\ q \in Seen(pg) <=> Bit(q[2] % Rows) \in images[i].bytes[q[1] - images[i].segment]
  <2>1. i = Canvas!PageAt(q) + 1 /\ i \in 1 .. n /\ Canvas!PageAt(q) \in Int
    BY <1>3 DEF PageNo
  <2> QED
    BY <1>3, <2>1 DEF Seen
<1>5. ASSUME NEW q \in T
      PROVE  Covering(images, Canvas!PageAt(q), q[1]) \cap (1 .. n) # {}
  <2>1. Canvas!PageAt(q) + 1 \in 1 .. n
    BY <1>3, PanelSizes DEF PageNo
  <2> QED
    BY <1>3, <2>1
<1>6. Agree(images, 1 .. n, T, Seen(pg))
  BY <1>4, <1>5 DEF Agree
<1> HIDE DEF T
<1>8. Seen(Kept(memory, images, 1 .. n)) = Canvas!Over(Seen(memory), T, Seen(pg))
  BY <1>1, <1>6, LandedAlike
<1> QED
  BY <1>8 DEF images, T

LEMMA LeaveSeen ==
    ASSUME TypeOK, TypeOK', flip' = flip, NEW pg \in Memory, NEW show \in BOOLEAN, Leave(pg, show)
    PROVE  IF show THEN Canvas!DrawAndShow(Seen(pg)) ELSE Canvas!Draw(Seen(pg))
<1>1. flip \in BOOLEAN /\ Facing(ram) \in Memory
  BY FacingMemory DEF TypeOK
<1>2. Picture' = Seen(page') /\ Shown' = Seen(Facing(ram')) /\ Shown = Seen(Facing(ram))
  BY Mapping, MappingAfter DEF Mapped
<1>3. CASE ~show
  BY <1>2, <1>3 DEF Leave, Canvas!Draw
<1>4. CASE show
  <2>1. ImagesOK(WholePages(pg), Pages) /\ Len(WholePages(pg)) = Pages
    BY WholePagesOK
  <2>2. Accepted(WholePages(pg)) \in 0 .. Pages /\ Pages \in Nat
    BY <2>1, AcceptedBelow, PanelSizes
  <2>3. PICK k \in 0 .. Accepted(WholePages(pg)) :
            /\ Picture' = Seen(Kept(pg, WholePages(pg), 1 .. k))
            /\ Shown' = Seen(Kept(Facing(ram), WholePages(pg), 1 .. k))
            /\ result' = IF k = Pages THEN "OK" ELSE "FAILED"
    BY <1>4, <2>1, TransferSeen DEF Leave
  <2>4. k \in 0 .. Pages
    BY <2>2
  <2>5. Picture' = Seen(pg)
    <3>1. Picture' = Canvas!Over(Seen(pg), {q \in Panel : Canvas!PageAt(q) < k}, Seen(pg))
      BY <1>1, <2>3, <2>4, WholePagesSeen
    <3> QED
      BY <3>1 DEF Canvas!Over
  <2>6. Shown' = Canvas!Over(Shown, {q \in Panel : Canvas!PageAt(q) < k}, Seen(pg))
    BY <1>1, <1>2, <2>3, <2>4, WholePagesSeen
  <2>7. Canvas!DrawAndShow(Seen(pg))
    BY <2>3, <2>4, <2>5, <2>6, SameOperators DEF Canvas!DrawAndShow, Canvas!Returns
  <2> QED
    BY <1>4, <2>7
<1> QED
  BY <1>3, <1>4

\* What ssd1306_set_pixel leaves is the picture with the pixels set or not.
LEMMA PlotSeen ==
    ASSUME flip \in BOOLEAN, page \in Memory, NEW pixels, NEW invert \in BOOLEAN
    PROVE  Seen(Plot(page, OnPanel(pixels), invert)) = Canvas!Drawn(OnPanel(pixels), invert)
<1> DEFINE S == OnPanel(pixels)
<1>1. Picture = Seen(page)
  BY PictureIsSeen
<1>2. S \subseteq Panel
  BY DEF OnPanel
<1> HIDE DEF S
<1>3. ASSUME NEW q \in Panel
      PROVE  q \in Seen(Plot(page, S, invert)) <=> q \in Canvas!Drawn(S, invert)
  <2> DEFINE p == Canvas!PageAt(q)
             b == q[2] % Rows
             row == {j \in 0 .. Rows - 1 : <<q[1], p * Rows + j>> \in S}
  <2>1. p \in PageNo /\ q[1] \in Segment /\ b \in 0 .. Rows - 1 /\ q = <<q[1], q[2]>>
        /\ q[2] = Rows * p + b
    BY PixelOnPage
  <2>2. q \in Seen(page) <=> Bit(b) \in page[p][q[1]]
    BY DEF Seen
  <2>3. q \in Seen(Plot(page, S, invert)) <=> Bit(b) \in Plot(page, S, invert)[p][q[1]]
    BY DEF Seen
  <2> HIDE DEF p, b
  <2>4. Plot(page, S, invert)[p][q[1]] =
            IF invert THEN page[p][q[1]] \ Upright(row) ELSE page[p][q[1]] \cup Upright(row)
    BY <2>1 DEF Plot
  <2>5. row \in Byte
    BY DEF Byte
  <2>6. b \in row <=> q \in S
    <3>1. p * Rows + b = q[2]
      BY <2>1, PanelSizes DEF PageNo
    <3> QED
      BY <2>1, <3>1
  <2> HIDE DEF row
  <2>7. Bit(b) \in Upright(row) <=> b \in row
    <3>1. /\ \A j \in 0 .. Rows - 1 :
                 /\ Bit(j) \in 0 .. Rows - 1 /\ Bit(Bit(j)) = j
                 /\ j \in Upright(row) <=> Bit(j) \in row
      BY <2>5, UprightBits
    <3> QED
      BY <2>1, <3>1
  <2> QED
    BY <1>1, <2>2, <2>3, <2>4, <2>6, <2>7 DEF Canvas!Drawn
<1>4. Canvas!Drawn(S, invert) \subseteq Panel /\ Seen(Plot(page, S, invert)) \subseteq Panel
  BY <1>1, <1>2 DEF Canvas!Drawn, Seen
<1> QED
  BY <1>3, <1>4 DEF S

-----------------------------------------------------------------------------
(* Shapes.                                                                 *)

LEMMA CallKeepsFlip ==
    ASSUME NEW c, Cheap(c) \/ Costly(c)
    PROVE  flip' = flip
BY DEF Cheap, Costly, Calling

LEMMA StillPicture ==
    ASSUME TypeOK, TypeOK', flip' = flip, page' = page, ram' = ram
    PROVE  Canvas!Keep
<1>1. Picture' = Seen(page') /\ Shown' = Seen(Facing(ram'))
  BY MappingAfter
<1> QED
  BY <1>1, Mapping DEF Mapped, Canvas!Keep

LEMMA RefuseMaps ==
    ASSUME TypeOK, TypeOK', flip' = flip, Refuse
    PROVE  Canvas!Refuse
BY StillPicture DEF Refuse, Canvas!Refuse

LEMMA DrawMaps ==
    ASSUME TypeOK, TypeOK', NEW c, c.invert \in BOOLEAN, c.show \in BOOLEAN,
           NEW pixels, Draw(c, pixels)
    PROVE  IF c.show THEN Canvas!DrawAndShow(Canvas!Drawn(OnPanel(pixels), c.invert))
           ELSE Canvas!Draw(Canvas!Drawn(OnPanel(pixels), c.invert))
<1>1. flip \in BOOLEAN /\ page \in Memory /\ flip' = flip
  BY CallKeepsFlip DEF Draw, TypeOK
<1>2. Plot(page, OnPanel(pixels), c.invert) \in Memory
  BY <1>1, PlotMemory
<1>3. Seen(Plot(page, OnPanel(pixels), c.invert)) = Canvas!Drawn(OnPanel(pixels), c.invert)
  BY <1>1, PlotSeen
<1>4. Leave(Plot(page, OnPanel(pixels), c.invert), c.show)
  BY DEF Draw
<1>5. LET pg == Plot(page, OnPanel(pixels), c.invert)
      IN  IF c.show THEN Canvas!DrawAndShow(Seen(pg)) ELSE Canvas!Draw(Seen(pg))
  BY <1>1, <1>2, <1>4, LeaveSeen
<1> QED
  BY <1>3, <1>5

ShapeOps == {"pixel", "line", "circle", "disc", "rectangle", "filled_rectangle"}

LEMMA ShapeMaps ==
    ASSUME TypeOK, TypeOK', NEW c, c.op \in ShapeOps, c.invert \in BOOLEAN, c.show \in BOOLEAN,
           Draw(c, Canvas!Pixels(c)),
           c.op \in {"pixel", "rectangle", "filled_rectangle"} => <<c.x, c.y>> \in Panel
    PROVE  Canvas!Next
<1>1. IF c.show THEN Canvas!DrawAndShow(Canvas!Drawn(OnPanel(Canvas!Pixels(c)), c.invert))
      ELSE Canvas!Draw(Canvas!Drawn(OnPanel(Canvas!Pixels(c)), c.invert))
  BY DrawMaps
<1>2. Canvas!Shape(c)
  BY <1>1, SameOperators DEF Canvas!Shape
<1>3. Canvas!Step(c)
  BY <1>2 DEF Canvas!Step, ShapeOps
<1> QED
  BY <1>3, Painted DEF Draw, ShapeOps

LEMMA OutsideMaps ==
    ASSUME TypeOK, TypeOK', NEW c, c.op \in {"pixel", "rectangle", "filled_rectangle"},
           <<c.x, c.y>> \notin Panel, Costly(c), Refuse
    PROVE  Canvas!Next
<1>1. Canvas!Refuse
  BY CallKeepsFlip, RefuseMaps
<1>2. Canvas!Shape(c)
  BY <1>1, SameOperators DEF Canvas!Shape
<1>3. Canvas!Step(c)
  BY <1>2 DEF Canvas!Step
<1> QED
  BY <1>3, Painted

LEMMA ShapesMap ==
    ASSUME TypeOK, TypeOK', \/ SetPixel \/ SetLine \/ SetCircle \/ FillCircle
                            \/ SetRectangle \/ FillRectangle
    PROVE  Canvas!Next
<1>1. \A p \in Points : p = <<p[1], p[2]>>
  BY CallsAssumption
<1>2. CASE SetPixel
  <2>1. PICK p \in Points, inv \in BOOLEAN :
          LET c == [op |-> "pixel", x |-> p[1], y |-> p[2], invert |-> inv, show |-> FALSE]
          IN  IF p \in Panel THEN Draw(c, {p}) ELSE Costly(c) /\ Refuse
    BY <1>2 DEF SetPixel
  <2> DEFINE c == [op |-> "pixel", x |-> p[1], y |-> p[2], invert |-> inv, show |-> FALSE]
  <2>2. c.op = "pixel" /\ <<c.x, c.y>> = p /\ c.invert \in BOOLEAN /\ c.show \in BOOLEAN
    BY <1>1
  <2>3. Canvas!Pixels(c) = {p}
    BY <2>2 DEF Canvas!Pixels
  <2>4. IF p \in Panel THEN Draw(c, {p}) ELSE Costly(c) /\ Refuse
    BY <2>1
  <2> HIDE DEF c
  <2> QED
    BY <2>2, <2>3, <2>4, ShapeMaps, OutsideMaps DEF ShapeOps
<1>3. CASE SetLine
  <2>1. PICK p, q \in Points, inv \in BOOLEAN :
          Draw([op |-> "line", x |-> p[1], y |-> p[2], w |-> q[1], h |-> q[2], invert |-> inv,
                show |-> FALSE], Line(p[1], p[2], q[1], q[2]))
    BY <1>3 DEF SetLine
  <2> DEFINE c == [op |-> "line", x |-> p[1], y |-> p[2], w |-> q[1], h |-> q[2], invert |-> inv,
                   show |-> FALSE]
  <2>2. /\ c.op \in ShapeOps /\ c.invert \in BOOLEAN /\ c.show \in BOOLEAN
        /\ c.op \notin {"pixel", "rectangle", "filled_rectangle"}
    BY DEF ShapeOps
  <2>3. Canvas!Pixels(c) = Line(p[1], p[2], q[1], q[2])
    BY SameLine DEF Canvas!Pixels
  <2>4. Draw(c, Canvas!Pixels(c))
    BY <2>1, <2>3
  <2> HIDE DEF c
  <2> QED
    BY <2>2, <2>4, ShapeMaps
<1>4. CASE SetCircle
  <2>1. PICK p \in Points, r \in Radii, inv, show \in BOOLEAN :
          Draw([op |-> "circle", x |-> p[1], y |-> p[2], w |-> r, invert |-> inv, show |-> show],
               Circle(p[1], p[2], r))
    BY <1>4 DEF SetCircle
  <2> DEFINE c == [op |-> "circle", x |-> p[1], y |-> p[2], w |-> r, invert |-> inv, show |-> show]
  <2>2. /\ c.op \in ShapeOps /\ c.invert \in BOOLEAN /\ c.show \in BOOLEAN
        /\ c.op \notin {"pixel", "rectangle", "filled_rectangle"}
    BY DEF ShapeOps
  <2>3. Canvas!Pixels(c) = Circle(p[1], p[2], r)
    BY SameCircle DEF Canvas!Pixels
  <2>4. Draw(c, Canvas!Pixels(c))
    BY <2>1, <2>3
  <2> HIDE DEF c
  <2> QED
    BY <2>2, <2>4, ShapeMaps
<1>5. CASE FillCircle
  <2>1. PICK p \in Points, r \in Radii, inv \in BOOLEAN :
          Draw([op |-> "disc", x |-> p[1], y |-> p[2], w |-> r, invert |-> inv, show |-> TRUE],
               Disc(p[1], p[2], r))
    BY <1>5 DEF FillCircle
  <2> DEFINE c == [op |-> "disc", x |-> p[1], y |-> p[2], w |-> r, invert |-> inv, show |-> TRUE]
  <2>2. /\ c.op \in ShapeOps /\ c.invert \in BOOLEAN /\ c.show \in BOOLEAN
        /\ c.op \notin {"pixel", "rectangle", "filled_rectangle"}
    BY DEF ShapeOps
  <2>3. Canvas!Pixels(c) = Disc(p[1], p[2], r)
    BY SameDisc DEF Canvas!Pixels
  <2>4. Draw(c, Canvas!Pixels(c))
    BY <2>1, <2>3
  <2> HIDE DEF c
  <2> QED
    BY <2>2, <2>4, ShapeMaps
<1>6. CASE SetRectangle
  <2>1. PICK p \in Points, w, h \in Sizes, inv, show \in BOOLEAN :
          LET c == [op |-> "rectangle", x |-> p[1], y |-> p[2], w |-> w, h |-> h,
                    invert |-> inv, show |-> show]
          IN  IF p \in Panel THEN Draw(c, Rectangle(p[1], p[2], w, h)) ELSE Costly(c) /\ Refuse
    BY <1>6 DEF SetRectangle
  <2> DEFINE c == [op |-> "rectangle", x |-> p[1], y |-> p[2], w |-> w, h |-> h,
                   invert |-> inv, show |-> show]
  <2>2. c.op = "rectangle" /\ <<c.x, c.y>> = p /\ c.invert \in BOOLEAN /\ c.show \in BOOLEAN
    BY <1>1
  <2>3. Canvas!Pixels(c) = Rectangle(p[1], p[2], w, h)
    BY SameRectangles DEF Canvas!Pixels
  <2>4. IF p \in Panel THEN Draw(c, Canvas!Pixels(c)) ELSE Costly(c) /\ Refuse
    BY <2>1, <2>3
  <2> HIDE DEF c
  <2> QED
    BY <2>2, <2>4, ShapeMaps, OutsideMaps DEF ShapeOps
<1>7. CASE FillRectangle
  <2>1. PICK p \in Points, w, h \in Sizes, inv \in BOOLEAN :
          LET c == [op |-> "filled_rectangle", x |-> p[1], y |-> p[2], w |-> w, h |-> h,
                    invert |-> inv, show |-> TRUE]
          IN  IF p \in Panel THEN Draw(c, FilledRectangle(p[1], p[2], w, h)) ELSE Costly(c) /\ Refuse
    BY <1>7 DEF FillRectangle
  <2> DEFINE c == [op |-> "filled_rectangle", x |-> p[1], y |-> p[2], w |-> w, h |-> h,
                   invert |-> inv, show |-> TRUE]
  <2>2. c.op = "filled_rectangle" /\ <<c.x, c.y>> = p /\ c.invert \in BOOLEAN /\ c.show \in BOOLEAN
    BY <1>1
  <2>3. Canvas!Pixels(c) = FilledRectangle(p[1], p[2], w, h)
    BY SameRectangles DEF Canvas!Pixels
  <2>4. IF p \in Panel THEN Draw(c, Canvas!Pixels(c)) ELSE Costly(c) /\ Refuse
    BY <2>1, <2>3
  <2> HIDE DEF c
  <2> QED
    BY <2>2, <2>4, ShapeMaps, OutsideMaps DEF ShapeOps
<1> QED
  BY <1>2, <1>3, <1>4, <1>5, <1>6, <1>7

LEMMA BitmapMaps ==
    ASSUME TypeOK, TypeOK', NEW c, c.op = "bitmap", c.invert \in BOOLEAN, c.show \in BOOLEAN,
           Draw(c, Bitmap(c.x, c.y, c.bits))
    PROVE  Canvas!Next
<1>1. OnPanel(Bitmap(c.x, c.y, c.bits)) = Canvas!Bitmap(c.x, c.y, c.bits)
  BY SameOperators DEF Bitmap, OnPanel
<1>2. IF c.show THEN Canvas!DrawAndShow(Canvas!Drawn(Canvas!Bitmap(c.x, c.y, c.bits), c.invert))
      ELSE Canvas!Draw(Canvas!Drawn(Canvas!Bitmap(c.x, c.y, c.bits), c.invert))
  BY <1>1, DrawMaps
<1>3. Canvas!Step(c)
  BY <1>2 DEF Canvas!Step
<1> QED
  BY <1>3, Painted DEF Draw

LEMMA BitmapsMap ==
    ASSUME TypeOK, TypeOK', SetBitmap \/ DisplayBdfText
    PROVE  Canvas!Next
<1>1. CASE SetBitmap
  <2>1. PICK p \in Points, bits \in Bitmaps, inv, show \in BOOLEAN :
          Draw([op |-> "bitmap", x |-> p[1], y |-> p[2], bits |-> bits, invert |-> inv, show |-> show],
               Bitmap(p[1], p[2], bits))
    BY <1>1 DEF SetBitmap
  <2> QED
    BY <2>1, BitmapMaps
<1>2. CASE DisplayBdfText
  <2>1. PICK p \in Points, text \in [1 .. 2 -> DOMAIN Font \cup {"unknown"}] :
          Draw([op |-> "bitmap", x |-> p[1], y |-> p[2], bits |-> Layout(text), invert |-> FALSE,
                show |-> TRUE], Bitmap(p[1], p[2], Layout(text)))
    BY <1>2 DEF DisplayBdfText
  <2> DEFINE c == [op |-> "bitmap", x |-> p[1], y |-> p[2], bits |-> Layout(text), invert |-> FALSE,
                   show |-> TRUE]
  <2>2. /\ c.op = "bitmap" /\ c.invert \in BOOLEAN /\ c.show \in BOOLEAN
        /\ Bitmap(p[1], p[2], Layout(text)) = Bitmap(c.x, c.y, c.bits)
    OBVIOUS
  <2>3. Draw(c, Bitmap(c.x, c.y, c.bits))
    BY <2>1, <2>2
  <2> HIDE DEF c
  <2> QED
    BY <2>2, <2>3, BitmapMaps
<1> QED
  BY <1>1, <1>2

LEMMA CodeMaps ==
    ASSUME TypeOK, TypeOK', DisplayBdfCode
    PROVE  Canvas!Next
<1>1. PICK p \in Points, ch \in DOMAIN Font \cup {"unknown"} :
          LET bits == Layout(<<ch>>)
              pg == Plot(page, Bitmap(p[1], p[2], bits), FALSE)
          IN  /\ Costly([op |-> "code", x |-> p[1], y |-> p[2], bits |-> bits,
                         known |-> ch \in DOMAIN Font])
              /\ IF ch \notin DOMAIN Font
                 THEN UNCHANGED <<page, ram>> /\ result' = "FAILED"
                 ELSE /\ page' = pg
                      /\ result' = "OK"
                      /\ \E n \in 0 .. IF handle = "ready" THEN Pages ELSE 0 :
                          ram' = Displayed(ram, WholePages(pg), 1 .. n)
  BY DEF DisplayBdfCode
<1> DEFINE bits == Layout(<<ch>>)
           c == [op |-> "code", x |-> p[1], y |-> p[2], bits |-> bits, known |-> ch \in DOMAIN Font]
           pg == Plot(page, Bitmap(p[1], p[2], bits), FALSE)
<1>2. /\ c.op = "code" /\ c.bits = bits /\ c.x = p[1] /\ c.y = p[2] /\ c.known = (ch \in DOMAIN Font)
      /\ Costly(c)
  BY <1>1
<1>3. flip' = flip /\ flip \in BOOLEAN /\ page \in Memory /\ ram \in Memory /\ Facing(ram) \in Memory
  BY <1>2, CallKeepsFlip, FacingMemory DEF TypeOK
<1> HIDE DEF c
<1>4. CASE ch \notin DOMAIN Font
  <2>1. UNCHANGED <<page, ram>> /\ result' = "FAILED"
    BY <1>1, <1>4
  <2>2. Canvas!Keep
    BY <1>3, <2>1, StillPicture
  <2>3. Canvas!Step(c)
    BY <1>2, <1>4, <2>1, <2>2 DEF Canvas!Step
  <2> QED
    BY <1>2, <2>3, Painted
<1>5. CASE ch \in DOMAIN Font
  <2>1. PICK n \in 0 .. IF handle = "ready" THEN Pages ELSE 0 :
            ram' = Displayed(ram, WholePages(pg), 1 .. n)
    BY <1>1, <1>5
  <2>2. page' = pg /\ result' = "OK"
    BY <1>1, <1>5
  <2>3. n \in 0 .. Pages
    BY <2>1, PanelSizes
  <2>4. OnPanel(Bitmap(p[1], p[2], bits)) = Bitmap(p[1], p[2], bits)
    BY DEF OnPanel, Bitmap
  <2>5. Seen(pg) = Canvas!Drawn(Bitmap(p[1], p[2], bits), FALSE)
    BY <1>3, <2>4, PlotSeen
  <2>6. pg \in Memory
    BY <1>3, PlotMemory
  <2> HIDE DEF pg
  <2>7. Facing(ram') = Kept(Facing(ram), WholePages(pg), 1 .. n)
    BY <1>3, <2>1, <2>6, WholePagesOK, FacingDisplayed
  <2>8. Seen(Kept(Facing(ram), WholePages(pg), 1 .. n)) =
            Canvas!Over(Seen(Facing(ram)), {q \in Panel : Canvas!PageAt(q) < n}, Seen(pg))
    BY <1>3, <2>3, <2>6, WholePagesSeen
  <2>9. Picture' = Seen(pg) /\ Shown' = Seen(Facing(ram')) /\ Shown = Seen(Facing(ram))
    BY <1>3, <2>2, Mapping, MappingAfter DEF Mapped
  <2>10. Picture' = Picture \cup Canvas!Bitmap(c.x, c.y, c.bits)
    BY <1>2, <2>5, <2>9, SameOperators DEF Canvas!Drawn
  <2>11. Shown' = Canvas!Over(Shown, {q \in Canvas!Panel : Canvas!PageAt(q) < n}, Picture')
    BY <2>7, <2>8, <2>9, SameOperators
  <2>12. Canvas!Step(c)
    BY <1>2, <1>5, <2>2, <2>3, <2>10, <2>11 DEF Canvas!Step, Canvas!SaysNothing
  <2> QED
    BY <1>2, <2>12, Painted
<1> QED
  BY <1>4, <1>5

LEMMA PagesMap ==
    ASSUME TypeOK, TypeOK', DisplayPages
    PROVE  Canvas!Next
<1> DEFINE c == [op |-> "pages"]
<1>1. c.op = "pages" /\ Cheap(c) /\ Leave(page, TRUE)
  BY DEF DisplayPages
<1> HIDE DEF c
<1>2. flip' = flip /\ page \in Memory /\ Picture = Seen(page)
  BY <1>1, CallKeepsFlip, Mapping DEF TypeOK, Mapped
<1>3. Canvas!DrawAndShow(Picture)
  BY <1>1, <1>2, LeaveSeen
<1>4. Canvas!Step(c)
  BY <1>1, <1>3 DEF Canvas!Step
<1> QED
  BY <1>1, <1>4, Painted

-----------------------------------------------------------------------------
(* The handle, the commands and the copies of pages.                       *)

LEMMA HandleMaps ==
    ASSUME TypeOK, TypeOK', InitHandle \/ RemoveHandle \/ DeleteHandle
    PROVE  Canvas!Next
<1>1. PICK c : c.op \in {"init", "remove", "delete"} /\ Calling(c, 1)
  <2>1. CASE InitHandle
    BY <2>1 DEF InitHandle
  <2>2. CASE RemoveHandle
    BY <2>2 DEF RemoveHandle
  <2>3. CASE DeleteHandle
    BY <2>3 DEF DeleteHandle
  <2> QED
    BY <2>1, <2>2, <2>3
<1>2. /\ flip' = flip /\ ram' = ram
      /\ page' = page \/ page' = Empty
  BY <1>1 DEF InitHandle, RemoveHandle, DeleteHandle, Calling, Settings
<1>4. page' = page => Canvas!Keep
  BY <1>2, StillPicture
<1>5. /\ Picture' = Seen(page') /\ Shown' = Seen(Facing(ram'))
      /\ Picture = Seen(page) /\ Shown = Seen(Facing(ram)) /\ enabled \in BOOLEAN
  BY <1>2, Mapping, MappingAfter DEF Mapped, TypeOK
<1>6. Seen(Empty) = {}
  BY PixelOnPage DEF Seen, Empty
<1>7. CASE InitHandle
  <2>1. call'.op = "init"
    BY <1>7 DEF InitHandle, Calling
  <2>2. CASE result' = "OK"
    <3>1. page' = Empty /\ scroll' = NoScroll /\ enabled' = TRUE /\ moving' = "no"
      BY <1>7, <2>2 DEF InitHandle
    <3>2. Picture' = {} /\ Shown' = Shown
      BY <1>2, <1>5, <1>6, <3>1
    <3>3. Canvas!Step(call')
      BY <2>1, <2>2, <3>2 DEF Canvas!Step
    <3> QED
      BY <2>1, <2>2, <3>1, <3>3 DEF Canvas!Next, Canvas!NoScroll, NoScroll
  <2>3. CASE result' # "OK"
    <3>1. result' = "FAILED" /\ UNCHANGED <<handle, page, scroll, enabled, moving>>
      BY <1>7, <2>3 DEF InitHandle
    <3>2. Canvas!Step(call')
      BY <1>4, <2>1, <3>1 DEF Canvas!Step
    <3> QED
      BY <2>1, <3>1, <3>2 DEF Canvas!Next
  <2> QED
    BY <2>2, <2>3
<1>8. CASE RemoveHandle \/ DeleteHandle
  <2>1. /\ call'.op \in {"remove", "delete"} /\ result' \in {"OK", "FAILED"}
        /\ UNCHANGED <<page, scroll, enabled, moving>>
    BY <1>8 DEF RemoveHandle, DeleteHandle, Calling, Settings
  <2>2. Canvas!Step(call')
    BY <1>4, <2>1 DEF Canvas!Step
  <2> QED
    BY <1>5, <2>1, <2>2 DEF Canvas!Next
<1> QED
  BY <1>7, <1>8

LEMMA CommandMaps ==
    ASSUME TypeOK, TypeOK', EnableDisplay \/ DisableDisplay \/ SetContrast \/ HardwareScroll
    PROVE  Canvas!Next
<1>1. /\ flip' = flip /\ ram' = ram /\ page' = page /\ scroll' = scroll
      /\ result' \in {"OK", "FAILED"}
      /\ result' # "OK" => enabled' = enabled /\ moving' = moving
  BY DEF EnableDisplay, DisableDisplay, SetContrast, HardwareScroll, Command, Calling
<1>2. Canvas!Keep /\ enabled \in BOOLEAN
  BY <1>1, StillPicture DEF TypeOK
<1>3. CASE EnableDisplay
  <2>1. call'.op = "enable" /\ (result' = "OK" => enabled' = TRUE /\ moving' = moving)
    BY <1>3 DEF EnableDisplay, Command, Calling
  <2>2. Canvas!Step(call')
    BY <1>1, <1>2, <2>1 DEF Canvas!Step
  <2> QED
    BY <1>1, <1>2, <2>1, <2>2 DEF Canvas!Next
<1>4. CASE DisableDisplay
  <2>1. call'.op = "disable" /\ (result' = "OK" => enabled' = FALSE /\ moving' = moving)
    BY <1>4 DEF DisableDisplay, Command, Calling
  <2>2. Canvas!Step(call')
    BY <1>1, <1>2, <2>1 DEF Canvas!Step
  <2> QED
    BY <1>1, <1>2, <2>1, <2>2 DEF Canvas!Next
<1>5. CASE SetContrast
  <2>1. call'.op = "contrast" /\ (result' = "OK" => enabled' = enabled /\ moving' = moving)
    BY <1>5 DEF SetContrast, Command, Calling
  <2>2. Canvas!Step(call')
    BY <1>1, <1>2, <2>1 DEF Canvas!Step
  <2> QED
    BY <1>1, <1>2, <2>1, <2>2 DEF Canvas!Next
<1>6. CASE HardwareScroll
  <2>1. PICK dir \in {"right", "left", "up", "down", "no"} :
            Command([op |-> "hardware_scroll", dir |-> dir], moving' = dir /\ UNCHANGED enabled)
    BY <1>6 DEF HardwareScroll
  <2>2. /\ call'.op = "hardware_scroll" /\ call'.dir = dir
        /\ result' = "OK" => enabled' = enabled /\ moving' = dir
    BY <2>1 DEF Command, Calling
  <2>3. Canvas!Step(call')
    BY <1>1, <1>2, <2>2 DEF Canvas!Step
  <2> QED
    BY <1>1, <1>2, <2>2, <2>3 DEF Canvas!Next
<1> QED
  BY <1>3, <1>4, <1>5, <1>6

LEMMA SetScrollMaps ==
    ASSUME TypeOK, TypeOK', SetSoftwareScroll
    PROVE  Canvas!Next
<1>1. PICK start, end \in 0 .. Pages :
          /\ Calling([op |-> "set_scroll", start |-> start, end |-> end], 1)
          /\ scroll' = IF start < Pages /\ end < Pages
                       THEN [on |-> TRUE, start |-> start, end |-> end]
                       ELSE [scroll EXCEPT !.on = FALSE]
          /\ result' = "OK"
          /\ UNCHANGED <<handle, page, ram, enabled, moving, copy>>
  BY DEF SetSoftwareScroll
<1>2. call' = [op |-> "set_scroll", start |-> start, end |-> end] /\ flip' = flip
  BY <1>1 DEF Calling
<1>3. Canvas!Keep /\ enabled \in BOOLEAN
  BY <1>1, <1>2, StillPicture DEF TypeOK
<1>4. call'.op = "set_scroll" /\ call'.start = start /\ call'.end = end
  BY <1>2
<1>5. Canvas!Step(call')
  BY <1>1, <1>3, <1>4 DEF Canvas!Step
<1> QED
  BY <1>1, <1>3, <1>4, <1>5 DEF Canvas!Next

\* A byte of a buffer, as its pixels.
LEMMA ByteBit ==
    ASSUME flip \in BOOLEAN, NEW bytes \in [Segment -> Byte], NEW s \in Segment, NEW b \in 0 .. Rows - 1
    PROVE  b \in Upright(bytes[s]) <=> Bit(b) \in bytes[s]
<1>1. bytes[s] \in Byte
  OBVIOUS
<1> QED
  BY <1>1, UprightBits

LEMMA GetPagesMaps ==
    ASSUME TypeOK, TypeOK', GetPages
    PROVE  Canvas!Next
<1>1. /\ call' = [op |-> "get_pages"] /\ flip' = flip /\ result' = "OK"
      /\ UNCHANGED <<page, ram, scroll, enabled, moving>> /\ enabled \in BOOLEAN
  BY DEF GetPages, Calling, TypeOK
<1>2. Canvas!Keep
  BY <1>1, StillPicture
<1>3. call'.op = "get_pages"
  BY <1>1
<1>4. Canvas!Step(call')
  BY <1>1, <1>2, <1>3 DEF Canvas!Step
<1> QED
  BY <1>1, <1>3, <1>4 DEF Canvas!Next

\* Whatever pages arrive, they are drawn and not shown.
LEMMA SetPagesMaps ==
    ASSUME TypeOK, TypeOK', SetPages
    PROVE  Canvas!Next
<1> DEFINE c == [op |-> "set_pages"]
<1>1. Cheap(c) /\ ram' = ram /\ result' = "OK" /\ c.op = "set_pages"
  BY DEF SetPages
<1> HIDE DEF c
<1>2. flip' = flip
  BY <1>1, CallKeepsFlip
<1>3. Picture' = Seen(page') /\ Shown' = Seen(Facing(ram')) /\ Shown = Seen(Facing(ram))
  BY <1>2, Mapping, MappingAfter DEF Mapped
<1>4. Picture' \subseteq Canvas!Panel /\ Shown' = Shown
  BY <1>1, <1>3, SameOperators DEF Seen
<1>5. Canvas!Step(c)
  BY <1>1, <1>4 DEF Canvas!Step
<1> QED
  BY <1>1, <1>5, Painted

-----------------------------------------------------------------------------
(* ssd1306_display_wrap_around.                                            *)

LEMMA AroundMod ==
    ASSUME NEW d \in Nat \ {0}
    PROVE  /\ \A x \in 0 .. d - 1 : x % d = x
           /\ d % d = 0 /\ (-1) % d = d - 1
<1>1. ASSUME NEW x \in 0 .. d - 1 PROVE x % d = x
  <2>1. (d * 0 + x) % d = x
    BY DivUnique
  <2> QED
    BY <2>1
<1>2. d % d = 0
  <2>1. (d * 1 + 0) % d = 0
    BY DivUnique
  <2> QED
    BY <2>1
<1>3. (-1) % d = d - 1
  <2>1. (d * (-1) + (d - 1)) % d = d - 1
    BY DivUnique
  <2>2. d * (-1) + (d - 1) = -1
    OBVIOUS
  <2> QED
    BY <2>1, <2>2
<1> QED
  BY <1>1, <1>2, <1>3

LEMMA SeenAt ==
    ASSUME flip \in BOOLEAN, NEW memory \in Memory, NEW p \in PageNo, NEW s \in Segment,
           NEW b \in 0 .. Rows - 1
    PROVE  <<s, p * Rows + b>> \in Seen(memory) <=> b \in Upright(memory[p][s])
<1> DEFINE q == <<s, p * Rows + b>>
<1>1. q \in Panel /\ q[1] = s /\ Canvas!PageAt(q) = p /\ q[2] % Rows = b
  BY PageOfPixel DEF Canvas!PageAt
<1> HIDE DEF q
<1>2. memory[p] \in [Segment -> Byte]
  BY DEF Memory
<1>3. q \in Seen(memory) <=> Bit(b) \in memory[p][s]
  BY <1>1 DEF Seen
<1> QED
  BY <1>2, <1>3, ByteBit DEF q

LEMMA SidewaysSeen ==
    ASSUME flip \in BOOLEAN, page \in Memory, NEW start \in Nat, NEW end \in Nat, NEW step \in {-1, 1},
           NEW q \in Panel
    PROVE  q \in Seen(Sideways(page, start, Least(end, Pages - 1), step)) <=>
               IF Canvas!PageAt(q) \in start .. end THEN <<(q[1] + step) % Width, q[2]>> \in Seen(page)
               ELSE q \in Seen(page)
<1> DEFINE p == Canvas!PageAt(q)
           b == q[2] % Rows
           s == (q[1] + step) % Width
           pg == Sideways(page, start, Least(end, Pages - 1), step)
<1>1. /\ p \in PageNo /\ q[1] \in Segment /\ b \in 0 .. Rows - 1 /\ q[2] \in 0 .. Height - 1
  BY PixelOnPage
<1>2. q \in Seen(pg) <=> Bit(b) \in pg[p][q[1]]
  BY DEF Seen
<1>3. q \in Seen(page) <=> Bit(b) \in page[p][q[1]]
  BY DEF Seen
<1>4. s \in Segment
  BY <1>1, PanelSizes DEF Segment
<1>5. p \in start .. Least(end, Pages - 1) <=> p \in start .. end
  BY <1>1, PanelSizes DEF PageNo, Least
<1>6. pg[p][q[1]] = IF p \in start .. end THEN page[p][s] ELSE page[p][q[1]]
  BY <1>1, <1>5 DEF Sideways
<1>7. <<s, q[2]>> \in Panel /\ Canvas!PageAt(<<s, q[2]>>) = p
  BY <1>1, <1>4 DEF Panel, Segment, Canvas!PageAt
<1>8. <<s, q[2]>> \in Seen(page) <=> Bit(b) \in page[p][s]
  BY <1>7 DEF Seen
<1> HIDE DEF p, b, s, pg
<1> QED
  BY <1>2, <1>3, <1>6, <1>8 DEF p, s, pg

\* The pixel below and the pixel above, around the edge of the panel.
LEMMA RowBelow ==
    ASSUME NEW p \in PageNo, NEW b \in 0 .. Rows - 1
    PROVE  /\ b < Rows - 1 => (p * Rows + b + 1) % Height = p * Rows + (b + 1)
           /\ (p * Rows + (Rows - 1) + 1) % Height = ((p + 1) % Pages) * Rows + 0
           /\ (p + 1) % Pages \in PageNo
<1>1. Height \in Nat \ {0} /\ p \in Nat /\ p * Rows \in Nat /\ p < Pages
  BY PanelSizes DEF Height, PageNo
<1>3. ASSUME b < Rows - 1
      PROVE  (p * Rows + b + 1) % Height = p * Rows + (b + 1)
  <2>1. b + 1 \in 0 .. Rows - 1
    BY <1>3, PanelSizes
  <2>2. 0 \in Segment
    BY PanelSizes DEF Segment
  <2>3. <<0, p * Rows + (b + 1)>> \in Panel
    BY <2>1, <2>2, PageOfPixel
  <2>4. p * Rows + (b + 1) \in 0 .. Height - 1 /\ p * Rows + b + 1 = p * Rows + (b + 1)
    BY <1>1, <2>3 DEF Panel
  <2> QED
    BY <1>1, <2>4, AroundMod
<1>4. CASE p = Pages - 1
  <2>1. p * Rows + (Rows - 1) + 1 = Height /\ p + 1 = Pages
    BY <1>1, <1>4, PanelSizes DEF Height
  <2>2. Height % Height = 0 /\ Pages % Pages = 0 /\ 0 * Rows + 0 = 0
    BY <1>1, PanelSizes, AroundMod
  <2> QED
    BY <1>3, <2>1, <2>2, PanelSizes DEF PageNo
<1>5. CASE p < Pages - 1
  <2>1. p + 1 \in PageNo /\ p + 1 \in 0 .. Pages - 1 /\ 0 \in 0 .. Rows - 1 /\ 0 \in Segment
    BY <1>1, <1>5, PanelSizes DEF PageNo, Segment
  <2>2. (p + 1) % Pages = p + 1
    BY <2>1, PanelSizes, AroundMod
  <2>3. <<0, (p + 1) * Rows + 0>> \in Panel
    BY <2>1, PageOfPixel
  <2>4. (p + 1) * Rows + 0 \in 0 .. Height - 1
    BY <2>3 DEF Panel
  <2>5. (p + 1) * Rows + 0 = p * Rows + (Rows - 1) + 1
    BY <1>1, PanelSizes
  <2>6. ((p + 1) * Rows + 0) % Height = (p + 1) * Rows + 0
    BY <1>1, <2>4, AroundMod
  <2> QED
    BY <1>3, <2>1, <2>2, <2>5, <2>6
<1> QED
  BY <1>1, <1>4, <1>5, PanelSizes

LEMMA RowAbove ==
    ASSUME NEW p \in PageNo, NEW b \in 0 .. Rows - 1
    PROVE  /\ b > 0 => (p * Rows + b - 1) % Height = p * Rows + (b - 1)
           /\ (p * Rows + 0 - 1) % Height = ((p - 1) % Pages) * Rows + (Rows - 1)
           /\ (p - 1) % Pages \in PageNo
<1>1. Height \in Nat \ {0} /\ p \in Nat /\ p * Rows \in Nat /\ p < Pages
  BY PanelSizes DEF Height, PageNo
<1>2. 0 \in Segment /\ Rows - 1 \in 0 .. Rows - 1
  BY PanelSizes DEF Segment
<1>3. ASSUME b > 0
      PROVE  (p * Rows + b - 1) % Height = p * Rows + (b - 1)
  <2>1. b - 1 \in 0 .. Rows - 1
    BY <1>3, PanelSizes
  <2>2. <<0, p * Rows + (b - 1)>> \in Panel
    BY <1>2, <2>1, PageOfPixel
  <2>3. p * Rows + (b - 1) \in 0 .. Height - 1 /\ p * Rows + b - 1 = p * Rows + (b - 1)
    BY <1>1, <2>2 DEF Panel
  <2> QED
    BY <1>1, <2>3, AroundMod
<1>4. CASE p = 0
  <2>1. p * Rows + 0 - 1 = -1 /\ p - 1 = -1
    BY <1>4, PanelSizes
  <2>2. (-1) % Height = Height - 1 /\ (-1) % Pages = Pages - 1
    BY <1>1, PanelSizes, AroundMod
  <2>3. (Pages - 1) * Rows + (Rows - 1) = Height - 1
    BY PanelSizes DEF Height
  <2> QED
    BY <1>3, <2>1, <2>2, <2>3, PanelSizes DEF PageNo
<1>5. CASE p > 0
  <2>1. p - 1 \in PageNo /\ p - 1 \in 0 .. Pages - 1
    BY <1>1, <1>5, PanelSizes DEF PageNo
  <2>2. (p - 1) % Pages = p - 1
    BY <2>1, PanelSizes, AroundMod
  <2>3. <<0, (p - 1) * Rows + (Rows - 1)>> \in Panel
    BY <1>2, <2>1, PageOfPixel
  <2>4. (p - 1) * Rows + (Rows - 1) \in 0 .. Height - 1
    BY <2>3 DEF Panel
  <2>5. (p - 1) * Rows + (Rows - 1) = p * Rows + 0 - 1
    BY <1>1, PanelSizes
  <2>6. ((p - 1) * Rows + (Rows - 1)) % Height = (p - 1) * Rows + (Rows - 1)
    BY <1>1, <2>4, AroundMod
  <2> QED
    BY <1>3, <2>1, <2>2, <2>5, <2>6
<1> QED
  BY <1>1, <1>4, <1>5

LEMMA ShiftedSeen ==
    ASSUME flip \in BOOLEAN, page \in Memory, NEW start \in Nat, NEW end \in Nat, NEW up \in BOOLEAN,
           NEW q \in Panel
    PROVE  q \in Seen(UpOrDown(page, start, Least(end, Width - 1), up)) <=>
               IF q[1] \in start .. end
               THEN <<q[1], (IF up THEN q[2] + 1 ELSE q[2] - 1) % Height>> \in Seen(page)
               ELSE q \in Seen(page)
<1> DEFINE p == Canvas!PageAt(q)
           b == q[2] % Rows
           s == q[1]
           bits(r) == Upright(page[r % Pages][s])
           Up == {j - 1 : j \in bits(p) \ {0}} \cup (IF 0 \in bits(p + 1) THEN {Rows - 1} ELSE {})
           Down == {j + 1 : j \in bits(p) \ {Rows - 1}} \cup (IF Rows - 1 \in bits(p - 1) THEN {0} ELSE {})
           byte == IF up THEN Up ELSE Down
           pg == UpOrDown(page, start, Least(end, Width - 1), up)
<1>1. /\ p \in PageNo /\ s \in Segment /\ b \in 0 .. Rows - 1
      /\ q[2] = Rows * p + b
  BY PixelOnPage
<1>2. q[2] = p * Rows + b /\ p * Rows \in Nat /\ p \in Nat
  BY <1>1, PanelSizes DEF PageNo
<1>3. q \in Seen(pg) <=> Bit(b) \in pg[p][s]
  BY DEF Seen
<1>4. q \in Seen(page) <=> Bit(b) \in page[p][s]
  BY DEF Seen
<1>5. s \in start .. Least(end, Width - 1) <=> s \in start .. end
  BY <1>1, PanelSizes DEF Segment, Least
<1>6. pg[p][s] = IF s \in start .. end THEN Upright(byte) ELSE page[p][s]
  BY <1>1, <1>5 DEF UpOrDown
<1>7. ASSUME NEW r \in Int
      PROVE  /\ bits(r) \in Byte
             /\ \A j \in 0 .. Rows - 1 :
                   j \in bits(r) <=> <<s, (r % Pages) * Rows + j>> \in Seen(page)
  <2>1. r % Pages \in PageNo
    BY PanelSizes DEF PageNo
  <2>2. page[r % Pages][s] \in Byte
    BY <1>1, <2>1 DEF Memory
  <2> QED
    BY <1>1, <2>1, <2>2, SeenAt, UprightBits
<1>8. p % Pages = p /\ p + 1 \in Int /\ p - 1 \in Int /\ p \in Int
  BY <1>1, PanelSizes, AroundMod DEF PageNo
<1>9. /\ bits(p) \in Byte /\ bits(p + 1) \in Byte /\ bits(p - 1) \in Byte
      /\ \A j \in 0 .. Rows - 1 : j \in bits(p) <=> <<s, p * Rows + j>> \in Seen(page)
      /\ 0 \in bits(p + 1) <=> <<s, ((p + 1) % Pages) * Rows + 0>> \in Seen(page)
      /\ Rows - 1 \in bits(p - 1) <=> <<s, ((p - 1) % Pages) * Rows + (Rows - 1)>> \in Seen(page)
  <2>1. 0 \in 0 .. Rows - 1 /\ Rows - 1 \in 0 .. Rows - 1
    BY PanelSizes
  <2> HIDE DEF bits, p, s
  <2>2. /\ bits(p) \in Byte
        /\ \A j \in 0 .. Rows - 1 : j \in bits(p) <=> <<s, (p % Pages) * Rows + j>> \in Seen(page)
    BY <1>7, <1>8, Zenon
  <2>3. /\ bits(p + 1) \in Byte
        /\ 0 \in bits(p + 1) <=> <<s, ((p + 1) % Pages) * Rows + 0>> \in Seen(page)
    BY <1>7, <1>8, <2>1, Zenon
  <2>4. /\ bits(p - 1) \in Byte
        /\ Rows - 1 \in bits(p - 1) <=> <<s, ((p - 1) % Pages) * Rows + (Rows - 1)>> \in Seen(page)
    BY <1>7, <1>8, <2>1, Zenon
  <2> QED
    BY <1>8, <2>2, <2>3, <2>4, Zenon
<1> HIDE DEF pg, bits
<1>10. b \in Up <=> <<s, (q[2] + 1) % Height>> \in Seen(page)
  <2>1. CASE b < Rows - 1
    <3>1. b \in Up <=> b + 1 \in bits(p)
      BY <1>1, <1>9, <2>1, PanelSizes DEF Byte
    <3>2. (q[2] + 1) % Height = p * Rows + (b + 1) /\ b + 1 \in 0 .. Rows - 1
      BY <1>1, <1>2, <2>1, RowBelow, PanelSizes
    <3> QED
      BY <1>9, <3>1, <3>2
  <2>2. CASE b = Rows - 1
    <3>1. b \in Up <=> 0 \in bits(p + 1)
      BY <1>1, <1>9, <2>2, PanelSizes DEF Byte
    <3>2. (q[2] + 1) % Height = ((p + 1) % Pages) * Rows + 0
      BY <1>1, <1>2, <2>2, RowBelow
    <3> QED
      BY <1>9, <3>1, <3>2
  <2> QED
    BY <1>1, <2>1, <2>2, PanelSizes
<1>11. b \in Down <=> <<s, (q[2] - 1) % Height>> \in Seen(page)
  <2>1. CASE b > 0
    <3>1. b \in Down <=> b - 1 \in bits(p)
      BY <1>1, <1>9, <2>1, PanelSizes DEF Byte
    <3>2. (q[2] - 1) % Height = p * Rows + (b - 1) /\ b - 1 \in 0 .. Rows - 1
      BY <1>1, <1>2, <2>1, RowAbove, PanelSizes
    <3> QED
      BY <1>9, <3>1, <3>2
  <2>2. CASE b = 0
    <3>1. b \in Down <=> Rows - 1 \in bits(p - 1)
      BY <1>1, <1>9, <2>2, PanelSizes DEF Byte
    <3>2. (q[2] - 1) % Height = ((p - 1) % Pages) * Rows + (Rows - 1)
      BY <1>1, <1>2, <2>2, RowAbove
    <3> QED
      BY <1>9, <3>1, <3>2
  <2> QED
    BY <1>1, <2>1, <2>2, PanelSizes
<1>12. byte \in Byte
  <2>1. Up \in Byte /\ Down \in Byte
    BY <1>9, PanelSizes DEF Byte
  <2> QED
    BY <2>1
<1> HIDE DEF p, b, s, Up, Down
<1>13. Bit(b) \in Upright(byte) <=> b \in byte
  <2> HIDE DEF byte
  <2>1. \A j \in 0 .. Rows - 1 : /\ Bit(j) \in 0 .. Rows - 1 /\ Bit(Bit(j)) = j
                                 /\ j \in Upright(byte) <=> Bit(j) \in byte
    BY <1>12, UprightBits
  <2> QED
    BY <1>1, <2>1
<1> QED
  BY <1>3, <1>4, <1>6, <1>10, <1>11, <1>13 DEF pg, s

LEMMA WrapMaps ==
    ASSUME TypeOK, TypeOK', WrapAround
    PROVE  Canvas!Next
<1>1. PICK dir \in {"right", "left", "up", "down"}, range \in Ranges, show \in BOOLEAN :
          /\ Cheap([op |-> "wrap_around", dir |-> dir, start |-> range[1], end |-> range[2],
                    show |-> show])
          /\ Leave(Wrapped(dir, range[1], range[2]), show)
  BY DEF WrapAround, Wrapped
<1> DEFINE c == [op |-> "wrap_around", dir |-> dir, start |-> range[1], end |-> range[2],
                 show |-> show]
           start == range[1]
           end == range[2]
           pg == Wrapped(dir, start, end)
<1>2. /\ start \in Nat /\ end \in Nat /\ Cheap(c) /\ Leave(pg, show)
      /\ c.op = "wrap_around" /\ c.dir = dir /\ c.start = start /\ c.end = end /\ c.show = show
  BY <1>1, CallsAssumption
<1> HIDE DEF c, start, end
<1>3. /\ flip' = flip /\ flip \in BOOLEAN /\ page \in Memory /\ Picture = Seen(page)
  BY <1>2, CallKeepsFlip, Mapping DEF TypeOK, Mapped
<1>4. pg \in Memory
  BY <1>3, WrappedMemory
<1>5. ASSUME NEW q \in Panel
      PROVE  q \in Seen(pg) <=> q \in Canvas!Turned(c)
  <2>1. CASE dir = "right"
    <3>1. pg = Sideways(page, start, Least(end, Pages - 1), -1)
      BY <2>1 DEF Wrapped
    <3>2. q \in Seen(pg) <=> IF Canvas!PageAt(q) \in start .. end
                             THEN <<(q[1] + (-1)) % Width, q[2]>> \in Seen(page)
                             ELSE q \in Seen(page)
      BY <1>2, <1>3, <3>1, SidewaysSeen
    <3>3. q[1] + (-1) = q[1] - 1
      BY PixelOnPage, PanelSizes DEF Segment
    <3> QED
      BY <1>2, <1>3, <2>1, <3>2, <3>3, SameOperators DEF Canvas!Turned
  <2>2. CASE dir = "left"
    <3>1. pg = Sideways(page, start, Least(end, Pages - 1), 1)
      BY <2>2 DEF Wrapped
    <3>2. q \in Seen(pg) <=> IF Canvas!PageAt(q) \in start .. end
                             THEN <<(q[1] + 1) % Width, q[2]>> \in Seen(page)
                             ELSE q \in Seen(page)
      BY <1>2, <1>3, <3>1, SidewaysSeen
    <3> QED
      BY <1>2, <1>3, <2>2, <3>2, SameOperators DEF Canvas!Turned
  <2>3. CASE dir = "up"
    <3>1. pg = UpOrDown(page, start, Least(end, Width - 1), TRUE)
      BY <2>3 DEF Wrapped
    <3>2. q \in Seen(pg) <=> IF q[1] \in start .. end THEN <<q[1], (q[2] + 1) % Height>> \in Seen(page)
                             ELSE q \in Seen(page)
      BY <1>2, <1>3, <3>1, ShiftedSeen
    <3> QED
      BY <1>2, <1>3, <2>3, <3>2, SameOperators DEF Canvas!Turned
  <2>4. CASE dir = "down"
    <3>1. pg = UpOrDown(page, start, Least(end, Width - 1), FALSE)
      BY <2>4 DEF Wrapped
    <3>2. q \in Seen(pg) <=> IF q[1] \in start .. end THEN <<q[1], (q[2] - 1) % Height>> \in Seen(page)
                             ELSE q \in Seen(page)
      BY <1>2, <1>3, <3>1, ShiftedSeen
    <3> QED
      BY <1>2, <1>3, <2>4, <3>2, SameOperators DEF Canvas!Turned
  <2> QED
    BY <2>1, <2>2, <2>3, <2>4
<1>6. Seen(pg) = Canvas!Turned(c)
  BY <1>5, SameOperators DEF Seen, Canvas!Turned
<1>7. IF show THEN Canvas!DrawAndShow(Seen(pg)) ELSE Canvas!Draw(Seen(pg))
  BY <1>2, <1>3, <1>4, LeaveSeen
<1>8. Canvas!Step(c)
  BY <1>2, <1>6, <1>7 DEF Canvas!Step
<1> QED
  BY <1>2, <1>8, Painted

-----------------------------------------------------------------------------
(* Texts, lines of blanks and fading.                                      *)

LEMMA Carried ==
    ASSUME TypeOK, TypeOK', flip' = flip,
           NEW images, NEW n, ImagesOK(images, n), NEW sent, NEW T \in SUBSET Panel, NEW goal,
           LastSays(images, sent, T, goal),
           Picture' = Seen(Kept(page, images, sent)),
           Shown' = Seen(Kept(Facing(ram), images, sent))
    PROVE  Picture' = Canvas!Over(Picture, T, goal) /\ Shown' = Canvas!Over(Shown, T, goal)
<1>1. flip \in BOOLEAN /\ page \in Memory /\ Facing(ram) \in Memory
  BY FacingMemory DEF TypeOK
<1>2. Picture = Seen(page) /\ Shown = Seen(Facing(ram))
  BY Mapping DEF Mapped
<1> QED
  BY <1>1, <1>2, Landed

LEMMA StyledBit ==
    ASSUME flip \in BOOLEAN, NEW bytes, NEW invert \in BOOLEAN, NEW s \in DOMAIN bytes,
           bytes[s] \in Byte, NEW b \in 0 .. Rows - 1
    PROVE  Bit(b) \in Styled(bytes, invert)[s] <=> (b \in bytes[s]) # invert
<1> DEFINE byte == IF invert THEN Inverted(bytes[s]) ELSE bytes[s]
<1>1. byte \in Byte /\ (b \in byte <=> (b \in bytes[s]) # invert)
  BY DEF Byte, Inverted
<1>2. Styled(bytes, invert)[s] = Upright(byte)
  BY DEF Styled
<1> HIDE DEF byte
<1>3. \A j \in 0 .. Rows - 1 : /\ Bit(j) \in 0 .. Rows - 1 /\ Bit(Bit(j)) = j
                               /\ j \in Upright(byte) <=> Bit(j) \in byte
  BY <1>1, UprightBits
<1> QED
  BY <1>1, <1>2, <1>3

\* A piece of a text covers a pixel, and a pixel lies in a cell.
PieceCovers(q, p, k, i) ==
    /\ Canvas!PageAt(q) = p + ((i - 1) % k)
    /\ q[1] - ((i - 1) \div k) * k * Rows \in 0 .. k * Rows - 1
InCell(q, p, k, i) == Canvas!PageAt(q) \in p .. p + k - 1 /\ Canvas!CellAt(q, p, k) = i - 1
SameCell(q, p, k, i) ==
    /\ (i - 1) \div k = q[1] \div (k * Rows)
    /\ (i - 1) % k = Canvas!PageAt(q) - p
    /\ q[1] - ((i - 1) \div k) * k * Rows = q[1] % (k * Rows)

\* Which piece of which character is at a pixel.
LEMMA CellOfPixel ==
    ASSUME NEW q \in Panel, NEW p \in PageNo, NEW k \in 1 .. 3, NEW i \in Nat \ {0}
    PROVE  /\ q[1] \div (k * Rows) \in Nat /\ q[1] % (k * Rows) \in 0 .. k * Rows - 1
           /\ Canvas!CellAt(q, p, k) \in Int
           /\ PieceCovers(q, p, k, i) <=> InCell(q, p, k, i)
           /\ InCell(q, p, k, i) => SameCell(q, p, k, i)
           /\ Canvas!PageAt(q) \in p .. p + k - 1 => Canvas!CellAt(q, p, k) \in Nat
<1> DEFINE d == k * Rows
           P == Canvas!PageAt(q)
           nn == (i - 1) \div k
           yy == (i - 1) % k
<1>1. d \in Nat \ {0} /\ q[1] \in Int /\ q[1] >= 0 /\ P \in Int /\ p \in Int
  BY PixelOnPage, PanelSizes DEF Segment, PageNo
<1>2. \A m \in Int : m * k * Rows = d * m
  BY PanelSizes
<1>3. P = Canvas!PageAt(q)
  OBVIOUS
<1> HIDE DEF d, P
<1>4. PICK Q \in Int, R \in 0 .. d - 1 : q[1] = d * Q + R /\ Q = q[1] \div d /\ R = q[1] % d
  BY <1>1, DivMod
<1>5. Q >= 0
  <2>1. Q < 0 => d * Q + R < d * 0
    BY <1>1, <1>4, QuotientBelow
  <2>2. d * 0 = 0
    BY <1>1
  <2> QED
    BY <1>1, <1>4, <2>1, <2>2
<1>6. PICK n \in Int, y \in 0 .. k - 1 : i - 1 = k * n + y /\ n = nn /\ y = yy
  BY DivMod
<1>7. Canvas!CellAt(q, p, k) = k * Q + (P - p) /\ k * Q \in Nat /\ k * n \in Int
  <2>1. Canvas!CellAt(q, p, k) = Q * k + P - p
    BY <1>3, <1>4 DEF Canvas!CellAt, d
  <2>2. Q \in Nat /\ k \in Nat
    BY <1>5
  <2>3. k * Q \in Nat /\ k * n \in Int
    BY <1>6, <2>2
  <2> QED
    BY <1>1, <2>1, <2>2, <2>3
<1> HIDE DEF nn, yy
<1>8. ASSUME P = p + y, q[1] - d * n \in 0 .. d - 1
      PROVE  P \in p .. p + k - 1 /\ k * Q + (P - p) = i - 1
  <2>1. (d * n + (q[1] - d * n)) \div d = n
    BY <1>1, <1>8, DivUnique
  <2>2. d * n + (q[1] - d * n) = q[1]
    BY <1>1
  <2>3. n = Q
    BY <1>4, <2>1, <2>2
  <2>4. k * Q + (P - p) = k * n + y
    BY <1>1, <1>8, <2>3
  <2> QED
    BY <1>1, <1>6, <1>8, <2>4
<1>9. ASSUME P \in p .. p + k - 1, k * Q + (P - p) = i - 1
      PROVE  P = p + y /\ n = Q /\ q[1] - d * n \in 0 .. d - 1 /\ q[1] - d * n = R
  <2>1. P - p \in 0 .. k - 1
    BY <1>1, <1>9
  <2>2. (k * Q + (P - p)) \div k = Q /\ (k * Q + (P - p)) % k = P - p
    BY <1>4, <2>1, DivUnique
  <2>3. n = Q /\ y = P - p
    BY <1>6, <1>9, <2>2 DEF nn, yy
  <2>4. d * Q \in Int
    BY <1>1, <1>4
  <2>5. P = p + y
    BY <1>1, <2>3
  <2>6. q[1] - d * Q = R
    BY <1>4, <2>4
  <2>7. q[1] - d * n = R
    BY <2>3, <2>6, Zenon
  <2> QED
    BY <1>4, <2>3, <2>5, <2>7
<1>10. P \in p .. p + k - 1 => k * Q + (P - p) \in Nat
  BY <1>1, <1>7
<1>11. nn * k * Rows = d * n /\ k * Q + (P - p) \in Int
  BY <1>1, <1>2, <1>6, <1>7
<1>12. /\ q[1] \div d \in Nat /\ q[1] % d \in 0 .. d - 1
       /\ Canvas!CellAt(q, p, k) \in Int
       /\ (P = p + yy /\ q[1] - nn * k * Rows \in 0 .. d - 1)
              <=> (P \in p .. p + k - 1 /\ Canvas!CellAt(q, p, k) = i - 1)
       /\ P \in p .. p + k - 1 => Canvas!CellAt(q, p, k) \in Nat
  <2>1. q[1] - nn * k * Rows = q[1] - d * n /\ yy = y
    BY <1>6, <1>11
  <2>2. Canvas!CellAt(q, p, k) = k * Q + (P - p)
    BY <1>7
  <2>3. (P = p + y /\ q[1] - d * n \in 0 .. d - 1) <=> (P \in p .. p + k - 1 /\ k * Q + (P - p) = i - 1)
    BY <1>8, <1>9, Zenon
  <2>4. (P = p + yy /\ q[1] - nn * k * Rows \in 0 .. d - 1)
              <=> (P \in p .. p + k - 1 /\ Canvas!CellAt(q, p, k) = i - 1)
    BY <2>1, <2>2, <2>3, Zenon
  <2>5. q[1] \div d \in Nat /\ q[1] % d \in 0 .. d - 1
    BY <1>4, <1>5
  <2> QED
    BY <1>10, <1>11, <2>2, <2>4, <2>5, Zenon
<1>13. P \in p .. p + k - 1 /\ Canvas!CellAt(q, p, k) = i - 1 =>
                /\ nn = q[1] \div d
                /\ yy = P - p
                /\ q[1] - nn * k * Rows = q[1] % d
  <2> SUFFICES ASSUME P \in p .. p + k - 1, Canvas!CellAt(q, p, k) = i - 1
               PROVE  nn = q[1] \div d /\ yy = P - p /\ q[1] - nn * k * Rows = q[1] % d
    OBVIOUS
  <2>1. P = p + y /\ n = Q /\ q[1] - d * n = R
    BY <1>7, <1>9
  <2> QED
    BY <1>1, <1>4, <1>6, <1>11, <2>1
<1> QED
  BY <1>12, <1>13 DEF nn, yy, d, P, PieceCovers, InCell, SameCell

\* The pixels of the first n cells of a text.
CellsOf(p, k, n) == {q \in Panel : Canvas!PageAt(q) \in p .. p + k - 1 /\ Canvas!CellAt(q, p, k) < n}

LEMMA TextAgrees ==
    ASSUME flip \in BOOLEAN, NEW c, c.page \in PageNo, Len(c.text) \in Nat, c.invert \in BOOLEAN,
           NEW k \in 1 .. 3, NEW n \in 0 .. Len(c.text) * k
    PROVE  Agree(TextImages(c.page, c.text, k, c.invert), 1 .. n, CellsOf(c.page, k, n), Canvas!Lit(c, k))
<1> DEFINE p == c.page
           text == c.text
           images == TextImages(p, text, k, c.invert)
           d == k * Rows
           glyph(i) == text[((i - 1) \div k) + 1]
           piece(i) == Piece(glyph(i), k, (i - 1) % k)
           T == CellsOf(p, k, n)
<1>1. /\ n \in Nat /\ Len(text) * k \in Nat /\ n <= Len(text) * k /\ Len(text) * k = k * Len(text)
      /\ d \in Nat \ {0} /\ p \in Nat /\ p \in PageNo
  BY PanelSizes DEF PageNo
<1>2. DOMAIN images = 1 .. Len(text) * k
  BY DEF TextImages
<1>3. \A i \in 1 .. Len(text) * k :
          images[i] = Image(p + ((i - 1) % k), ((i - 1) \div k) * k * Rows, Styled(piece(i), c.invert))
  BY DEF TextImages
<1>4. ASSUME NEW i \in 1 .. Len(text) * k
      PROVE  /\ images[i].page = p + ((i - 1) % k) /\ images[i].segment = ((i - 1) \div k) * k * Rows
             /\ images[i].bytes = Styled(piece(i), c.invert)
             /\ DOMAIN images[i].bytes = 0 .. d - 1
  <2>1. images[i] = Image(p + ((i - 1) % k), ((i - 1) \div k) * k * Rows, Styled(piece(i), c.invert))
    BY <1>3
  <2>2. DOMAIN Styled(piece(i), c.invert) = 0 .. d - 1
    BY DEF Styled, Piece
  <2> HIDE DEF piece, images
  <2> QED
    BY <2>1, <2>2 DEF Image
<1> HIDE DEF images
<1>5. ASSUME NEW q \in Panel, NEW i \in 1 .. Len(text) * k
      PROVE  i \in Covering(images, Canvas!PageAt(q), q[1])
                <=> (Canvas!PageAt(q) \in p .. p + k - 1 /\ Canvas!CellAt(q, p, k) = i - 1)
  <2>1. i \in Covering(images, Canvas!PageAt(q), q[1]) <=>
           (Canvas!PageAt(q) = p + ((i - 1) % k)
              /\ q[1] - ((i - 1) \div k) * k * Rows \in 0 .. k * Rows - 1)
    BY <1>2, <1>4 DEF Covering
  <2>2. PieceCovers(q, p, k, i) <=> InCell(q, p, k, i)
    <3>1. i \in Nat \ {0} /\ p \in PageNo
      BY <1>1
    <3> HIDE DEF p, text, glyph, piece, T, d
    <3> QED
      BY <3>1, CellOfPixel
  <2> QED
    BY <2>1, <2>2, Zenon DEF PieceCovers, InCell
<1>6. ASSUME NEW q \in Panel, NEW i \in Covering(images, Canvas!PageAt(q), q[1]) \cap (1 .. n)
      PROVE  /\ q \in T
             /\ q \in Canvas!Lit(c, k) <=>
                   Bit(q[2] % Rows) \in images[i].bytes[q[1] - images[i].segment]
  <2> DEFINE P == Canvas!PageAt(q)
             b == q[2] % Rows
             s == q[1] % d
             row == (q[2] - p * Rows) \div k
  <2>1. i \in 1 .. n /\ i \in 1 .. Len(text) * k /\ i \in Nat \ {0}
    BY <1>1, <1>2
  <2>2. P \in p .. p + k - 1 /\ Canvas!CellAt(q, p, k) = i - 1
    BY <1>5, <2>1
  <2>3. /\ (i - 1) \div k = q[1] \div d
        /\ (i - 1) % k = P - p
        /\ q[1] - ((i - 1) \div k) * k * Rows = s
        /\ s \in 0 .. d - 1
    <3>1. p \in PageNo
      BY <1>1
    <3>2. InCell(q, p, k, i)
      BY <2>2 DEF InCell
    <3> HIDE DEF p, text, glyph, piece, T, b, row
    <3>3. SameCell(q, p, k, i) /\ q[1] % (k * Rows) \in 0 .. k * Rows - 1
      BY <2>1, <3>1, <3>2, CellOfPixel
    <3> QED
      BY <3>3 DEF SameCell
  <2>4. q \in T
    BY <2>1, <2>2 DEF CellsOf
  <2>5. /\ P \in PageNo /\ P \in Nat /\ b \in 0 .. Rows - 1 /\ q[2] = Rows * P + b
    BY PixelOnPage, PanelSizes DEF PageNo
  <2> HIDE DEF P, b, s, d
  <2>6. (P - p) * Rows + b = q[2] - p * Rows
    BY <1>1, <2>5, PanelSizes
  <2>7. piece(i)[s] = {j \in 0 .. Rows - 1 : ((P - p) * Rows + j) \div k \in glyph(i)[s \div k]}
    BY <2>3 DEF Piece, d
  <2> HIDE DEF piece, glyph
  <2>8. b \in piece(i)[s] <=> row \in glyph(i)[s \div k]
    BY <2>5, <2>6, <2>7
  <2>9. piece(i)[s] \in Byte
    BY <2>7 DEF Byte
  <2>10. s \in DOMAIN piece(i)
    BY <2>3 DEF piece, Piece, d
  <2>11. Bit(b) \in Styled(piece(i), c.invert)[s] <=> (b \in piece(i)[s]) # c.invert
    BY <2>5, <2>9, <2>10, StyledBit
  <2>12. images[i].bytes[q[1] - images[i].segment] = Styled(piece(i), c.invert)[s]
    BY <1>4, <2>1, <2>3
  <2>13. q[1] \div d + 1 <= Len(text)
    <3>0. i - 1 \in Int /\ k \in Nat \ {0}
      BY <2>1
    <3>1. PICK m \in Int, y \in 0 .. k - 1 : i - 1 = k * m + y /\ m = (i - 1) \div k
      BY <3>0, DivMod
    <3>2. k * m + y < k * Len(text)
      BY <1>1, <2>1, <3>1
    <3>3. m < Len(text)
      <4>1. Len(text) \in Int
        OBVIOUS
      <4> HIDE DEF text
      <4> QED
        BY <3>0, <3>1, <3>2, <4>1, QuotientBelow
    <3>4. m \in Int /\ Len(text) \in Int /\ m + 1 <= Len(text)
      <4>1. Len(text) \in Int
        OBVIOUS
      <4> HIDE DEF text
      <4> QED
        BY <3>1, <3>3, <4>1
    <3> HIDE DEF text
    <3> QED
      BY <2>3, <3>1, <3>4, Zenon
  <2>14. P >= p
    BY <1>1, <2>2, <2>5
  <2>15. q \in Canvas!Lit(c, k) <=> (row \in text[q[1] \div d + 1][s \div k]) # c.invert
    BY <2>13, <2>14, SameOperators DEF Canvas!Lit, P, s, d
  <2>16. text[q[1] \div d + 1] = glyph(i)
    BY <2>3 DEF glyph
  <2> HIDE DEF row
  <2>17. q \in Canvas!Lit(c, k) <=> Bit(b) \in images[i].bytes[q[1] - images[i].segment]
    BY <2>8, <2>11, <2>12, <2>15, <2>16
  <2> QED
    BY <2>4, <2>17 DEF b
<1>7. ASSUME NEW q \in T
      PROVE  Covering(images, Canvas!PageAt(q), q[1]) \cap (1 .. n) # {}
  <2> DEFINE i == Canvas!CellAt(q, p, k) + 1
  <2>1. q \in Panel /\ Canvas!PageAt(q) \in p .. p + k - 1 /\ Canvas!CellAt(q, p, k) < n
    BY DEF CellsOf
  <2>2. Canvas!CellAt(q, p, k) \in Nat
    <3>1. 1 \in Nat \ {0}
      OBVIOUS
    <3> QED
      BY <1>1, <2>1, <3>1, CellOfPixel
  <2>3. i \in 1 .. n /\ i \in 1 .. Len(text) * k /\ Canvas!CellAt(q, p, k) = i - 1
    BY <1>1, <2>1, <2>2
  <2>4. i \in Covering(images, Canvas!PageAt(q), q[1])
    BY SMTT(30), <1>5, <2>1, <2>3
  <2> QED
    BY <2>3, <2>4
<1> HIDE DEF T
<1>8. Agree(images, 1 .. n, T, Canvas!Lit(c, k))
  BY <1>6, <1>7 DEF Agree
<1> QED
  BY <1>8 DEF images, T

LEMMA TextMaps ==
    ASSUME TypeOK, TypeOK', DisplayText
    PROVE  Canvas!Next
<1>1. PICK p \in 0 .. Pages, text \in Texts, k \in 1 .. 3, inv \in BOOLEAN :
          /\ Costly([op |-> "text", page |-> p, text |-> text, size |-> k, invert |-> inv])
          /\ IF p >= Pages \/ Len(text) > TextMax(k)
             THEN Refuse
             ELSE Transfer(page, TextImages(p, text, k, inv))
  BY DEF DisplayText
<1> DEFINE c == [op |-> "text", page |-> p, text |-> text, size |-> k, invert |-> inv]
           images == TextImages(p, text, k, inv)
           cells == Len(text) * k
<1>2. /\ c.op = "text" /\ c.page = p /\ c.text = text /\ c.size = k /\ c.invert = inv
      /\ Costly(c) /\ Len(text) \in Nat /\ cells \in Nat /\ p \in Nat
  BY <1>1, TextType, PanelSizes
<1>3. flip' = flip /\ flip \in BOOLEAN
  BY <1>2, CallKeepsFlip DEF TypeOK
<1> HIDE DEF c
<1>4. CASE p >= Pages \/ Len(text) > TextMax(k)
  <2>1. Canvas!Refuse
    BY <1>1, <1>3, <1>4, RefuseMaps
  <2>2. Canvas!Text(c, c.size)
    BY <1>2, <1>4, <2>1, SameOperators DEF Canvas!Text
  <2>3. Canvas!Step(c)
    BY <1>2, <2>2 DEF Canvas!Step
  <2> QED
    BY <1>2, <2>3, Painted
<1>5. CASE ~(p >= Pages \/ Len(text) > TextMax(k))
  <2>1. p \in PageNo
    BY <1>5, PanelSizes DEF PageNo
  <2>2. ImagesOK(images, cells) /\ Len(images) = cells
    <3>1. Len(text) \in Nat /\ flip \in BOOLEAN /\ text \in Texts
      BY <1>2, <1>3
    <3> HIDE DEF cells, images
    <3> QED
      BY <3>1, <2>1, TextImagesOK DEF cells, images
  <2>3. PICK n \in 0 .. Accepted(images) :
            /\ Picture' = Seen(Kept(page, images, 1 .. n))
            /\ Shown' = Seen(Kept(Facing(ram), images, 1 .. n))
            /\ result' = IF n = cells THEN "OK" ELSE "FAILED"
    BY <1>1, <1>3, <1>5, <2>2, TransferSeen
  <2>4. /\ Accepted(images) \in 0 .. cells
        /\ \A i \in 1 .. cells : images[i].page >= Pages => Accepted(images) < i
    BY <2>2, AcceptedBelow
  <2>5. n \in 0 .. cells
    BY <1>2, <2>4
  <2>6. p + k > Pages => n <= Pages - p
    <3> SUFFICES ASSUME p + k > Pages, n > Pages - p
                 PROVE  FALSE
      BY <1>2, <2>5, PanelSizes
    <3> DEFINE i == Pages - p + 1
    <3>1. i \in 1 .. cells /\ i - 1 \in 0 .. k - 1 /\ i - 1 = Pages - p
      BY <1>2, <1>5, <2>5, PanelSizes
    <3>2. (i - 1) % k = Pages - p
      <4>1. k \in Nat \ {0}
        OBVIOUS
      <4> QED
        BY <3>1, <4>1, AroundMod
    <3>3. images[i].page = p + ((i - 1) % k)
      BY <3>1 DEF TextImages, Image
    <3> HIDE DEF i, images
    <3>4. images[i].page >= Pages
      BY <1>2, <3>2, <3>3, PanelSizes
    <3>5. Accepted(images) < i
      BY <2>4, <3>1, <3>4
    <3> QED
      BY <1>2, <2>3, <2>4, <3>1, <3>5, PanelSizes
  <2> DEFINE T == CellsOf(p, k, n)
  <2>7. Agree(images, 1 .. n, T, Canvas!Lit(c, k)) /\ T \in SUBSET Panel
    BY <1>2, <1>3, <2>1, <2>5, TextAgrees DEF CellsOf
  <2> HIDE DEF images
  <2>8. /\ Picture' = Canvas!Over(Picture, T, Canvas!Lit(c, k))
        /\ Shown' = Canvas!Over(Shown, T, Canvas!Lit(c, k))
    BY <1>3, <2>2, <2>3, <2>7, AgreeSays, Carried
  <2> DEFINE fit == IF c.page + k > Pages THEN Canvas!Least(cells, Pages - c.page) ELSE cells
  <2>9. n \in 0 .. fit
    BY <1>2, <2>5, <2>6, PanelSizes, SameOperators DEF Least
  <2>10. Canvas!Text(c, k)
    <3>1. T = {q \in Canvas!Panel : /\ Canvas!PageAt(q) \in c.page .. c.page + k - 1
                                    /\ Canvas!CellAt(q, c.page, k) < n}
      BY <1>2, SameOperators DEF CellsOf
    <3> HIDE DEF T, fit
    <3>2. ~(c.page >= Pages \/ Len(c.text) > Canvas!TextMax(k))
      BY <1>2, <1>5, SameOperators
    <3>3. Canvas!Returns(n = Len(c.text) * k)
      BY <1>2, <2>3 DEF Canvas!Returns
    <3> QED
      BY <1>2, <2>8, <2>9, <3>1, <3>2, <3>3 DEF Canvas!Text, fit
  <2>11. Canvas!Step(c)
    BY <1>2, <2>10 DEF Canvas!Step
  <2> QED
    BY <1>2, <2>11, Painted
<1> QED
  BY <1>4, <1>5

LEMMA QuotientNat ==
    ASSUME NEW d \in Nat \ {0}, NEW q \in Int, NEW r \in 0 .. d - 1, d * q + r >= 0
    PROVE  q \in Nat
<1>1. q < 0 => d * q + r < d * 0
  BY QuotientBelow
<1>2. d * 0 = 0
  OBVIOUS
<1> QED
  BY <1>1, <1>2

\* The pixels of the first n cells of some pages that are cleared in turn.
InTurn(pages, n, T) ==
    \A q \in Panel : q \in T <=> \E m \in 1 .. Len(pages) :
        /\ pages[m] = Canvas!PageAt(q) /\ q[1] \div Rows < TextMax(1)
        /\ (m - 1) * TextMax(1) + q[1] \div Rows < n

LEMMA ClearAgrees ==
    ASSUME flip \in BOOLEAN, NEW pages, Len(pages) \in Nat, NEW invert \in BOOLEAN,
           NEW n \in 0 .. Len(pages) * TextMax(1), NEW T \in SUBSET Panel, InTurn(pages, n, T)
    PROVE  Agree(ClearImages(pages, invert), 1 .. n, T, IF invert THEN Panel ELSE {})
<1> DEFINE images == ClearImages(pages, invert)
           most == TextMax(1)
           goal == IF invert THEN Panel ELSE {}
<1>1. most \in Nat /\ n \in Nat /\ Len(pages) * most \in Nat /\ n <= Len(pages) * most
      /\ Rows \in Nat \ {0} /\ Len(pages) * most = most * Len(pages)
  BY TextMaxType, PanelSizes
<1>2. DOMAIN images = 1 .. Len(pages) * most
  BY DEF ClearImages
<1>3. ASSUME NEW i \in 1 .. Len(pages) * most
      PROVE  /\ images[i].page = pages[(i - 1) \div most + 1]
             /\ images[i].segment = ((i - 1) % most) * Rows
             /\ images[i].bytes = Styled(Blank, invert)
             /\ DOMAIN images[i].bytes = 0 .. Rows - 1
  <2>1. images[i] = Image(pages[(i - 1) \div most + 1], ((i - 1) % most) * Rows, Styled(Blank, invert))
    BY DEF ClearImages
  <2>2. DOMAIN Styled(Blank, invert) = 0 .. Rows - 1
    BY DEF Styled, Blank
  <2> HIDE DEF images, most
  <2> QED
    BY <2>1, <2>2 DEF Image
<1> HIDE DEF images
<1>4. ASSUME NEW q \in Panel
      PROVE  \E col \in Nat, x \in 0 .. Rows - 1 : q[1] = Rows * col + x /\ col = q[1] \div Rows
  <2>1. q[1] \in Int /\ q[1] >= 0
    BY PixelOnPage, PanelSizes DEF Segment
  <2> HIDE DEF most, goal
  <2>2. PICK col \in Int, x \in 0 .. Rows - 1 : q[1] = Rows * col + x /\ col = q[1] \div Rows
    BY <1>1, <2>1, DivMod
  <2>3. col \in Nat
    BY <1>1, <2>1, <2>2, QuotientNat
  <2> QED
    BY <2>2, <2>3
<1>5. ASSUME NEW q \in Panel, NEW i \in Covering(images, Canvas!PageAt(q), q[1]) \cap (1 .. n)
      PROVE  /\ q \in T
             /\ q \in goal <=> Bit(q[2] % Rows) \in images[i].bytes[q[1] - images[i].segment]
  <2> DEFINE b == q[2] % Rows
             s == q[1] - images[i].segment
  <2>1. /\ i \in 1 .. n /\ i \in 1 .. Len(pages) * most /\ most \in Nat \ {0} /\ i - 1 \in Int
        /\ images[i].page = Canvas!PageAt(q) /\ s \in 0 .. Rows - 1
    BY <1>1, <1>2, <1>3 DEF Covering
  <2>2. PICK col \in Nat, x \in 0 .. Rows - 1 : q[1] = Rows * col + x /\ col = q[1] \div Rows
    BY <1>4
  <2> HIDE DEF most
  <2>3. PICK a \in Int, r \in 0 .. most - 1 :
            i - 1 = most * a + r /\ a = (i - 1) \div most /\ r = (i - 1) % most
    BY <2>1, DivMod
  <2>4. 0 <= a /\ a < Len(pages)
    <3>1. most * a + r < most * Len(pages)
      BY <1>1, <2>1, <2>3
    <3>2. a < Len(pages)
      <4>1. Len(pages) \in Int
        BY <1>1
      <4> HIDE DEF s
      <4> QED
        BY ONLY <2>1, <2>3, <3>1, <4>1, QuotientBelow
    <3>3. a < 0 => most * a + r < most * 0
      BY <2>1, <2>3, QuotientBelow
    <3>4. most * 0 = 0
      BY <1>1
    <3>5. ~(most * a + r < 0)
      BY <2>1, <2>3
    <3> QED
      BY <2>3, <3>2, <3>3, <3>4, <3>5
  <2>5. r = col
    <3>1. q[1] = Rows * r + s
      <4>1. images[i].segment = r * Rows
        BY <1>3, <2>1, <2>3
      <4>2. q[1] \in Int /\ r \in Int
        BY PixelOnPage, PanelSizes, <2>1, <2>3 DEF Segment
      <4>3. r * Rows = Rows * r /\ Rows * r \in Int
        BY <1>1, <4>2
      <4> QED
        BY <4>1, <4>2, <4>3
    <3> HIDE DEF s
    <3>2. (Rows * r + s) \div Rows = r /\ (Rows * col + x) \div Rows = col
      <4>1. r \in Int /\ col \in Int
        BY <2>1, <2>3
      <4> QED
        BY <1>1, <2>1, <4>1, DivUnique
    <3> QED
      BY <2>2, <3>1, <3>2, Zenon
  <2>6. a + 1 \in 1 .. Len(pages) /\ pages[a + 1] = Canvas!PageAt(q) /\ a = (a + 1) - 1
    <3>1. a + 1 \in 1 .. Len(pages)
      <4>1. \A y \in Int, l \in Nat : 0 <= y /\ y < l => y + 1 \in 1 .. l
        OBVIOUS
      <4>2. a \in Int /\ Len(pages) \in Nat
        BY <2>3
      <4> QED
        BY <2>4, <4>1, <4>2, Zenon
    <3>2. a = (a + 1) - 1
      BY <2>3
    <3> QED
      BY <1>3, <2>1, <2>3, <3>1, <3>2, Zenon
  <2>7. q[1] \div Rows < most /\ a * most + q[1] \div Rows < n
    BY <1>1, <2>1, <2>2, <2>3, <2>5
  <2>8. q \in T
    BY <2>6, <2>7 DEF InTurn, most
  <2>9. Blank[s] = {} /\ s \in DOMAIN Blank
    BY <2>1 DEF Blank
  <2>10. b \in 0 .. Rows - 1
    BY PixelOnPage
  <2> HIDE DEF b, s
  <2>11. Bit(b) \in Styled(Blank, invert)[s] <=> (b \in Blank[s]) # invert
    BY <2>9, <2>10, StyledBit DEF Byte
  <2>12. (b \in Blank[s]) # invert <=> q \in goal
    BY <2>9
  <2>13. images[i].bytes = Styled(Blank, invert)
    BY <1>3, <2>1
  <2> QED
    BY <2>8, <2>11, <2>12, <2>13 DEF b, s
<1>6. ASSUME NEW q \in T
      PROVE  Covering(images, Canvas!PageAt(q), q[1]) \cap (1 .. n) # {}
  <2>1. q \in Panel
    OBVIOUS
  <2>2. PICK m \in 1 .. Len(pages) :
            /\ pages[m] = Canvas!PageAt(q) /\ q[1] \div Rows < most
            /\ (m - 1) * most + q[1] \div Rows < n
    BY <2>1 DEF InTurn
  <2>3. PICK col \in Nat, x \in 0 .. Rows - 1 : q[1] = Rows * col + x /\ col = q[1] \div Rows
    BY <1>4, <2>1
  <2> HIDE DEF most
  <2>4. /\ m - 1 \in Nat /\ m - 1 \in Int /\ col \in 0 .. most - 1
        /\ most \in Nat \ {0} /\ most * (m - 1) \in Nat
        /\ (m - 1) * most = most * (m - 1)
    BY <1>1, <2>2, <2>3
  <2> DEFINE i == most * (m - 1) + col + 1
  <2>5. i \in 1 .. n /\ i \in 1 .. Len(pages) * most /\ i - 1 = most * (m - 1) + col
    <3>1. most * (m - 1) + col < n
      BY <2>2, <2>3, <2>4, Zenon
    <3>2. PICK y \in Nat : y = most * (m - 1)
      BY <2>4
    <3>3. y + col < n /\ i = y + col + 1
      BY <3>1, <3>2
    <3> HIDE DEF i
    <3>4. i \in 1 .. n /\ i \in 1 .. Len(pages) * most /\ i - 1 = y + col
      BY <1>1, <3>3
    <3> QED
      BY <3>2, <3>4
  <2>6. (i - 1) \div most = m - 1 /\ (i - 1) % most = col
    <3>1. \A y \in Int : (most * y + col) \div most = y /\ (most * y + col) % most = col
      BY <2>4, DivUnique
    <3> QED
      BY <2>4, <2>5, <3>1, Zenon
  <2> HIDE DEF i
  <2>7. images[i].page = Canvas!PageAt(q) /\ q[1] - images[i].segment = x
    <3>1. m - 1 + 1 = m /\ q[1] - col * Rows = x
      BY <1>1, <2>3, PanelSizes
    <3> QED
      BY <1>3, <2>2, <2>5, <2>6, <3>1
  <2>8. DOMAIN images[i].bytes = 0 .. Rows - 1
    BY <1>3, <2>5
  <2>9. i \in Covering(images, Canvas!PageAt(q), q[1])
    BY <1>2, <2>3, <2>5, <2>7, <2>8 DEF Covering
  <2> QED
    BY <2>5, <2>9
<1> HIDE DEF goal
<1>7. Agree(images, 1 .. n, T, goal)
  BY <1>5, <1>6 DEF Agree
<1> QED
  BY <1>7 DEF images, goal

\* A transfer of lines of blanks.
LEMMA ClearSeen ==
    ASSUME TypeOK, TypeOK', flip' = flip, NEW pages, Len(pages) \in Nat, NEW invert \in BOOLEAN,
           Transfer(page, ClearImages(pages, invert))
    PROVE  \E n \in 0 .. Len(pages) * TextMax(1) :
             /\ \A T \in SUBSET Panel : InTurn(pages, n, T) =>
                  /\ Picture' = Canvas!Over(Picture, T, IF invert THEN Panel ELSE {})
                  /\ Shown' = Canvas!Over(Shown, T, IF invert THEN Panel ELSE {})
             /\ result' = IF n = Len(pages) * TextMax(1) THEN "OK" ELSE "FAILED"
<1> DEFINE images == ClearImages(pages, invert)
           m == Len(pages) * TextMax(1)
           goal == IF invert THEN Panel ELSE {}
<1>1. flip \in BOOLEAN
  BY DEF TypeOK
<1>2. ImagesOK(images, m) /\ Len(images) = m
  BY <1>1, ClearImagesOK
<1> HIDE DEF images, goal
<1>3. PICK n \in 0 .. Accepted(images) :
          /\ Picture' = Seen(Kept(page, images, 1 .. n))
          /\ Shown' = Seen(Kept(Facing(ram), images, 1 .. n))
          /\ result' = IF n = m THEN "OK" ELSE "FAILED"
  BY <1>2, TransferSeen DEF images
<1>4. n \in 0 .. m
  <2>1. Accepted(images) \in 0 .. m /\ m \in Nat
    BY <1>2, AcceptedBelow DEF ImagesOK
  <2> HIDE DEF m
  <2> QED
    BY <2>1
<1>5. ASSUME NEW T \in SUBSET Panel, InTurn(pages, n, T)
      PROVE  Picture' = Canvas!Over(Picture, T, goal) /\ Shown' = Canvas!Over(Shown, T, goal)
  <2>1. Agree(images, 1 .. n, T, goal)
    BY <1>1, <1>4, <1>5, ClearAgrees DEF images, goal
  <2> HIDE DEF m
  <2> QED
    BY <1>2, <1>3, <2>1, AgreeSays, Carried
<1> QED
  BY <1>3, <1>4, <1>5 DEF goal

LEMMA ClearMaps ==
    ASSUME TypeOK, TypeOK', ClearDisplay
    PROVE  Canvas!Next
<1>1. PICK inv \in BOOLEAN : /\ Cheap([op |-> "clear", invert |-> inv])
                             /\ Transfer(page, ClearImages([i \in 1 .. Pages |-> i - 1], inv))
  BY DEF ClearDisplay
<1> DEFINE c == [op |-> "clear", invert |-> inv]
           pages == [i \in 1 .. Pages |-> i - 1]
           goal == IF inv THEN Panel ELSE {}
           most == TextMax(1)
           T(n) == {q \in Panel : /\ q[1] \div Rows < most
                                  /\ Canvas!PageAt(q) * most + q[1] \div Rows < n}
<1>2. Cheap(c) /\ c.op = "clear" /\ c.invert = inv
  BY <1>1
<1>3. flip' = flip
  BY <1>2, CallKeepsFlip
<1>4. Len(pages) = Pages /\ Pages \in Nat /\ \A m \in 1 .. Len(pages) : pages[m] = m - 1
  BY PanelSizes
<1> HIDE DEF pages, c
<1>5. PICK n \in 0 .. Pages * most :
          /\ \A S \in SUBSET Panel : InTurn(pages, n, S) =>
                Picture' = Canvas!Over(Picture, S, goal) /\ Shown' = Canvas!Over(Shown, S, goal)
          /\ result' = IF n = Pages * most THEN "OK" ELSE "FAILED"
  BY <1>1, <1>3, <1>4, ClearSeen DEF pages
<1>6. InTurn(pages, n, T(n))
  <2> SUFFICES ASSUME NEW q \in Panel
               PROVE  q \in T(n) <=> \E m \in 1 .. Len(pages) :
                         /\ pages[m] = Canvas!PageAt(q) /\ q[1] \div Rows < most
                         /\ (m - 1) * most + q[1] \div Rows < n
    BY DEF InTurn
  <2>1. Canvas!PageAt(q) \in 0 .. Pages - 1
    BY PixelOnPage DEF PageNo
  <2> DEFINE at(m) == m * most + q[1] \div Rows < n
             P == Canvas!PageAt(q)
  <2>2. q \in T(n) <=> q[1] \div Rows < most /\ at(P)
    OBVIOUS
  <2> HIDE DEF at, P, T
  <2>3. P + 1 \in 1 .. Len(pages) /\ (P + 1) - 1 = P /\ \A m \in 1 .. Len(pages) : m - 1 = P => m = P + 1
    BY <1>4, <2>1 DEF P
  <2>4. (\E m \in 1 .. Len(pages) : pages[m] = P /\ at(m - 1)) <=> at(P)
    <3>1. \A m \in 1 .. Len(pages) : pages[m] = P => (at(m - 1) <=> at(P))
      BY <1>4, <2>3, Zenon
    <3>2. P + 1 \in 1 .. Len(pages) /\ pages[P + 1] = P
      <4> DEFINE x == P + 1
      <4>1. x \in 1 .. Len(pages) /\ x - 1 = P
        BY <2>3, Zenon
      <4> HIDE DEF x
      <4>2. x \in 1 .. Len(pages) /\ pages[x] = P
        BY <1>4, <4>1, Zenon
      <4> QED
        BY <4>2 DEF x
    <3> QED
      BY <3>1, <3>2, Zenon
  <2> QED
    BY <2>2, <2>4 DEF at, P
<1>7. Picture' = Canvas!Over(Picture, T(n), goal) /\ Shown' = Canvas!Over(Shown, T(n), goal)
  <2>1. T(n) \in SUBSET Panel
    OBVIOUS
  <2> HIDE DEF T
  <2> QED
    BY <1>5, <1>6, <2>1
<1>8. Canvas!Step(c)
  <2>1. T(n) = {q \in Panel : /\ TRUE /\ q[1] \div Rows < most
                              /\ Canvas!PageAt(q) * most + q[1] \div Rows < n}
    OBVIOUS
  <2> HIDE DEF T
  <2> QED
    BY <1>2, <1>5, <1>7, <2>1, SameOperators DEF Canvas!Step, Canvas!Clear, Canvas!Returns
<1> QED
  BY <1>2, <1>8, Painted

\* A page of the range that scrolls, counted from its end.
LEMMA CountedFromEnd ==
    ASSUME NEW a \in PageNo, NEW z \in PageNo, NEW p \in PageNo, NEW m \in 1 .. Distance(a, z) + 1
    PROVE  p = z - (m - 1) * (IF a > z THEN -1 ELSE 1) <=>
             p \in Least(a, z) .. Greatest(a, z) /\ m - 1 = Distance(z, p)
<1>1. CASE a > z
  BY <1>1, PanelSizes DEF PageNo, Distance, Least, Greatest
<1>2. CASE ~(a > z)
  BY <1>2, PanelSizes DEF PageNo, Distance, Least, Greatest
<1> QED
  BY <1>1, <1>2

LEMMA ClearScrollMaps ==
    ASSUME TypeOK, TypeOK', ClearSoftwareScroll
    PROVE  Canvas!Next
<1> DEFINE c == [op |-> "clear_scroll"]
           most == TextMax(1)
           a == scroll.start
           z == scroll.end
           count == Distance(a, z) + 1
           range == Least(a, z) .. Greatest(a, z)
           T(n) == {q \in Panel : /\ Canvas!PageAt(q) \in range /\ q[1] \div Rows < most
                                  /\ Distance(z, Canvas!PageAt(q)) * most + q[1] \div Rows < n}
<1>1. Cheap(c) /\ c.op = "clear_scroll"
  BY DEF ClearSoftwareScroll
<1>2. flip' = flip
  BY <1>1, CallKeepsFlip
<1>3. scroll.on \in BOOLEAN /\ a \in PageNo /\ z \in PageNo
  BY DEF TypeOK
<1>4. /\ Len(Backwards) = count /\ count \in Nat
      /\ \A m \in 1 .. count : Backwards[m] = z - (m - 1) * (IF a > z THEN -1 ELSE 1)
  BY <1>3, BackwardsType, PanelSizes
<1> HIDE DEF c
<1>5. CASE ~scroll.on
  <2>1. Canvas!Refuse
    BY <1>2, <1>5, RefuseMaps DEF ClearSoftwareScroll
  <2>2. Canvas!Step(c)
    BY <1>1, <1>5, <2>1 DEF Canvas!Step
  <2> QED
    BY <1>1, <2>2, Painted
<1>6. CASE scroll.on
  <2>1. Transfer(page, ClearImages(Backwards, FALSE))
    BY <1>6 DEF ClearSoftwareScroll
  <2> HIDE DEF count
  <2>2. PICK n \in 0 .. count * most :
            /\ \A S \in SUBSET Panel : InTurn(Backwards, n, S) =>
                  /\ Picture' = Canvas!Over(Picture, S, IF FALSE THEN Panel ELSE {})
                  /\ Shown' = Canvas!Over(Shown, S, IF FALSE THEN Panel ELSE {})
            /\ result' = IF n = count * most THEN "OK" ELSE "FAILED"
    BY <1>2, <1>4, <2>1, ClearSeen
  <2>3. InTurn(Backwards, n, T(n))
    <3> SUFFICES ASSUME NEW q \in Panel
                 PROVE  q \in T(n) <=> \E m \in 1 .. Len(Backwards) :
                           /\ Backwards[m] = Canvas!PageAt(q) /\ q[1] \div Rows < most
                           /\ (m - 1) * most + q[1] \div Rows < n
      BY DEF InTurn
    <3> DEFINE at(m) == m * most + q[1] \div Rows < n
               P == Canvas!PageAt(q)
    <3>1. P \in PageNo
      BY PixelOnPage
    <3>2. q \in T(n) <=> P \in range /\ q[1] \div Rows < most /\ at(Distance(z, P))
      OBVIOUS
    <3> HIDE DEF at, P, T
    <3>3. \A m \in 1 .. count : Backwards[m] = P <=> P \in range /\ m - 1 = Distance(z, P)
      <4> HIDE DEF a, z, range
      <4> SUFFICES ASSUME NEW m \in 1 .. count
                   PROVE  Backwards[m] = P <=> P \in range /\ m - 1 = Distance(z, P)
        OBVIOUS
      <4>1. m \in 1 .. Distance(a, z) + 1
        BY DEF count
      <4> QED
        BY <1>3, <1>4, <3>1, <4>1, CountedFromEnd DEF range
    <3>4. P \in range => Distance(z, P) + 1 \in 1 .. count /\ (Distance(z, P) + 1) - 1 = Distance(z, P)
      <4> HIDE DEF a, z
      <4> QED
        BY <1>3, <3>1, PanelSizes DEF Distance, Least, Greatest, PageNo, count, range
    <3>5. (\E m \in 1 .. count : Backwards[m] = P /\ at(m - 1)) <=> (P \in range /\ at(Distance(z, P)))
      <4> HIDE DEF range
      <4>1. \A m \in 1 .. count : Backwards[m] = P => (P \in range /\ (at(m - 1) <=> at(Distance(z, P))))
        BY <3>3, Zenon
      <4>2. P \in range => Distance(z, P) + 1 \in 1 .. count /\ Backwards[Distance(z, P) + 1] = P
        <5> DEFINE x == Distance(z, P) + 1
        <5>1. P \in range => x \in 1 .. count /\ x - 1 = Distance(z, P)
          BY <3>4, Zenon
        <5> HIDE DEF x
        <5>2. P \in range => x \in 1 .. count /\ Backwards[x] = P
          BY <3>3, <5>1, Zenon
        <5> QED
          BY <5>2 DEF x
      <4> QED
        BY <4>1, <4>2, Zenon
    <3> QED
      BY <1>4, <3>2, <3>5 DEF at, P
  <2>4. Picture' = Canvas!Over(Picture, T(n), {}) /\ Shown' = Canvas!Over(Shown, T(n), {})
    <3>1. T(n) \in SUBSET Panel
      OBVIOUS
    <3> HIDE DEF T
    <3> QED
      BY <2>2, <2>3, <3>1
  <2>5. Canvas!Step(c)
    <3>1. T(n) = {q \in Panel : /\ Canvas!PageAt(q) \in range /\ q[1] \div Rows < most
                                /\ Distance(z, Canvas!PageAt(q)) * most + q[1] \div Rows < n}
      OBVIOUS
    <3> HIDE DEF T
    <3> QED
      BY <1>1, <1>6, <2>2, <2>4, <3>1, SameOperators DEF Canvas!Step, Canvas!Clear, Canvas!Returns, count
  <2> QED
    BY <1>1, <2>5, Painted
<1> QED
  BY <1>3, <1>5, <1>6

LEMMA ClearPageMaps ==
    ASSUME TypeOK, TypeOK', ClearDisplayPage
    PROVE  Canvas!Next
<1>1. PICK p \in 0 .. Pages, inv \in BOOLEAN :
          /\ Cheap([op |-> "clear_page", page |-> p, invert |-> inv])
          /\ IF p >= Pages THEN Refuse ELSE Transfer(page, ClearImages(<<p>>, inv))
  BY DEF ClearDisplayPage
<1> DEFINE c == [op |-> "clear_page", page |-> p, invert |-> inv]
           pages == <<p>>
           goal == IF inv THEN Panel ELSE {}
           most == TextMax(1)
           T(n) == {q \in Panel : /\ Canvas!PageAt(q) = p /\ q[1] \div Rows < most
                                  /\ 0 * most + q[1] \div Rows < n}
<1>2. Cheap(c) /\ c.op = "clear_page" /\ c.page = p /\ c.invert = inv
  BY <1>1
<1>3. flip' = flip
  BY <1>2, CallKeepsFlip
<1>4. Len(pages) = 1 /\ \A m \in 1 .. Len(pages) : m = 1 /\ pages[m] = p
  OBVIOUS
<1> HIDE DEF pages, c
<1>5. CASE p >= Pages
  <2>1. Canvas!Refuse
    BY <1>1, <1>3, <1>5, RefuseMaps
  <2>2. Canvas!Step(c)
    BY <1>2, <1>5, <2>1 DEF Canvas!Step
  <2> QED
    BY <1>2, <2>2, Painted
<1>6. CASE ~(p >= Pages)
  <2>0. Transfer(page, ClearImages(pages, inv)) /\ Len(pages) \in Nat /\ most \in Nat
    BY <1>1, <1>4, <1>6, TextMaxType DEF pages
  <2>1. PICK n \in 0 .. Len(pages) * most :
            /\ \A S \in SUBSET Panel : InTurn(pages, n, S) =>
                  Picture' = Canvas!Over(Picture, S, goal) /\ Shown' = Canvas!Over(Shown, S, goal)
            /\ result' = IF n = Len(pages) * most THEN "OK" ELSE "FAILED"
    BY <1>3, <2>0, ClearSeen
  <2>2. InTurn(pages, n, T(n))
    <3> SUFFICES ASSUME NEW q \in Panel
                 PROVE  q \in T(n) <=> \E m \in 1 .. Len(pages) :
                           /\ pages[m] = Canvas!PageAt(q) /\ q[1] \div Rows < most
                           /\ (m - 1) * most + q[1] \div Rows < n
      BY DEF InTurn
    <3>1. 1 \in 1 .. Len(pages) /\ (1 - 1) * most = 0 * most
      BY <1>4, <2>0
    <3> QED
      BY <1>4, <3>1
  <2>3. Picture' = Canvas!Over(Picture, T(n), goal) /\ Shown' = Canvas!Over(Shown, T(n), goal)
    <3>1. T(n) \in SUBSET Panel
      OBVIOUS
    <3> HIDE DEF T
    <3> QED
      BY <2>1, <2>2, <3>1
  <2>4. Canvas!Step(c)
    <3>1. T(n) = {q \in Panel : /\ Canvas!PageAt(q) = c.page /\ q[1] \div Rows < most
                                /\ 0 * most + q[1] \div Rows < n}
      BY <1>2
    <3> HIDE DEF T
    <3>2. n \in 0 .. 1 * most /\ (n = Len(pages) * most <=> n = 1 * most)
      BY <1>4, <2>0, <2>1
    <3> QED
      BY <1>2, <1>6, <2>1, <2>3, <3>1, <3>2, SameOperators DEF Canvas!Step, Canvas!Clear, Canvas!Returns
  <2> QED
    BY <1>2, <2>4, Painted
<1> QED
  BY <1>5, <1>6

LEMMA PlainBit ==
    ASSUME flip \in BOOLEAN, NEW bytes, NEW s \in DOMAIN bytes, bytes[s] \in Byte,
           NEW b \in 0 .. Rows - 1
    PROVE  Bit(b) \in Styled(bytes, FALSE)[s] <=> b \in bytes[s]
<1>1. Styled(bytes, FALSE)[s] = Upright(bytes[s])
  BY DEF Styled
<1>2. \A j \in 0 .. Rows - 1 : /\ Bit(j) \in 0 .. Rows - 1 /\ Bit(Bit(j)) = j
                               /\ j \in Upright(bytes[s]) <=> Bit(j) \in bytes[s]
  BY UprightBits
<1> QED
  BY <1>1, <1>2

\* A character that the caller places himself.
LEMMA ImageMaps ==
    ASSUME TypeOK, TypeOK', DisplayImage
    PROVE  Canvas!Next
<1>1. PICK p \in 0 .. Pages, segment \in 0 .. Width, text \in Texts : \E i \in DOMAIN text :
          /\ Costly([op |-> "image", page |-> p, segment |-> segment, glyph |-> text[i]])
          /\ IF p >= Pages \/ segment >= Width
             THEN Refuse
             ELSE Transfer(page, <<Image(p, segment, Styled(text[i], FALSE))>>)
  BY DEF DisplayImage
<1>2. PICK i \in DOMAIN text :
          /\ Costly([op |-> "image", page |-> p, segment |-> segment, glyph |-> text[i]])
          /\ IF p >= Pages \/ segment >= Width
             THEN Refuse
             ELSE Transfer(page, <<Image(p, segment, Styled(text[i], FALSE))>>)
  BY <1>1
<1> DEFINE c == [op |-> "image", page |-> p, segment |-> segment, glyph |-> text[i]]
           glyph == text[i]
           images == <<Image(p, segment, Styled(glyph, FALSE))>>
           Box == {q \in Panel : Canvas!PageAt(q) = p /\ q[1] - segment \in 0 .. Rows - 1}
           goal == {q \in Box : q[2] % Rows \in glyph[q[1] - segment]}
<1>3. /\ c.op = "image" /\ c.page = p /\ c.segment = segment /\ c.glyph = glyph /\ Costly(c)
      /\ glyph \in Glyph
  BY <1>2, GlyphOfText
<1>4. flip' = flip /\ flip \in BOOLEAN /\ page \in Memory /\ Facing(ram) \in Memory
  BY <1>3, CallKeepsFlip, FacingMemory DEF TypeOK
<1>5. ImagesOK(images, 1) /\ Len(images) = 1
  BY <1>3, <1>4, OneImageOK
<1>6. IF p >= Pages \/ segment >= Width THEN Refuse ELSE Transfer(page, images)
  BY <1>2
<1>7. /\ DOMAIN images = {1} /\ images[1].page = p /\ images[1].segment = segment
      /\ images[1].bytes = Styled(glyph, FALSE)
  <2> DEFINE image == Image(p, segment, Styled(glyph, FALSE))
  <2>1. image.page = p /\ image.segment = segment /\ image.bytes = Styled(glyph, FALSE)
    BY DEF Image
  <2>2. images = <<image>>
    OBVIOUS
  <2> HIDE DEF image, images, glyph
  <2>3. DOMAIN images = {1} /\ images[1] = image
    BY <2>2
  <2> QED
    BY <2>1, <2>3
<1> HIDE DEF c, glyph, images
<1>8. CASE p >= Pages \/ segment >= Width
  <2>1. Canvas!Refuse
    BY <1>4, <1>6, <1>8, RefuseMaps
  <2>2. Canvas!Step(c)
    BY <1>3, <1>8, <2>1 DEF Canvas!Step, Canvas!Image
  <2> QED
    BY <1>3, <2>2, Painted
<1>9. CASE ~(p >= Pages \/ segment >= Width)
  <2>1. PICK n \in 0 .. Accepted(images) :
            /\ Picture' = Seen(Kept(page, images, 1 .. n))
            /\ Shown' = Seen(Kept(Facing(ram), images, 1 .. n))
            /\ result' = IF n = 1 THEN "OK" ELSE "FAILED"
    BY <1>4, <1>5, <1>6, <1>9, TransferSeen
  <2>2. n \in 0 .. 1
    <3>1. Accepted(images) \in 0 .. 1
      BY <1>5, AcceptedBelow
    <3> QED
      BY <3>1
  <2>3. CASE n = 0
    <3>1. Kept(page, images, {}) = page /\ Kept(Facing(ram), images, {}) = Facing(ram)
      BY <1>4, NothingLanded
    <3>2. 1 .. n = {}
      BY <2>3
    <3>3. Picture' = Picture /\ Shown' = Shown /\ result' = "FAILED"
      BY <2>1, <2>3, <3>1, <3>2, Mapping DEF Mapped
    <3>4. Canvas!Step(c)
      BY <1>3, <1>9, <3>3 DEF Canvas!Step, Canvas!Image, Canvas!Keep
    <3> QED
      BY <1>3, <3>4, Painted
  <2>4. CASE n = 1
    <3>1. 1 .. n = {1}
      BY <2>4
    <3>2. DOMAIN Styled(glyph, FALSE) = 0 .. Rows - 1 /\ DOMAIN glyph = 0 .. Rows - 1
          /\ \A s \in 0 .. Rows - 1 : glyph[s] \in Byte
      BY <1>3, <1>4, StyledBytes DEF Glyph
    <3>3. ASSUME NEW q \in Panel
          PROVE  /\ Covering(images, Canvas!PageAt(q), q[1]) \cap {1} # {} <=> q \in Box
                 /\ q \in Box => (q \in goal <=>
                        Bit(q[2] % Rows) \in images[1].bytes[q[1] - images[1].segment])
      <4>1. Covering(images, Canvas!PageAt(q), q[1]) \cap {1} # {} <=> q \in Box
        BY <1>7, <3>2 DEF Covering
      <4>2. ASSUME q \in Box
            PROVE  q \in goal <=> Bit(q[2] % Rows) \in Styled(glyph, FALSE)[q[1] - segment]
        <5>1. q[2] % Rows \in 0 .. Rows - 1 /\ q[1] - segment \in DOMAIN glyph
              /\ glyph[q[1] - segment] \in Byte
          BY <3>2, <4>2, PixelOnPage
        <5>2. Bit(q[2] % Rows) \in Styled(glyph, FALSE)[q[1] - segment]
                <=> q[2] % Rows \in glyph[q[1] - segment]
          BY <1>4, <5>1, PlainBit
        <5>3. q \in goal <=> q[2] % Rows \in glyph[q[1] - segment]
          BY <4>2
        <5> HIDE DEF goal
        <5> QED
          BY <5>2, <5>3, Zenon
      <4> HIDE DEF Box, goal
      <4>3. q[1] - images[1].segment = q[1] - segment
        BY <1>7, Zenon
      <4>4. images[1].bytes[q[1] - images[1].segment] = Styled(glyph, FALSE)[q[1] - segment]
        BY <1>7, <4>3, Zenon
      <4> QED
        BY <4>1, <4>2, <4>4, Zenon
    <3> DEFINE by(q) == Covering(images, Canvas!PageAt(q), q[1]) \cap {1}
    <3>4. Agree(images, {1}, Box, goal) /\ Box \in SUBSET Panel
      <4>1. \A q \in Panel : \A m \in by(q) : m = 1 /\ by(q) # {}
        OBVIOUS
      <4>2. Box \in SUBSET Panel
        OBVIOUS
      <4> HIDE DEF Box, goal, by
      <4>3. \A q \in Panel : \A m \in by(q) :
               /\ q \in Box
               /\ q \in goal <=> Bit(q[2] % Rows) \in images[m].bytes[q[1] - images[m].segment]
        BY <3>3, <4>1 DEF by
      <4>4. \A q \in Box : by(q) # {}
        BY <3>3, <4>2 DEF by
      <4> QED
        BY <4>2, <4>3, <4>4 DEF Agree, by
    <3> HIDE DEF Box, goal
    <3>5. Picture' = Canvas!Over(Picture, Box, goal) /\ Shown' = Canvas!Over(Shown, Box, goal)
      BY <1>4, <1>5, <2>1, <3>1, <3>4, AgreeSays, Carried
    <3>6. /\ Box = {q \in Canvas!Panel : Canvas!PageAt(q) = c.page /\ q[1] - c.segment \in 0 .. Rows - 1}
          /\ goal = {q \in Box : q[2] % Rows \in c.glyph[q[1] - c.segment]}
      BY <1>3, SameOperators DEF Box, goal
    <3>7. result' = "OK"
      BY <2>1, <2>4
    <3>8. Canvas!Image(c)
      BY <1>3, <1>9, <3>5, <3>6, <3>7 DEF Canvas!Image
    <3>9. Canvas!Step(c)
      BY <1>3, <3>8 DEF Canvas!Step
    <3> QED
      BY <1>3, <3>9, Painted
  <2> QED
    BY <2>2, <2>3, <2>4
<1> QED
  BY <1>8, <1>9

\* The step of the fading at which row l of a pixel's byte goes dark.
FadeStep(q, l) == (Rows * Width) * Canvas!PageAt(q) + (Width * l + q[1]) + 1

\* How many rows of a pixel's byte are dark after n steps.
DarkRows(q, n) ==
    LET m == n - Canvas!PageAt(q) * (Rows * Width)
    IN  IF m <= 0 THEN 0 ELSE Least(Rows, m \div Width + IF q[1] < m % Width THEN 1 ELSE 0)

LEMMA FadeImageAt ==
    ASSUME NEW q \in Panel, NEW l \in 0 .. Rows - 1
    PROVE  LET i == FadeStep(q, l)
           IN  /\ i \in 1 .. Pages * (Rows * Width)
               /\ FadeImages[i] = Image(Canvas!PageAt(q), q[1],
                      [s \in {0} |-> IF flip THEN 0 .. Rows - 2 - l ELSE l + 1 .. Rows - 1])
<1> DEFINE d == Rows * Width
           P == Canvas!PageAt(q)
           r == Width * l + q[1]
           i == d * P + r + 1
<1>1. /\ P \in PageNo /\ P \in Int /\ q[1] \in 0 .. Width - 1 /\ Pages \in Int
      /\ Width \in Nat \ {0} /\ Rows \in Nat \ {0} /\ d \in Nat \ {0}
  BY PixelOnPage, PanelSizes DEF PageNo, Segment
<1>2. r \div Width = l /\ r % Width = q[1]
  <2>1. \A x \in 0 .. Width - 1 : (Width * l + x) \div Width = l /\ (Width * l + x) % Width = x
    <3>1. l \in Int
      BY <1>1
    <3> QED
      BY <1>1, <3>1, DivUnique
  <2> QED
    BY <1>1, <2>1, Zenon
<1>3. r \in 0 .. d - 1
  <2>1. r >= 0 /\ r \in Int
    BY <1>1
  <2>2. Width * l + q[1] < Width * Rows
    BY <1>1, QuotientBelow
  <2>3. Width * Rows = d
    BY <1>1
  <2> QED
    BY <1>1, <2>1, <2>2, <2>3
<1> HIDE DEF r
<1>4. (d * P + r) \div d = P /\ (d * P + r) % d = r
  <2> HIDE DEF d, P
  <2> QED
    BY <1>1, <1>3, DivUnique
<1>5. (d * P + r) % Width = q[1]
  <2>1. d * P + r = Width * (Rows * P + l) + q[1]
    <3>1. d * P = Width * (Rows * P)
      BY <1>1
    <3>2. \A a, b \in Int : Width * (a + b) = Width * a + Width * b
      BY <1>1
    <3>3. Rows * P \in Int /\ l \in Int
      BY <1>1
    <3>4. Width * (Rows * P + l) = Width * (Rows * P) + Width * l
      BY <3>2, <3>3
    <3>5. Width * l \in Int /\ Width * (Rows * P) \in Int
      BY <1>1, <3>3
    <3> HIDE DEF d, P
    <3> QED
      BY <1>1, <3>1, <3>4, <3>5 DEF r
  <2>2. Rows * P + l \in Int
    BY <1>1
  <2>3. \A y \in Int : (Width * y + q[1]) % Width = q[1]
    BY <1>1, DivUnique
  <2> HIDE DEF d, P
  <2> QED
    BY <2>1, <2>2, <2>3, Zenon
<1>6. i \in 1 .. Pages * d /\ i - 1 = d * P + r
  <2>1. P < Pages /\ P >= 0
    BY <1>1 DEF PageNo
  <2> HIDE DEF d, P, i
  <2>2. d * P + r < d * Pages
    BY <1>1, <1>3, <2>1, QuotientBelow
  <2>3. d * P >= 0 /\ d * P \in Int /\ d * Pages = Pages * d /\ Pages * d \in Int
    BY <1>1, <2>1
  <2>4. i = d * P + r + 1
    BY DEF i
  <2> QED
    BY <1>1, <1>3, <2>2, <2>3, <2>4
<1>7. FadeImages[i] =
          LET line == ((i - 1) % d) \div Width
              byte == IF flip THEN 0 .. Rows - 2 - line ELSE line + 1 .. Rows - 1
          IN  Image((i - 1) \div d, (i - 1) % Width, [s \in {0} |-> byte])
  <2> HIDE DEF i
  <2> QED
    BY <1>6 DEF FadeImages
<1>8. (i - 1) \div d = P /\ (i - 1) % d = r /\ (i - 1) % Width = q[1] /\ r \div Width = l
  <2> HIDE DEF i, d, P
  <2> QED
    BY <1>2, <1>4, <1>5, <1>6, Zenon DEF r
<1>9. FadeStep(q, l) = i
  BY DEF FadeStep, r
<1> HIDE DEF i, P, d
<1>10. FadeImages[i] = Image(P, q[1], [s \in {0} |-> IF flip THEN 0 .. Rows - 2 - l ELSE l + 1 .. Rows - 1])
  BY <1>7, <1>8, Zenon
<1> QED
  BY <1>6, <1>9, <1>10 DEF P, d

LEMMA FadeCovers ==
    ASSUME NEW q \in Panel, NEW i \in Covering(FadeImages, Canvas!PageAt(q), q[1])
    PROVE  \E l \in 0 .. Rows - 1 : i = FadeStep(q, l)
<1> DEFINE d == Rows * Width
           P == Canvas!PageAt(q)
<1>1. /\ P \in Int /\ q[1] \in 0 .. Width - 1
      /\ Width \in Nat \ {0} /\ Rows \in Nat \ {0} /\ d \in Nat \ {0} /\ Pages * d \in Nat
  <2>1. P \in Int /\ q[1] \in 0 .. Width - 1 /\ Width \in Nat \ {0} /\ Rows \in Nat \ {0}
    BY PixelOnPage, PanelSizes DEF PageNo, Segment
  <2>2. d \in Nat \ {0} /\ Pages \in Nat
    BY PanelSizes
  <2>3. Pages * d \in Nat
    <3> HIDE DEF d
    <3> QED
      BY <2>2
  <2> QED
    BY <2>1, <2>2, <2>3
<1>2. i \in 1 .. Pages * d /\ i - 1 \in Int
  BY <1>1 DEF Covering, FadeImages
<1>3. (i - 1) \div d = P /\ q[1] - ((i - 1) % Width) = 0
  BY <1>2 DEF Covering, FadeImages, Image
<1> HIDE DEF P, d
<1>4. PICK a \in Int, r \in 0 .. d - 1 : i - 1 = d * a + r /\ a = (i - 1) \div d
  BY <1>1, <1>2, DivMod
<1>5. r \in Int /\ r >= 0
  BY <1>1
<1>6. PICK l \in Int, s \in 0 .. Width - 1 : r = Width * l + s /\ l = r \div Width /\ s = r % Width
  BY <1>1, <1>5, DivMod, Zenon
<1>7. l \in Nat
  <2>1. Width * l + s >= 0
    BY <1>5, <1>6, Zenon
  <2> QED
    BY <1>1, <2>1, QuotientNat
<1>8. l < Rows
  <2>1. Width * l + s < Width * Rows
    <3>1. Width * Rows = d
      BY <1>1 DEF d
    <3> QED
      BY <1>1, <1>4, <1>6, <3>1
  <2> QED
    BY <1>1, <1>6, <2>1, QuotientBelow
<1>9. s = q[1]
  <2>1. d * a + (Width * l + s) = Width * (Rows * a + l) + s
    <3>1. d * a = Width * (Rows * a)
      BY <1>1, <1>4 DEF d
    <3>2. \A x, y \in Int : Width * (x + y) = Width * x + Width * y
      BY <1>1
    <3>3. Rows * a \in Int /\ l \in Int
      BY <1>1, <1>4, <1>6
    <3>4. Width * (Rows * a + l) = Width * (Rows * a) + Width * l
      BY <3>2, <3>3
    <3>5. Width * l \in Int /\ Width * (Rows * a) \in Int /\ s \in Int
      BY <1>1, <3>3
    <3> QED
      BY <3>1, <3>4, <3>5
  <2>2. Rows * a + l \in Int
    BY <1>1, <1>4, <1>6
  <2>3. \A y \in Int : (Width * y + s) % Width = s
    BY <1>1, <1>6, DivUnique
  <2>4. (i - 1) % Width = s
    BY <1>4, <1>6, <2>1, <2>2, <2>3, Zenon
  <2> QED
    BY <1>1, <1>3, <1>6, <2>4
<1>10. d * a \in Int /\ a = P
  BY <1>1, <1>3, <1>4
<1>11. i = d * P + (Width * l + q[1]) + 1
  <2>1. i = d * a + r + 1
    BY <1>2, <1>4, <1>5, <1>10
  <2> QED
    BY <1>6, <1>9, <1>10, <2>1, Zenon
<1>12. l \in 0 .. Rows - 1 /\ i = FadeStep(q, l)
  BY <1>1, <1>7, <1>8, <1>11 DEF FadeStep, d, P
<1> QED
  BY <1>12

LEMMA FadeReach ==
    ASSUME NEW q \in Panel, NEW n \in Nat
    PROVE  /\ DarkRows(q, n) \in 0 .. Rows
           /\ \A l \in 0 .. Rows - 1 : FadeStep(q, l) <= n <=> l < DarkRows(q, n)
<1> DEFINE d == Rows * Width
           P == Canvas!PageAt(q)
           m == n - P * d
           s == q[1]
<1>1. /\ P \in Int /\ s \in 0 .. Width - 1 /\ Width \in Nat \ {0} /\ Rows \in Nat \ {0}
      /\ d \in Nat \ {0} /\ P * d \in Int /\ d * P = P * d
  BY PixelOnPage, PanelSizes DEF PageNo, Segment
<1> HIDE DEF P, d, s
<1>2. m \in Int
  BY <1>1
<1>3. \A l \in Int : Width * l \in Int
  BY <1>1
<1>4. \A l \in 0 .. Rows - 1 : FadeStep(q, l) <= n <=> Width * l + s < m
  <2> SUFFICES ASSUME NEW l \in 0 .. Rows - 1
               PROVE  FadeStep(q, l) <= n <=> Width * l + s < m
    OBVIOUS
  <2>1. FadeStep(q, l) = P * d + (Width * l + s) + 1
    BY <1>1 DEF FadeStep, P, d, s
  <2>2. Width * l \in Int
    BY <1>1, <1>3
  <2> QED
    BY <1>1, <2>1, <2>2
<1>5. DarkRows(q, n) = IF m <= 0 THEN 0
                       ELSE Least(Rows, m \div Width + IF s < m % Width THEN 1 ELSE 0)
  BY DEF DarkRows, P, d, s
<1> HIDE DEF m
<1>6. CASE m <= 0
  <2>1. \A l \in 0 .. Rows - 1 : ~(Width * l + s < m)
    <3> SUFFICES ASSUME NEW l \in 0 .. Rows - 1
                 PROVE  Width * l + s >= 0
      BY <1>1, <1>2, <1>3, <1>6
    <3>1. Width * l >= 0
      BY <1>1
    <3> QED
      BY <1>1, <1>3, <3>1
  <2>2. DarkRows(q, n) = 0
    BY <1>5, <1>6
  <2> QED
    BY <1>1, <1>4, <2>1, <2>2
<1>7. CASE m > 0
  <2>1. PICK a \in Int, c \in 0 .. Width - 1 : m = Width * a + c /\ a = m \div Width /\ c = m % Width
    BY <1>1, <1>2, DivMod
  <2>2. a \in Nat
    BY <1>1, <1>2, <1>7, <2>1, QuotientNat
  <2> DEFINE D == a + IF s < c THEN 1 ELSE 0
  <2>3. D \in Nat /\ DarkRows(q, n) = Least(Rows, D)
    BY <1>1, <1>2, <1>5, <1>7, <2>1, <2>2
  <2>4. ASSUME NEW l \in 0 .. Rows - 1
        PROVE  Width * l + s < m <=> l < D
    <3>1. l \in Int /\ c \in Int
      BY <1>1, <2>1
    <3>2. CASE l < a
      <4>1. Width * l + s < Width * a
        BY <1>1, <2>1, <3>1, <3>2, QuotientBelow
      <4>2. Width * l \in Int /\ Width * a \in Int
        BY <1>3, <2>1, <3>1
      <4> QED
        BY <1>1, <2>1, <2>2, <3>1, <3>2, <4>1, <4>2
    <3>3. CASE l = a
      <4>1. Width * l = Width * a /\ Width * a \in Int
        BY <1>3, <2>1, <3>3
      <4> QED
        BY <1>1, <2>1, <2>2, <3>1, <3>3, <4>1
    <3>4. CASE l > a
      <4>1. Width * a + c < Width * l
        BY <1>1, <2>1, <3>1, <3>4, QuotientBelow
      <4>2. Width * l \in Int /\ Width * a \in Int
        BY <1>3, <2>1, <3>1
      <4> QED
        BY <1>1, <2>1, <2>2, <3>1, <3>4, <4>1, <4>2
    <3> QED
      BY <2>1, <3>1, <3>2, <3>3, <3>4
  <2> HIDE DEF D
  <2>5. /\ Least(Rows, D) \in 0 .. Rows
        /\ \A l \in 0 .. Rows - 1 : l < Least(Rows, D) <=> l < D
    BY <1>1, <2>3 DEF Least
  <2> QED
    BY <1>4, <2>3, <2>4, <2>5
<1> QED
  BY <1>2, <1>6, <1>7

LEMMA FadeSays ==
    ASSUME flip \in BOOLEAN, NEW n \in 0 .. Pages * (Rows * Width)
    PROVE  LastSays(FadeImages, 1 .. n, {q \in Panel : DarkRows(q, n) > 0},
                    {q \in Panel : q[2] % Rows >= DarkRows(q, n)})
<1> DEFINE T == {q \in Panel : DarkRows(q, n) > 0}
           goal == {q \in Panel : q[2] % Rows >= DarkRows(q, n)}
<1>1. n \in Nat /\ Rows \in Nat \ {0} /\ Width \in Nat \ {0} /\ Pages * (Rows * Width) \in Nat
  BY PanelSizes
<1>2. DOMAIN FadeImages = 1 .. Pages * (Rows * Width)
  BY DEF FadeImages
<1>3. ASSUME NEW q \in Panel
      PROVE  LET by == Covering(FadeImages, Canvas!PageAt(q), q[1]) \cap (1 .. n)
                 last == Max(by)
             IN  /\ q \in T <=> by # {}
                 /\ by # {} => (q \in goal <=>
                       Bit(q[2] % Rows) \in FadeImages[last].bytes[q[1] - FadeImages[last].segment])
  <2> DEFINE by == Covering(FadeImages, Canvas!PageAt(q), q[1]) \cap (1 .. n)
             last == Max(by)
             dark == DarkRows(q, n)
             b == q[2] % Rows
             byte(l) == IF flip THEN 0 .. Rows - 2 - l ELSE l + 1 .. Rows - 1
  <2>1. dark \in 0 .. Rows /\ \A l \in 0 .. Rows - 1 : FadeStep(q, l) <= n <=> l < dark
    BY <1>1, FadeReach
  <2>2. ASSUME NEW l \in 0 .. Rows - 1
        PROVE  /\ FadeStep(q, l) \in Covering(FadeImages, Canvas!PageAt(q), q[1])
               /\ FadeStep(q, l) \in Nat \ {0}
               /\ FadeImages[FadeStep(q, l)].segment = q[1]
               /\ FadeImages[FadeStep(q, l)].bytes = [s \in {0} |-> byte(l)]
    <3> DEFINE i == FadeStep(q, l)
    <3>1. /\ i \in 1 .. Pages * (Rows * Width)
          /\ FadeImages[i] = Image(Canvas!PageAt(q), q[1], [s \in {0} |-> byte(l)])
      BY FadeImageAt
    <3>2. q[1] - q[1] = 0
      BY PixelOnPage, PanelSizes DEF Segment
    <3> HIDE DEF i, byte
    <3>3. /\ FadeImages[i].page = Canvas!PageAt(q) /\ FadeImages[i].segment = q[1]
          /\ FadeImages[i].bytes = [s \in {0} |-> byte(l)]
      BY <3>1 DEF Image
    <3>4. DOMAIN FadeImages[i].bytes = {0}
      BY <3>3
    <3>5. i \in Covering(FadeImages, Canvas!PageAt(q), q[1])
      BY <1>2, <3>1, <3>2, <3>3, <3>4 DEF Covering
    <3>6. i \in Nat \ {0}
      BY <1>1, <3>1
    <3> QED
      BY <3>3, <3>5, <3>6 DEF i
  <2>3. \A i \in by : \E l \in 0 .. Rows - 1 : i = FadeStep(q, l) /\ l < dark
    <3> SUFFICES ASSUME NEW i \in by
                 PROVE  \E l \in 0 .. Rows - 1 : i = FadeStep(q, l) /\ l < dark
      OBVIOUS
    <3>1. PICK l \in 0 .. Rows - 1 : i = FadeStep(q, l)
      BY FadeCovers
    <3>2. FadeStep(q, l) <= n
      BY <1>1, <3>1
    <3> QED
      BY <2>1, <3>1, <3>2
  <2>4. dark > 0 => FadeStep(q, dark - 1) \in by /\ dark - 1 \in 0 .. Rows - 1
    <3> SUFFICES ASSUME dark > 0
                 PROVE  FadeStep(q, dark - 1) \in by /\ dark - 1 \in 0 .. Rows - 1
      OBVIOUS
    <3>1. dark - 1 \in 0 .. Rows - 1 /\ dark - 1 < dark
      BY <1>1, <2>1
    <3> HIDE DEF dark
    <3>2. FadeStep(q, dark - 1) <= n /\ FadeStep(q, dark - 1) \in Nat \ {0}
      BY <2>1, <2>2, <3>1
    <3> QED
      BY <1>1, <2>2, <3>1, <3>2
  <2>5. by # {} => last \in by /\ \A i \in by : i <= last
    <3>1. ImagesOK(FadeImages, Pages * (Rows * Width))
      BY FadeImagesOK
    <3> QED
      BY <3>1, LastCovering
  <2> HIDE DEF by, last, dark
  <2>6. q \in T <=> by # {}
    <3>1. by # {} => dark > 0
      BY <2>1, <2>3
    <3> QED
      BY <2>4, <3>1 DEF dark
  <2>7. ASSUME by # {}
        PROVE  last = FadeStep(q, dark - 1) /\ dark > 0
    <3>1. PICK l \in 0 .. Rows - 1 : last = FadeStep(q, l) /\ l < dark
      BY <2>3, <2>5, <2>7
    <3>2. dark > 0
      BY <2>1, <3>1
    <3>3. FadeStep(q, dark - 1) <= FadeStep(q, l) /\ dark - 1 \in 0 .. Rows - 1
      BY <2>4, <2>5, <2>7, <3>1, <3>2
    <3> DEFINE base == (Rows * Width) * Canvas!PageAt(q)
               s == q[1]
               u == dark - 1
    <3>4. base \in Int /\ s \in Int /\ l \in Int /\ u \in Int
      BY <2>1, PixelOnPage, PanelSizes DEF PageNo, Segment
    <3>5. Width * l \in Int /\ Width * u \in Int
      BY <1>1, <3>4
    <3>6. FadeStep(q, u) = base + (Width * u + s) + 1 /\ FadeStep(q, l) = base + (Width * l + s) + 1
      BY DEF FadeStep
    <3> HIDE DEF base, s, u
    <3>7. Width * u <= Width * l
      BY <3>3, <3>4, <3>5, <3>6 DEF u
    <3>8. ~(l < u)
      <4>1. l < u => Width * l + 0 < Width * u
        BY <1>1, <3>4, QuotientBelow
      <4> QED
        BY <3>5, <3>7, <4>1
    <3>9. l = dark - 1
      BY <2>1, <3>1, <3>8 DEF u
    <3> QED
      BY <3>1, <3>2, <3>9
  <2>8. ASSUME by # {}
        PROVE  q \in goal <=> Bit(b) \in FadeImages[last].bytes[q[1] - FadeImages[last].segment]
    <3> DEFINE l == dark - 1
    <3>1. l \in 0 .. Rows - 1 /\ dark = l + 1
      BY <2>1, <2>4, <2>7, <2>8
    <3>2. last = FadeStep(q, l)
      BY <2>7, <2>8
    <3> HIDE DEF l, byte
    <3>3. FadeImages[last].segment = q[1] /\ FadeImages[last].bytes = [s \in {0} |-> byte(l)]
      BY <2>2, <3>1, <3>2
    <3>4. q[1] - q[1] = 0
      BY PixelOnPage, PanelSizes DEF Segment
    <3>5. FadeImages[last].bytes[q[1] - FadeImages[last].segment] = byte(l)
      BY <3>3, <3>4
    <3>6. b \in 0 .. Rows - 1
      BY PixelOnPage
    <3>7. q \in goal <=> b >= dark
      BY DEF dark
    <3> HIDE DEF b, goal
    <3>8. Bit(b) \in byte(l) <=> b >= l + 1
      <4>1. CASE flip
        BY <1>1, <3>1, <3>6, <4>1 DEF Bit, byte
      <4>2. CASE ~flip
        BY <1>1, <3>1, <3>6, <4>2 DEF Bit, byte
      <4> QED
        BY <4>1, <4>2
    <3> QED
      BY <3>1, <3>5, <3>7, <3>8
  <2> HIDE DEF T, goal
  <2> QED
    BY <2>6, <2>8 DEF by, last, b
<1> HIDE DEF T, goal
<1>4. LastSays(FadeImages, 1 .. n, T, goal)
  BY <1>3, Zenon DEF LastSays
<1> QED
  BY <1>4 DEF T, goal

LEMMA FadeMaps ==
    ASSUME TypeOK, TypeOK', Fadeout
    PROVE  Canvas!Next
<1> DEFINE c == [op |-> "fadeout"]
           N == Pages * (Rows * Width)
           T(n) == {q \in Panel : DarkRows(q, n) > 0}
           goal(n) == {q \in Panel : q[2] % Rows >= DarkRows(q, n)}
<1>1. Costly(c) /\ c.op = "fadeout" /\ Transfer(page, FadeImages)
  BY DEF Fadeout
<1>2. flip' = flip /\ flip \in BOOLEAN
  BY <1>1, CallKeepsFlip DEF TypeOK
<1> HIDE DEF c
<1>3. ImagesOK(FadeImages, N) /\ Len(FadeImages) = N /\ N \in Nat
  BY <1>2, FadeImagesOK DEF ImagesOK
<1> HIDE DEF N
<1>4. PICK n \in 0 .. Accepted(FadeImages) :
          /\ Picture' = Seen(Kept(page, FadeImages, 1 .. n))
          /\ Shown' = Seen(Kept(Facing(ram), FadeImages, 1 .. n))
          /\ result' = IF n = N THEN "OK" ELSE "FAILED"
  BY <1>1, <1>2, <1>3, TransferSeen
<1>5. n \in 0 .. N
  BY <1>3, <1>4, AcceptedBelow
<1>6. LastSays(FadeImages, 1 .. n, T(n), goal(n))
  BY <1>2, <1>5, FadeSays DEF N
<1>7. T(n) \in SUBSET Panel
  OBVIOUS
<1> HIDE DEF T, goal
<1>8. Picture' = Canvas!Over(Picture, T(n), goal(n)) /\ Shown' = Canvas!Over(Shown, T(n), goal(n))
  BY <1>2, <1>3, <1>4, <1>6, <1>7, Carried
<1>9. N = Pages * Rows * Width
  BY PanelSizes DEF N
<1>10. Canvas!Fade
  <2>1. T(n) = {q \in Panel : (LET m == n - Canvas!PageAt(q) * (Rows * Width)
                               IN  IF m <= 0 THEN 0
                                   ELSE Least(Rows, m \div Width + IF q[1] < m % Width THEN 1 ELSE 0)) > 0}
    BY DEF T, DarkRows
  <2>2. goal(n) = {q \in Panel : q[2] % Rows >= (LET m == n - Canvas!PageAt(q) * (Rows * Width)
                               IN  IF m <= 0 THEN 0
                                   ELSE Least(Rows, m \div Width + IF q[1] < m % Width THEN 1 ELSE 0))}
    BY DEF goal, DarkRows
  <2>3. result' = IF n = Pages * (Rows * Width) THEN "OK" ELSE "FAILED"
    BY <1>4 DEF N
  <2> QED
    BY <1>5, <1>8, <1>9, <2>1, <2>2, <2>3, SameOperators DEF Canvas!Fade, Canvas!Returns
<1>11. Canvas!Step(c)
  BY <1>1, <1>10 DEF Canvas!Step
<1> QED
  BY <1>1, <1>11, Painted

-----------------------------------------------------------------------------
(* ssd1306_display_software_scroll_text.                                   *)

LEMMA NeighbourSeen ==
    ASSUME flip \in BOOLEAN, NEW memory \in Memory, NEW q \in Panel, NEW dir \in {-1, 1},
           Canvas!PageAt(q) - dir \in PageNo
    PROVE  <<q[1], q[2] - dir * Rows>> \in Seen(memory) <=>
               Bit(q[2] % Rows) \in memory[Canvas!PageAt(q) - dir][q[1]]
<1> DEFINE p == Canvas!PageAt(q) - dir
           b == q[2] % Rows
           r == <<q[1], q[2] - dir * Rows>>
<1>1. /\ q[1] \in Segment /\ b \in 0 .. Rows - 1 /\ q[2] = Rows * Canvas!PageAt(q) + b
      /\ Canvas!PageAt(q) \in Int
  BY PixelOnPage DEF PageNo
<1>2. q[2] - dir * Rows = p * Rows + b
  <2>1. CASE dir = 1
    BY <1>1, <2>1, PanelSizes
  <2>2. CASE dir = -1
    BY <1>1, <2>2, PanelSizes
  <2> QED
    BY <2>1, <2>2
<1> HIDE DEF p, b
<1>3. p \in PageNo
  BY DEF p
<1>4. r = <<q[1], p * Rows + b>>
  BY <1>2
<1>5. r \in Panel /\ Canvas!PageAt(r) = p /\ r[2] % Rows = b /\ r[1] = q[1]
  BY <1>1, <1>3, <1>4, PageOfPixel DEF Canvas!PageAt
<1> HIDE DEF r
<1>6. r \in Seen(memory) <=> Bit(b) \in memory[p][q[1]]
  BY <1>5 DEF Seen
<1> QED
  BY <1>6 DEF r, b, p

\* The pages that have moved after k transfers, and the text's cells.
MovedPages(k) ==
    {q \in Panel : \E t \in 0 .. Least(k, Distance(scroll.start, scroll.end)) - 1 :
        Canvas!PageAt(q) = scroll.end - t * (IF scroll.start > scroll.end THEN -1 ELSE 1)}
EnteredCells(k) ==
    {q \in Panel : /\ Canvas!PageAt(q) = scroll.start
                   /\ q[1] \div Rows < k - Distance(scroll.start, scroll.end)}

\* What a page has when the page before it has moved there.
PageBefore ==
    {q \in Panel :
        <<q[1], q[2] - (IF scroll.start > scroll.end THEN -1 ELSE 1) * Rows>> \in Seen(page)}

ScrollGoal(lit) ==
    {q \in Panel : IF Canvas!PageAt(q) = scroll.start THEN q \in lit ELSE q \in PageBefore}

LEMMA MovedIsNotStart ==
    ASSUME TypeOK, NEW t \in Nat, t < Distance(scroll.start, scroll.end)
    PROVE  scroll.end - t * (IF scroll.start > scroll.end THEN -1 ELSE 1) # scroll.start
<1>1. scroll.start \in Int /\ scroll.end \in Int
  BY PanelSizes DEF TypeOK, PageNo
<1>2. CASE scroll.start > scroll.end
  BY <1>1, <1>2 DEF Distance
<1>3. CASE ~(scroll.start > scroll.end)
  BY <1>1, <1>3 DEF Distance
<1> QED
  BY <1>2, <1>3

LEMMA ScrollAgrees ==
    ASSUME TypeOK, NEW c, c.page = scroll.start, Len(c.text) \in Nat, c.invert \in BOOLEAN,
           NEW K \in 0 .. Distance(scroll.start, scroll.end) + Len(c.text)
    PROVE  Agree(ScrollImages(c.text, c.invert), 1 .. K, MovedPages(K) \cup EnteredCells(K),
                 ScrollGoal(Canvas!Lit(c, 1)))
<1> DEFINE images == ScrollImages(c.text, c.invert)
           cells == TextImages(scroll.start, c.text, 1, c.invert)
           moves == Distance(scroll.start, scroll.end)
           dir == IF scroll.start > scroll.end THEN -1 ELSE 1
           lit == Canvas!Lit(c, 1)
           L == Len(c.text)
           J == IF K <= moves THEN 0 ELSE K - moves
           T == MovedPages(K) \cup EnteredCells(K)
           goal == ScrollGoal(lit)
<1>1. /\ flip \in BOOLEAN /\ scroll.start \in PageNo /\ scroll.end \in PageNo /\ page \in Memory
      /\ dir \in {-1, 1}
  BY DEF TypeOK
<1>2. /\ moves \in 0 .. Pages - 1 /\ Len(Backwards) = moves + 1
      /\ \A i \in 1 .. moves + 1 : Backwards[i] \in PageNo /\ Backwards[i] = scroll.end - (i - 1) * dir
  BY <1>1, BackwardsType
<1>3. moves \in Nat /\ L \in Nat /\ K \in Nat /\ K <= moves + L /\ J \in 0 .. L
  BY <1>2, PanelSizes
<1>4. /\ ImagesOK(images, moves + L)
      /\ \A i \in 1 .. moves : images[i] = Image(Backwards[i], 0, page[Backwards[i + 1]])
      /\ \A i \in 1 .. L : images[moves + i] = cells[i]
  <2>1. Len(Backwards) - 1 = moves
    BY <1>2, <1>3
  <2> DEFINE m == Len(Backwards) - 1
  <2>2. /\ ImagesOK(images, m + L)
        /\ \A i \in 1 .. m : images[i] = Image(Backwards[i], 0, page[Backwards[i + 1]])
        /\ \A i \in 1 .. L : images[m + i] = cells[i]
    <3> HIDE DEF moves, lit, J, T, goal, dir
    <3>1. TypeOK /\ Len(c.text) \in Nat
      OBVIOUS
    <3>2. \A text, invert : Len(text) \in Nat =>
             /\ ImagesOK(ScrollImages(text, invert), Len(Backwards) - 1 + Len(text))
             /\ \A i \in 1 .. Len(Backwards) - 1 :
                   ScrollImages(text, invert)[i] = Image(Backwards[i], 0, page[Backwards[i + 1]])
             /\ \A i \in 1 .. Len(text) : ScrollImages(text, invert)[Len(Backwards) - 1 + i] =
                   TextImages(scroll.start, text, 1, invert)[i]
      BY <3>1, ScrollImagesOK
    <3> QED
      BY <3>1, <3>2
  <2> HIDE DEF images, cells, moves
  <2>3. m = moves
    BY <2>1
  <2> HIDE DEF m
  <2> QED
    BY <2>2, <2>3
<1>5. Agree(cells, 1 .. J, CellsOf(scroll.start, 1, J), lit)
  <2>1. Len(c.text) * 1 = L /\ 1 \in 1 .. 3
    BY <1>3
  <2>2. J \in 0 .. Len(c.text) * 1
    BY <1>3, <2>1
  <2> HIDE DEF J
  <2> QED
    BY <1>1, <2>1, <2>2, TextAgrees
<1>6. DOMAIN images = 1 .. moves + L
  BY <1>4 DEF ImagesOK
<1>7. DOMAIN cells = 1 .. L
  BY <1>3 DEF TextImages
<1> HIDE DEF images, cells, lit, moves, dir
<1>8. ASSUME NEW q \in Panel
      PROVE  q \in CellsOf(scroll.start, 1, J) <=> q \in EnteredCells(K)
  <2> DEFINE col == q[1] \div Rows
             P == Canvas!PageAt(q)
  <2>1. /\ P \in Int /\ scroll.start \in Int /\ q[1] \in Int /\ q[1] >= 0 /\ Rows \in Nat \ {0}
        /\ 1 * Rows = Rows
    <3>1. P \in PageNo /\ q[1] \in Segment
      BY PixelOnPage
    <3> HIDE DEF P
    <3> QED
      BY <1>1, <3>1, PanelSizes DEF PageNo, Segment
  <2>2. PICK a \in Int, x \in 0 .. Rows - 1 : q[1] = Rows * a + x /\ a = q[1] \div Rows
    BY <2>1, DivMod
  <2>3. a \in Nat
    BY <2>1, <2>2, QuotientNat
  <2>4. Canvas!CellAt(q, scroll.start, 1) = col * 1 + P - scroll.start /\ col \in Nat
    BY <2>1, <2>2, <2>3 DEF Canvas!CellAt
  <2>5. q \in CellsOf(scroll.start, 1, J) <=>
           P \in scroll.start .. scroll.start + 1 - 1 /\ Canvas!CellAt(q, scroll.start, 1) < J
    BY DEF CellsOf
  <2>6. q \in EnteredCells(K) <=> P = scroll.start /\ col < K - moves
    BY DEF EnteredCells, moves
  <2> HIDE DEF col, P
  <2> QED
    BY <1>3, <2>1, <2>4, <2>5, <2>6
<1>9. ASSUME NEW q \in Panel, NEW i \in 1 .. moves
      PROVE  /\ i \in Covering(images, Canvas!PageAt(q), q[1])
                  <=> Canvas!PageAt(q) = scroll.end - (i - 1) * dir
             /\ Canvas!PageAt(q) = scroll.end - (i - 1) * dir =>
                   (q \in goal <=> Bit(q[2] % Rows) \in images[i].bytes[q[1] - images[i].segment])
  <2> DEFINE P == Canvas!PageAt(q)
  <2>1. /\ i \in 1 .. moves + 1 /\ i + 1 \in 1 .. moves + 1 /\ i \in 1 .. moves + L
        /\ i - 1 \in Nat /\ i - 1 < moves /\ (i + 1) - 1 = i
    BY <1>3
  <2>2. /\ images[i].page = Backwards[i] /\ images[i].segment = 0
        /\ images[i].bytes = page[Backwards[i + 1]]
    <3>1. images[i] = Image(Backwards[i], 0, page[Backwards[i + 1]])
      BY <1>4
    <3> QED
      BY <3>1 DEF Image
  <2>3. DOMAIN page[Backwards[i + 1]] = Segment
    BY <1>1, <1>2, <2>1 DEF Memory
  <2>4. q[1] - 0 = q[1] /\ q[1] \in Segment /\ P \in Int
    BY SMTT(30), PixelOnPage, PanelSizes DEF Segment, PageNo
  <2>5. i \in Covering(images, P, q[1]) <=> P = scroll.end - (i - 1) * dir
    <3>1. Backwards[i] = scroll.end - (i - 1) * dir
      BY <1>2, <2>1
    <3> HIDE DEF P
    <3> QED
      BY <1>6, <2>1, <2>2, <2>3, <2>4, <3>1 DEF Covering
  <2>6. ASSUME P = scroll.end - (i - 1) * dir
        PROVE  q \in goal <=> Bit(q[2] % Rows) \in images[i].bytes[q[1] - images[i].segment]
    <3>1. P # scroll.start
      BY <2>1, <2>6, MovedIsNotStart DEF moves, dir
    <3>2. P - dir = Backwards[i + 1] /\ P - dir \in PageNo
      <4>1. Backwards[i + 1] = scroll.end - i * dir /\ Backwards[i + 1] \in PageNo
        BY <1>2, <2>1
      <4>2. scroll.end \in Int
        BY <1>1 DEF PageNo
      <4>3. CASE dir = 1
        BY <2>1, <2>6, <4>1, <4>2, <4>3
      <4>4. CASE dir = -1
        BY <2>1, <2>6, <4>1, <4>2, <4>4
      <4> QED
        BY <1>1, <4>3, <4>4
    <3>3. q \in PageBefore <=> Bit(q[2] % Rows) \in page[P - dir][q[1]]
      <4>1. q \in PageBefore <=> <<q[1], q[2] - dir * Rows>> \in Seen(page)
        BY DEF PageBefore, dir
      <4> QED
        BY <1>1, <3>2, <4>1, NeighbourSeen
    <3>4. q \in goal <=> q \in PageBefore
      BY <3>1 DEF ScrollGoal
    <3>5. images[i].bytes[q[1] - images[i].segment] = page[P - dir][q[1]]
      BY <2>2, <2>4, <3>2, Zenon
    <3> QED
      BY <3>3, <3>4, <3>5
  <2> QED
    BY <2>5, <2>6
<1>10. ASSUME NEW q \in Panel, NEW j \in 1 .. L
       PROVE  /\ images[moves + j].page = cells[j].page /\ images[moves + j].segment = cells[j].segment
              /\ images[moves + j].bytes = cells[j].bytes
              /\ moves + j \in Covering(images, Canvas!PageAt(q), q[1]) <=>
                    j \in Covering(cells, Canvas!PageAt(q), q[1])
  <2>1. moves + j \in 1 .. moves + L
    BY <1>3
  <2>2. images[moves + j] = cells[j]
    BY <1>4
  <2> QED
    BY <1>6, <1>7, <2>1, <2>2 DEF Covering
<1>11. ASSUME NEW q \in Panel, NEW i \in Covering(images, Canvas!PageAt(q), q[1]) \cap (1 .. K)
       PROVE  /\ q \in T
              /\ q \in goal <=> Bit(q[2] % Rows) \in images[i].bytes[q[1] - images[i].segment]
  <2>1. i \in 1 .. moves + L /\ i \in Nat /\ i >= 1 /\ i <= K
    BY <1>3, <1>6 DEF Covering
  <2>2. CASE i <= moves
    <3>1. i \in 1 .. moves
      BY <1>3, <2>1, <2>2
    <3>2. /\ Canvas!PageAt(q) = scroll.end - (i - 1) * dir
          /\ q \in goal <=> Bit(q[2] % Rows) \in images[i].bytes[q[1] - images[i].segment]
      BY <1>9, <3>1
    <3>3. i - 1 \in 0 .. Least(K, moves) - 1
      BY <1>3, <2>1, <2>2 DEF Least
    <3>4. q \in MovedPages(K)
      BY <3>2, <3>3 DEF MovedPages, moves, dir
    <3> QED
      BY <3>2, <3>4
  <2>3. CASE i > moves
    <3> DEFINE j == i - moves
    <3>1. j \in 1 .. L /\ moves + j = i /\ j \in 1 .. J
      BY <1>3, <2>1, <2>3
    <3> HIDE DEF j, J
    <3>2. /\ j \in Covering(cells, Canvas!PageAt(q), q[1]) \cap (1 .. J)
          /\ images[i].segment = cells[j].segment /\ images[i].bytes = cells[j].bytes
      BY <1>10, <3>1
    <3>3. /\ q \in CellsOf(scroll.start, 1, J)
          /\ q \in lit <=> Bit(q[2] % Rows) \in cells[j].bytes[q[1] - cells[j].segment]
      BY <1>5, <3>2 DEF Agree
    <3>4. q \in EnteredCells(K)
      BY <1>8, <3>3 DEF J
    <3>5. q \in goal <=> q \in lit
      BY <3>4 DEF EnteredCells, ScrollGoal
    <3> QED
      BY <3>2, <3>3, <3>4, <3>5
  <2> QED
    BY <1>3, <2>1, <2>2, <2>3
<1>12. ASSUME NEW q \in T
       PROVE  Covering(images, Canvas!PageAt(q), q[1]) \cap (1 .. K) # {}
  <2>1. q \in Panel
    BY DEF MovedPages, EnteredCells
  <2>2. CASE q \in MovedPages(K)
    <3>1. PICK t \in 0 .. Least(K, moves) - 1 : Canvas!PageAt(q) = scroll.end - t * dir
      BY <2>2 DEF MovedPages, moves, dir
    <3>2. t + 1 \in 1 .. moves /\ (t + 1) - 1 = t /\ t + 1 \in 1 .. K
      BY <1>3 DEF Least
    <3>3. t + 1 \in Covering(images, Canvas!PageAt(q), q[1])
      BY <1>9, <2>1, <3>1, <3>2
    <3> QED
      BY <3>2, <3>3
  <2>3. CASE q \in EnteredCells(K)
    <3>1. q \in CellsOf(scroll.start, 1, J)
      BY <1>8, <2>1, <2>3
    <3> HIDE DEF J
    <3>2. PICK j \in Covering(cells, Canvas!PageAt(q), q[1]) \cap (1 .. J) : TRUE
      BY <1>5, <3>1 DEF Agree
    <3>3. j \in 1 .. L
      BY <1>7 DEF Covering
    <3>4. moves + j \in Covering(images, Canvas!PageAt(q), q[1])
      BY <1>10, <2>1, <3>2, <3>3
    <3>5. moves + j \in 1 .. K
      BY <1>3, <3>2, <3>3 DEF J
    <3> QED
      BY <3>4, <3>5
  <2> QED
    BY <2>2, <2>3
<1> HIDE DEF T, goal
<1>13. Agree(images, 1 .. K, T, goal)
  BY <1>11, <1>12 DEF Agree
<1> QED
  BY <1>13 DEF images, T, goal, lit

\* The canvas says it in two parts: first the pages, then the text.
LEMMA OverInParts ==
    ASSUME NEW pixels, NEW K \in Nat, NEW lit, TypeOK, NEW S, S = EnteredCells(K)
    PROVE  Canvas!Over(pixels, MovedPages(K) \cup S, ScrollGoal(lit)) =
             Canvas!Over(Canvas!Over(pixels, MovedPages(K), PageBefore), S, lit)
<1>1. \A q \in MovedPages(K) : q \in Panel /\ Canvas!PageAt(q) # scroll.start
  <2> SUFFICES ASSUME NEW q \in MovedPages(K)
               PROVE  q \in Panel /\ Canvas!PageAt(q) # scroll.start
    OBVIOUS
  <2>1. PICK t \in 0 .. Least(K, Distance(scroll.start, scroll.end)) - 1 :
            Canvas!PageAt(q) = scroll.end - t * (IF scroll.start > scroll.end THEN -1 ELSE 1)
    BY DEF MovedPages
  <2>2. t \in Nat /\ t < Distance(scroll.start, scroll.end)
    <3> DEFINE moves == Distance(scroll.start, scroll.end)
    <3>1. moves \in Int
      BY BackwardsType, PanelSizes DEF TypeOK
    <3>2. t \in 0 .. Least(K, moves) - 1
      OBVIOUS
    <3> HIDE DEF moves
    <3>3. t \in Nat /\ t < moves
      BY <3>1, <3>2 DEF Least
    <3> QED
      BY <3>3 DEF moves
  <2> QED
    BY <2>1, <2>2, MovedIsNotStart DEF MovedPages
<1>2. \A q \in S : q \in Panel /\ Canvas!PageAt(q) = scroll.start
  BY DEF EnteredCells
<1>3. \A q \in MovedPages(K) : q \in ScrollGoal(lit) <=> q \in PageBefore
  BY <1>1 DEF ScrollGoal
<1>4. \A q \in S : q \in ScrollGoal(lit) <=> q \in lit
  BY <1>2 DEF ScrollGoal
<1>5. \A q \in MovedPages(K) : q \notin S
  BY <1>1, <1>2
<1> QED
  BY <1>3, <1>4, <1>5 DEF Canvas!Over

LEMMA ScrollMaps ==
    ASSUME TypeOK, TypeOK', ScrollText
    PROVE  Canvas!Next
<1>1. PICK text \in Texts, inv \in BOOLEAN :
        LET images == ScrollImages(text, inv)
            moves == Len(Backwards) - 1
        IN  /\ Cheap([op |-> "scroll_text", page |-> 0, text |-> text, invert |-> inv])
            /\ IF Len(text) > TextMax(1) \/ ~scroll.on
               THEN Refuse
               ELSE \E n \in 0 .. IF handle = "ready" THEN Len(images) ELSE 0 :
                        /\ page' = Kept(page, images, 1 .. IF n < moves THEN n + 1 ELSE n)
                        /\ ram' = Displayed(ram, images, 1 .. n)
                        /\ result' = IF n = Len(images) THEN "OK" ELSE "FAILED"
  BY DEF ScrollText, ScrollImages
<1> DEFINE c == [op |-> "scroll_text", page |-> 0, text |-> text, invert |-> inv]
           here == [c EXCEPT !.page = scroll.start]
           images == ScrollImages(text, inv)
           moves == Distance(scroll.start, scroll.end)
           L == Len(text)
           lit == Canvas!Lit(here, 1)
<1>2. /\ Cheap(c) /\ c.op = "scroll_text" /\ c.text = text /\ c.invert = inv
      /\ here.page = scroll.start /\ here.text = text /\ here.invert = inv /\ L \in Nat
      /\ [c EXCEPT !.page = scroll.start] = here
  BY <1>1, TextType
<1>3. flip' = flip /\ flip \in BOOLEAN /\ page \in Memory /\ ram \in Memory /\ Facing(ram) \in Memory
  BY <1>2, CallKeepsFlip, FacingMemory DEF TypeOK
<1>4. scroll.start \in PageNo /\ scroll.end \in PageNo /\ moves \in Nat
  BY BackwardsType, PanelSizes DEF TypeOK
<1> HIDE DEF c, here
<1>5. CASE L > TextMax(1) \/ ~scroll.on
  <2>1. Canvas!Refuse
    BY <1>1, <1>3, <1>5, RefuseMaps
  <2>2. Canvas!ScrollText(c)
    BY <1>2, <1>5, <2>1, SameOperators DEF Canvas!ScrollText
  <2>3. Canvas!Step(c)
    BY <1>2, <2>2 DEF Canvas!Step
  <2> QED
    BY <1>2, <2>3, Painted
<1>6. CASE ~(L > TextMax(1) \/ ~scroll.on)
  <2>1. ImagesOK(images, moves + L) /\ Len(images) = moves + L /\ Len(Backwards) - 1 = moves
    <3>1. /\ Len(Backwards) - 1 = moves
          /\ ImagesOK(images, Len(Backwards) - 1 + L) /\ Len(images) = Len(Backwards) - 1 + L
      BY <1>2, ScrollImagesOK
    <3> HIDE DEF moves, images
    <3> QED
      BY <3>1
  <2>2. \E n \in 0 .. IF handle = "ready" THEN Len(images) ELSE 0 :
            /\ page' = Kept(page, images, 1 .. IF n < Len(Backwards) - 1 THEN n + 1 ELSE n)
            /\ ram' = Displayed(ram, images, 1 .. n)
            /\ result' = IF n = Len(images) THEN "OK" ELSE "FAILED"
    BY <1>1, <1>6
  <2> HIDE DEF images, moves, lit
  <2>3. PICK n \in 0 .. moves + L :
            /\ page' = Kept(page, images, 1 .. IF n < moves THEN n + 1 ELSE n)
            /\ ram' = Displayed(ram, images, 1 .. n)
            /\ result' = IF n = moves + L THEN "OK" ELSE "FAILED"
    <3>1. moves + L \in Nat
      BY <1>2, <1>4
    <3>2. \A n \in 0 .. IF handle = "ready" THEN moves + L ELSE 0 : n \in 0 .. moves + L
      BY <3>1
    <3> QED
      BY <2>1, <2>2, <3>2
  <2> DEFINE K == IF n < moves THEN n + 1 ELSE n
  <2>4. K \in 0 .. moves + L /\ n \in 0 .. moves + L /\ K \in Nat /\ n \in Nat
    BY <1>2, <1>4
  <2>5. Picture' = Seen(Kept(page, images, 1 .. K)) /\ Shown' = Seen(Kept(Facing(ram), images, 1 .. n))
    <3>1. Picture' = Seen(page') /\ Shown' = Seen(Facing(ram'))
      BY <1>3, MappingAfter
    <3>2. Facing(ram') = Kept(Facing(ram), images, 1 .. n)
      BY <1>3, <2>1, <2>3, FacingDisplayed
    <3> QED
      BY <2>3, <3>1, <3>2
  <2>6. Picture = Seen(page) /\ Shown = Seen(Facing(ram))
    BY Mapping DEF Mapped
  <2>7. ASSUME NEW k \in 0 .. moves + L, NEW memory \in Memory
        PROVE  Seen(Kept(memory, images, 1 .. k)) =
                 Canvas!Over(Canvas!Over(Seen(memory), MovedPages(k), PageBefore), EnteredCells(k), lit)
    <3> DEFINE T == MovedPages(k) \cup EnteredCells(k)
               goal == ScrollGoal(lit)
    <3>1. Agree(images, 1 .. k, T, goal)
      BY <1>2, ScrollAgrees DEF moves, lit, images
    <3>2. T \in SUBSET Panel
      BY DEF MovedPages, EnteredCells
    <3>3. k \in Nat
      BY <1>2, <1>4
    <3>4. Canvas!Over(Seen(memory), T, goal) =
            Canvas!Over(Canvas!Over(Seen(memory), MovedPages(k), PageBefore), EnteredCells(k), lit)
      BY <3>3, OverInParts
    <3> HIDE DEF T, goal
    <3>5. Seen(Kept(memory, images, 1 .. k)) = Canvas!Over(Seen(memory), T, goal)
      BY <1>3, <2>1, <3>1, <3>2, LandedAlike
    <3> QED
      BY <3>4, <3>5
  <2>8. EnteredCells(K) = EnteredCells(n) /\ MovedPages(K) = MovedPages(n + 1)
    <3>1. CASE n < moves
      <4>1. \A q \in Panel : ~(q[1] \div Rows < K - moves) /\ ~(q[1] \div Rows < n - moves)
        <5> SUFFICES ASSUME NEW q \in Panel
                     PROVE  ~(q[1] \div Rows < K - moves) /\ ~(q[1] \div Rows < n - moves)
          OBVIOUS
        <5>1. q[1] \div Rows \in Nat
          <6>1. q[1] \in Int /\ q[1] >= 0 /\ Rows \in Nat \ {0}
            BY PixelOnPage, PanelSizes DEF Segment
          <6>2. PICK a \in Int, x \in 0 .. Rows - 1 : q[1] = Rows * a + x /\ a = q[1] \div Rows
            BY <6>1, DivMod
          <6>3. a \in Nat
            BY <6>1, <6>2, QuotientNat
          <6> QED
            BY <6>2, <6>3
        <5> QED
          BY <1>4, <2>4, <3>1, <5>1
      <4> QED
        BY <3>1, <4>1 DEF EnteredCells, moves
    <3>2. CASE ~(n < moves)
      <4>1. K = n /\ Least(n, moves) = Least(n + 1, moves)
        BY <1>4, <2>4, <3>2 DEF Least
      <4> QED
        BY <4>1 DEF MovedPages, moves
    <3> QED
      BY <3>1, <3>2
  <2> HIDE DEF K
  <2>9. /\ Picture' = Canvas!Over(Canvas!Over(Picture, MovedPages(n + 1), PageBefore), EnteredCells(n), lit)
        /\ Shown' = Canvas!Over(Canvas!Over(Shown, MovedPages(n), PageBefore), EnteredCells(n), lit)
    BY <1>3, <2>4, <2>5, <2>6, <2>7, <2>8
  <2>10. Canvas!ScrollText(c)
    <3> DEFINE dir == IF scroll.start > scroll.end THEN -1 ELSE 1
               Among(q, k) == \E t \in 0 .. k - 1 : Canvas!PageAt(q) = scroll.end - t * dir
    <3>1. \A k : MovedPages(k) = {q \in Panel : Among(q, Least(k, moves))}
      BY DEF MovedPages, moves
    <3>2. EnteredCells(n) = {q \in Panel : /\ Canvas!PageAt(q) = scroll.start
                                           /\ q[1] \div Rows < n - moves}
      BY DEF EnteredCells, moves
    <3>3. PageBefore = {q \in Panel : <<q[1], q[2] - dir * Rows>> \in Picture}
      BY <2>6 DEF PageBefore
    <3>4. Canvas!Returns(n = moves + L)
      BY <2>3 DEF Canvas!Returns
    <3>5. n \in 0 .. moves + Len(c.text) /\ moves + Len(c.text) = moves + L
      BY <1>2
    <3>6. ~(Len(c.text) > Canvas!TextMax(1) \/ ~scroll.on)
      BY <1>2, <1>6, SameOperators
    <3>7. /\ Picture' = Canvas!Over(Canvas!Over(Picture, {q \in Panel : Among(q, Least(n + 1, moves))},
                              {q \in Panel : <<q[1], q[2] - dir * Rows>> \in Picture}),
                              {q \in Panel : /\ Canvas!PageAt(q) = scroll.start
                                             /\ q[1] \div Rows < n - moves}, lit)
          /\ Shown' = Canvas!Over(Canvas!Over(Shown, {q \in Panel : Among(q, Least(n, moves))},
                              {q \in Panel : <<q[1], q[2] - dir * Rows>> \in Picture}),
                              {q \in Panel : /\ Canvas!PageAt(q) = scroll.start
                                             /\ q[1] \div Rows < n - moves}, lit)
      BY <2>9, <3>1, <3>2, <3>3
    <3> QED
      BY <1>2, <3>4, <3>5, <3>6, <3>7, SameOperators DEF Canvas!ScrollText, moves, lit
  <2>11. Canvas!Step(c)
    BY <1>2, <2>10 DEF Canvas!Step
  <2> QED
    BY <1>2, <2>11, Painted
<1> QED
  BY <1>5, <1>6

-----------------------------------------------------------------------------
(* The two text boxes.                                                     *)

InBox(c, first, q) ==
    Canvas!PageAt(q) = c.page /\ q[1] \in c.segment .. c.segment + Len(first) * Rows - 1
Bright(c, glyphs, i, q) == (q[2] % Rows \in glyphs[i \div Rows + 1][i % Rows]) # c.invert
Arrived(c, lost, q) == (q[1] - c.segment) \div Rows + 1 \notin lost

\* The box as it was filled, and when the rest has moved in by j columns.
Started(c, first, lost, pixels) ==
    {q \in Panel : IF InBox(c, first, q) /\ Arrived(c, lost, q)
                   THEN Bright(c, first, q[1] - c.segment, q)
                   ELSE q \in pixels}
Moved(c, first, rest, j, source, pixels) ==
    {q \in Panel :
        IF ~InBox(c, first, q) THEN q \in pixels
        ELSE LET i == q[1] - c.segment + j
             IN  IF i < Len(first) * Rows THEN <<q[1] + j, q[2]>> \in source
                 ELSE Bright(c, rest, i - Len(first) * Rows, q)}

LEMMA FillSeen ==
    ASSUME flip \in BOOLEAN, NEW c, c.page \in PageNo, c.segment \in Nat, c.invert \in BOOLEAN,
           NEW first \in Seq(Glyph), NEW lost, NEW memory \in Memory
    PROVE  Seen(Kept(memory, Fill(c, first), (1 .. Len(first)) \ lost)) =
             Started(c, first, lost, Seen(memory))
<1> DEFINE images == Fill(c, first)
           n == Len(first)
           sent == (1 .. n) \ lost
           T == {q \in Panel : InBox(c, first, q) /\ Arrived(c, lost, q)}
           goal == {q \in Panel : Bright(c, first, q[1] - c.segment, q)}
<1>1. n \in Nat /\ Rows \in Nat \ {0} /\ n * Rows = Rows * n /\ c.page \in Nat /\ n * Rows \in Nat
  BY LenProperties, PanelSizes DEF PageNo
<1>2. /\ ImagesOK(images, n)
      /\ \A i \in 1 .. n :
            images[i] = Image(c.page, (i - 1) * Rows + c.segment, CellBytes(first[i], c.invert))
  BY <1>1, FillOK
<1>3. DOMAIN images = 1 .. n
  BY <1>2 DEF ImagesOK
<1> HIDE DEF images
<1>4. ASSUME NEW i \in 1 .. n
      PROVE  /\ images[i].page = c.page /\ images[i].segment = (i - 1) * Rows + c.segment
             /\ images[i].bytes = CellBytes(first[i], c.invert)
             /\ DOMAIN images[i].bytes = 0 .. Rows - 1 /\ first[i] \in Glyph
  <2>1. first[i] \in Glyph
    BY ElementOfSeq
  <2>2. DOMAIN CellBytes(first[i], c.invert) = 0 .. Rows - 1
    BY <2>1, CellOfGlyph DEF Glyph
  <2>3. images[i] = Image(c.page, (i - 1) * Rows + c.segment, CellBytes(first[i], c.invert))
    BY <1>2
  <2> QED
    BY <2>1, <2>2, <2>3 DEF Image
<1>5. ASSUME NEW q \in Panel, NEW i \in Covering(images, Canvas!PageAt(q), q[1]) \cap sent
      PROVE  /\ q \in T
             /\ q \in goal <=> Bit(q[2] % Rows) \in images[i].bytes[q[1] - images[i].segment]
  <2> DEFINE u == q[1] - c.segment
             x == q[1] - images[i].segment
             b == q[2] % Rows
  <2>1. /\ i \in 1 .. n /\ i \notin lost /\ c.page = Canvas!PageAt(q) /\ x \in 0 .. Rows - 1
    BY <1>3, <1>4 DEF Covering
  <2>2. q[1] \in Int /\ b \in 0 .. Rows - 1 /\ i - 1 \in Nat /\ i \in Int /\ i <= n
    <3>1. q[1] \in Segment /\ b \in 0 .. Rows - 1
      BY PixelOnPage
    <3>2. q[1] \in Int
      BY <3>1, PanelSizes DEF Segment
    <3> HIDE DEF n, b
    <3> QED
      BY <1>1, <2>1, <3>1, <3>2
  <2>3. u = Rows * (i - 1) + x /\ u \in Int
    <3>1. (i - 1) * Rows = Rows * (i - 1) /\ Rows * (i - 1) \in Nat
      BY <1>1, <2>2
    <3>2. images[i].segment = (i - 1) * Rows + c.segment
      BY <1>4, <2>1
    <3> QED
      BY <2>2, <3>1, <3>2
  <2> HIDE DEF u, x, b
  <2>4. u \div Rows = i - 1 /\ u % Rows = x
    <3>1. (Rows * (i - 1) + x) \div Rows = i - 1 /\ (Rows * (i - 1) + x) % Rows = x
      <4>1. i - 1 \in Int
        BY <2>2
      <4> QED
        BY <1>1, <2>1, <4>1, DivUnique
    <3> QED
      BY <2>3, <3>1, Zenon
  <2>5. 0 <= u /\ u < n * Rows
    <3>1. Rows * (i - 1) + x < Rows * n
      <4>1. i - 1 < n /\ i - 1 \in Int
        BY <1>1, <2>2
      <4> QED
        BY <1>1, <2>1, <4>1, QuotientBelow
    <3>2. Rows * (i - 1) >= 0 /\ Rows * (i - 1) \in Int
      BY <1>1, <2>2
    <3> QED
      BY <1>1, <2>1, <2>3, <3>1, <3>2
  <2>6. InBox(c, first, q)
    <3>1. q[1] \in c.segment .. c.segment + n * Rows - 1
      BY <1>1, <2>2, <2>5 DEF u
    <3> QED
      BY <2>1, <3>1 DEF InBox
  <2>7. (i - 1) + 1 = i
    BY <2>2
  <2>8. Arrived(c, lost, q)
    BY <2>1, <2>4, <2>7 DEF Arrived, u
  <2>9. Bright(c, first, u, q) <=> (b \in first[i][x]) # c.invert
    BY <2>4, <2>7 DEF Bright, b
  <2>10. Bit(b) \in CellBytes(first[i], c.invert)[x] <=> (b \in first[i][x]) # c.invert
    BY <1>4, <2>1, <2>2, CellOfGlyph
  <2>11. images[i].bytes = CellBytes(first[i], c.invert)
    BY <1>4, <2>1
  <2> QED
    BY <2>6, <2>8, <2>9, <2>10, <2>11 DEF u, x, b
<1>6. ASSUME NEW q \in T
      PROVE  Covering(images, Canvas!PageAt(q), q[1]) \cap sent # {}
  <2> DEFINE u == q[1] - c.segment
  <2>1. /\ q \in Panel /\ Canvas!PageAt(q) = c.page
        /\ q[1] \in c.segment .. c.segment + n * Rows - 1 /\ u \div Rows + 1 \notin lost
    BY DEF InBox, Arrived
  <2>2. q[1] \in Int
    BY <2>1, PixelOnPage, PanelSizes DEF Segment
  <2>3. u \in 0 .. n * Rows - 1
    BY SMTT(30), <1>1, <2>1, <2>2
  <2> HIDE DEF u
  <2>4. /\ u \div Rows + 1 \in 1 .. n /\ u % Rows \in 0 .. Rows - 1
        /\ u = Rows * (u \div Rows) + (u % Rows)
    BY <1>1, <2>3, ColumnOf
  <2> DEFINE i == u \div Rows + 1
  <2>5. i \in 1 .. n /\ i \in sent /\ i - 1 = u \div Rows
    <3>1. u \div Rows \in Int
      <4>1. u \in Int
        BY <1>1, <2>3
      <4> QED
        BY <1>1, <4>1, DivMod
    <3>2. i - 1 = u \div Rows
      BY <3>1
    <3> QED
      BY <2>1, <2>4, <3>2
  <2>6. q[1] - images[i].segment = u % Rows
    <3>1. (i - 1) * Rows = Rows * (u \div Rows) /\ Rows * (u \div Rows) \in Int
      BY <1>1, <2>5
    <3>2. images[i].segment = (i - 1) * Rows + c.segment
      BY <1>4, <2>5
    <3> HIDE DEF i
    <3> QED
      BY <2>2, <2>4, <3>1, <3>2 DEF u
  <2> HIDE DEF i
  <2>7. images[i].page = Canvas!PageAt(q) /\ DOMAIN images[i].bytes = 0 .. Rows - 1
    BY <1>4, <2>1, <2>5
  <2>8. i \in Covering(images, Canvas!PageAt(q), q[1])
    BY <1>3, <2>4, <2>5, <2>6, <2>7 DEF Covering
  <2> QED
    BY <2>5, <2>8
<1>7. T \in SUBSET Panel
  OBVIOUS
<1>8. Started(c, first, lost, Seen(memory)) = Canvas!Over(Seen(memory), T, goal)
  BY DEF Started, Canvas!Over, Seen
<1> HIDE DEF T, goal, sent
<1>9. Agree(images, sent, T, goal)
  BY <1>5, <1>6 DEF Agree
<1>10. Seen(Kept(memory, images, sent)) = Canvas!Over(Seen(memory), T, goal)
  BY <1>2, <1>7, <1>9, LandedAlike
<1> QED
  BY <1>8, <1>10 DEF images, sent

LEMMA BoxSeen ==
    ASSUME flip \in BOOLEAN, NEW c, c.page \in PageNo, c.segment \in Nat, c.invert \in BOOLEAN,
           NEW first \in Seq(Glyph), c.segment + Len(first) * Rows <= Width,
           NEW rest \in Seq(Glyph), NEW filled \in Memory, NEW j \in 0 .. Len(rest) * Rows,
           NEW memory \in Memory
    PROVE  Seen(Kept(memory, BoxImage(c, first, rest, filled, j), {1})) =
             Moved(c, first, rest, j, Seen(filled), Seen(memory))
<1> DEFINE images == BoxImage(c, first, rest, filled, j)
           box == Len(first) * Rows
           T == {q \in Panel : InBox(c, first, q)}
           goal == {q \in Panel : LET i == q[1] - c.segment + j
                                  IN  IF i < box THEN <<q[1] + j, q[2]>> \in Seen(filled)
                                      ELSE Bright(c, rest, i - box, q)}
<1>1. /\ Len(first) \in Nat /\ Len(rest) \in Nat /\ Rows \in Nat \ {0} /\ box \in Nat /\ j \in Nat
      /\ c.page \in Int /\ Width \in Nat /\ Len(rest) * Rows \in Nat
  BY LenProperties, PanelSizes DEF PageNo
<1>3. ImagesOK(images, 1) /\ BoxImageSays(c, first, rest, filled, j) /\ DOMAIN images = 1 .. 1
  <2>1. ImagesOK(images, 1) /\ BoxImageSays(c, first, rest, filled, j)
    BY Zenon, <1>1, BoxImageOK
  <2> QED
    BY <2>1 DEF ImagesOK
<1>2. /\ images[1].page = c.page /\ images[1].segment = c.segment /\ DOMAIN images[1].bytes = 0 .. box - 1
      /\ ImagesOK(images, 1)
  BY <1>3 DEF BoxImageSays
<1>9. \A s \in 0 .. box - 1 : images[1].bytes[s] =
          IF s + j < box THEN filled[c.page][c.segment + s + j]
          ELSE CellBytes(rest[(s + j - box) \div Rows + 1], c.invert)[(s + j - box) % Rows]
  BY <1>3, Zenon DEF BoxImageSays
<1> HIDE DEF images
<1>4. ASSUME NEW q \in Panel
      PROVE  /\ 1 \in Covering(images, Canvas!PageAt(q), q[1]) <=> q \in T
             /\ q[1] \in Int
             /\ q \in T => q[1] - c.segment \in 0 .. box - 1 /\ Canvas!PageAt(q) = c.page
  <2>1. q[1] \in Int /\ Canvas!PageAt(q) \in Int
    BY PixelOnPage, PanelSizes DEF Segment, PageNo
  <2>2. q \in T <=> Canvas!PageAt(q) = c.page /\ q[1] \in c.segment .. c.segment + box - 1
    BY DEF InBox
  <2>3. 1 \in Covering(images, Canvas!PageAt(q), q[1]) <=>
           c.page = Canvas!PageAt(q) /\ q[1] - c.segment \in 0 .. box - 1
    <3> HIDE DEF box, T, goal
    <3>1. 1 \in DOMAIN images
      BY <1>3
    <3> QED
      BY <1>2, <3>1 DEF Covering
  <2>4. q[1] \in c.segment .. c.segment + box - 1 <=> q[1] - c.segment \in 0 .. box - 1
    <3>1. \A a, s \in Int, b \in Nat : a \in s .. s + b - 1 <=> a - s \in 0 .. b - 1
      OBVIOUS
    <3> HIDE DEF box
    <3>2. c.segment \in Int
      OBVIOUS
    <3> QED
      BY <1>1, <2>1, <3>1, <3>2, Zenon
  <2> QED
    BY <2>1, <2>2, <2>3, <2>4
<1>5. ASSUME NEW q \in T
      PROVE  q \in goal <=> Bit(q[2] % Rows) \in images[1].bytes[q[1] - c.segment]
  <2> DEFINE s == q[1] - c.segment
             b == q[2] % Rows
             i == s + j
  <2>1. q \in Panel /\ q[1] \in Int /\ s \in 0 .. box - 1 /\ Canvas!PageAt(q) = c.page
    BY <1>4
  <2>2. b \in 0 .. Rows - 1 /\ q[2] \in 0 .. Height - 1
    BY <2>1, PixelOnPage
  <2>3. s \in Int /\ i \in Int /\ i >= 0
    BY <1>1, <2>1
  <2>4. q \in goal <=> IF i < box THEN <<q[1] + j, q[2]>> \in Seen(filled)
                       ELSE Bright(c, rest, i - box, q)
    BY <2>1
  <2> HIDE DEF goal, box
  <2>5. images[1].bytes[s] =
            IF i < box THEN filled[c.page][c.segment + s + j]
            ELSE CellBytes(rest[(i - box) \div Rows + 1], c.invert)[(i - box) % Rows]
    <3>1. s + j - box = i - box
      <4> HIDE DEF s
      <4> QED
        BY <1>1, <2>3
    <3>2. images[1].bytes[s] =
            IF s + j < box THEN filled[c.page][c.segment + s + j]
            ELSE CellBytes(rest[(s + j - box) \div Rows + 1], c.invert)[(s + j - box) % Rows]
      BY <1>9, <2>1, Zenon
    <3> QED
      BY <3>1, <3>2, Zenon
  <2>6. CASE i < box
    <3> DEFINE r == <<q[1] + j, q[2]>>
    <3>1. c.segment + s + j = q[1] + j
      BY SMTT(30), <1>1, <2>1
    <3>2. q[1] + j \in Segment
      <4>1. q[1] = c.segment + s /\ c.segment + box <= Width
        BY <1>1, <2>1 DEF box
      <4>0. q[1] >= 0
        <5>1. q[1] \in Segment
          BY <2>1, PixelOnPage
        <5> HIDE DEF s
        <5> QED
          BY <1>1, <5>1 DEF Segment
      <4>3. s + j < box /\ box \in Int /\ c.segment \in Int /\ Width \in Int /\ j \in Int
        BY <1>1, <2>6
      <4> HIDE DEF s, i
      <4>2. q[1] + j >= 0 /\ q[1] + j <= Width - 1 /\ q[1] + j \in Int
        BY SMTT(30), <2>1, <2>3, <4>0, <4>1, <4>3
      <4> QED
        BY <1>1, <4>2 DEF Segment
    <3>3. r \in Panel /\ Canvas!PageAt(r) = c.page /\ r[2] % Rows = b /\ r[1] = q[1] + j
      BY <2>1, <2>2, <3>2 DEF Panel, Segment, Canvas!PageAt
    <3> HIDE DEF r
    <3>4. r \in Seen(filled) <=> Bit(b) \in filled[c.page][q[1] + j]
      BY <3>3 DEF Seen
    <3> HIDE DEF b, s, i
    <3> QED
      BY <2>4, <2>5, <2>6, <3>1, <3>4 DEF r, b, s
  <2>7. CASE ~(i < box)
    <3> DEFINE v == i - box
    <3>1. v \in 0 .. Len(rest) * Rows - 1
      <4> DEFINE most == Len(rest) * Rows
      <4>1. most \in Nat /\ j <= most
        BY <1>1
      <4> HIDE DEF s, most
      <4>2. i - box >= 0 /\ i - box <= most - 1 /\ i - box \in Int
        BY <1>1, <2>1, <2>3, <2>7, <4>1
      <4> QED
        BY <4>1, <4>2 DEF most
    <3> HIDE DEF v, b, s, i
    <3>2. v \div Rows + 1 \in 1 .. Len(rest) /\ v % Rows \in 0 .. Rows - 1
      BY <1>1, <3>1, ColumnOf
    <3>3. rest[v \div Rows + 1] \in Glyph
      BY <3>2, ElementOfSeq
    <3>4. Bit(b) \in CellBytes(rest[v \div Rows + 1], c.invert)[v % Rows]
             <=> (b \in rest[v \div Rows + 1][v % Rows]) # c.invert
      BY <2>2, <3>2, <3>3, CellOfGlyph
    <3>5. Bright(c, rest, v, q) <=> (b \in rest[v \div Rows + 1][v % Rows]) # c.invert
      BY DEF Bright, b
    <3>6. images[1].bytes[s] = CellBytes(rest[v \div Rows + 1], c.invert)[v % Rows]
      BY <2>5, <2>7 DEF v
    <3>7. q \in goal <=> Bright(c, rest, v, q)
      BY <2>4, <2>7 DEF v
    <3> QED
      BY <3>4, <3>5, <3>6, <3>7 DEF b, s
  <2> QED
    BY <2>6, <2>7
<1>6. T \in SUBSET Panel
  OBVIOUS
<1>7. Moved(c, first, rest, j, Seen(filled), Seen(memory)) = Canvas!Over(Seen(memory), T, goal)
  BY DEF Moved, Canvas!Over, Seen
<1> HIDE DEF T, goal
<1>8. Agree(images, {1}, T, goal)
  <2>1. ASSUME NEW q \in Panel, NEW i \in Covering(images, Canvas!PageAt(q), q[1]) \cap {1}
        PROVE  /\ q \in T
               /\ q \in goal <=> Bit(q[2] % Rows) \in images[i].bytes[q[1] - images[i].segment]
    <3>1. i = 1 /\ 1 \in Covering(images, Canvas!PageAt(q), q[1])
      OBVIOUS
    <3>2. q \in T
      BY <1>4, <3>1
    <3>3. images[i].segment = c.segment
      BY <1>2, <3>1
    <3> QED
      BY <1>5, <3>1, <3>2, <3>3
  <2>2. ASSUME NEW q \in T
        PROVE  Covering(images, Canvas!PageAt(q), q[1]) \cap {1} # {}
    <3>1. 1 \in Covering(images, Canvas!PageAt(q), q[1])
      BY <1>4, <1>6
    <3> QED
      BY <3>1
  <2> QED
    BY <2>1, <2>2 DEF Agree
<1> QED
  BY <1>2, <1>6, <1>7, <1>8, LandedAlike DEF images

LEMMA MarqueeMaps ==
    ASSUME TypeOK, TypeOK', flip' = flip,
           NEW c, c.page \in Nat, c.segment \in Nat, c.invert \in BOOLEAN,
           NEW first \in Seq(Glyph), NEW rest \in Seq(Glyph), Marquee(c, first, rest)
    PROVE  Canvas!Marquee(c, first, rest)
<1>1. /\ flip \in BOOLEAN /\ page \in Memory /\ ram \in Memory /\ Facing(ram) \in Memory
      /\ Len(first) \in Nat /\ Len(rest) \in Nat
  BY FacingMemory, LenProperties DEF TypeOK
<1>2. CASE ~(c.page < Pages /\ c.segment + Len(first) * Rows <= Width)
  <2>1. c.page >= Pages \/ c.segment + Len(first) * Rows > Width
    BY <1>1, <1>2, PanelSizes
  <2>2. Refuse
    BY <2>1 DEF Marquee
  <2>3. Canvas!Refuse
    BY <2>2, RefuseMaps
  <2> QED
    BY <2>1, <2>3 DEF Canvas!Marquee
<1>3. CASE c.page < Pages /\ c.segment + Len(first) * Rows <= Width
  <2>1. PICK lost \in SUBSET (1 .. Len(first)), last \in 0 .. Len(rest) * Rows :
            MarqueeDone(c, first, rest, lost, last)
    BY <1>1, <1>3, MarqueeParts
  <2> DEFINE fill == Fill(c, first)
             sent == (1 .. Len(first)) \ lost
             filled == Kept(page, fill, sent)
             there == Kept(Facing(ram), fill, sent)
             steps == Len(rest) * Rows
             done == BoxImage(c, first, rest, filled, steps)
             seen == BoxImage(c, first, rest, filled, last)
             start(pixels) == Started(c, first, lost, pixels)
  <2>2. c.page \in PageNo /\ steps \in 0 .. steps /\ steps \in Nat
    BY <1>1, <1>3, PanelSizes DEF PageNo
  <2>3. ImagesOK(fill, Len(first))
    BY <1>1, FillOK
  <2>4. filled \in Memory /\ there \in Memory /\ Displayed(ram, fill, sent) \in Memory
        /\ Facing(Displayed(ram, fill, sent)) = there
    BY <1>1, <2>3, KeptMemory, FacingDisplayed
  <2>5. /\ page' = Kept(filled, done, {1}) /\ result' = "OK"
        /\ ram' = Displayed(Displayed(ram, fill, sent), seen, IF last = 0 THEN {} ELSE {1})
    BY <2>1 DEF MarqueeDone
  <2>6. Seen(filled) = start(Seen(page)) /\ Seen(there) = start(Seen(Facing(ram)))
    BY <1>1, <2>2, FillSeen
  <2> HIDE DEF fill, sent, filled, there
  <2>7. /\ Seen(Kept(filled, done, {1})) = Moved(c, first, rest, steps, Seen(filled), Seen(filled))
        /\ Seen(Kept(there, seen, {1})) = Moved(c, first, rest, last, Seen(filled), Seen(there))
        /\ ImagesOK(seen, 1)
    <3>1. ImagesOK(seen, 1)
      BY <1>1, <1>3, <2>2, <2>4, BoxImageOK
    <3>2. Seen(Kept(filled, done, {1})) = Moved(c, first, rest, steps, Seen(filled), Seen(filled))
      BY <1>1, <1>3, <2>2, <2>4, BoxSeen
    <3>3. Seen(Kept(there, seen, {1})) = Moved(c, first, rest, last, Seen(filled), Seen(there))
      BY <1>1, <1>3, <2>2, <2>4, BoxSeen
    <3> QED
      BY <3>1, <3>2, <3>3
  <2> HIDE DEF done, seen
  <2>8. Facing(ram') = IF last = 0 THEN there ELSE Kept(there, seen, {1})
    <3>1. CASE last = 0
      <4>1. ram' = Displayed(ram, fill, sent)
        BY <1>1, <2>4, <2>5, <3>1, NothingLanded
      <4> QED
        BY <2>4, <3>1, <4>1
    <3>2. CASE last # 0
      <4>1. ram' = Displayed(Displayed(ram, fill, sent), seen, {1})
        BY <2>5, <3>2
      <4>2. Facing(Displayed(Displayed(ram, fill, sent), seen, {1})) =
               Kept(Facing(Displayed(ram, fill, sent)), seen, {1})
        BY <1>1, <2>4, <2>7, FacingDisplayed
      <4> QED
        BY <2>4, <3>2, <4>1, <4>2
    <3> QED
      BY <3>1, <3>2
  <2>9. Picture = Seen(page) /\ Shown = Seen(Facing(ram))
    BY Mapping DEF Mapped
  <2>10. Picture' = Seen(page') /\ Shown' = Seen(Facing(ram'))
    BY MappingAfter
  <2>11. \A j, pixels : Moved(c, first, rest, j, Seen(filled), start(pixels)) =
                          Moved(c, first, rest, j, start(Picture), pixels)
    <3>1. Seen(filled) = start(Picture)
      BY <2>6, <2>9
    <3>2. \A pixels : \A q \in Panel : ~InBox(c, first, q) => (q \in start(pixels) <=> q \in pixels)
      BY DEF Started
    <3> HIDE DEF start
    <3> QED
      BY <3>1, <3>2 DEF Moved
  <2>12. Picture' = Moved(c, first, rest, steps, start(Picture), Picture)
    BY <2>5, <2>6, <2>7, <2>9, <2>10, <2>11
  <2>13. Shown' = IF last = 0 THEN start(Shown) ELSE Moved(c, first, rest, last, start(Picture), Shown)
    BY <2>6, <2>7, <2>8, <2>9, <2>10, <2>11
  <2> QED
    <3> DEFINE box == Len(first) * Rows
               inBox(q) == Canvas!PageAt(q) = c.page /\ q[1] \in c.segment .. c.segment + box - 1
               Got(q) == (q[1] - c.segment) \div Rows + 1 \notin lost
               Column(glyphs, i) == glyphs[i \div Rows + 1][i % Rows]
               Light(glyphs, i, q) == (q[2] % Rows \in Column(glyphs, i)) # c.invert
               begin(pixels) == {q \in Panel : IF inBox(q) /\ Got(q)
                                               THEN Light(first, q[1] - c.segment, q)
                                               ELSE q \in pixels}
               after(pixels, j) ==
                   {q \in Panel :
                       IF ~inBox(q) THEN q \in pixels
                       ELSE LET i == q[1] - c.segment + j
                            IN  IF i < box THEN <<q[1] + j, q[2]>> \in begin(Picture)
                                ELSE Light(rest, i - box, q)}
    <3>1. \A pixels : begin(pixels) = start(pixels)
      BY DEF Started, InBox, Arrived, Bright
    <3>2. \A pixels, j : after(pixels, j) = Moved(c, first, rest, j, begin(Picture), pixels)
      <4> HIDE DEF begin
      <4> QED
        BY DEF Moved, InBox, Bright
    <3>3. Picture' = after(Picture, steps) /\ Shown' = IF last = 0 THEN begin(Shown) ELSE after(Shown, last)
      <4> HIDE DEF begin, after, start
      <4> QED
        BY <2>12, <2>13, <3>1, <3>2
    <3>4. ~(c.page >= Pages \/ c.segment + Len(first) * Rows > Width)
      BY <1>1, <1>3, PanelSizes
    <3>5. Canvas!SaysNothing
      BY <2>5 DEF Canvas!SaysNothing
    <3> QED
      BY <3>3, <3>4, <3>5, SameOperators DEF Canvas!Marquee
<1> QED
  BY <1>2, <1>3

LEMMA BoxMaps ==
    ASSUME TypeOK, TypeOK', Banner \/ Ticker
    PROVE  Canvas!Next
<1>1. CASE Banner
  <2>1. PICK p \in BoxPages, segment \in {0, 1}, text \in Texts, box \in 1 .. 2, inv \in BOOLEAN :
           LET c == [op |-> "banner", page |-> p, segment |-> segment, text |-> text, box |-> box,
                     invert |-> inv]
           IN  /\ Len(text) >= box
               /\ Costly(c)
               /\ Marquee(c, SubSeq(text, 1, box), SubSeq(text, box + 1, Len(text)))
    BY <1>1 DEF Banner
  <2> DEFINE c == [op |-> "banner", page |-> p, segment |-> segment, text |-> text, box |-> box,
                   invert |-> inv]
  <2>2. /\ c.page \in Nat /\ c.segment \in Nat /\ c.invert \in BOOLEAN
        /\ c.op = "banner" /\ c.text = text /\ c.box = box
    BY CallsAssumption
  <2>3. Len(text) >= box /\ Costly(c)
           /\ Marquee(c, SubSeq(text, 1, box), SubSeq(text, box + 1, Len(text)))
    BY <2>1
  <2> HIDE DEF c
  <2>4. SubSeq(text, 1, box) \in Seq(Glyph) /\ SubSeq(text, box + 1, Len(text)) \in Seq(Glyph)
    BY <2>3, BoxTexts
  <2>5. flip' = flip
    BY <2>3, CallKeepsFlip
  <2>6. Canvas!Marquee(c, SubSeq(text, 1, box), SubSeq(text, box + 1, Len(text)))
    BY <2>2, <2>3, <2>4, <2>5, MarqueeMaps
  <2>7. Canvas!Step(c)
    BY <2>2, <2>6 DEF Canvas!Step
  <2> QED
    BY <2>2, <2>3, <2>7, Painted
<1>2. CASE Ticker
  <2>1. PICK p \in BoxPages, text \in Texts, box \in 1 .. 2 :
           LET c == [op |-> "ticker", page |-> p, segment |-> 1, text |-> text, box |-> box,
                     invert |-> FALSE]
               blanks == [i \in 1 .. box |-> Blank]
           IN  Costly(c) /\ Marquee(c, blanks, text \o blanks)
    BY <1>2 DEF Ticker
  <2> DEFINE c == [op |-> "ticker", page |-> p, segment |-> 1, text |-> text, box |-> box,
                   invert |-> FALSE]
             blanks == [i \in 1 .. box |-> Blank]
  <2>2. /\ c.page \in Nat /\ c.segment \in Nat /\ c.invert \in BOOLEAN
        /\ c.op = "ticker" /\ c.text = text /\ c.box = box
    BY CallsAssumption
  <2>3. Costly(c) /\ Marquee(c, blanks, text \o blanks)
    BY <2>1
  <2>4. blanks \in Seq(Glyph) /\ text \o blanks \in Seq(Glyph)
    <3>1. blanks \in [1 .. box -> Glyph] /\ box \in Nat
      BY BoxTexts
    <3> QED
      BY <3>1, BoxTexts, SeqDef
  <2>5. blanks = [i \in 1 .. c.box |-> Canvas!Blank]
    BY <2>2, SameOperators
  <2> HIDE DEF c, blanks
  <2>6. flip' = flip
    BY <2>3, CallKeepsFlip
  <2>7. Canvas!Marquee(c, blanks, text \o blanks)
    BY <2>2, <2>3, <2>4, <2>6, MarqueeMaps
  <2>8. Canvas!Step(c)
    BY <2>2, <2>5, <2>7 DEF Canvas!Step
  <2> QED
    BY <2>2, <2>3, <2>8, Painted
<1> QED
  BY <1>1, <1>2

-----------------------------------------------------------------------------
(* The driver implements the canvas.                                       *)

LEMMA StartMaps ==
    ASSUME Init
    PROVE  Canvas!Init
<1>1. Picture \subseteq Canvas!Panel /\ Shown \subseteq Canvas!Panel
  BY SameOperators DEF Picture, Shown
<1>2. result = "OK" /\ moving = "no"
  BY DEF Init
<1> QED
  BY <1>1, <1>2 DEF Canvas!Init

LEMMA StillMaps ==
    ASSUME UNCHANGED vars
    PROVE  UNCHANGED Canvas!vars
<1>1. Picture' = Picture
  BY DEF vars, Picture, Upright, Rotated, Panel, Height
<1>2. Shown' = Shown
  BY DEF vars, Shown, Panel, Height
<1> QED
  BY <1>1, <1>2 DEF vars, Canvas!vars

LEMMA StepMaps ==
    ASSUME TypeOK, TypeOK', Next
    PROVE  Canvas!Next
BY HandleMaps, CommandMaps, SetScrollMaps, GetPagesMaps, SetPagesMaps, ShapesMap, BitmapsMap,
   CodeMaps, PagesMap, TextMaps, ImageMaps, ClearPageMaps, ClearMaps, FadeMaps, WrapMaps, ScrollMaps,
   ClearScrollMaps, BoxMaps
   DEF Next

\* Whatever the calls, whichever transfer fails and however the panel is
\* mounted, what is drawn and what is seen are what Ssd1306Canvas says.  A
\* call that returns ESP_OK has shown all that it was to show, except for
\* ssd1306_display_bdf_code and the two text boxes, of whose results nothing
\* is said, as of the pages that ssd1306_set_pages draws (ssd1306.c).
THEOREM DriverImplementsCanvas == Spec => ImplementsCanvas
<1>1. Init => Canvas!Init
  BY StartMaps
<1>2. TypeOK /\ TypeOK' /\ [Next]_vars => [Canvas!Next]_(Canvas!vars)
  <2> SUFFICES ASSUME TypeOK, TypeOK', [Next]_vars
               PROVE  Canvas!Next \/ UNCHANGED Canvas!vars
    OBVIOUS
  <2>1. CASE Next
    BY <2>1, StepMaps
  <2>2. CASE UNCHANGED vars
    BY <2>2, StillMaps
  <2> QED
    BY <2>1, <2>2
<1> QED
  BY <1>1, <1>2, TypeCorrect, PTL DEF Spec, ImplementsCanvas, Canvas!Spec

-----------------------------------------------------------------------------
(* A loop and its pixels.                                                   *)

\* Induction, on a set.
LEMMA NatSet ==
    ASSUME NEW S, 0 \in S, \A n \in Nat : n \in S => n + 1 \in S
    PROVE  \A n \in Nat : n \in S
<1> SUFFICES ASSUME Nat \ S # {} PROVE FALSE
  OBVIOUS
<1>1. PICK x \in Nat \ S : \A y \in Nat \ S : ~(<<y, x>> \in OpToRel(<, Nat))
  BY Zenon, NatLessThanWellFounded, WFMin
<1>2. \A y \in Nat \ S : ~(y < x)
  BY Zenon, <1>1, LessOnNat
<1>3. x # 0
  OBVIOUS
<1>4. x - 1 \in Nat /\ x - 1 < x /\ x = (x - 1) + 1
  BY <1>3
<1>5. x - 1 \in S
  BY <1>2, <1>4
<1> QED
  BY <1>4, <1>5

Reach(S, next, stop, s) ==
    {t \in S : \A T \in SUBSET S :
        (s \in T /\ \A u \in T : u \notin stop => next[u] \in T) => t \in T}

LEMMA ReachStep ==
    ASSUME NEW S, NEW stop, NEW next \in [S -> S], NEW s \in S
    PROVE  Reach(S, next, stop, s) =
             {s} \cup IF s \in stop THEN {} ELSE Reach(S, next, stop, next[s])
<1>1. s \in Reach(S, next, stop, s)
  BY DEF Reach
<1>2. \A t \in Reach(S, next, stop, s) : t \notin stop => next[t] \in Reach(S, next, stop, s)
  BY DEF Reach
<1>3. ASSUME s \notin stop
      PROVE  Reach(S, next, stop, next[s]) \subseteq Reach(S, next, stop, s)
  BY <1>1, <1>2, <1>3 DEF Reach
<1>4. LET T == {s} \cup IF s \in stop THEN {} ELSE Reach(S, next, stop, next[s])
      IN  Reach(S, next, stop, s) \subseteq T
  <2> DEFINE T == {s} \cup IF s \in stop THEN {} ELSE Reach(S, next, stop, next[s])
  <2>1. T \in SUBSET S
    BY DEF Reach
  <2>2. \A u \in T : u \notin stop => next[u] \in T
    BY DEF Reach
  <2> QED
    BY <2>1, <2>2 DEF Reach
<1> QED
  BY <1>1, <1>3, <1>4

LoopState == Int \X Int \X Int

LoopOf(f, next, stop) ==
    f = [s \in LoopState |->
           {<<s[1], s[2]>>} \cup IF s \in stop THEN {} ELSE f[next[s]]]

\* Every loop has its pixels.
LEMMA LoopExists ==
    ASSUME NEW stop, NEW next \in [LoopState -> LoopState]
    PROVE  \E f : LoopOf(f, next, stop)
<1> DEFINE f == [s \in LoopState |-> {<<t[1], t[2]>> : t \in Reach(LoopState, next, stop, s)}]
<1>1. ASSUME NEW s \in LoopState
      PROVE  f[s] = {<<s[1], s[2]>>} \cup IF s \in stop THEN {} ELSE f[next[s]]
  <2>1. next[s] \in LoopState
    OBVIOUS
  <2>2. f[s] = {<<t[1], t[2]>> : t \in Reach(LoopState, next, stop, s)}
    OBVIOUS
  <2>3. f[next[s]] = {<<t[1], t[2]>> : t \in Reach(LoopState, next, stop, next[s])}
    BY <2>1
  <2>4. Reach(LoopState, next, stop, s) =
             {s} \cup IF s \in stop THEN {} ELSE Reach(LoopState, next, stop, next[s])
    BY ReachStep
  <2> QED
    BY <2>2, <2>3, <2>4
<1>2. f = [s \in LoopState |->
             {<<s[1], s[2]>>} \cup IF s \in stop THEN {} ELSE f[next[s]]]
  BY <1>1
<1> HIDE DEF f
<1> QED
  BY <1>2 DEF LoopOf

WalkOf(f, x1, y1, dx, dy, sx, sy) ==
    f = [s \in Int \X Int \X Int |->
           {<<s[1], s[2]>>} \cup
           IF s[1] = x1 /\ s[2] = y1 THEN {} ELSE f[LineStep(s, dx, dy, sx, sy)]]

LEMMA LineWalk ==
    ASSUME NEW x1 \in Int, NEW y1 \in Int, NEW dx \in Int, NEW dy \in Int,
           NEW sx \in Int, NEW sy \in Int
    PROVE  \E f : WalkOf(f, x1, y1, dx, dy, sx, sy)
<1> DEFINE next == [s \in LoopState |-> LineStep(s, dx, dy, sx, sy)]
           stop == {s \in LoopState : s[1] = x1 /\ s[2] = y1}
<1>1. \A s \in LoopState : LineStep(s, dx, dy, sx, sy) \in LoopState
  BY DEF LineStep, LoopState
<1>2. next \in [LoopState -> LoopState]
  BY <1>1
<1>3. \A s \in LoopState : next[s] = LineStep(s, dx, dy, sx, sy)
                       /\ (s \in stop <=> s[1] = x1 /\ s[2] = y1)
  OBVIOUS
<1> HIDE DEF next, stop
<1>4. PICK f : LoopOf(f, next, stop)
  BY <1>2, LoopExists
<1>5. f = [s \in LoopState |-> {<<s[1], s[2]>>} \cup
             IF s[1] = x1 /\ s[2] = y1 THEN {} ELSE f[LineStep(s, dx, dy, sx, sy)]]
  BY <1>3, <1>4 DEF LoopOf
<1> QED
  BY <1>5 DEF WalkOf, LoopState

LEMMA ObliqueWalk ==
    ASSUME NEW x0 \in Int, NEW y0 \in Int, NEW x1 \in Int, NEW y1 \in Int,
           NEW dx, dx = Distance(x0, x1), NEW dy, dy = Distance(y0, y1),
           NEW sx, sx = IF x0 < x1 THEN 1 ELSE -1, NEW sy, sy = IF y0 < y1 THEN 1 ELSE -1
    PROVE  \E f : /\ WalkOf(f, x1, y1, dx, dy, sx, sy)
                  /\ Oblique(x0, y0, x1, y1) =
                       f[<<x0, y0, IF dx > dy THEN dx \div 2 ELSE -(dy \div 2)>>]
<1> DEFINE W == CHOOSE f : WalkOf(f, x1, y1, dx, dy, sx, sy)
<1>1. dx \in Int /\ dy \in Int /\ sx \in Int /\ sy \in Int
  BY DEF Distance
<1>2. \E f : WalkOf(f, x1, y1, dx, dy, sx, sy)
  BY <1>1, LineWalk
<1>3. WalkOf(W, x1, y1, dx, dy, sx, sy)
  BY <1>2
<1>4. Oblique(x0, y0, x1, y1) = W[<<x0, y0, IF dx > dy THEN dx \div 2 ELSE -(dy \div 2)>>]
  BY DEF Oblique, WalkOf
<1> QED
  BY <1>3, <1>4 DEF LoopOf

-----------------------------------------------------------------------------
(* A staircase: L steps to the right, and up when the error is small.       *)

Err(e, D, L, i, j) == (e - i * D) + j * L

Stair(e, D, L) == {p \in (0 .. L) \X Int : Err(e, D, L, p[1], p[2]) \in 0 .. L - 1}

NextStair(e, D, L, p) == <<p[1] + 1, IF Err(e, D, L, p[1], p[2]) < D THEN p[2] + 1 ELSE p[2]>>

LEMMA ErrUp ==
    ASSUME NEW e \in Int, NEW D \in Int, NEW L \in Int, NEW i \in Int, NEW j \in Int
    PROVE  /\ Err(e, D, L, i, j) \in Int
           /\ Err(e, D, L, i + 1, j) = Err(e, D, L, i, j) - D
           /\ Err(e, D, L, i + 1, j + 1) = (Err(e, D, L, i, j) - D) + L
<1>1. (i + 1) * D = i * D + D /\ (j + 1) * L = j * L + L /\ i * D \in Int /\ j * L \in Int
  OBVIOUS
<1> QED
  BY <1>1 DEF Err

LEMMA ErrStep ==
    ASSUME NEW e \in Int, NEW D \in Int, NEW L \in Int, NEW i \in Int, NEW j \in Int,
           NEW x, x = Err(e, D, L, i, j)
    PROVE  /\ Err(e, D, L, i + 1, j) = x - D
           /\ Err(e, D, L, i + 1, j + 1) = (x - D) + L
<1>1. (i + 1) * D = i * D + D /\ (j + 1) * L = j * L + L /\ i * D \in Int /\ j * L \in Int
  OBVIOUS
<1> QED
  BY <1>1 DEF Err

LEMMA StairPair ==
    ASSUME NEW e, NEW D, NEW L, NEW p \in Stair(e, D, L)
    PROVE  \E i \in 0 .. L, j \in Int : p = <<i, j>> /\ Err(e, D, L, i, j) \in 0 .. L - 1
<1>1. p \in (0 .. L) \X Int /\ Err(e, D, L, p[1], p[2]) \in 0 .. L - 1
  BY DEF Stair
<1>2. p[1] \in 0 .. L /\ p[2] \in Int /\ p = <<p[1], p[2]>>
  BY <1>1
<1> QED
  BY <1>1, <1>2

LEMMA SmallMultiple ==
    ASSUME NEW a \in Int, NEW d \in Nat, -d < a * d, a * d < d
    PROVE  a = 0
<1>1. a >= 1 => a * d >= d
  OBVIOUS
<1>2. a <= -1 => a * d <= -d
  <2> SUFFICES ASSUME a <= -1 PROVE a * d <= -d
    OBVIOUS
  <2>1. (-a) * d >= d
    OBVIOUS
  <2> QED
    BY <2>1
<1> QED
  BY <1>1, <1>2

LEMMA StairUp ==
    ASSUME NEW L \in Nat, NEW D \in 0 .. L, NEW e \in Int, NEW p \in Stair(e, D, L), p[1] # L
    PROVE  NextStair(e, D, L, p) \in Stair(e, D, L) /\ NextStair(e, D, L, p)[1] = p[1] + 1
<1>1. PICK i \in 0 .. L, j \in Int : p = <<i, j>> /\ i # L /\ Err(e, D, L, i, j) \in 0 .. L - 1
  BY StairPair
<1>2. i \in Int
  OBVIOUS
<1>3. /\ Err(e, D, L, i, j) \in Int
      /\ Err(e, D, L, i + 1, j) = Err(e, D, L, i, j) - D
      /\ Err(e, D, L, i + 1, j + 1) = (Err(e, D, L, i, j) - D) + L
  <2>1. e \in Int /\ D \in Int /\ L \in Int /\ j \in Int
    BY <1>1
  <2>2. (i + 1) * D = i * D + D /\ (j + 1) * L = j * L + L /\ i * D \in Int /\ j * L \in Int
    BY <1>2, <2>1
  <2> QED
    BY ONLY <1>2, <2>1, <2>2 DEF Err
<1>4. i + 1 \in 0 .. L /\ j + 1 \in Int
  BY <1>1
<1>5. CASE Err(e, D, L, i, j) < D
  <2>1. NextStair(e, D, L, p) = <<i + 1, j + 1>>
    BY <1>1, <1>5 DEF NextStair
  <2>2. Err(e, D, L, i + 1, j + 1) \in 0 .. L - 1
    BY <1>1, <1>3, <1>5
  <2> QED
    BY <1>1, <1>4, <2>1, <2>2 DEF Stair
<1>6. CASE ~(Err(e, D, L, i, j) < D)
  <2>1. NextStair(e, D, L, p) = <<i + 1, j>>
    BY <1>1, <1>6 DEF NextStair
  <2>2. Err(e, D, L, i + 1, j) \in 0 .. L - 1
    BY <1>1, <1>3, <1>6
  <2> QED
    BY <1>1, <1>4, <2>1, <2>2 DEF Stair
<1> QED
  BY <1>5, <1>6

LEMMA StairUnique ==
    ASSUME NEW L \in Nat, NEW D \in 0 .. L, NEW e \in Int,
           NEW p \in Stair(e, D, L), NEW q \in Stair(e, D, L), p[1] = q[1]
    PROVE  p = q
<1>1. PICK i \in 0 .. L, j \in Int : p = <<i, j>> /\ Err(e, D, L, i, j) \in 0 .. L - 1
  BY StairPair
<1>2. PICK k \in Int : q = <<i, k>> /\ Err(e, D, L, i, k) \in 0 .. L - 1
  BY <1>1, StairPair
<1>3. /\ (e - i * D) + j * L \in 0 .. L - 1
      /\ (e - i * D) + k * L \in 0 .. L - 1
  BY <1>1, <1>2 DEF Err
<1>4. (j - k) * L = j * L - k * L /\ j * L \in Int /\ k * L \in Int /\ i * D \in Int /\ j - k \in Int
  OBVIOUS
<1>5. -L < (j - k) * L /\ (j - k) * L < L
  BY <1>3, <1>4
<1>6. j - k = 0
  BY <1>4, <1>5, SmallMultiple
<1> QED
  BY <1>1, <1>2, <1>6

LEMMA StairEnds ==
    ASSUME NEW L \in Nat, NEW D \in 0 .. L, NEW e \in 0 .. L - 1
    PROVE  <<0, 0>> \in Stair(e, D, L) /\ <<L, D>> \in Stair(e, D, L)
<1>1. 0 * D = 0 /\ 0 * L = 0 /\ L * D = D * L /\ L * D \in Int
  OBVIOUS
<1>2. Err(e, D, L, 0, 0) = e /\ Err(e, D, L, L, D) = e
  BY <1>1 DEF Err
<1> QED
  BY <1>2 DEF Stair

LEMMA StairStep ==
    ASSUME NEW L \in Nat, NEW D \in 0 .. L, NEW e \in 0 .. L - 1, NEW i \in 0 .. L
    PROVE  \E p \in Stair(e, D, L) : p[1] = i
<1> DEFINE S == {n \in Nat : n <= L => \E p \in Stair(e, D, L) : p[1] = n}
<1>1. 0 \in S
  BY StairEnds
<1>2. ASSUME NEW n \in Nat, n \in S PROVE n + 1 \in S
  <2> SUFFICES ASSUME n + 1 <= L PROVE \E p \in Stair(e, D, L) : p[1] = n + 1
    OBVIOUS
  <2>1. PICK p \in Stair(e, D, L) : p[1] = n
    BY <1>2
  <2>2. e \in Int /\ p[1] # L
    BY <2>1
  <2>3. NextStair(e, D, L, p) \in Stair(e, D, L) /\ NextStair(e, D, L, p)[1] = p[1] + 1
    BY <2>2, StairUp
  <2> QED
    BY <2>1, <2>3
<1>3. \A n \in Nat : n \in S
  <2> HIDE DEF S
  <2> QED
    BY <1>1, <1>2, NatSet
<1> QED
  BY <1>3

LEMMA StairBounds ==
    ASSUME NEW L \in Nat, NEW D \in 0 .. L, NEW e \in 0 .. L - 1, NEW p \in Stair(e, D, L)
    PROVE  p[1] \in 0 .. L /\ p[2] \in 0 .. D
<1>1. PICK i \in 0 .. L, j \in Int : p = <<i, j>> /\ Err(e, D, L, i, j) \in 0 .. L - 1
  BY StairPair
<1>2. (e - i * D) + j * L \in 0 .. L - 1
  BY <1>1 DEF Err
<1>3. 0 <= i * D /\ i * D <= L * D
  OBVIOUS
<1>4. -L < j * L
  BY <1>2, <1>3
<1>5. j > -1
  <2>1. j <= -1 => j * L <= (-1) * L
    OBVIOUS
  <2> QED
    BY <1>4, <2>1
<1>6. j * L < (D + 1) * L
  <2>1. (D + 1) * L = L * D + L
    OBVIOUS
  <2> QED
    BY <1>2, <1>3, <2>1
<1>7. j < D + 1
  <2>1. j >= D + 1 => j * L >= (D + 1) * L
    OBVIOUS
  <2> QED
    BY <1>6, <2>1
<1> QED
  BY <1>1, <1>5, <1>7

\* G has the pixels P from each step of the staircase on.
Climbs(G, P, e, D, L) ==
    \A p \in Stair(e, D, L) :
        G[p] = {P[p]} \cup IF p[1] = L THEN {} ELSE G[NextStair(e, D, L, p)]

LEMMA Staircase ==
    ASSUME NEW L \in Nat, NEW D \in 0 .. L, NEW e \in 0 .. L - 1, NEW G, NEW P,
           Climbs(G, P, e, D, L)
    PROVE  G[<<0, 0>>] = {P[p] : p \in Stair(e, D, L)}
<1> DEFINE Rest(p) == {q \in Stair(e, D, L) : q[1] >= p[1]}
           S == {m \in Nat : \A p \in Stair(e, D, L) :
                                p[1] + m = L => G[p] = {P[q] : q \in Rest(p)}}
<1>0. \A p \in Stair(e, D, L) : p[1] \in 0 .. L
  BY StairBounds
<1>1. 0 \in S
  <2> SUFFICES ASSUME NEW p \in Stair(e, D, L), p[1] + 0 = L
               PROVE  G[p] = {P[q] : q \in Rest(p)}
    OBVIOUS
  <2>1. p[1] = L
    BY <1>0
  <2>2. \A q \in Rest(p) : q[1] = p[1]
    BY <1>0, <2>1
  <2>3. e \in Int
    OBVIOUS
  <2>4. \A q \in Rest(p) : q = p
    BY <2>2, <2>3, StairUnique
  <2>5. p \in Rest(p)
    BY <1>0
  <2>6. G[p] = {P[p]}
    BY <2>1 DEF Climbs
  <2> HIDE DEF Rest
  <2> QED
    BY <2>4, <2>5, <2>6
<1>2. ASSUME NEW m \in Nat, m \in S PROVE m + 1 \in S
  <2> SUFFICES ASSUME NEW p \in Stair(e, D, L), p[1] + (m + 1) = L
               PROVE  G[p] = {P[q] : q \in Rest(p)}
    OBVIOUS
  <2> DEFINE u == NextStair(e, D, L, p)
  <2>1. p[1] # L /\ e \in Int
    BY <1>0
  <2>2. u \in Stair(e, D, L) /\ u[1] = p[1] + 1
    BY <2>1, StairUp
  <2>3. G[p] = {P[p]} \cup G[u]
    BY <2>1 DEF Climbs
  <2> HIDE DEF u
  <2>4. u[1] + m = L
    BY <1>0, <2>2
  <2>5. G[u] = {P[q] : q \in Rest(u)}
    BY <1>2, <2>2, <2>4
  <2>6. \A q \in Rest(p) : q[1] # p[1] => q \in Rest(u)
    BY <1>0, <2>2
  <2>7. \A q \in Rest(p) : q[1] = p[1] => q = p
    BY <2>1, StairUnique
  <2>8. \A q \in Rest(u) : q \in Rest(p)
    BY <1>0, <2>2
  <2>9. p \in Rest(p)
    BY <1>0
  <2> HIDE DEF Rest
  <2> QED
    BY <2>3, <2>5, <2>6, <2>7, <2>8, <2>9
<1>3. \A m \in Nat : m \in S
  <2> HIDE DEF S
  <2> QED
    BY <1>1, <1>2, NatSet
<1>4. <<0, 0>> \in Stair(e, D, L)
  BY StairEnds
<1>5. <<0, 0>>[1] = 0 /\ 0 + L = L
  OBVIOUS
<1>6. G[<<0, 0>>] = {P[q] : q \in Rest(<<0, 0>>)}
  BY <1>3, <1>4, <1>5
<1>7. Rest(<<0, 0>>) = Stair(e, D, L)
  BY <1>0
<1> QED
  BY <1>6, <1>7

-----------------------------------------------------------------------------
(* The loop of ssd1306_set_line goes along a staircase.                     *)

\* The loop draws pixels when it starts at x and y with err.
LineDraws(f, x, y, err, pixels) == f[<<x, y, err>>] = pixels

Wide(x0, y0, dx, dy, sx, sy, e) ==
    {<<x0 + sx * p[1], y0 + sy * p[2]>> : p \in Stair(e, dy, dx)}
Tall(x0, y0, dx, dy, sx, sy, e) ==
    {<<x0 + sx * p[2], y0 + sy * p[1]>> : p \in Stair(e, dx, dy)}

LEMMA WideLine ==
    ASSUME NEW x0 \in Int, NEW y0 \in Int, NEW dx \in Nat, NEW dy \in Nat, 0 < dy, dy < dx,
           NEW sx \in {1, -1}, NEW sy \in {1, -1}, NEW f, NEW e \in 0 .. dx - 1,
           NEW x1, x1 = x0 + sx * dx, NEW y1, y1 = y0 + sy * dy,
           WalkOf(f, x1, y1, dx, dy, sx, sy)
    PROVE  LineDraws(f, x0, y0, e, Wide(x0, y0, dx, dy, sx, sy, e))
<1> DEFINE P == [p \in Stair(e, dy, dx) |-> <<x0 + sx * p[1], y0 + sy * p[2]>>]
           G == [p \in Stair(e, dy, dx) |->
                   f[<<x0 + sx * p[1], y0 + sy * p[2], Err(e, dy, dx, p[1], p[2])>>]]
<1>0. dy \in 0 .. dx /\ e \in Int
  OBVIOUS
<1>1. ASSUME NEW p \in Stair(e, dy, dx)
      PROVE  G[p] = {P[p]} \cup IF p[1] = dx THEN {} ELSE G[NextStair(e, dy, dx, p)]
  <2>1. PICK i \in 0 .. dx, j \in Int : p = <<i, j>> /\ Err(e, dy, dx, i, j) \in 0 .. dx - 1
    BY StairPair
  <2> DEFINE x == x0 + sx * i
             y == y0 + sy * j
             er == Err(e, dy, dx, i, j)
             s == <<x, y, er>>
  <2>2. x \in Int /\ y \in Int /\ er \in 0 .. dx - 1 /\ s \in Int \X Int \X Int
    BY <2>1
  <2>3. G[p] = f[s] /\ P[p] = <<x, y>>
    BY <2>1
  <2>4. x = x0 + sx * dx <=> i = dx
    BY <2>1
  <2>5. ASSUME i = dx PROVE y = y0 + sy * dy
    <3>1. <<dx, dy>> \in Stair(e, dy, dx)
      BY <1>0, StairEnds
    <3>2. p = <<dx, dy>>
      BY <1>0, <2>1, <2>5, <3>1, StairUnique
    <3> QED
      BY <2>1, <3>2
  <2>6. f[s] = {<<x, y>>} \cup IF i = dx THEN {} ELSE f[LineStep(s, dx, dy, sx, sy)]
    <3> HIDE DEF x, y, er
    <3>1. f[s] = {<<s[1], s[2]>>} \cup
                 IF s[1] = x0 + sx * dx /\ s[2] = y0 + sy * dy THEN {}
                 ELSE f[LineStep(s, dx, dy, sx, sy)]
      BY <2>2 DEF WalkOf
    <3> QED
      BY <2>4, <2>5, <3>1
  <2>9. /\ i = dx => G[p] = {P[p]}
        /\ i # dx => G[p] = {P[p]} \cup f[LineStep(s, dx, dy, sx, sy)]
        /\ p[1] = i
    BY <2>1, <2>3, <2>6
  <2>7. CASE i = dx
    BY <2>1, <2>3, <2>6, <2>7
  <2>8. CASE i # dx
    <3>1. NextStair(e, dy, dx, p) \in Stair(e, dy, dx)
      BY <1>0, <2>1, <2>8, StairUp
    <3> DEFINE k == IF er < dy THEN j + 1 ELSE j
    <3>2. NextStair(e, dy, dx, p) = <<i + 1, k>> /\ k \in Int
      BY <2>1 DEF NextStair
    <3>3. /\ Err(e, dy, dx, i + 1, j) = er - dy
          /\ Err(e, dy, dx, i + 1, j + 1) = (er - dy) + dx
      <4>1. i \in Int /\ j \in Int /\ dx \in Int /\ dy \in Int /\ e \in Int
        OBVIOUS
      <4>2. /\ Err(e, dy, dx, i + 1, j) = Err(e, dy, dx, i, j) - dy
            /\ Err(e, dy, dx, i + 1, j + 1) = (Err(e, dy, dx, i, j) - dy) + dx
        <5>1. (i + 1) * dy = i * dy + dy /\ (j + 1) * dx = j * dx + dx
          BY <4>1
        <5>2. i * dy \in Int /\ j * dx \in Int
          BY <4>1
        <5> QED
          BY ONLY <4>1, <5>1, <5>2 DEF Err
      <4> QED
        BY <4>2
    <3>4. G[NextStair(e, dy, dx, p)] = f[<<x0 + sx * (i + 1), y0 + sy * k, Err(e, dy, dx, i + 1, k)>>]
      <4>1. \A t \in Stair(e, dy, dx) :
              G[t] = f[<<x0 + sx * t[1], y0 + sy * t[2], Err(e, dy, dx, t[1], t[2])>>]
        BY ZenonT(30)
      <4>2. <<i + 1, k>>[1] = i + 1 /\ <<i + 1, k>>[2] = k
        OBVIOUS
      <4> HIDE DEF G, k
      <4> QED
        BY ONLY <3>1, <3>2, <4>1, <4>2
    <3>5. x0 + sx * (i + 1) = x + sx /\ y0 + sy * (j + 1) = y + sy
      BY <2>1
    <3> HIDE DEF er, x, y
    <3>6. LineStep(s, dx, dy, sx, sy) =
            <<x + sx, IF er < dy THEN y + sy ELSE y, er - dy + (IF er < dy THEN dx ELSE 0)>>
      BY <2>2 DEF LineStep
    <3>7. CASE er < dy
      <4>1. <<x0 + sx * (i + 1), y0 + sy * k, Err(e, dy, dx, i + 1, k)>>
              = LineStep(s, dx, dy, sx, sy)
        BY <3>3, <3>5, <3>6, <3>7
      <4> QED
        BY ONLY <2>9, <2>8, <3>4, <4>1
    <3>8. CASE ~(er < dy)
      <4>1. er - dy + 0 = er - dy
        BY <2>2
      <4>2. <<x0 + sx * (i + 1), y0 + sy * k, Err(e, dy, dx, i + 1, k)>>
              = LineStep(s, dx, dy, sx, sy)
        BY <3>3, <3>5, <3>6, <3>8, <4>1 DEF y
      <4> QED
        BY ONLY <2>9, <2>8, <3>4, <4>2
    <3> QED
      BY <3>7, <3>8
  <2> QED
    BY <2>7, <2>8
<1>2. <<0, 0>> \in Stair(e, dy, dx)
  BY <1>0, StairEnds
<1>3. G[<<0, 0>>] = f[<<x0, y0, e>>]
  <2>1. x0 + sx * 0 = x0 /\ y0 + sy * 0 = y0 /\ Err(e, dy, dx, 0, 0) = e
    BY DEF Err
  <2> QED
    BY <1>2, <2>1
<1>4. G[<<0, 0>>] = {P[p] : p \in Stair(e, dy, dx)}
  <2>1. Climbs(G, P, e, dy, dx)
    BY <1>1 DEF Climbs
  <2>2. dx \in Nat /\ dy \in 0 .. dx /\ e \in 0 .. dx - 1
    BY <1>0
  <2> HIDE DEF G, P
  <2> QED
    BY ONLY <2>1, <2>2, Staircase
<1>5. G[<<0, 0>>] = Wide(x0, y0, dx, dy, sx, sy, e)
  BY <1>4 DEF Wide
<1> QED
  BY <1>3, <1>5 DEF LineDraws

LEMMA TallLine ==
    ASSUME NEW x0 \in Int, NEW y0 \in Int, NEW dx \in Nat, NEW dy \in Nat, 0 < dx, dx <= dy,
           NEW sx \in {1, -1}, NEW sy \in {1, -1}, NEW f, NEW e \in 0 .. dy - 1,
           NEW x1, x1 = x0 + sx * dx, NEW y1, y1 = y0 + sy * dy,
           WalkOf(f, x1, y1, dx, dy, sx, sy)
    PROVE  LineDraws(f, x0, y0, -e, Tall(x0, y0, dx, dy, sx, sy, e))
<1> DEFINE P == [p \in Stair(e, dx, dy) |-> <<x0 + sx * p[2], y0 + sy * p[1]>>]
           G == [p \in Stair(e, dx, dy) |->
                   f[<<x0 + sx * p[2], y0 + sy * p[1], -Err(e, dx, dy, p[1], p[2])>>]]
<1>0. dx \in 0 .. dy /\ e \in Int
  OBVIOUS
<1>1. ASSUME NEW p \in Stair(e, dx, dy)
      PROVE  G[p] = {P[p]} \cup IF p[1] = dy THEN {} ELSE G[NextStair(e, dx, dy, p)]
  <2>1. PICK i \in 0 .. dy, j \in Int : p = <<i, j>> /\ Err(e, dx, dy, i, j) \in 0 .. dy - 1
    BY StairPair
  <2> DEFINE x == x0 + sx * j
             y == y0 + sy * i
             er == Err(e, dx, dy, i, j)
             s == <<x, y, -er>>
  <2>2. x \in Int /\ y \in Int /\ er \in 0 .. dy - 1 /\ s \in Int \X Int \X Int
    BY <2>1
  <2>3. G[p] = f[s] /\ P[p] = <<x, y>>
    BY <2>1
  <2>4. y = y0 + sy * dy <=> i = dy
    BY <2>1
  <2>5. ASSUME i = dy PROVE x = x0 + sx * dx
    <3>1. <<dy, dx>> \in Stair(e, dx, dy)
      BY <1>0, StairEnds
    <3>2. p = <<dy, dx>>
      BY <1>0, <2>1, <2>5, <3>1, StairUnique
    <3> QED
      BY <2>1, <3>2
  <2>6. f[s] = {<<x, y>>} \cup IF i = dy THEN {} ELSE f[LineStep(s, dx, dy, sx, sy)]
    <3> HIDE DEF x, y, er
    <3>1. f[s] = {<<s[1], s[2]>>} \cup
                 IF s[1] = x0 + sx * dx /\ s[2] = y0 + sy * dy THEN {}
                 ELSE f[LineStep(s, dx, dy, sx, sy)]
      BY <2>2 DEF WalkOf
    <3> QED
      BY <2>4, <2>5, <3>1
  <2>9. /\ i = dy => G[p] = {P[p]}
        /\ i # dy => G[p] = {P[p]} \cup f[LineStep(s, dx, dy, sx, sy)]
        /\ p[1] = i
    BY <2>1, <2>3, <2>6
  <2>7. CASE i = dy
    BY <2>1, <2>3, <2>6, <2>7
  <2>8. CASE i # dy
    <3>1. NextStair(e, dx, dy, p) \in Stair(e, dx, dy)
      BY <1>0, <2>1, <2>8, StairUp
    <3> DEFINE k == IF er < dx THEN j + 1 ELSE j
    <3>2. NextStair(e, dx, dy, p) = <<i + 1, k>> /\ k \in Int
      BY <2>1 DEF NextStair
    <3>3. /\ Err(e, dx, dy, i + 1, j) = er - dx
          /\ Err(e, dx, dy, i + 1, j + 1) = (er - dx) + dy
      <4>1. i \in Int /\ j \in Int /\ dx \in Int /\ dy \in Int /\ e \in Int
        OBVIOUS
      <4>2. /\ Err(e, dx, dy, i + 1, j) = Err(e, dx, dy, i, j) - dx
            /\ Err(e, dx, dy, i + 1, j + 1) = (Err(e, dx, dy, i, j) - dx) + dy
        <5>1. (i + 1) * dx = i * dx + dx /\ (j + 1) * dy = j * dy + dy
          BY <4>1
        <5>2. i * dx \in Int /\ j * dy \in Int
          BY <4>1
        <5> QED
          BY ONLY <4>1, <5>1, <5>2 DEF Err
      <4> QED
        BY <4>2
    <3>4. G[NextStair(e, dx, dy, p)] = f[<<x0 + sx * k, y0 + sy * (i + 1), -Err(e, dx, dy, i + 1, k)>>]
      <4>1. \A t \in Stair(e, dx, dy) :
              G[t] = f[<<x0 + sx * t[2], y0 + sy * t[1], -Err(e, dx, dy, t[1], t[2])>>]
        BY ZenonT(30)
      <4>2. <<i + 1, k>>[1] = i + 1 /\ <<i + 1, k>>[2] = k
        OBVIOUS
      <4> HIDE DEF G, k
      <4> QED
        BY ONLY <3>1, <3>2, <4>1, <4>2
    <3>5. x0 + sx * (j + 1) = x + sx /\ y0 + sy * (i + 1) = y + sy
      BY <2>1
    <3>6. x0 + sx * j = x
      OBVIOUS
    <3> HIDE DEF er, x, y
    <3>7. LineStep(s, dx, dy, sx, sy) =
            <<IF er < dx THEN x + sx ELSE x, y + sy, (-er) - (IF er < dx THEN dy ELSE 0) + dx>>
      BY <2>2 DEF LineStep
    <3>8. CASE er < dx
      <4>1. (-er) - dy + dx = -((er - dx) + dy)
        BY <2>2
      <4>2. <<x0 + sx * k, y0 + sy * (i + 1), -Err(e, dx, dy, i + 1, k)>>
              = LineStep(s, dx, dy, sx, sy)
        BY <3>3, <3>5, <3>7, <3>8, <4>1
      <4> QED
        BY ONLY <2>9, <2>8, <3>4, <4>2
    <3>9. CASE ~(er < dx)
      <4>1. (-er) - 0 + dx = -(er - dx)
        BY <2>2
      <4>2. <<x0 + sx * k, y0 + sy * (i + 1), -Err(e, dx, dy, i + 1, k)>>
              = LineStep(s, dx, dy, sx, sy)
        BY <3>3, <3>5, <3>6, <3>7, <3>9, <4>1
      <4> QED
        BY ONLY <2>9, <2>8, <3>4, <4>2
    <3> QED
      BY <3>8, <3>9
  <2> QED
    BY <2>7, <2>8
<1>2. <<0, 0>> \in Stair(e, dx, dy)
  BY <1>0, StairEnds
<1>3. G[<<0, 0>>] = f[<<x0, y0, -e>>]
  <2>1. x0 + sx * 0 = x0 /\ y0 + sy * 0 = y0 /\ Err(e, dx, dy, 0, 0) = e
    BY DEF Err
  <2> QED
    BY <1>2, <2>1
<1>4. G[<<0, 0>>] = {P[p] : p \in Stair(e, dx, dy)}
  <2>1. Climbs(G, P, e, dx, dy)
    BY <1>1 DEF Climbs
  <2>2. dy \in Nat /\ dx \in 0 .. dy /\ e \in 0 .. dy - 1
    BY <1>0
  <2> HIDE DEF G, P
  <2> QED
    BY ONLY <2>1, <2>2, Staircase
<1>5. G[<<0, 0>>] = Tall(x0, y0, dx, dy, sx, sy, e)
  BY <1>4 DEF Tall
<1> QED
  BY <1>3, <1>5 DEF LineDraws

\* The pixels of an oblique line.
Along(x0, y0, dx, dy, sx, sy) ==
    IF dx > dy
    THEN Wide(x0, y0, dx, dy, sx, sy, dx \div 2)
    ELSE Tall(x0, y0, dx, dy, sx, sy, dy \div 2)

LEMMA ObliqueGoesAlong ==
    ASSUME NEW x0 \in Int, NEW y0 \in Int, NEW x1 \in Int, NEW y1 \in Int, x0 # x1, y0 # y1,
           NEW dx, dx = Distance(x0, x1), NEW dy, dy = Distance(y0, y1),
           NEW sx, sx = IF x0 < x1 THEN 1 ELSE -1, NEW sy, sy = IF y0 < y1 THEN 1 ELSE -1
    PROVE  Oblique(x0, y0, x1, y1) = Along(x0, y0, dx, dy, sx, sy)
<1>1. /\ dx \in Nat /\ dy \in Nat /\ 0 < dx /\ 0 < dy
      /\ sx \in {1, -1} /\ sy \in {1, -1}
      /\ x1 = x0 + sx * dx /\ y1 = y0 + sy * dy
  BY DEF Distance
<1>2. PICK f : /\ WalkOf(f, x1, y1, dx, dy, sx, sy)
               /\ Oblique(x0, y0, x1, y1) =
                    f[<<x0, y0, IF dx > dy THEN dx \div 2 ELSE -(dy \div 2)>>]
  BY ObliqueWalk
<1>3. dx \div 2 \in 0 .. dx - 1 /\ dy \div 2 \in 0 .. dy - 1
  BY <1>1
<1> DEFINE e == dx \div 2
           g == dy \div 2
<1>4. CASE dx > dy
  <2>1. f[<<x0, y0, dx \div 2>>] = Wide(x0, y0, dx, dy, sx, sy, dx \div 2)
    <3>1. e \in 0 .. dx - 1 /\ dy < dx
      BY <1>1, <1>3, <1>4
    <3> HIDE DEF e
    <3>2. LineDraws(f, x0, y0, e, Wide(x0, y0, dx, dy, sx, sy, e))
      <4> HIDE DEF g
      <4>1. x1 = x0 + sx * dx /\ y1 = y0 + sy * dy /\ WalkOf(f, x1, y1, dx, dy, sx, sy)
        BY <1>1, <1>2
      <4>2. x0 \in Int /\ y0 \in Int /\ dx \in Nat /\ dy \in Nat /\ 0 < dy /\ dy < dx
            /\ sx \in {1, -1} /\ sy \in {1, -1} /\ e \in 0 .. dx - 1
        BY <1>1, <3>1
      <4> QED
        BY ONLY <4>1, <4>2, WideLine
    <3> QED
      BY <3>2 DEF e, LineDraws
  <2> QED
    BY <1>2, <1>4, <2>1 DEF Along
<1>5. CASE ~(dx > dy)
  <2>1. f[<<x0, y0, -(dy \div 2)>>] = Tall(x0, y0, dx, dy, sx, sy, dy \div 2)
    <3>1. g \in 0 .. dy - 1 /\ dx <= dy
      BY <1>1, <1>3, <1>5
    <3> HIDE DEF g
    <3>2. LineDraws(f, x0, y0, -g, Tall(x0, y0, dx, dy, sx, sy, g))
      <4> HIDE DEF e
      <4>1. x1 = x0 + sx * dx /\ y1 = y0 + sy * dy /\ WalkOf(f, x1, y1, dx, dy, sx, sy)
        BY <1>1, <1>2
      <4>2. x0 \in Int /\ y0 \in Int /\ dx \in Nat /\ dy \in Nat /\ 0 < dx /\ dx <= dy
            /\ sx \in {1, -1} /\ sy \in {1, -1} /\ g \in 0 .. dy - 1
        BY <1>1, <3>1
      <4> QED
        BY ONLY <4>1, <4>2, TallLine
    <3> QED
      BY <3>2 DEF g, LineDraws
  <2> QED
    BY <1>2, <1>5, <2>1 DEF Along
<1> QED
  BY <1>4, <1>5

-----------------------------------------------------------------------------
(* How far a staircase is from straight, and how many steps it has.         *)

LEMMA StairDeviates ==
    ASSUME NEW L \in Nat, NEW D \in 0 .. L, NEW e \in 0 .. L - 1, e = L \div 2,
           NEW i \in 0 .. L, NEW j \in Int, Err(e, D, L, i, j) \in 0 .. L - 1
    PROVE  2 * Distance(i * D, j * L) <= L
<1>1. PICK a \in Int : a = i * D
  OBVIOUS
<1>2. PICK b \in Int : b = j * L
  OBVIOUS
<1>3. (e - a) + b \in 0 .. L - 1
  BY <1>1, <1>2 DEF Err
<1>4. 2 * e <= L /\ L <= 2 * e + 1
  OBVIOUS
<1>5. 2 * Distance(a, b) <= L
  BY <1>3, <1>4 DEF Distance
<1> QED
  BY <1>1, <1>2, <1>5

LEMMA SignedProducts ==
    ASSUME NEW sx \in {1, -1}, NEW sy \in {1, -1},
           NEW i \in Int, NEW j \in Int, NEW D \in Int, NEW L \in Int,
           NEW a, a = i * D, NEW b, b = j * L,
           NEW u, u = (sx * i) * (sy * D) \/ u = (sy * i) * (sx * D),
           NEW v, v = (sy * j) * (sx * L) \/ v = (sx * j) * (sy * L)
    PROVE  Distance(u, v) = Distance(a, b) /\ Distance(v, u) = Distance(a, b)
<1>1. a \in Int /\ b \in Int
  OBVIOUS
<1>2. u = (sx * sy) * a /\ v = (sx * sy) * b
  OBVIOUS
<1>3. sx * sy \in {1, -1}
  OBVIOUS
<1> QED
  BY <1>1, <1>2, <1>3 DEF Distance

\* A set with one element for each number up to n.
LEMMA Counted ==
    ASSUME NEW n \in Nat, NEW S, NEW g \in [0 .. n -> S],
           \A i, j \in 0 .. n : g[i] = g[j] => i = j,
           \A q \in S : \E i \in 0 .. n : g[i] = q
    PROVE  IsFiniteSet(S) /\ Cardinality(S) = n + 1
<1>1. g \in Bijection(0 .. n, S)
  BY DEF Bijection, Injection, Surjection, IsInjective
<1>2. ExistsBijection(0 .. n, S)
  BY <1>1 DEF ExistsBijection
<1>3. IsFiniteSet(0 .. n) /\ Cardinality(0 .. n) = n + 1
  BY FS_Interval
<1> QED
  BY <1>2, <1>3, FS_Bijection, Zenon

\* S has the pixels P of the steps of the staircase, and no two are alike.
Distinct(P, S, e, D, L) ==
    /\ \A p \in Stair(e, D, L) : P[p] \in S
    /\ \A q \in S : \E p \in Stair(e, D, L) : q = P[p]
    /\ \A p, q \in Stair(e, D, L) : P[p] = P[q] => p[1] = q[1]

LEMMA StairCounted ==
    ASSUME NEW L \in Nat, NEW D \in 0 .. L, NEW e \in 0 .. L - 1, NEW S, NEW P,
           Distinct(P, S, e, D, L)
    PROVE  Cardinality(S) = L + 1
<1> DEFINE step == [i \in 0 .. L |-> CHOOSE p \in Stair(e, D, L) : p[1] = i]
           g == [i \in 0 .. L |-> P[step[i]]]
<1>1. ASSUME NEW i \in 0 .. L PROVE step[i] \in Stair(e, D, L) /\ step[i][1] = i
  <2>1. \E p \in Stair(e, D, L) : p[1] = i
    BY StairStep
  <2> QED
    BY <2>1
<1>2. \A p \in Stair(e, D, L) : p[1] \in 0 .. L /\ step[p[1]] = p
  BY <1>1, StairBounds, StairUnique
<1> HIDE DEF step
<1>3. g \in [0 .. L -> S]
  BY <1>1 DEF Distinct
<1>4. \A i, j \in 0 .. L : g[i] = g[j] => i = j
  BY <1>1 DEF Distinct
<1>5. \A q \in S : \E i \in 0 .. L : g[i] = q
  BY <1>2 DEF Distinct
<1> HIDE DEF g
<1> QED
  BY <1>3, <1>4, <1>5, Counted

Straight(S, x0, y0, x1, y1) ==
    LET long == Greatest(Distance(x0, x1), Distance(y0, y1))
    IN  /\ {<<x0, y0>>, <<x1, y1>>} \subseteq S
        /\ Cardinality(S) = long + 1
        /\ \A q \in S :
            /\ q[1] \in Least(x0, x1) .. Greatest(x0, x1)
            /\ q[2] \in Least(y0, y1) .. Greatest(y0, y1)
            /\ 2 * Distance((q[1] - x0) * (y1 - y0), (q[2] - y0) * (x1 - x0)) <= long

LEMMA WideIsStraight ==
    ASSUME NEW x0 \in Int, NEW y0 \in Int, NEW dx \in Nat, NEW dy \in Nat, 0 < dy, dy < dx,
           NEW sx \in {1, -1}, NEW sy \in {1, -1}, NEW e \in 0 .. dx - 1, e = dx \div 2,
           NEW x1, x1 = x0 + sx * dx, NEW y1, y1 = y0 + sy * dy
    PROVE  Straight(Wide(x0, y0, dx, dy, sx, sy, e), x0, y0, x1, y1)
<1> DEFINE P == [p \in Stair(e, dy, dx) |-> <<x0 + sx * p[1], y0 + sy * p[2]>>]
           S == Wide(x0, y0, dx, dy, sx, sy, e)
<1>1. dy \in 0 .. dx /\ x1 \in Int /\ y1 \in Int
      /\ Greatest(Distance(x0, x1), Distance(y0, y1)) = dx
  BY DEF Greatest, Distance
<1>2. S = {P[p] : p \in Stair(e, dy, dx)}
  BY DEF Wide
<1>3. <<x0, y0>> \in S /\ <<x1, y1>> \in S
  <2>1. <<0, 0>> \in Stair(e, dy, dx) /\ <<dx, dy>> \in Stair(e, dy, dx)
    BY <1>1, StairEnds
  <2>2. x0 + sx * 0 = x0 /\ y0 + sy * 0 = y0
    OBVIOUS
  <2> QED
    BY <1>2, <2>1, <2>2
<1>4. Cardinality(S) = dx + 1
  <2>1. \A p, q \in Stair(e, dy, dx) : P[p] = P[q] => p[1] = q[1]
    <3> SUFFICES ASSUME NEW p \in Stair(e, dy, dx), NEW q \in Stair(e, dy, dx), P[p] = P[q]
                 PROVE  p[1] = q[1]
      OBVIOUS
    <3>1. PICK i \in 0 .. dx, j \in Int : p = <<i, j>>
      BY StairPair
    <3>2. PICK k \in 0 .. dx, l \in Int : q = <<k, l>>
      BY StairPair
    <3>3. x0 + sx * i = x0 + sx * k
      BY <3>1, <3>2
    <3> QED
      BY <3>1, <3>2, <3>3
  <2> HIDE DEF P, S
  <2>2. \A p \in Stair(e, dy, dx) : P[p] \in S
    BY <1>2
  <2>3. \A q \in S : \E p \in Stair(e, dy, dx) : q = P[p]
    BY <1>2
  <2>4. Distinct(P, S, e, dy, dx)
    BY <2>1, <2>2, <2>3 DEF Distinct
  <2> QED
    BY <1>1, <2>4, StairCounted
<1>5. ASSUME NEW q \in S
      PROVE  /\ q[1] \in Least(x0, x1) .. Greatest(x0, x1)
             /\ q[2] \in Least(y0, y1) .. Greatest(y0, y1)
             /\ 2 * Distance((q[1] - x0) * (y1 - y0), (q[2] - y0) * (x1 - x0)) <= dx
  <2>1. PICK p \in Stair(e, dy, dx) : q = <<x0 + sx * p[1], y0 + sy * p[2]>>
    BY <1>2
  <2>2. PICK i \in 0 .. dx, j \in Int : p = <<i, j>> /\ Err(e, dy, dx, i, j) \in 0 .. dx - 1
    BY StairPair
  <2>3. j \in 0 .. dy
    BY <1>1, <2>2, StairBounds
  <2>4. q[1] = x0 + sx * i /\ q[2] = y0 + sy * j
    BY <2>1, <2>2
  <2>5. q[1] \in Least(x0, x1) .. Greatest(x0, x1) /\ q[2] \in Least(y0, y1) .. Greatest(y0, y1)
    BY <2>3, <2>4 DEF Least, Greatest
  <2>6. q[1] - x0 = sx * i /\ q[2] - y0 = sy * j /\ y1 - y0 = sy * dy /\ x1 - x0 = sx * dx
    BY <2>3, <2>4
  <2>7. 2 * Distance(i * dy, j * dx) <= dx
    BY <1>1, <2>2, StairDeviates
  <2>8. 2 * Distance((q[1] - x0) * (y1 - y0), (q[2] - y0) * (x1 - x0)) <= dx
    <3> DEFINE a == i * dy
               b == j * dx
               u == (q[1] - x0) * (y1 - y0)
               v == (q[2] - y0) * (x1 - x0)
    <3>1. u = (sx * i) * (sy * dy) /\ v = (sy * j) * (sx * dx) /\ i \in Int /\ j \in Int
      BY <2>3, <2>6
    <3>2. a = i * dy /\ b = j * dx
      OBVIOUS
    <3>3. 2 * Distance(a, b) <= dx
      BY <2>7
    <3> HIDE DEF a, b, u, v
    <3>4. Distance(u, v) = Distance(a, b)
      <4>1. dx \in Int /\ dy \in Int
        OBVIOUS
      <4> QED
        BY ONLY <3>1, <3>2, <4>1, SignedProducts, sx \in {1, -1}, sy \in {1, -1}
    <3>5. 2 * Distance(u, v) <= dx
      BY <3>3, <3>4
    <3> QED
      BY <3>5 DEF u, v
  <2> QED
    BY <2>5, <2>8
<1> QED
  BY <1>1, <1>3, <1>4, <1>5 DEF Straight

LEMMA TallIsStraight ==
    ASSUME NEW x0 \in Int, NEW y0 \in Int, NEW dx \in Nat, NEW dy \in Nat, 0 < dx, dx <= dy,
           NEW sx \in {1, -1}, NEW sy \in {1, -1}, NEW e \in 0 .. dy - 1, e = dy \div 2,
           NEW x1, x1 = x0 + sx * dx, NEW y1, y1 = y0 + sy * dy
    PROVE  Straight(Tall(x0, y0, dx, dy, sx, sy, e), x0, y0, x1, y1)
<1> DEFINE P == [p \in Stair(e, dx, dy) |-> <<x0 + sx * p[2], y0 + sy * p[1]>>]
           S == Tall(x0, y0, dx, dy, sx, sy, e)
<1>1. dx \in 0 .. dy /\ x1 \in Int /\ y1 \in Int
      /\ Greatest(Distance(x0, x1), Distance(y0, y1)) = dy
  BY DEF Greatest, Distance
<1>2. S = {P[p] : p \in Stair(e, dx, dy)}
  BY DEF Tall
<1>3. <<x0, y0>> \in S /\ <<x1, y1>> \in S
  <2>1. <<0, 0>> \in Stair(e, dx, dy) /\ <<dy, dx>> \in Stair(e, dx, dy)
    BY <1>1, StairEnds
  <2>2. x0 + sx * 0 = x0 /\ y0 + sy * 0 = y0
    OBVIOUS
  <2> QED
    BY <1>2, <2>1, <2>2
<1>4. Cardinality(S) = dy + 1
  <2>1. \A p, q \in Stair(e, dx, dy) : P[p] = P[q] => p[1] = q[1]
    <3> SUFFICES ASSUME NEW p \in Stair(e, dx, dy), NEW q \in Stair(e, dx, dy), P[p] = P[q]
                 PROVE  p[1] = q[1]
      OBVIOUS
    <3>1. PICK i \in 0 .. dy, j \in Int : p = <<i, j>>
      BY StairPair
    <3>2. PICK k \in 0 .. dy, l \in Int : q = <<k, l>>
      BY StairPair
    <3>3. y0 + sy * i = y0 + sy * k
      BY <3>1, <3>2
    <3> QED
      BY <3>1, <3>2, <3>3
  <2> HIDE DEF P, S
  <2>2. \A p \in Stair(e, dx, dy) : P[p] \in S
    BY <1>2
  <2>3. \A q \in S : \E p \in Stair(e, dx, dy) : q = P[p]
    BY <1>2
  <2>4. Distinct(P, S, e, dx, dy)
    BY <2>1, <2>2, <2>3 DEF Distinct
  <2> QED
    BY <1>1, <2>4, StairCounted
<1>5. ASSUME NEW q \in S
      PROVE  /\ q[1] \in Least(x0, x1) .. Greatest(x0, x1)
             /\ q[2] \in Least(y0, y1) .. Greatest(y0, y1)
             /\ 2 * Distance((q[1] - x0) * (y1 - y0), (q[2] - y0) * (x1 - x0)) <= dy
  <2>1. PICK p \in Stair(e, dx, dy) : q = <<x0 + sx * p[2], y0 + sy * p[1]>>
    BY <1>2
  <2>2. PICK i \in 0 .. dy, j \in Int : p = <<i, j>> /\ Err(e, dx, dy, i, j) \in 0 .. dy - 1
    BY StairPair
  <2>3. j \in 0 .. dx
    BY <1>1, <2>2, StairBounds
  <2>4. q[1] = x0 + sx * j /\ q[2] = y0 + sy * i
    BY <2>1, <2>2
  <2>5. q[1] \in Least(x0, x1) .. Greatest(x0, x1) /\ q[2] \in Least(y0, y1) .. Greatest(y0, y1)
    BY <2>3, <2>4 DEF Least, Greatest
  <2>6. q[1] - x0 = sx * j /\ q[2] - y0 = sy * i /\ y1 - y0 = sy * dy /\ x1 - x0 = sx * dx
    BY <2>3, <2>4
  <2>7. 2 * Distance(i * dx, j * dy) <= dy
    BY <1>1, <2>2, StairDeviates
  <2>8. 2 * Distance((q[1] - x0) * (y1 - y0), (q[2] - y0) * (x1 - x0)) <= dy
    <3> DEFINE a == i * dx
               b == j * dy
               u == (q[2] - y0) * (x1 - x0)
               v == (q[1] - x0) * (y1 - y0)
    <3>1. u = (sy * i) * (sx * dx) /\ v = (sx * j) * (sy * dy) /\ i \in Int /\ j \in Int
      BY <2>3, <2>6
    <3>2. a = i * dx /\ b = j * dy
      OBVIOUS
    <3>3. 2 * Distance(a, b) <= dy
      BY <2>7
    <3> HIDE DEF a, b, u, v
    <3>4. Distance(v, u) = Distance(a, b)
      <4>1. /\ u = (sx * i) * (sy * dx) \/ u = (sy * i) * (sx * dx)
            /\ v = (sy * j) * (sx * dy) \/ v = (sx * j) * (sy * dy)
            /\ i \in Int /\ j \in Int /\ dx \in Int /\ dy \in Int
        BY <3>1
      <4> QED
        BY ONLY <3>2, <4>1, SignedProducts, sx \in {1, -1}, sy \in {1, -1}
    <3>5. 2 * Distance(v, u) <= dy
      BY <3>3, <3>4
    <3> QED
      BY <3>5 DEF u, v
  <2> QED
    BY <2>5, <2>8
<1> QED
  BY <1>1, <1>3, <1>4, <1>5 DEF Straight

LEMMA LevelIsStraight ==
    ASSUME NEW x0 \in Int, NEW y0 \in Int, NEW x1 \in Int, NEW y1 \in Int,
           x0 = x1 \/ y0 = y1
    PROVE  Straight((Least(x0, x1) .. Greatest(x0, x1)) \X (Least(y0, y1) .. Greatest(y0, y1)),
                    x0, y0, x1, y1)
<1> DEFINE a == Least(x0, x1)
           b == Least(y0, y1)
           long == Greatest(Distance(x0, x1), Distance(y0, y1))
           S == (a .. Greatest(x0, x1)) \X (b .. Greatest(y0, y1))
           g == [i \in 0 .. long |-> IF x0 = x1 THEN <<a, b + i>> ELSE <<a + i, b>>]
<1>1. a \in Int /\ b \in Int /\ long \in Nat
  BY DEF Least, Greatest, Distance
<1>2. x0 = x1 => a = x0 /\ Greatest(x0, x1) = x0 /\ Greatest(y0, y1) = b + long
  BY DEF Least, Greatest, Distance
<1>3. x0 # x1 => b = y0 /\ Greatest(y0, y1) = y0 /\ Greatest(x0, x1) = a + long
  BY DEF Least, Greatest, Distance
<1>4. Cardinality(S) = long + 1
  <2> HIDE DEF a, b, long
  <2>1. g \in [0 .. long -> S]
    BY <1>1, <1>2, <1>3
  <2>2. \A i, j \in 0 .. long : g[i] = g[j] => i = j
    BY <1>1
  <2>3. ASSUME NEW q \in S PROVE \E i \in 0 .. long : g[i] = q
    <3>1. CASE x0 = x1
      <4>1. q[2] - b \in 0 .. long /\ q = <<a, b + (q[2] - b)>>
        BY <1>1, <1>2, <3>1
      <4> QED
        BY <3>1, <4>1
    <3>2. CASE x0 # x1
      <4>1. q[1] - a \in 0 .. long /\ q = <<a + (q[1] - a), b>>
        BY <1>1, <1>3, <3>2
      <4> QED
        BY <3>2, <4>1
    <3> QED
      BY <3>1, <3>2
  <2> HIDE DEF g, S
  <2> QED
    BY <1>1, <2>1, <2>2, <2>3, Counted
<1>5. <<x0, y0>> \in S /\ <<x1, y1>> \in S
  BY DEF Least, Greatest
<1>6. ASSUME NEW q \in S
      PROVE  2 * Distance((q[1] - x0) * (y1 - y0), (q[2] - y0) * (x1 - x0)) <= long
  <2>1. q[1] \in Int /\ q[2] \in Int
    BY <1>1 DEF Greatest
  <2>2. (x0 = x1 /\ q[1] = x0) \/ (y0 = y1 /\ q[2] = y0)
    BY <1>2, <1>3, <2>1
  <2>3. (q[1] - x0) * (y1 - y0) = 0 /\ (q[2] - y0) * (x1 - x0) = 0
    BY <2>1, <2>2
  <2> QED
    BY <1>1, <2>3 DEF Distance
<1> QED
  BY <1>4, <1>5, <1>6 DEF Straight

LEMMA OnTheWay ==
    ASSUME NEW x0 \in Int, NEW y0 \in Int, NEW dx \in Nat, NEW dy \in Nat,
           NEW sx \in {1, -1}, NEW sy \in {1, -1},
           NEW e \in 0 .. dx - 1, dy \in 0 .. dx,
           NEW q \in Wide(x0, y0, dx, dy, sx, sy, e)
    PROVE  q \in Int \X Int
<1>1. PICK p \in Stair(e, dy, dx) : q = <<x0 + sx * p[1], y0 + sy * p[2]>>
  BY DEF Wide
<1>2. p[1] \in Int /\ p[2] \in Int
  BY <1>1, StairBounds
<1> QED
  BY <1>1, <1>2

LEMMA OnTheWayUp ==
    ASSUME NEW x0 \in Int, NEW y0 \in Int, NEW dx \in Nat, NEW dy \in Nat,
           NEW sx \in {1, -1}, NEW sy \in {1, -1},
           NEW e \in 0 .. dy - 1, dx \in 0 .. dy,
           NEW q \in Tall(x0, y0, dx, dy, sx, sy, e)
    PROVE  q \in Int \X Int
<1>1. PICK p \in Stair(e, dx, dy) : q = <<x0 + sx * p[2], y0 + sy * p[1]>>
  BY DEF Tall
<1>2. p[1] \in Int /\ p[2] \in Int
  BY <1>1, StairBounds
<1> QED
  BY <1>1, <1>2

LEMMA ObliqueIsStraight ==
    ASSUME NEW x0 \in Int, NEW y0 \in Int, NEW x1 \in Int, NEW y1 \in Int, x0 # x1, y0 # y1
    PROVE  /\ Straight(Oblique(x0, y0, x1, y1), x0, y0, x1, y1)
           /\ Oblique(x0, y0, x1, y1) \subseteq Int \X Int
<1> DEFINE dx == Distance(x0, x1)
           dy == Distance(y0, y1)
           sx == IF x0 < x1 THEN 1 ELSE -1
           sy == IF y0 < y1 THEN 1 ELSE -1
           e == dx \div 2
           g == dy \div 2
<1>1. /\ dx \in Nat /\ dy \in Nat /\ 0 < dx /\ 0 < dy
      /\ sx \in {1, -1} /\ sy \in {1, -1}
      /\ x1 = x0 + sx * dx /\ y1 = y0 + sy * dy
  BY DEF Distance
<1>2. e \in 0 .. dx - 1 /\ g \in 0 .. dy - 1
  <2> HIDE DEF dx, dy
  <2> QED
    BY <1>1
<1>3. dx = Distance(x0, x1) /\ dy = Distance(y0, y1)
      /\ sx = (IF x0 < x1 THEN 1 ELSE -1) /\ sy = IF y0 < y1 THEN 1 ELSE -1
  OBVIOUS
<1>4. e = dx \div 2 /\ g = dy \div 2
  OBVIOUS
<1> HIDE DEF dx, dy, sx, sy, e, g
<1>5. Oblique(x0, y0, x1, y1) = Along(x0, y0, dx, dy, sx, sy)
  BY <1>3, ObliqueGoesAlong
<1>6. CASE dx > dy
  <2>1. Oblique(x0, y0, x1, y1) = Wide(x0, y0, dx, dy, sx, sy, e)
    BY <1>4, <1>5, <1>6 DEF Along
  <2>2. dy < dx /\ dy \in 0 .. dx
    BY <1>1, <1>6
  <2>3. Straight(Wide(x0, y0, dx, dy, sx, sy, e), x0, y0, x1, y1)
    BY <1>1, <1>2, <1>4, <2>2, WideIsStraight
  <2>4. \A q \in Wide(x0, y0, dx, dy, sx, sy, e) : q \in Int \X Int
    BY <1>1, <1>2, <2>2, OnTheWay
  <2> QED
    BY <2>1, <2>3, <2>4
<1>7. CASE ~(dx > dy)
  <2>1. Oblique(x0, y0, x1, y1) = Tall(x0, y0, dx, dy, sx, sy, g)
    BY <1>4, <1>5, <1>7 DEF Along
  <2>2. dx <= dy /\ dx \in 0 .. dy
    BY <1>1, <1>7
  <2>3. Straight(Tall(x0, y0, dx, dy, sx, sy, g), x0, y0, x1, y1)
    BY <1>1, <1>2, <1>4, <2>2, TallIsStraight
  <2>4. \A q \in Tall(x0, y0, dx, dy, sx, sy, g) : q \in Int \X Int
    BY <1>1, <1>2, <2>2, OnTheWayUp
  <2> QED
    BY <2>1, <2>3, <2>4
<1> QED
  BY <1>6, <1>7

\* What ssd1306_set_line draws.
LEMMA LineIsDrawn ==
    ASSUME NEW xa \in Nat, NEW ya \in Nat, NEW xb \in Nat, NEW yb \in Nat
    PROVE  /\ Straight(Line(xa, ya, xb, yb), Clamped(xa, Width), Clamped(ya, Height),
                       Clamped(xb, Width), Clamped(yb, Height))
           /\ Line(xa, ya, xb, yb) \subseteq Panel
<1> DEFINE x0 == Clamped(xa, Width)
           x1 == Clamped(xb, Width)
           y0 == Clamped(ya, Height)
           y1 == Clamped(yb, Height)
           S == Line(xa, ya, xb, yb)
<1>1. Height \in Nat \ {0} /\ Width \in Nat \ {0}
  <2>1. \A a, b \in Nat \ {0} : a * b \in Nat \ {0}
    OBVIOUS
  <2> QED
    BY <2>1, ShapesAssumption DEF Height
<1>2. x0 \in 0 .. Width - 1 /\ x1 \in 0 .. Width - 1 /\ y0 \in 0 .. Height - 1 /\ y1 \in 0 .. Height - 1
  BY <1>1 DEF Clamped, Least
<1>3. S = IF x0 = x1 \/ y0 = y1
          THEN (Least(x0, x1) .. Greatest(x0, x1)) \X (Least(y0, y1) .. Greatest(y0, y1))
          ELSE Oblique(x0, y0, x1, y1)
  BY DEF Line
<1> HIDE DEF x0, x1, y0, y1, S
<1>4. Straight(S, x0, y0, x1, y1) /\ S \subseteq Int \X Int
  <2>1. CASE x0 = x1 \/ y0 = y1
    <3>1. S = (Least(x0, x1) .. Greatest(x0, x1)) \X (Least(y0, y1) .. Greatest(y0, y1))
      BY <1>3, <2>1
    <3>2. Straight(S, x0, y0, x1, y1)
      BY <1>2, <2>1, <3>1, LevelIsStraight
    <3> QED
      BY <1>2, <3>1, <3>2
  <2>2. CASE x0 # x1 /\ y0 # y1
    BY <1>2, <1>3, <2>2, ObliqueIsStraight
  <2> QED
    BY <2>1, <2>2
<1>5. ASSUME NEW q \in S PROVE q \in Panel
  <2>1. q[1] \in Least(x0, x1) .. Greatest(x0, x1) /\ q[2] \in Least(y0, y1) .. Greatest(y0, y1)
    BY <1>4 DEF Straight
  <2>2. q[1] \in 0 .. Width - 1 /\ q[2] \in 0 .. Height - 1
    BY <1>1, <1>2, <2>1 DEF Least, Greatest
  <2> QED
    BY <1>4, <2>2 DEF Panel
<1> QED
  BY <1>4, <1>5 DEF S, x0, x1, y0, y1

-----------------------------------------------------------------------------
(* The loop of ssd1306_set_circle.                                          *)

RoundOf(f) ==
    f = [s \in Int \X Int \X Int |->
           {<<s[1], s[2]>>} \cup IF s[1] < s[2] THEN f[CircleStep(s)] ELSE {}]

LEMMA OctantWalk ==
    ASSUME NEW r \in Nat
    PROVE  \E f : RoundOf(f) /\ Octant(r) = f[<<0, r, 1 - r>>]
<1> DEFINE next == [s \in LoopState |-> CircleStep(s)]
           stop == {s \in LoopState : ~(s[1] < s[2])}
           W == CHOOSE f : RoundOf(f)
<1>1. \A s \in LoopState : CircleStep(s) \in LoopState
  BY DEF CircleStep, LoopState
<1>2. next \in [LoopState -> LoopState]
  BY <1>1
<1>3. \A s \in LoopState : next[s] = CircleStep(s) /\ (s \in stop <=> ~(s[1] < s[2]))
  OBVIOUS
<1> HIDE DEF next, stop
<1>4. PICK f : LoopOf(f, next, stop)
  BY <1>2, LoopExists
<1>5. f = [s \in LoopState |-> {<<s[1], s[2]>>} \cup
             IF s[1] < s[2] THEN f[CircleStep(s)] ELSE {}]
  BY <1>3, <1>4 DEF LoopOf
<1>6. RoundOf(f)
  BY <1>5 DEF RoundOf, LoopState
<1>7. RoundOf(W)
  BY <1>6
<1>8. Octant(r) = W[<<0, r, 1 - r>>]
  BY DEF Octant, RoundOf
<1> QED
  BY <1>7, <1>8

\* On the circle, of the points above the diagonal.
Near(a, b, r) == b * b - b < r * r - a * a /\ r * r - a * a <= b * b + b

Ring(r) == {p \in Nat \X Nat : p[1] <= p[2] /\ Near(p[1], p[2], r)}

LEMMA Squares ==
    ASSUME NEW a \in Nat, NEW b \in Nat, a <= b
    PROVE  a * a \in Nat /\ b * b \in Nat /\ a * a <= b * b /\ (a < b => a * a + a <= b * b - b)
<1>1. a * a \in Nat /\ b * b \in Nat
  OBVIOUS
<1>2. a * a <= a * b /\ a * b <= b * b
  OBVIOUS
<1>3. ASSUME a < b PROVE a * a + a <= b * b - b
  <2>1. a * a <= a * (b - 1)
    BY <1>3
  <2>2. a * (b - 1) + b <= b * b - b + b - a
    <3>1. (a + 1) * b <= b * b
      BY <1>3
    <3>2. (a + 1) * b = a * b + b /\ a * (b - 1) = a * b - a /\ a * b \in Int
      OBVIOUS
    <3> QED
      BY <3>1, <3>2, <1>1
  <2> QED
    BY <1>1, <1>2, <2>1, <2>2
<1> QED
  BY <1>1, <1>2, <1>3

LEMMA RingUnique ==
    ASSUME NEW r \in Nat, NEW a \in Nat, NEW b \in Nat, NEW c \in Nat,
           Near(a, b, r), Near(a, c, r)
    PROVE  b = c
<1>1. r * r \in Int /\ a * a \in Int /\ b * b \in Int /\ c * c \in Int
  OBVIOUS
<1>2. b < c => b * b + b <= c * c - c
  BY Squares
<1>3. c < b => c * c + c <= b * b - b
  BY Squares
<1> QED
  BY <1>1, <1>2, <1>3 DEF Near

\* The state of the loop at a point: f measures how far the point between
\* the next two is outside of the circle.
Off(x, y, r) == ((x + 1) * (x + 1) + (y * y - y)) - r * r
RingState(x, y, r) == <<x, y, Off(x, y, r)>>
NextRow(x, y, r) == IF Off(x, y, r) >= 0 THEN y - 1 ELSE y

LEMMA OffTypes ==
    ASSUME NEW x \in Int, NEW y \in Int, NEW r \in Int
    PROVE  Off(x, y, r) \in Int /\ RingState(x, y, r) \in Int \X Int \X Int
           /\ RingState(x, y, r)[1] = x /\ RingState(x, y, r)[2] = y
BY DEF Off, RingState

LEMMA CircleNext ==
    ASSUME NEW x \in Int, NEW y \in Int, NEW r \in Int
    PROVE  CircleStep(RingState(x, y, r)) = RingState(x + 1, NextRow(x, y, r), r)
<1> DEFINE o == Off(x, y, r)
           a == (x + 1) * (x + 1)
           b == y * y
           c == r * r
<1>1. a \in Int /\ b \in Int /\ c \in Int /\ o = (a + (b - y)) - c /\ o \in Int
  BY DEF Off
<1>2. (x + 2) * (x + 2) = a + 2 * (x + 1) + 1 /\ (y - 1) * (y - 1) = b - 2 * y + 1
  OBVIOUS
<1>3. (x + 1) + 1 = x + 2
  OBVIOUS
<1>4. RingState(x, y, r)[1] = x /\ RingState(x, y, r)[2] = y /\ RingState(x, y, r)[3] = o
  BY DEF RingState
<1>5. CASE o >= 0
  <2>1. CircleStep(RingState(x, y, r)) = <<x + 1, y - 1, o - 1 * (2 * (y - 1)) + 2 * (x + 1) + 1>>
    BY <1>4, <1>5 DEF CircleStep
  <2>2. Off(x + 1, y - 1, r) = ((x + 2) * (x + 2) + ((y - 1) * (y - 1) - (y - 1))) - c
    BY <1>3 DEF Off
  <2>3. Off(x + 1, y - 1, r) = ((a + 2 * (x + 1) + 1) + ((b - 2 * y + 1) - (y - 1))) - c
    BY <1>2, <2>2
  <2> HIDE DEF a, b, c, o
  <2>4. Off(x + 1, y - 1, r) = o - 1 * (2 * (y - 1)) + 2 * (x + 1) + 1
    BY <1>1, <2>3
  <2>5. NextRow(x, y, r) = y - 1
    BY <1>5 DEF NextRow, o
  <2>6. RingState(x + 1, y - 1, r) = <<x + 1, y - 1, Off(x + 1, y - 1, r)>>
    BY DEF RingState
  <2> QED
    BY <2>1, <2>4, <2>5, <2>6
<1>6. CASE ~(o >= 0)
  <2>1. CircleStep(RingState(x, y, r)) = <<x + 1, y, o + 2 * (x + 1) + 1>>
    <3>1. y - 0 = y /\ 0 * (2 * y) = 0 /\ o - 0 = o
      BY <1>1
    <3> HIDE DEF o
    <3> QED
      BY <1>1, <1>4, <1>6, <3>1 DEF CircleStep
  <2>2. Off(x + 1, y, r) = ((x + 2) * (x + 2) + (b - y)) - c
    BY <1>3 DEF Off
  <2>3. Off(x + 1, y, r) = ((a + 2 * (x + 1) + 1) + (b - y)) - c
    BY <1>2, <2>2
  <2> HIDE DEF a, b, c, o
  <2>4. Off(x + 1, y, r) = o + 2 * (x + 1) + 1
    BY <1>1, <2>3
  <2>5. NextRow(x, y, r) = y
    BY <1>6 DEF NextRow, o
  <2>6. RingState(x + 1, y, r) = <<x + 1, y, Off(x + 1, y, r)>>
    BY DEF RingState
  <2> QED
    BY <2>1, <2>4, <2>5, <2>6
<1> QED
  BY <1>5, <1>6

\* The next point is on the circle, as long as it is above the diagonal.
LEMMA NextIsNear ==
    ASSUME NEW r \in Nat, NEW x \in Nat, NEW y \in Nat, x < y, Near(x, y, r),
           NEW z, z = NextRow(x, y, r)
    PROVE  /\ z \in Nat
           /\ x + 1 <= z => Near(x + 1, z, r)
           /\ x + 1 > z => z = x /\ y = x + 1 /\ Off(x, y, r) >= 0
<1> DEFINE a == x * x
           b == y * y
           c == r * r
           d == (x + 1) * (x + 1)
           w == (y - 1) * (y - 1)
<1>1. a \in Int /\ b \in Int /\ c \in Int /\ d = a + 2 * x + 1 /\ w = b - 2 * y + 1
  OBVIOUS
<1>2. Off(x, y, r) = (d + (b - y)) - c
  BY DEF Off
<1>3. b - y < c - a /\ c - a <= b + y
  BY DEF Near
<1>4. z = IF Off(x, y, r) >= 0 THEN y - 1 ELSE y
  BY DEF NextRow
<1>5. Near(x + 1, y, r) <=> b - y < c - d /\ c - d <= b + y
  BY DEF Near
<1>6. Near(x + 1, y - 1, r) <=> w - (y - 1) < c - d /\ c - d <= w + (y - 1)
  BY DEF Near
<1> HIDE DEF a, b, c, d, w
<1>7. CASE Off(x, y, r) >= 0
  BY <1>1, <1>2, <1>3, <1>4, <1>6, <1>7
<1>8. CASE ~(Off(x, y, r) >= 0)
  BY <1>1, <1>2, <1>3, <1>4, <1>5, <1>8
<1> QED
  BY <1>7, <1>8

Point(x, y) == <<x, y>>

LEMMA RoundStep ==
    ASSUME NEW f, RoundOf(f), NEW x \in Int, NEW y \in Int, NEW r \in Int
    PROVE  f[RingState(x, y, r)] = {Point(x, y)} \cup
                            IF x < y THEN f[RingState(x + 1, NextRow(x, y, r), r)] ELSE {}
<1> DEFINE s == RingState(x, y, r)
<1>1. s \in Int \X Int \X Int /\ s[1] = x /\ s[2] = y
  BY OffTypes
<1>2. CircleStep(s) = RingState(x + 1, NextRow(x, y, r), r)
  BY CircleNext
<1> HIDE DEF s
<1>3. f[s] = {<<s[1], s[2]>>} \cup IF s[1] < s[2] THEN f[CircleStep(s)] ELSE {}
  BY <1>1 DEF RoundOf
<1> QED
  BY <1>1, <1>2, <1>3 DEF s, Point

\* A point of the circle, or one mirrored at the diagonal.
Round(q, r) ==
    \E a, b \in Nat : a <= b /\ Near(a, b, r) /\ (q = Point(a, b) \/ q = Point(b, a))

\* The loop has the points from x on, and no others.
RingDraws(f, x, y, r) ==
    /\ \A a, b \in Nat : x <= a /\ a <= b /\ Near(a, b, r) => Point(a, b) \in f[RingState(x, y, r)]
    /\ \A q \in f[RingState(x, y, r)] : Round(q, r)

\* Beyond the diagonal there are no points above it.
LEMMA NoneBeyond ==
    ASSUME NEW r \in Nat, NEW x \in Nat, Near(x, x, r),
           NEW a \in Nat, NEW b \in Nat, x < a, a <= b
    PROVE  ~Near(a, b, r)
<1>1. x * x \in Int /\ r * r \in Int /\ a * a \in Int /\ b * b \in Int
  OBVIOUS
<1>2. x * x + x <= b * b - b /\ x * x + x <= a * a - a
  BY Squares
<1>3. r * r - x * x <= x * x + x
  BY DEF Near
<1>4. ~(b * b - b < r * r - a * a)
  BY <1>1, <1>2, <1>3
<1> QED
  BY <1>4, Zenon DEF Near

LEMMA NoneAfter ==
    ASSUME NEW r \in Nat, NEW x \in Nat, Off(x, x + 1, r) >= 0,
           NEW a \in Nat, NEW b \in Nat, x < a, a <= b
    PROVE  ~Near(a, b, r)
<1> DEFINE y == x + 1
<1>1. y \in Nat /\ y <= a /\ y <= b
  OBVIOUS
<1>2. y * y \in Int /\ r * r \in Int /\ a * a \in Int /\ b * b \in Int
  OBVIOUS
<1>3. (y * y + (y * y - y)) - r * r >= 0
  BY DEF Off
<1> HIDE DEF y
<1>4. y * y <= a * a
  BY <1>1, Squares
<1>5. y * y - y <= b * b - b
  <2>1. y < b => y * y + y <= b * b - b
    BY <1>1, Squares
  <2> QED
    BY <1>1, <1>2, <2>1
<1>6. ~(b * b - b < r * r - a * a)
  BY <1>1, <1>2, <1>3, <1>4, <1>5
<1> QED
  BY <1>6 DEF Near

LEMMA LoopDraws ==
    ASSUME NEW f, RoundOf(f), NEW r \in Nat
    PROVE  \A m \in Nat : \A x, y \in Nat :
               x <= y /\ y - x <= m /\ Near(x, y, r) => RingDraws(f, x, y, r)
<1> DEFINE S == {m \in Nat : \A x, y \in Nat :
                   x <= y /\ y - x <= m /\ Near(x, y, r) => RingDraws(f, x, y, r)}
<1>1. ASSUME NEW x \in Nat, NEW y \in Nat, x = y, Near(x, y, r)
      PROVE  RingDraws(f, x, y, r)
  <2>1. f[RingState(x, y, r)] = {Point(x, y)}
    BY <1>1, RoundStep
  <2>2. ASSUME NEW a \in Nat, NEW b \in Nat, x <= a, a <= b, Near(a, b, r)
        PROVE  Point(a, b) = Point(x, y)
    <3>1. a = x
      BY <1>1, <2>2, NoneBeyond
    <3>2. b = y
      BY <1>1, <2>2, <3>1, RingUnique
    <3> QED
      BY <3>1, <3>2
  <2>3. Round(Point(x, y), r)
    BY <1>1 DEF Round
  <2> QED
    BY <2>1, <2>2, <2>3 DEF RingDraws
<1>2. 0 \in S
  BY <1>1
<1>3. ASSUME NEW m \in Nat, m \in S PROVE m + 1 \in S
  <2> SUFFICES ASSUME NEW x \in Nat, NEW y \in Nat, x <= y, y - x <= m + 1, Near(x, y, r)
               PROVE  RingDraws(f, x, y, r)
    OBVIOUS
  <2>1. CASE x = y
    BY <1>1, <2>1
  <2>2. CASE x < y
    <3> DEFINE z == NextRow(x, y, r)
               s == RingState(x, y, r)
               t == RingState(x + 1, z, r)
    <3>1. /\ z \in Nat
          /\ x + 1 <= z => Near(x + 1, z, r)
          /\ x + 1 > z => z = x /\ y = x + 1 /\ Off(x, y, r) >= 0
      BY <2>2, NextIsNear
    <3>2. f[s] = {Point(x, y)} \cup f[t]
      BY <2>2, RoundStep
    <3>3. z <= y
      BY DEF NextRow
    <3>4. Round(Point(x, y), r)
      BY <2>2 DEF Round
    <3>5. ASSUME NEW b \in Nat, Near(x, b, r) PROVE Point(x, b) = Point(x, y)
      BY <3>5, RingUnique
    <3> HIDE DEF z, s, t
    <3>6. CASE x + 1 <= z
      <4>1. RingDraws(f, x + 1, z, r)
        BY <1>3, <3>1, <3>3, <3>6
      <4>2. /\ \A a, b \in Nat : x + 1 <= a /\ a <= b /\ Near(a, b, r) => Point(a, b) \in f[t]
            /\ \A q \in f[t] : Round(q, r)
        BY <4>1 DEF RingDraws, t
      <4>3. ASSUME NEW a \in Nat, NEW b \in Nat, x <= a, a <= b, Near(a, b, r)
            PROVE  Point(a, b) \in f[s]
        <5>1. CASE a = x
          BY <3>2, <3>5, <4>3, <5>1
        <5>2. CASE a # x
          BY <3>2, <4>2, <4>3, <5>2
        <5> QED
          BY <5>1, <5>2
      <4> QED
        BY <3>2, <3>4, <4>2, <4>3 DEF RingDraws, s
    <3>7. CASE x + 1 > z
      <4>1. z = x /\ y = x + 1 /\ Off(x, x + 1, r) >= 0
        BY <3>1, <3>7
      <4>2. f[t] = {Point(x + 1, x)}
        <5>1. t = RingState(y, x, r) /\ ~(y < x)
          BY <4>1 DEF t
        <5>2. f[RingState(y, x, r)] = {Point(y, x)}
          BY <5>1, RoundStep
        <5> QED
          BY <4>1, <5>1, <5>2
      <4>3. Round(Point(x + 1, x), r)
        BY <2>2, <4>1 DEF Round
      <4>4. ASSUME NEW a \in Nat, NEW b \in Nat, x <= a, a <= b, Near(a, b, r)
            PROVE  Point(a, b) \in f[s]
        <5>1. a = x
          BY <4>1, <4>4, NoneAfter
        <5> QED
          BY <3>2, <3>5, <4>4, <5>1
      <4> QED
        BY <3>2, <3>4, <4>2, <4>3, <4>4 DEF RingDraws, s
    <3> QED
      BY <3>1, <3>6, <3>7
  <2> QED
    BY <2>1, <2>2
<1>4. \A m \in Nat : m \in S
  <2> HIDE DEF S
  <2> QED
    BY <1>2, <1>3, NatSet
<1> QED
  BY <1>4

\* The points of the octant.
LEMMA OctantIsRound ==
    ASSUME NEW r \in Nat, r # 0
    PROVE  /\ \A a, b \in Nat : a <= b /\ Near(a, b, r) => Point(a, b) \in Octant(r)
           /\ \A q \in Octant(r) : Round(q, r)
<1>1. PICK f : RoundOf(f) /\ Octant(r) = f[<<0, r, 1 - r>>]
  BY OctantWalk
<1>2. <<0, r, 1 - r>> = RingState(0, r, r)
  <2>1. (0 + 1) * (0 + 1) = 1
    OBVIOUS
  <2>2. \A c \in Int : (1 + (c - r)) - c = 1 - r
    OBVIOUS
  <2>3. Off(0, r, r) = 1 - r
    <3>1. r * r \in Int
      OBVIOUS
    <3> QED
      BY <2>1, <2>2, <3>1 DEF Off
  <2> QED
    BY <2>3 DEF RingState
<1>3. Near(0, r, r)
  <2>1. r * r \in Int /\ 0 * 0 = 0
    OBVIOUS
  <2> QED
    BY <2>1 DEF Near
<1>4. RingDraws(f, 0, r, r)
  <2>1. 0 <= r /\ r - 0 <= r
    OBVIOUS
  <2> QED
    BY <1>1, <1>3, <2>1, LoopDraws
<1> QED
  BY <1>1, <1>2, <1>4 DEF RingDraws

LEMMA OctantOfNothing == Octant(0) = {Point(0, 0)}
<1>1. PICK f : RoundOf(f) /\ Octant(0) = f[<<0, 0, 1 - 0>>]
  BY OctantWalk
<1> DEFINE s == <<0, 0, 1>>
<1>2. s \in Int \X Int \X Int /\ s[1] = 0 /\ s[2] = 0 /\ Octant(0) = f[s]
  BY <1>1
<1> HIDE DEF s
<1>3. f[s] = {<<s[1], s[2]>>} \cup IF s[1] < s[2] THEN f[CircleStep(s)] ELSE {}
  BY <1>1, <1>2 DEF RoundOf
<1> QED
  BY <1>2, <1>3 DEF Point

\* A point of the octant, mirrored, is on the circle, and nothing else is.
Size(d) == Distance(d, 0)

LEMMA RingOfSizes ==
    ASSUME NEW dx \in Int, NEW dy \in Int, NEW r \in Nat,
           NEW a, a = Least(Size(dx), Size(dy)), NEW b, b = Greatest(Size(dx), Size(dy))
    PROVE  /\ a \in Nat /\ b \in Nat /\ a <= b
           /\ OnRing(dx, dy, r) <=> (b = 0 \/ b * b - b < r * r - a * a) /\ r * r - a * a <= b * b + b
<1>1. a \in Nat /\ b \in Nat /\ a <= b
  BY DEF Least, Greatest, Size, Distance
<1>2. OnRing(dx, dy, r) <=> (b = 0 \/ b * b - b < r * r - a * a) /\ r * r - a * a <= b * b + b
  BY DEF OnRing, Size
<1> QED
  BY <1>1, <1>2

LEMMA RingIsNear ==
    ASSUME NEW dx \in Int, NEW dy \in Int, NEW r \in Nat, r # 0,
           NEW a, a = Least(Size(dx), Size(dy)), NEW b, b = Greatest(Size(dx), Size(dy))
    PROVE  OnRing(dx, dy, r) <=> Near(a, b, r)
<1>1. /\ a \in Nat /\ b \in Nat /\ a <= b
      /\ OnRing(dx, dy, r) <=> (b = 0 \/ b * b - b < r * r - a * a) /\ r * r - a * a <= b * b + b
  BY RingOfSizes
<1>2. CASE b = 0
  <2>1. a = 0 /\ r * r > 0 /\ r * r \in Int /\ 0 * 0 = 0
    BY <1>1, <1>2
  <2>2. ~(r * r - a * a <= b * b + b)
    BY <1>2, <2>1
  <2> QED
    BY <1>1, <2>2 DEF Near
<1>3. CASE b # 0
  BY <1>1, <1>3 DEF Near
<1> QED
  BY <1>2, <1>3

LEMMA RingOfNothing ==
    ASSUME NEW dx \in Int, NEW dy \in Int
    PROVE  OnRing(dx, dy, 0) <=> dx = 0 /\ dy = 0
<1> DEFINE a == Least(Size(dx), Size(dy))
           b == Greatest(Size(dx), Size(dy))
<1>1. /\ a \in Nat /\ b \in Nat /\ a <= b
      /\ OnRing(dx, dy, 0) <=> (b = 0 \/ b * b - b < 0 * 0 - a * a) /\ 0 * 0 - a * a <= b * b + b
  BY RingOfSizes
<1>2. b = 0 <=> dx = 0 /\ dy = 0
  BY DEF Least, Greatest, Size, Distance
<1> HIDE DEF a, b
<1>3. b = 0 => OnRing(dx, dy, 0)
  <2>1. b = 0 => a = 0
    BY <1>1
  <2> QED
    BY <1>1, <2>1
<1>4. OnRing(dx, dy, 0) => b = 0
  <2>1. a * a >= 0 /\ b * b >= b /\ 0 * 0 = 0 /\ a * a \in Int /\ b * b \in Int
    BY <1>1
  <2> QED
    BY <1>1, <2>1
<1> QED
  BY <1>2, <1>3, <1>4

LEMMA OctantPoints ==
    ASSUME NEW r \in Nat, NEW q \in Octant(r)
    PROVE  \E a, b \in Nat : q = Point(a, b)
<1>1. CASE r = 0
  BY <1>1, OctantOfNothing
<1>2. CASE r # 0
  BY <1>2, OctantIsRound DEF Round
<1> QED
  BY <1>1, <1>2

LEMMA OctantIsRing ==
    ASSUME NEW r \in Nat, NEW dx \in Int, NEW dy \in Int
    PROVE  OnRing(dx, dy, r) <=> \/ Point(Size(dx), Size(dy)) \in Octant(r)
                                 \/ Point(Size(dy), Size(dx)) \in Octant(r)
<1> DEFINE u == Size(dx)
           v == Size(dy)
           a == Least(u, v)
           b == Greatest(u, v)
<1>1. u \in Nat /\ v \in Nat /\ a \in Nat /\ b \in Nat /\ a <= b
  BY DEF Size, Distance, Least, Greatest
<1>2. (a = u /\ b = v) \/ (a = v /\ b = u)
  BY <1>1 DEF Least, Greatest
<1>3. CASE r = 0
  <2>1. OnRing(dx, dy, r) <=> dx = 0 /\ dy = 0
    BY <1>3, RingOfNothing
  <2>2. OnRing(dx, dy, r) <=> u = 0 /\ v = 0
    BY <2>1 DEF Size, Distance
  <2>3. Octant(r) = {Point(0, 0)}
    BY <1>3, OctantOfNothing
  <2> HIDE DEF u, v
  <2>4. Point(u, v) \in Octant(r) <=> u = 0 /\ v = 0
    BY <2>3 DEF Point
  <2>5. Point(v, u) \in Octant(r) <=> u = 0 /\ v = 0
    BY <2>3 DEF Point
  <2> QED
    BY <2>2, <2>4, <2>5 DEF u, v
<1>4. CASE r # 0
  <2>1. OnRing(dx, dy, r) <=> Near(a, b, r)
    BY <1>4, RingIsNear
  <2> HIDE DEF u, v, a, b
  <2>2. /\ Near(a, b, r) => Point(a, b) \in Octant(r)
        /\ \A q \in Octant(r) : Round(q, r)
    BY <1>1, <1>4, OctantIsRound
  <2>3. OnRing(dx, dy, r) => Point(u, v) \in Octant(r) \/ Point(v, u) \in Octant(r)
    BY <1>2, <2>1, <2>2
  <2>4. ASSUME NEW c, NEW d, c \in Nat, d \in Nat, Round(Point(c, d), r),
               (c = u /\ d = v) \/ (c = v /\ d = u)
        PROVE  Near(a, b, r)
    <3>1. PICK g, h \in Nat : g <= h /\ Near(g, h, r)
                              /\ (Point(c, d) = Point(g, h) \/ Point(c, d) = Point(h, g))
      BY <2>4 DEF Round
    <3>2. (c = g /\ d = h) \/ (c = h /\ d = g)
      BY <3>1 DEF Point
    <3>3. a = g /\ b = h
      BY <1>1, <2>4, <3>1, <3>2 DEF a, b, Least, Greatest
    <3> QED
      BY <3>1, <3>3
  <2>5. Point(u, v) \in Octant(r) => Near(a, b, r)
    BY <1>1, <2>2, <2>4
  <2>6. Point(v, u) \in Octant(r) => Near(a, b, r)
    BY <1>1, <2>2, <2>4
  <2>7. OnRing(dx, dy, r) <=> Point(u, v) \in Octant(r) \/ Point(v, u) \in Octant(r)
    BY <2>1, <2>3, <2>5, <2>6
  <2> QED
    BY <2>7 DEF u, v
<1> QED
  BY <1>3, <1>4

\* The mirrored points of the octant are those on the circle.
LEMMA MirroredPoint ==
    ASSUME NEW a \in Nat, NEW b \in Nat, NEW d
    PROVE  d \in Mirrored(Point(a, b)) <=>
               /\ d \in Int \X Int
               /\ \/ Size(d[1]) = a /\ Size(d[2]) = b
                  \/ Size(d[1]) = b /\ Size(d[2]) = a
<1> DEFINE A == {<<sx * a, sy * b>> : sx, sy \in {-1, 1}}
           B == {<<sx * b, sy * a>> : sx, sy \in {-1, 1}}
<1>1. Mirrored(Point(a, b)) = A \cup B
  BY DEF Mirrored, Point
<1>2. ASSUME NEW c \in Nat, NEW e \in Nat
      PROVE  d \in {<<sx * c, sy * e>> : sx, sy \in {-1, 1}}
               <=> d \in Int \X Int /\ Size(d[1]) = c /\ Size(d[2]) = e
  <2>1. ASSUME NEW sx \in {-1, 1}, NEW sy \in {-1, 1}, d = <<sx * c, sy * e>>
        PROVE  d \in Int \X Int /\ Size(d[1]) = c /\ Size(d[2]) = e
    BY <2>1 DEF Size, Distance
  <2>2. ASSUME d \in Int \X Int, Size(d[1]) = c, Size(d[2]) = e
        PROVE  \E sx, sy \in {-1, 1} : d = <<sx * c, sy * e>>
    <3>1. PICK sx \in {-1, 1} : d[1] = sx * c
      <4>1. d[1] = 1 * c \/ d[1] = (-1) * c
        BY <2>2 DEF Size, Distance
      <4> QED
        BY <4>1
    <3>2. PICK sy \in {-1, 1} : d[2] = sy * e
      <4>1. d[2] = 1 * e \/ d[2] = (-1) * e
        BY <2>2 DEF Size, Distance
      <4> QED
        BY <4>1
    <3>3. d = <<d[1], d[2]>>
      BY <2>2
    <3> QED
      BY <3>1, <3>2, <3>3
  <2> QED
    BY <2>1, <2>2
<1>3. d \in A <=> d \in Int \X Int /\ Size(d[1]) = a /\ Size(d[2]) = b
  BY <1>2
<1>4. d \in B <=> d \in Int \X Int /\ Size(d[1]) = b /\ Size(d[2]) = a
  BY <1>2
<1> HIDE DEF A, B
<1> QED
  BY <1>1, <1>3, <1>4

LEMMA MirroredIsRing ==
    ASSUME NEW r \in Nat, NEW d
    PROVE  d \in UNION {Mirrored(o) : o \in Octant(r)} <=> d \in Int \X Int /\ OnRing(d[1], d[2], r)
<1>1. ASSUME NEW o \in Octant(r), d \in Mirrored(o)
      PROVE  d \in Int \X Int /\ OnRing(d[1], d[2], r)
  <2>1. PICK a, b \in Nat : o = Point(a, b)
    BY OctantPoints
  <2>2. /\ d \in Int \X Int
        /\ \/ Size(d[1]) = a /\ Size(d[2]) = b
           \/ Size(d[1]) = b /\ Size(d[2]) = a
    BY <1>1, <2>1, MirroredPoint
  <2>3. d[1] \in Int /\ d[2] \in Int
    BY <2>2
  <2> QED
    BY <2>1, <2>2, <2>3, OctantIsRing
<1>2. ASSUME d \in Int \X Int, OnRing(d[1], d[2], r)
      PROVE  \E o \in Octant(r) : d \in Mirrored(o)
  <2>1. d[1] \in Int /\ d[2] \in Int
    BY <1>2
  <2>2. Size(d[1]) \in Nat /\ Size(d[2]) \in Nat
    BY <2>1 DEF Size, Distance
  <2>3. CASE Point(Size(d[1]), Size(d[2])) \in Octant(r)
    BY <1>2, <2>2, <2>3, MirroredPoint
  <2>4. CASE Point(Size(d[2]), Size(d[1])) \in Octant(r)
    BY <1>2, <2>2, <2>4, MirroredPoint
  <2> QED
    BY <1>2, <2>1, <2>3, <2>4, OctantIsRing
<1> QED
  BY <1>1, <1>2

LEMMA RingReach ==
    ASSUME NEW r \in Nat, NEW dx \in Int, NEW dy \in Int, OnRing(dx, dy, r)
    PROVE  /\ Size(dx) \in 0 .. r /\ Size(dy) \in 0 .. r
           /\ dx \in -r .. r /\ dy \in -r .. r
<1> DEFINE a == Least(Size(dx), Size(dy))
           b == Greatest(Size(dx), Size(dy))
<1>1. /\ a \in Nat /\ b \in Nat /\ a <= b
      /\ (b = 0 \/ b * b - b < r * r - a * a) /\ r * r - a * a <= b * b + b
  BY RingOfSizes
<1>2. b <= r => Size(dx) \in 0 .. r /\ Size(dy) \in 0 .. r
  BY DEF Least, Greatest, Size, Distance
<1> HIDE DEF a, b
<1>3. b <= r
  <2>1. SUFFICES ASSUME r < b PROVE FALSE
    BY <1>1
  <2>2. r * r + r <= b * b - b
    BY <1>1, <2>1, Squares
  <2>3. r * r \in Int /\ b * b \in Int /\ a * a \in Nat
    BY <1>1
  <2> QED
    BY <1>1, <2>1, <2>2, <2>3
<1>4. Size(dx) \in 0 .. r /\ Size(dy) \in 0 .. r
  BY <1>2, <1>3
<1> QED
  BY <1>4 DEF Size, Distance

LEMMA ArgOf ==
    ASSUME NEW n \in Int
    PROVE  /\ n \in 0 .. U8 - 1 => Arg(n) = n
           /\ n \in -U8 .. -1 => Arg(n) = n + U8
<1>1. U8 \in Nat \ {0}
  BY ShapesAssumption
<1>3. n \in 0 .. U8 - 1 => (U8 * 0 + n) % U8 = n
  BY <1>1, DivUnique
<1>4. n \in -U8 .. -1 => (U8 * (-1) + (n + U8)) % U8 = n + U8
  <2>1. n \in -U8 .. -1 => n + U8 \in 0 .. U8 - 1
    BY <1>1
  <2> QED
    BY <1>1, <2>1, DivUnique
<1>5. U8 * 0 + n = n /\ U8 * (-1) + (n + U8) = n
  BY <1>1
<1> QED
  BY <1>3, <1>4, <1>5 DEF Arg

LEMMA PanelFits ==
    /\ Width \in Nat \ {0} /\ Height \in Nat \ {0} /\ U8 \in Nat
    /\ 2 * Width <= U8 /\ Width + Height <= U8
<1>1. \A a, b \in Nat \ {0} : a * b \in Nat \ {0}
  OBVIOUS
<1> QED
  BY <1>1, ShapesAssumption DEF Height

\* What ssd1306_set_circle draws.
LEMMA CircleIsDrawn ==
    ASSUME NEW x0 \in Nat, NEW y0 \in Nat, NEW r \in Nat,
           x0 + r < U8, y0 + r < U8, r + Greatest(Width, Height) <= U8
    PROVE  Circle(x0, y0, r) = {q \in Panel : OnRing(q[1] - x0, q[2] - y0, r)}
<1> DEFINE D == UNION {Mirrored(o) : o \in Octant(r)}
<1>1. \A d : d \in D <=> d \in Int \X Int /\ OnRing(d[1], d[2], r)
  BY MirroredIsRing
<1>2. Circle(x0, y0, r) = {<<Arg(x0 + d[1]), Arg(y0 + d[2])>> : d \in D} \cap Panel
  BY DEF Circle, OnPanel
<1> HIDE DEF D
<1>3. r + Width <= U8 /\ r + Height <= U8
  BY PanelFits DEF Greatest
<1>4. ASSUME NEW d \in D, <<Arg(x0 + d[1]), Arg(y0 + d[2])>> \in Panel
      PROVE  Arg(x0 + d[1]) = x0 + d[1] /\ Arg(y0 + d[2]) = y0 + d[2]
  <2>1. d[1] \in Int /\ d[2] \in Int /\ OnRing(d[1], d[2], r)
    BY <1>1
  <2>2. d[1] \in -r .. r /\ d[2] \in -r .. r
    BY <2>1, RingReach
  <2>3. Arg(x0 + d[1]) < Width /\ Arg(y0 + d[2]) < Height
    BY <1>4, PanelFits DEF Panel
  <2>4. x0 + d[1] \in 0 .. U8 - 1 \/ x0 + d[1] \in -r .. -1
    BY <2>2, PanelFits
  <2>5. y0 + d[2] \in 0 .. U8 - 1 \/ y0 + d[2] \in -r .. -1
    BY <2>2, PanelFits
  <2>6. r <= U8
    BY <1>3, PanelFits
  <2>7. ~(x0 + d[1] \in -r .. -1)
    <3>1. SUFFICES ASSUME x0 + d[1] \in -r .. -1 PROVE FALSE
      OBVIOUS
    <3>2. x0 + d[1] \in -U8 .. -1 /\ x0 + d[1] \in Int
      BY <2>6, <3>1, PanelFits
    <3>3. Arg(x0 + d[1]) = (x0 + d[1]) + U8
      BY <3>2, ArgOf
    <3> QED
      BY <1>3, <2>2, <2>3, <3>1, <3>3, PanelFits
  <2>8. ~(y0 + d[2] \in -r .. -1)
    <3>1. SUFFICES ASSUME y0 + d[2] \in -r .. -1 PROVE FALSE
      OBVIOUS
    <3>2. y0 + d[2] \in -U8 .. -1 /\ y0 + d[2] \in Int
      BY <2>6, <3>1, PanelFits
    <3>3. Arg(y0 + d[2]) = (y0 + d[2]) + U8
      BY <3>2, ArgOf
    <3> QED
      BY <1>3, <2>2, <2>3, <3>1, <3>3, PanelFits
  <2>9. x0 + d[1] \in Int /\ y0 + d[2] \in Int
    BY <2>1
  <2> QED
    BY <2>4, <2>5, <2>7, <2>8, <2>9, ArgOf
<1>5. ASSUME NEW q \in Circle(x0, y0, r)
      PROVE  q \in Panel /\ OnRing(q[1] - x0, q[2] - y0, r)
  <2>1. PICK d \in D : q = <<Arg(x0 + d[1]), Arg(y0 + d[2])>> /\ q \in Panel
    BY <1>2
  <2>2. q[1] = x0 + d[1] /\ q[2] = y0 + d[2]
    BY <1>4, <2>1
  <2>3. d[1] \in Int /\ d[2] \in Int /\ OnRing(d[1], d[2], r)
    BY <1>1
  <2>4. q[1] - x0 = d[1] /\ q[2] - y0 = d[2]
    BY <2>2, <2>3
  <2> QED
    BY <2>1, <2>3, <2>4
<1>6. ASSUME NEW q \in Panel, OnRing(q[1] - x0, q[2] - y0, r)
      PROVE  q \in Circle(x0, y0, r)
  <2> DEFINE away == <<q[1] - x0, q[2] - y0>>
  <2>1. q[1] \in 0 .. Width - 1 /\ q[2] \in 0 .. Height - 1 /\ q = <<q[1], q[2]>>
    BY DEF Panel
  <2>2. away \in D
    BY <1>1, <1>6, <2>1, PanelFits
  <2>3. x0 + away[1] = q[1] /\ y0 + away[2] = q[2]
    BY <2>1, PanelFits
  <2>4. q[1] \in 0 .. U8 - 1 /\ q[2] \in 0 .. U8 - 1 /\ q[1] \in Int /\ q[2] \in Int
    BY <2>1, PanelFits
  <2>5. Arg(q[1]) = q[1] /\ Arg(q[2]) = q[2]
    BY <2>4, ArgOf
  <2> QED
    BY <1>2, <2>1, <2>2, <2>3, <2>5
<1> QED
  BY <1>5, <1>6

LEMMA RingOrdered ==
    ASSUME NEW r \in Nat, r # 0, NEW u \in Nat, NEW v \in Nat, u <= v
    PROVE  (OnRing(u, v, r) <=> Near(u, v, r)) /\ (OnRing(v, u, r) <=> Near(u, v, r))
<1>1. /\ u = Least(Size(u), Size(v)) /\ v = Greatest(Size(u), Size(v))
      /\ u = Least(Size(v), Size(u)) /\ v = Greatest(Size(v), Size(u))
  BY DEF Least, Greatest, Size, Distance
<1>2. OnRing(u, v, r) <=> Near(u, v, r)
  BY <1>1, RingIsNear
<1>3. OnRing(v, u, r) <=> Near(u, v, r)
  BY <1>1, RingIsNear
<1> QED
  BY <1>2, <1>3

\* A row nearer to the centre has a point of the circle further out.
LEMMA WiderNearer ==
    ASSUME NEW r \in Nat, NEW dx \in Nat, NEW dy \in Nat, OnRing(dx, dy, r),
           NEW b \in Nat, b < dy
    PROVE  \E w \in dx .. r : OnRing(w, b, r)
<1>1. dx <= r /\ dy <= r /\ r # 0
  <2>1. Size(dx) = dx /\ Size(dy) = dy /\ dx \in Int /\ dy \in Int
    BY DEF Size, Distance
  <2>2. Size(dx) \in 0 .. r /\ Size(dy) \in 0 .. r
    BY <2>1, RingReach, Zenon
  <2> QED
    BY <2>1, <2>2
<1> DEFINE R == r * r
           B == b * b
           X == dx * dx
           Y == dy * dy
           T == {d \in Nat : R - B <= d * d + d}
           k == Min(T)
           K == k * k
<1>2. R \in Nat /\ B \in Nat /\ X \in Nat /\ Y \in Nat
  OBVIOUS
<1>3. B + b <= Y - dy
  BY Squares
<1>4. \/ dx <= dy /\ Y - dy < R - X
      \/ dy < dx /\ X - dx < R - Y
  <2>1. CASE dx <= dy
    BY <1>1, <2>1, RingOrdered DEF Near
  <2>2. CASE ~(dx <= dy)
    BY <1>1, <2>2, RingOrdered DEF Near
  <2> QED
    BY <2>1, <2>2
<1>5. r \in T
  BY <1>2
<1>6. k \in T /\ \A d \in T : k <= d
  <2>1. T \in SUBSET Nat /\ T # {}
    BY <1>5
  <2> HIDE DEF T
  <2> QED
    BY <2>1, LeastOf
<1>7. k \in Nat /\ R - B <= K + k /\ k <= r /\ K \in Nat
  BY <1>5, <1>6
<1>8. k # 0
  <2>1. b < r => B + b <= R - r
    BY Squares
  <2>2. B + b <= R - r
    BY <1>1, <2>1
  <2>3. k = 0 => K = 0
    OBVIOUS
  <2> HIDE DEF k, K, R, B
  <2> QED
    BY <1>1, <1>2, <1>7, <2>2, <2>3
<1>9. K - k < R - B
  <2> DEFINE j == k - 1
  <2>1. j \in Nat /\ j < k
    BY <1>7, <1>8
  <2>2. ~(R - B <= j * j + j)
    BY <1>6, <2>1
  <2>3. j * j + j = K - k
    <3> HIDE DEF k
    <3> QED
      BY <1>7
  <2> QED
    BY <1>2, <1>7, <2>2, <2>3
<1>10. dx <= k
  <2>1. SUFFICES ASSUME k < dx PROVE FALSE
    BY <1>7
  <2>2. K + k <= X - dx
    <3> HIDE DEF k
    <3> QED
      BY <1>7, <2>1, Squares DEF K
  <2> HIDE DEF R, B, X, Y, k, K, T
  <2> QED
    BY <1>2, <1>3, <1>4, <1>7, <2>1, <2>2
<1>11. CASE b <= k
  <2>1. Near(b, k, r)
    BY <1>7, <1>9 DEF Near
  <2>2. OnRing(k, b, r)
    <3> HIDE DEF k
    <3> QED
      BY <1>1, <1>7, <1>11, <2>1, RingOrdered
  <2>3. k \in dx .. r
    BY <1>7, <1>10
  <2> QED
    BY <2>2, <2>3
<1>12. CASE k < b
  <2> DEFINE U == {d \in Nat : (R - B) + b <= d * d}
             h == Min(U)
             H == h * h
             g == h - 1
             G == g * g
  <2>1. K + k <= B - b
    <3> HIDE DEF k
    <3> QED
      BY <1>7, <1>12, Squares DEF K
  <2>2. (R - B) + b <= B
    <3> HIDE DEF R, B, k, K
    <3> QED
      BY <1>2, <1>7, <2>1
  <2>3. b \in U
    BY <2>2
  <2>4. h \in U /\ \A d \in U : h <= d
    <3>1. U \in SUBSET Nat /\ U # {}
      BY <2>3
    <3> HIDE DEF U
    <3> QED
      BY <3>1, LeastOf
  <2>5. h \in Nat /\ (R - B) + b <= H /\ h <= b /\ H \in Nat
    BY <2>3, <2>4
  <2>6. h # 0
    <3>1. h = 0 => H = 0
      OBVIOUS
    <3> HIDE DEF h, H, R, B, k, K
    <3> QED
      BY <1>2, <1>7, <1>8, <1>9, <1>12, <2>5, <3>1
  <2>7. g \in Nat /\ g < h /\ G \in Nat
    BY <2>5, <2>6
  <2>8. ~((R - B) + b <= G)
    BY <2>4, <2>7
  <2>9. G + (2 * g + 1) = H
    <3> HIDE DEF h
    <3> QED
      BY <2>5
  <2>10. Near(g, b, r)
    <3>1. B - b < R - G /\ R - G <= B + b
      <4>1. g + 1 <= b /\ g \in Nat
        BY <2>5, <2>7
      <4> HIDE DEF G, H, g, h, R, B, k, K, U
      <4> QED
        BY <1>2, <2>5, <2>7, <2>8, <2>9, <4>1
    <3> QED
      BY <3>1 DEF Near
  <2>11. g < b
    BY <2>5, <2>7
  <2>12. dx < h
    <3> HIDE DEF g, R, B, k, K, h, H, Y, X
    <3>1. SUFFICES ASSUME h <= dx PROVE FALSE
      BY <2>5
    <3>2. H <= X
      BY <2>5, <3>1, Squares DEF H, X
    <3>3. dx <= dy /\ Y - dy < R - X
      BY <1>4, <1>7, <1>10, <1>12
    <3> QED
      BY <1>2, <1>3, <2>5, <3>2, <3>3
  <2>13. g \in dx .. r
    BY <1>1, <2>5, <2>11, <2>12
  <2>14. OnRing(g, b, r)
    <3> HIDE DEF g
    <3> QED
      BY <1>1, <2>7, <2>10, <2>11, RingOrdered
  <2> QED
    BY <2>13, <2>14
<1> QED
  BY <1>7, <1>11, <1>12

\* The lines of a disc: half their width, and their row.
Chords(r) ==
    {<<r, 0>>} \cup
    UNION {{<<o[1], o[2]>>, <<o[1], -o[2]>>, <<o[2], o[1]>>, <<o[2], -o[1]>>}
              : o \in Octant(r) \ {<<0, r>>}}

LEMMA RingOfPoint ==
    ASSUME NEW r \in Nat, NEW a \in Nat, NEW b \in Nat, Point(a, b) \in Octant(r)
    PROVE  OnRing(a, b, r) /\ OnRing(a, -b, r) /\ OnRing(b, a, r) /\ OnRing(b, -a, r)
<1>1. Size(a) = a /\ Size(b) = b /\ Size(-a) = a /\ Size(-b) = b
  BY DEF Size, Distance
<1>2. a \in Int /\ b \in Int /\ -a \in Int /\ -b \in Int
  OBVIOUS
<1>3. OnRing(a, b, r)
  BY <1>1, <1>2, OctantIsRing, Zenon
<1>4. OnRing(b, a, r)
  BY <1>1, <1>2, OctantIsRing, Zenon
<1>5. OnRing(a, -b, r)
  BY <1>1, <1>2, OctantIsRing, Zenon
<1>6. OnRing(b, -a, r)
  BY <1>1, <1>2, OctantIsRing, Zenon
<1> QED
  BY <1>3, <1>4, <1>5, <1>6

LEMMA RingOfRadius ==
    ASSUME NEW r \in Nat
    PROVE  OnRing(0, r, r) /\ OnRing(r, 0, r)
<1>1. CASE r = 0
  BY <1>1, RingOfNothing
<1>2. CASE r # 0
  <2>1. r * r \in Int /\ 0 * 0 = 0
    OBVIOUS
  <2>2. Near(0, r, r)
    BY <1>2, <2>1 DEF Near
  <2> QED
    BY <1>2, <2>2, RingOrdered
<1> QED
  BY <1>1, <1>2

LEMMA ChordsAreRing ==
    ASSUME NEW r \in Nat, NEW c \in Chords(r)
    PROVE  /\ c[1] \in 0 .. r /\ c[2] \in -r .. r
           /\ OnRing(c[1], c[2], r)
<1>1. c[1] \in Nat /\ c[2] \in Int /\ OnRing(c[1], c[2], r)
  <2>1. CASE c = <<r, 0>>
    BY <2>1, RingOfRadius
  <2>2. CASE c # <<r, 0>>
    <3>1. PICK o \in Octant(r) : c \in {<<o[1], o[2]>>, <<o[1], -o[2]>>, <<o[2], o[1]>>, <<o[2], -o[1]>>}
      BY <2>2 DEF Chords
    <3>2. PICK a, b \in Nat : o = Point(a, b)
      BY OctantPoints
    <3>3. c \in {<<a, b>>, <<a, -b>>, <<b, a>>, <<b, -a>>}
      BY <3>1, <3>2 DEF Point
    <3>4. OnRing(a, b, r) /\ OnRing(a, -b, r) /\ OnRing(b, a, r) /\ OnRing(b, -a, r)
      BY <3>2, RingOfPoint
    <3>5. \/ c[1] = a /\ c[2] = b
          \/ c[1] = a /\ c[2] = -b
          \/ c[1] = b /\ c[2] = a
          \/ c[1] = b /\ c[2] = -a
      BY <3>3
    <3>6. OnRing(c[1], c[2], r)
      BY <3>4, <3>5, Zenon
    <3> QED
      BY <3>5, <3>6
  <2> QED
    BY <2>1, <2>2
<1>2. Size(c[1]) \in 0 .. r /\ c[2] \in -r .. r
  <2> DEFINE dx == c[1]
             dy == c[2]
  <2>1. dx \in Int /\ dy \in Int /\ OnRing(dx, dy, r)
    BY <1>1
  <2> HIDE DEF dx, dy
  <2>2. Size(dx) \in 0 .. r /\ dy \in -r .. r
    BY ONLY r \in Nat, <2>1, RingReach
  <2> QED
    BY <2>2 DEF dx, dy
<1> QED
  BY <1>1, <1>2 DEF Size, Distance

LEMMA RingHasChord ==
    ASSUME NEW r \in Nat, NEW dx \in Nat, NEW dy \in Int, OnRing(dx, dy, r)
    PROVE  \/ dx = 0 /\ Size(dy) = r
           \/ <<dx, dy>> \in Chords(r)
<1> DEFINE v == Size(dy)
<1>1. v \in Nat /\ (dy = v \/ dy = -v) /\ Size(dx) = dx /\ dx \in Int
  BY DEF Size, Distance
<1>2. Point(dx, v) \in Octant(r) \/ Point(v, dx) \in Octant(r)
  <2>1. Point(Size(dx), Size(dy)) \in Octant(r) \/ Point(Size(dy), Size(dx)) \in Octant(r)
    BY <1>1, OctantIsRing
  <2> QED
    BY <1>1, <2>1
<1> HIDE DEF v
<1>3. CASE Point(dx, v) \in Octant(r)
  <2> DEFINE o == Point(dx, v)
  <2>1. o[1] = dx /\ o[2] = v /\ (o = <<0, r>> => dx = 0 /\ v = r)
    BY DEF Point
  <2> HIDE DEF o
  <2>2. CASE o = <<0, r>>
    BY <2>1, <2>2 DEF v
  <2>3. CASE o # <<0, r>>
    <3>1. o \in Octant(r) \ {<<0, r>>}
      BY <1>3, <2>3 DEF o
    <3>2. <<o[1], o[2]>> \in Chords(r) /\ <<o[1], -o[2]>> \in Chords(r)
      BY <3>1 DEF Chords
    <3> QED
      BY <1>1, <2>1, <3>2
  <2> QED
    BY <2>2, <2>3
<1>4. CASE Point(v, dx) \in Octant(r)
  <2> DEFINE o == Point(v, dx)
  <2>1. o[1] = v /\ o[2] = dx /\ (o = <<0, r>> => v = 0 /\ dx = r)
    BY DEF Point
  <2> HIDE DEF o
  <2>2. CASE o = <<0, r>>
    <3>1. dy = 0 /\ dx = r
      BY <1>1, <2>1, <2>2
    <3> QED
      BY <3>1 DEF Chords
  <2>3. CASE o # <<0, r>>
    <3>1. o \in Octant(r) \ {<<0, r>>}
      BY <1>4, <2>3 DEF o
    <3>2. <<o[2], o[1]>> \in Chords(r) /\ <<o[2], -o[1]>> \in Chords(r)
      BY <3>1 DEF Chords
    <3> QED
      BY <1>1, <2>1, <3>2
  <2> QED
    BY <2>2, <2>3
<1> QED
  BY <1>2, <1>3, <1>4

LEMMA LevelLine ==
    ASSUME NEW xa \in Nat, NEW xb \in Nat, NEW y \in Nat, xa <= xb, xa < Width, NEW q
    PROVE  q \in Line(xa, y, xb, y) <=>
               /\ q \in Int \X Int
               /\ q[1] \in xa .. Clamped(xb, Width)
               /\ q[2] = Clamped(y, Height)
<1>1. /\ Clamped(xa, Width) = xa /\ Clamped(y, Height) \in Int
      /\ Clamped(xb, Width) \in Int /\ xa <= Clamped(xb, Width)
  BY PanelFits DEF Clamped, Least
<1>2. /\ Least(Clamped(xa, Width), Clamped(xb, Width)) = xa
      /\ Greatest(Clamped(xa, Width), Clamped(xb, Width)) = Clamped(xb, Width)
      /\ Least(Clamped(y, Height), Clamped(y, Height)) = Clamped(y, Height)
      /\ Greatest(Clamped(y, Height), Clamped(y, Height)) = Clamped(y, Height)
  BY <1>1 DEF Least, Greatest
<1>3. Line(xa, y, xb, y) = (xa .. Clamped(xb, Width)) \X (Clamped(y, Height) .. Clamped(y, Height))
  BY <1>2 DEF Line
<1> QED
  BY <1>1, <1>3

\* What ssd1306_display_filled_circle draws.
LEMMA DiscIsDrawn ==
    ASSUME NEW x0 \in 0 .. Width - 1, NEW y0 \in 0 .. Height - 1, NEW r \in Nat,
           r <= x0, r <= y0
    PROVE  Disc(x0, y0, r) = {q \in Panel : \E dx \in Distance(q[1], x0) .. r :
                                               OnRing(dx, q[2] - y0, r)}
<1> DEFINE Chord(c) == Line(Arg(x0 - c[1]), Arg(y0 + c[2]), Arg(x0 + c[1]), Arg(y0 + c[2]))
           Poles == {<<Arg(x0 + d[1]), Arg(y0 + d[2])>> : d \in Mirrored(Point(0, r))} \cap Panel
           In(q) == q \in Panel /\ \E dx \in Distance(q[1], x0) .. r : OnRing(dx, q[2] - y0, r)
<1>1. Disc(x0, y0, r) = Poles \cup UNION {Chord(c) : c \in Chords(r)}
  BY Zenon DEF Disc, Chords, OnPanel, Point
<1>2. x0 \in Nat /\ y0 \in Nat /\ x0 < Width /\ y0 < Height /\ Width \in Nat /\ Height \in Nat /\ U8 \in Nat
  BY PanelFits
<1>3. ASSUME NEW dx \in -r .. r, NEW dy \in -r .. r
      PROVE  /\ Arg(x0 + dx) = x0 + dx /\ Arg(y0 + dy) = y0 + dy
             /\ x0 + dx \in Nat /\ y0 + dy \in Nat
  <2>1. x0 + dx \in 0 .. U8 - 1 /\ y0 + dy \in 0 .. U8 - 1 /\ x0 + dx \in Int /\ y0 + dy \in Int
    BY <1>2, PanelFits
  <2> QED
    BY <2>1, ArgOf
<1>4. ASSUME NEW c \in Chords(r), NEW q
      PROVE  q \in Chord(c) <=> /\ q \in Int \X Int
                                /\ q[1] \in x0 - c[1] .. Least(x0 + c[1], Width - 1)
                                /\ q[2] = Least(y0 + c[2], Height - 1)
  <2>1. c[1] \in 0 .. r /\ c[2] \in -r .. r
    BY ChordsAreRing
  <2>2. c[1] \in -r .. r /\ -c[1] \in -r .. r /\ x0 + (-c[1]) = x0 - c[1]
    BY <1>2, <2>1
  <2>3. Arg(x0 + c[1]) = x0 + c[1] /\ Arg(x0 - c[1]) = x0 - c[1] /\ Arg(y0 + c[2]) = y0 + c[2]
    BY <1>3, <2>1, <2>2
  <2>4. x0 + c[1] \in Nat /\ x0 - c[1] \in Nat /\ y0 + c[2] \in Nat
        /\ x0 - c[1] <= x0 + c[1] /\ x0 - c[1] < Width
    BY <1>2, <2>1
  <2>5. q \in Line(x0 - c[1], y0 + c[2], x0 + c[1], y0 + c[2]) <=>
               /\ q \in Int \X Int
               /\ q[1] \in x0 - c[1] .. Clamped(x0 + c[1], Width)
               /\ q[2] = Clamped(y0 + c[2], Height)
    <3> DEFINE xa == x0 - c[1]
               xb == x0 + c[1]
               y == y0 + c[2]
    <3>1. xa \in Nat /\ xb \in Nat /\ y \in Nat /\ xa <= xb /\ xa < Width
      BY <2>4
    <3> HIDE DEF xa, xb, y
    <3>2. q \in Line(xa, y, xb, y) <=>
               /\ q \in Int \X Int
               /\ q[1] \in xa .. Clamped(xb, Width)
               /\ q[2] = Clamped(y, Height)
      BY <3>1, LevelLine
    <3> QED
      BY <3>2 DEF xa, xb, y
  <2> QED
    BY <2>3, <2>5 DEF Clamped
<1>5. ASSUME NEW q \in Poles PROVE In(q)
  <2>1. PICK d \in Mirrored(Point(0, r)) : q = <<Arg(x0 + d[1]), Arg(y0 + d[2])>> /\ q \in Panel
    OBVIOUS
  <2>2. /\ d[1] \in Int /\ d[2] \in Int
        /\ \/ Size(d[1]) = 0 /\ Size(d[2]) = r
           \/ Size(d[1]) = r /\ Size(d[2]) = 0
    BY MirroredPoint
  <2>3. d[1] \in -r .. r /\ d[2] \in -r .. r
    BY <2>2 DEF Size, Distance
  <2>4. q[1] = x0 + d[1] /\ q[2] = y0 + d[2]
    BY <1>3, <2>1, <2>3
  <2>5. Distance(q[1], x0) = Size(d[1]) /\ q[2] - y0 = d[2]
    BY <1>2, <2>2, <2>4 DEF Size, Distance
  <2>6. OnRing(Size(d[1]), d[2], r)
    <3> DEFINE w == Size(d[1])
               v == d[2]
    <3>1. /\ OnRing(0, r, r) /\ OnRing(r, 0, r) /\ OnRing(0, -r, r)
      <4>1. -r \in Int /\ 0 \in Int /\ r \in Int /\ Size(0) = 0 /\ Size(-r) = r /\ Size(r) = r
        BY DEF Size, Distance
      <4>2. OnRing(0, r, r) /\ OnRing(r, 0, r)
        BY RingOfRadius
      <4>3. Point(0, r) \in Octant(r) \/ Point(r, 0) \in Octant(r)
        BY <4>1, <4>2, OctantIsRing
      <4>4. OnRing(0, -r, r)
        BY <4>1, <4>3, OctantIsRing, Zenon
      <4> QED
        BY <4>2, <4>4
    <3>2. (w = 0 /\ (v = r \/ v = -r)) \/ (w = r /\ v = 0)
      BY <2>2 DEF Size, Distance
    <3> HIDE DEF w, v
    <3>3. OnRing(w, v, r)
      BY <3>1, <3>2, Zenon
    <3> QED
      BY <3>3 DEF w, v
  <2>7. Size(d[1]) \in Distance(q[1], x0) .. r
    BY <2>2, <2>5 DEF Size, Distance
  <2> QED
    BY <2>1, <2>5, <2>6, <2>7
<1>6. ASSUME NEW c \in Chords(r), NEW q \in Chord(c) PROVE In(q)
  <2>1. /\ q \in Int \X Int
        /\ q[1] \in x0 - c[1] .. Least(x0 + c[1], Width - 1)
        /\ q[2] = Least(y0 + c[2], Height - 1)
    BY <1>4, <1>6
  <2>2. c[1] \in 0 .. r /\ c[2] \in -r .. r /\ OnRing(c[1], c[2], r)
    BY ChordsAreRing
  <2>3. q \in Panel
    <3>1. q[1] \in 0 .. Width - 1 /\ q[2] \in 0 .. Height - 1
      BY <1>2, <2>1, <2>2 DEF Least
    <3> QED
      BY <2>1, <3>1 DEF Panel
  <2>4. Distance(q[1], x0) <= c[1] /\ Distance(q[1], x0) \in Nat
    BY <1>2, <2>1, <2>2 DEF Least, Distance
  <2>5. CASE y0 + c[2] <= Height - 1
    <3>1. q[2] - y0 = c[2]
      BY <1>2, <2>1, <2>2, <2>5 DEF Least
    <3>2. c[1] \in Distance(q[1], x0) .. r
      BY <2>2, <2>4
    <3> QED
      BY <2>2, <2>3, <3>1, <3>2
  <2>6. CASE y0 + c[2] > Height - 1
    <3> DEFINE b == q[2] - y0
    <3>1. b \in Nat /\ b < c[2] /\ c[2] \in Nat /\ c[1] \in Nat
      BY <1>2, <2>1, <2>2, <2>6 DEF Least
    <3> HIDE DEF b
    <3>2. PICK w \in c[1] .. r : OnRing(w, b, r)
      BY <2>2, <3>1, WiderNearer
    <3>3. w \in Distance(q[1], x0) .. r
      BY <2>2, <2>4
    <3> QED
      BY <2>3, <3>2, <3>3 DEF b
  <2> QED
    BY <1>2, <2>2, <2>5, <2>6
<1>7. ASSUME NEW q, In(q) PROVE q \in Disc(x0, y0, r)
  <2>1. PICK dx \in Distance(q[1], x0) .. r : OnRing(dx, q[2] - y0, r)
    BY <1>7
  <2>2. q[1] \in 0 .. Width - 1 /\ q[2] \in 0 .. Height - 1 /\ q = <<q[1], q[2]>> /\ q \in Panel
    BY <1>7 DEF Panel
  <2> DEFINE dy == q[2] - y0
  <2>3. dx \in Nat /\ dx <= r /\ dy \in Int /\ OnRing(dx, dy, r)
    BY <1>2, <2>1, <2>2 DEF Distance
  <2>4. y0 + dy = q[2] /\ q[1] \in x0 - dx .. x0 + dx
    BY <1>2, <2>1, <2>2 DEF Distance
  <2> HIDE DEF dy
  <2>5. CASE dx = 0 /\ Size(dy) = r
    <3> DEFINE d == <<0, dy>>
    <3>1. d[1] = 0 /\ d[2] = dy /\ d \in Int \X Int /\ Size(0) = 0
      BY <2>3 DEF Size, Distance
    <3>2. d \in Mirrored(Point(0, r))
      BY <2>5, <3>1, MirroredPoint
    <3>3. dy \in -r .. r /\ 0 \in -r .. r
      BY <2>3, <2>5 DEF Size, Distance
    <3>4. Arg(x0 + 0) = x0 + 0 /\ Arg(y0 + dy) = y0 + dy
      BY <1>3, <3>3
    <3>5. q[1] = x0 + 0
      BY <1>2, <2>2, <2>4, <2>5
    <3>6. q = <<Arg(x0 + d[1]), Arg(y0 + d[2])>>
      BY <2>2, <2>4, <3>1, <3>4, <3>5
    <3>7. q \in Poles
      BY <2>2, <3>2, <3>6
    <3> HIDE DEF Poles
    <3> QED
      BY <1>1, <3>7
  <2>6. CASE <<dx, dy>> \in Chords(r)
    <3> DEFINE c == <<dx, dy>>
    <3>1. c[1] = dx /\ c[2] = dy /\ c \in Chords(r)
      BY <2>6
    <3> HIDE DEF c
    <3>2. q \in Int \X Int
      BY <2>2
    <3>3. q[1] \in x0 - c[1] .. Least(x0 + c[1], Width - 1)
      BY <1>2, <2>2, <2>3, <2>4, <3>1 DEF Least
    <3>4. q[2] = Least(y0 + c[2], Height - 1)
      BY <1>2, <2>2, <2>3, <2>4, <3>1 DEF Least
    <3>5. q \in Chord(c)
      BY <1>4, <3>1, <3>2, <3>3, <3>4
    <3> HIDE DEF Chord, Poles
    <3> QED
      BY <1>1, <3>1, <3>5
  <2> QED
    BY <2>3, <2>5, <2>6, RingHasChord
<1> HIDE DEF Chord, Poles
<1>8. \A q : q \in Disc(x0, y0, r) <=> In(q)
  BY <1>1, <1>5, <1>6, <1>7
<1> QED
  BY <1>8

-----------------------------------------------------------------------------
(* Lines are straight and circles are round.                                *)

Figures == {"line", "circle", "disc"}

LEMMA CallIs ==
    ASSUME NEW c, \/ Cheap(c) \/ Costly(c) \/ Calling(c, 1)
                  \/ \E pixels : Draw(c, pixels)
    PROVE  call' = c
BY DEF Cheap, Costly, Calling, Draw

\* No other function records a call of these.
LEMMA OtherCalls ==
    ASSUME Next
    PROVE  SetLine \/ SetCircle \/ FillCircle \/ call'.op \notin Figures
<1>1. CASE InitHandle \/ RemoveHandle \/ DeleteHandle
  BY <1>1 DEF InitHandle, RemoveHandle, DeleteHandle, Calling, Figures
<1>2. CASE EnableDisplay \/ DisableDisplay \/ SetContrast \/ HardwareScroll
  BY <1>2 DEF EnableDisplay, DisableDisplay, SetContrast, HardwareScroll, Command, Calling, Figures
<1>3. CASE GetPages \/ SetPages
  BY <1>3 DEF GetPages, SetPages, Cheap, Calling, Figures
<1>4. CASE SetPixel
  <2>1. PICK p \in Points, inv \in BOOLEAN :
          \/ Draw([op |-> "pixel", x |-> p[1], y |-> p[2], invert |-> inv, show |-> FALSE], {p})
          \/ Costly([op |-> "pixel", x |-> p[1], y |-> p[2], invert |-> inv, show |-> FALSE])
    BY <1>4 DEF SetPixel
  <2> QED
    BY <2>1, CallIs DEF Figures
<1>5. CASE SetRectangle
  <2>1. PICK p \in Points, w, h \in Sizes, inv, show \in BOOLEAN :
          LET c == [op |-> "rectangle", x |-> p[1], y |-> p[2], w |-> w, h |-> h,
                    invert |-> inv, show |-> show]
          IN  IF p \in Panel THEN Draw(c, Rectangle(p[1], p[2], w, h)) ELSE Costly(c) /\ Refuse
    BY <1>5 DEF SetRectangle
  <2>2. call' = [op |-> "rectangle", x |-> p[1], y |-> p[2], w |-> w, h |-> h,
                 invert |-> inv, show |-> show]
    BY <2>1, CallIs
  <2> QED
    BY <2>2 DEF Figures
<1>6. CASE FillRectangle
  <2>1. PICK p \in Points, w, h \in Sizes, inv \in BOOLEAN :
          LET c == [op |-> "filled_rectangle", x |-> p[1], y |-> p[2], w |-> w, h |-> h,
                    invert |-> inv, show |-> TRUE]
          IN  IF p \in Panel THEN Draw(c, FilledRectangle(p[1], p[2], w, h)) ELSE Costly(c) /\ Refuse
    BY <1>6 DEF FillRectangle
  <2>2. call' = [op |-> "filled_rectangle", x |-> p[1], y |-> p[2], w |-> w, h |-> h,
                 invert |-> inv, show |-> TRUE]
    BY <2>1, CallIs
  <2> QED
    BY <2>2 DEF Figures
<1>7. CASE SetBitmap
  <2>1. PICK p \in Points, bits \in Bitmaps, inv, show \in BOOLEAN :
          Draw([op |-> "bitmap", x |-> p[1], y |-> p[2], bits |-> bits, invert |-> inv, show |-> show],
               Bitmap(p[1], p[2], bits))
    BY <1>7 DEF SetBitmap
  <2>2. call' = [op |-> "bitmap", x |-> p[1], y |-> p[2], bits |-> bits, invert |-> inv,
                 show |-> show]
    BY <2>1, CallIs
  <2> QED
    BY <2>2 DEF Figures
<1>8. CASE DisplayPages \/ ClearDisplay \/ Fadeout
  <2>1. CASE DisplayPages
    BY <2>1, CallIs DEF DisplayPages, Figures
  <2>2. CASE Fadeout
    BY <2>2, CallIs DEF Fadeout, Figures
  <2>3. CASE ClearDisplay
    <3>1. PICK inv \in BOOLEAN : Cheap([op |-> "clear", invert |-> inv])
      BY <2>3 DEF ClearDisplay
    <3> QED
      BY <3>1, CallIs DEF Figures
  <2> QED
    BY <1>8, <2>1, <2>2, <2>3
<1>9. CASE WrapAround
  <2>1. PICK dir \in {"right", "left", "up", "down"}, range \in Ranges, show \in BOOLEAN :
          Cheap([op |-> "wrap_around", dir |-> dir, start |-> range[1], end |-> range[2],
                 show |-> show])
    BY <1>9 DEF WrapAround
  <2> QED
    BY <2>1, CallIs DEF Figures
<1>10. CASE DisplayText
  <2>1. PICK p \in 0 .. Pages, text \in Texts, k \in 1 .. 3, inv \in BOOLEAN :
          Costly([op |-> "text", page |-> p, text |-> text, size |-> k, invert |-> inv])
    BY <1>10 DEF DisplayText
  <2> QED
    BY <2>1, CallIs DEF Figures
<1>11. CASE SetSoftwareScroll
  <2>1. PICK start, end \in 0 .. Pages :
          Calling([op |-> "set_scroll", start |-> start, end |-> end], 1)
    BY <1>11 DEF SetSoftwareScroll
  <2> QED
    BY <2>1, CallIs DEF Figures
<1>12. CASE ClearSoftwareScroll
  BY <1>12, CallIs DEF ClearSoftwareScroll, Figures
<1>13. CASE ScrollText
  <2>1. PICK text \in Texts, inv \in BOOLEAN :
          Cheap([op |-> "scroll_text", page |-> 0, text |-> text, invert |-> inv])
    BY <1>13 DEF ScrollText
  <2> QED
    BY <2>1, CallIs DEF Figures
<1>14. CASE Banner
  <2>1. PICK p \in BoxPages, segment \in {0, 1}, text \in Texts, box \in 1 .. 2, inv \in BOOLEAN :
          Costly([op |-> "banner", page |-> p, segment |-> segment, text |-> text, box |-> box,
                  invert |-> inv])
    BY <1>14 DEF Banner
  <2> QED
    BY <2>1, CallIs DEF Figures
<1>15. CASE Ticker
  <2>1. PICK p \in BoxPages, text \in Texts, box \in 1 .. 2 :
          Costly([op |-> "ticker", page |-> p, segment |-> 1, text |-> text, box |-> box,
                  invert |-> FALSE])
    BY <1>15 DEF Ticker
  <2> QED
    BY <2>1, CallIs DEF Figures
<1>16. CASE DisplayBdfText
  <2>1. PICK p \in Points, text \in [1 .. 2 -> DOMAIN Font \cup {"unknown"}] :
          Draw([op |-> "bitmap", x |-> p[1], y |-> p[2], bits |-> Layout(text), invert |-> FALSE,
                show |-> TRUE], Bitmap(p[1], p[2], Layout(text)))
    BY <1>16 DEF DisplayBdfText
  <2>2. call' = [op |-> "bitmap", x |-> p[1], y |-> p[2], bits |-> Layout(text), invert |-> FALSE,
                 show |-> TRUE]
    BY <2>1, CallIs
  <2> QED
    BY <2>2 DEF Figures
<1>17. CASE DisplayBdfCode
  <2>1. PICK p \in Points, ch \in DOMAIN Font \cup {"unknown"} :
          Costly([op |-> "code", x |-> p[1], y |-> p[2], bits |-> Layout(<<ch>>),
                  known |-> ch \in DOMAIN Font])
    BY <1>17 DEF DisplayBdfCode
  <2> QED
    BY <2>1, CallIs DEF Figures
<1>18. CASE DisplayImage
  <2>1. PICK p \in 0 .. Pages, segment \in 0 .. Width, text \in Texts, glyph \in Glyph :
          Costly([op |-> "image", page |-> p, segment |-> segment, glyph |-> glyph])
    BY <1>18, GlyphOfText DEF DisplayImage
  <2> QED
    BY <2>1, CallIs DEF Figures
<1>19. CASE ClearDisplayPage
  <2>1. PICK p \in 0 .. Pages, inv \in BOOLEAN :
          Cheap([op |-> "clear_page", page |-> p, invert |-> inv])
    BY <1>19 DEF ClearDisplayPage
  <2> QED
    BY <2>1, CallIs DEF Figures
<1> QED
  BY <1>1, <1>2, <1>3, <1>4, <1>5, <1>6, <1>7, <1>8, <1>9,
     <1>10, <1>11, <1>12, <1>13, <1>14, <1>15, <1>16, <1>17, <1>18, <1>19
     DEF Next

\* Drawn on an empty buffer, the pixels of a shape on the panel are all
\* there is, whether or not they could be shown.
LEMMA FirstPicture ==
    ASSUME TypeOK, TypeOK', NEW c, c.invert = FALSE, c.show \in BOOLEAN, NEW pixels,
           Draw(c, pixels), fresh'
    PROVE  Picture' = OnPanel(pixels)
<1>1. page = Empty
  BY DEF Draw, Costly, Calling
<1>2. Picture = {}
  <2> SUFFICES ASSUME NEW q \in Panel
               PROVE  q[2] % Rows \notin Upright(page[q[2] \div Rows][q[1]])
    BY DEF Picture
  <2>1. q[2] \div Rows \in PageNo /\ q[1] \in Segment
    BY PixelOnPage DEF Canvas!PageAt
  <2>2. page[q[2] \div Rows][q[1]] = {}
    BY <1>1, <2>1 DEF Empty
  <2> QED
    BY <2>2 DEF Upright, Rotated
<1>3. Picture' = Canvas!Drawn(OnPanel(pixels), c.invert)
  <2>1. c.invert \in BOOLEAN
    OBVIOUS
  <2>2. IF c.show THEN Canvas!DrawAndShow(Canvas!Drawn(OnPanel(pixels), c.invert))
        ELSE Canvas!Draw(Canvas!Drawn(OnPanel(pixels), c.invert))
    BY ONLY TypeOK, TypeOK', <2>1, c.show \in BOOLEAN, Draw(c, pixels), DrawMaps
  <2> QED
    BY Zenon, <2>2 DEF Canvas!Draw, Canvas!DrawAndShow
<1> QED
  BY <1>2, <1>3 DEF Canvas!Drawn

LEMMA LineStraightens ==
    ASSUME TypeOK, TypeOK', SetLine
    PROVE  LineIsStraight' /\ CircleIsRound'
<1>1. PICK p, q \in Points, inv \in BOOLEAN :
        Draw([op |-> "line", x |-> p[1], y |-> p[2], w |-> q[1], h |-> q[2], invert |-> inv,
              show |-> FALSE], Line(p[1], p[2], q[1], q[2]))
  BY DEF SetLine
<1> DEFINE c == [op |-> "line", x |-> p[1], y |-> p[2], w |-> q[1], h |-> q[2], invert |-> inv,
                 show |-> FALSE]
           L == Line(p[1], p[2], q[1], q[2])
<1>2. p[1] \in Nat /\ p[2] \in Nat /\ q[1] \in Nat /\ q[2] \in Nat
  BY CallsAssumption
<1>3. /\ c.op = "line" /\ c.x = p[1] /\ c.y = p[2] /\ c.w = q[1] /\ c.h = q[2]
      /\ c.invert \in BOOLEAN /\ c.show \in BOOLEAN
  OBVIOUS
<1>4. Draw(c, L)
  BY <1>1
<1>5. /\ Straight(L, Clamped(p[1], Width), Clamped(p[2], Height),
                  Clamped(q[1], Width), Clamped(q[2], Height))
      /\ L \subseteq Panel
  BY <1>2, LineIsDrawn
<1>6. OnPanel(L) = L
  BY <1>5 DEF OnPanel
<1> HIDE DEF c, L
<1>7. call' = c
  BY <1>4, CallIs
<1>8. CircleIsRound'
  BY <1>3, <1>7 DEF CircleIsRound, FirstShape
<1>9. ASSUME fresh', c.invert = FALSE
      PROVE  Picture' = L
  BY <1>3, <1>4, <1>6, <1>9, FirstPicture
<1>10. FirstShape("line")' => fresh' /\ c.invert = FALSE
  BY <1>3, <1>7 DEF FirstShape
<1>11. fresh' /\ c.invert = FALSE =>
         Straight(Picture', Clamped(p[1], Width), Clamped(p[2], Height),
                  Clamped(q[1], Width), Clamped(q[2], Height))
  BY <1>5, <1>9
<1>12. LineIsStraight'
  BY <1>3, <1>7, <1>10, <1>11 DEF LineIsStraight, Straight, Clamped, Height
<1> QED
  BY <1>8, <1>12

LEMMA CircleRounds ==
    ASSUME TypeOK, TypeOK', SetCircle
    PROVE  LineIsStraight' /\ CircleIsRound'
<1>1. PICK p \in Points, r \in Radii, inv, show \in BOOLEAN :
        Draw([op |-> "circle", x |-> p[1], y |-> p[2], w |-> r, invert |-> inv, show |-> show],
             Circle(p[1], p[2], r))
  BY DEF SetCircle
<1> DEFINE c == [op |-> "circle", x |-> p[1], y |-> p[2], w |-> r, invert |-> inv, show |-> show]
           S == Circle(p[1], p[2], r)
           Nearest == {q \in Panel : OnRing(q[1] - p[1], q[2] - p[2], r)}
           Fits == r + Greatest(Width, Height) <= U8 /\ p[1] + r < U8 /\ p[2] + r < U8
<1>2. p[1] \in Nat /\ p[2] \in Nat /\ r \in Nat
  BY CallsAssumption
<1>3. /\ c.op = "circle" /\ c.x = p[1] /\ c.y = p[2] /\ c.w = r
      /\ c.invert \in BOOLEAN /\ c.show \in BOOLEAN
  OBVIOUS
<1>4. Draw(c, S)
  BY <1>1
<1>5. Fits => S = Nearest
  BY <1>2, CircleIsDrawn
<1>6. Fits => OnPanel(S) = Nearest
  BY <1>5 DEF OnPanel
<1> HIDE DEF c, S, Nearest, Fits
<1>7. call' = c
  BY <1>4, CallIs
<1>8. LineIsStraight'
  BY <1>3, <1>7 DEF LineIsStraight, FirstShape
<1>9. ASSUME fresh', c.invert = FALSE
      PROVE  Picture' = OnPanel(S)
  BY <1>3, <1>4, <1>9, FirstPicture
<1>10. FirstShape("circle")' => fresh' /\ c.invert = FALSE
  BY <1>3, <1>7 DEF FirstShape
<1>11. FirstShape("circle")' /\ Fits => Picture' = Nearest
  BY <1>6, <1>9, <1>10
<1>12. ~FirstShape("disc")'
  BY <1>3, <1>7 DEF FirstShape
<1>13. CircleIsRound'
  BY <1>3, <1>7, <1>11, <1>12 DEF CircleIsRound, Fits, Nearest, Panel, Height, OnRing
<1> QED
  BY <1>8, <1>13

LEMMA DiscRounds ==
    ASSUME TypeOK, TypeOK', FillCircle
    PROVE  LineIsStraight' /\ CircleIsRound'
<1>1. PICK p \in Points, r \in Radii, inv \in BOOLEAN :
        Draw([op |-> "disc", x |-> p[1], y |-> p[2], w |-> r, invert |-> inv, show |-> TRUE],
             Disc(p[1], p[2], r))
  BY DEF FillCircle
<1> DEFINE c == [op |-> "disc", x |-> p[1], y |-> p[2], w |-> r, invert |-> inv, show |-> TRUE]
           S == Disc(p[1], p[2], r)
           Nearest == {q \in Panel : \E dx \in Distance(q[1], p[1]) .. r : OnRing(dx, q[2] - p[2], r)}
           Fits == <<p[1], p[2]>> \in Panel /\ r <= Least(p[1], p[2])
<1>2. p[1] \in Nat /\ p[2] \in Nat /\ r \in Nat
  BY CallsAssumption
<1>3. /\ c.op = "disc" /\ c.x = p[1] /\ c.y = p[2] /\ c.w = r
      /\ c.invert \in BOOLEAN /\ c.show \in BOOLEAN
  OBVIOUS
<1>4. Draw(c, S)
  BY <1>1
<1>5. Fits => S = Nearest
  <2> SUFFICES ASSUME Fits PROVE S = Nearest
    OBVIOUS
  <2>1. p[1] \in 0 .. Width - 1 /\ p[2] \in 0 .. Height - 1
    BY DEF Panel
  <2>2. r <= p[1] /\ r <= p[2]
    BY <1>2 DEF Least
  <2> QED
    BY <1>2, <2>1, <2>2, DiscIsDrawn
<1>6. Fits => OnPanel(S) = Nearest
  BY <1>5 DEF OnPanel
<1> HIDE DEF c, S, Nearest, Fits
<1>7. call' = c
  BY <1>4, CallIs
<1>8. LineIsStraight'
  BY <1>3, <1>7 DEF LineIsStraight, FirstShape
<1>9. ASSUME fresh', c.invert = FALSE
      PROVE  Picture' = OnPanel(S)
  BY <1>3, <1>4, <1>9, FirstPicture
<1>10. FirstShape("disc")' => fresh' /\ c.invert = FALSE
  BY <1>3, <1>7 DEF FirstShape
<1>11. FirstShape("disc")' /\ Fits => Picture' = Nearest
  BY <1>6, <1>9, <1>10
<1>12. ~FirstShape("circle")'
  BY <1>3, <1>7 DEF FirstShape
<1>13. CircleIsRound'
  BY <1>3, <1>7, <1>11, <1>12 DEF CircleIsRound, Fits, Nearest, Panel, Height, OnRing
<1> QED
  BY <1>8, <1>13

LEMMA ShapesStep ==
    ASSUME TypeOK, TypeOK', LineIsStraight /\ CircleIsRound, [Next]_vars
    PROVE  LineIsStraight' /\ CircleIsRound'
<1>1. CASE Next
  <2>1. ASSUME call'.op \notin Figures
        PROVE  LineIsStraight' /\ CircleIsRound'
    BY <2>1 DEF Figures, LineIsStraight, CircleIsRound, FirstShape
  <2> QED
    BY <1>1, <2>1, OtherCalls, LineStraightens, CircleRounds, DiscRounds
<1>2. CASE UNCHANGED vars
  <2>1. Picture' = Picture
    BY <1>2 DEF vars, Picture, Upright, Rotated, Panel, Height
  <2> QED
    BY <1>2, <2>1 DEF vars, LineIsStraight, CircleIsRound, FirstShape
<1> QED
  BY <1>1, <1>2

LEMMA ShapesHold == Spec => [](LineIsStraight /\ CircleIsRound)
<1>1. Init => LineIsStraight /\ CircleIsRound
  BY DEF Init, LineIsStraight, CircleIsRound, FirstShape
<1>2. TypeOK /\ TypeOK' /\ LineIsStraight /\ CircleIsRound /\ [Next]_vars
        => LineIsStraight' /\ CircleIsRound'
  BY ShapesStep
<1> QED
  BY <1>1, <1>2, TypeCorrect, PTL DEF Spec

\* On every panel and wherever its ends are, a line that ssd1306_set_line
\* drew on an empty buffer joins them without a gap, one pixel thick, at most
\* half a pixel from the straight line: the error that its loop carries stays
\* within one step of the longer side.
THEOREM LinesAreStraight == Spec => []LineIsStraight
BY ShapesHold, PTL

\* A circle that ssd1306_set_circle drew on an empty buffer has the pixels
\* nearest to it, each of them and no others, for every centre and radius
\* that do not leave a uint8_t; a disc of ssd1306_display_filled_circle that
\* does not reach past the left or the upper edge has those inside too.
THEOREM CirclesAreRound == Spec => []CircleIsRound
BY ShapesHold, PTL
=============================================================================
