------------------------------ MODULE Geometry ------------------------------
(***************************************************************************)
(* One page on its way from a PNG or a raster page to the rows of the      *)
(* print head: the tape tables, the length and the margins the PNG filter  *)
(* gives the page, its preflight, PAPPL's placement, the page checks of    *)
(* r_startpage, the window each row is packed into and the rows that are   *)
(* sent.  Five integer conversions with rounding of their own meet here.   *)
(*                                                                         *)
(* Ink is a set of dots: <<across the tape, along the tape>>.              *)
(***************************************************************************)
EXTENDS Integers, FiniteSets, FiniteSetsExt

CONSTANTS
    Pngs,      \* sets of PNG jobs, see SubmitPng
    Rasters    \* sets of raster pages, see SubmitRaster

VARIABLES
    stage,     \* the next step of the page
    request,   \* the job's attributes and its document
    page,      \* the media and the header of the page's print options
    image,     \* the PNG's pixels, as the filter holds them
    raster,    \* the ink of the page the driver is handed
    sent       \* the rows transmitted, and their ink in head pins

vars == <<stage, request, page, image, raster, sent>>

-----------------------------------------------------------------------------
(* Lengths are in 1/100 mm, dots in 180 dpi.                               *)

RollMin == 500
RollMax == 30000
EndMargin == 14
HeadPins == 128
Omitted == -1

Dots(centimm)  == (centimm * 180) \div 2540
Centimm(dots)  == (dots * 2540 + 179) \div 180
Scaled(n, ppi) == (n * 180) \div ppi

TapePx == [mm \in {6, 9, 12, 18, 24, 36} |->
            CASE mm = 6 -> 32 [] mm = 9 -> 52 [] mm = 12 -> 76
              [] mm = 18 -> 120 [] mm = 24 -> 128 [] mm = 36 -> 192]

(* The tapes pt_tape_geometry has a geometry for.                          *)
Tapes == {mm \in DOMAIN TapePx : TapePx[mm] <= 128}

TapeGeometry(mm) ==
    LET px      == TapePx[mm]
        nominal == Dots(mm * 100)
        left    == (nominal - px) \div 2
        right   == left + px
        margin  == (mm * 100 - Centimm(px)) \div 2
    IN  [nominal |-> nominal, px |-> px, left |-> left, right |-> right,
         leftMargin  |-> Max({Centimm(left), margin}),
         rightMargin |-> Max({Centimm(nominal - right), margin})]

Geometries == [mm \in Tapes |-> TapeGeometry(mm)]

(* pt_page_width_matches *)
WidthMatches(o, mm) ==
    \/ o.width = Geometries[mm].nominal
    \/ /\ o.sizeWidth \in mm * 100 - 1 .. mm * 100 + 1
       /\ o.width = Dots(o.sizeWidth)
       /\ o.width >= Geometries[mm].right

Matching(o) == {mm \in Tapes : WidthMatches(o, mm)}

(* pt_resolve_page_margins: the first tape that matches owns the margins   *)
(* the job has not submitted.                                              *)
ResolveMargins(o) ==
    IF Matching(o) = {} THEN o
    ELSE LET g == Geometries[Min(Matching(o))]
         IN  [o EXCEPT !.left  = IF request.left = Omitted THEN g.leftMargin ELSE @,
                       !.right = IF request.right = Omitted THEN g.rightMargin ELSE @]

(* The area between the margins, as preflight, placement and r_startpage   *)
(* compute it.                                                             *)
Left(o) == Dots(o.left)
Span(o) == o.width - Dots(o.left + o.right)

-----------------------------------------------------------------------------
(* The print options PAPPL creates: what the job omits is that of the      *)
(* default media, here of some tape 100 mm long.                           *)

Given(value, other) == IF value = Omitted THEN other ELSE value

PrintOptions(r) ==
    LET size   == Given(r.sizeWidth, r.default * 100)
        length == Given(r.sizeLength, 10000)
    IN  [sizeWidth |-> size, sizeLength |-> length,
         width |-> Dots(size), height |-> Dots(length),
         left  |-> Given(r.left, Geometries[r.default].leftMargin),
         right |-> Given(r.right, Geometries[r.default].rightMargin)]

(* What a job may ask for: ink lies on its page, and a length, a margin or *)
(* a resolution is a number or left out.                                   *)
Optional == Nat \cup {Omitted}
Jobs(kind) ==
    {r \in [kind : {kind}, default : Tapes, sizeWidth : Optional,
            sizeLength : Optional, left : Optional, right : Optional,
            xppi : Nat, yppi : Nat, width : Nat, height : Nat,
            orientation : {"none", "portrait", "landscape",
                           "reverse-landscape", "reverse-portrait"},
            ink : SUBSET (Nat \X Nat), p710bt : BOOLEAN] :
        \A d \in r.ink : d[1] < r.width /\ d[2] < r.height}

ASSUME JobsAssumption ==
    /\ \A jobs \in Pngs : \A r \in jobs : r \in Jobs("png")
    /\ \A jobs \in Rasters : \A r \in jobs : r \in Jobs("raster")

NoRequest == [kind |-> "none"]
NoPage    == [height |-> 0]
NoImage   == [cross |-> 0, along |-> 0, ink |-> {}]
NoOutput  == [rows |-> 0, ink |-> {}, declared |-> <<>>, header |-> <<>>]

Init ==
    /\ stage = "idle"
    /\ request = NoRequest
    /\ page = NoPage
    /\ image = NoImage
    /\ raster = {}
    /\ sent = NoOutput

Reject == stage' = "rejected"

-----------------------------------------------------------------------------
(* The PNG filter.                                                         *)

(* A resolution the PNG does not name is 0.                                *)
Ppi(r) == IF r.xppi > 0 THEN r.xppi ELSE 180

(* pt_pin_orientation *)
Orientation(r) ==
    IF r.orientation # "none" THEN r.orientation
    ELSE IF r.width > r.height THEN "reverse-landscape" ELSE "portrait"
Landscape(r) == Orientation(r) \in {"landscape", "reverse-landscape"}
Reverse(r)   == Orientation(r) \in {"reverse-portrait", "reverse-landscape"}
Back(r)      == Orientation(r) \in {"landscape", "reverse-portrait"}

(* Deliberate bug: the length is rounded down.                             *)
LabelLength_Down(along, ppi) == Max({(along * 2540) \div ppi, RollMin})

(* pt_label_length, before its maximum is checked.                         *)
LabelLength(along, ppi) ==
    Max({(along * 2540 + ppi - 1) \div ppi, RollMin})

(* A job with a concrete length keeps it: pt_explicit_length.              *)
PageLength(r) ==
    IF r.sizeLength # Omitted THEN r.sizeLength
    ELSE LabelLength(IF Landscape(r) THEN r.width ELSE r.height, Ppi(r))

SubmitPng ==
    /\ stage = "idle"
    /\ \E jobs \in Pngs : \E r \in jobs : request' = r /\ page' = PrintOptions(r)
    /\ stage' = "length"
    /\ UNCHANGED <<image, raster, sent>>

(* The page with the image's length and the margins of its tape.           *)
LabelPage ==
    ResolveMargins([PrintOptions(request) EXCEPT
        !.sizeLength = PageLength(request),
        !.height = Dots(PageLength(request))])

(* The image as it lies on the tape.                                       *)
Upright ==
    [cross |-> IF Landscape(request) THEN request.height ELSE request.width,
     along |-> IF Landscape(request) THEN request.width ELSE request.height,
     ink   |-> {IF Landscape(request) THEN <<d[2], d[1]>> ELSE d : d \in request.ink}]

(* pt_filter_png up to the decoding.                                       *)
SetPageLength ==
    /\ stage = "length"
    /\ IF \/ request.xppi # request.yppi
          \/ request.sizeLength = Omitted /\ PageLength(request) > RollMax
       THEN Reject /\ UNCHANGED <<page, image>>
       ELSE page' = LabelPage /\ image' = Upright /\ stage' = "preflight"
    /\ UNCHANGED <<request, raster, sent>>

(* Deliberate bug: the window of a canvas turned around is not mirrored.   *)
FirstDot_SameWay(g) == g.left

(* Where the printable window of a full-width canvas starts.               *)
FirstDot(g) == IF Reverse(request) THEN g.nominal - g.right ELSE g.left

WindowFirst(g) == (FirstDot(g) * Ppi(request) + 179) \div 180
WindowLast(g)  == ((FirstDot(g) + g.px) * Ppi(request)) \div 180

(* pt_preflight_png at print-scaling none.  No job submits top or bottom   *)
(* margins here, and the default media has none.                           *)
ImageFits(i) ==
    /\ Scaled(i.along, Ppi(request)) \in 1 .. page.height
    /\ Scaled(i.cross, Ppi(request)) >= 1
Printable(i, g) ==
    /\ Scaled(i.cross, Ppi(request)) <= g.px
    /\ Scaled(i.cross, Ppi(request)) <= Span(page)
BlankMargins(i, g) ==
    /\ Scaled(i.cross, Ppi(request)) = g.nominal
    /\ WindowFirst(g) < WindowLast(g)
    /\ Scaled(WindowLast(g) - WindowFirst(g), Ppi(request)) <= Span(page)
    /\ \A d \in i.ink : d[1] \in WindowFirst(g) .. WindowLast(g) - 1
Compacted(i, g) ==
    [i EXCEPT !.cross = WindowLast(g) - WindowFirst(g),
              !.ink = {<<d[1] - WindowFirst(g), d[2]>> : d \in @}]

PageTape == (page.sizeWidth + 50) \div 100

Preflight ==
    /\ stage = "preflight"
    /\ LET g == Geometries[PageTape]
       IN  IF PageTape \notin Tapes \/ ~ImageFits(image)
           THEN Reject /\ UNCHANGED image
           ELSE IF Printable(image, g) THEN stage' = "place" /\ UNCHANGED image
           ELSE IF BlankMargins(image, g)
           THEN stage' = "place" /\ image' = Compacted(image, g)
           ELSE Reject /\ UNCHANGED image
    /\ UNCHANGED <<request, page, raster, sent>>

(* PAPPL's image filter turns the image, centres it between the margins    *)
(* and samples it: dot d of `size` shows pixel (d * pixels) / size.        *)
Samples(pixel, pixels, size) ==
    {d \in (pixel * size) \div pixels .. ((pixel + 1) * size) \div pixels :
        d < size /\ (d * pixels) \div size = pixel}
Turned(d, size, turn) == IF turn THEN size - 1 - d ELSE d

XSize == Scaled(image.cross, Ppi(request))
YSize == Scaled(image.along, Ppi(request))
Column(x) == Left(page) + (Span(page) - XSize) \div 2
                + Turned(x, XSize, Reverse(request))
Row(y)    == (page.height - YSize) \div 2 + Turned(y, YSize, Back(request))
Placed ==
    UNION {{<<Column(x), Row(y)>> : x \in Samples(d[1], image.cross, XSize),
                                    y \in Samples(d[2], image.along, YSize)} :
              d \in image.ink}

FilterImage ==
    /\ stage = "place"
    /\ raster' = Placed
    /\ stage' = "startpage"
    /\ UNCHANGED <<request, page, image, sent>>

-----------------------------------------------------------------------------
(* A raster page of a client.  The patched PAPPL checks its header against *)
(* what the job said and lets it replace the default page.                 *)

Contradicts(dots, size) ==
    dots * 2540 < size * 180 - 2540 \/ dots * 2540 > size * 180 + 2540
Rounded(dots) == (dots * 2 * 2540 + 180) \div 360

SubmitRaster ==
    /\ stage = "idle"
    /\ \E pages \in Rasters : \E r \in pages : request' = r /\ page' = PrintOptions(r)
    /\ stage' = "header"
    /\ UNCHANGED <<image, raster, sent>>

(* The page as its header has it, once the header is accepted.             *)
HeaderPage ==
    [PrintOptions(request) EXCEPT
        !.width  = request.width,
        !.height = request.height,
        !.sizeWidth  = Given(request.sizeWidth, Rounded(request.width)),
        !.sizeLength = Given(request.sizeLength, Rounded(request.height))]

CheckHeader ==
    /\ stage = "header"
    /\ IF \/ request.xppi # 180 \/ request.yppi # 180
          \/ request.sizeWidth # Omitted /\ Contradicts(request.width, page.sizeWidth)
          \/ request.sizeLength # Omitted /\ Contradicts(request.height, page.sizeLength)
       THEN Reject /\ UNCHANGED <<page, raster>>
       ELSE page' = HeaderPage /\ raster' = request.ink /\ stage' = "startpage"
    /\ UNCHANGED <<request, image, sent>>

-----------------------------------------------------------------------------
(* The driver.  The page waits in r_startpage until its tape is loaded     *)
(* (PrintRun); from there the tape is the one it matches.                  *)

LengthSupported(o) == o.height \in Dots(RollMin) .. Dots(RollMax)
PageFits(o) ==
    LET g == Geometries[Min(Matching(o))]
    IN  /\ LengthSupported(o)
        /\ Matching(o) # {}
        /\ Left(o) >= g.left
        /\ Span(o) > 0
        /\ Left(o) + Span(o) <= g.right

StartPage ==
    /\ stage = "startpage"
    /\ IF PageFits(ResolveMargins(page))
       THEN stage' = "rows" /\ page' = ResolveMargins(page)
       ELSE Reject /\ UNCHANGED page
    /\ UNCHANGED <<request, image, raster, sent>>

Tape == Geometries[Min(Matching(page))]

(* pt_pack_window: the head pin of each dot of the tape's window.          *)
PackWindow(dots) ==
    {<<(HeadPins - Tape.px) \div 2 + d[1] - Tape.left, d[2]>> :
        d \in {e \in dots : e[1] \in Tape.left .. Tape.right - 1}}

(* Deliberate bug: one row too few belongs to the trailing end.            *)
EndRow_OneShort(y) == y < EndMargin \/ y + EndMargin > page.height

(* A row a PT-P710BT replaces by feed.                                     *)
EndRow(y) == y < EndMargin \/ y + EndMargin >= page.height

InkAtEnds == request.p710bt /\ \E d \in PackWindow(raster) : EndRow(d[2])
Staged == IF request.p710bt
          THEN {<<d[1], d[2] - EndMargin>> : d \in PackWindow(raster)}
          ELSE PackWindow(raster)

(* All calls of r_writeline for the page.                                  *)
WriteRows ==
    /\ stage = "rows"
    /\ IF InkAtEnds THEN Reject /\ UNCHANGED sent
       ELSE stage' = "endpage" /\ sent' = [sent EXCEPT !.ink = Staged]
    /\ UNCHANGED <<request, page, image, raster>>

(* Numbers go to the printer low byte first; a row of a PT-P710BT is one   *)
(* literal PackBits run, a row of a PT-2730 plain.                         *)
Weight == <<1, 256, 65536, 16777216>>
Bytes(n, count) == [i \in 1 .. count |-> (n \div Weight[i]) % 256]
Byte(bytes, i) == IF i \in DOMAIN bytes THEN bytes[i] * Weight[i] ELSE 0
Number(bytes) == Byte(bytes, 1) + Byte(bytes, 2) + Byte(bytes, 3) + Byte(bytes, 4)
HeadBytes == HeadPins \div 8

RowHeader(packbits) ==
    IF packbits THEN [length |-> <<(HeadBytes + 1) % 256, 0>>,
                      run    |-> <<(HeadBytes - 1) % 256>>]
    ELSE [length |-> <<HeadBytes % 256, 0>>, run |-> <<>>]

(* What the printer takes a row to hold: a run byte counts itself and one  *)
(* byte more than it says.                                                 *)
RowLength(header) ==
    IF header.run = <<>> THEN Number(header.length)
    ELSE Min({Number(header.length) - 1, Number(header.run) + 1})

(* r_endpage transmits the staged rows; a PT-2730 has sent each already    *)
(* and declares neither rows nor margins.                                  *)
Feed == IF request.p710bt THEN EndMargin ELSE 0
Rows == page.height - 2 * Feed
Transmitted(ink) ==
    [rows |-> Rows, ink |-> {d \in ink : d[2] < Rows},
     declared |-> IF request.p710bt THEN <<Bytes(Rows, 4), Bytes(EndMargin, 2)>>
                  ELSE <<>>,
     header |-> RowHeader(request.p710bt)]

EndPage ==
    /\ stage = "endpage"
    /\ sent' = Transmitted(sent.ink)
    /\ stage' = "sent"
    /\ UNCHANGED <<request, page, image, raster>>

NextPage ==
    /\ stage \in {"sent", "rejected"}
    /\ stage' = "idle"
    /\ request' = NoRequest
    /\ page' = NoPage
    /\ image' = NoImage
    /\ raster' = {}
    /\ sent' = NoOutput

Next ==
    \/ SubmitPng \/ SetPageLength \/ Preflight \/ FilterImage
    \/ SubmitRaster \/ CheckHeader
    \/ StartPage \/ WriteRows \/ EndPage \/ NextPage

Spec == Init /\ [][Next]_vars

-----------------------------------------------------------------------------
(* Reference: what the job asked for, in exact fractions.                  *)

IsPng == request.kind = "png"
CrossOf(r) == IF Landscape(r) THEN r.height ELSE r.width
AlongOf(r) == IF Landscape(r) THEN r.width ELSE r.height
CrossAt(r, d) == IF Landscape(r) THEN d[2] ELSE d[1]
AlongAt(r, d) == IF Landscape(r) THEN d[1] ELSE d[2]

Advertised(size) == \E mm \in Tapes : size \in mm * 100 - 1 .. mm * 100 + 1
TapeOf(size) == Geometries[(size + 50) \div 100]

(* Twice the distance of a pixel from the middle of its image, in pixels,  *)
(* and of a pin from the middle of the head, in dots.                      *)
FromMiddle(at, size, turn) == (2 * at + 1 - size) * (IF turn THEN -1 ELSE 1)
PinFromMiddle(pin) == 2 * (pin - HeadPins \div 2) + 1

Near(a, b, tolerance) == a - b \in -tolerance .. tolerance

FitsAcross(r) ==
    LET g    == TapeOf(r.sizeWidth)
        room == g.px - (g.nominal - Dots(r.sizeWidth))
    IN  \/ CrossOf(r) * 180 \in Ppi(r) .. room * Ppi(r)
        \/ /\ Scaled(CrossOf(r), Ppi(r)) = g.nominal
           /\ Dots(r.sizeWidth) = g.nominal
           /\ LET first == IF Reverse(r) THEN g.nominal - g.right ELSE g.left
              IN  \A d \in r.ink :
                     /\ CrossAt(r, d) * 180 >= first * Ppi(r)
                     /\ (CrossAt(r, d) + 1) * 180 <= (first + g.px) * Ppi(r)

FittingPng(r) ==
    /\ r.xppi = r.yppi
    /\ Advertised(r.sizeWidth) /\ r.left = Omitted /\ r.right = Omitted
    /\ r.sizeLength = Omitted \/ r.sizeLength \in RollMin .. RollMax
    /\ AlongOf(r) * 180 >= Ppi(r)
    /\ AlongOf(r) * 2540 <= Given(r.sizeLength, RollMax) * Ppi(r)
    /\ FitsAcross(r)
    /\ r.p710bt => \A d \in r.ink :
          /\ AlongAt(r, d) * 180 >= (EndMargin + 1) * Ppi(r)
          /\ (AlongOf(r) - AlongAt(r, d) - 1) * 180 >= (EndMargin + 1) * Ppi(r)

FittingRaster(r) ==
    /\ r.xppi = 180 /\ r.yppi = 180
    /\ r.width = Dots(r.sizeWidth) /\ Advertised(r.sizeWidth)
    /\ r.sizeLength = Omitted \/ r.height = Dots(r.sizeLength)
    /\ r.height \in Dots(RollMin) .. Dots(RollMax)
    /\ r.left \in {Omitted, TapeOf(r.sizeWidth).leftMargin}
    /\ r.right \in {Omitted, TapeOf(r.sizeWidth).rightMargin}
    /\ r.p710bt => \A d \in r.ink : d[2] \in EndMargin .. r.height - EndMargin - 1

(* A page of an advertised size with the margins published for its tape is *)
(* never refused if its content fits: the tape table, the published        *)
(* margins, the filter's length and preflight and r_startpage's window     *)
(* round without losing a dot.                                             *)
FittingAccepted ==
    stage = "rejected" =>
        IF IsPng THEN ~FittingPng(request) ELSE ~FittingRaster(request)

(* An accepted PNG keeps all its ink inside the window the head prints and *)
(* inside submitted margins, and its place: every dot printed is that of   *)
(* some pixel, as far from the middle of the label as that is from the     *)
(* middle of the image, within half a pixel and one and a half dots along  *)
(* the tape and two across it, a pixel and two dots if a full-width canvas *)
(* was compacted; at 180 dpi a canvas is exact whichever way it is turned. *)
AlongLabel(row) == 2 * (row + Feed) + 1 - page.height
AcrossInPlace(r, printed, asked) ==
    LET canvas == Scaled(CrossOf(r), Ppi(r)) = Tape.nominal
    IN  /\ Near(printed * Ppi(r), asked * 180,
                4 * Ppi(r) + (IF canvas THEN 360 ELSE 180))
        /\ Ppi(r) = 180 /\ CrossOf(r) = Tape.nominal => printed - asked \in {0, 1}

InkInPlace ==
    stage = "sent" /\ IsPng =>
      LET r == request
      IN  /\ Cardinality(sent.ink) = Cardinality(raster)
          /\ \A d \in raster :
                /\ r.left # Omitted => (d[1] + 1) * 2540 >= r.left * 180
                /\ r.right # Omitted =>
                      (page.width - d[1]) * 2540 >= r.right * 180
          /\ \A s \in sent.ink : \E d \in r.ink :
                /\ Near(AlongLabel(s[2]) * Ppi(r),
                        FromMiddle(AlongAt(r, d), AlongOf(r), Back(r)) * 180,
                        3 * Ppi(r) + 180)
                /\ r.left = Omitted /\ r.right = Omitted =>
                      AcrossInPlace(r, PinFromMiddle(s[1]),
                          FromMiddle(CrossAt(r, d), CrossOf(r), Reverse(r)))

(* The rows sent and the feed at both ends add up to the page, which is as *)
(* long as the job said within a dot; some row is sent; the staging buffer *)
(* holds them all; the printer is told to expect just these rows and feed, *)
(* each row as wide as its head; and the rows with ink are those of the    *)
(* window on the page, as far from the start of the label.                 *)
RowsExact ==
    stage = "sent" =>
      LET r == request
      IN  /\ sent.rows >= 1 /\ sent.rows + 2 * Feed = page.height
          /\ sent.rows <= Dots(RollMax)
          /\ r.p710bt => Number(sent.declared[1]) = sent.rows
                         /\ Number(sent.declared[2]) = Feed
          /\ RowLength(sent.header) * 8 = HeadPins
          /\ r.sizeLength # Omitted =>
                Near(page.height * 2540, r.sizeLength * 180, 2540)
          /\ {d[2] + Feed : d \in sent.ink} =
                {d[2] : d \in {e \in raster : e[1] \in Tape.left .. Tape.right - 1}}

-----------------------------------------------------------------------------
(* Inductive strengthening (GeometryProofs): at every stage the variables  *)
(* are what the code makes of the job, and every check on the way holds of *)
(* it; a rejected job was not a fitting one.                               *)

Checked == {"rows", "endpage", "sent"}

RequestInv ==
    /\ stage \in {"idle", "length", "preflight", "place", "header", "startpage",
                  "rejected"} \cup Checked
    /\ stage # "idle" => request \in Jobs("png") \cup Jobs("raster")
    /\ stage \in {"length", "preflight", "place"} => request \in Jobs("png")
    /\ stage = "header" => request \in Jobs("raster")

PageInv ==
    /\ stage \in {"length", "header"} => page = PrintOptions(request)
    /\ stage \in {"preflight", "place"} => page = LabelPage
    /\ stage = "startpage" => page = IF IsPng THEN LabelPage ELSE HeaderPage
    /\ stage \in Checked =>
          /\ page = IF IsPng THEN LabelPage ELSE ResolveMargins(HeaderPage)
          /\ PageFits(page)

Preflighted ==
    /\ PageTape \in Tapes /\ ImageFits(Upright)
    /\ \/ Printable(Upright, Geometries[PageTape]) /\ image = Upright
       \/ /\ BlankMargins(Upright, Geometries[PageTape])
          /\ image = Compacted(Upright, Geometries[PageTape])

ImageInv ==
    /\ stage = "preflight" => image = Upright
    /\ IsPng /\ stage \in Checked \cup {"place", "startpage"} => Preflighted

HeaderInv ==
    ~IsPng /\ stage \in Checked \cup {"startpage"} =>
        request.sizeLength = Omitted \/ ~Contradicts(request.height, request.sizeLength)

OutputInv ==
    /\ stage \in Checked \cup {"startpage"} =>
          raster = IF IsPng THEN Placed ELSE request.ink
    /\ stage \notin {"endpage", "sent", "rejected"} => sent = NoOutput
    /\ stage \in {"endpage", "sent"} => ~InkAtEnds
    /\ stage = "endpage" => sent = [NoOutput EXCEPT !.ink = Staged]
    /\ stage = "sent" => sent = Transmitted(Staged)

IInv ==
    /\ RequestInv /\ PageInv /\ ImageInv /\ HeaderInv /\ OutputInv
    /\ FittingAccepted
=============================================================================
