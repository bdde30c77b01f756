--------------------------- MODULE GeometryProofs ---------------------------
(* Proofs about Geometry for any job: every resolution, length, ink, margin  *)
(* and orientation.                                                        *)
EXTENDS Geometry, FiniteSetTheorems, TLAPS

LEMMA Quotient ==
    ASSUME NEW a \in Nat, NEW b \in Nat \ {0}
    PROVE  /\ a \div b \in Nat
           /\ b * (a \div b) <= a
           /\ a < b * (a \div b) + b
  OBVIOUS

LEMMA QuotientOf ==
    ASSUME NEW a \in Nat, NEW b \in Nat \ {0}, NEW q \in Int,
           b * q <= a, a < b * q + b
    PROVE  a \div b = q
  OBVIOUS

LEMMA Cancel ==
    ASSUME NEW a \in Int, NEW b \in Int, NEW c \in Nat \ {0}, c * a < c * b
    PROVE  a < b
  OBVIOUS

LEMMA Mult ==
    ASSUME NEW a \in Int, NEW b \in Int, NEW c \in Nat, a <= b
    PROVE  c * a <= c * b
  OBVIOUS

LEMMA DotsOf ==
    ASSUME NEW a \in Nat
    PROVE  /\ Dots(a) \in Nat
           /\ 2540 * Dots(a) <= 180 * a
           /\ 180 * a < 2540 * Dots(a) + 2540
  BY DEF Dots

LEMMA Sampling ==
    ASSUME NEW A \in Nat \ {0}, NEW P \in Nat \ {0}, NEW ys \in Nat \ {0},
           P * ys <= A * 180, A * 180 < P * ys + P,
           NEW at \in Nat, at < A, NEW y \in Nat, y < ys,
           at * ys <= y * A, y * A < at * ys + ys
    PROVE  /\ (2 * y + 1 - ys) * P - (2 * at + 1 - A) * 180 > -180
           /\ (2 * y + 1 - ys) * P - (2 * at + 1 - A) * 180 < 180 + 2 * P
  OBVIOUS

(* The maximum of two numbers, as CHOOSE defines it.                       *)
LEMMA MaxOfTwo ==
    ASSUME NEW a \in Int, NEW b \in Int
    PROVE  Max({a, b}) = IF a >= b THEN a ELSE b
<1> DEFINE m == IF a >= b THEN a ELSE b
<1>1. m \in {a, b} /\ \A y \in {a, b} : m >= y
  OBVIOUS
<1>2. ASSUME NEW x \in {a, b}, \A y \in {a, b} : x >= y PROVE x = m
  BY <1>2
<1> QED
  BY <1>1, <1>2 DEF Max

LEMMA MinOfOne ==
    ASSUME NEW a \in Int
    PROVE  Min({a}) = a
  BY DEF Min

LEMMA TheTapes == Tapes = {6, 9, 12, 18, 24}
<1>1. DOMAIN TapePx = {6, 9, 12, 18, 24, 36}
  BY DEF TapePx
<1>2. \A mm \in {6, 9, 12, 18, 24, 36} : TapePx[mm] <= 128 <=> mm # 36
  BY DEF TapePx
<1> QED
  BY <1>1, <1>2 DEF Tapes

LEMMA GeometryOf ==
    ASSUME NEW mm, NEW px, TapePx[mm] = px,
           NEW nominal, Dots(mm * 100) = nominal,
           NEW left, (nominal - px) \div 2 = left,
           NEW right, left + px = right,
           NEW leftMargin,
           Max({Centimm(left), (mm * 100 - Centimm(px)) \div 2}) = leftMargin,
           NEW rightMargin,
           Max({Centimm(nominal - right), (mm * 100 - Centimm(px)) \div 2}) = rightMargin
    PROVE  TapeGeometry(mm) =
             [nominal |-> nominal, px |-> px, left |-> left, right |-> right,
              leftMargin |-> leftMargin, rightMargin |-> rightMargin]
  BY Zenon DEF TapeGeometry

LEMMA Tape6 ==
    Geometries[6] = [nominal |-> 42, px |-> 32, left |-> 5, right |-> 37,
                     leftMargin |-> 74, rightMargin |-> 74]
<1>1. TapePx[6] = 32
  BY DEF TapePx
<1>2. /\ Dots(6 * 100) = 42 /\ (42 - 32) \div 2 = 5 /\ 5 + 32 = 37
      /\ (6 * 100 - Centimm(32)) \div 2 = 74
      /\ Centimm(5) = 71 /\ Centimm(42 - 37) = 71
  BY DEF Dots, Centimm
<1>3. /\ Max({71, 74}) = 74 /\ Max({71, 74}) = 74
  BY MaxOfTwo
<1>5. /\ Max({Centimm(5), (6 * 100 - Centimm(32)) \div 2}) = 74
      /\ Max({Centimm(42 - 37), (6 * 100 - Centimm(32)) \div 2}) = 74
  BY <1>2, <1>3
<1>4. TapeGeometry(6) = [nominal |-> 42, px |-> 32, left |-> 5, right |-> 37,
                          leftMargin |-> 74, rightMargin |-> 74]
  BY <1>1, <1>2, <1>5, GeometryOf
<1> QED
  BY <1>4, TheTapes DEF Geometries

LEMMA Tape9 ==
    Geometries[9] = [nominal |-> 63, px |-> 52, left |-> 5, right |-> 57,
                     leftMargin |-> 83, rightMargin |-> 85]
<1>1. TapePx[9] = 52
  BY DEF TapePx
<1>2. /\ Dots(9 * 100) = 63 /\ (63 - 52) \div 2 = 5 /\ 5 + 52 = 57
      /\ (9 * 100 - Centimm(52)) \div 2 = 83
      /\ Centimm(5) = 71 /\ Centimm(63 - 57) = 85
  BY DEF Dots, Centimm
<1>3. /\ Max({71, 83}) = 83 /\ Max({85, 83}) = 85
  BY MaxOfTwo
<1>5. /\ Max({Centimm(5), (9 * 100 - Centimm(52)) \div 2}) = 83
      /\ Max({Centimm(63 - 57), (9 * 100 - Centimm(52)) \div 2}) = 85
  BY <1>2, <1>3
<1>4. TapeGeometry(9) = [nominal |-> 63, px |-> 52, left |-> 5, right |-> 57,
                          leftMargin |-> 83, rightMargin |-> 85]
  BY <1>1, <1>2, <1>5, GeometryOf
<1> QED
  BY <1>4, TheTapes DEF Geometries

LEMMA Tape12 ==
    Geometries[12] = [nominal |-> 85, px |-> 76, left |-> 4, right |-> 80,
                     leftMargin |-> 63, rightMargin |-> 71]
<1>1. TapePx[12] = 76
  BY DEF TapePx
<1>2. /\ Dots(12 * 100) = 85 /\ (85 - 76) \div 2 = 4 /\ 4 + 76 = 80
      /\ (12 * 100 - Centimm(76)) \div 2 = 63
      /\ Centimm(4) = 57 /\ Centimm(85 - 80) = 71
  BY DEF Dots, Centimm
<1>3. /\ Max({57, 63}) = 63 /\ Max({71, 63}) = 71
  BY MaxOfTwo
<1>5. /\ Max({Centimm(4), (12 * 100 - Centimm(76)) \div 2}) = 63
      /\ Max({Centimm(85 - 80), (12 * 100 - Centimm(76)) \div 2}) = 71
  BY <1>2, <1>3
<1>4. TapeGeometry(12) = [nominal |-> 85, px |-> 76, left |-> 4, right |-> 80,
                          leftMargin |-> 63, rightMargin |-> 71]
  BY <1>1, <1>2, <1>5, GeometryOf
<1> QED
  BY <1>4, TheTapes DEF Geometries

LEMMA Tape18 ==
    Geometries[18] = [nominal |-> 127, px |-> 120, left |-> 3, right |-> 123,
                     leftMargin |-> 53, rightMargin |-> 57]
<1>1. TapePx[18] = 120
  BY DEF TapePx
<1>2. /\ Dots(18 * 100) = 127 /\ (127 - 120) \div 2 = 3 /\ 3 + 120 = 123
      /\ (18 * 100 - Centimm(120)) \div 2 = 53
      /\ Centimm(3) = 43 /\ Centimm(127 - 123) = 57
  BY DEF Dots, Centimm
<1>3. /\ Max({43, 53}) = 53 /\ Max({57, 53}) = 57
  BY MaxOfTwo
<1>5. /\ Max({Centimm(3), (18 * 100 - Centimm(120)) \div 2}) = 53
      /\ Max({Centimm(127 - 123), (18 * 100 - Centimm(120)) \div 2}) = 57
  BY <1>2, <1>3
<1>4. TapeGeometry(18) = [nominal |-> 127, px |-> 120, left |-> 3, right |-> 123,
                          leftMargin |-> 53, rightMargin |-> 57]
  BY <1>1, <1>2, <1>5, GeometryOf
<1> QED
  BY <1>4, TheTapes DEF Geometries

LEMMA Tape24 ==
    Geometries[24] = [nominal |-> 170, px |-> 128, left |-> 21, right |-> 149,
                     leftMargin |-> 297, rightMargin |-> 297]
<1>1. TapePx[24] = 128
  BY DEF TapePx
<1>2. /\ Dots(24 * 100) = 170 /\ (170 - 128) \div 2 = 21 /\ 21 + 128 = 149
      /\ (24 * 100 - Centimm(128)) \div 2 = 296
      /\ Centimm(21) = 297 /\ Centimm(170 - 149) = 297
  BY DEF Dots, Centimm
<1>3. /\ Max({297, 296}) = 297 /\ Max({297, 296}) = 297
  BY MaxOfTwo
<1>5. /\ Max({Centimm(21), (24 * 100 - Centimm(128)) \div 2}) = 297
      /\ Max({Centimm(170 - 149), (24 * 100 - Centimm(128)) \div 2}) = 297
  BY <1>2, <1>3
<1>4. TapeGeometry(24) = [nominal |-> 170, px |-> 128, left |-> 21, right |-> 149,
                          leftMargin |-> 297, rightMargin |-> 297]
  BY <1>1, <1>2, <1>5, GeometryOf
<1> QED
  BY <1>4, TheTapes DEF Geometries


LEMMA MinTape ==
    ASSUME NEW S \in SUBSET Tapes, S # {}
    PROVE  Min(S) \in S
<1>1. \A x \in S : x \in {6, 9, 12, 18, 24}
  BY TheTapes
<1>2. \E x \in S : \A y \in S : x =< y
  <2>1. CASE 6 \in S
    BY <1>1, <2>1
  <2>2. CASE 6 \notin S /\ 9 \in S
    BY <1>1, <2>2
  <2>3. CASE 6 \notin S /\ 9 \notin S /\ 12 \in S
    BY <1>1, <2>3
  <2>4. CASE 6 \notin S /\ 9 \notin S /\ 12 \notin S
    BY <1>1, <2>4
  <2> QED
    BY <2>1, <2>2, <2>3, <2>4
<1> QED
  BY <1>2 DEF Min

(* What every tape's geometry satisfies.                                   *)
LEMMA TapeFacts ==
    ASSUME NEW mm \in Tapes, NEW g, g = Geometries[mm]
    PROVE  /\ g.nominal \in Nat /\ 42 <= g.nominal /\ g.nominal <= 170
           /\ g.px \in Nat /\ 32 <= g.px /\ g.px <= 128
           /\ g.px % 2 = 0
           /\ g.left \in Nat /\ 3 <= g.left /\ g.left <= 21 /\ g.right = g.left + g.px
           /\ g.px < g.nominal /\ g.right < g.nominal
           /\ g.nominal - g.px - 2 * g.left \in {0, 1}
           /\ g.leftMargin \in Nat /\ 53 <= g.leftMargin /\ g.leftMargin <= 297
           /\ g.rightMargin \in Nat /\ 57 <= g.rightMargin /\ g.rightMargin <= 297
           /\ Dots(g.leftMargin) = g.left
           /\ g.nominal - Dots(g.leftMargin + g.rightMargin) = g.px
           /\ mm = 12 => g.nominal = 85 /\ g.right = 80
           /\ mm \in {6, 24} <=> g.nominal - g.px = 2 * g.left
<1> USE DEF Dots
<1>1. CASE mm = 6
  BY <1>1, Tape6
<1>2. CASE mm = 9
  BY <1>2, Tape9
<1>3. CASE mm = 12
  BY <1>3, Tape12
<1>4. CASE mm = 18
  BY <1>4, Tape18
<1>5. CASE mm = 24
  BY <1>5, Tape24
<1> QED
  BY <1>1, <1>2, <1>3, <1>4, <1>5, TheTapes

(* A width cut from a size matches the size's own tape or none.            *)
LEMMA Matches ==
    ASSUME NEW o, o.sizeWidth \in Nat, o.width = Dots(o.sizeWidth),
           NEW mm \in Tapes, NEW g, g = Geometries[mm]
    PROVE  WidthMatches(o, mm) <=>
              /\ mm = (o.sizeWidth + 50) \div 100
              /\ o.width = g.nominal \/ (mm = 12 /\ o.sizeWidth = 1199)
<1> USE DEF WidthMatches, Dots
<1>1. CASE mm = 6
  BY <1>1, Tape6
<1>2. CASE mm = 9
  BY <1>2, Tape9
<1>3. CASE mm = 12
  BY <1>3, Tape12
<1>4. CASE mm = 18
  BY <1>4, Tape18
<1>5. CASE mm = 24
  BY <1>5, Tape24
<1> QED
  BY <1>1, <1>2, <1>3, <1>4, <1>5, TheTapes

LEMMA OneTape ==
    ASSUME NEW o, o.sizeWidth \in Nat, o.width = Dots(o.sizeWidth), Matching(o) # {},
           NEW mm, mm = (o.sizeWidth + 50) \div 100,
           NEW g, g = Geometries[mm]
    PROVE  /\ mm \in Tapes /\ Matching(o) = {mm} /\ Min(Matching(o)) = mm
           /\ o.width = g.nominal \/ (mm = 12 /\ o.width = 84)
<1>1. \A m \in Matching(o) :
         /\ m = mm /\ m \in Tapes
         /\ o.width = g.nominal \/ (mm = 12 /\ o.sizeWidth = 1199)
  BY Matches DEF Matching
<1>2. o.sizeWidth = 1199 => o.width = 84
  BY DEF Dots
<1>3. Matching(o) = {mm}
  BY <1>1
<1> QED
  BY <1>1, <1>2, <1>3, MinOfOne, TheTapes

(* Every advertised width belongs to its tape.                             *)
LEMMA AdvertisedTape ==
    ASSUME NEW s \in Nat, Advertised(s),
           NEW mm, mm = (s + 50) \div 100, NEW g, g = Geometries[mm]
    PROVE  /\ mm \in Tapes /\ TapeOf(s) = g
           /\ Dots(s) = g.nominal \/ (mm = 12 /\ s = 1199 /\ Dots(s) = 84)
<1>1. PICK m \in Tapes : s \in m * 100 - 1 .. m * 100 + 1
  BY DEF Advertised
<1>2. m = mm
  BY <1>1, TheTapes
<1> USE DEF TapeOf, Dots
<1>3. CASE mm = 6
  BY <1>1, <1>2, <1>3, Tape6
<1>4. CASE mm = 9
  BY <1>1, <1>2, <1>4, Tape9
<1>5. CASE mm = 12
  BY <1>1, <1>2, <1>5, Tape12
<1>6. CASE mm = 18
  BY <1>1, <1>2, <1>6, Tape18
<1>7. CASE mm = 24
  BY <1>1, <1>2, <1>7, Tape24
<1> QED
  BY <1>2, <1>3, <1>4, <1>5, <1>6, <1>7, TheTapes

LEMMA AdvertisedMatches ==
    ASSUME NEW o, o.sizeWidth \in Nat, o.width = Dots(o.sizeWidth),
           Advertised(o.sizeWidth)
    PROVE  Matching(o) # {}
<1> DEFINE mm == (o.sizeWidth + 50) \div 100
<1>1. /\ mm \in Tapes
      /\ \/ o.width = Geometries[mm].nominal
         \/ mm = 12 /\ o.sizeWidth = 1199
  BY AdvertisedTape
<1>2. WidthMatches(o, mm)
  BY <1>1, Matches
<1> QED
  BY <1>1, <1>2 DEF Matching

-----------------------------------------------------------------------------
(* The page of a job.                                                      *)

PageType == [sizeWidth : Nat, sizeLength : Nat, width : Nat, height : Nat,
             left : Nat, right : Nat]

LEMMA Requested ==
    ASSUME request \in Jobs("png") \cup Jobs("raster")
    PROVE  /\ request.default \in Tapes /\ request.sizeWidth \in Optional
           /\ request.sizeLength \in Optional
           /\ request.left \in Optional /\ request.right \in Optional
           /\ request.xppi \in Nat /\ request.yppi \in Nat
           /\ request.width \in Nat /\ request.height \in Nat
           /\ request.ink \in SUBSET (Nat \X Nat) /\ request.p710bt \in BOOLEAN
           /\ \A d \in request.ink : d[1] < request.width /\ d[2] < request.height
           /\ IsPng <=> request \in Jobs("png")
           /\ Ppi(request) \in Nat \ {0}
  BY DEF Jobs, IsPng, Ppi

LEMMA Submitted ==
    ASSUME request \in Jobs("png") \cup Jobs("raster")
    PROVE  /\ request.sizeWidth \in Optional /\ request.sizeLength \in Optional
           /\ request.left \in Optional /\ request.right \in Optional
  BY DEF Jobs

LEMMA OptionsType ==
    ASSUME request \in Jobs("png") \cup Jobs("raster"),
           NEW g, g = Geometries[request.default]
    PROVE  LET o == PrintOptions(request)
           IN  /\ o \in PageType /\ o.width = Dots(o.sizeWidth)
               /\ o.sizeWidth = Given(request.sizeWidth, request.default * 100)
               /\ o.sizeLength = Given(request.sizeLength, 10000)
               /\ o.height = Dots(o.sizeLength)
               /\ o.left = Given(request.left, g.leftMargin)
               /\ o.right = Given(request.right, g.rightMargin)
<1>0. /\ request.default \in Nat /\ g.leftMargin \in Nat /\ g.rightMargin \in Nat
      /\ request.sizeWidth \in Optional /\ request.sizeLength \in Optional
      /\ request.left \in Optional /\ request.right \in Optional
  <2>1. request.default \in Tapes
    BY Requested
  <2>2. request.default \in Nat
    BY <2>1, TheTapes
  <2>3. g.leftMargin \in Nat /\ g.rightMargin \in Nat
    BY <2>1, TapeFacts
  <2>4. /\ request.sizeWidth \in Optional /\ request.sizeLength \in Optional
        /\ request.left \in Optional /\ request.right \in Optional
    BY Submitted
  <2> QED
    BY <2>2, <2>3, <2>4, Zenon
<1>1. /\ Given(request.sizeWidth, request.default * 100) \in Nat
      /\ Given(request.sizeLength, 10000) \in Nat
      /\ Given(request.left, g.leftMargin) \in Nat
      /\ Given(request.right, g.rightMargin) \in Nat
  BY <1>0 DEF Given, Optional
<1> QED
  BY <1>1, DotsOf DEF PrintOptions, PageType

(* Margins are resolved once for all.                                      *)
LEMMA Resolved ==
    ASSUME NEW o \in PageType, NEW p, p = ResolveMargins(o)
    PROVE  /\ p \in PageType /\ Matching(p) = Matching(o)
           /\ p.width = o.width /\ p.height = o.height
           /\ p.sizeWidth = o.sizeWidth /\ p.sizeLength = o.sizeLength
           /\ request.left # Omitted => p.left = o.left
           /\ request.right # Omitted => p.right = o.right
           /\ Matching(o) # {} =>
                LET g == Geometries[Min(Matching(o))]
                IN  /\ request.left = Omitted => p.left = g.leftMargin
                    /\ request.right = Omitted => p.right = g.rightMargin
           /\ ResolveMargins(p) = p
<1> DEFINE g == Geometries[Min(Matching(o))]
<1>1. CASE Matching(o) = {}
  BY <1>1 DEF ResolveMargins
<1>2. CASE Matching(o) # {}
  <2>1. g.leftMargin \in Nat /\ g.rightMargin \in Nat
    <3>1. Min(Matching(o)) \in Tapes
      BY <1>2, MinTape DEF Matching
    <3> QED
      BY <3>1, TapeFacts
  <2>2. /\ p.width = o.width /\ p.height = o.height
        /\ p.sizeWidth = o.sizeWidth /\ p.sizeLength = o.sizeLength
        /\ p.left = IF request.left = Omitted THEN g.leftMargin ELSE o.left
        /\ p.right = IF request.right = Omitted THEN g.rightMargin ELSE o.right
        /\ p \in PageType
    BY <1>2, <2>1 DEF ResolveMargins, PageType
  <2>3. Matching(p) = Matching(o)
    BY <2>2 DEF Matching, WidthMatches
  <2>4. ResolveMargins(p) = [p EXCEPT !.left = p.left, !.right = p.right]
    BY <1>2, <2>2, <2>3 DEF ResolveMargins, PageType
  <2>5. ResolveMargins(p) = p
    BY <2>2, <2>4 DEF PageType
  <2> QED
    BY <1>2, <2>2, <2>3, <2>5
<1> QED
  BY <1>1, <1>2

LEMMA LengthOf ==
    ASSUME NEW along \in Nat, NEW ppi \in Nat \ {0}
    PROVE  /\ LabelLength(along, ppi) \in Nat
           /\ LabelLength(along, ppi) >= RollMin
           /\ along * 2540 <= LabelLength(along, ppi) * ppi
<1> DEFINE q == (along * 2540 + ppi - 1) \div ppi
<1>1. /\ q \in Nat /\ ppi * q <= along * 2540 + ppi - 1
      /\ along * 2540 + ppi - 1 < ppi * q + ppi
  BY Quotient
<1>2. LabelLength(along, ppi) = IF q >= 500 THEN q ELSE 500
  BY <1>1, MaxOfTwo DEF LabelLength, RollMin
<1>3. along * 2540 <= q * ppi
  BY <1>1
<1> QED
  BY <1>1, <1>2, <1>3 DEF RollMin

LEMMA LengthAtMost ==
    ASSUME NEW along \in Nat, NEW ppi \in Nat \ {0}, NEW n \in Nat,
           n >= RollMin, along * 2540 <= n * ppi
    PROVE  LabelLength(along, ppi) <= n
<1> DEFINE q == (along * 2540 + ppi - 1) \div ppi
<1>1. q \in Nat /\ ppi * q <= along * 2540 + ppi - 1
  BY Quotient
<1>2. LabelLength(along, ppi) = IF q >= 500 THEN q ELSE 500
  BY <1>1, MaxOfTwo DEF LabelLength, RollMin
<1>3. ppi * q < ppi * (n + 1)
  BY <1>1
<1>4. q <= n
  BY <1>1, <1>3, Cancel
<1> QED
  BY <1>2, <1>4 DEF RollMin

LEMMA LabelPageType ==
    ASSUME request \in Jobs("png")
    PROVE  /\ LabelPage \in PageType /\ LabelPage.width = Dots(LabelPage.sizeWidth)
           /\ LabelPage.sizeWidth = Given(request.sizeWidth, request.default * 100)
           /\ PageLength(request) \in Nat
           /\ LabelPage.height = Dots(PageLength(request))
           /\ request.left # Omitted => LabelPage.left = request.left
           /\ request.right # Omitted => LabelPage.right = request.right
           /\ Matching(LabelPage) # {} =>
                LET g == Geometries[Min(Matching(LabelPage))]
                IN  /\ request.left = Omitted => LabelPage.left = g.leftMargin
                    /\ request.right = Omitted => LabelPage.right = g.rightMargin
           /\ ResolveMargins(LabelPage) = LabelPage
<1> DEFINE o == [PrintOptions(request) EXCEPT
                   !.sizeLength = PageLength(request),
                   !.height = Dots(PageLength(request))]
<1>1. PageLength(request) \in Nat
  <2>1. LabelLength(IF Landscape(request) THEN request.width ELSE request.height,
                    Ppi(request)) \in Nat
    <3>1. (IF Landscape(request) THEN request.width ELSE request.height) \in Nat
      BY Requested
    <3>2. Ppi(request) \in Nat \ {0}
      BY Requested
    <3> QED
      BY <3>1, <3>2, LengthOf
  <2>2. request.sizeLength # Omitted => request.sizeLength \in Nat
    BY Requested DEF Optional
  <2> QED
    BY <2>1, <2>2 DEF PageLength
<1>4. /\ PrintOptions(request) \in PageType
      /\ PrintOptions(request).width = Dots(PrintOptions(request).sizeWidth)
      /\ PrintOptions(request).sizeWidth = Given(request.sizeWidth, request.default * 100)
      /\ request.left # Omitted => PrintOptions(request).left = request.left
      /\ request.right # Omitted => PrintOptions(request).right = request.right
  BY OptionsType DEF Given
<1>5. Dots(PageLength(request)) \in Nat
  BY <1>1, DotsOf
<1>2. /\ o \in PageType /\ o.width = Dots(o.sizeWidth)
      /\ o.sizeWidth = Given(request.sizeWidth, request.default * 100)
      /\ o.height = Dots(PageLength(request))
      /\ request.left # Omitted => o.left = request.left
      /\ request.right # Omitted => o.right = request.right
  BY <1>1, <1>4, <1>5 DEF PageType
<1>3. LabelPage = ResolveMargins(o)
  BY DEF LabelPage
<1> HIDE DEF o
<1> QED
  BY <1>1, <1>2, <1>3, Resolved

LEMMA HeaderPageType ==
    ASSUME request \in Jobs("raster")
    PROVE  /\ HeaderPage \in PageType
           /\ HeaderPage.width = request.width /\ HeaderPage.height = request.height
           /\ request.sizeWidth # Omitted => HeaderPage.sizeWidth = request.sizeWidth
           /\ request.left # Omitted => HeaderPage.left = request.left
           /\ request.right # Omitted => HeaderPage.right = request.right
<1>1. \A n \in Nat : Rounded(n) \in Nat
  BY DEF Rounded
<1>2. /\ Given(request.sizeWidth, Rounded(request.width)) \in Nat
      /\ Given(request.sizeLength, Rounded(request.height)) \in Nat
  BY <1>1, Requested DEF Given, Optional
<1>3. request.width \in Nat /\ request.height \in Nat
  BY Requested
<1>4. /\ PrintOptions(request) \in PageType
      /\ request.left # Omitted => PrintOptions(request).left = request.left
      /\ request.right # Omitted => PrintOptions(request).right = request.right
  BY OptionsType DEF Given
<1>5. request.sizeWidth # Omitted =>
         Given(request.sizeWidth, Rounded(request.width)) = request.sizeWidth
  BY DEF Given
<1> QED
  BY <1>2, <1>3, <1>4, <1>5 DEF HeaderPage, PageType

(* A page with the published margins of its advertised size: the window    *)
(* between them is the tape's.                                             *)
LEMMA PublishedWindow ==
    ASSUME NEW o \in PageType, o.width = Dots(o.sizeWidth), Advertised(o.sizeWidth),
           NEW g, g = TapeOf(o.sizeWidth),
           o.left = g.leftMargin, o.right = g.rightMargin
    PROVE  /\ (o.sizeWidth + 50) \div 100 \in Tapes
           /\ g = Geometries[(o.sizeWidth + 50) \div 100]
           /\ Left(o) = g.left
           /\ Span(o) = g.px - (g.nominal - Dots(o.sizeWidth))
           /\ g.nominal - Dots(o.sizeWidth) \in {0, 1}
           /\ LengthSupported(o) => PageFits(o)
<1> DEFINE mm == (o.sizeWidth + 50) \div 100
<1>1. o.sizeWidth \in Nat
  BY DEF PageType
<1>2. /\ mm \in Tapes /\ g = Geometries[mm]
      /\ Dots(o.sizeWidth) = g.nominal \/ (mm = 12 /\ Dots(o.sizeWidth) = 84)
  BY <1>1, AdvertisedTape
<1>3. Matching(o) # {}
  BY <1>1, AdvertisedMatches
<1>4. Min(Matching(o)) = mm
  BY <1>1, <1>3, OneTape
<1>5. /\ g.nominal \in Nat /\ 42 <= g.nominal /\ g.nominal <= 170
      /\ g.px \in Nat /\ 32 <= g.px /\ g.px <= 128
      /\ g.left \in Nat /\ 3 <= g.left /\ g.left <= 21
      /\ g.right = g.left + g.px /\ Dots(g.leftMargin) = g.left
      /\ g.nominal - Dots(g.leftMargin + g.rightMargin) = g.px
      /\ mm = 12 => g.nominal = 85
  BY <1>2, TapeFacts
<1>6. g.nominal - Dots(o.sizeWidth) \in {0, 1}
  BY <1>2, <1>5
<1>7. Dots(g.leftMargin + g.rightMargin) \in Int
  <2>1. g.leftMargin \in Nat /\ g.rightMargin \in Nat
    BY <1>2, TapeFacts
  <2>2. g.leftMargin + g.rightMargin \in Nat
    BY <2>1
  <2> QED
    BY <2>2, DotsOf
<1>8. Left(o) = g.left /\ Span(o) = g.px - (g.nominal - Dots(o.sizeWidth))
  <2>1. Left(o) = Dots(g.leftMargin)
    BY DEF Left
  <2>2. Span(o) = Dots(o.sizeWidth) - Dots(g.leftMargin + g.rightMargin)
    BY DEF Span
  <2>3. Dots(o.sizeWidth) \in Int
    BY <1>1, DotsOf
  <2> QED
    BY <2>1, <2>2, <2>3, <1>5, <1>7
<1>9. LengthSupported(o) => PageFits(o)
  <2>1. Geometries[Min(Matching(o))] = g
    BY <1>2, <1>4
  <2>2. Span(o) > 0 /\ Left(o) + Span(o) <= g.right /\ Left(o) >= g.left
    BY <1>5, <1>6, <1>8
  <2> QED
    BY <1>3, <2>1, <2>2 DEF PageFits
<1> QED
  BY <1>2, <1>6, <1>8, <1>9

LEMMA MoreDots ==
    ASSUME NEW a \in Nat, NEW b \in Nat, a <= b
    PROVE  Dots(a) <= Dots(b)
  BY DEF Dots

LEMMA FittingPage ==
    ASSUME request \in Jobs("png"), FittingPng(request),
           NEW g, g = TapeOf(request.sizeWidth)
    PROVE  /\ request.sizeWidth \in Nat /\ LabelPage.sizeWidth = request.sizeWidth
           /\ (request.sizeWidth + 50) \div 100 \in Tapes
           /\ g = Geometries[(request.sizeWidth + 50) \div 100]
           /\ PageLength(request) \in RollMin .. RollMax
           /\ AlongOf(request) * 2540 <= PageLength(request) * Ppi(request)
           /\ Span(LabelPage) = g.px - (g.nominal - Dots(request.sizeWidth))
           /\ g.nominal - Dots(request.sizeWidth) \in {0, 1}
           /\ PageFits(LabelPage)
<1>1. /\ request.sizeWidth \in Nat /\ LabelPage.sizeWidth = request.sizeWidth
      /\ Advertised(request.sizeWidth)
  <2>1. Advertised(request.sizeWidth) /\ request.sizeWidth \in Optional
    BY Requested DEF FittingPng
  <2>2. ~Advertised(Omitted)
    BY TheTapes DEF Advertised, Omitted
  <2>3. request.sizeWidth \in Nat
    BY <2>1, <2>2 DEF Optional
  <2> QED
    BY <2>1, <2>2, <2>3, LabelPageType DEF Given
<1>2. /\ LabelPage \in PageType /\ LabelPage.width = Dots(LabelPage.sizeWidth)
      /\ LabelPage.height = Dots(PageLength(request))
  BY LabelPageType
<1>3. LabelPage.left = g.leftMargin /\ LabelPage.right = g.rightMargin
  <2>1. Matching(LabelPage) # {}
    BY <1>1, <1>2, AdvertisedMatches
  <2>2. Min(Matching(LabelPage)) = (LabelPage.sizeWidth + 50) \div 100
    BY <1>1, <1>2, <2>1, OneTape
  <2>3. request.left = Omitted /\ request.right = Omitted
    BY DEF FittingPng
  <2> QED
    BY <1>1, <2>1, <2>2, <2>3, LabelPageType DEF TapeOf
<1>4. /\ PageLength(request) \in RollMin .. RollMax
      /\ AlongOf(request) * 2540 <= PageLength(request) * Ppi(request)
  <2>1. AlongOf(request) \in Nat /\ Ppi(request) \in Nat \ {0}
    BY Requested DEF AlongOf
  <2>2. CASE request.sizeLength = Omitted
    <3>1. PageLength(request) = LabelLength(AlongOf(request), Ppi(request))
      BY <2>2 DEF PageLength, AlongOf
    <3>2. AlongOf(request) * 2540 <= RollMax * Ppi(request)
      BY <2>2 DEF FittingPng, Given
    <3>3. RollMax \in Nat /\ RollMax >= RollMin /\ RollMin \in Nat
      BY DEF RollMin, RollMax
    <3>4. /\ LabelLength(AlongOf(request), Ppi(request)) \in Nat
          /\ LabelLength(AlongOf(request), Ppi(request)) >= RollMin
          /\ AlongOf(request) * 2540 <=
                LabelLength(AlongOf(request), Ppi(request)) * Ppi(request)
      BY <2>1, LengthOf
    <3>5. LabelLength(AlongOf(request), Ppi(request)) <= RollMax
      <4> DEFINE a == AlongOf(request)
                 k == Ppi(request)
                 m == RollMax
      <4>1. a \in Nat /\ k \in Nat \ {0} /\ m \in Nat /\ m >= RollMin
        BY <2>1, <3>3
      <4>2. a * 2540 <= m * k
        BY <3>2
      <4> HIDE DEF a, k, m
      <4>3. LabelLength(a, k) <= m
        BY <4>1, <4>2, LengthAtMost
      <4> QED
        BY <4>3 DEF a, k, m
    <3>6. LabelLength(AlongOf(request), Ppi(request)) \in RollMin .. RollMax
      BY <3>3, <3>4, <3>5
    <3> QED
      BY <3>1, <3>4, <3>6
  <2>3. CASE request.sizeLength # Omitted
    BY <2>1, <2>3 DEF PageLength, FittingPng, Given
  <2> QED
    BY <2>2, <2>3
<1>5. LengthSupported(LabelPage)
  <2>1. RollMin \in Nat /\ RollMax \in Nat /\ PageLength(request) \in Nat
    BY LabelPageType DEF RollMin, RollMax
  <2>2. /\ Dots(RollMin) \in Int /\ Dots(RollMax) \in Int
        /\ Dots(PageLength(request)) \in Int
    <3>1. \A n \in Nat : Dots(n) \in Int
      BY DotsOf
    <3> QED
      BY <2>1, <3>1
  <2>3. /\ Dots(RollMin) <= Dots(PageLength(request))
        /\ Dots(PageLength(request)) <= Dots(RollMax)
    BY <1>4, <2>1, MoreDots
  <2> QED
    BY <1>2, <2>2, <2>3 DEF LengthSupported
<1> QED
  BY <1>1, <1>2, <1>3, <1>4, <1>5, PublishedWindow

LEMMA FittingHeader ==
    ASSUME request \in Jobs("raster"), FittingRaster(request)
    PROVE  PageFits(ResolveMargins(HeaderPage))
<1> DEFINE o == ResolveMargins(HeaderPage)
           g == TapeOf(request.sizeWidth)
<1>1. request.sizeWidth \in Nat /\ Advertised(request.sizeWidth)
  <2>1. Advertised(request.sizeWidth) /\ request.sizeWidth \in Optional
    BY Requested DEF FittingRaster
  <2>2. ~Advertised(Omitted)
    BY TheTapes DEF Advertised, Omitted
  <2> QED
    BY <2>1, <2>2 DEF Optional
<1>2. /\ HeaderPage \in PageType /\ HeaderPage.sizeWidth = request.sizeWidth
      /\ HeaderPage.width = Dots(request.sizeWidth)
      /\ HeaderPage.height = request.height
  BY <1>1, HeaderPageType DEF FittingRaster, Omitted
<1>3. Matching(HeaderPage) # {}
  BY <1>1, <1>2, AdvertisedMatches
<1>4. Min(Matching(HeaderPage)) = (request.sizeWidth + 50) \div 100
  BY <1>1, <1>2, <1>3, OneTape
<1>5. /\ o \in PageType /\ o.sizeWidth = request.sizeWidth
      /\ o.width = Dots(o.sizeWidth) /\ o.height = request.height
  BY <1>2, Resolved
<1>6. o.left = g.leftMargin
  <2>1. CASE request.left = Omitted
    BY <1>2, <1>3, <1>4, <2>1, Resolved DEF TapeOf
  <2>2. CASE request.left # Omitted
    BY <1>2, <2>2, Resolved, HeaderPageType DEF FittingRaster
  <2> QED
    BY <2>1, <2>2
<1>7. o.right = g.rightMargin
  <2>1. CASE request.right = Omitted
    BY <1>2, <1>3, <1>4, <2>1, Resolved DEF TapeOf
  <2>2. CASE request.right # Omitted
    BY <1>2, <2>2, Resolved, HeaderPageType DEF FittingRaster
  <2> QED
    BY <2>1, <2>2
<1>8. LengthSupported(o)
  BY <1>5 DEF LengthSupported, FittingRaster
<1> HIDE DEF o, g
<1> QED
  BY <1>1, <1>5, <1>6, <1>7, <1>8, PublishedWindow DEF o, g

-----------------------------------------------------------------------------
(* The image on the tape.                                                  *)

LEMMA ScaledOf ==
    ASSUME NEW n \in Nat, NEW ppi \in Nat \ {0}
    PROVE  /\ Scaled(n, ppi) \in Nat
           /\ ppi * Scaled(n, ppi) <= n * 180
           /\ n * 180 < ppi * Scaled(n, ppi) + ppi
  BY Quotient DEF Scaled

(* Dots never outrun the length rounded up for them.                       *)
LEMMA LengthHolds ==
    ASSUME NEW along \in Nat, NEW ppi \in Nat \ {0}, NEW length \in Nat,
           along * 2540 <= length * ppi
    PROVE  Scaled(along, ppi) <= Dots(length)
<1> DEFINE s == Scaled(along, ppi)
           d == Dots(length)
<1>1. s \in Nat /\ ppi * s <= along * 180
  BY ScaledOf
<1>2. d \in Nat /\ 180 * length < 2540 * d + 2540
  BY DotsOf
<1> HIDE DEF s, d
<1>3. ppi * s * 2540 <= length * ppi * 180
  BY <1>1
<1>4. ppi * (180 * length) < ppi * (2540 * d + 2540)
  BY <1>2
<1>5. ppi * s < ppi * (d + 1)
  BY <1>1, <1>2, <1>3, <1>4
<1>6. s < d + 1
  BY <1>1, <1>2, <1>5, Cancel
<1> QED
  BY <1>1, <1>2, <1>6 DEF s, d

LEMMA SampleOf ==
    ASSUME NEW pixels \in Nat \ {0}, NEW size \in Nat, NEW pixel \in Nat,
           NEW d \in Samples(pixel, pixels, size)
    PROVE  /\ d \in Nat /\ d < size
           /\ pixel * size <= d * pixels /\ d * pixels < pixel * size + size
<1>1. (pixel * size) \div pixels \in Nat
  BY Quotient
<1>2. d \in Nat /\ d < size /\ (d * pixels) \div size = pixel
  BY <1>1 DEF Samples
<1> QED
  BY <1>2, Quotient

LEMMA UprightOf ==
    ASSUME request \in Jobs("png")
    PROVE  /\ Upright.cross = CrossOf(request) /\ Upright.along = AlongOf(request)
           /\ CrossOf(request) \in Nat /\ AlongOf(request) \in Nat
           /\ \A e \in Upright.ink : \E d \in request.ink :
                 e = <<CrossAt(request, d), AlongAt(request, d)>>
           /\ \A d \in request.ink :
                 /\ CrossAt(request, d) \in 0 .. CrossOf(request) - 1
                 /\ AlongAt(request, d) \in 0 .. AlongOf(request) - 1
  BY Requested DEF Upright, CrossOf, AlongOf, CrossAt, AlongAt

(* The window of a tape in a canvas, in whole pixels.                      *)
LEMMA WindowOf ==
    ASSUME request \in Jobs("png"), NEW mm \in Tapes, NEW g, g = Geometries[mm]
    PROVE  /\ FirstDot(g) \in Nat
           /\ WindowFirst(g) \in Nat /\ WindowLast(g) \in Nat
           /\ FirstDot(g) * Ppi(request) <= 180 * WindowFirst(g)
           /\ 180 * WindowFirst(g) <= FirstDot(g) * Ppi(request) + 179
           /\ 180 * WindowLast(g) <= (FirstDot(g) + g.px) * Ppi(request)
           /\ (FirstDot(g) + g.px) * Ppi(request) < 180 * WindowLast(g) + 180
<1> DEFINE P == Ppi(request)
           F == FirstDot(g)
<1>1. P \in Nat \ {0}
  BY Requested
<1>2. F \in Nat /\ g.px \in Nat
  <2>1. /\ g.nominal \in Nat /\ g.px \in Nat /\ g.left \in Nat
        /\ g.right = g.left + g.px /\ g.right < g.nominal
    BY TapeFacts
  <2> QED
    BY <2>1 DEF FirstDot
<1> HIDE DEF P, F
<1>3. F * P + 179 \in Nat /\ (F + g.px) * P \in Nat
  BY <1>1, <1>2
<1>4. /\ (F * P + 179) \div 180 \in Nat /\ ((F + g.px) * P) \div 180 \in Nat
      /\ 180 * ((F * P + 179) \div 180) <= F * P + 179
      /\ F * P + 179 < 180 * ((F * P + 179) \div 180) + 180
      /\ 180 * (((F + g.px) * P) \div 180) <= (F + g.px) * P
      /\ (F + g.px) * P < 180 * (((F + g.px) * P) \div 180) + 180
  BY <1>3, Quotient
<1>5. F * P \in Nat
  BY <1>1, <1>2
<1>6. F * P <= 180 * ((F * P + 179) \div 180)
  BY <1>4, <1>5
<1> QED
  BY <1>2, <1>4, <1>6 DEF P, F, WindowFirst, WindowLast

(* Half a number, and what halving it loses.                               *)
Half(n) == n \div 2
Odd(n)  == n - 2 * Half(n)

LEMMA Halved ==
    ASSUME NEW n \in Nat
    PROVE  /\ Half(n) \in Nat /\ Odd(n) \in {0, 1} /\ 2 * Half(n) = n - Odd(n)
           /\ n = 0 => Odd(n) = 0
  BY DEF Half, Odd

(* A dot of something centred in a room is inside it, and as far from its  *)
(* middle, but for the odd dot; turned or not.                             *)
LEMMA Centred ==
    ASSUME NEW room \in Int, NEW size \in Nat, size <= room,
           NEW d \in Nat, d < size, NEW h \in Nat, NEW e \in {0, 1},
           2 * h = room - size - e, NEW a \in Int, a = 2 * d + 1 - size
    PROVE  /\ h + d \in 0 .. room - 1 /\ h + (size - 1 - d) \in 0 .. room - 1
           /\ 2 * (h + d) + 1 - room = a - e
           /\ 2 * (h + (size - 1 - d)) + 1 - room = -a - e
  OBVIOUS

LEMMA Shifted ==
    ASSUME NEW a \in Int, NEW k \in Int, NEW P \in Nat, NEW e \in {0, 1},
           -180 < a * P - k * 180, a * P - k * 180 < 180 + 2 * P
    PROVE  /\ (-a - e) * P + k * 180 \in Int /\ (a - e) * P - k * 180 \in Int
           /\ -180 - 3 * P < (-a - e) * P + k * 180 /\ (-a - e) * P + k * 180 < 180
           /\ -180 - P < (a - e) * P - k * 180 /\ (a - e) * P - k * 180 < 180 + 2 * P
<1>1. (-a - e) * P = -(a * P) - e * P /\ (a - e) * P = a * P - e * P
  OBVIOUS
<1>2. e * P \in {0, P}
  OBVIOUS
<1> DEFINE m == a * P
           n == e * P
<1>3. m \in Int /\ n \in Int
  OBVIOUS
<1> HIDE DEF m, n
<1> QED
  BY <1>1, <1>2, <1>3 DEF m, n

(* Ink a dot beyond the end rows stays clear of them when sampled.         *)
LEMMA ClearOfStart ==
    ASSUME NEW A \in Nat \ {0}, NEW P \in Nat \ {0}, NEW size \in Nat,
           A * 180 < P * size + P, NEW at \in Nat, at < A, NEW d \in Nat,
           at * size <= d * A, at * 180 >= 15 * P
    PROVE  d >= 14
<1> SUFFICES ASSUME d <= 13 PROVE FALSE
  OBVIOUS
<1>1. d * A <= 13 * A
  OBVIOUS
<1>2. at * size <= 13 * A
  BY <1>1
<1>3. at * (P * size) <= 13 * A * P
  BY <1>2
<1>4. at * (A * 180) <= at * (P * size + P)
  OBVIOUS
<1>5. at * P <= A * P
  OBVIOUS
<1>6. A * (at * 180) >= A * (15 * P)
  OBVIOUS
<1>7. A * P > 0
  OBVIOUS
<1> QED
  BY <1>3, <1>4, <1>5, <1>6, <1>7

LEMMA ClearOfEnd ==
    ASSUME NEW A \in Nat \ {0}, NEW P \in Nat \ {0}, NEW size \in Nat,
           A * 180 < P * size + P, NEW at \in Nat, at < A, NEW d \in Nat,
           d < size, d * A < at * size + size, (A - at - 1) * 180 >= 15 * P
    PROVE  size - 1 - d >= 14
<1> DEFINE b == A - at - 1
           z == size - 1 - d
<1> SUFFICES ASSUME z <= 13 PROVE FALSE
  OBVIOUS
<1>1. b \in Nat /\ b < A /\ z \in Nat /\ b * 180 >= 15 * P
  OBVIOUS
<1>2. (z + 1) * A > b * size
  OBVIOUS
<1> HIDE DEF b, z
<1>3. (z + 1) * A <= 14 * A
  BY <1>1
<1>4. b * size < 14 * A
  BY <1>1, <1>2, <1>3
<1>5. b * size * P <= 14 * A * P
  BY <1>1, <1>4
<1>6. b * (A * 180) <= b * (P * size + P)
  BY <1>1
<1>7. A * (b * 180) >= A * (15 * P)
  BY <1>1
<1>8. b * P < A * P
  BY <1>1
<1> QED
  BY <1>1, <1>5, <1>6, <1>7, <1>8

(* The middle of the window against the middle of a full-width canvas.     *)
LEMMA CanvasMiddle ==
    ASSUME NEW P \in Nat \ {0}, NEW nominal \in Nat, NEW px \in Nat, NEW f \in Nat,
           NEW c \in Int, 2 * f + px - nominal = c,
           NEW W \in Nat, P * nominal <= W * 180, W * 180 < P * nominal + P,
           NEW first \in Nat, NEW last \in Nat,
           f * P <= 180 * first, 180 * first <= f * P + 179,
           180 * last <= (f + px) * P, (f + px) * P < 180 * last + 180
    PROVE  /\ c * P - P - 180 < (first + last - W) * 180
           /\ (first + last - W) * 180 < c * P + 180
<1>1. f * P + (f + px) * P - P * nominal = c * P
  OBVIOUS
<1>2. (first + last - W) * 180 = 180 * first + 180 * last - W * 180
  OBVIOUS
<1> QED
  BY <1>1, <1>2

-----------------------------------------------------------------------------
(* From the PNG that has passed preflight to the ink on its page.          *)

Placing ==
    /\ RequestInv /\ PageInv /\ ImageInv
    /\ request \in Jobs("png") /\ stage \in Checked \cup {"place", "startpage"}

LEMMA ImageOf ==
    ASSUME Placing
    PROVE  /\ page = LabelPage /\ page \in PageType
           /\ page.width = Dots(page.sizeWidth)
           /\ image.cross \in Nat \ {0} /\ image.along \in Nat \ {0}
           /\ image.along = AlongOf(request)
           /\ Ppi(request) \in Nat \ {0}
           /\ XSize \in Nat /\ XSize <= Span(page)
           /\ Ppi(request) * XSize <= image.cross * 180
           /\ image.cross * 180 < Ppi(request) * XSize + Ppi(request)
           /\ YSize \in Nat /\ YSize <= page.height
           /\ Ppi(request) * YSize <= image.along * 180
           /\ image.along * 180 < Ppi(request) * YSize + Ppi(request)
           /\ Left(page) \in Nat /\ Span(page) \in Int /\ page.height \in Nat
<1> DEFINE g == Geometries[PageTape]
           P == Ppi(request)
<1>1. IsPng /\ P \in Nat \ {0}
  BY Requested DEF Placing
<1>2. page = LabelPage
  BY <1>1 DEF Placing, PageInv, Checked
<1>3. page \in PageType /\ page.width = Dots(page.sizeWidth)
  BY <1>2, LabelPageType DEF Placing
<1>4. /\ PageTape \in Tapes /\ ImageFits(Upright)
      /\ \/ Printable(Upright, g) /\ image = Upright
         \/ BlankMargins(Upright, g) /\ image = Compacted(Upright, g)
  BY <1>1 DEF Placing, ImageInv, Preflighted
<1>5. /\ Upright.cross \in Nat /\ Upright.along \in Nat
      /\ Upright.along = AlongOf(request)
  BY UprightOf DEF Placing
<1>6. /\ Scaled(Upright.along, P) \in 1 .. page.height
      /\ Scaled(Upright.cross, P) >= 1
  BY <1>4 DEF ImageFits
<1>7. image.along = Upright.along
  BY <1>4 DEF Compacted, Upright
<1>8. \A n \in Nat : Scaled(n, P) >= 1 => n # 0
  <2> HIDE DEF P
  <2>1. Scaled(0, P) = 0
    <3> DEFINE s == Scaled(0, P)
    <3>1. s \in Nat /\ P * s <= 0 * 180
      BY <1>1, ScaledOf
    <3> HIDE DEF s
    <3>2. s = 0
      BY <1>1, <3>1
    <3> QED
      BY <3>2 DEF s
  <2> QED
    BY <2>1
<1>9. image.along \in Nat \ {0} /\ image.along = AlongOf(request) /\ YSize <= page.height
  BY <1>3, <1>5, <1>6, <1>7, <1>8 DEF YSize, PageType
<1>10. image.cross \in Nat \ {0} /\ XSize <= Span(page)
  <2>1. CASE Printable(Upright, g) /\ image = Upright
    BY <1>5, <1>6, <1>8, <2>1 DEF Printable, XSize
  <2>2. CASE BlankMargins(Upright, g) /\ image = Compacted(Upright, g)
    <3>1. image.cross = WindowLast(g) - WindowFirst(g)
      BY <2>2 DEF Compacted, Upright
    <3>2. WindowFirst(g) \in Nat /\ WindowLast(g) \in Nat
      BY <1>4, WindowOf DEF Placing
    <3> QED
      BY <2>2, <3>1, <3>2 DEF BlankMargins, XSize
  <2> QED
    BY <1>4, <2>1, <2>2
<1>11. /\ XSize \in Nat /\ P * XSize <= image.cross * 180
       /\ image.cross * 180 < P * XSize + P
       /\ YSize \in Nat /\ P * YSize <= image.along * 180
       /\ image.along * 180 < P * YSize + P
  <2>1. image.cross \in Nat /\ image.along \in Nat /\ P \in Nat \ {0}
    BY <1>1, <1>9, <1>10
  <2> HIDE DEF P
  <2>2. XSize = Scaled(image.cross, P) /\ YSize = Scaled(image.along, P)
    BY DEF XSize, YSize, P
  <2>3. /\ Scaled(image.cross, P) \in Nat
        /\ P * Scaled(image.cross, P) <= image.cross * 180
        /\ image.cross * 180 < P * Scaled(image.cross, P) + P
    BY <2>1, ScaledOf
  <2>4. /\ Scaled(image.along, P) \in Nat
        /\ P * Scaled(image.along, P) <= image.along * 180
        /\ image.along * 180 < P * Scaled(image.along, P) + P
    BY <2>1, ScaledOf
  <2> QED
    BY <2>2, <2>3, <2>4, Zenon
<1>12. Left(page) \in Nat /\ Span(page) \in Int /\ page.height \in Nat
  <2>1. /\ page.left \in Nat /\ page.right \in Nat /\ page.width \in Nat
        /\ page.height \in Nat /\ page.left + page.right \in Nat
    BY <1>3 DEF PageType
  <2>2. \A n \in Nat : Dots(n) \in Nat
    BY DotsOf
  <2>3. Dots(page.left) \in Nat /\ Dots(page.left + page.right) \in Nat
    BY <2>1, <2>2
  <2> QED
    BY <2>1, <2>3 DEF Left, Span
<1> QED
  BY <1>1, <1>2, <1>3, <1>9, <1>10, <1>11, <1>12

(* Where the pixels of the image come from in the PNG.                     *)
Shift == IF image = Upright THEN 0 ELSE WindowFirst(Geometries[PageTape])

LEMMA InkOf ==
    ASSUME Placing, NEW p \in image.ink
    PROVE  /\ p[1] \in 0 .. image.cross - 1 /\ p[2] \in 0 .. image.along - 1
           /\ \E d \in request.ink :
                p[2] = AlongAt(request, d) /\ p[1] + Shift = CrossAt(request, d)
<1> DEFINE g == Geometries[PageTape]
<1>1. IsPng
  BY Requested DEF Placing
<1>2. /\ PageTape \in Tapes
      /\ \/ Printable(Upright, g) /\ image = Upright
         \/ BlankMargins(Upright, g) /\ image = Compacted(Upright, g)
  BY <1>1 DEF Placing, ImageInv, Preflighted
<1>3. /\ Upright.cross = CrossOf(request) /\ Upright.along = AlongOf(request)
      /\ CrossOf(request) \in Nat /\ AlongOf(request) \in Nat
      /\ \A e \in Upright.ink : \E d \in request.ink :
            e = <<CrossAt(request, d), AlongAt(request, d)>>
      /\ \A d \in request.ink :
            /\ CrossAt(request, d) \in 0 .. CrossOf(request) - 1
            /\ AlongAt(request, d) \in 0 .. AlongOf(request) - 1
  BY UprightOf DEF Placing
<1>4. CASE image = Upright
  BY <1>3, <1>4 DEF Shift
<1>5. CASE image # Upright
  <2>1. BlankMargins(Upright, g) /\ image = Compacted(Upright, g)
    BY <1>2, <1>5
  <2>2. /\ image.cross = WindowLast(g) - WindowFirst(g) /\ image.along = Upright.along
        /\ image.ink = {<<d[1] - WindowFirst(g), d[2]>> : d \in Upright.ink}
    BY <2>1 DEF Compacted, Upright
  <2>3. WindowFirst(g) \in Nat /\ WindowLast(g) \in Nat
    BY <1>2, WindowOf DEF Placing
  <2>4. PICK e \in Upright.ink : p = <<e[1] - WindowFirst(g), e[2]>>
    BY <2>2
  <2>5. e[1] \in WindowFirst(g) .. WindowLast(g) - 1
    BY <2>1, <2>4 DEF BlankMargins
  <2>6. PICK d \in request.ink : e = <<CrossAt(request, d), AlongAt(request, d)>>
    BY <1>3, <2>4
  <2>7. AlongAt(request, d) \in 0 .. AlongOf(request) - 1
    BY <1>3, <2>6
  <2>8. p[2] = AlongAt(request, d) /\ p[1] + Shift = CrossAt(request, d)
    BY <1>5, <2>3, <2>4, <2>5, <2>6 DEF Shift
  <2>9. p[1] \in 0 .. image.cross - 1
    BY <2>2, <2>3, <2>4, <2>5
  <2> QED
    BY <1>3, <2>2, <2>6, <2>7, <2>8, <2>9
<1> QED
  BY <1>4, <1>5

LEMMA PlacedOf ==
    ASSUME Placing, NEW e \in Placed
    PROVE  \E p \in image.ink : \E x \in Samples(p[1], image.cross, XSize),
                                  y \in Samples(p[2], image.along, YSize) :
              e = <<Column(x), Row(y)>>
  BY DEF Placed

LEMMA ColumnOf ==
    ASSUME Placing, NEW p \in image.ink, NEW x \in Samples(p[1], image.cross, XSize),
           NEW off, off = (2 * (Column(x) - Left(page)) + 1 - Span(page)) * Ppi(request)
                             - FromMiddle(p[1], image.cross, Reverse(request)) * 180
    PROVE  /\ Column(x) \in Int
           /\ Left(page) <= Column(x) /\ Column(x) < Left(page) + Span(page)
           /\ off \in Int
           /\ Reverse(request) => -180 - 3 * Ppi(request) < off /\ off < 180
           /\ ~Reverse(request) => /\ -180 - Ppi(request) < off
                                    /\ off < 180 + 2 * Ppi(request)
<1> DEFINE A == image.cross
           P == Ppi(request)
           size == XSize
           room == Span(page)
           at == p[1]
           k == 2 * at + 1 - A
           a == 2 * x + 1 - size
           c == Column(x) - Left(page)
<1>1. /\ A \in Nat \ {0} /\ P \in Nat \ {0} /\ size \in Nat /\ size <= room
      /\ P * size <= A * 180 /\ A * 180 < P * size + P
      /\ room \in Int /\ Left(page) \in Nat
  BY ImageOf
<1>2. at \in Nat /\ at < A
  BY <1>1, InkOf
<1>3. x \in Nat /\ x < size /\ at * size <= x * A /\ x * A < at * size + size
  BY <1>1, <1>2, SampleOf
<1>4. a \in Int /\ k \in Int /\ -180 < a * P - k * 180 /\ a * P - k * 180 < 180 + 2 * P
  <2> HIDE DEF A, P, size, room, at, c
  <2> QED
    BY <1>1, <1>2, <1>3, Sampling
<1>5. room - size \in Nat
  BY <1>1
<1>6. PICK h \in Nat, e \in {0, 1} : 2 * h = room - size - e /\ h = Half(room - size)
  BY <1>5, Halved
<1>7. CASE Reverse(request)
  <2>1. c = h + (size - 1 - x) /\ Column(x) \in Int
    <3>1. Column(x) = Left(page) + Half(room - size) + (size - 1 - x)
      BY <1>7 DEF Column, Turned, Half
    <3>2. Column(x) = Left(page) + h + (size - 1 - x)
      BY <1>6, <3>1
    <3> HIDE DEF size
    <3> QED
      BY <1>1, <1>3, <3>2
  <2>2. c \in 0 .. room - 1 /\ 2 * c + 1 - room = -a - e
    <3>1. /\ size \in Nat /\ room \in Int /\ h \in Nat /\ e \in {0, 1}
          /\ 2 * h = room - size - e
      BY <1>1, <1>6
    <3> HIDE DEF size, room, c
    <3> QED
      BY <1>3, <2>1, <3>1
  <2>3. FromMiddle(at, A, Reverse(request)) = -k
    BY <1>1, <1>2, <1>7 DEF FromMiddle
  <2>4. off = (2 * c + 1 - room) * P - FromMiddle(at, A, Reverse(request)) * 180
    OBVIOUS
  <2> HIDE DEF A, P, size, room, at, k, a, c
  <2>5. off = (-a - e) * P + k * 180
    BY <1>1, <1>4, <2>2, <2>3, <2>4
  <2>6. off \in Int /\ -180 - 3 * P < off /\ off < 180
    BY <1>1, <1>4, <2>5, Shifted
  <2> QED
    <3>1. c \in 0 .. room - 1 /\ off \in Int
      BY <2>2, <2>6
    <3>3. Left(page) <= Column(x) /\ Column(x) < Left(page) + room
      BY <1>1, <2>1, <3>1 DEF c
    <3> QED
      BY <1>7, <2>1, <2>6, <3>1, <3>3 DEF P, room
<1>8. CASE ~Reverse(request)
  <2>1. c = h + x /\ Column(x) \in Int
    <3>1. Column(x) = Left(page) + Half(room - size) + x
      BY <1>8 DEF Column, Turned, Half
    <3>2. Column(x) = Left(page) + h + x
      BY <1>6, <3>1
    <3> QED
      BY <1>1, <1>3, <3>2
  <2>2. c \in 0 .. room - 1 /\ 2 * c + 1 - room = a - e
    <3>1. /\ size \in Nat /\ room \in Int /\ h \in Nat /\ e \in {0, 1}
          /\ 2 * h = room - size - e
      BY <1>1, <1>6
    <3> HIDE DEF size, room, c
    <3> QED
      BY <1>3, <2>1, <3>1
  <2>3. FromMiddle(at, A, Reverse(request)) = k
    BY <1>1, <1>2, <1>8 DEF FromMiddle
  <2>4. off = (2 * c + 1 - room) * P - FromMiddle(at, A, Reverse(request)) * 180
    OBVIOUS
  <2> HIDE DEF A, P, size, room, at, k, a, c
  <2>5. off = (a - e) * P - k * 180
    BY <1>1, <1>4, <2>2, <2>3, <2>4
  <2>6. off \in Int /\ -180 - P < off /\ off < 180 + 2 * P
    BY <1>1, <1>4, <2>5, Shifted
  <2> QED
    <3>1. c \in 0 .. room - 1 /\ off \in Int
      BY <2>2, <2>6
    <3>3. Left(page) <= Column(x) /\ Column(x) < Left(page) + room
      BY <1>1, <2>1, <3>1 DEF c
    <3> QED
      BY <1>8, <2>1, <2>6, <3>1, <3>3 DEF P, room
<1> QED
  BY <1>7, <1>8

LEMMA RowOf ==
    ASSUME Placing, NEW p \in image.ink, NEW y \in Samples(p[2], image.along, YSize),
           NEW off, off = (2 * Row(y) + 1 - page.height) * Ppi(request)
                             - FromMiddle(p[2], image.along, Back(request)) * 180
    PROVE  /\ Row(y) \in 0 .. page.height - 1
           /\ off \in Int /\ -180 - 3 * Ppi(request) < off /\ off < 180 + 2 * Ppi(request)
<1> DEFINE A == image.along
           P == Ppi(request)
           size == YSize
           room == page.height
           at == p[2]
           k == 2 * at + 1 - A
           a == 2 * y + 1 - size
           c == Row(y)
<1>1. /\ A \in Nat \ {0} /\ P \in Nat \ {0} /\ size \in Nat /\ size <= room
      /\ P * size <= A * 180 /\ A * 180 < P * size + P
      /\ room \in Int /\ Left(page) \in Nat
  BY ImageOf
<1>2. at \in Nat /\ at < A
  BY <1>1, InkOf
<1>3. y \in Nat /\ y < size /\ at * size <= y * A /\ y * A < at * size + size
  BY <1>1, <1>2, SampleOf
<1>4. a \in Int /\ k \in Int /\ -180 < a * P - k * 180 /\ a * P - k * 180 < 180 + 2 * P
  <2> HIDE DEF A, P, size, room, at, c
  <2> QED
    BY <1>1, <1>2, <1>3, Sampling
<1>5. room - size \in Nat
  BY <1>1
<1>6. PICK h \in Nat, e \in {0, 1} : 2 * h = room - size - e /\ h = Half(room - size)
  BY <1>5, Halved
<1>7. CASE Back(request)
  <2>1. c = h + (size - 1 - y) /\ Row(y) \in Int
    <3>1. Row(y) = Half(room - size) + (size - 1 - y)
      BY <1>7 DEF Row, Turned, Half
    <3>2. Row(y) = h + (size - 1 - y)
      BY <1>6, <3>1
    <3> HIDE DEF size
    <3> QED
      BY <1>1, <1>3, <3>2
  <2>2. c \in 0 .. room - 1 /\ 2 * c + 1 - room = -a - e
    <3>1. /\ size \in Nat /\ room \in Int /\ h \in Nat /\ e \in {0, 1}
          /\ 2 * h = room - size - e
      BY <1>1, <1>6
    <3> HIDE DEF size, room, c
    <3> QED
      BY <1>3, <2>1, <3>1
  <2>3. FromMiddle(at, A, Back(request)) = -k
    BY <1>1, <1>2, <1>7 DEF FromMiddle
  <2>4. off = (2 * c + 1 - room) * P - FromMiddle(at, A, Back(request)) * 180
    OBVIOUS
  <2> HIDE DEF A, P, size, room, at, k, a, c
  <2>5. off = (-a - e) * P + k * 180
    BY <1>1, <1>4, <2>2, <2>3, <2>4
  <2>6. off \in Int /\ -180 - 3 * P < off /\ off < 180
    BY <1>1, <1>4, <2>5, Shifted
  <2> QED
    <3>1. c \in 0 .. room - 1 /\ off \in Int
      BY <2>2, <2>6
    <3>2. -180 - 3 * P < off /\ off < 180 + 2 * P
      BY <1>1, <2>6
    <3> QED
      BY <1>1, <1>7, <2>1, <2>6, <3>1, <3>2 DEF P, room, c
<1>8. CASE ~Back(request)
  <2>1. c = h + y /\ Row(y) \in Int
    <3>1. Row(y) = Half(room - size) + y
      BY <1>8 DEF Row, Turned, Half
    <3>2. Row(y) = h + y
      BY <1>6, <3>1
    <3> QED
      BY <1>1, <1>3, <3>2
  <2>2. c \in 0 .. room - 1 /\ 2 * c + 1 - room = a - e
    <3>1. /\ size \in Nat /\ room \in Int /\ h \in Nat /\ e \in {0, 1}
          /\ 2 * h = room - size - e
      BY <1>1, <1>6
    <3> HIDE DEF size, room, c
    <3> QED
      BY <1>3, <2>1, <3>1
  <2>3. FromMiddle(at, A, Back(request)) = k
    BY <1>1, <1>2, <1>8 DEF FromMiddle
  <2>4. off = (2 * c + 1 - room) * P - FromMiddle(at, A, Back(request)) * 180
    OBVIOUS
  <2> HIDE DEF A, P, size, room, at, k, a, c
  <2>5. off = (a - e) * P - k * 180
    BY <1>1, <1>4, <2>2, <2>3, <2>4
  <2>6. off \in Int /\ -180 - P < off /\ off < 180 + 2 * P
    BY <1>1, <1>4, <2>5, Shifted
  <2> QED
    <3>1. c \in 0 .. room - 1 /\ off \in Int
      BY <2>2, <2>6
    <3>2. -180 - 3 * P < off /\ off < 180 + 2 * P
      BY <1>1, <2>6
    <3> QED
      BY <1>1, <1>8, <2>1, <2>6, <3>1, <3>2 DEF P, room, c
<1> QED
  BY <1>7, <1>8


(* Ink of a fitting page stays clear of the rows that become feed.         *)
LEMMA RowClear ==
    ASSUME Placing, FittingPng(request), request.p710bt, NEW e \in Placed
    PROVE  ~EndRow(e[2])
<1>0. PICK p \in image.ink :
         \E x \in Samples(p[1], image.cross, XSize),
            y \in Samples(p[2], image.along, YSize) : e = <<Column(x), Row(y)>>
  BY PlacedOf
<1>1. PICK x \in Samples(p[1], image.cross, XSize),
           y \in Samples(p[2], image.along, YSize) : e = <<Column(x), Row(y)>>
  BY <1>0
<1> DEFINE A == image.along
           P == Ppi(request)
           at == p[2]
           size == YSize
           room == page.height
<1>2. /\ A \in Nat \ {0} /\ A = AlongOf(request) /\ P \in Nat \ {0}
      /\ size \in Nat /\ size <= room /\ A * 180 < P * size + P /\ room \in Nat
  BY ImageOf
<1>3. at \in Nat /\ at < A
  BY <1>2, InkOf
<1>4. at * 180 >= 15 * P /\ (A - at - 1) * 180 >= 15 * P
  <2>1. PICK d \in request.ink : at = AlongAt(request, d)
    BY InkOf
  <2> QED
    BY <1>2, <2>1 DEF FittingPng, EndMargin
<1>5. y \in Nat /\ y < size /\ at * size <= y * A /\ y * A < at * size + size
  BY <1>2, <1>3, SampleOf
<1>6. y >= 14 /\ size - 1 - y >= 14
  <2> HIDE DEF A, P, at, size, room
  <2> QED
    BY <1>2, <1>3, <1>4, <1>5, ClearOfStart, ClearOfEnd
<1>7. PICK h \in Nat, odd \in {0, 1} : 2 * h = room - size - odd /\ h = Half(room - size)
  <2>1. room - size \in Nat
    BY <1>2
  <2> QED
    BY <2>1, Halved
<1>8. Row(y) = h + (size - 1 - y) \/ Row(y) = h + y
  BY <1>7 DEF Row, Turned, Half
<1>9. Row(y) >= 14 /\ Row(y) + 14 < room
  <2> HIDE DEF A, P, at, size, room
  <2> QED
    BY <1>2, <1>5, <1>6, <1>7, <1>8
<1>10. Row(y) \in Int
  BY <1>2, <1>5, <1>7, <1>8
<1> QED
  BY <1>1, <1>2, <1>9, <1>10 DEF EndRow, EndMargin

-----------------------------------------------------------------------------
(* No step refuses a fitting page.                                         *)

LEMMA LengthAccepted ==
    ASSUME request \in Jobs("png"), request.xppi # request.yppi \/
           (request.sizeLength = Omitted /\ PageLength(request) > RollMax)
    PROVE  ~FittingPng(request)
<1> SUFFICES ASSUME FittingPng(request) PROVE FALSE
  OBVIOUS
<1>1. request.xppi = request.yppi
  BY DEF FittingPng
<1>2. PageLength(request) \in RollMin .. RollMax
  BY FittingPage
<1>3. RollMax \in Int /\ PageLength(request) \in Int
  BY LabelPageType DEF RollMin, RollMax
<1>4. ~(PageLength(request) > RollMax)
  BY <1>2, <1>3
<1> QED
  BY <1>1, <1>4

LEMMA HeaderAccepted ==
    ASSUME request \in Jobs("raster"), page = PrintOptions(request),
           \/ request.xppi # 180 \/ request.yppi # 180
           \/ request.sizeWidth # Omitted /\ Contradicts(request.width, page.sizeWidth)
           \/ request.sizeLength # Omitted /\ Contradicts(request.height, page.sizeLength)
    PROVE  ~FittingRaster(request)
<1> SUFFICES ASSUME FittingRaster(request) PROVE FALSE
  OBVIOUS
<1>1. \A n \in Nat : ~Contradicts(Dots(n), n)
  <2> SUFFICES ASSUME NEW n \in Nat PROVE ~Contradicts(Dots(n), n)
    OBVIOUS
  <2>1. Dots(n) \in Nat /\ 2540 * Dots(n) <= 180 * n /\ 180 * n < 2540 * Dots(n) + 2540
    BY DotsOf
  <2> QED
    BY <2>1 DEF Contradicts
<1>2. request.xppi = 180 /\ request.yppi = 180
  BY DEF FittingRaster
<1>3. request.sizeWidth # Omitted => ~Contradicts(request.width, page.sizeWidth)
  <2>1. request.sizeWidth # Omitted => page.sizeWidth = request.sizeWidth
                                        /\ request.sizeWidth \in Nat
    BY OptionsType, Requested DEF Given, Optional
  <2> QED
    BY <1>1, <2>1 DEF FittingRaster
<1>4. request.sizeLength # Omitted => ~Contradicts(request.height, page.sizeLength)
  <2>1. request.sizeLength # Omitted => page.sizeLength = request.sizeLength
                                         /\ request.sizeLength \in Nat
    BY OptionsType, Requested DEF Given, Optional
  <2> QED
    BY <1>1, <2>1 DEF FittingRaster
<1> QED
  BY <1>2, <1>3, <1>4

(* A full-width canvas has room for the window at every resolution: below  *)
(* 12 dpi no whole number of pixels is as wide as a tape.                  *)
LEMMA WindowNotEmpty ==
    ASSUME request \in Jobs("png"), NEW mm \in Tapes, NEW g, g = Geometries[mm],
           NEW cross \in Nat, Scaled(cross, Ppi(request)) = g.nominal
    PROVE  WindowFirst(g) < WindowLast(g)
<1> DEFINE P == Ppi(request)
           f == FirstDot(g)
           first == WindowFirst(g)
           last == WindowLast(g)
<1> SUFFICES first < last
  OBVIOUS
<1>1. P \in Nat \ {0}
  BY Requested
<1>2. P * g.nominal <= cross * 180 /\ cross * 180 < P * g.nominal + P
  <2> HIDE DEF P
  <2> QED
    BY <1>1, ScaledOf DEF P
<1>3. /\ f \in Nat /\ first \in Nat /\ last \in Nat
      /\ 180 * first <= f * P + 179
      /\ (f + g.px) * P < 180 * last + 180
  BY WindowOf
<1> HIDE DEF P, f, first, last
<1> DEFINE q == f * P
<1>0. mm \in {6, 9, 12, 18, 24}
  BY TheTapes
<1>10. q \in Nat /\ 180 * first <= q + 179
  BY <1>1, <1>3
<1>11. \A n \in Nat : (f + n) * P = q + n * P
  BY <1>1, <1>3
<1> HIDE DEF q
<1>4. CASE mm = 6
  <2>1. g.nominal = 42 /\ g.px = 32
    BY <1>4, Tape6
  <2>2. q + 32 * P < 180 * last + 180
    BY <1>3, <1>11, <2>1
  <2>3. P * 42 <= cross * 180 /\ cross * 180 < P * 42 + P
    BY <1>2, <2>1
  <2>4. ASSUME last <= first PROVE P \in 1 .. 11
    BY <1>1, <1>3, <1>10, <2>2, <2>4
  <2>5. P \notin 1 .. 11
    BY <1>1, <2>3
  <2> QED
    BY <1>3, <2>4, <2>5
<1>5. CASE mm = 9
  <2>1. g.nominal = 63 /\ g.px = 52
    BY <1>5, Tape9
  <2>2. q + 52 * P < 180 * last + 180
    BY <1>3, <1>11, <2>1
  <2>3. P * 63 <= cross * 180 /\ cross * 180 < P * 63 + P
    BY <1>2, <2>1
  <2>4. ASSUME last <= first PROVE P \in 1 .. 11
    BY <1>1, <1>3, <1>10, <2>2, <2>4
  <2>5. P \notin 1 .. 11
    BY <1>1, <2>3
  <2> QED
    BY <1>3, <2>4, <2>5
<1>6. CASE mm = 12
  <2>1. g.nominal = 85 /\ g.px = 76
    BY <1>6, Tape12
  <2>2. q + 76 * P < 180 * last + 180
    BY <1>3, <1>11, <2>1
  <2>3. P * 85 <= cross * 180 /\ cross * 180 < P * 85 + P
    BY <1>2, <2>1
  <2>4. ASSUME last <= first PROVE P \in 1 .. 11
    BY <1>1, <1>3, <1>10, <2>2, <2>4
  <2>5. P \notin 1 .. 11
    BY <1>1, <2>3
  <2> QED
    BY <1>3, <2>4, <2>5
<1>7. CASE mm = 18
  <2>1. g.nominal = 127 /\ g.px = 120
    BY <1>7, Tape18
  <2>2. q + 120 * P < 180 * last + 180
    BY <1>3, <1>11, <2>1
  <2>3. P * 127 <= cross * 180 /\ cross * 180 < P * 127 + P
    BY <1>2, <2>1
  <2>4. ASSUME last <= first PROVE P \in 1 .. 11
    BY <1>1, <1>3, <1>10, <2>2, <2>4
  <2>5. P \notin 1 .. 11
    BY <1>1, <2>3
  <2> QED
    BY <1>3, <2>4, <2>5
<1>8. CASE mm = 24
  <2>1. g.nominal = 170 /\ g.px = 128
    BY <1>8, Tape24
  <2>2. q + 128 * P < 180 * last + 180
    BY <1>3, <1>11, <2>1
  <2>3. P * 170 <= cross * 180 /\ cross * 180 < P * 170 + P
    BY <1>2, <2>1
  <2>4. ASSUME last <= first PROVE P \in 1 .. 11
    BY <1>1, <1>3, <1>10, <2>2, <2>4
  <2>5. P \notin 1 .. 11
    BY <1>1, <2>3
  <2> QED
    BY <1>3, <2>4, <2>5
<1> QED
  BY <1>0, <1>4, <1>5, <1>6, <1>7, <1>8

LEMMA PreflightAccepted ==
    ASSUME request \in Jobs("png"), page = LabelPage, image = Upright,
           FittingPng(request), NEW g, g = Geometries[PageTape]
    PROVE  /\ PageTape \in Tapes /\ ImageFits(image)
           /\ Printable(image, g) \/ BlankMargins(image, g)
<1> DEFINE P == Ppi(request)
           L == PageLength(request)
           A == AlongOf(request)
           C == CrossOf(request)
           n == Dots(request.sizeWidth)
<1>1. /\ PageTape \in Tapes /\ g = TapeOf(request.sizeWidth)
      /\ A * 2540 <= L * P
      /\ Span(page) = g.px - (g.nominal - n) /\ g.nominal - n \in {0, 1}
      /\ request.sizeWidth \in Nat
  BY FittingPage DEF PageTape
<1>2. /\ P \in Nat \ {0} /\ L \in Nat /\ page.height = Dots(L)
      /\ image.cross = C /\ image.along = A /\ C \in Nat /\ A \in Nat
  BY Requested, LabelPageType, UprightOf
<1>0. PICK mm \in Tapes : g = Geometries[mm]
  <2>1. PageTape \in Tapes /\ g = Geometries[PageTape]
    BY <1>1
  <2> QED
    BY ONLY <2>1
<1>3. /\ g.nominal \in Nat /\ 42 <= g.nominal /\ g.nominal <= 170
      /\ g.px \in Nat /\ 32 <= g.px /\ g.px <= 128
  BY <1>0, TapeFacts
<1>4. n \in Nat
  <2>1. \A c \in Nat : Dots(c) \in Nat
    BY DotsOf
  <2> QED
    BY <1>1, <2>1
<1>5. ImageFits(image)
  <2>1. A * 180 >= P
    BY DEF FittingPng
  <2>2. Scaled(A, P) \in Nat /\ A * 180 < P * Scaled(A, P) + P
    <3> HIDE DEF A, P
    <3> QED
      BY <1>2, ScaledOf
  <2>3. Scaled(A, P) <= Dots(L) /\ Dots(L) \in Nat
    <3> HIDE DEF A, P, L
    <3>1. Dots(L) \in Nat
      <4>1. \A c \in Nat : Dots(c) \in Nat
        BY DotsOf
      <4> QED
        BY <1>2, <4>1
    <3>2. Scaled(A, P) <= Dots(L)
      BY <1>1, <1>2, LengthHolds
    <3> QED
      BY <3>1, <3>2
  <2>4. Scaled(A, P) # 0
    <3> HIDE DEF A, P
    <3> QED
      BY <1>2, <2>1, <2>2
  <2>5. Scaled(C, P) >= 1
    <3>1. C * 180 >= P \/ Scaled(C, P) = g.nominal
      <4>1. FitsAcross(request)
        BY DEF FittingPng
      <4>2. C * 180 \in P .. (g.px - (g.nominal - n)) * P \/ Scaled(C, P) = g.nominal
        BY <1>1, <4>1 DEF FitsAcross
      <4> HIDE DEF C, P, n
      <4> QED
        BY <1>2, <1>3, <1>4, <4>2
    <3>2. Scaled(C, P) \in Nat /\ C * 180 < P * Scaled(C, P) + P
      <4> HIDE DEF C, P
      <4> QED
        BY <1>2, ScaledOf
    <3> HIDE DEF C, P
    <3>3. Scaled(C, P) # 0
      <4> DEFINE s == Scaled(C, P)
      <4> HIDE DEF s
      <4>1. s \in Nat /\ C * 180 < P * s + P /\ (C * 180 >= P \/ s = g.nominal)
        BY <3>1, <3>2 DEF s
      <4>2. s # 0
        BY <1>2, <1>3, <4>1
      <4> QED
        BY <4>2 DEF s
    <3> QED
      BY <3>2, <3>3
  <2> HIDE DEF A, P, L, C
  <2>6. Scaled(A, P) \in 1 .. Dots(L)
    BY <2>2, <2>3, <2>4
  <2> QED
    BY <1>2, <2>5, <2>6 DEF ImageFits, P
<1>6. CASE C * 180 \in P .. (g.px - (g.nominal - n)) * P
  <2> DEFINE s == Scaled(C, P)
             room == g.px - (g.nominal - n)
  <2>1. room \in Nat /\ room <= g.px /\ Span(page) = room
    BY <1>1, <1>3
  <2>2. s \in Nat /\ P * s <= C * 180
    <3> HIDE DEF C, P
    <3> QED
      BY <1>2, ScaledOf
  <2>3. C * 180 <= room * P
    <3> HIDE DEF C, P, n
    <3> QED
      BY <1>2, <1>3, <1>4, <1>6
  <2>4. s <= room
    <3> HIDE DEF C, P, s, room
    <3>1. P * s < P * (room + 1)
      BY <1>2, <2>1, <2>2, <2>3
    <3> QED
      BY <1>2, <2>1, <2>2, <3>1, Cancel
  <2>5. s <= g.px /\ s <= Span(page)
    <3> HIDE DEF s, room
    <3> QED
      BY <1>3, <2>1, <2>2, <2>4
  <2> QED
    BY <1>2, <1>1, <1>5, <2>5 DEF Printable
<1>7. CASE ~(C * 180 \in P .. (g.px - (g.nominal - n)) * P)
  <2> DEFINE f == FirstDot(g)
             first == WindowFirst(g)
             last == WindowLast(g)
  <2>1. /\ Scaled(C, P) = g.nominal /\ n = g.nominal
        /\ \A d \in request.ink :
              /\ CrossAt(request, d) * 180 >= f * P
              /\ (CrossAt(request, d) + 1) * 180 <= (f + g.px) * P
    BY <1>1, <1>7 DEF FittingPng, FitsAcross, FirstDot
  <2>2. /\ f \in Nat /\ first \in Nat /\ last \in Nat
        /\ f * P <= 180 * first /\ 180 * first <= f * P + 179
        /\ 180 * last <= (f + g.px) * P
        /\ (f + g.px) * P < 180 * last + 180
    BY <1>0, WindowOf
  <2>3. first < last
    BY <1>0, <1>2, <2>1, WindowNotEmpty
  <2>4. Scaled(last - first, P) <= Span(page)
    <3>1. last - first \in Nat
      BY <2>2, <2>3
    <3>2. Span(page) = g.px
      BY <1>1, <1>3, <2>1
    <3> DEFINE w == last - first
               s == Scaled(w, P)
    <3>3. s \in Nat /\ P * s <= w * 180
      <4> HIDE DEF w, P
      <4> QED
        BY <1>2, <3>1, ScaledOf DEF w
    <3>4. w * 180 <= g.px * P
      <4> HIDE DEF f, first, last, P
      <4>1. (f + g.px) * P = f * P + g.px * P
        BY <1>2, <1>3, <2>2
      <4> QED
        BY <1>2, <1>3, <2>2, <4>1
    <3>5. s <= g.px
      <4> HIDE DEF w, P, s
      <4>1. P * s < P * (g.px + 1)
        BY <1>2, <1>3, <3>1, <3>3, <3>4 DEF w
      <4> QED
        BY <1>2, <1>3, <3>3, <4>1, Cancel
    <3> QED
      BY <3>2, <3>5
  <2>5. \A d \in request.ink : CrossAt(request, d) \in first .. last - 1
    <3> SUFFICES ASSUME NEW d \in request.ink PROVE CrossAt(request, d) \in first .. last - 1
      OBVIOUS
    <3> DEFINE c == CrossAt(request, d)
    <3>1. c \in Nat
      BY UprightOf
    <3>2. c * 180 >= f * P /\ (c + 1) * 180 <= (f + g.px) * P
      BY <2>1
    <3> HIDE DEF c, f, first, last, P
    <3>3. f * P \in Int /\ (f + g.px) * P \in Int
      BY <1>2, <1>3, <2>2
    <3>4. first <= c /\ c <= last - 1
      BY <2>2, <3>1, <3>2, <3>3
    <3> QED
      BY <2>2, <3>1, <3>4 DEF c
  <2>6. \A e \in image.ink : e[1] \in first .. last - 1
    BY <2>5, UprightOf
  <2> QED
    BY <1>1, <1>2, <1>5, <2>1, <2>3, <2>4, <2>6 DEF BlankMargins
<1> QED
  BY <1>6, <1>7

LEMMA StartAccepted ==
    ASSUME RequestInv, PageInv, stage = "startpage",
           ~PageFits(ResolveMargins(page))
    PROVE  IF IsPng THEN ~FittingPng(request) ELSE ~FittingRaster(request)
<1>1. request \in Jobs("png") \cup Jobs("raster")
  BY DEF RequestInv
<1>2. CASE IsPng
  <2>1. request \in Jobs("png") /\ page = LabelPage
    BY <1>1, <1>2, Requested DEF PageInv
  <2>2. ResolveMargins(page) = page
    BY <2>1, LabelPageType
  <2> QED
    BY <1>2, <2>1, <2>2, FittingPage
<1>3. CASE ~IsPng
  <2>1. request \in Jobs("raster") /\ page = HeaderPage
    BY <1>1, <1>3, Requested DEF PageInv
  <2> QED
    BY <1>3, <2>1, FittingHeader
<1> QED
  BY <1>2, <1>3

LEMMA RowsAccepted ==
    ASSUME RequestInv, PageInv, ImageInv, OutputInv, stage = "rows", InkAtEnds
    PROVE  IF IsPng THEN ~FittingPng(request) ELSE ~FittingRaster(request)
<1>1. request \in Jobs("png") \cup Jobs("raster")
  BY DEF RequestInv
<1>2. PICK e \in raster : request.p710bt /\ EndRow(e[2])
  BY DEF InkAtEnds, PackWindow
<1>3. CASE IsPng
  <2>1. Placing /\ e \in Placed
    BY <1>1, <1>2, <1>3, Requested DEF Placing, OutputInv, Checked
  <2> QED
    BY <1>2, <1>3, <2>1, RowClear
<1>4. CASE ~IsPng
  <2> SUFFICES ASSUME FittingRaster(request) PROVE FALSE
    BY <1>4
  <2>1. request \in Jobs("raster") /\ e \in request.ink
    BY <1>1, <1>2, <1>4, Requested DEF OutputInv, Checked
  <2>2. page.height = request.height /\ request.height \in Nat
    <3>1. page = ResolveMargins(HeaderPage)
      BY <1>4 DEF PageInv, Checked
    <3> QED
      BY <2>1, <3>1, HeaderPageType, Resolved, Requested
  <2>3. e[2] \in EndMargin .. request.height - EndMargin - 1
    BY <1>2, <2>1 DEF FittingRaster
  <2> QED
    BY <1>2, <2>2, <2>3 DEF EndRow, EndMargin
<1> QED
  BY <1>3, <1>4

-----------------------------------------------------------------------------
(* What depends on the variables a step leaves alone, it leaves alone.     *)

LEMMA SameRequest ==
    ASSUME request' = request
    PROVE  /\ LabelPage' = LabelPage /\ HeaderPage' = HeaderPage /\ Upright' = Upright
           /\ IsPng' = IsPng
           /\ ResolveMargins(HeaderPage)' = ResolveMargins(HeaderPage)
  BY DEF LabelPage, HeaderPage, Upright, IsPng, ResolveMargins

LEMMA SamePage ==
    ASSUME request' = request, page' = page
    PROVE  /\ PageTape' = PageTape /\ PageFits(page)' = PageFits(page)
           /\ ImageFits(Upright)' = ImageFits(Upright)
           /\ \A i : Printable(i, Geometries[PageTape])' = Printable(i, Geometries[PageTape])
           /\ BlankMargins(Upright, Geometries[PageTape])' =
                 BlankMargins(Upright, Geometries[PageTape])
           /\ Compacted(Upright, Geometries[PageTape])' =
                 Compacted(Upright, Geometries[PageTape])
  BY SameRequest DEF PageTape, PageFits, ImageFits, Printable, BlankMargins, Compacted,
     WindowFirst, WindowLast, FirstDot

LEMMA SameImage ==
    ASSUME request' = request, page' = page, image' = image
    PROVE  Preflighted' = Preflighted /\ Placed' = Placed
  BY SameRequest DEF Preflighted, Placed, PageTape, ImageFits, Printable, BlankMargins,
     WindowFirst, WindowLast, FirstDot, Compacted, XSize, YSize, Column, Row

LEMMA SameRows ==
    ASSUME request' = request, page' = page, raster' = raster
    PROVE  /\ InkAtEnds' = InkAtEnds /\ Staged' = Staged
           /\ Transmitted(Staged)' = Transmitted(Staged)
  BY DEF InkAtEnds, Staged, PackWindow, Tape, EndRow, Transmitted, Rows, Feed

(* One lemma per action: it keeps every part of IInv.                      *)
LEMMA SubmitKeeps ==
    ASSUME IInv, SubmitPng \/ SubmitRaster
    PROVE  IInv'
<1>1. /\ \/ request' \in Jobs("png") /\ stage' = "length"
         \/ request' \in Jobs("raster") /\ stage' = "header"
      /\ page' = PrintOptions(request') /\ sent' = sent /\ sent = NoOutput
  BY JobsAssumption DEF SubmitPng, SubmitRaster, IInv, OutputInv
<1>2. RequestInv'
  BY <1>1 DEF RequestInv
<1>3. PageInv'
  BY <1>1 DEF PageInv, Checked
<1>4. ImageInv' /\ HeaderInv'
  BY <1>1 DEF ImageInv, HeaderInv, Checked
<1>5. OutputInv'
  BY <1>1 DEF OutputInv, Checked
<1>6. FittingAccepted'
  BY <1>1 DEF FittingAccepted
<1> QED
  BY <1>2, <1>3, <1>4, <1>5, <1>6 DEF IInv

LEMMA SetPageLengthKeeps ==
    ASSUME IInv, SetPageLength
    PROVE  IInv'
<1>1. /\ stage = "length" /\ request' = request /\ raster' = raster /\ sent' = sent
      /\ request \in Jobs("png") /\ sent = NoOutput
      /\ \/ /\ stage' = "rejected" /\ page' = page /\ image' = image
            /\ \/ request.xppi # request.yppi
               \/ request.sizeLength = Omitted /\ PageLength(request) > RollMax
         \/ stage' = "preflight" /\ page' = LabelPage /\ image' = Upright
  BY DEF IInv, SetPageLength, Reject, RequestInv, OutputInv
<1>2. LabelPage' = LabelPage /\ Upright' = Upright /\ IsPng' = IsPng
  BY <1>1, SameRequest
<1>3. RequestInv'
  BY <1>1 DEF RequestInv
<1>4. PageInv'
  BY <1>1, <1>2 DEF PageInv, Checked
<1>5. ImageInv' /\ HeaderInv'
  BY <1>1, <1>2 DEF ImageInv, HeaderInv, Checked
<1>6. OutputInv'
  BY <1>1 DEF OutputInv, Checked
<1>7. FittingAccepted'
  <2>1. IsPng /\ (stage' = "rejected" => ~FittingPng(request))
    BY <1>1, LengthAccepted, Requested
  <2> QED
    BY <1>1, <1>2, <2>1 DEF FittingAccepted
<1> QED
  BY <1>3, <1>4, <1>5, <1>6, <1>7 DEF IInv

LEMMA PreflightKeeps ==
    ASSUME IInv, Preflight
    PROVE  IInv'
<1>1. /\ stage = "preflight" /\ UNCHANGED <<request, page, raster, sent>>
      /\ request \in Jobs("png") /\ page = LabelPage /\ image = Upright
      /\ sent = NoOutput
  BY DEF IInv, Preflight, RequestInv, PageInv, ImageInv, OutputInv
<1> DEFINE g == Geometries[PageTape]
<1>2. \/ /\ stage' = "rejected" /\ image' = image
         /\ \/ PageTape \notin Tapes \/ ~ImageFits(image)
            \/ ~Printable(image, g) /\ ~BlankMargins(image, g)
      \/ /\ stage' = "place" /\ PageTape \in Tapes /\ ImageFits(image)
         /\ \/ Printable(image, g) /\ image' = image
            \/ BlankMargins(image, g) /\ image' = Compacted(image, g)
  BY DEF Preflight, Reject
<1>3. /\ LabelPage' = LabelPage /\ Upright' = Upright /\ IsPng' = IsPng
      /\ request' = request
  BY <1>1, SameRequest
<1>4. RequestInv'
  BY <1>1, <1>2 DEF RequestInv
<1>5. PageInv'
  BY <1>1, <1>2, <1>3 DEF PageInv, Checked
<1>6. ImageInv'
  <2>1. stage' = "place" => Preflighted'
    <3>1. stage' = "place" =>
            /\ PageTape' \in Tapes /\ ImageFits(Upright)'
            /\ \/ Printable(Upright, g)' /\ image' = Upright'
               \/ BlankMargins(Upright, g)' /\ image' = Compacted(Upright, g)'
      BY <1>1, <1>2, <1>3, SamePage
    <3> QED
      BY <3>1 DEF Preflighted
  <2> QED
    BY <1>2, <2>1 DEF ImageInv, Checked
<1>7. HeaderInv' /\ OutputInv'
  BY <1>1, <1>2 DEF HeaderInv, OutputInv, Checked
<1>8. FittingAccepted'
  <2>1. IsPng /\ (stage' = "rejected" => ~FittingPng(request))
    BY <1>1, <1>2, PreflightAccepted, Requested
  <2> QED
    BY <1>1, <1>3, <2>1 DEF FittingAccepted
<1> QED
  BY <1>4, <1>5, <1>6, <1>7, <1>8 DEF IInv

LEMMA FilterImageKeeps ==
    ASSUME IInv, FilterImage
    PROVE  IInv'
<1>1. /\ stage = "place" /\ stage' = "startpage" /\ raster' = Placed
      /\ request' = request /\ page' = page /\ image' = image /\ sent' = sent
      /\ request \in Jobs("png") /\ page = LabelPage /\ sent = NoOutput
  BY DEF IInv, FilterImage, RequestInv, PageInv, OutputInv
<1>2. IsPng /\ IsPng' = IsPng /\ LabelPage' = LabelPage
  BY <1>1, SameRequest, Requested
<1>3. Preflighted' = Preflighted /\ Placed' = Placed
  BY <1>1, SameImage
<1>4. RequestInv'
  BY <1>1 DEF RequestInv
<1>5. PageInv'
  BY <1>1, <1>2 DEF PageInv, Checked
<1>6. ImageInv'
  <2>1. Preflighted
    BY <1>1, <1>2 DEF IInv, ImageInv
  <2> QED
    BY <1>1, <1>3, <2>1 DEF ImageInv
<1>7. HeaderInv' /\ OutputInv'
  BY <1>1, <1>2, <1>3 DEF HeaderInv, OutputInv, Checked
<1>8. FittingAccepted'
  BY <1>1 DEF FittingAccepted
<1> QED
  BY <1>4, <1>5, <1>6, <1>7, <1>8 DEF IInv

LEMMA CheckHeaderKeeps ==
    ASSUME IInv, CheckHeader
    PROVE  IInv'
<1>1. /\ stage = "header" /\ request' = request /\ image' = image /\ sent' = sent
      /\ request \in Jobs("raster") /\ page = PrintOptions(request) /\ sent = NoOutput
      /\ \/ /\ stage' = "rejected"
            /\ \/ request.xppi # 180 \/ request.yppi # 180
               \/ request.sizeWidth # Omitted /\ Contradicts(request.width, page.sizeWidth)
               \/ request.sizeLength # Omitted /\ Contradicts(request.height, page.sizeLength)
         \/ /\ stage' = "startpage" /\ page' = HeaderPage /\ raster' = request.ink
            /\ request.sizeLength # Omitted => ~Contradicts(request.height, page.sizeLength)
  BY DEF IInv, CheckHeader, Reject, RequestInv, PageInv, OutputInv
<1>2. ~IsPng /\ IsPng' = IsPng /\ HeaderPage' = HeaderPage
  <2>1. ~IsPng
    BY <1>1 DEF IsPng, Jobs
  <2> QED
    BY <1>1, <2>1, SameRequest
<1>3. RequestInv'
  BY <1>1 DEF RequestInv
<1>4. PageInv'
  BY <1>1, <1>2 DEF PageInv, Checked
<1>5. ImageInv'
  BY <1>1, <1>2 DEF ImageInv
<1>6. HeaderInv'
  <2>1. request.sizeLength # Omitted => page.sizeLength = request.sizeLength
    BY <1>1, OptionsType DEF Given
  <2> QED
    BY <1>1, <2>1 DEF HeaderInv, Checked
<1>7. OutputInv'
  BY <1>1, <1>2 DEF OutputInv, Checked
<1>8. FittingAccepted'
  <2>1. stage' = "rejected" => ~FittingRaster(request)
    BY <1>1, HeaderAccepted
  <2> QED
    BY <1>1, <1>2, <2>1 DEF FittingAccepted
<1> QED
  BY <1>3, <1>4, <1>5, <1>6, <1>7, <1>8 DEF IInv

LEMMA StartPageKeeps ==
    ASSUME IInv, StartPage
    PROVE  IInv'
<1>1. /\ stage = "startpage" /\ request' = request /\ image' = image
      /\ raster' = raster /\ sent' = sent /\ sent = NoOutput
      /\ page = (IF IsPng THEN LabelPage ELSE HeaderPage)
      /\ request \in Jobs("png") \cup Jobs("raster")
      /\ \/ stage' = "rejected" /\ page' = page /\ ~PageFits(ResolveMargins(page))
         \/ /\ stage' = "rows" /\ page' = ResolveMargins(page)
            /\ PageFits(ResolveMargins(page))
  BY DEF IInv, StartPage, Reject, RequestInv, PageInv, OutputInv
<1>2. /\ IsPng' = IsPng /\ LabelPage' = LabelPage
      /\ ResolveMargins(HeaderPage)' = ResolveMargins(HeaderPage)
  BY <1>1, SameRequest
<1>3. IsPng => ResolveMargins(page) = page
  BY <1>1, LabelPageType, Requested
<1>4. \A o : PageFits(o)' = PageFits(o)
  BY DEF PageFits
<1>5. RequestInv'
  BY <1>1 DEF RequestInv, Checked
<1>6. PageInv'
  <2>1. stage' = "rows" =>
          /\ page' = IF IsPng THEN LabelPage ELSE ResolveMargins(HeaderPage)
          /\ PageFits(page')
    BY <1>1, <1>3
  <2>2. PageFits(page)' = PageFits(page')
    BY DEF PageFits
  <2> QED
    BY <1>1, <1>2, <2>1, <2>2 DEF PageInv, Checked
<1>7. ImageInv'
  <2>1. IsPng /\ stage' = "rows" => Preflighted' = Preflighted
    BY <1>1, <1>3, SameImage
  <2>2. IsPng => Preflighted
    BY <1>1 DEF IInv, ImageInv
  <2> QED
    BY <1>1, <1>2, <2>1, <2>2 DEF ImageInv, Checked
<1>8. HeaderInv'
  BY <1>1, <1>2 DEF IInv, HeaderInv, Checked
<1>9. OutputInv'
  <2>1. IsPng /\ stage' = "rows" => Placed' = Placed
    BY <1>1, <1>3, SameImage
  <2>2. raster = IF IsPng THEN Placed ELSE request.ink
    BY <1>1 DEF IInv, OutputInv
  <2> QED
    BY <1>1, <1>2, <2>1, <2>2 DEF OutputInv, Checked
<1>10. FittingAccepted'
  <2>1. stage' = "rejected" =>
          IF IsPng THEN ~FittingPng(request) ELSE ~FittingRaster(request)
    BY <1>1, StartAccepted DEF IInv
  <2> QED
    BY <1>1, <1>2, <2>1 DEF FittingAccepted
<1> QED
  BY <1>5, <1>6, <1>7, <1>8, <1>9, <1>10 DEF IInv

LEMMA WriteRowsKeeps ==
    ASSUME IInv, WriteRows
    PROVE  IInv'
<1>1. /\ stage = "rows" /\ UNCHANGED <<request, page, image, raster>>
      /\ \/ stage' = "rejected" /\ InkAtEnds
         \/ stage' = "endpage" /\ ~InkAtEnds /\ sent' = [sent EXCEPT !.ink = Staged]
      /\ sent = NoOutput
  BY DEF IInv, WriteRows, Reject, OutputInv
<1>2. /\ IsPng' = IsPng /\ LabelPage' = LabelPage
      /\ ResolveMargins(HeaderPage)' = ResolveMargins(HeaderPage)
      /\ PageFits(page)' = PageFits(page) /\ Preflighted' = Preflighted
      /\ Placed' = Placed /\ InkAtEnds' = InkAtEnds /\ Staged' = Staged
  BY <1>1, SameRequest, SamePage, SameImage, SameRows
<1>3. RequestInv'
  BY <1>1 DEF IInv, RequestInv, Checked
<1>4. PageInv'
  BY <1>1, <1>2 DEF IInv, PageInv, Checked
<1>5. ImageInv' /\ HeaderInv'
  BY <1>1, <1>2 DEF IInv, ImageInv, HeaderInv, Checked
<1>6. OutputInv'
  BY <1>1, <1>2 DEF IInv, OutputInv, Checked
<1>7. FittingAccepted'
  <2>1. stage' = "rejected" =>
          IF IsPng THEN ~FittingPng(request) ELSE ~FittingRaster(request)
    BY <1>1, RowsAccepted DEF IInv
  <2> QED
    BY <1>1, <1>2, <2>1 DEF FittingAccepted
<1> QED
  BY <1>3, <1>4, <1>5, <1>6, <1>7 DEF IInv

LEMMA EndPageKeeps ==
    ASSUME IInv, EndPage
    PROVE  IInv'
<1>1. /\ stage = "endpage" /\ stage' = "sent" /\ UNCHANGED <<request, page, image, raster>>
      /\ sent' = Transmitted(Staged)
  BY DEF IInv, EndPage, OutputInv, NoOutput
<1>2. /\ IsPng' = IsPng /\ LabelPage' = LabelPage
      /\ ResolveMargins(HeaderPage)' = ResolveMargins(HeaderPage)
      /\ PageFits(page)' = PageFits(page) /\ Preflighted' = Preflighted
      /\ Placed' = Placed /\ InkAtEnds' = InkAtEnds
      /\ Transmitted(Staged)' = Transmitted(Staged)
  BY <1>1, SameRequest, SamePage, SameImage, SameRows
<1>3. RequestInv'
  BY <1>1 DEF IInv, RequestInv, Checked
<1>4. PageInv'
  BY <1>1, <1>2 DEF IInv, PageInv, Checked
<1>5. ImageInv' /\ HeaderInv'
  BY <1>1, <1>2 DEF IInv, ImageInv, HeaderInv, Checked
<1>6. OutputInv'
  BY <1>1, <1>2 DEF IInv, OutputInv, Checked
<1>7. FittingAccepted'
  BY <1>1 DEF FittingAccepted
<1> QED
  BY <1>3, <1>4, <1>5, <1>6, <1>7 DEF IInv

LEMMA IdleKeeps ==
    ASSUME stage = "idle", sent = NoOutput
    PROVE  IInv
  BY DEF IInv, RequestInv, PageInv, ImageInv, HeaderInv, OutputInv, FittingAccepted, Checked

LEMMA StutterKeeps ==
    ASSUME IInv, UNCHANGED vars
    PROVE  IInv'
<1>1. UNCHANGED <<stage, request, page, image, raster, sent>>
  BY DEF vars
<1>2. /\ IsPng' = IsPng /\ LabelPage' = LabelPage /\ HeaderPage' = HeaderPage
      /\ ResolveMargins(HeaderPage)' = ResolveMargins(HeaderPage)
      /\ PageFits(page)' = PageFits(page) /\ Preflighted' = Preflighted
      /\ Placed' = Placed /\ InkAtEnds' = InkAtEnds /\ Staged' = Staged
      /\ Transmitted(Staged)' = Transmitted(Staged) /\ Upright' = Upright
  BY <1>1, SameRequest, SamePage, SameImage, SameRows
<1>3. RequestInv'
  BY <1>1 DEF IInv, RequestInv, Checked
<1>4. PageInv'
  BY <1>1, <1>2 DEF IInv, PageInv, Checked
<1>5. ImageInv' /\ HeaderInv'
  BY <1>1, <1>2 DEF IInv, ImageInv, HeaderInv, Checked
<1>6. OutputInv'
  BY <1>1, <1>2 DEF IInv, OutputInv, Checked
<1>7. FittingAccepted'
  BY <1>1, <1>2 DEF IInv, FittingAccepted
<1> QED
  BY <1>3, <1>4, <1>5, <1>6, <1>7 DEF IInv

(* The variables are at every stage what the code makes of the job, every  *)
(* check on the way holds of them, and no step refuses a fitting page.     *)
THEOREM IInvCorrect == Spec => []IInv
<1>1. Init => IInv
  <2> SUFFICES ASSUME Init PROVE IInv
    OBVIOUS
  <2> QED
    BY IdleKeeps DEF Init
<1>2. IInv /\ [Next]_vars => IInv'
  <2> SUFFICES ASSUME IInv, [Next]_vars PROVE IInv'
    OBVIOUS
  <2>1. CASE SubmitPng \/ SubmitRaster
    BY <2>1, SubmitKeeps
  <2>2. CASE SetPageLength
    BY <2>2, SetPageLengthKeeps
  <2>3. CASE Preflight
    BY <2>3, PreflightKeeps
  <2>4. CASE FilterImage
    BY <2>4, FilterImageKeeps
  <2>5. CASE CheckHeader
    BY <2>5, CheckHeaderKeeps
  <2>6. CASE StartPage
    BY <2>6, StartPageKeeps
  <2>7. CASE WriteRows
    BY <2>7, WriteRowsKeeps
  <2>8. CASE EndPage
    BY <2>8, EndPageKeeps
  <2>9. CASE NextPage
    <3>1. stage' = "idle" /\ sent' = NoOutput
      BY <2>9 DEF NextPage
    <3> QED
      BY <3>1 DEF IInv, RequestInv, PageInv, ImageInv, HeaderInv, OutputInv,
         FittingAccepted, Checked
  <2>10. CASE UNCHANGED vars
    BY <2>10, StutterKeeps
  <2> QED
    BY <2>1, <2>2, <2>3, <2>4, <2>5, <2>6, <2>7, <2>8, <2>9, <2>10 DEF Next
<1> QED
  BY <1>1, <1>2, PTL DEF Spec

(* A page of an advertised size with the margins published for its tape is *)
(* never refused if its content fits, whatever its resolution, its length  *)
(* and the way it is turned.                                               *)
THEOREM FittingPagesAccepted == Spec => []FittingAccepted
<1>1. IInv => FittingAccepted
  BY DEF IInv
<1> QED
  BY <1>1, IInvCorrect, PTL

-----------------------------------------------------------------------------
(* The rows sent, and what the printer is told of them.                    *)

LEMMA Remainder ==
    ASSUME NEW n \in Nat
    PROVE  /\ n % 256 \in Nat /\ 0 <= n % 256 /\ n % 256 <= 255
           /\ n = 256 * (n \div 256) + (n % 256)
<1>1. PICK k \in Nat : k = n \div 256 /\ 256 * k <= n /\ n < 256 * k + 256
  BY Quotient
<1>2. PICK r \in 0 .. 255 : n = 256 * k + r
  <2>1. /\ n - 256 * k \in Nat /\ 0 <= n - 256 * k /\ n - 256 * k <= 255
        /\ n = 256 * k + (n - 256 * k)
    BY <1>1
  <2> QED
    BY <2>1
<1>3. n % 256 = r
  BY <1>2
<1> QED
  BY <1>1, <1>2, <1>3

(* Two bytes hold a number below 65536, and four do.                       *)
LEMMA Declared ==
    ASSUME NEW n \in Nat, n < 65536, NEW count \in {2, 4}
    PROVE  Number(Bytes(n, count)) = n
<1> DEFINE high == n \div 256
           b == Bytes(n, count)
<1>1. /\ high \in Nat /\ 0 <= high /\ high <= 255
      /\ n % 256 \in Nat /\ 0 <= n % 256 /\ n % 256 <= 255
      /\ n = 256 * high + (n % 256)
  <2>1. n \in Nat /\ high \in Nat /\ 256 * high <= n
    BY Quotient
  <2> QED
    BY <2>1, Remainder
<1>2. n \div 1 = n /\ n \div 65536 = 0 /\ n \div 16777216 = 0 /\ high % 256 = high
  BY <1>1
<1>3. 0 % 256 = 0
  OBVIOUS
<1>4. /\ DOMAIN b = 1 .. count /\ b[1] = n % 256 /\ b[2] = high
      /\ count = 4 => b[3] = 0 /\ b[4] = 0
  <2>1. /\ Weight[1] = 1 /\ Weight[2] = 256 /\ Weight[3] = 65536
        /\ Weight[4] = 16777216
    BY DEF Weight
  <2>2. DOMAIN b = 1 .. count
    BY DEF Bytes
  <2>3. \A i \in 1 .. count : b[i] = (n \div Weight[i]) % 256
    BY DEF Bytes
  <2> HIDE DEF b
  <2>4. b[1] = n % 256 /\ b[2] = high
    <3>1. 1 \in 1 .. count /\ 2 \in 1 .. count
      OBVIOUS
    <3>2. b[1] = (n \div Weight[1]) % 256 /\ b[2] = (n \div Weight[2]) % 256
      BY <2>3, <3>1
    <3> QED
      BY <1>2, <2>1, <3>2
  <2>5. count = 4 => b[3] = 0 /\ b[4] = 0
    <3>1. count = 4 => 3 \in 1 .. count /\ 4 \in 1 .. count
      OBVIOUS
    <3>2. count = 4 => /\ b[3] = (n \div Weight[3]) % 256
                       /\ b[4] = (n \div Weight[4]) % 256
      BY <2>3, <3>1
    <3> QED
      BY <1>2, <1>3, <2>1, <3>2
  <2> QED
    BY <2>2, <2>4, <2>5
<1> HIDE DEF b, high
<1>5. Byte(b, 1) = n % 256 /\ Byte(b, 2) = high * 256
  BY <1>1, <1>4 DEF Byte, Weight
<1>6. Byte(b, 3) = 0 /\ Byte(b, 4) = 0
  BY <1>4 DEF Byte, Weight
<1>7. Number(b) = (n % 256) + high * 256 + 0 + 0
  BY <1>5, <1>6 DEF Number
<1>8. (n % 256) + high * 256 + 0 + 0 = n
  BY <1>1
<1> QED
  BY <1>7, <1>8 DEF b

(* The two numbers told to a PT-P710BT.                                    *)
LEMMA RowsDeclared ==
    ASSUME NEW n \in 7 .. 2125
    PROVE  Number(Bytes(n, 4)) = n
<1>1. n \in Nat /\ n < 65536 /\ 4 \in {2, 4}
  OBVIOUS
<1> QED
  BY <1>1, Declared

LEMMA FeedDeclared == Number(Bytes(EndMargin, 2)) = EndMargin
<1>1. EndMargin \in Nat /\ EndMargin < 65536 /\ 2 \in {2, 4}
  BY DEF EndMargin
<1> QED
  BY <1>1, Declared

LEMMA WholeRow ==
    ASSUME NEW packbits \in BOOLEAN
    PROVE  RowLength(RowHeader(packbits)) * 8 = HeadPins
<1>1. HeadBytes = 16
  BY DEF HeadBytes, HeadPins
<1>2. CASE packbits
  <2>1. 17 % 256 = 17 /\ 15 % 256 = 15
    OBVIOUS
  <2>2. RowHeader(packbits) = [length |-> <<17, 0>>, run |-> <<15>>]
    BY <1>1, <1>2, <2>1 DEF RowHeader
  <2>3. Number(<<17, 0>>) = 17
    BY DEF Number, Byte, Weight
  <2>4. Number(<<15>>) = 15
    BY DEF Number, Byte, Weight
  <2>5. Min({16, 16}) = 16
    BY MinOfOne
  <2>6. RowLength(RowHeader(packbits)) = Min({16, 16})
    BY <2>2, <2>3, <2>4 DEF RowLength
  <2> QED
    BY <2>5, <2>6 DEF HeadPins
<1>3. CASE ~packbits
  <2>1. 16 % 256 = 16
    OBVIOUS
  <2>2. RowHeader(packbits) = [length |-> <<16, 0>>, run |-> <<>>]
    BY <1>1, <1>3, <2>1 DEF RowHeader
  <2>3. Number(<<16, 0>>) = 16
    BY DEF Number, Byte, Weight
  <2>4. RowLength(RowHeader(packbits)) = 16
    BY <2>2, <2>3 DEF RowLength
  <2> QED
    BY <2>4 DEF HeadPins
<1> QED
  BY <1>2, <1>3

(* What holds of the page whose rows are sent.                             *)
LEMMA Sent ==
    ASSUME IInv, stage = "sent"
    PROVE  /\ request \in Jobs("png") \cup Jobs("raster") /\ page \in PageType
           /\ page.height \in Nat /\ 35 <= page.height /\ page.height <= 2125
           /\ PageFits(page)
           /\ raster = (IF IsPng THEN Placed ELSE request.ink)
           /\ sent = Transmitted(Staged) /\ ~InkAtEnds
           /\ Feed \in {0, 14} /\ (request.p710bt => Feed = 14)
           /\ ~request.p710bt => Feed = 0
           /\ IsPng => Placing
           /\ ~IsPng => page = ResolveMargins(HeaderPage)
<1>1. request \in Jobs("png") \cup Jobs("raster")
  BY DEF IInv, RequestInv
<1>2. /\ page = (IF IsPng THEN LabelPage ELSE ResolveMargins(HeaderPage))
      /\ PageFits(page)
  BY DEF IInv, PageInv, Checked
<1>3. page \in PageType
  <2>1. CASE IsPng
    BY <1>1, <1>2, <2>1, LabelPageType, Requested
  <2>2. CASE ~IsPng
    BY <1>1, <1>2, <2>2, HeaderPageType, Resolved, Requested
  <2> QED
    BY <2>1, <2>2
<1>4. page.height \in Nat /\ 35 <= page.height /\ page.height <= 2125
  <2>1. Dots(RollMin) = 35 /\ Dots(RollMax) = 2125
    BY DEF Dots, RollMin, RollMax
  <2>2. page.height \in Dots(RollMin) .. Dots(RollMax)
    BY <1>2, Zenon DEF PageFits, LengthSupported
  <2>3. Dots(RollMin) \in Int /\ Dots(RollMax) \in Int
    BY <2>1
  <2>4. Dots(RollMin) <= page.height /\ page.height <= Dots(RollMax)
    BY <2>2, <2>3
  <2> QED
    BY <1>3, <2>1, <2>4 DEF PageType
<1>5. raster = (IF IsPng THEN Placed ELSE request.ink) /\ sent = Transmitted(Staged)
      /\ ~InkAtEnds
  BY DEF IInv, OutputInv, Checked
<1>6. Feed \in {0, 14} /\ (request.p710bt => Feed = 14) /\ (~request.p710bt => Feed = 0)
  BY DEF Feed, EndMargin
<1>7. IsPng => Placing
  BY <1>1, Requested DEF Placing, IInv, Checked
<1> QED
  BY <1>1, <1>2, <1>3, <1>4, <1>5, <1>6, <1>7

(* Ink is on the page.                                                     *)
LEMMA InkOnPage ==
    ASSUME IInv, stage = "sent", NEW d \in raster
    PROVE  d[1] \in Int /\ d[2] \in 0 .. page.height - 1
<1>1. CASE IsPng
  <2>1. Placing /\ d \in Placed
    BY <1>1, Sent
  <2>2. PICK p \in image.ink :
           \E x \in Samples(p[1], image.cross, XSize),
              y \in Samples(p[2], image.along, YSize) : d = <<Column(x), Row(y)>>
    BY <2>1, PlacedOf
  <2>3. PICK x \in Samples(p[1], image.cross, XSize),
             y \in Samples(p[2], image.along, YSize) : d = <<Column(x), Row(y)>>
    BY <2>2
  <2> QED
    BY <2>1, <2>3, ColumnOf, RowOf
<1>2. CASE ~IsPng
  <2>1. request \in Jobs("raster") /\ d \in request.ink
    BY <1>2, Sent, Requested
  <2>2. page.height = request.height
    BY <1>2, <2>1, Sent, HeaderPageType, Resolved
  <2> QED
    BY <2>1, <2>2, Requested
<1> QED
  BY <1>1, <1>2

LEMMA SubmittedLength ==
    ASSUME IInv, stage = "sent", request.sizeLength # Omitted
    PROVE  Near(page.height * 2540, request.sizeLength * 180, 2540)
<1> DEFINE s == request.sizeLength
           h == page.height
<1>1. s \in Nat /\ h \in Nat
  <2>1. request.sizeLength \in Optional /\ page \in PageType
    BY Sent, Requested
  <2> QED
    BY <2>1 DEF Optional, PageType
<1>2. CASE IsPng
  <2>1. h = Dots(s)
    <3>1. request \in Jobs("png") /\ page = LabelPage
      BY <1>2, Sent, Requested DEF IInv, PageInv, Checked
    <3> QED
      BY <3>1, LabelPageType DEF PageLength
  <2> HIDE DEF s, h
  <2>2. 2540 * h <= 180 * s /\ 180 * s < 2540 * h + 2540
    BY <1>1, <2>1, DotsOf
  <2>3. Near(h * 2540, s * 180, 2540)
    BY <1>1, <2>2 DEF Near
  <2> QED
    BY <2>3 DEF s, h
<1>3. CASE ~IsPng
  <2>1. h = request.height
    BY <1>3, Sent, HeaderPageType, Resolved, Requested
  <2>2. ~Contradicts(h, s)
    BY <1>3, <2>1 DEF IInv, HeaderInv, Checked
  <2> HIDE DEF s, h
  <2>3. Near(h * 2540, s * 180, 2540)
    BY <1>1, <2>2 DEF Near, Contradicts
  <2> QED
    BY <2>3 DEF s, h
<1> QED
  BY <1>2, <1>3

(* The dots in the window of the page's tape, each with its pin and row.   *)
InWindow == {e \in raster : e[1] \in Tape.left .. Tape.right - 1}
PinOf(e) == (HeadPins - Tape.px) \div 2 + e[1] - Tape.left

LEMMA SentInk ==
    ASSUME IInv, stage = "sent"
    PROVE  sent.ink = {<<PinOf(e), e[2] - Feed>> : e \in InWindow}
<1>1. sent.ink = {d \in Staged : d[2] < Rows}
  BY Sent DEF Transmitted
<1>2. PackWindow(raster) = {<<PinOf(e), e[2]>> : e \in InWindow}
  BY DEF PackWindow, PinOf, InWindow
<1>3. Staged = {<<PinOf(e), e[2] - Feed>> : e \in InWindow}
  <2>1. \A e \in InWindow : e[2] \in Int
    BY InkOnPage DEF InWindow
  <2>2. CASE request.p710bt
    <3>1. Staged = {<<d[1], d[2] - Feed>> : d \in PackWindow(raster)}
      BY <2>2 DEF Staged, Feed
    <3>2. {<<d[1], d[2] - Feed>> : d \in {<<PinOf(e), e[2]>> : e \in InWindow}} =
            {<<PinOf(e), e[2] - Feed>> : e \in InWindow}
      <4> DEFINE A == {<<PinOf(e), e[2]>> : e \in InWindow}
      <4>1. ASSUME NEW e \in InWindow
            PROVE  \E d \in A : <<PinOf(e), e[2] - Feed>> = <<d[1], d[2] - Feed>>
        <5>1. <<PinOf(e), e[2]>> \in A
          OBVIOUS
        <5> HIDE DEF A
        <5> QED
          BY <5>1
      <4>2. ASSUME NEW d \in A
            PROVE  \E e \in InWindow : <<d[1], d[2] - Feed>> = <<PinOf(e), e[2] - Feed>>
        OBVIOUS
      <4> HIDE DEF A
      <4>3. {<<d[1], d[2] - Feed>> : d \in A} = {<<PinOf(e), e[2] - Feed>> : e \in InWindow}
        BY <4>1, <4>2
      <4> QED
        BY <4>3 DEF A
    <3> QED
      BY <1>2, <3>1, <3>2
  <2>3. CASE ~request.p710bt
    <3>1. \A e \in InWindow : e[2] - Feed = e[2]
      BY <2>1, <2>3 DEF Feed
    <3> QED
      BY <1>2, <2>3, <3>1 DEF Staged
  <2> QED
    BY <2>2, <2>3
<1>4. \A e \in InWindow : e[2] - Feed < Rows
  <2> SUFFICES ASSUME NEW e \in InWindow PROVE e[2] - Feed < Rows
    OBVIOUS
  <2>1. /\ e[2] \in 0 .. page.height - 1
        /\ page.height \in Nat /\ 35 <= page.height /\ page.height <= 2125
    BY InkOnPage, Sent DEF InWindow
  <2>2. CASE request.p710bt
    <3>1. PICK d \in PackWindow(raster) : d[2] = e[2]
      <4>1. <<PinOf(e), e[2]>> \in PackWindow(raster)
        BY <1>2
      <4> QED
        BY <4>1
    <3>2. ~EndRow(d[2])
      BY <2>2, Sent DEF InkAtEnds
    <3>3. ~(e[2] + 14 >= page.height)
      BY <3>1, <3>2 DEF EndRow, EndMargin
    <3>4. Feed = 14
      BY <2>2, Sent
    <3> DEFINE y == e[2]
               h == page.height
    <3>5. y \in 0 .. h - 1 /\ h \in Nat /\ 35 <= h /\ h <= 2125 /\ ~(y + 14 >= h)
      BY <2>1, <3>3
    <3> HIDE DEF y, h
    <3>6. y - 14 < h - 2 * 14
      BY <3>5
    <3>7. e[2] - 14 < page.height - 2 * 14
      BY <3>6 DEF y, h
    <3>8. Rows = page.height - 2 * 14
      BY <3>4, Zenon DEF Rows
    <3>9. e[2] - Feed = e[2] - 14
      BY <3>4, Zenon
    <3> QED
      BY <3>7, <3>8, <3>9, Zenon
  <2>3. CASE ~request.p710bt
    <3>1. Feed = 0
      BY <2>3, Sent
    <3>2. e[2] - 0 < page.height - 2 * 0
      <4> DEFINE y == e[2]
                 h == page.height
      <4>1. y \in 0 .. h - 1 /\ h \in Nat /\ 35 <= h /\ h <= 2125
        BY <2>1
      <4> HIDE DEF y, h
      <4>2. y - 0 < h - 2 * 0
        BY <4>1
      <4> QED
        BY <4>2 DEF y, h
    <3>3. Rows = page.height - 2 * 0
      BY <3>1, Zenon DEF Rows
    <3>4. e[2] - Feed = e[2] - 0
      BY <3>1, Zenon
    <3> QED
      BY <3>2, <3>3, <3>4, Zenon
  <2> QED
    BY <2>2, <2>3
<1> QED
  BY <1>1, <1>3, <1>4

(* The rows sent and the feed at both ends add up to the page, which is as *)
(* long as the job said within a dot; some row is sent, and never more     *)
(* than the staging buffer holds; the printer is told of just these rows   *)
(* and this feed, each row as wide as its head; and the rows with ink are  *)
(* those of the window on the page.                                        *)
THEOREM RowsExactCorrect == Spec => []RowsExact
<1>1. IInv => RowsExact
  <2> SUFFICES ASSUME IInv, stage = "sent" PROVE RowsExact
    BY Zenon DEF RowsExact
  <2>1. sent.rows = Rows /\ sent.header = RowHeader(request.p710bt)
    BY Sent DEF Transmitted
  <2>2. /\ page.height \in Nat /\ 35 <= page.height /\ page.height <= 2125
        /\ Feed \in {0, 14}
        /\ request.p710bt => Feed = 14
    BY Sent
  <2>3. Rows \in Nat /\ 7 <= Rows /\ Rows <= 2125 /\ Rows + 2 * Feed = page.height
    <3> DEFINE h == page.height
               f == Feed
               n == Rows
    <3>1. h \in Nat /\ 35 <= h /\ h <= 2125 /\ f \in {0, 14}
      BY <2>2
    <3>2. n = h - 2 * f
      BY Zenon DEF Rows
    <3> HIDE DEF h, f, n
    <3>3. n \in Nat /\ 7 <= n /\ n <= 2125 /\ n + 2 * f = h
      BY <3>1, <3>2
    <3> QED
      BY <3>3 DEF h, f, n
  <2>4. Dots(RollMax) = 2125
    BY DEF Dots, RollMax
  <2>5. sent.rows >= 1 /\ sent.rows + 2 * Feed = page.height /\ sent.rows <= Dots(RollMax)
    BY <2>1, <2>3, <2>4
  <2>6. request.p710bt => Number(sent.declared[1]) = sent.rows
                          /\ Number(sent.declared[2]) = Feed
    <3> SUFFICES ASSUME request.p710bt
                 PROVE  Number(sent.declared[1]) = sent.rows
                        /\ Number(sent.declared[2]) = Feed
      OBVIOUS
    <3>1. sent.declared = <<Bytes(Rows, 4), Bytes(EndMargin, 2)>>
      BY Sent DEF Transmitted
    <3>2. Number(Bytes(Rows, 4)) = Rows
      BY <2>3, RowsDeclared
    <3>3. sent.declared[1] = Bytes(Rows, 4) /\ sent.declared[2] = Bytes(EndMargin, 2)
      BY <3>1
    <3>4. Feed = EndMargin
      BY <2>2 DEF EndMargin
    <3> QED
      BY <2>1, <3>2, <3>3, <3>4, FeedDeclared, Zenon
  <2>7. RowLength(sent.header) * 8 = HeadPins
    BY <2>1, WholeRow, Sent, Requested
  <2>8. request.sizeLength # Omitted =>
          Near(page.height * 2540, request.sizeLength * 180, 2540)
    BY SubmittedLength
  <2>9. {d[2] + Feed : d \in sent.ink} =
          {d[2] : d \in {e \in raster : e[1] \in Tape.left .. Tape.right - 1}}
    <3>1. \A e \in InWindow : e[2] - Feed + Feed = e[2]
      BY <2>2, InkOnPage DEF InWindow
    <3>2. {d[2] + Feed : d \in sent.ink} = {e[2] - Feed + Feed : e \in InWindow}
      <4>1. ASSUME NEW e \in InWindow
            PROVE  \E d \in sent.ink : e[2] - Feed + Feed = d[2] + Feed
        <5>1. <<PinOf(e), e[2] - Feed>> \in sent.ink
          BY SentInk
        <5> QED
          BY <5>1
      <4>2. ASSUME NEW d \in sent.ink
            PROVE  \E e \in InWindow : d[2] + Feed = e[2] - Feed + Feed
        <5>1. PICK e \in InWindow : d = <<PinOf(e), e[2] - Feed>>
          BY SentInk
        <5> QED
          BY <5>1
      <4> QED
        BY <4>1, <4>2
    <3>3. {e[2] - Feed + Feed : e \in InWindow} = {e[2] : e \in InWindow}
      BY <3>1
    <3> QED
      BY <3>2, <3>3 DEF InWindow
  <2> QED
    BY <2>5, <2>6, <2>7, <2>8, <2>9, Zenon DEF RowsExact
<1> QED
  BY <1>1, IInvCorrect, PTL

-----------------------------------------------------------------------------
(* The ink of a PNG, from its pixels to the pins of the head.              *)

SentPng == IInv /\ stage = "sent" /\ IsPng

(* The tape whose window the preflight has used is the one the page        *)
(* matches, and the page is as wide as its window or one dot narrower.     *)
LEMMA PngTape ==
    ASSUME SentPng
    PROVE  /\ PageTape \in Tapes /\ Tape = Geometries[PageTape]
           /\ page.width = Tape.nominal \/ (PageTape = 12 /\ page.width = 84)
           /\ Left(page) >= Tape.left /\ Left(page) + Span(page) <= Tape.right
           /\ Matching(page) # {}
<1>1. Placing /\ page \in PageType /\ PageFits(page)
  BY Sent DEF SentPng
<1>2. page.width = Dots(page.sizeWidth) /\ page.sizeWidth \in Nat
  BY <1>1, ImageOf DEF PageType
<1>3. Matching(page) # {}
  BY <1>1 DEF PageFits
<1>4. /\ PageTape \in Tapes /\ Min(Matching(page)) = PageTape
      /\ page.width = Geometries[PageTape].nominal \/ (PageTape = 12 /\ page.width = 84)
  BY <1>2, <1>3, OneTape DEF PageTape
<1> QED
  BY <1>1, <1>3, <1>4 DEF PageFits, Tape

LEMMA EvenWindow ==
    ASSUME NEW mm \in Tapes, NEW g, g = Geometries[mm]
    PROVE  2 * ((HeadPins - g.px) \div 2) = 128 - g.px /\ g.px \in Nat
<1> USE DEF HeadPins
<1>1. CASE mm = 6
  BY <1>1, Tape6
<1>2. CASE mm = 9
  BY <1>2, Tape9
<1>3. CASE mm = 12
  BY <1>3, Tape12
<1>4. CASE mm = 18
  BY <1>4, Tape18
<1>5. CASE mm = 24
  BY <1>5, Tape24
<1> QED
  BY <1>1, <1>2, <1>3, <1>4, <1>5, TheTapes

(* Every dot printed is one of the page, which is a sample of some pixel.  *)
LEMMA InkTraced ==
    ASSUME SentPng, NEW e \in raster
    PROVE  \E p \in image.ink : \E x \in Samples(p[1], image.cross, XSize),
                                  y \in Samples(p[2], image.along, YSize) :
              e = <<Column(x), Row(y)>>
  BY Sent, PlacedOf DEF SentPng

LEMMA InkInside ==
    ASSUME SentPng, NEW e \in raster
    PROVE  /\ e[1] \in Int /\ Left(page) <= e[1] /\ e[1] < Left(page) + Span(page)
           /\ e[2] \in 0 .. page.height - 1 /\ e = <<e[1], e[2]>>
           /\ e[1] \in Tape.left .. Tape.right - 1
<1>1. Placing
  BY Sent DEF SentPng
<1>2. PICK p \in image.ink : \E x \in Samples(p[1], image.cross, XSize),
                                y \in Samples(p[2], image.along, YSize) :
                                e = <<Column(x), Row(y)>>
  BY InkTraced
<1>3. PICK x \in Samples(p[1], image.cross, XSize),
           y \in Samples(p[2], image.along, YSize) : e = <<Column(x), Row(y)>>
  BY <1>2
<1>4. /\ Column(x) \in Int /\ Left(page) <= Column(x)
      /\ Column(x) < Left(page) + Span(page)
  BY <1>1, ColumnOf
<1>5. Row(y) \in 0 .. page.height - 1
  BY <1>1, RowOf
<1>6. /\ Left(page) >= Tape.left /\ Left(page) + Span(page) <= Tape.right
      /\ Left(page) \in Int /\ Span(page) \in Int /\ Tape.left \in Int /\ Tape.right \in Int
  <2>1. PICK mm \in Tapes : Tape = Geometries[mm]
    BY PngTape
  <2>2. /\ Tape.left \in Nat /\ 3 <= Tape.left /\ Tape.left <= 21
        /\ Tape.px \in Nat /\ 32 <= Tape.px /\ Tape.px <= 128
        /\ Tape.right = Tape.left + Tape.px
    BY <2>1, TapeFacts
  <2> QED
    BY <1>1, <2>2, PngTape, ImageOf
<1> QED
  BY <1>3, <1>4, <1>5, <1>6

(* No ink is lost: the window and the rows hold all of it.                 *)
LEMMA InkKept ==
    ASSUME SentPng
    PROVE  /\ Cardinality(sent.ink) = Cardinality(raster)
           /\ sent.ink = {<<PinOf(e), e[2] - Feed>> : e \in raster}
<1>1. /\ page.height \in Nat /\ 35 <= page.height /\ page.height <= 2125 /\ Feed \in {0, 14}
  BY Sent DEF SentPng
<1>2. PICK mm \in Tapes : Tape = Geometries[mm]
  BY PngTape
<1>3. Tape.left \in Int /\ Tape.right \in Int
  <2>1. /\ Tape.left \in Nat /\ 3 <= Tape.left /\ Tape.left <= 21
        /\ Tape.px \in Nat /\ 32 <= Tape.px /\ Tape.px <= 128
        /\ Tape.right = Tape.left + Tape.px
    BY <1>2, TapeFacts
  <2> QED
    BY <2>1
<1>4. IsFiniteSet(raster)
  <2> DEFINE box == (Tape.left .. Tape.right - 1) \X (0 .. page.height - 1)
  <2>1. \A a \in Int : \A b \in Int : IsFiniteSet(a .. b - 1)
    <3>1. \A a \in Int : \A b \in Int : IsFiniteSet(a .. b)
      BY FS_Interval
    <3> QED
      BY <3>1
  <2>2. IsFiniteSet(Tape.left .. Tape.right - 1) /\ IsFiniteSet(0 .. page.height - 1)
    <3>1. page.height \in Int
      BY <1>1
    <3>2. IsFiniteSet(Tape.left .. Tape.right - 1)
      BY <1>3, <2>1, Zenon
    <3>3. 0 \in Int
      OBVIOUS
    <3>4. IsFiniteSet(0 .. page.height - 1)
      BY <2>1, <3>1, <3>3, Zenon
    <3> QED
      BY <3>2, <3>4
  <2>3. IsFiniteSet(box)
    BY <2>2, FS_Product
  <2>4. raster \in SUBSET box
    <3>1. ASSUME NEW e \in raster PROVE e \in box
      BY InkInside
    <3> QED
      BY <3>1
  <2> QED
    BY <2>3, <2>4, FS_Subset
<1>5. InWindow = raster
  BY InkInside DEF InWindow
<1>6. sent.ink = {<<PinOf(e), e[2] - Feed>> : e \in raster}
  BY <1>5, SentInk DEF SentPng
<1> DEFINE f == [e \in raster |-> <<PinOf(e), e[2] - Feed>>]
<1>7. f \in Surjection(raster, sent.ink)
  BY <1>6 DEF Surjection
<1>8. IsInjective(f)
  <2> SUFFICES ASSUME NEW a \in raster, NEW b \in raster, f[a] = f[b] PROVE a = b
    BY DEF IsInjective
  <2>1. PinOf(a) = PinOf(b) /\ a[2] - Feed = b[2] - Feed
    BY Zenon
  <2>2. /\ a[1] \in Int /\ a[2] \in Int /\ b[1] \in Int /\ b[2] \in Int
        /\ a = <<a[1], a[2]>> /\ b = <<b[1], b[2]>>
    BY InkInside
  <2>3. a[2] = b[2]
    BY <1>1, <2>1, <2>2
  <2>4. PICK half \in Int : half = (HeadPins - Tape.px) \div 2
    <3>1. Tape.px \in Nat /\ 32 <= Tape.px /\ Tape.px <= 128
      BY <1>2, TapeFacts
    <3> QED
      BY <3>1 DEF HeadPins
  <2>5. half + a[1] - Tape.left = half + b[1] - Tape.left
    BY <2>1, <2>4 DEF PinOf
  <2>6. a[1] = b[1]
    BY <1>3, <2>2, <2>4, <2>5
  <2> QED
    BY <2>2, <2>3, <2>6
<1>9. f \in Bijection(raster, sent.ink)
  BY <1>7, <1>8 DEF Bijection, Injection, Surjection
<1>10. ExistsBijection(raster, sent.ink)
  BY <1>9 DEF ExistsBijection
<1> QED
  BY <1>4, <1>6, <1>10, FS_Bijection

(* Submitted margins stay blank.                                           *)
LEMMA MarginsBlank ==
    ASSUME SentPng, NEW d \in raster
    PROVE  /\ request.left # Omitted => (d[1] + 1) * 2540 >= request.left * 180
           /\ request.right # Omitted =>
                 (page.width - d[1]) * 2540 >= request.right * 180
<1>1. Placing /\ page \in PageType /\ page = LabelPage /\ request \in Jobs("png")
  BY Sent, ImageOf DEF SentPng, Placing
<1>2. /\ request.left # Omitted => page.left = request.left
      /\ request.right # Omitted => page.right = request.right
  BY <1>1, LabelPageType
<1> DEFINE l == page.left
           r == page.right
           w == page.width
           c == d[1]
           dl == Dots(l)
           both == Dots(l + r)
<1>3. l \in Nat /\ r \in Nat /\ w \in Nat /\ l + r \in Nat
  BY <1>1 DEF PageType
<1>4. c \in Int /\ dl <= c /\ c < dl + (w - both)
  BY InkInside DEF Left, Span
<1> HIDE DEF l, r, w, c, dl, both
<1>5. dl \in Nat /\ 2540 * dl <= 180 * l /\ 180 * l < 2540 * dl + 2540
  BY <1>3, DotsOf DEF dl
<1>6. both \in Nat /\ 180 * (l + r) < 2540 * both + 2540
  BY <1>3, DotsOf DEF both
<1>7. (c + 1) * 2540 >= l * 180 /\ (w - c) * 2540 >= r * 180
  BY <1>3, <1>4, <1>5, <1>6
<1> QED
  BY <1>2, <1>7 DEF l, r, w, c

(* Along the tape, a row is where its pixel is.                            *)
LEMMA AlongInPlace ==
    ASSUME SentPng, NEW p \in image.ink, NEW y \in Samples(p[2], image.along, YSize)
    PROVE  Near(AlongLabel(Row(y) - Feed) * Ppi(request),
                FromMiddle(p[2], AlongOf(request), Back(request)) * 180,
                3 * Ppi(request) + 180)
<1> DEFINE P == Ppi(request)
           asked == FromMiddle(p[2], image.along, Back(request)) * 180
           off == (2 * Row(y) + 1 - page.height) * P - asked
           row == Row(y)
           h == page.height
<1>1. Placing /\ Feed \in {0, 14}
  BY Sent DEF SentPng
<1>2. /\ row \in 0 .. h - 1
      /\ off \in Int /\ -180 - 3 * P < off /\ off < 180 + 2 * P
  BY <1>1, RowOf
<1>3. P \in Nat \ {0} /\ h \in Nat /\ image.along = AlongOf(request)
  BY <1>1, ImageOf
<1>4. AlongLabel(row - Feed) = 2 * row + 1 - h
  <2> HIDE DEF row
  <2>1. row \in Int
    BY <1>2, <1>3
  <2>2. 2 * (row - Feed + Feed) + 1 - h = 2 * row + 1 - h
    BY <1>1, <1>3, <2>1
  <2> QED
    BY <2>2 DEF AlongLabel
<1>5. asked \in Int
  <2>1. p[2] \in Int /\ image.along \in Int
    <3>1. p[2] \in 0 .. image.along - 1
      BY <1>1, InkOf
    <3> QED
      BY <1>1, <3>1, ImageOf
  <2> QED
    BY <2>1 DEF FromMiddle
<1>6. off = (2 * row + 1 - h) * P - asked
  OBVIOUS
<1> HIDE DEF P, asked, off, row, h
<1>7. Near((2 * row + 1 - h) * P, asked, 3 * P + 180)
  BY <1>2, <1>3, <1>5, <1>6 DEF Near
<1> QED
  BY <1>3, <1>4, <1>7 DEF P, asked, row

(* The page's margins are those of its tape: where a column is printed.    *)
LEMMA PrintedAt ==
    ASSUME SentPng, request.left = Omitted, request.right = Omitted,
           NEW x \in Int, NEW printed,
           printed = PinFromMiddle((HeadPins - Tape.px) \div 2 + x - Tape.left)
    PROVE  /\ Left(page) = Tape.left
           /\ Tape.px - Span(page) \in {0, 1}
           /\ Tape.px - Span(page) = 1 => PageTape = 12
           /\ printed = (2 * (x - Left(page)) + 1 - Span(page)) - (Tape.px - Span(page))
           /\ printed \in Int
<1>1. PICK mm \in Tapes : mm = PageTape /\ Tape = Geometries[mm]
  BY PngTape
<1> DEFINE g == Tape
           w == page.width
<1>2. /\ g.nominal \in Nat /\ 42 <= g.nominal /\ g.nominal <= 170
      /\ g.px \in Nat /\ 32 <= g.px /\ g.px <= 128
      /\ g.left \in Nat /\ 3 <= g.left /\ g.left <= 21
      /\ Dots(g.leftMargin) = g.left
      /\ g.nominal - Dots(g.leftMargin + g.rightMargin) = g.px
      /\ mm = 12 => g.nominal = 85
      /\ g.leftMargin \in Nat /\ 53 <= g.leftMargin /\ g.leftMargin <= 297
      /\ g.rightMargin \in Nat /\ 57 <= g.rightMargin /\ g.rightMargin <= 297
  BY <1>1, TapeFacts
<1>3. page.left = g.leftMargin /\ page.right = g.rightMargin /\ Matching(page) # {}
  <2>1. page = LabelPage /\ request \in Jobs("png")
    BY Sent, ImageOf DEF SentPng, Placing
  <2> QED
    BY <2>1, LabelPageType, PngTape DEF Tape
<1>4. w = g.nominal \/ (mm = 12 /\ w = 84)
  BY <1>1, PngTape
<1>5. Left(page) = g.left /\ Span(page) = w - Dots(g.leftMargin + g.rightMargin)
  BY <1>2, <1>3 DEF Left, Span
<1>6. Dots(g.leftMargin + g.rightMargin) \in Int
  <2>1. g.leftMargin \in Nat /\ g.rightMargin \in Nat
    BY <1>2
  <2>2. PICK n \in Nat : n = g.leftMargin + g.rightMargin
    BY <2>1
  <2>3. Dots(n) \in Int
    BY DotsOf
  <2> QED
    BY <2>2, <2>3
<1>7. PICK half \in Int : half = (HeadPins - g.px) \div 2 /\ 2 * half = 128 - g.px
  <2>1. 2 * ((HeadPins - g.px) \div 2) = 128 - g.px
    BY <1>1, EvenWindow
  <2>2. (HeadPins - g.px) \div 2 \in Int
    BY <1>2 DEF HeadPins
  <2> QED
    BY <2>1, <2>2
<1>8. printed = 2 * (half + x - g.left - 64) + 1
  <2>1. \A pin \in Int : PinFromMiddle(pin) = 2 * (pin - 64) + 1
    BY DEF PinFromMiddle, HeadPins
  <2>2. PICK pin \in Int : pin = half + x - g.left
    BY <1>2
  <2>3. printed = PinFromMiddle(pin)
    BY <1>7, <2>2
  <2>4. printed = 2 * (pin - 64) + 1
    BY <2>1, <2>3
  <2>5. pin - 64 = half + x - g.left - 64
    BY <1>2, <2>2
  <2> QED
    BY <2>4, <2>5
<1> DEFINE both == Dots(g.leftMargin + g.rightMargin)
           span == Span(page)
<1>9. /\ span = w - both /\ both \in Int /\ g.nominal - both = g.px
      /\ g.nominal \in Int /\ g.px \in Int /\ g.left \in Int
  BY <1>2, <1>5, <1>6
<1> HIDE DEF g, w, both, span
<1>10. g.px - span = 0 \/ (g.px - span = 1 /\ mm = 12)
  BY <1>2, <1>4, <1>9
<1>11. span \in Int
  BY <1>4, <1>9
<1>12. printed = (2 * (x - g.left) + 1 - span) - (g.px - span) /\ printed \in Int
  <2>1. 2 * half = 128 - g.px
    BY <1>7
  <2> DEFINE px == g.px
             left == g.left
  <2>2. px \in Int /\ left \in Int /\ 2 * half = 128 - px
        /\ printed = 2 * (half + x - left - 64) + 1
    BY <1>8, <1>9, <2>1
  <2> HIDE DEF px, left
  <2>3. printed = (2 * (x - left) + 1 - span) - (px - span) /\ printed \in Int
    BY <1>11, <2>2
  <2> QED
    BY <2>3 DEF px, left
<1> QED
  BY <1>1, <1>5, <1>10, <1>12 DEF g, span

LEMMA TurnedCanvas ==
    ASSUME NEW P \in Nat \ {0}, NEW off \in Int, NEW D \in Int,
           NEW c \in {0, 1}, NEW narrow \in {0, 1}, narrow <= c,
           -180 - 3 * P < off, off < 180,
           c * P - P - 180 < D, D < c * P + 180
    PROVE  /\ -360 - 4 * P <= off + D - narrow * P
           /\ off + D - narrow * P <= 360 + 4 * P
<1>1. CASE c = 0
  BY <1>1
<1>2. CASE c = 1
  BY <1>2
<1> QED
  BY <1>1, <1>2

LEMMA PlainCanvas ==
    ASSUME NEW P \in Nat \ {0}, NEW off \in Int, NEW D \in Int,
           NEW c \in {0, -1}, NEW narrow \in {0, 1},
           -180 - P < off, off < 180 + 2 * P,
           c * P - P - 180 < D, D < c * P + 180
    PROVE  /\ -360 - 4 * P <= off - D - narrow * P
           /\ off - D - narrow * P <= 360 + 4 * P
<1>1. CASE c = 0
  BY <1>1
<1>2. CASE c = -1
  BY <1>2
<1> QED
  BY <1>1, <1>2

(* Across the tape, a pin prints what is before it: no canvas compacted.   *)
LEMMA AcrossOfImage ==
    ASSUME SentPng, request.left = Omitted, request.right = Omitted,
           image = Upright, Printable(Upright, Geometries[PageTape]),
           NEW p \in image.ink, NEW x \in Samples(p[1], image.cross, XSize),
           NEW printed,
           printed = PinFromMiddle((HeadPins - Tape.px) \div 2 + Column(x) - Tape.left)
    PROVE  AcrossInPlace(request, printed,
                         FromMiddle(p[1], CrossOf(request), Reverse(request)))
<1> DEFINE P == Ppi(request)
           asked == FromMiddle(p[1], image.cross, Reverse(request))
           at == Column(x)
           off == (2 * (at - Left(page)) + 1 - Span(page)) * P - asked * 180
           narrow == Tape.px - Span(page)
           mid == 2 * (at - Left(page)) + 1 - Span(page)
<1>1. Placing /\ request \in Jobs("png")
  BY Sent DEF SentPng, Placing
<1>2. /\ P \in Nat \ {0} /\ image.cross = CrossOf(request) /\ image.cross \in Nat
      /\ Left(page) \in Nat /\ Span(page) \in Int
  BY <1>1, ImageOf, UprightOf
<1>3. /\ at \in Int /\ off \in Int /\ -180 - 3 * P < off /\ off < 180 + 2 * P
  <2>1. /\ at \in Int /\ off \in Int
        /\ Reverse(request) => -180 - 3 * P < off /\ off < 180
        /\ ~Reverse(request) => -180 - P < off /\ off < 180 + 2 * P
    BY <1>1, ColumnOf
  <2> HIDE DEF off, P
  <2> QED
    BY <1>2, <2>1
<1>4. narrow \in {0, 1} /\ printed = mid - narrow /\ printed \in Int
  BY <1>3, PrintedAt
<1>5. asked \in Int
  <2>1. p[1] \in 0 .. image.cross - 1
    BY <1>1, InkOf
  <2>2. p[1] \in Int /\ image.cross \in Int
    BY <1>2, <2>1
  <2> QED
    BY <2>2 DEF FromMiddle
<1>6. mid \in Int /\ off = mid * P - asked * 180
  BY <1>2, <1>3
<1>7. -180 - 4 * P <= printed * P - asked * 180 /\ printed * P - asked * 180 <= 180 + 4 * P
  <2> HIDE DEF P, asked, at, off, narrow, mid
  <2>1. printed * P = mid * P - narrow * P
    BY <1>2, <1>4, <1>6
  <2>2. narrow * P = 0 \/ narrow * P = P
    BY <1>2, <1>4
  <2>3. mid * P \in Int /\ asked * 180 \in Int
    BY <1>2, <1>5, <1>6
  <2> QED
    BY <1>2, <1>3, <1>6, <2>1, <2>2, <2>3
<1>8. Near(printed * P, asked * 180, 4 * P + 180) /\ Near(printed * P, asked * 180, 4 * P + 360)
  <2> HIDE DEF P, asked
  <2>1. printed * P \in Int /\ asked * 180 \in Int
    BY <1>2, <1>4, <1>5
  <2> QED
    BY <1>2, <1>7, <2>1 DEF Near
<1>9. ~(P = 180 /\ CrossOf(request) = Tape.nominal)
  <2> SUFFICES ASSUME P = 180, CrossOf(request) = Tape.nominal PROVE FALSE
    OBVIOUS
  <2>1. Scaled(image.cross, P) <= Tape.px
    BY PngTape DEF Printable
  <2>2. Scaled(image.cross, 180) = image.cross
    BY <1>2 DEF Scaled
  <2>3. /\ Tape.px \in Nat /\ 32 <= Tape.px /\ Tape.px <= 128
        /\ Tape.nominal \in Nat /\ 42 <= Tape.nominal /\ Tape.nominal <= 170
        /\ Tape.px < Tape.nominal
    <3>1. PICK mm \in Tapes : Tape = Geometries[mm]
      BY PngTape
    <3> QED
      BY <3>1, TapeFacts
  <2>4. image.cross <= Tape.px
    BY <2>1, <2>2
  <2> QED
    BY <1>2, <2>3, <2>4
<1> QED
  BY <1>2, <1>8, <1>9 DEF AcrossInPlace

(* What has been cut from a compacted canvas, as WindowOf and CanvasMiddle *)
(* bound it.                                                               *)
Cut(W) == (WindowFirst(Tape) + WindowLast(Tape) - W) * 180

LEMMA CutOf ==
    ASSUME SentPng, NEW W \in Nat, Scaled(W, Ppi(request)) = Tape.nominal,
           NEW D, D = Cut(W), NEW par, par = Tape.nominal - Tape.px - 2 * Tape.left,
           NEW P, P = Ppi(request)
    PROVE  /\ D \in Int /\ par \in {0, 1}
           /\ Reverse(request) => par * P - P - 180 < D /\ D < par * P + 180
           /\ ~Reverse(request) => (-par) * P - P - 180 < D /\ D < (-par) * P + 180
<1> DEFINE g == Tape
           f == FirstDot(g)
           first == WindowFirst(g)
           last == WindowLast(g)
           nominal == g.nominal
           px == g.px
           c == 2 * f + px - nominal
<1>1. PICK mm \in Tapes : g = Geometries[mm]
  BY PngTape
<1>2. request \in Jobs("png") /\ P \in Nat \ {0}
  <2>1. request \in Jobs("png")
    BY Sent DEF SentPng, Placing
  <2> QED
    BY <2>1, Requested
<1>3. /\ nominal \in Nat /\ 42 <= nominal /\ nominal <= 170
      /\ px \in Nat /\ 32 <= px /\ px <= 128
      /\ g.left \in Nat /\ 3 <= g.left /\ g.left <= 21
      /\ g.right = g.left + px /\ par \in {0, 1}
  BY <1>1, TapeFacts
<1>4. /\ f \in Nat /\ first \in Nat /\ last \in Nat
      /\ f * P <= 180 * first /\ 180 * first <= f * P + 179
      /\ 180 * last <= (f + px) * P /\ (f + px) * P < 180 * last + 180
  BY <1>1, <1>2, WindowOf
<1>5. nominal \in Nat /\ px \in Nat /\ g.left \in Nat /\ c \in Int
  <2>1. nominal \in Nat /\ px \in Nat /\ g.left \in Nat
    BY <1>3
  <2> HIDE DEF nominal, px, f
  <2> QED
    BY <1>4, <2>1
<1>6. P * nominal <= W * 180 /\ W * 180 < P * nominal + P
  BY <1>2, ScaledOf
<1>7. D \in Int /\ c * P - P - 180 < D /\ D < c * P + 180
  <2>1. D = (first + last - W) * 180 /\ 2 * f + px - nominal = c
    BY DEF Cut
  <2> HIDE DEF f, first, last, nominal, px, c
  <2>2. c * P - P - 180 < (first + last - W) * 180 /\ (first + last - W) * 180 < c * P + 180
    BY <1>2, <1>4, <1>5, <1>6, <2>1, CanvasMiddle
  <2>3. (first + last - W) * 180 \in Int
    BY <1>4
  <2> QED
    BY <2>1, <2>2, <2>3
<1>8. CASE Reverse(request)
  <2>1. f = nominal - g.right
    BY <1>8 DEF FirstDot
  <2>2. c = par
    BY <1>3, <1>5, <2>1
  <2> QED
    BY <1>3, <1>7, <1>8, <2>2
<1>9. CASE ~Reverse(request)
  <2>1. f = g.left
    BY <1>9 DEF FirstDot
  <2>2. c = -par
    BY <1>3, <1>5, <2>1
  <2> QED
    BY <1>3, <1>7, <1>9, <2>2
<1> QED
  BY <1>8, <1>9

LEMMA AcrossOfCanvas ==
    ASSUME SentPng, request.left = Omitted, request.right = Omitted,
           image = Compacted(Upright, Geometries[PageTape]), image # Upright,
           BlankMargins(Upright, Geometries[PageTape]),
           NEW p \in image.ink, NEW x \in Samples(p[1], image.cross, XSize),
           NEW printed,
           printed = PinFromMiddle((HeadPins - Tape.px) \div 2 + Column(x) - Tape.left)
    PROVE  Near(printed * Ppi(request),
                FromMiddle(p[1] + Shift, CrossOf(request), Reverse(request)) * 180,
                4 * Ppi(request) + 360)
<1> DEFINE P == Ppi(request)
           W == CrossOf(request)
           w == image.cross
           first == WindowFirst(Tape)
           last == WindowLast(Tape)
           here == FromMiddle(p[1], w, Reverse(request))
           asked == FromMiddle(p[1] + Shift, W, Reverse(request))
           at == Column(x)
           mid == 2 * (at - Left(page)) + 1 - Span(page)
           off == mid * P - here * 180
           narrow == Tape.px - Span(page)
           par == Tape.nominal - Tape.px - 2 * Tape.left
           D == Cut(W)
<1>1. Placing /\ request \in Jobs("png")
  BY Sent DEF SentPng, Placing
<1>2. /\ P \in Nat \ {0} /\ W \in Nat /\ w \in Nat
      /\ Left(page) \in Nat /\ Span(page) \in Int
      /\ Upright.cross = W
  BY <1>1, ImageOf, UprightOf
<1>3. /\ at \in Int /\ off \in Int
      /\ Reverse(request) => -180 - 3 * P < off /\ off < 180
      /\ ~Reverse(request) => -180 - P < off /\ off < 180 + 2 * P
  BY <1>1, ColumnOf
<1>4. /\ narrow \in {0, 1} /\ printed = mid - narrow /\ printed \in Int
      /\ narrow = 1 => PageTape = 12
  BY <1>3, PrintedAt
<1>5. /\ w = last - first /\ Shift = first /\ Scaled(W, P) = Tape.nominal
      /\ first \in Nat /\ last \in Nat
  <2>1. Tape = Geometries[PageTape] /\ PageTape \in Tapes
    BY PngTape
  <2>2. w = last - first
    BY <2>1 DEF Compacted, Upright
  <2>3. Shift = first
    BY <2>1 DEF Shift
  <2>4. Scaled(W, P) = Tape.nominal
    BY <1>2, <2>1 DEF BlankMargins
  <2> QED
    BY <1>1, <2>1, <2>2, <2>3, <2>4, WindowOf
<1>6. /\ D \in Int /\ par \in {0, 1}
      /\ Reverse(request) => par * P - P - 180 < D /\ D < par * P + 180
      /\ ~Reverse(request) => (-par) * P - P - 180 < D /\ D < (-par) * P + 180
  BY <1>2, <1>5, CutOf
<1>7. narrow <= par
  <2>1. PageTape = 12 => par = 1
    <3>1. PICK mm \in Tapes : mm = PageTape /\ Tape = Geometries[mm]
      BY PngTape
    <3> QED
      BY <3>1, Tape12
  <2> HIDE DEF narrow, par
  <2> QED
    BY <1>4, <1>6, <2>1
<1>8. p[1] \in Int
  <2>1. p[1] \in 0 .. image.cross - 1
    BY <1>1, InkOf
  <2> QED
    BY <1>2, <2>1
<1>9. mid \in Int
  BY <1>2, <1>3
<1>10. here \in Int /\ asked \in Int
  BY <1>2, <1>5, <1>8 DEF FromMiddle
<1>11. printed * P - asked * 180 = off + (here * 180 - asked * 180) - narrow * P
  <2> HIDE DEF P, here, asked, mid, narrow
  <2>1. printed * P = mid * P - narrow * P
    BY <1>2, <1>4, <1>9
  <2>2. mid * P \in Int /\ here * 180 \in Int /\ asked * 180 \in Int /\ narrow * P \in Int
    BY <1>2, <1>4, <1>9, <1>10
  <2> QED
    BY <2>1, <2>2
<1>12. Near(printed * P, asked * 180, 4 * P + 360)
  <2> SUFFICES /\ -360 - 4 * P <= printed * P - asked * 180
               /\ printed * P - asked * 180 <= 360 + 4 * P
    <3> HIDE DEF P, asked
    <3>1. printed * P \in Int /\ asked * 180 \in Int
      BY <1>2, <1>4, <1>10
    <3> QED
      BY <1>2, <3>1 DEF Near
  <2>1. CASE Reverse(request)
    <3>1. here * 180 - asked * 180 = D
      <4>1. here = -(2 * p[1] + 1 - w) /\ asked = -(2 * (p[1] + first) + 1 - W)
        BY <1>2, <1>5, <1>8, <2>1 DEF FromMiddle
      <4>2. D = (first + last - W) * 180
        BY DEF Cut
      <4> DEFINE a == p[1]
      <4> HIDE DEF here, asked, W, w, first, last, D, a
      <4> QED
        BY <1>2, <1>5, <1>8, <4>1, <4>2 DEF a
    <3> HIDE DEF P, here, asked, off, narrow, par, D
    <3>2. -360 - 4 * P <= off + D - narrow * P /\ off + D - narrow * P <= 360 + 4 * P
      BY <1>2, <1>3, <1>4, <1>6, <1>7, <2>1, TurnedCanvas
    <3> QED
      BY <1>11, <3>1, <3>2
  <2>2. CASE ~Reverse(request)
    <3>1. here * 180 - asked * 180 = -D
      <4>1. here = 2 * p[1] + 1 - w /\ asked = 2 * (p[1] + first) + 1 - W
        BY <1>2, <1>5, <1>8, <2>2 DEF FromMiddle
      <4>2. D = (first + last - W) * 180
        BY DEF Cut
      <4> DEFINE a == p[1]
      <4> HIDE DEF here, asked, W, w, first, last, D, a
      <4> QED
        BY <1>2, <1>5, <1>8, <4>1, <4>2 DEF a
    <3> HIDE DEF P, here, asked, off, narrow, par, D
    <3>2. PICK c \in {0, -1} : c = -par
      BY <1>6
    <3>3. c * P - P - 180 < D /\ D < c * P + 180
      BY <1>6, <2>2, <3>2
    <3>4. -360 - 4 * P <= off - D - narrow * P /\ off - D - narrow * P <= 360 + 4 * P
      BY <1>2, <1>3, <1>4, <1>6, <2>2, <3>2, <3>3, PlainCanvas
    <3>5. off + (-D) - narrow * P = off - D - narrow * P
      BY <1>2, <1>3, <1>4, <1>6
    <3> QED
      BY <1>11, <3>1, <3>4, <3>5
  <2> QED
    BY <2>1, <2>2
<1> QED
  BY <1>12

(* A compacted canvas is narrower than it was.                             *)
LEMMA Narrower ==
    ASSUME SentPng, BlankMargins(Upright, Geometries[PageTape])
    PROVE  Compacted(Upright, Geometries[PageTape]) # Upright
<1> DEFINE P == Ppi(request)
           W == CrossOf(request)
           g == Geometries[PageTape]
           f == FirstDot(g)
           first == WindowFirst(g)
           last == WindowLast(g)
           px == g.px
           nominal == g.nominal
<1> SUFFICES ASSUME Compacted(Upright, g) = Upright PROVE FALSE
  OBVIOUS
<1>1. Placing /\ request \in Jobs("png")
  BY Sent DEF SentPng, Placing
<1>2. P \in Nat \ {0} /\ W \in Nat /\ Upright.cross = W
  BY <1>1, ImageOf, UprightOf
<1>3. W = last - first
  BY <1>2 DEF Compacted, Upright
<1>4. PICK mm \in Tapes : g = Geometries[mm]
  BY PngTape
<1>5. nominal \in Nat /\ px \in Nat /\ px < nominal
  <2>1. /\ nominal \in Nat /\ 42 <= nominal /\ nominal <= 170
        /\ px \in Nat /\ 32 <= px /\ px <= 128
        /\ px < nominal
    BY <1>4, TapeFacts
  <2> QED
    BY <2>1
<1>6. /\ f \in Nat /\ first \in Nat /\ last \in Nat
      /\ f * P <= 180 * first /\ 180 * last <= (f + px) * P
  BY <1>1, <1>4, WindowOf
<1>7. P * nominal <= W * 180
  <2>1. Scaled(W, P) = nominal
    BY <1>2 DEF BlankMargins
  <2> QED
    BY <1>2, <2>1, ScaledOf
<1> HIDE DEF P, W, g, f, first, last, px, nominal
<1>8. (f + px) * P = f * P + P * px /\ f * P \in Nat /\ P * px \in Nat
  BY <1>2, <1>5, <1>6
<1>9. W * 180 <= P * px
  BY <1>2, <1>3, <1>6, <1>8
<1>10. P * nominal >= P * px + P
  BY <1>2, <1>5
<1>11. P * nominal \in Nat
  BY <1>2, <1>5
<1> QED
  BY <1>2, <1>7, <1>8, <1>9, <1>10, <1>11

(* At 180 dpi the canvas of a tape is printed dot for dot.                 *)
LEMMA ExactCanvas ==
    ASSUME SentPng, request.left = Omitted, request.right = Omitted,
           image = Compacted(Upright, Geometries[PageTape]), image # Upright,
           NEW p \in image.ink, NEW x \in Samples(p[1], image.cross, XSize),
           NEW printed,
           printed = PinFromMiddle((HeadPins - Tape.px) \div 2 + Column(x) - Tape.left),
           Ppi(request) = 180, CrossOf(request) = Tape.nominal
    PROVE  printed - FromMiddle(p[1] + Shift, CrossOf(request), Reverse(request)) \in {0, 1}
<1> DEFINE px == Tape.px
           nominal == Tape.nominal
           f == FirstDot(Tape)
           w == image.cross
           first == WindowFirst(Tape)
           last == WindowLast(Tape)
           at == p[1]
           span == Span(page)
           left == Left(page)
<1>1. Placing /\ request \in Jobs("png")
  BY Sent DEF SentPng, Placing
<1>2. PICK mm \in Tapes : Tape = Geometries[mm] /\ mm = PageTape
  BY PngTape
<1>3. /\ nominal \in Nat /\ px \in Nat /\ Tape.left \in Nat
      /\ Tape.right = Tape.left + px /\ nominal - px - 2 * Tape.left \in {0, 1}
  <2>1. /\ nominal \in Nat /\ 42 <= nominal /\ nominal <= 170
        /\ px \in Nat /\ 32 <= px /\ px <= 128
        /\ Tape.left \in Nat /\ 3 <= Tape.left /\ Tape.left <= 21
        /\ Tape.right = Tape.left + px /\ nominal - px - 2 * Tape.left \in {0, 1}
    BY <1>2, TapeFacts
  <2> QED
    BY <2>1
<1>4. first = f /\ last = f + px /\ f \in Nat
  <2>1. /\ f \in Nat /\ first \in Nat /\ last \in Nat
        /\ f * 180 <= 180 * first /\ 180 * first <= f * 180 + 179
        /\ 180 * last <= (f + px) * 180 /\ (f + px) * 180 < 180 * last + 180
    BY <1>1, <1>2, WindowOf
  <2> HIDE DEF f, first, last, px
  <2> QED
    BY <1>3, <2>1
<1>5. w = px /\ Shift = f
  <2>1. w = last - first
    BY <1>2 DEF Compacted, Upright
  <2>2. Shift = first
    BY <1>2 DEF Shift
  <2> HIDE DEF f, first, last, px, w
  <2> QED
    BY <1>3, <1>4, <2>1, <2>2
<1>6. XSize = px /\ px <= span /\ px # 0 /\ left \in Nat /\ span \in Int
  <2>1. XSize <= span /\ w \in Nat \ {0} /\ left \in Nat /\ span \in Int
    BY <1>1, ImageOf
  <2>2. XSize = w
    BY <2>1 DEF XSize, Scaled
  <2> QED
    BY <1>5, <2>1, <2>2
<1>7. x = at /\ at \in Nat /\ at < px
  <2>1. at \in 0 .. w - 1
    BY <1>1, InkOf
  <2>2. at \in Nat /\ at < px
    BY <1>3, <1>5, <2>1
  <2>3. x \in Nat /\ at * px <= x * px /\ x * px < at * px + px
    BY <1>3, <1>5, <1>6, <2>2, SampleOf
  <2> HIDE DEF at, px
  <2>4. x = at
    BY <1>3, <1>6, <2>2, <2>3
  <2> QED
    BY <2>2, <2>4
<1>8. /\ left = Tape.left /\ px - span \in {0, 1}
      /\ Column(x) \in Int => printed = (2 * (Column(x) - left) + 1 - span) - (px - span)
  BY PrintedAt
<1>9. span = px
  <2> HIDE DEF span, px
  <2> QED
    BY <1>3, <1>6, <1>8
<1>10. Column(x) = left + Turned(at, px, Reverse(request))
  <2>1. Column(x) = left + (px - px) \div 2 + Turned(at, px, Reverse(request))
    BY <1>6, <1>7, <1>9 DEF Column
  <2>2. (px - px) \div 2 = 0
    <3> HIDE DEF px
    <3> QED
      BY <1>3
  <2>3. left + 0 = left
    BY <1>6
  <2> QED
    BY <2>1, <2>2, <2>3
<1>11. CASE Reverse(request)
  <2>1. Column(x) = left + (px - 1 - at)
    BY <1>10, <1>11 DEF Turned
  <2>2. f = nominal - Tape.right
    BY <1>11 DEF FirstDot
  <2>3. FromMiddle(at + f, nominal, Reverse(request)) = -(2 * (at + f) + 1 - nominal)
    BY <1>3, <1>4, <1>7, <1>11 DEF FromMiddle
  <2> DEFINE c == Column(x)
             tl == Tape.left
             tr == Tape.right
             asked == FromMiddle(at + f, nominal, Reverse(request))
  <2>4. c \in Int
    <3> HIDE DEF px, at, left
    <3> QED
      BY <1>3, <1>6, <1>7, <2>1
  <2>5. printed = (2 * (c - left) + 1 - span) - (px - span)
    BY <1>8, <2>4
  <2>6. /\ c = left + (px - 1 - at) /\ f = nominal - tr /\ tr = tl + px
        /\ asked = -(2 * (at + f) + 1 - nominal) /\ nominal - px - 2 * tl \in {0, 1}
        /\ tl \in Nat
    BY <1>3, <2>1, <2>2, <2>3
  <2> HIDE DEF c, tl, tr, asked, px, nominal, f, at, span, left
  <2>7. printed - asked = nominal - px - 2 * tl
    BY <1>3, <1>4, <1>6, <1>7, <1>9, <2>4, <2>5, <2>6
  <2> QED
    BY <1>5, <2>6, <2>7 DEF asked, at, nominal
<1>12. CASE ~Reverse(request)
  <2>1. Column(x) = left + at
    BY <1>10, <1>12 DEF Turned
  <2>2. f = Tape.left
    BY <1>12 DEF FirstDot
  <2>3. FromMiddle(at + f, nominal, Reverse(request)) = 2 * (at + f) + 1 - nominal
    BY <1>3, <1>4, <1>7, <1>12 DEF FromMiddle
  <2> DEFINE c == Column(x)
             tl == Tape.left
             asked == FromMiddle(at + f, nominal, Reverse(request))
  <2>4. c \in Int
    <3> HIDE DEF px, at, left
    <3> QED
      BY <1>3, <1>6, <1>7, <2>1
  <2>5. printed = (2 * (c - left) + 1 - span) - (px - span)
    BY <1>8, <2>4
  <2>6. /\ c = left + at /\ f = tl
        /\ asked = 2 * (at + f) + 1 - nominal /\ nominal - px - 2 * tl \in {0, 1}
        /\ tl \in Nat
    BY <1>3, <2>1, <2>2, <2>3
  <2> HIDE DEF c, tl, asked, px, nominal, f, at, span, left
  <2>7. printed - asked = nominal - px - 2 * tl
    BY <1>3, <1>4, <1>6, <1>7, <1>9, <2>4, <2>5, <2>6
  <2> QED
    BY <1>5, <2>6, <2>7 DEF asked, at, nominal
<1> QED
  BY <1>11, <1>12

LEMMA AcrossPlaced ==
    ASSUME SentPng, request.left = Omitted, request.right = Omitted,
           NEW p \in image.ink, NEW x \in Samples(p[1], image.cross, XSize),
           NEW printed,
           printed = PinFromMiddle((HeadPins - Tape.px) \div 2 + Column(x) - Tape.left)
    PROVE  AcrossInPlace(request, printed,
                         FromMiddle(p[1] + Shift, CrossOf(request), Reverse(request)))
<1> DEFINE g == Geometries[PageTape]
<1>1. Placing /\ IsPng /\ request \in Jobs("png")
  BY Sent DEF SentPng, Placing
<1>2. \/ Printable(Upright, g) /\ image = Upright
      \/ BlankMargins(Upright, g) /\ image = Compacted(Upright, g)
  BY <1>1 DEF Placing, ImageInv, Preflighted
<1>3. CASE Printable(Upright, g) /\ image = Upright
  <2>1. p[1] + Shift = p[1]
    <3>1. p[1] \in 0 .. image.cross - 1 /\ image.cross \in Nat
      BY <1>1, InkOf, ImageOf
    <3>2. Shift = 0
      BY <1>3 DEF Shift
    <3> QED
      BY <3>1, <3>2
  <2> QED
    BY <1>3, <2>1, AcrossOfImage
<1>4. CASE BlankMargins(Upright, g) /\ image = Compacted(Upright, g)
  <2>1. image # Upright
    BY <1>4, Narrower
  <2>2. Scaled(CrossOf(request), Ppi(request)) = Tape.nominal
    BY <1>1, <1>4, PngTape, UprightOf DEF BlankMargins
  <2>3. Near(printed * Ppi(request),
             FromMiddle(p[1] + Shift, CrossOf(request), Reverse(request)) * 180,
             4 * Ppi(request) + 360)
    BY <1>4, <2>1, AcrossOfCanvas
  <2>4. Ppi(request) = 180 /\ CrossOf(request) = Tape.nominal =>
          printed - FromMiddle(p[1] + Shift, CrossOf(request), Reverse(request)) \in {0, 1}
    BY <1>4, <2>1, ExactCanvas
  <2> QED
    BY <2>2, <2>3, <2>4 DEF AcrossInPlace
<1> QED
  BY <1>2, <1>3, <1>4

(* An accepted PNG keeps all its ink inside the window the head prints and *)
(* inside submitted margins, and each dot printed is that of a pixel, as   *)
(* far from the middle of the label as that is from the middle of the      *)
(* image: within half a pixel and one and a half dots along the tape and   *)
(* two across it, a pixel and two dots if a canvas was compacted, at every *)
(* resolution, and exactly on a 180 dpi canvas of its tape.                *)
THEOREM InkInPlaceCorrect == Spec => []InkInPlace
<1>1. IInv => InkInPlace
  <2> SUFFICES ASSUME SentPng PROVE InkInPlace
    BY DEF InkInPlace, SentPng
  <2> DEFINE r == request
  <2>1. Cardinality(sent.ink) = Cardinality(raster)
    BY InkKept
  <2>2. \A d \in raster :
          /\ r.left # Omitted => (d[1] + 1) * 2540 >= r.left * 180
          /\ r.right # Omitted => (page.width - d[1]) * 2540 >= r.right * 180
    BY MarginsBlank
  <2>3. ASSUME NEW s \in sent.ink
        PROVE  \E d \in r.ink :
                 /\ Near(AlongLabel(s[2]) * Ppi(r),
                         FromMiddle(AlongAt(r, d), AlongOf(r), Back(r)) * 180,
                         3 * Ppi(r) + 180)
                 /\ r.left = Omitted /\ r.right = Omitted =>
                       AcrossInPlace(r, PinFromMiddle(s[1]),
                           FromMiddle(CrossAt(r, d), CrossOf(r), Reverse(r)))
    <3>1. PICK e \in raster : s = <<PinOf(e), e[2] - Feed>>
      BY InkKept
    <3>2. PICK p \in image.ink : \E x \in Samples(p[1], image.cross, XSize),
                                    y \in Samples(p[2], image.along, YSize) :
                                    e = <<Column(x), Row(y)>>
      BY InkTraced
    <3>3. PICK x \in Samples(p[1], image.cross, XSize),
               y \in Samples(p[2], image.along, YSize) : e = <<Column(x), Row(y)>>
      BY <3>2
    <3>4. PICK d \in request.ink :
             p[2] = AlongAt(request, d) /\ p[1] + Shift = CrossAt(request, d)
      <4>1. Placing
        BY Sent DEF SentPng
      <4> QED
        BY <4>1, InkOf
    <3>5. s[2] = Row(y) - Feed /\ s[1] = (HeadPins - Tape.px) \div 2 + Column(x) - Tape.left
      BY <3>1, <3>3 DEF PinOf
    <3>6. Near(AlongLabel(s[2]) * Ppi(r),
               FromMiddle(AlongAt(r, d), AlongOf(r), Back(r)) * 180, 3 * Ppi(r) + 180)
      BY <3>4, <3>5, AlongInPlace
    <3>7. r.left = Omitted /\ r.right = Omitted =>
             AcrossInPlace(r, PinFromMiddle(s[1]),
                 FromMiddle(CrossAt(r, d), CrossOf(r), Reverse(r)))
      BY <3>4, <3>5, AcrossPlaced
    <3> QED
      BY <3>4, <3>6, <3>7
  <2> QED
    BY <2>1, <2>2, <2>3 DEF InkInPlace
<1> QED
  BY <1>1, IInvCorrect, PTL
=============================================================================
