----------------------------- MODULE MCGeometry -----------------------------
(* PNG and raster pages at the edges of every limit: one dot of ink, or    *)
(* none, on each side of each boundary.  More ink is a set of such dots.   *)
EXTENDS Geometry

Up(n, ppi) == (n * ppi + 179) \div 180

Submitted == {<<Omitted, Omitted>>, <<Omitted, 200>>, <<297, 297>>, <<53, 53>>}
Ends(n) == {0, EndMargin - 1, EndMargin, n \div 2, n - EndMargin - 1, n - EndMargin, n - 1} \cap 0 .. n - 1
Ways == {"none", "portrait", "landscape", "reverse-landscape", "reverse-portrait"}

Png(mm, size, length, ppi, way, cross, along, at, row, margins, p710bt) ==
    LET across == way \in {"landscape", "reverse-landscape"}
    IN  [kind |-> "png", default |-> mm, sizeWidth |-> size,
         sizeLength |-> length, xppi |-> ppi[1], yppi |-> ppi[2],
         orientation |-> way,
         width  |-> IF across THEN along ELSE cross,
         height |-> IF across THEN cross ELSE along,
         ink |-> IF at = Omitted THEN {} ELSE {IF across THEN <<row, at>> ELSE <<at, row>>},
         left |-> margins[1], right |-> margins[2], p710bt |-> p710bt]

Resolutions == {<<0, 0>>, <<300, 300>>, <<360, 360>>, <<180, 300>>}
Value(ppi) == IF ppi[1] = 0 THEN 180 ELSE ppi[1]

(* Across the tape: every tape, width, resolution, orientation and margin. *)
CrossPngs ==
    {LET g == Geometries[mm]
               p == Value(ppi)
           IN  {Png(18, size, Omitted, ppi, way, cross, Up(180, p), at,
                    Up(90, p), margins, TRUE) :
                  size \in mm * 100 - 1 .. mm * 100 + 1, way \in Ways,
                  cross \in {Up(n, p) : n \in {g.px - 1, g.px, g.px + 1, g.nominal}},
                  at \in {Omitted} \cup {Up(n, p) : n \in
                           {0, g.left - 1, g.left, g.right - 1, g.right}},
                  margins \in Submitted} :
           mm \in Tapes, ppi \in Resolutions}

(* Along the tape: lengths and rows.                                       *)
AlongPngs ==
    {LET p == Value(ppi)
           IN  {Png(mm, mm * 100, length, ppi, way, Up(20, p), along, Up(10, p),
                    row, <<Omitted, Omitted>>, p710bt) :
                  length \in {Omitted, 499, 500, 510, 5000, 30000},
                  way \in Ways,
                  row \in Ends(along), p710bt \in BOOLEAN} :
           mm \in {12}, ppi \in Resolutions \ {<<180, 300>>},
           along \in {Up(n, 180) : n \in {1, 35, 36, 255, 354, 2125, 2126, 4200}}}

MCPngs == {{r \in jobs : \A d \in r.ink : d[1] < r.width /\ d[2] < r.height} :
              jobs \in CrossPngs \cup AlongPngs}

Page(size, length, ppi, width, height, at, row, margins, p710bt) ==
    [kind |-> "raster", default |-> 12, sizeWidth |-> size,
     sizeLength |-> length, xppi |-> ppi, yppi |-> 180,
     orientation |-> "none", width |-> width, height |-> height, ink |-> IF at = Omitted THEN {} ELSE {<<at, row>>},
     left |-> margins[1], right |-> margins[2], p710bt |-> p710bt]

MCRasters ==
    {LET g == Geometries[mm]
           IN  {Page(size, Omitted, ppi, g.nominal - narrower, 180, at, 90, margins, TRUE) :
                  size \in {Omitted, mm * 100 - 1, mm * 100, mm * 100 + 1},
                  narrower \in {0, 1}, ppi \in {180, 360},
                  at \in {Omitted, g.left - 1, g.left, g.right - 1},
                  margins \in Submitted \cup {<<g.leftMargin, g.rightMargin>>}} :
           mm \in Tapes}
    \cup
    {{Page(1200, length, 180, 85, height, at, row, <<Omitted, Omitted>>, p710bt) :
              length \in {Omitted, 500, 30000}, at \in {Omitted, 3, 4},
              row \in Ends(height), p710bt \in BOOLEAN} :
           height \in {28, 34, 35, 36, 2125, 2126}}
=============================================================================
