------------------------- MODULE PictureView_proofs -------------------------
(***************************************************************************)
(* The geometry of PictureView for every size, window and storage: the     *)
(* crop stays inside what the source declares, chroma stays with its luma, *)
(* and healthy pictures are seen.                                          *)
(***************************************************************************)
EXTENDS PictureView, TLAPS

Axis == [off : Nat, len : Nat]

\* Aligning an axis: even, inside, and at most one pixel lost at each end.
LEMMA AlignedAxis ==
    ASSUME NEW a \in Axis
    PROVE  /\ AlignAxis(a) \in Axis
           /\ AlignAxis(a).len > 0 => AxisInside(AlignAxis(a), a) /\ AlignAxis(a).off % 2 = 0
<1>1. a.off \in Nat /\ a.len \in Nat /\ a = [off |-> a.off, len |-> a.len]
  BY DEF Axis
<1>2. CASE a.len <= 0
  BY <1>1, <1>2 DEF AlignAxis, Axis
<1>3. CASE a.len > 0
  <2> DEFINE start == a.off + (a.off % 2)
             end   == (a.off + a.len) - ((a.off + a.len) % 2)
  <2>1. start \in Nat /\ start % 2 = 0 /\ start >= a.off /\ start <= a.off + 1
    BY <1>1
  <2>2. end \in Nat /\ end <= a.off + a.len /\ end >= a.off + a.len - 1
    BY <1>1
  <2>3. AlignAxis(a) = [off |-> start, len |-> IF end > start THEN end - start ELSE 0]
    BY <1>1, <1>3 DEF AlignAxis
  <2> HIDE DEF start, end
  <2> QED BY <1>1, <2>1, <2>2, <2>3 DEF Axis, AxisInside
<1> QED BY <1>1, <1>2, <1>3

\* What a format declares is a pair of axes.
LEMMA DeclaredAxes ==
    ASSUME NEW f \in Formats
    PROVE  /\ Declared(f.visW, f.width, f.x) \in Axis
           /\ Declared(f.visH, f.height, f.y) \in Axis
           /\ f.chroma \in DOMAIN Layout
           /\ f.width \in Nat /\ f.height \in Nat
<1>1. f.visW \in Nat /\ f.visH \in Nat
  <2>1. \A w \in Widths : 0 .. w \subseteq Nat
    BY ViewAssumption
  <2>2. \A h \in Heights : 0 .. h \subseteq Nat
    BY ViewAssumption
  <2>3. f.visW \in UNION {0 .. w : w \in Widths} /\ f.visH \in UNION {0 .. h : h \in Heights}
    BY DEF Formats
  <2> QED BY <2>1, <2>2, <2>3
<1>2. f.width \in Nat /\ f.height \in Nat /\ f.x \in Nat /\ f.y \in Nat
  BY ViewAssumption DEF Formats
<1>3. f.chroma \in DOMAIN Layout
  BY ChromaAssumption DEF Formats
<1> QED BY <1>1, <1>2, <1>3 DEF Declared, Axis

\* The descriptors: a group spans one or two pixels on each axis, two only where
\* the crop is aligned.
LEMMA Groups ==
    ASSUME NEW c \in DOMAIN Layout, NEW i \in DOMAIN Layout[c]
    PROVE  LET g == Layout[c][i]
           IN  /\ g.gx \in {1, 2} /\ g.gy \in {1, 2} /\ g.gb \in {1, 2, 3} /\ g.pitch \in {1, 3}
               /\ g.gx = 2 => c \in SubW
               /\ g.gy = 2 => c \in SubH
<1>1. CASE c = "YUV420P"
  BY <1>1 DEF Layout, Luma, Group, SubW, SubH
<1>2. CASE c = "YUV422P"
  BY <1>2 DEF Layout, Luma, Group, SubW, SubH
<1>3. CASE c = "YUV444P"
  BY <1>3 DEF Layout, Luma, Group, SubW, SubH
<1>4. CASE c = "NV12"
  BY <1>4 DEF Layout, Luma, Group, SubW, SubH
<1>5. CASE c = "RGB24"
  BY <1>5 DEF Layout, Luma, Group, SubW, SubH
<1> QED BY <1>1, <1>2, <1>3, <1>4, <1>5 DEF Layout

\* The source crop: inside the declared window, and starting with a group on
\* every plane.
LEMMA SourceCrop ==
    ASSUME NEW f \in Formats,
           ResolveSourceCrop(f).x.len > 0, ResolveSourceCrop(f).y.len > 0
    PROVE  LET r == ResolveSourceCrop(f)
           IN  /\ r.x \in Axis /\ r.y \in Axis
               /\ r.width = f.width /\ r.height = f.height
               /\ AxisInside(r.x, Declared(f.visW, f.width, f.x))
               /\ AxisInside(r.y, Declared(f.visH, f.height, f.y))
               /\ f.chroma \in SubW => r.x.off % 2 = 0
               /\ f.chroma \in SubH => r.y.off % 2 = 0
<1> DEFINE x == Declared(f.visW, f.width, f.x)
           y == Declared(f.visH, f.height, f.y)
           r == ResolveSourceCrop(f)
<1>1. x \in Axis /\ y \in Axis
  BY DeclaredAxes
<1>2. /\ r.x = IF f.chroma \in SubW THEN AlignAxis(x) ELSE x
      /\ r.y = IF f.chroma \in SubH THEN AlignAxis(y) ELSE y
      /\ r.width = f.width /\ r.height = f.height
  BY DEF ResolveSourceCrop
<1>3. AxisInside(x, x) /\ AxisInside(y, y)
  BY <1>1 DEF Axis, AxisInside
<1> HIDE DEF x, y
<1>4. r.x \in Axis /\ AxisInside(r.x, x) /\ (f.chroma \in SubW => r.x.off % 2 = 0)
  BY <1>1, <1>2, <1>3, AlignedAxis
<1>5. r.y \in Axis /\ AxisInside(r.y, y) /\ (f.chroma \in SubH => r.y.off % 2 = 0)
  BY <1>1, <1>2, <1>3, AlignedAxis
<1> QED BY <1>2, <1>4, <1>5 DEF x, y

-----------------------------------------------------------------------------
\* A window that starts with a group: its pixels count groups from there.
LEMMA FromGroupStart ==
    ASSUME NEW off \in Nat, NEW n \in Nat, NEW g \in {1, 2}, g = 2 => off % 2 = 0
    PROVE  (off + n) \div g = (off \div g) + (n \div g)
<1>1. CASE g = 1
  BY <1>1
<1>2. CASE g = 2
  BY <1>2
<1> QED BY <1>1, <1>2

\* A pixel of the window lies in a group before the window's last.
LEMMA BeforeLastGroup ==
    ASSUME NEW end \in Nat, NEW n \in Nat, n < end, NEW g \in {1, 2}
    PROVE  /\ Up(end, g) \in Nat
           /\ n \div g \in Nat
           /\ (n \div g) + 1 <= Up(end, g)
<1>1. CASE g = 1
  BY <1>1 DEF Up
<1>2. CASE g = 2
  BY <1>2 DEF Up
<1> QED BY <1>1, <1>2

\* Byte col of row row of a plane.
LEMMA RowAndColumn ==
    ASSUME NEW row \in Nat, NEW pitch \in Nat, NEW col \in Nat, col < pitch
    PROVE  /\ row * pitch + col >= 0
           /\ (row * pitch + col) \div pitch = row
           /\ (row * pitch + col) % pitch = col
OBVIOUS

-----------------------------------------------------------------------------
\* A picture has the planes of its chroma, and they have integer sizes.
Sized(p) ==
    /\ DOMAIN p.planes = DOMAIN Layout[p.chroma]
    /\ \A i \in DOMAIN p.planes : p.planes[i].pitch \in Int /\ p.planes[i].lines \in Int

LEMMA AllocatedSized ==
    ASSUME NEW c \in DOMAIN Layout, NEW w \in Int, NEW h \in Int
    PROVE  \A i \in DOMAIN Allocated(c, w, h) :
              /\ Allocated(c, w, h)[i].pitch \in Int
              /\ Allocated(c, w, h)[i].lines \in Int
<1> SUFFICES ASSUME NEW i \in DOMAIN Layout[c]
             PROVE  Allocated(c, w, h)[i].pitch \in Int /\ Allocated(c, w, h)[i].lines \in Int
  BY DEF Allocated
<1>1. Layout[c][i].gx \in {1, 2} /\ Layout[c][i].gy \in {1, 2} /\ Layout[c][i].gb \in {1, 2, 3}
  BY Groups
<1>2. Up(w, Layout[c][i].gx) \in Int /\ Up(h, Layout[c][i].gy) \in Int
  BY <1>1 DEF Up
<1> QED BY <1>1, <1>2 DEF Allocated

LEMMA PicturesSized ==
    ASSUME NEW f \in Formats, NEW p \in Pictures(f)
    PROVE  Sized(p)
<1>1. CASE p \in { Picture(c, f, Allocated(c, f.width, f.height)) : c \in Chromas }
  <2>1. PICK c \in Chromas : p = Picture(c, f, Allocated(c, f.width, f.height))
    BY <1>1
  <2>2. p.chroma = c /\ p.planes = Allocated(c, f.width, f.height)
    BY <2>1 DEF Picture
  <2>3. DOMAIN p.planes = DOMAIN Layout[p.chroma]
    BY <2>2 DEF Allocated
  <2> QED BY <2>2, <2>3, AllocatedSized, DeclaredAxes, ChromaAssumption DEF Sized
<1>2. CASE p \notin { Picture(c, f, Allocated(c, f.width, f.height)) : c \in Chromas }
  <2>1. PICK d \in Drifted(f) : p \in { Picture(f.chroma, d, planes) : planes \in Stored(f.chroma, d) }
    BY <1>2 DEF Pictures
  <2>2. PICK planes \in Stored(f.chroma, d) : p = Picture(f.chroma, d, planes)
    BY <2>1
  <2> DEFINE A == Allocated(f.chroma, d.width, d.height)
  <2>3. PICK by \in [plane : DOMAIN A, pitch : Slack, lines : Slack, pixelPitch : {0, 1}] :
          planes = [A EXCEPT ![by.plane] = Resized(@, by)]
    BY <2>2 DEF Stored
  <2>4. d.width \in Int /\ d.height \in Int
    <3>1. f.width \in Nat /\ f.height \in Nat /\ f.width + 1 \in Int /\ f.height - 1 \in Int
      BY DeclaredAxes
    <3>2. f = [chroma |-> f.chroma, width |-> f.width, height |-> f.height,
               visW |-> f.visW, visH |-> f.visH, x |-> f.x, y |-> f.y]
      BY DEF Formats
    <3>3. CASE d = f
      BY <3>1, <3>3
    <3>4. CASE d = [f EXCEPT !.visW = 0, !.visH = 0]
      BY <3>1, <3>2, <3>4
    <3>5. CASE d = [f EXCEPT !.width = @ + 1, !.height = @ - 1]
      BY <3>1, <3>2, <3>5
    <3>6. CASE d = [f EXCEPT !.visW = 1]
      BY <3>1, <3>2, <3>6
    <3> QED BY <3>3, <3>4, <3>5, <3>6 DEF Drifted
  <2>5. \A j \in DOMAIN A : A[j].pitch \in Int /\ A[j].lines \in Int
    BY <2>4, AllocatedSized, DeclaredAxes
  <2>6. p.planes = planes /\ DOMAIN A = DOMAIN Layout[p.chroma]
    BY <2>2 DEF Picture, Allocated
  <2>7. by.plane \in DOMAIN A /\ by.pitch \in Int /\ by.lines \in Int
    BY ViewAssumption
  <2> HIDE DEF A
  <2> SUFFICES ASSUME NEW j \in DOMAIN A
               PROVE  p.planes[j].pitch \in Int /\ p.planes[j].lines \in Int
    BY <2>3, <2>6 DEF Sized
  <2>8. CASE j = by.plane
    <3>1. p.planes[j] = Resized(A[j], by)
      BY <2>3, <2>6, <2>8
    <3> QED BY <2>5, <2>7, <3>1 DEF Resized
  <2>9. CASE j # by.plane
    BY <2>3, <2>5, <2>6, <2>9
  <2> QED BY <2>8, <2>9
<1> QED BY <1>1, <1>2

-----------------------------------------------------------------------------
\* Once the filter is open the region is the aligned crop of its format, and the
\* view is that of the current picture.
IInv ==
    /\ fmt \in Formats
    /\ stage = "open" =>
         /\ region = ResolveSourceCrop(fmt)
         /\ region.x.len > 0 /\ region.y.len > 0
    /\ pic = NoPic => view = <<>>
    /\ pic # NoPic =>
         /\ stage = "open"
         /\ Sized(pic)
         /\ view = ViewInit(pic, fmt.chroma, region)

LEMMA Inductive == Spec => []IInv
<1>1. Init => IInv
  BY DEF Init, IInv
<1>2. IInv /\ [Next]_vars => IInv'
  <2> SUFFICES ASSUME IInv, [Next]_vars PROVE IInv'
    OBVIOUS
  <2>1. CASE Open
    <3>1. pic = NoPic
      BY <2>1 DEF Open, IInv
    <3>2. stage' = "open" =>
            /\ region' = ResolveSourceCrop(fmt)
            /\ region'.x.len > 0 /\ region'.y.len > 0
      <4> HAVE stage' = "open"
      <4>1. ~(ResolveSourceCrop(fmt).x.len <= 0 \/ ResolveSourceCrop(fmt).y.len <= 0)
        BY <2>1 DEF Open
      <4>2. ResolveSourceCrop(fmt).x.len \in Nat /\ ResolveSourceCrop(fmt).y.len \in Nat
        BY DeclaredAxes, AlignedAxis DEF IInv, ResolveSourceCrop, Axis
      <4> QED BY <2>1, <4>1, <4>2 DEF Open
    <3> QED BY <2>1, <3>1, <3>2 DEF Open, IInv
  <2>2. CASE Frame
    <3>1. PICK p \in Pictures(fmt) : pic' = p /\ view' = ViewInit(p, fmt.chroma, region)
      BY <2>2 DEF Frame
    <3>2. Sized(p)
      BY <3>1, PicturesSized DEF IInv
    <3>3. pic' = NoPic => view' = <<>>
      BY <3>1 DEF NoPic, ViewInit
    <3> QED BY <2>2, <3>1, <3>2, <3>3 DEF Frame, IInv, Sized
  <2>3. CASE Return
    BY <2>3 DEF Return, IInv
  <2>4. CASE Declined
    BY <2>4 DEF Declined, vars, IInv, Sized
  <2>5. CASE UNCHANGED vars
    BY <2>5 DEF vars, IInv, Sized
  <2> QED BY <2>1, <2>2, <2>3, <2>4, <2>5 DEF Next
<1> QED BY <1>1, <1>2, PTL DEF Spec

-----------------------------------------------------------------------------
\* The aligned crop shows no pixel that the source hides and hides at most one at
\* each edge, for every size and window a source may declare.
THEOREM CropStaysInside == Spec => []CropInside
<1>1. IInv => CropInside
  BY SourceCrop DEF IInv, CropInside
<1> QED BY <1>1, Inductive, PTL

\* What an accepted view says of one of its planes.
LEMMA ViewedPlane ==
    ASSUME IInv, Viewed, NEW i \in DOMAIN view
    PROVE  LET g == Layout[fmt.chroma][i]
               plane == pic.planes[i]
           IN  /\ fmt.chroma \in DOMAIN Layout /\ i \in DOMAIN Layout[fmt.chroma]
               /\ region.x \in Axis /\ region.y \in Axis
               /\ g.gx = 2 => region.x.off % 2 = 0
               /\ g.gy = 2 => region.y.off % 2 = 0
               /\ plane.pitch \in Nat /\ plane.lines \in Nat
               /\ ExtentOk(plane, Extent(region, g))
               /\ view[i] = (region.y.off \div g.gy) * plane.pitch
                            + (region.x.off \div g.gx) * g.gb
<1> DEFINE c == fmt.chroma
           g == Layout[c][i]
           plane == pic.planes[i]
<1>1. view = ViewInit(pic, c, region) /\ Sized(pic) /\ stage = "open"
  BY DEF IInv, Viewed
<1>2. c \in DOMAIN Layout
  BY DeclaredAxes DEF IInv
<1>3. /\ \A j \in DOMAIN Layout[c] : ExtentOk(pic.planes[j], Extent(region, Layout[c][j]))
      /\ view = [j \in DOMAIN Layout[c] |->
                   LET e == Extent(region, Layout[c][j])
                   IN  e.y * pic.planes[j].pitch + e.xBytes]
  BY <1>1 DEF ViewInit, Viewed
<1>4. i \in DOMAIN Layout[c]
  BY <1>3
<1>5. ExtentOk(plane, Extent(region, g))
  BY <1>3, <1>4
<1>6. view[i] = (region.y.off \div g.gy) * plane.pitch + (region.x.off \div g.gx) * g.gb
  BY <1>3, <1>4 DEF Extent
<1>7. plane.pitch \in Nat /\ plane.lines \in Nat
  <2>1. pic.chroma = c
    BY <1>1 DEF ViewInit, Viewed
  <2>2. plane.pitch \in Int /\ plane.lines \in Int
    BY <1>1, <1>4, <2>1 DEF Sized
  <2> QED BY <1>5, <2>2 DEF ExtentOk
<1>8. /\ region.x \in Axis /\ region.y \in Axis
      /\ c \in SubW => region.x.off % 2 = 0
      /\ c \in SubH => region.y.off % 2 = 0
  BY <1>1, SourceCrop DEF IInv
<1>9. /\ g.gx = 2 => c \in SubW
      /\ g.gy = 2 => c \in SubH
  BY <1>2, <1>4, Groups
<1> QED BY <1>2, <1>4, <1>5, <1>6, <1>7, <1>8, <1>9

\* Pixel (px, py) of the window, in the rows and bytes of plane i.
LEMMA SampleAt ==
    ASSUME IInv, Viewed, NEW i \in DOMAIN view,
           NEW px \in 0 .. region.x.len - 1, NEW py \in 0 .. region.y.len - 1
    PROVE  LET g == Layout[fmt.chroma][i]
           IN  SampleOf(i, px, py) =
                  ((region.y.off + py) \div g.gy) * pic.planes[i].pitch
                  + ((region.x.off + px) \div g.gx) * g.gb
<1> DEFINE g == Layout[fmt.chroma][i]
           pitch == pic.planes[i].pitch
           x == region.x.off
           y == region.y.off
<1>1. /\ g.gx \in {1, 2} /\ g.gy \in {1, 2} /\ g.gb \in {1, 2, 3}
      /\ pitch \in Nat /\ x \in Nat /\ y \in Nat
      /\ g.gx = 2 => x % 2 = 0
      /\ g.gy = 2 => y % 2 = 0
      /\ view[i] = (y \div g.gy) * pitch + (x \div g.gx) * g.gb
  BY ViewedPlane, Groups DEF Axis
<1>2. px \in Nat /\ py \in Nat
  BY ViewedPlane DEF Axis
<1>3. (x + px) \div g.gx = (x \div g.gx) + (px \div g.gx)
  BY <1>1, <1>2, FromGroupStart
<1>4. (y + py) \div g.gy = (y \div g.gy) + (py \div g.gy)
  BY <1>1, <1>2, FromGroupStart
<1>5. SampleOf(i, px, py) = view[i] + (py \div g.gy) * pitch + (px \div g.gx) * g.gb
  BY DEF SampleOf
<1> HIDE DEF g, pitch, x, y
<1>6. /\ x \div g.gx \in Nat /\ px \div g.gx \in Nat
      /\ y \div g.gy \in Nat /\ py \div g.gy \in Nat
  BY <1>1, <1>2
<1>7. \A a, b, c, d, p, q \in Nat : (a * p + c * q) + b * p + d * q = (a + b) * p + (c + d) * q
  OBVIOUS
<1>8. SampleOf(i, px, py) = ((y + py) \div g.gy) * pitch + ((x + px) \div g.gx) * g.gb
  BY <1>1, <1>3, <1>4, <1>5, <1>6, <1>7
<1> QED BY <1>8 DEF g, pitch, x, y

\* Chroma is never read next to the wrong luma: the aligned crop starts with a
\* group on every plane that has groups.
THEOREM ChromaStaysInStep == Spec => []ChromaInStep
<1>1. IInv => ChromaInStep
  BY SampleAt DEF ChromaInStep
<1> QED BY <1>1, Inductive, PTL

\* Whatever the storage of a picture, an accepted view stays inside it.
THEOREM ViewsStayInStorage == Spec => []InStorage
<1>1. ASSUME IInv, Viewed, NEW i \in DOMAIN view,
             NEW px \in 0 .. region.x.len - 1, NEW py \in 0 .. region.y.len - 1
      PROVE  LET plane == pic.planes[i]
                 g     == Layout[fmt.chroma][i]
                 at    == SampleOf(i, px, py)
             IN  /\ at >= 0 /\ at \div plane.pitch < plane.lines
                 /\ (at % plane.pitch) + g.gb <= plane.pitch
  <2> DEFINE g == Layout[fmt.chroma][i]
             plane == pic.planes[i]
             x == region.x.off + px
             y == region.y.off + py
             xEnd == region.x.off + region.x.len
             yEnd == region.y.off + region.y.len
  <2>1. /\ g.gx \in {1, 2} /\ g.gy \in {1, 2} /\ g.gb \in {1, 2, 3}
        /\ plane.pitch \in Nat /\ plane.lines \in Nat
        /\ ExtentOk(plane, Extent(region, g))
    BY <1>1, ViewedPlane, Groups
  <2>2. /\ region.x.off \in Nat /\ region.y.off \in Nat
        /\ x \in Nat /\ y \in Nat /\ xEnd \in Nat /\ yEnd \in Nat
        /\ x < xEnd /\ y < yEnd
    BY <1>1, ViewedPlane DEF Axis
  <2>3. /\ Up(xEnd, g.gx) \in Nat /\ x \div g.gx \in Nat /\ (x \div g.gx) + 1 <= Up(xEnd, g.gx)
        /\ Up(yEnd, g.gy) \in Nat /\ y \div g.gy \in Nat /\ (y \div g.gy) + 1 <= Up(yEnd, g.gy)
    BY <2>1, <2>2, BeforeLastGroup
  <2>4. Up(xEnd, g.gx) * g.gb <= plane.pitch
    <3> DEFINE x0 == region.x.off \div g.gx
    <3>1. x0 \in Nat
      BY <2>1, <2>2
    <3>2. (Up(xEnd, g.gx) - x0) * g.gb <= plane.pitch - x0 * g.gb
      BY <2>1 DEF ExtentOk, Extent
    <3> HIDE DEF x0, xEnd, g, plane
    <3> QED BY <2>1, <2>3, <3>1, <3>2
  <2>5. Up(yEnd, g.gy) <= plane.lines
    <3> DEFINE y0 == region.y.off \div g.gy
    <3>1. y0 \in Nat
      BY <2>1, <2>2
    <3>2. Up(yEnd, g.gy) - y0 <= plane.lines - y0
      BY <2>1 DEF ExtentOk, Extent
    <3> HIDE DEF y0, yEnd, g, plane
    <3> QED BY <2>1, <2>3, <3>1, <3>2
  <2>6. SampleOf(i, px, py) = (y \div g.gy) * plane.pitch + (x \div g.gx) * g.gb
    BY <1>1, SampleAt
  <2> HIDE DEF g, plane, x, y, xEnd, yEnd
  <2>7. (x \div g.gx) * g.gb \in Nat /\ (x \div g.gx) * g.gb + g.gb <= plane.pitch
    BY <2>1, <2>3, <2>4
  <2>8. /\ SampleOf(i, px, py) >= 0
        /\ SampleOf(i, px, py) \div plane.pitch = y \div g.gy
        /\ SampleOf(i, px, py) % plane.pitch = (x \div g.gx) * g.gb
    <3> DEFINE row == y \div g.gy
               col == (x \div g.gx) * g.gb
               pitch == plane.pitch
    <3>1. row \in Nat /\ col \in Nat /\ pitch \in Nat /\ col < pitch
      BY <2>1, <2>3, <2>7
    <3>2. SampleOf(i, px, py) = row * pitch + col
      BY <2>6
    <3> HIDE DEF row, col, pitch
    <3>3. row * pitch + col >= 0 /\ (row * pitch + col) \div pitch = row
          /\ (row * pitch + col) % pitch = col
      BY <3>1, RowAndColumn
    <3> QED BY <3>2, <3>3 DEF row, col, pitch
  <2>9. y \div g.gy < plane.lines
    BY <2>1, <2>3, <2>5
  <2> QED BY <2>7, <2>8, <2>9 DEF g, plane
<1>2. IInv => InStorage
  BY <1>1 DEF InStorage
<1> QED BY <1>2, Inductive, PTL

\* The groups of a window that lies within n pixels.
LEMMA WindowGroups ==
    ASSUME NEW off \in Nat, NEW len \in Nat, len > 0,
           NEW n \in Nat, off + len <= n, NEW g \in {1, 2}
    PROVE  /\ off \div g \in Nat /\ Up(off + len, g) \in Nat /\ Up(n, g) \in Nat
           /\ (off \div g) + 1 <= Up(off + len, g)
           /\ Up(off + len, g) <= Up(n, g)
<1>1. CASE g = 1
  BY <1>1 DEF Up
<1>2. CASE g = 2
  BY <1>2 DEF Up
<1> QED BY <1>1, <1>2

\* A window inside the coded size fits a plane that has storage for that size.
LEMMA RoomForWindow ==
    ASSUME NEW c \in DOMAIN Layout, NEW i \in DOMAIN Layout[c],
           NEW r, r.x \in Axis, r.y \in Axis, r.x.len > 0, r.y.len > 0,
           NEW w \in Nat, NEW h \in Nat, r.x.off + r.x.len <= w, r.y.off + r.y.len <= h,
           NEW plane, plane.pitch \in Int, plane.lines \in Int,
           plane.pitch >= Allocated(c, w, h)[i].pitch, plane.lines >= Allocated(c, w, h)[i].lines
    PROVE  ExtentOk(plane, Extent(r, Layout[c][i]))
<1> DEFINE g == Layout[c][i]
           x0 == r.x.off \div g.gx
           y0 == r.y.off \div g.gy
           xEnd == Up(r.x.off + r.x.len, g.gx)
           yEnd == Up(r.y.off + r.y.len, g.gy)
<1>1. g.gx \in {1, 2} /\ g.gy \in {1, 2} /\ g.gb \in {1, 2, 3}
  BY Groups
<1>2. /\ r.x.off \in Nat /\ r.x.len \in Nat /\ r.y.off \in Nat /\ r.y.len \in Nat
  BY DEF Axis
<1>3. /\ x0 \in Nat /\ xEnd \in Nat /\ x0 + 1 <= xEnd /\ xEnd <= Up(w, g.gx) /\ Up(w, g.gx) \in Nat
  BY <1>1, <1>2, WindowGroups
<1>4. /\ y0 \in Nat /\ yEnd \in Nat /\ y0 + 1 <= yEnd /\ yEnd <= Up(h, g.gy) /\ Up(h, g.gy) \in Nat
  BY <1>1, <1>2, WindowGroups
<1>5. plane.pitch >= Up(w, g.gx) * g.gb /\ plane.lines >= Up(h, g.gy)
  BY DEF Allocated
<1>6. Extent(r, g) = [y |-> y0, rows |-> yEnd - y0, xBytes |-> x0 * g.gb, rowBytes |-> (xEnd - x0) * g.gb]
  BY DEF Extent
<1> HIDE DEF g, x0, y0, xEnd, yEnd
<1>7. ExtentOk(plane, Extent(r, g))
  BY <1>1, <1>3, <1>4, <1>5, <1>6 DEF ExtentOk
<1> QED BY <1>7 DEF g

\* No healthy picture is refused, whatever its size, window and padding.
THEOREM HealthyIsSeen == Spec => []HealthySeen
<1>1. ASSUME IInv,
             pic # NoPic,
             pic.chroma = fmt.chroma, pic.width = fmt.width, pic.height = fmt.height,
             pic.visW = fmt.visW, pic.visH = fmt.visH,
             Declared(fmt.visW, fmt.width, fmt.x).len + fmt.x <= fmt.width,
             Declared(fmt.visH, fmt.height, fmt.y).len + fmt.y <= fmt.height,
             LET need == Allocated(fmt.chroma, fmt.width, fmt.height)
             IN  \A i \in DOMAIN need : /\ pic.planes[i].pitch >= need[i].pitch
                                        /\ pic.planes[i].lines >= need[i].lines
                                        /\ pic.planes[i].pixelPitch = need[i].pixelPitch
      PROVE  Viewed
  <2> DEFINE c == fmt.chroma
             dx == Declared(fmt.visW, fmt.width, fmt.x)
             dy == Declared(fmt.visH, fmt.height, fmt.y)
  <2>1. /\ c \in DOMAIN Layout /\ fmt.width \in Nat /\ fmt.height \in Nat
        /\ dx \in Axis /\ dy \in Axis
    BY <1>1, DeclaredAxes DEF IInv
  <2>2. /\ region.x \in Axis /\ region.y \in Axis
        /\ region.width = fmt.width /\ region.height = fmt.height
        /\ AxisInside(region.x, dx) /\ AxisInside(region.y, dy)
        /\ region.x.len > 0 /\ region.y.len > 0
        /\ view = ViewInit(pic, c, region) /\ Sized(pic)
    BY <1>1, SourceCrop DEF IInv
  <2>3. /\ dx.off = fmt.x /\ dx.len = IF fmt.visW # 0 THEN fmt.visW ELSE fmt.width
        /\ dy.off = fmt.y /\ dy.len = IF fmt.visH # 0 THEN fmt.visH ELSE fmt.height
    BY DEF Declared
  <2>4. /\ region.x.off \in Nat /\ region.x.len \in Nat /\ region.y.off \in Nat /\ region.y.len \in Nat
        /\ dx.off \in Nat /\ dx.len \in Nat /\ dy.off \in Nat /\ dy.len \in Nat
        /\ dx.len + dx.off <= fmt.width /\ dy.len + dy.off <= fmt.height
        /\ region.x.off >= dx.off /\ region.x.off + region.x.len <= dx.off + dx.len
        /\ region.y.off >= dy.off /\ region.y.off + region.y.len <= dy.off + dy.len
    BY <1>1, <2>1, <2>2, <2>3 DEF Axis, AxisInside
  <2>5. region.x.len <= dx.len /\ region.y.len <= dy.len
        /\ region.x.off + region.x.len <= fmt.width /\ region.y.off + region.y.len <= fmt.height
    <3> HIDE DEF dx, dy
    <3> QED BY <2>1, <2>4
  <2>6. DeclaredCropOk(pic, region)
    <3> HIDE DEF dx, dy
    <3> QED BY <1>1, <2>1, <2>2, <2>3, <2>5 DEF DeclaredCropOk
  <2>7. \A i \in DOMAIN Layout[c] :
          /\ pic.planes[i].pixelPitch = Layout[c][i].pitch
          /\ ExtentOk(pic.planes[i], Extent(region, Layout[c][i]))
    <3> SUFFICES ASSUME NEW i \in DOMAIN Layout[c]
                 PROVE  /\ pic.planes[i].pixelPitch = Layout[c][i].pitch
                        /\ ExtentOk(pic.planes[i], Extent(region, Layout[c][i]))
      OBVIOUS
    <3>1. /\ pic.planes[i].pitch >= Allocated(c, fmt.width, fmt.height)[i].pitch
          /\ pic.planes[i].lines >= Allocated(c, fmt.width, fmt.height)[i].lines
          /\ pic.planes[i].pixelPitch = Allocated(c, fmt.width, fmt.height)[i].pixelPitch
      BY <1>1 DEF Allocated
    <3>2. pic.planes[i].pitch \in Int /\ pic.planes[i].lines \in Int
      BY <1>1, <2>2 DEF Sized
    <3>3. pic.planes[i].pixelPitch = Layout[c][i].pitch
      BY <3>1 DEF Allocated
    <3>4. ExtentOk(pic.planes[i], Extent(region, Layout[c][i]))
      BY <2>1, <2>2, <2>5, <3>1, <3>2, RoomForWindow
    <3> QED BY <3>3, <3>4
  <2>8. DOMAIN Layout[c] \subseteq DOMAIN pic.planes
    BY <1>1, <2>2 DEF Sized
  <2>9. view = [i \in DOMAIN Layout[c] |->
                  LET e == Extent(region, Layout[c][i])
                  IN  e.y * pic.planes[i].pitch + e.xBytes]
    BY <1>1, <2>2, <2>6, <2>7, <2>8 DEF ViewInit
  <2>10. 1 \in DOMAIN Layout[c]
    BY <2>1 DEF Layout
  <2>11. 1 \in DOMAIN view /\ 1 \notin DOMAIN <<>>
    BY <2>9, <2>10
  <2> QED BY <2>11 DEF Viewed
<1>2. IInv => HealthySeen
  BY <1>1 DEF HealthySeen
<1> QED BY <1>2, Inductive, PTL
=============================================================================
