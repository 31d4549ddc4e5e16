---------------------------- MODULE PictureView ----------------------------
(***************************************************************************)
(* Where the pixels of a picture are: the source crop, fixed when the      *)
(* filter opens and aligned for subsampled chroma                          *)
(* (src/src/chroma_classify.h, autoupscale.c), and the plane views every   *)
(* frame is read and written through (src/src/picture_view.h).  A picture  *)
(* of VLC may disagree with the format the filter was opened with, in what *)
(* it declares and in the storage behind it; a view is either in order on  *)
(* every plane or refused.                                                 *)
(***************************************************************************)
EXTENDS Integers

CONSTANTS
    Chromas,            \* the layouts in use, members of DOMAIN Layout
    Widths, Heights,    \* coded sizes
    XOffsets, YOffsets, \* where the visible window starts
    Slack               \* what a plane has in storage beyond its coded size; may be negative

ASSUME ViewAssumption ==
    /\ (Widths \cup Heights) \subseteq Nat \ {0}
    /\ (XOffsets \cup YOffsets) \subseteq Nat
    /\ Slack \subseteq Int

VARIABLES
    fmt,     \* fmt_in.video: chroma, coded size and visible window
    stage,   \* "asked", "declined" or "open"
    region,  \* the scaler's source region
    pic,     \* the last picture: what it declares, and its planes
    view     \* up_picture_view_t: where each plane starts, or <<>> when refused

vars == <<fmt, stage, region, pic, view>>

-----------------------------------------------------------------------------
(* The descriptors of chroma_classify.h: per plane, how many pixels a group   *)
(* spans on each axis, its bytes, and VLC's pixel pitch.                      *)
Group(gx, gb, gy, pitch) == [gx |-> gx, gb |-> gb, gy |-> gy, pitch |-> pitch]
Luma == Group(1, 1, 1, 1)

Layout ==
    [YUV420P |-> <<Luma, Group(2, 1, 2, 1), Group(2, 1, 2, 1)>>,
     YUV422P |-> <<Luma, Group(2, 1, 1, 1), Group(2, 1, 1, 1)>>,
     YUV444P |-> <<Luma, Luma, Luma>>,
     NV12    |-> <<Luma, Group(2, 2, 2, 1)>>,
     RGB24   |-> <<Group(1, 3, 1, 3)>>]

ASSUME ChromaAssumption == Chromas \subseteq DOMAIN Layout

SubW == {"YUV420P", "YUV422P", "NV12"}   \* sub_w is 1
SubH == {"YUV420P", "NV12"}              \* sub_h is 1

Up(n, g) == (n + g - 1) \div g

-----------------------------------------------------------------------------
(* The source crop *)

\* Wrong variant: the extent is rounded, the offset left odd.
AlignExtentOnly(a) == [off |-> a.off, len |-> a.len - (a.len % 2)]

\* Wrong variant: each value is rounded down by itself.
AlignApart(a) == [off |-> a.off - (a.off % 2), len |-> a.len - (a.len % 2)]

\* up_chroma_align_axis_even: the largest even window inside.
AlignAxis(a) ==
    LET start == a.off + (a.off % 2)
        end   == (a.off + a.len) - ((a.off + a.len) % 2)
    IN  IF a.len <= 0 THEN [a EXCEPT !.len = 0]
        ELSE [off |-> start, len |-> IF end > start THEN end - start ELSE 0]

\* The visible window, or the coded one where none is declared.
Declared(visible, coded, off) == [off |-> off, len |-> IF visible # 0 THEN visible ELSE coded]

\* ResolveSourceCrop with up_chroma_align_crop_even, as up_scaler_src_region
\* hands it on.
ResolveSourceCrop(f) ==
    LET x == Declared(f.visW, f.width, f.x)
        y == Declared(f.visH, f.height, f.y)
    IN  [width |-> f.width, height |-> f.height,
         x |-> IF f.chroma \in SubW THEN AlignAxis(x) ELSE x,
         y |-> IF f.chroma \in SubH THEN AlignAxis(y) ELSE y]

-----------------------------------------------------------------------------
(* The view of a picture *)

\* up_picture_plane_extent: whole groups, from the one the window starts in to
\* the one it ends in.
Extent(r, g) ==
    LET x == r.x.off \div g.gx
        y == r.y.off \div g.gy
    IN  [y |-> y, rows |-> Up(r.y.off + r.y.len, g.gy) - y, xBytes |-> x * g.gb,
         rowBytes |-> (Up(r.x.off + r.x.len, g.gx) - x) * g.gb]

\* Wrong variant: the row is held to the pitch wherever it starts.
ExtentFromRowStart(plane, e) ==
    /\ e.xBytes <= plane.pitch /\ e.rowBytes <= plane.pitch
    /\ e.y <= plane.lines /\ e.rows <= plane.lines - e.y

\* up_picture_plane_storage_ok's sizes, and up_picture_plane_extent_ok
ExtentOk(plane, e) ==
    /\ plane.pitch > 0 /\ plane.lines > 0
    /\ e.xBytes <= plane.pitch /\ e.rowBytes <= plane.pitch - e.xBytes
    /\ e.y <= plane.lines /\ e.rows <= plane.lines - e.y

\* Wrong variant: a window that ends with the picture is taken for one beyond it.
DeclaredCropStrict(p, r) ==
    /\ r.x.off + r.x.len < r.width /\ r.y.off + r.y.len < r.height
    /\ p.width >= r.width /\ p.height >= r.height
    /\ p.visW # 0 => r.x.len <= p.visW
    /\ p.visH # 0 => r.y.len <= p.visH

\* up_picture_declared_crop_ok
DeclaredCropOk(p, r) ==
    /\ r.x.off + r.x.len <= r.width /\ r.y.off + r.y.len <= r.height
    /\ p.width >= r.width /\ p.height >= r.height
    /\ p.visW # 0 => r.x.len <= p.visW
    /\ p.visH # 0 => r.y.len <= p.visH

\* up_picture_view_init for the chroma c the scaler was opened with: every plane
\* or none.  <<>> is the refusal.
ViewInit(p, c, r) ==
    IF /\ r.x.len > 0 /\ r.y.len > 0
       /\ p.chroma = c
       /\ DeclaredCropOk(p, r)
       /\ DOMAIN Layout[c] \subseteq DOMAIN p.planes
       /\ \A i \in DOMAIN Layout[c] :
            /\ p.planes[i].pixelPitch = Layout[c][i].pitch
            /\ ExtentOk(p.planes[i], Extent(r, Layout[c][i]))
    THEN [i \in DOMAIN Layout[c] |->
            LET e == Extent(r, Layout[c][i])
            IN  e.y * p.planes[i].pitch + e.xBytes]
    ELSE <<>>

-----------------------------------------------------------------------------
(* What VLC may hand over *)

NoPic == [chroma |-> "none", width |-> 0, height |-> 0, visW |-> 0, visH |-> 0, planes |-> <<>>]
NoRegion == [width |-> 0, height |-> 0, x |-> [off |-> 0, len |-> 0], y |-> [off |-> 0, len |-> 0]]

Formats ==
    { f \in [chroma : Chromas, width : Widths, height : Heights,
             visW : UNION {0 .. w : w \in Widths}, visH : UNION {0 .. h : h \in Heights},
             x : XOffsets, y : YOffsets] :
        f.visW <= f.width /\ f.visH <= f.height }

\* The planes of a picture of w by h: as much storage as its groups need.
Allocated(c, w, h) ==
    [i \in DOMAIN Layout[c] |->
        [pitch |-> Up(w, Layout[c][i].gx) * Layout[c][i].gb,
         lines |-> Up(h, Layout[c][i].gy), pixelPitch |-> Layout[c][i].pitch]]

Picture(c, d, planes) ==
    [chroma |-> c, width |-> d.width, height |-> d.height, visW |-> d.visW, visH |-> d.visH,
     planes |-> planes]

\* What a picture may declare: the format the filter was opened with, or one that
\* drifted since.
Drifted(f) ==
    {f, [f EXCEPT !.visW = 0, !.visH = 0], [f EXCEPT !.width = @ + 1, !.height = @ - 1],
     [f EXCEPT !.visW = 1]}

Resized(plane, by) ==
    [pitch |-> plane.pitch + by.pitch, lines |-> plane.lines + by.lines,
     pixelPitch |-> plane.pixelPitch + by.pixelPitch]

\* One plane may have more or less storage than it needs, or other pixels.
Stored(c, d) ==
    LET need == Allocated(c, d.width, d.height)
    IN  { [need EXCEPT ![by.plane] = Resized(@, by)] :
            by \in [plane : DOMAIN need, pitch : Slack, lines : Slack, pixelPitch : {0, 1}] }

Pictures(f) ==
    (UNION { { Picture(f.chroma, d, planes) : planes \in Stored(f.chroma, d) } : d \in Drifted(f) })
    \cup { Picture(c, f, Allocated(c, f.width, f.height)) : c \in Chromas }

-----------------------------------------------------------------------------
Init ==
    /\ fmt \in Formats
    /\ stage = "asked"
    /\ region = NoRegion /\ pic = NoPic /\ view = <<>>

\* Open: a window with nothing left in it is not scaled.
Open ==
    /\ stage = "asked"
    /\ LET r == ResolveSourceCrop(fmt)
           empty == r.x.len <= 0 \/ r.y.len <= 0
       IN  /\ stage' = IF empty THEN "declined" ELSE "open"
           /\ region' = IF empty THEN region ELSE r
    /\ UNCHANGED <<fmt, pic, view>>

\* A frame's picture is viewed; the scratch picture of the last one is forgotten.
Frame ==
    /\ stage = "open" /\ pic = NoPic
    /\ \E p \in Pictures(fmt) :
        /\ pic' = p
        /\ view' = ViewInit(p, fmt.chroma, region)
    /\ UNCHANGED <<fmt, stage, region>>

Return ==
    /\ pic # NoPic
    /\ pic' = NoPic /\ view' = <<>>
    /\ UNCHANGED <<fmt, stage, region>>

Declined == stage = "declined" /\ UNCHANGED vars

Next == Open \/ Frame \/ Return \/ Declined

Spec == Init /\ [][Next]_vars

-----------------------------------------------------------------------------
Viewed == view # <<>>

\* Where the reader of a view finds the sample for pixel (px, py) of the window:
\* it only knows where the plane starts, its pitch, and the subsampling.
SampleOf(i, px, py) ==
    LET g == Layout[fmt.chroma][i]
    IN  view[i] + (py \div g.gy) * pic.planes[i].pitch + (px \div g.gx) * g.gb

\* Whatever a picture declares and whatever storage is behind it, no sample that
\* is reached through an accepted view lies outside its plane, or runs over the
\* end of its row.
InStorage ==
    Viewed =>
        \A i \in DOMAIN view :
            LET plane == pic.planes[i]
                g     == Layout[fmt.chroma][i]
            IN  \A px \in 0 .. region.x.len - 1, py \in 0 .. region.y.len - 1 :
                    LET at == SampleOf(i, px, py)
                    IN  /\ at >= 0 /\ at \div plane.pitch < plane.lines
                        /\ (at % plane.pitch) + g.gb <= plane.pitch

\* Chroma and luma of a view belong together: each pixel of the window is read
\* with the chroma sample stored for that pixel, never its neighbour's.
ChromaInStep ==
    Viewed =>
        \A i \in DOMAIN view :
            LET g == Layout[fmt.chroma][i]
            IN  \A px \in 0 .. region.x.len - 1, py \in 0 .. region.y.len - 1 :
                    SampleOf(i, px, py) = ((region.y.off + py) \div g.gy) * pic.planes[i].pitch
                                          + ((region.x.off + px) \div g.gx) * g.gb

AxisInside(a, d) ==
    /\ a.off >= d.off /\ a.off + a.len <= d.off + d.len
    /\ a.off <= d.off + 1 /\ a.off + a.len >= d.off + d.len - 1

\* Aligning shows no pixel that the source hides, and hides at most one at each
\* edge.
CropInside ==
    stage = "open" =>
        /\ AxisInside(region.x, Declared(fmt.visW, fmt.width, fmt.x))
        /\ AxisInside(region.y, Declared(fmt.visH, fmt.height, fmt.y))

\* A picture of the opened format, with the storage its coded size needs, is
\* never refused: the filter does not drop a healthy playback over its geometry.
HealthySeen ==
    (/\ pic # NoPic
     /\ pic.chroma = fmt.chroma /\ pic.width = fmt.width /\ pic.height = fmt.height
     /\ pic.visW = fmt.visW /\ pic.visH = fmt.visH
     /\ Declared(fmt.visW, fmt.width, fmt.x).len + fmt.x <= fmt.width
     /\ Declared(fmt.visH, fmt.height, fmt.y).len + fmt.y <= fmt.height
     /\ LET need == Allocated(fmt.chroma, fmt.width, fmt.height)
        IN  \A i \in DOMAIN need : /\ pic.planes[i].pitch >= need[i].pitch
                                   /\ pic.planes[i].lines >= need[i].lines
                                   /\ pic.planes[i].pixelPitch = need[i].pixelPitch)
    => Viewed
=============================================================================
