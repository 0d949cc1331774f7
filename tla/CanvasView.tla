------------------------------ MODULE CanvasView ------------------------------
(* What one user of ify-canvas sees and selects: the zoom state (zoom.rs), the *)
(* detail of the nodes in view (visibility.rs), selection and arrangement      *)
(* (selection.rs) and the minimap (navigation.rs).                             *)
(*                                                                             *)
(* A scale is a number of units, Hundredth of them for 0.01; coordinates are   *)
(* integers, chosen so that the divisions are exact.  A rectangle has a place  *)
(* and a size on each axis.  The origin of the zoom and labels are dropped, as *)
(* are breadcrumbs, focus mode and the minimap's flag, which nothing else uses.*)
EXTENDS Integers, SequencesExt

CONSTANTS
    Hundredth,
    Deltas,        \* factors of zoom(): <<numerator, denominator>>
    Layouts,       \* the rectangles that a user arranges, sequences of them
    Areas,         \* rectangles of lassos and viewports
    CanvasBounds, MinimapSize,
    CellSize,      \* SnapGrid::cell_size; 0 snaps nothing
    NodeIds,
    MaxArranges    \* bound: arrangements

VARIABLES
    scale, level,  \* ZoomState
    viewport,      \* Minimap::viewport_rect, of which the caller makes its VisibilityPolicy
    selection,     \* SelectionSet
    rects, arranged  \* what is arranged; ghost: the latest arrangement and what it was of

vars == <<scale, level, viewport, selection, rects, arranged>>
zoom_vars == <<scale, level, viewport>>
arrange_vars == <<selection, rects, arranged>>

-------------------------------------------------------------------------------
(* Zoom levels, from the largest scale to the smallest, and their ranges.      *)
ZoomLevels == <<"Micro", "Standard", "Overview", "Constellation", "Galaxy">>

ScaleRange == [Galaxy |-> <<1, 5>>, Constellation |-> <<5, 20>>, Overview |-> <<20, 60>>,
               Standard |-> <<60, 200>>, Micro |-> <<200, 800>>]

InRange(s, l) == ScaleRange[l][1] * Hundredth <= s /\ s < ScaleRange[l][2] * Hundredth

ScaleMin == Hundredth
ScaleMax == 800 * Hundredth

FromScaleBelowMax(s) ==
    LET i == SelectInSeq(ZoomLevels, LAMBDA l : InRange(s, l))
    IN  IF i # 0 THEN ZoomLevels[i] ELSE "ScaleOutOfBounds"

(* from_scale(): the ranges are open above, and the largest scale is special.  *)
FromScale(s) ==
    LET i == SelectInSeq(ZoomLevels, LAMBDA l : InRange(s, l))
    IN  IF i # 0 THEN ZoomLevels[i] ELSE IF s = ScaleMax THEN "Micro" ELSE "ScaleOutOfBounds"

Clamp(s) == IF s < ScaleMin THEN ScaleMin ELSE IF s > ScaleMax THEN ScaleMax ELSE s

(* zoom(): an error of from_scale() would leave the level behind the scale.    *)
Zoom(delta) ==
    LET new == Clamp((scale * delta[1]) \div delta[2])
    IN  /\ delta[1] # 0
        /\ scale' = new
        /\ level' = IF FromScale(new) = "ScaleOutOfBounds" THEN level ELSE FromScale(new)
        /\ UNCHANGED <<viewport, arrange_vars>>

JumpToLevel(l) ==
    /\ scale' = ((ScaleRange[l][1] + ScaleRange[l][2]) * Hundredth) \div 2
    /\ level' = l
    /\ UNCHANGED <<viewport, arrange_vars>>

-------------------------------------------------------------------------------
(* Rectangles.                                                                 *)

Rect(at, size) == [at |-> at, size |-> size]

End(r, axis) == r.at[axis] + r.size[axis]

(* Rect::intersects(): rectangles that only touch do not intersect.            *)
Intersects(a, b) == \A x \in 1..2 : a.at[x] < End(b, x) /\ End(a, x) > b.at[x]

(* intersects_viewport(): here touching is enough.                             *)
IntersectsViewport(r) == \A x \in 1..2 : End(r, x) >= viewport.at[x] /\ r.at[x] <= End(viewport, x)

(* DetailLevel::for_zoom().                                                    *)
DetailForZoom == [Galaxy |-> "ClusterBadge", Constellation |-> "GroupOutline", Overview |-> "Chip",
                  Standard |-> "Card", Micro |-> "CardDebug"]

DetailForNode(r) == IF IntersectsViewport(r) THEN DetailForZoom[level] ELSE "Hidden"

-------------------------------------------------------------------------------
(* Selection and arrangement.                                                  *)

SelectNodes(ids) == selection' = ids /\ UNCHANGED <<rects, arranged, zoom_vars>>

AddId(id) == SelectNodes(selection \cup {id})

RemoveId(id) == SelectNodes(selection \ {id})

ToggleId(id) == SelectNodes(IF id \in selection THEN selection \ {id} ELSE selection \cup {id})

ClearSelection == SelectNodes({})

(* LassoSelector::select() over the rectangles, named by their places.         *)
LassoSelect(lasso) == {i \in DOMAIN rects : Intersects(lasso, rects[i])}

Lasso(area) == SelectNodes(LassoSelect(area))

(* SnapGrid::snap(): round() takes halves away from zero.                      *)
Snap(v) ==
    IF CellSize = 0 THEN v
    ELSE IF v >= 0 THEN ((2 * v + CellSize) \div (2 * CellSize)) * CellSize
    ELSE -(((CellSize - 2 * v) \div (2 * CellSize)) * CellSize)

Centre(r, axis) == r.at[axis] + r.size[axis] \div 2

Places(rs, axis) == {rs[i].at[axis] : i \in DOMAIN rs}

Ends(rs, axis) == {End(rs[i], axis) : i \in DOMAIN rs}

Sizes(rs, axis) == [i \in DOMAIN rs |-> rs[i].size[axis]]

SumOf(s) == FoldLeft(+, 0, s)

(* AlignDistribute::align().                                                   *)
Aligned(rs, axis, anchor) ==
    LET mean == SumOf([i \in DOMAIN rs |-> Centre(rs[i], axis)]) \div Len(rs)
        place(r) == CASE anchor = "Min"    -> Min(Places(rs, axis))
                      [] anchor = "Center" -> mean - r.size[axis] \div 2
                      [] anchor = "Max"    -> Max(Ends(rs, axis)) - r.size[axis]
    IN  [i \in DOMAIN rs |-> [rs[i] EXCEPT !.at[axis] = place(rs[i])]]

(* distribute(): the caller's slice comes back sorted along the axis.          *)
Distributed(rs, axis) ==
    LET sorted == SortSeq(rs, LAMBDA a, b : a.at[axis] < b.at[axis])
        gap == (End(sorted[Len(rs)], axis) - sorted[1].at[axis] - SumOf(Sizes(rs, axis))) \div (Len(rs) - 1)
        cursor(i) == sorted[1].at[axis] + SumOf(SubSeq(Sizes(sorted, axis), 1, i - 1)) + (i - 1) * gap
    IN  [i \in DOMAIN rs |-> [sorted[i] EXCEPT !.at[axis] = cursor(i)]]

Rearrange(how, axis, new) ==
    /\ Len(rects) >= 2 /\ arranged.count < MaxArranges
    /\ rects' = new
    /\ arranged' = [how |-> how, axis |-> axis, of |-> rects, count |-> arranged.count + 1]
    /\ UNCHANGED <<selection, zoom_vars>>

Align(axis, anchor) == Rearrange(anchor, axis, Aligned(rects, axis, anchor))

Distribute(axis) == Rearrange("Distribute", axis, Distributed(rects, axis))

SnapPoint(i) ==
    Rearrange("Snap", 1, [rects EXCEPT ![i].at = [x \in 1..2 |-> Snap(@[x])]])

-------------------------------------------------------------------------------
(* The minimap.                                                                *)

UpdateViewport(r) == viewport' = r /\ UNCHANGED <<scale, level, arrange_vars>>

(* indicator_rect(), in the coordinates of the minimap.                        *)
IndicatorRect ==
    LET scaled(v, x) == (v * MinimapSize[x]) \div Max({1, CanvasBounds.size[x]})
    IN  Rect([x \in 1..2 |-> scaled(viewport.at[x] - CanvasBounds.at[x], x)],
             [x \in 1..2 |-> scaled(viewport.size[x], x)])

-------------------------------------------------------------------------------
Init ==
    /\ scale = 100 * Hundredth /\ level = "Standard"
    /\ viewport = CanvasBounds
    /\ selection = {} /\ rects \in Layouts
    /\ arranged = [how |-> "Not", axis |-> 1, of |-> rects, count |-> 0]

ZoomNext ==
    \/ \E d \in Deltas : Zoom(d)
    \/ \E l \in DOMAIN ScaleRange : JumpToLevel(l)

ArrangeNext ==
    \/ \E axis \in 1..2 : Distribute(axis) \/ \E anchor \in {"Min", "Center", "Max"} : Align(axis, anchor)
    \/ \E i \in DOMAIN rects : SnapPoint(i)
    \/ \E a \in Areas : Lasso(a)

NavigationNext ==
    \/ \E a \in Areas : UpdateViewport(a) \/ Lasso(a)
    \/ ClearSelection
    \/ \E id \in NodeIds : AddId(id) \/ RemoveId(id) \/ ToggleId(id)

Next == ZoomNext \/ ArrangeNext \/ NavigationNext

Spec == Init /\ [][Next]_vars

-------------------------------------------------------------------------------
Within(a, b) == \A x \in 1..2 : b.at[x] <= a.at[x] /\ End(a, x) <= End(b, x)

(* However one zooms and jumps, the level is that of the scale, at the limits  *)
(* of the ranges and of the scale too: zoom() never fails half-way.  The       *)
(* largest scale is reached, as clamp() in zoom() and from_scale() have it,    *)
(* although zoom.rs calls it an exclusive bound.                               *)
LevelFits ==
    /\ ScaleMin <= scale /\ scale <= ScaleMax
    /\ level = FromScale(scale)
    /\ InRange(scale, level) \/ scale = ScaleMax

(* What a lasso inside the view selects is in view, although lasso and view    *)
(* have intersection tests of their own; and the indicator of a view inside    *)
(* the canvas is inside the minimap.                                           *)
SelectedIsInView ==
    /\ \A a \in Areas : Within(a, viewport) =>
          \A i \in LassoSelect(a) : DetailForNode(rects[i]) # "Hidden"
    /\ Within(viewport, CanvasBounds) => Within(IndicatorRect, Rect(<<0, 0>>, MinimapSize))

(* Distributing leaves one gap everywhere, the place of the first node and the *)
(* end of the node that starts last, the later one in the slice if two do.     *)
(* These are not the outer edges when nodes overlap; but if the gap is not     *)
(* negative, the nodes stay within the extent that they had, as they do when   *)
(* aligned to an edge.  Neither changes the sizes or the other axis of any     *)
(* node, but for the nodes' order.  (align() and distribute().)                *)
ArrangedFits ==
    LET x == arranged.axis
        y == 3 - x
        old == arranged.of
        shapes(rs) == [s \in {<<r.size, r.at[y]>> : r \in ToSet(rs)} |->
                          Cardinality({i \in DOMAIN rs : <<rs[i].size, rs[i].at[y]>> = s})]
        last == CHOOSE i \in DOMAIN old : \A j \in DOMAIN old :
                   old[j].at[x] < old[i].at[x] \/ (old[j].at[x] = old[i].at[x] /\ j <= i)
        gap(i) == rects[i + 1].at[x] - End(rects[i], x)
        keepsExtent == /\ Min(Places(old, x)) <= Min(Places(rects, x))
                       /\ Max(Ends(rects, x)) <= Max(Ends(old, x))
    IN  /\ arranged.how \in {"Distribute", "Min", "Center", "Max"} => shapes(rects) = shapes(old)
        /\ arranged.how = "Distribute" =>
              /\ rects[1].at[x] = Min(Places(old, x))
              /\ End(rects[Len(rects)], x) = End(old[last], x)
              /\ \A i, j \in 1..Len(rects) - 1 : gap(i) = gap(j)
              /\ gap(1) >= 0 => keepsExtent
        /\ arranged.how \in {"Min", "Max"} => keepsExtent
================================================================================
