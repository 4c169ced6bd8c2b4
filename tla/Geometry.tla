------------------------------- MODULE Geometry -------------------------------
(***************************************************************************)
(* Coordinates (src/geometry): the direct transform between two spaces     *)
(* with its three fixed-point scales, the display catalog and the layout   *)
(* of a desktop scope in one image.  Coordinates are integers of one unit. *)
(* And where the windows of a desktop lie: which is next to which.         *)
(***************************************************************************)
EXTENDS Integers, Sequences, FiniteSets, SequencesExt

CONSTANTS Fraction,         \* 2^fraction bits of the fixed-point scales
          DisplayCapacity,  \* display_capacity
          NavigationCapacity  \* window_navigation_capacity

Lesser(a, b) == IF a < b THEN a ELSE b
Greater(a, b) == IF a > b THEN a ELSE b
Rect(x, y, w, h) == [x |-> x, y |-> y, w |-> w, h |-> h]
Right(r) == r.x + r.w
Bottom(r) == r.y + r.h
rect_valid(r) == r.w > 0 /\ r.h > 0
rect_contains(outer, inner) ==
    /\ rect_valid(outer) /\ rect_valid(inner)
    /\ inner.x >= outer.x /\ inner.y >= outer.y
    /\ Right(inner) <= Right(outer) /\ Bottom(inner) <= Bottom(outer)
Within(r, p) == p.x \in r.x..(Right(r) - 1) /\ p.y \in r.y..(Bottom(r) - 1)
intersection(a, b) ==
    LET x == Greater(a.x, b.x)
        y == Greater(a.y, b.y)
    IN Rect(x, y, Lesser(Right(a), Right(b)) - x, Lesser(Bottom(a), Bottom(b)) - y)

(* The quarter turns: a point of the source, seen after the turn               *)
Swaps(turn) == turn \in {90, 270}
rotate_point(turn, w, h, p) ==
    CASE turn = 0 -> p
      [] turn = 90 -> [x |-> h - p.y, y |-> p.x]
      [] turn = 180 -> [x |-> w - p.x, y |-> h - p.y]
      [] turn = 270 -> [x |-> p.y, y |-> w - p.x]
(* A rectangle turns with its corners                                          *)
rotate_rect(turn, w, h, r) ==
    LET a == rotate_point(turn, w, h, [x |-> r.x, y |-> r.y])
        b == rotate_point(turn, w, h, [x |-> Right(r), y |-> Bottom(r)])
    IN Rect(Lesser(a.x, b.x), Lesser(a.y, b.y),
            Greater(a.x, b.x) - Lesser(a.x, b.x), Greater(a.y, b.y) - Lesser(a.y, b.y))

make_scale(source, destination) ==
    [floor |-> (destination * Fraction) \div source,
     ceil |-> (destination * Fraction + source - 1) \div source,
     nearest |-> (destination * Fraction + source \div 2) \div source,
     source |-> source, destination |-> destination]
(* Both ends are exact; the mutant maps the far edge of a rectangle down       *)
Between(v, scale, product) ==
    IF v = 0 THEN 0
    ELSE IF v >= scale.source THEN scale.destination
    ELSE Lesser(product \div Fraction, scale.destination)
scaled_floor(v, scale) == Between(v, scale, v * scale.floor)
scaled_ceil_down(v, scale) == Between(v, scale, v * scale.ceil)
scaled_ceil(v, scale) == Between(v, scale, v * scale.ceil + Fraction - 1)
scaled_nearest(v, scale) == Between(v, scale, v * scale.nearest + Fraction \div 2)

(* A transform: source and destination rectangle and the turn between them     *)
XScale(t) == make_scale(IF Swaps(t.turn) THEN t.source.h ELSE t.source.w, t.destination.w)
YScale(t) == make_scale(IF Swaps(t.turn) THEN t.source.w ELSE t.source.h, t.destination.h)
Outside == [x |-> -99999, y |-> -99999]
map_point(t, p) ==
    LET local == [x |-> p.x - t.source.x, y |-> p.y - t.source.y]
        turned == rotate_point(t.turn, t.source.w, t.source.h, local)
    IN IF local.x \notin 0..t.source.w \/ local.y \notin 0..t.source.h THEN Outside
       ELSE [x |-> t.destination.x + scaled_nearest(turned.x, XScale(t)),
             y |-> t.destination.y + scaled_nearest(turned.y, YScale(t))]
(* The near edges go down and the far edges up; nothing is left of a rectangle *)
(* outside the source                                                          *)
Nowhere == Rect(0, 0, 0, 0)
map_rect_clipped(t, r) ==
    LET visible == intersection(r, t.source)
        turned == rotate_rect(t.turn, t.source.w, t.source.h,
                              [visible EXCEPT !.x = @ - t.source.x, !.y = @ - t.source.y])
        left == scaled_floor(turned.x, XScale(t))
        top == scaled_floor(turned.y, YScale(t))
    IN IF ~rect_valid(visible) THEN Nowhere
       ELSE Rect(t.destination.x + left, t.destination.y + top,
                 scaled_ceil(Right(turned), XScale(t)) - left,
                 scaled_ceil(Bottom(turned), YScale(t)) - top)
inverse(t) == [source |-> t.destination, destination |-> t.source, turn |-> (360 - t.turn) % 360]
make_desktop_to_surface_transform(display) ==
    [source |-> display.bounds, destination |-> Rect(0, 0, display.backing.w, display.backing.h), turn |-> 0]

(* The display catalog: at most DisplayCapacity displays in the order of their *)
(* ids, and an epoch that counts its changes.                                  *)
surface_valid(d) ==
    d.id # 0 /\ rect_valid(d.bounds) /\ rect_contains(d.bounds, d.work) /\ d.backing.w # 0 /\ d.backing.h # 0
sort_displays(displays) == SortSeq(displays, LAMBDA a, b : a.id < b.id)
EmptyCatalog == [displays |-> <<>>, epoch |-> 0, next |-> 1]
(* The mutant compares the displays in the order in which the platform lists   *)
(* them                                                                        *)
publish_unsorted(catalog, displays) ==
    IF \E i \in DOMAIN displays : ~surface_valid(displays[i]) THEN catalog
    ELSE IF displays = catalog.displays THEN catalog
    ELSE [displays |-> displays, epoch |-> catalog.next, next |-> catalog.next + 1]
publish(catalog, displays) ==
    LET sorted == sort_displays(displays)
    IN IF \/ Len(displays) \notin 1..DisplayCapacity
          \/ \E i \in DOMAIN displays : ~surface_valid(displays[i])
          \/ Cardinality({i \in DOMAIN displays : displays[i].main}) # 1
          \/ \E i \in 2..Len(sorted) : sorted[i - 1].id = sorted[i].id
       THEN catalog
       ELSE IF sorted = catalog.displays THEN catalog
       ELSE [displays |-> sorted, epoch |-> catalog.next, next |-> catalog.next + 1]
(* The binary search over first..first + count - 1, 0 for none                 *)
RECURSIVE Search(_, _, _, _)
Search(displays, first, count, id) ==
    LET step == count \div 2
        at == first + step
    IN IF count = 0 THEN 0
       ELSE IF displays[at].id < id THEN Search(displays, at + 1, count - step - 1, id)
       ELSE IF displays[at].id > id THEN Search(displays, first, step, id)
       ELSE at
find(catalog, id) == Search(catalog.displays, 1, Len(catalog.displays), id)

(* The atlas: a scope fitted into an image, every surface it shows mapped      *)
content_rect(scope, w, h) ==
    LET wide == scope.w * h > scope.h * w
        cw == IF wide THEN w ELSE Greater(1, (scope.w * h) \div scope.h)
        ch == IF wide THEN Greater(1, (scope.h * w) \div scope.w) ELSE h
    IN Rect((w - cw) \div 2, (h - ch) \div 2, cw, ch)
Up(v, destination, source) == (v * destination + source - 1) \div source
map_rect(r, source, destination) ==
    LET left == ((r.x - source.x) * destination.w) \div source.w
        top == ((r.y - source.y) * destination.h) \div source.h
    IN Rect(destination.x + left, destination.y + top,
            Up(Right(r) - source.x, destination.w, source.w) - left,
            Up(Bottom(r) - source.y, destination.h, source.h) - top)
(* Placements: the part of a surface's image, and where it goes                *)
make_scope_atlas_layout(scope, w, h, surfaces) ==
    LET content == content_rect(scope, w, h)
        shown == {s \in surfaces : rect_valid(intersection(scope, s.bounds))}
    IN [content |-> content,
        placements |-> {[surface |-> s.id,
                         source |-> map_rect(intersection(scope, s.bounds), s.bounds,
                                             Rect(0, 0, s.backing.w, s.backing.h)),
                         destination |-> map_rect(intersection(scope, s.bounds), scope, content)] : s \in shown}]

-------------------------------------------------------------------------------
(* The choice of another window (src/application/window_navigator.cpp): the     *)
(* snapshot of the windows in their order from the front, the next one that     *)
(* overlaps the current, and the nearest in a direction.                        *)
WindowUsable(w) == w.id # 0 /\ w.process # 0 /\ rect_valid(w.bounds)
(* collect: what the platform lists, one window after the other, less the      *)
(* program's own                                                               *)
collect(listed, excluded) ==
    LET read == SubSeq(listed, 1, Lesser(Len(listed), NavigationCapacity))
        usable == SelectSeq(read, LAMBDA w : WindowUsable(w) /\ w.process # excluded)
    IN [result |-> IF Len(listed) > NavigationCapacity THEN "CAPACITY"
                   ELSE IF usable = <<>> /\ Len(listed) < NavigationCapacity THEN "NOT_FOUND" ELSE "OK",
        windows |-> usable]
Position(windows, id) == IF \E i \in DOMAIN windows : windows[i].id = id
                         THEN CHOOSE i \in DOMAIN windows : windows[i].id = id
                                         /\ \A j \in 1..(i - 1) : windows[j].id # id
                         ELSE 0

WindowsOverlap(a, b) == rect_valid(intersection(a.bounds, b.bounds))
(* The window at a distance behind (or in front of) the current one; the       *)
(* mutant leaves out the window that is farthest away                          *)
At(windows, current, distance, forward) ==
    ((current - 1 + (IF forward THEN distance ELSE Len(windows) - distance)) % Len(windows)) + 1
DistancesShort(windows) == 1..(Len(windows) - 2)
Distances(windows) == 1..(Len(windows) - 1)
cycle(windows, id, forward) ==
    LET current == Position(windows, id)
        hits == {d \in Distances(windows) :
                    WindowsOverlap(windows[current], windows[At(windows, current, d, forward)])}
    IN IF current = 0 THEN windows[1].id
       ELSE IF hits = {} THEN 0
       ELSE windows[At(windows, current, CHOOSE d \in hits : \A e \in hits : d <= e, forward)].id
behind(windows, id) == cycle(windows, id, TRUE)

(* Twice the centre, which is an integer                                       *)
center_x(w) == 2 * w.bounds.x + w.bounds.w
center_y(w) == 2 * w.bounds.y + w.bounds.h
Abs(v) == IF v < 0 THEN -v ELSE v
Along(a, b, direction) ==
    CASE direction = "left" -> center_x(a) - center_x(b)
      [] direction = "right" -> center_x(b) - center_x(a)
      [] direction = "up" -> center_y(a) - center_y(b)
      [] direction = "down" -> center_y(b) - center_y(a)
Across(a, b, direction) ==
    IF direction \in {"left", "right"} THEN Abs(center_y(b) - center_y(a)) ELSE Abs(center_x(b) - center_x(a))
(* Nearer along the direction, then across it, then the smaller id             *)
Better(a, v, w, direction) ==
    \/ Along(a, v, direction) < Along(a, w, direction)
    \/ /\ Along(a, v, direction) = Along(a, w, direction)
       /\ \/ Across(a, v, direction) < Across(a, w, direction)
          \/ Across(a, v, direction) = Across(a, w, direction) /\ v.id < w.id
directional(windows, id, direction) ==
    LET current == windows[Position(windows, id)]
        ahead == {w \in ToSet(windows) : w.id # id /\ Along(current, w, direction) > 0}
    IN IF Position(windows, id) = 0 \/ ahead = {} THEN 0
       ELSE (CHOOSE w \in ahead : \A v \in ahead \ {w} : Better(current, w, v, direction)).id
=============================================================================
