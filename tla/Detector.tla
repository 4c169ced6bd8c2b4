------------------------------- MODULE Detector -------------------------------
(***************************************************************************)
(* What a job of the reference backend detects: the bright areas of a      *)
(* frame, found in one pass over its rows by labels that are joined when   *)
(* two areas turn out to be one, and the packet in which they are told.    *)
(* A pixel is one grey value or the three colours; a frame is the sequence *)
(* of its rows, from the top.  stable_id is a hash of the frame and the    *)
(* box, taken here as the box itself.                                      *)
(*                                                                         *)
(* Then what the post-processor makes of what a neural model sees: the     *)
(* best of the candidates, without those that another one stands for.      *)
(***************************************************************************)
EXTENDS Geometry

CONSTANTS MaximumComponents,   \* maximum_components
          MaximumDetected,     \* maximum_targets
          Unit                 \* bound: the numbers of a model's rows are multiples of 1 / Unit

(* The weights add up to 256: a grey of three equal colours is itself.         *)
pixel_luma(pixel) ==
    IF Len(pixel) = 1 THEN pixel[1] ELSE (77 * pixel[1] + 150 * pixel[2] + 29 * pixel[3] + 128) \div 256

(* Components: label l is entry l, 0 is no label; a component that was joined  *)
(* to another has it as its parent (and is then not `used`).                   *)
root_of(components, label) ==
    LET root[l \in DOMAIN components] == IF components[l].parent = l THEN l ELSE root[components[l].parent]
    IN root[label]
Joined(a, b) ==
    [a EXCEPT !.left = Lesser(@, b.left), !.top = Lesser(@, b.top), !.right = Greater(@, b.right),
              !.bottom = Greater(@, b.bottom), !.area = @ + b.area, !.luma = @ + b.luma]
NewComponent(label, run, y) ==
    [parent |-> label, left |-> run.from, top |-> y, right |-> run.to, bottom |-> y, area |-> 0, luma |-> 0]

(* The maximal bright runs of a row, from the left                             *)
RunsOf(row, threshold) ==
    LET bright == {x \in DOMAIN row : row[x] >= threshold}
        runs == {r \in [from : bright, to : bright] : r.from <= r.to /\ r.from..r.to \subseteq bright
                                                       /\ r.from - 1 \notin bright /\ r.to + 1 \notin bright}
    IN SetToSortSeq(runs, LAMBDA r, s : r.from < s.from)

(* A run takes the label of what it touches in the row above, column by        *)
(* column, and joins to it what else it touches.                               *)
(* Slip: what is joined keeps its own parent. *)
TouchFirst(previous, run, x) ==
    LET candidate == root_of(run.components, previous[x])
    IN IF previous[x] = 0 THEN run
       ELSE IF run.label = 0 THEN [run EXCEPT !.label = candidate]
       ELSE LET root == root_of(run.components, run.label)
            IN IF candidate = root THEN [run EXCEPT !.label = root]
               ELSE [components |-> [run.components EXCEPT ![root] = Joined(@, run.components[candidate])], label |-> root]
Touch(previous, run, x) ==
    LET candidate == root_of(run.components, previous[x])
    IN IF previous[x] = 0 THEN run
       ELSE IF run.label = 0 THEN [run EXCEPT !.label = candidate]
       ELSE LET root == root_of(run.components, run.label)
            IN IF candidate = root THEN [run EXCEPT !.label = root]
               ELSE [components |-> [run.components EXCEPT ![root] = Joined(@, run.components[candidate]),
                                                           ![candidate].parent = root],
                     label |-> root]
Touched(scan, run) ==
    LET touched[k \in 0..(run.to - run.from + 1)] ==
          IF k = 0 THEN [components |-> scan.components, label |-> 0]
          ELSE Touch(scan.previous, touched[k - 1], run.from + k - 1)
    IN touched[run.to - run.from + 1]
Labelled(touched, run, y) ==
    IF touched.label = 0
    THEN [components |-> Append(touched.components, NewComponent(Len(touched.components) + 1, run, y)),
          label |-> Len(touched.components) + 1]
    ELSE [touched EXCEPT !.label = root_of(touched.components, @)]
PartOf(row, run, label, y) ==
    [NewComponent(label, run, y) EXCEPT !.area = run.to - run.from + 1,
                                        !.luma = FoldSet(LAMBDA x, sum : sum + row[x], 0, run.from..run.to)]
Entered(row, y, scan, run, known) ==
    IF Len(known.components) > MaximumComponents THEN [scan EXCEPT !.full = TRUE]
    ELSE [scan EXCEPT !.components = [known.components EXCEPT ![known.label] = Joined(@, PartOf(row, run, known.label, y))],
                      !.current = [x \in DOMAIN @ |-> IF x \in run.from..run.to THEN known.label ELSE @[x]]]
TakeRun(row, y, scan, run) ==
    IF scan.full THEN scan ELSE Entered(row, y, scan, run, Labelled(Touched(scan, run), run, y))
(* After a row its labels are the roots of that moment.                        *)
NoLabels(row) == [x \in DOMAIN row |-> 0]
AfterRow(taken) ==
    [taken EXCEPT !.y = @ + 1,
                  !.previous = [x \in DOMAIN @ |-> IF taken.current[x] = 0 THEN 0
                                                   ELSE root_of(taken.components, taken.current[x])]]
TakeRow(threshold, scan, row) ==
    AfterRow(FoldLeft(LAMBDA s, run : TakeRun(row, scan.y, s, run), [scan EXCEPT !.current = NoLabels(row)],
                      RunsOf(row, threshold)))

TargetOf(c) ==
    LET box == Rect(c.left, c.top, c.right - c.left + 1, c.bottom - c.top + 1)
    IN [box |-> box, id |-> box, sx |-> box.x + box.w \div 2, sy |-> box.y + box.h \div 2, area |-> c.area,
        confidence |-> (c.luma * 65535 + c.area * 127) \div (c.area * 255)]
(* The sort moves a target only past those that come after it.                 *)
NotAfter(s, t) == s.box.y < t.box.y \/ (s.box.y = t.box.y /\ s.box.x <= t.box.x)
Sorted(targets) ==
    FoldLeft(LAMBDA sorted, t : InsertAt(sorted, Cardinality({k \in DOMAIN sorted : NotAfter(sorted[k], t)}) + 1, t),
             <<>>, targets)
Scanned(lumas, threshold) ==
    FoldLeft(LAMBDA scan, row : TakeRow(threshold, scan, row),
             [components |-> <<>>, previous |-> NoLabels(lumas[1]), current |-> NoLabels(lumas[1]), y |-> 0, full |-> FALSE],
             lumas)
Found(scan, minimum_area) ==
    LET components == [l \in DOMAIN scan.components |-> scan.components[l] @@ [label |-> l]]
    IN SelectSeq(components, LAMBDA c : c.parent = c.label /\ c.area >= minimum_area)
Reported(full, found) ==
    IF full \/ Len(found) > MaximumDetected THEN [result |-> "CAPACITY", targets |-> <<>>]
    ELSE [result |-> "OK", targets |-> Sorted([i \in DOMAIN found |-> TargetOf(found[i])])]
Looked(scan, minimum_area) == Reported(scan.full, Found(scan, minimum_area))
detect(rows, threshold, minimum_area) ==
    Looked(Scanned([y \in DOMAIN rows |-> [x \in DOMAIN rows[y] |-> pixel_luma(rows[y][x])]], threshold), minimum_area)

(* run_ticket: the detection looks at the scope alone; what it finds is moved  *)
(* to the place it has in the frame, and named by it.                          *)
Scoped(rows, scope) == [y \in 1..scope.h |-> [x \in 0..(scope.w - 1) |-> rows[scope.y + y][scope.x + x]]]
InFrame(r, scope) == [r EXCEPT !.x = @ + scope.x, !.y = @ + scope.y]
detect_in(rows, scope, threshold, minimum_area) ==
    LET found == detect(Scoped(rows, scope), threshold, minimum_area)
        MovedTo(t) == [t EXCEPT !.box = InFrame(@, scope), !.id = InFrame(t.box, scope), !.sx = @ + scope.x, !.sy = @ + scope.y]
    IN [found EXCEPT !.targets = [i \in DOMAIN @ |-> MovedTo(@[i])]]

(* serialize_output and decode_output: places in 256ths of a pixel; the area   *)
(* is not told, and read back as that of the box.                              *)
serialize_output(targets) ==
    [i \in DOMAIN targets |->
        [id |-> targets[i].id, x |-> targets[i].box.x * 256, y |-> targets[i].box.y * 256, w |-> targets[i].box.w * 256,
         h |-> targets[i].box.h * 256, sx |-> targets[i].sx * 256, sy |-> targets[i].sy * 256,
         confidence |-> targets[i].confidence, order |-> i - 1]]
decode_output(records) ==
    [i \in DOMAIN records |->
        LET r == records[i]
            box == Rect(r.x \div 256, r.y \div 256, r.w \div 256, r.h \div 256)
        IN [box |-> box, id |-> r.id, sx |-> r.sx \div 256, sy |-> r.sy \div 256, area |-> box.w * box.h,
            confidence |-> r.confidence]]
-------------------------------------------------------------------------------
(* What a neural model sees: rows of numbers in units of 1 / Unit, which       *)
(* become candidates in eighths of a pixel.                                    *)
Rounded(n, d) == IF n >= 0 THEN (2 * n + d) \div (2 * d) ELSE -((d - 2 * n) \div (2 * d))
clamp_unit(n) == Greater(0, Lesser(Unit, n))
q3_position(n, origin, extent) == Rounded((origin * Unit + n * extent) * 8, Unit)
q3_extent(n, extent) == Rounded(n * extent * 8, Unit)
role_from_scalar(n) == Rounded(n, Unit)
RowWidth(row) == Lesser(clamp_unit(row.w), Unit - clamp_unit(row.x))
RowHeight(row) == Lesser(clamp_unit(row.h), Unit - clamp_unit(row.y))
CandidateOf(row, scope) ==
    [box |-> Rect(q3_position(clamp_unit(row.x), scope.x, scope.w), q3_position(clamp_unit(row.y), scope.y, scope.h),
                  q3_extent(RowWidth(row), scope.w), q3_extent(RowHeight(row), scope.h)),
     confidence |-> Rounded(clamp_unit(row.confidence) * 65535, Unit), role |-> role_from_scalar(row.role),
     source |-> {"neural"}, flags |-> {"actionable"}]
RowUsable(row, scope) ==
    /\ row.finite /\ RowWidth(row) > 0 /\ RowHeight(row) > 0
    /\ LET c == CandidateOf(row, scope)
       IN /\ c.box.x \in 0..65535 /\ c.box.y \in 0..65535 /\ c.box.w \in 1..65535 /\ c.box.h \in 1..65535
          /\ c.role \in 0..10
decode_target_rows(rows, scope) ==
    LET usable == SelectSeq(rows, LAMBDA row : RowUsable(row, scope))
    IN [i \in DOMAIN usable |-> CandidateOf(usable[i], scope)]

(* The candidates above the threshold go through a heap of the best so far,    *)
(* with the worst at its root; sorted, it has the best first.                  *)
confidence_band_valid(config) ==
    \/ config.band = [minimum |-> 0, from |-> 0, to |-> 0]
    \/ config.band.minimum \in 1..config.minimum /\ config.band.from < config.band.to
above_confidence_threshold(c, config) ==
    \/ c.confidence >= config.minimum
    \/ /\ config.band.minimum # 0 /\ c.confidence >= config.band.minimum
       /\ Lesser(c.box.w, c.box.h) \in config.band.from..(config.band.to - 1)
better(candidates, i, j) ==
    LET a == candidates[i]
        b == candidates[j]
    IN IF a.confidence # b.confidence THEN a.confidence > b.confidence
       ELSE IF a.box.y # b.box.y THEN a.box.y < b.box.y
       ELSE IF a.box.x # b.box.x THEN a.box.x < b.box.x
       ELSE i < j
Swapped(heap, i, j) == [heap EXCEPT ![i] = heap[j], ![j] = heap[i]]
RECURSIVE sift_up(_, _, _)
sift_up(candidates, heap, index) ==
    LET parent == index \div 2
    IN IF index = 1 \/ ~better(candidates, heap[parent], heap[index]) THEN heap
       ELSE sift_up(candidates, Swapped(heap, parent, index), parent)
(* Slip: the right child is never looked at. *)
WorseLeft(candidates, heap, count, left) == left
Worse(candidates, heap, count, left) ==
    IF left < count /\ better(candidates, heap[left], heap[left + 1]) THEN left + 1 ELSE left
RECURSIVE sift_down(_, _, _, _)
sift_down(candidates, heap, count, index) ==
    LET worse == Worse(candidates, heap, count, 2 * index)
    IN IF 2 * index > count \/ ~better(candidates, heap[index], heap[worse]) THEN heap
       ELSE sift_down(candidates, Swapped(heap, index, worse), count, worse)
TakeCandidate(candidates, config, heap, index) ==
    IF ~above_confidence_threshold(candidates[index], config) THEN heap
    ELSE IF Len(heap) < config.maximum THEN sift_up(candidates, Append(heap, index), Len(heap) + 1)
    ELSE IF better(candidates, index, heap[1])
         THEN sift_down(candidates, [heap EXCEPT ![1] = index], Len(heap), 1)
    ELSE heap
BestFirst(candidates, heap) ==
    FoldLeft(LAMBDA h, count : sift_down(candidates, Swapped(h, 1, count), count - 1, 1), heap,
             [k \in 1..(Len(heap) - 1) |-> Len(heap) - k + 1])

(* Each is told, in 256ths, unless it lies in one that was told before or      *)
(* shares too much with it.  The target's identity is a hash of the source,    *)
(* the box, the role and the kinds of source, taken here as these.             *)
generic_visual_capabilities == {"move", "button", "scroll", "drag", "drop", "text", "select"}
capabilities_for_role(role) ==
    CASE role \in {1, 2, 5, 6, 7} -> {"move", "button", "invoke"}
      [] role = 3 -> {"move", "select"}
      [] role = 4 -> {"move", "button", "text", "select"}
      [] role = 8 -> {"move", "button", "scroll"}
      [] role = 10 -> {"move", "activate"}
      [] role = 9 -> {"move"}
      [] role = 0 -> generic_visual_capabilities
      [] OTHER -> {}
Scaled(r, by) == Rect(r.x * by, r.y * by, r.w * by, r.h * by)
InQ3(r) == Rect(r.x \div 32, r.y \div 32, r.w \div 32, r.h \div 32)
AreaShared(a, b) == LET r == intersection(a, b) IN IF rect_valid(r) THEN r.w * r.h ELSE 0
Suppresses(existing, box, iou) ==
    LET overlap == AreaShared(box, existing)
        union == box.w * box.h + existing.w * existing.h - overlap
    IN overlap = box.w * box.h \/ (overlap # 0 /\ overlap * 65535 >= union * iou)
has_safe_interior(box) == box.w > 16 /\ box.h > 16
TargetSeen(c, order) ==
    LET box == Scaled(c.box, 32)
        flags == c.flags \ {"actionable"}
        caps == IF "actionable" \in c.flags /\ has_safe_interior(c.box) /\ flags \cap {"disabled", "secure"} = {}
                THEN capabilities_for_role(c.role) ELSE {}
    IN [box |-> box, id |-> <<box, c.role, c.source>>, sx |-> box.x + box.w \div 2, sy |-> box.y + box.h \div 2,
        confidence |-> c.confidence, role |-> c.role, source |-> c.source, caps |-> caps, order |-> order,
        flags |-> IF caps = {} THEN flags ELSE flags \cup {"actionable"}]
TellCandidate(config, told, c) ==
    IF \E t \in ToSet(told) : Suppresses(InQ3(t.box), c.box, config.iou) THEN told
    ELSE Append(told, TargetSeen(c, Len(told)))
(* `room` is the records the output has room for.                              *)
Heaped(candidates, config) ==
    FoldLeft(LAMBDA heap, i : TakeCandidate(candidates, config, heap, i), <<>>, [i \in DOMAIN candidates |-> i])
Emitted(candidates, config, room, heap) ==
    IF Len(heap) > room THEN [result |-> "CAPACITY", targets |-> <<>>]
    ELSE [result |-> "OK", targets |-> FoldLeft(LAMBDA told, i : TellCandidate(config, told, candidates[i]), <<>>,
                                                BestFirst(candidates, heap))]
postprocess(candidates, config, room) ==
    IF config.maximum = 0 \/ ~confidence_band_valid(config) THEN [result |-> "INVALID", targets |-> <<>>]
    ELSE Emitted(candidates, config, room, Heaped(candidates, config))
===============================================================================
