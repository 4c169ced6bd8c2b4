-------------------------------- MODULE Fusion --------------------------------
(***************************************************************************)
(* Scene packets (src/scene): what makes one valid, the fusion of evidence *)
(* into one scene through a spatial hash of size levels, the filter that   *)
(* compacts it in place, and the grid and window scenes that bypass it.    *)
(* A unit is 1024 subunits of the code, which makes its smallest level 2.  *)
(* A thing that has a text names its owner in every byte of the text pool, *)
(* so that a text copied from the wrong place is seen.                     *)
(***************************************************************************)
EXTENDS Geometry

CONSTANTS MaximumTargets,      \* maximum_targets
          MaximumTextBytes,    \* SACCADE_TARGET_PACKET_MAX_TEXT_BYTES
          IouTenths,           \* iou_threshold_q16
          ContainmentTenths,   \* containment_threshold_q16
          MaximumAreaRatio     \* maximum_area_ratio_q8

MinimumLevel == 2
MaximumLevel == 20

(* Target records *)
NoText == [offset |-> 0, size |-> 0]
Bounds(t) == Rect(t.x, t.y, t.w, t.h)
Safety == {"disabled", "secure"}
valid_target(t) ==
    /\ rect_valid(Bounds(t)) /\ Within(Bounds(t), [x |-> t.sx, y |-> t.sy])
    /\ t.id # 0 /\ t.parent # t.id
    /\ "actionable" \in t.flags <=> t.caps # {}
    /\ t.flags \cap Safety # {} => t.caps = {}
    /\ t.flags \cap {"secure", "redacted", "truncated"} # {} => t.text.size = 0
    /\ ~({"redacted", "truncated"} \subseteq t.flags)
    /\ t.text.size = 0 => t.text.offset = 0
(* The texts lie one after the other, in the order of the targets              *)
TextSize(targets) == FoldLeft(LAMBDA sum, t : sum + t.text.size, 0, targets)
validate_packet(p) ==
    /\ Len(p.targets) <= MaximumTargets /\ Len(p.text) <= MaximumTextBytes
    /\ \A i \in DOMAIN p.targets :
          /\ valid_target(p.targets[i])
          /\ p.targets[i].text.size # 0 => p.targets[i].text.offset = TextSize(SubSeq(p.targets, 1, i - 1))
    /\ Len(p.text) = TextSize(p.targets)
TextOf(p, t) == SubSeq(p.text, t.text.offset + 1, t.text.offset + t.text.size)

(* Size levels and the cells they divide the desktop into                      *)
Extent(t) == Greater(t.w, t.h)
target_level(t) == CHOOSE l \in MinimumLevel..MaximumLevel :
    /\ Extent(t) <= 2^l \/ l = MaximumLevel
    /\ l = MinimumLevel \/ Extent(t) > 2^(l - 1)
floor_cell(v, level) == v \div 2^level
CellOf(t, level) == [x |-> floor_cell(t.sx, level), y |-> floor_cell(t.sy, level)]
(* insert_nodes: the levels at which an accepted target can be found; the      *)
(* mutant inserts at its own level only                                        *)
OwnLevelOnly(t) == {target_level(t)}
NodeLevels(t) == {l \in MinimumLevel..MaximumLevel : l \in (target_level(t) - 2)..(target_level(t) + 2)}

(* What makes two records the same thing                                       *)
role_group(role) ==
    CASE role \in {"button", "link", "checkbox", "radio", "menu_item"} -> 1
      [] role \in {"text", "text_field"} -> 2
      [] role = "slider" -> 3 [] role = "image" -> 4 [] role = "window" -> 5
      [] OTHER -> 0
Agree(a, b) == a = 0 \/ b = 0 \/ a = b
compatible_role(s, t) == Agree(role_group(s.role), role_group(t.role))
compatible_window(s, t) == Agree(s.window, t.window) /\ Agree(s.display, t.display)
area(t) == t.w * t.h
ratio_at_least(numerator, denominator, tenths) == numerator * 10 >= denominator * tenths
Shared(s, t) == LET r == intersection(Bounds(s), Bounds(t)) IN IF rect_valid(r) THEN r.w * r.h ELSE 0
OverlapEnough(s, t) == ratio_at_least(Shared(s, t), area(s) + area(t) - Shared(s, t), IouTenths)
ContainedEnough(s, t) ==
    LET smaller == Lesser(area(s), area(t))
    IN /\ Greater(area(s), area(t)) <= smaller * MaximumAreaRatio
       /\ ratio_at_least(Shared(s, t), smaller, ContainmentTenths)
duplicate(s, t) ==
    /\ compatible_role(s, t) /\ compatible_window(s, t) /\ Shared(s, t) > 0
    /\ OverlapEnough(s, t) \/ ContainedEnough(s, t)

Semantic(t) == "accessibility" \in t.sources /\ t.role # "unknown"
Filled(mine, theirs) == IF mine = 0 THEN theirs ELSE mine
(* The kept record gains the fields it lacks                                   *)
FilledFrom(t, c) ==
    [t EXCEPT !.sources = @ \cup c.sources, !.confidence = Greater(@, c.confidence),
              !.role = IF @ = "unknown" THEN c.role ELSE @,
              !.parent = Filled(@, c.parent), !.window = Filled(@, c.window),
              !.display = Filled(@, c.display), !.text = IF @.size = 0 THEN c.text ELSE @,
              !.merged = @ \cup {c.id}]
(* Safety dominates: what either calls disabled or secure has no capability    *)
MadeSafe(t, safety) ==
    LET closed == [t EXCEPT !.caps = {}, !.flags = (@ \cup safety) \ {"actionable"}]
    IN IF "secure" \in safety
       THEN [closed EXCEPT !.text = NoText, !.flags = (@ \cup {"redacted"}) \ {"truncated"}]
       ELSE closed
Kept == {"occluded", "approximate", "redacted", "truncated"}
WithCapabilities(t, c, filled) ==
    LET caps == IF Semantic(c) THEN c.caps ELSE IF Semantic(t) THEN t.caps ELSE t.caps \cup c.caps
    IN [filled EXCEPT !.caps = caps,
                      !.flags = @ \cup (c.flags \cap Kept) \cup (IF caps # {} THEN {"actionable"} ELSE {})]
(* The mutant lets the safety of the kept record alone decide                  *)
merge_target_own(t, c) ==
    LET safety == t.flags \cap Safety
    IN IF safety # {} THEN MadeSafe(FilledFrom(t, c), safety) ELSE WithCapabilities(t, c, FilledFrom(t, c))
merge_target(t, c) ==
    LET safety == (t.flags \cup c.flags) \cap Safety
    IN IF safety # {} THEN MadeSafe(FilledFrom(t, c), safety) ELSE WithCapabilities(t, c, FilledFrom(t, c))

(* find_duplicate: the accepted records in the nine cells about the candidate  *)
(* at its own level, row by row, the newest of a cell first; 0 for none.       *)
Near(c, t) ==
    LET l == target_level(c)
    IN /\ l \in NodeLevels(t)
       /\ CellOf(t, l).x - CellOf(c, l).x \in -1..1 /\ CellOf(t, l).y - CellOf(c, l).y \in -1..1
Sooner(c, targets, i, j) ==
    LET a == CellOf(targets[i], target_level(c))
        b == CellOf(targets[j], target_level(c))
    IN \/ a.y < b.y \/ (a.y = b.y /\ a.x < b.x)
       \/ a = b /\ i > j
find_duplicate(c, targets) ==
    LET found == {i \in DOMAIN targets : Near(c, targets[i]) /\ duplicate(targets[i], c)}
    IN IF found = {} THEN 0
       ELSE CHOOSE i \in found : \A j \in found \ {i} : Sooner(c, targets, i, j)

(* One candidate more: merged into the record it repeats, dropped if there is  *)
(* no room for another                                                         *)
Admit(targets, c) ==
    LET match == find_duplicate(c, targets)
    IN IF match # 0 THEN [targets EXCEPT ![match] = merge_target(@, c)]
       ELSE IF Len(targets) = MaximumTargets THEN targets
       ELSE Append(targets, [c EXCEPT !.merged = {c.id}])
(* The texts are copied behind the last record; one that does not fit is       *)
(* dropped and marked.  Until then a record refers to a text of an input.      *)
CopyText(packet, t) ==
    IF t.text.size = 0 THEN [packet EXCEPT !.targets = Append(@, [t EXCEPT !.text = NoText])]
    ELSE IF Len(packet.text) + t.text.size > MaximumTextBytes
    THEN [packet EXCEPT !.targets = Append(@, [t EXCEPT !.text = NoText, !.flags = @ \cup {"truncated"}])]
    ELSE [packet EXCEPT !.targets = Append(@, [t EXCEPT !.text = [offset |-> Len(packet.text), size |-> t.text.size]]),
                        !.text = @ \o t.text.bytes]
(* fuse: semantic evidence comes first, its geometry and identity win          *)
WithBytes(p, t) == [t EXCEPT !.text = [size |-> t.text.size, bytes |-> TextOf(p, t)]]
Candidates(packets) == FlattenSeq([k \in DOMAIN packets |->
    [i \in DOMAIN packets[k].targets |-> WithBytes(packets[k], packets[k].targets[i])]])
EmptyPacket == [targets |-> <<>>, text |-> <<>>]
fuse(packets, merge_duplicates) ==
    LET candidates == Candidates(packets)
        accepted == IF merge_duplicates THEN FoldLeft(Admit, <<>>, candidates)
                    ELSE SubSeq([i \in DOMAIN candidates |-> [candidates[i] EXCEPT !.merged = {candidates[i].id}]],
                                1, Lesser(Len(candidates), MaximumTargets))
    IN FoldLeft(CopyText, EmptyPacket, accepted)

(* filter_targets: the records that remain move up, then the whole text pool,  *)
(* then every text in turn to its new place in the pool.                       *)
Passes(t, filter) ==
    /\ t.confidence >= (IF role_group(t.role) = 2 THEN filter.text_confidence ELSE filter.confidence)
    /\ t.w >= filter.minimum /\ t.h >= filter.minimum
    /\ filter.scope # Nowhere => Within(filter.scope, [x |-> t.sx, y |-> t.sy])
Priority(t, order) ==
    CASE order = "balanced" -> 0
      [] order = "text_first" -> IF role_group(t.role) = 2 THEN 0 ELSE 1
      [] order = "controls_first" -> IF role_group(t.role) = 2 THEN 1 ELSE 0
Moved(bytes, to, from, n) == [k \in DOMAIN bytes |-> IF k \in (to + 1)..(to + n) THEN bytes[k - to + from] ELSE bytes[k]]
(* The mutant moves no text once the records have moved                        *)
CompactNothing(state, t) == [state EXCEPT !.targets = Append(@, t), !.size = @ + t.text.size]
Compact(state, t) ==
    IF t.text.size = 0 THEN [state EXCEPT !.targets = Append(@, t)]
    ELSE [targets |-> Append(state.targets, [t EXCEPT !.text.offset = state.size]),
          text |-> Moved(state.text, state.size, t.text.offset, t.text.size),
          size |-> state.size + t.text.size]
filter_targets(p, filter) ==
    LET kept == SelectSeq(p.targets, LAMBDA t : Passes(t, filter))
        ordered == [i \in DOMAIN kept |->
                      [kept[i] EXCEPT !.order = Priority(kept[i], filter.order) * MaximumTargets + i - 1]]
        state == FoldLeft(Compact, [targets |-> <<>>, text |-> p.text, size |-> 0], ordered)
    IN [targets |-> state.targets, text |-> SubSeq(state.text, 1, state.size)]

Record(id, r, role, source, caps, flags, text) ==
    [id |-> id, parent |-> 0, window |-> 0, display |-> 0, x |-> r.x, y |-> r.y, w |-> r.w, h |-> r.h,
     sx |-> r.x + r.w \div 2, sy |-> r.y + r.h \div 2, confidence |-> 9, role |-> role, sources |-> {source},
     caps |-> caps, flags |-> flags, text |-> text, order |-> 0, merged |-> {}]

(* build_grid_scene: the scope less its margins, cut into rows and columns     *)
GridPossible(scope, rows, columns, margin) ==
    /\ rows # 0 /\ columns # 0 /\ rows * columns <= MaximumTargets
    /\ rect_valid(scope) /\ 2 * margin < scope.w /\ 2 * margin < scope.h
GridRect(scope, rows, columns, margin, k) ==
    LET row == k \div columns
        column == k % columns
        w == scope.w - 2 * margin
        h == scope.h - 2 * margin
        x == scope.x + margin + (w * column) \div columns
        y == scope.y + margin + (h * row) \div rows
    IN Rect(x, y, scope.x + margin + (w * (column + 1)) \div columns - x,
            scope.y + margin + (h * (row + 1)) \div rows - y)
build_grid_scene(scope, rows, columns, margin) ==
    [targets |-> [k \in 1..(rows * columns) |->
        [Record(k, GridRect(scope, rows, columns, margin, k - 1), "unknown", "grid", {"move", "button"},
                {"actionable", "approximate"}, NoText) EXCEPT !.order = k - 1]],
     text |-> <<>>]

(* build_window_scene: the room for the titles is found first, then the titles *)
(* are placed in it in the order of the windows                                *)
TitleRoom(windows) == FoldLeft(LAMBDA room, w : IF w.title <= MaximumTextBytes - room THEN room + w.title ELSE room,
                               0, windows)
PlaceTitle(room, state, w) ==
    LET used == Len(state.text)
        t == [Record(w.id, w.bounds, "window", "accessibility", {"activate"}, {"actionable"}, NoText)
                EXCEPT !.window = w.id, !.order = Len(state.targets)]
    IN IF w.title = 0 THEN [state EXCEPT !.targets = Append(@, t)]
       ELSE IF w.title <= room - used
       THEN [targets |-> Append(state.targets, [t EXCEPT !.text = [offset |-> used, size |-> w.title]]),
             text |-> state.text \o [k \in 1..w.title |-> w.id]]
       ELSE [state EXCEPT !.targets = Append(@, [t EXCEPT !.flags = @ \cup {"truncated"}])]
build_window_scene(windows) ==
    FoldLeft(LAMBDA state, w : PlaceTitle(TitleRoom(windows), state, w), EmptyPacket, windows)
=============================================================================
