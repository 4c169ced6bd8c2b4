-------------------------------- MODULE Overlay -------------------------------
(***************************************************************************)
(* The overlay of one display: the composer, which maps every target of    *)
(* the frozen scene to the surface and finds its label a place of its own  *)
(* (src/application/overlay_composer.cpp), and the packet it writes with   *)
(* the instances a renderer expands it to (src/overlay/packet.cpp).        *)
(***************************************************************************)
EXTENDS Fusion

CONSTANTS PerQ3,            \* q8_per_q3
          Limit,            \* UINT16_MAX, the largest coordinate of a packet
          MaximumGlyphs     \* SACCADE_OVERLAY_GLYPHS_PER_TARGET

None == 0   \* SACCADE_OVERLAY_ACTIVE_TARGET_NONE, empty_index, nullptr

style_usable(s) ==
    /\ s.stroke # 0 /\ s.active # 0 /\ s.glyph_width # 0 /\ s.glyph_height # 0
    /\ s.advance >= s.glyph_width /\ s.label_height >= s.glyph_height

(* Labels on the surface *)
LabelWidth(style, glyphs) == 2 * style.padding + style.advance * glyphs
label_rect(t, style) == Rect(t.label_x, t.label_y, LabelWidth(style, t.glyphs), style.label_height)
overlaps(a, b) == a.x < Right(b) /\ b.x < Right(a) /\ a.y < Bottom(b) /\ b.y < Bottom(a)
contains(r, p) == Within(r, [x |-> p.x \div PerQ3, y |-> p.y \div PerQ3])

(* The cells are as large as the largest label of any style, so that two       *)
(* labels that meet have their centres in neighbouring cells.                  *)
CellWidth(styles) == FoldLeft(LAMBDA w, s : Greater(w, LabelWidth(s, MaximumGlyphs)), 1, styles)
CellHeight(styles) == FoldLeft(LAMBDA h, s : Greater(h, s.label_height), 1, styles)
LabelCell(r, styles) ==
    [x |-> (r.x + r.w \div 2) \div CellWidth(styles), y |-> (r.y + r.h \div 2) \div CellHeight(styles)]
(* The mutant looks at the cell of the label alone                             *)
collides_same_cell(r, targets, styles) ==
    \E i \in DOMAIN targets :
       LET other == label_rect(targets[i], styles[targets[i].style])
       IN LabelCell(other, styles) = LabelCell(r, styles) /\ overlaps(r, other)
collides(r, targets, styles) ==
    \E i \in DOMAIN targets :
       LET other == label_rect(targets[i], styles[targets[i].style])
           here == LabelCell(r, styles)
           there == LabelCell(other, styles)
       IN there.x - here.x \in -1..1 /\ there.y - here.y \in -1..1 /\ overlaps(r, other)

(* The eight places of a label about its target, and the order in which each   *)
(* preference tries them                                                       *)
Places(t, w, h, gap) ==
    LET right == t.x + t.w
        middle == t.x + t.w \div 2 - w \div 2
        above == t.y - gap - h
        below == t.y + t.h + gap
    IN << <<t.x, above>>, <<middle, above>>, <<right - w, above>>,
          <<t.x, below>>, <<middle, below>>, <<right - w, below>>,
          <<t.x - gap - w, t.y>>, <<right + gap, t.y>> >>
Orders == [automatic |-> <<1, 2, 3, 4, 5, 6, 7, 8>>, above |-> <<2, 1, 3, 5, 4, 6, 7, 8>>,
           below |-> <<5, 4, 6, 2, 1, 3, 7, 8>>, left |-> <<7, 1, 4, 2, 5, 3, 6, 8>>,
           right |-> <<8, 3, 6, 2, 5, 1, 4, 7>>]
clamp_origin(v, extent, limit) == Lesser(Greater(v, 0), limit - extent)
(* Where the label of t goes: the first place of the surface that is free and  *)
(* leaves the point free that will be clicked; Nowhere if none is.             *)
PlaceOf(t, styles, k, surface) ==
    LET style == styles[t.style]
        w == LabelWidth(style, t.glyphs)
        place == Places(t, w, style.label_height, style.stroke)[k]
    IN Rect(clamp_origin(place[1], w, surface.w), clamp_origin(place[2], style.label_height, surface.h),
            w, style.label_height)
place_label(t, safe, styles, placement, targets, surface) ==
    LET free == {k \in 1..8 : \E r \in {PlaceOf(t, styles, Orders[placement][k], surface)} :
                                 ~contains(r, safe) /\ ~collides(r, targets, styles)}
    IN IF LabelWidth(styles[t.style], t.glyphs) > surface.w \/ styles[t.style].label_height > surface.h \/ free = {}
       THEN Nowhere
       ELSE PlaceOf(t, styles, Orders[placement][CHOOSE k \in free : \A j \in free : k <= j], surface)

floor_q3(v) == v \div PerQ3
ceil_q3(v) == (v + PerQ3 - 1) \div PerQ3
Surface(config) == [w |-> ceil_q3(config.transform.destination.w), h |-> ceil_q3(config.transform.destination.h)]
(* The extent of a target on the surface                                       *)
Mapped(t, config) ==
    LET m == map_rect_clipped(config.transform, Bounds(t))
    IN Rect(floor_q3(m.x), floor_q3(m.y), ceil_q3(Right(m)) - floor_q3(m.x), ceil_q3(Bottom(m)) - floor_q3(m.y))
SafePoint(t, config) ==
    LET p == map_point(config.transform, [x |-> t.sx, y |-> t.sy])
        m == map_rect_clipped(config.transform, Bounds(t))
    IN IF p # Outside THEN p ELSE [x |-> m.x + m.w \div 2, y |-> m.y + m.h \div 2]

(* One target as the composer sees it: where it lies, the point that will be   *)
(* clicked and its label; what the composer writes of it                       *)
View(targets, i, labels, config) ==
    [index |-> i, record |-> targets[i], rect |-> Mapped(targets[i], config),
     here |-> targets[i].display \in {0, config.display} /\ map_rect_clipped(config.transform, Bounds(targets[i])) # Nowhere,
     safe |-> SafePoint(targets[i], config),
     label |-> labels[CHOOSE k \in DOMAIN labels : labels[k].target_index = i]]
Drawn(v, config) ==
    [id |-> v.record.id, x |-> v.rect.x, y |-> v.rect.y, w |-> v.rect.w, h |-> v.rect.h,
     style |-> config.role_styles[v.record.role], glyphs |-> Len(v.label.symbols), label_x |-> 0, label_y |-> 0]
(* It is written with its label and with its place in both tables, or it ends  *)
(* the composition if its label finds no place.                                *)
Write(state, v, drawn, config) ==
    LET place == place_label(drawn, v.safe, config.styles, config.placement, state.targets, Surface(config))
    IN IF place = Nowhere THEN [state EXCEPT !.result = "BUSY"]
       ELSE [state EXCEPT !.targets = Append(@, [drawn EXCEPT !.label_x = place.x, !.label_y = place.y]),
                          !.to_overlay[v.index] = Len(state.targets) + 1, !.to_scene = Append(@, v.index),
                          !.active = IF drawn.id = config.active THEN Len(state.targets) + 1 ELSE @]
(* A target of another display, clipped away or too small is passed over       *)
Step(state, v, config) ==
    IF state.result # "OK" \/ ~v.here \/ v.rect.w < 2 \/ v.rect.h < 2 THEN state
    ELSE IF v.label.target_id # v.record.id \/ Len(v.label.symbols) \notin 1..MaximumGlyphs
    THEN [state EXCEPT !.result = "CAPACITY"]
    ELSE IF ~(ToSet(v.label.symbols) \subseteq config.glyph_symbols) THEN [state EXCEPT !.result = "UNSUPPORTED"]
    ELSE FoldLeft(LAMBDA s, drawn : Write(s, v, drawn, config), state, <<Drawn(v, config)>>)

(* The packet, and what makes one valid                                        *)
fits_q3(origin, extent) == origin >= 0 /\ extent <= Limit - origin
OverlayTargetValid(t, style) ==
    /\ t.glyphs <= MaximumGlyphs /\ t.w >= 2 /\ t.h >= 2 /\ LabelWidth(style, t.glyphs) # 0
    /\ fits_q3(t.x, t.w) /\ fits_q3(t.y, t.h)
    /\ fits_q3(t.label_x, LabelWidth(style, t.glyphs)) /\ fits_q3(t.label_y, style.label_height)
OverlayPacketValid(p) ==
    /\ (Len(p.targets) = 0) <=> (Len(p.styles) = 0)
    /\ \A i \in DOMAIN p.styles : style_usable(p.styles[i])
    /\ \A i \in DOMAIN p.targets : p.targets[i].style \in DOMAIN p.styles
                                   /\ OverlayTargetValid(p.targets[i], p.styles[p.targets[i].style])
PacketOf(state, config) ==
    [targets |-> state.targets, styles |-> IF state.targets = <<>> THEN <<>> ELSE config.styles]
Unwritten(n) == [result |-> "OK", targets |-> <<>>, to_overlay |-> [i \in 1..n |-> None], to_scene |-> <<>>,
                 active |-> None]
compose(targets, labels, config) ==
    LET n == Len(targets)
        named == \A j, k \in DOMAIN labels : labels[j].target_index \in 1..n
                    /\ (j # k => labels[j].target_index # labels[k].target_index)
        views == [i \in 1..n |-> View(targets, i, labels, config)]
        state == FoldLeft(LAMBDA s, v : Step(s, v, config), Unwritten(n), views)
    IN IF \/ Len(labels) # n \/ ~named
          \/ \E i \in DOMAIN config.styles : ~style_usable(config.styles[i])
          \/ ~rect_valid(config.transform.source) \/ ~rect_valid(config.transform.destination)
       THEN [Unwritten(n) EXCEPT !.result = "INVALID_ARGUMENT"]
       ELSE IF Surface(config).w > Limit \/ Surface(config).h > Limit
       THEN [Unwritten(n) EXCEPT !.result = "UNSUPPORTED"]
       ELSE IF state.result = "OK" /\ ~OverlayPacketValid(PacketOf(state, config))
       THEN [state EXCEPT !.result = "INVALID_ARGUMENT"]
       ELSE state

(* expand_static: four strips about the target and one quad for its label;     *)
(* expand_active: the target itself.                                           *)
Strips(t, style) ==
    LET stroke == Lesser(style.stroke, Lesser(t.w \div 2, t.h \div 2))
    IN {Rect(t.x, t.y, t.w, stroke), Rect(t.x, t.y + t.h - stroke, t.w, stroke),
        Rect(t.x, t.y, stroke, t.h), Rect(t.x + t.w - stroke, t.y, stroke, t.h)}
expand_static(p) ==
    [i \in DOMAIN p.targets |-> [outline |-> Strips(p.targets[i], p.styles[p.targets[i].style]),
                                 label |-> label_rect(p.targets[i], p.styles[p.targets[i].style])]]
expand_active(p, active) ==
    IF active = None THEN {}
    ELSE {Rect(p.targets[active].x, p.targets[active].y, p.targets[active].w, p.targets[active].h)}
=============================================================================
