----------------------------- MODULE MCAlgorithms -----------------------------
(***************************************************************************)
(* The inputs of the sequential parts.  Evidence is measured in units of   *)
(* 1024 subunits, the other geometry in units of its own.                  *)
(***************************************************************************)
EXTENDS Algorithms

Binding(command, key, modifiers, symbol) ==
    [command |-> command, key |-> key, modifiers |-> modifiers, symbol |-> symbol, always |-> FALSE, session |-> FALSE]
MCDefaultBindings == <<Binding("left_click", 9, {"control"}, 70), Binding("scroll", 22, {"control"}, 83)>>
(* Two commands more, chords that are free and chords that are taken, a key    *)
(* with no symbol and a binding that is both always active and of the session  *)
MCBindings ==
    {Binding(c, k, {"control"}, 65) : c \in {"left_click", "scroll", "drag"}, k \in {4, 9, 22}}
    \cup {Binding("drag", 4, {}, 0), Binding("left_click", 0, {}, 65),
          [Binding("scroll", 4, {"alt"}, 65) EXCEPT !.always = TRUE, !.session = TRUE]}
(* Letters of either case, signs of one key, a sign of no key                  *)
MCAlphabets == {<<65, 83>>, <<97, 83, 59>>, <<59, 58>>, <<65, 97>>, <<228, 65, 246>>, <<65>>, <<65, 0>>, <<65, 66, 67, 68>>}
MCTranslations == [1..3 -> {0, 65, 97, 83, 228, 55296}]

(* Files: every version of a document of this program, of two with a conflict, *)
(* and files that were cut off or are not settings at all                      *)
Taken == [default_settings EXCEPT !.bindings = <<Binding("scroll", 9, {}, 70), Binding("drag", 9, {}, 70)>>]
Twice == [default_settings EXCEPT !.hints.alphabet = <<65, 65>>, !.hints.keys = <<4, 4>>]
Other == [default_settings EXCEPT !.bindings = <<Binding("drag", 25, {"control"}, 86)>>,
                                  !.hints = [alphabet |-> <<59, 58>>, keys |-> <<51, 4>>, language |-> "de"],
                                  !.grid = [rows |-> 3, columns |-> 3],
                                  !.appearance = [font |-> 16, outline |-> 0, glow |-> 0],
                                  !.scope = "monitor", !.monitor = 5]
Written == {encode_settings(d, v).file : d \in {default_settings, Taken, Twice, Other}, v \in 1..5}
MCFiles == Written \cup {[f EXCEPT !.magic = FALSE] : f \in {w \in Written : w.version = 4}}
                   \cup {[f EXCEPT !.body = SubSeq(@, 1, Len(@) - 1)] : f \in {w \in Written : w.version = 4}}

(* Evidence: a window with a button and the text in it, beside which the model *)
(* sees the same things, a switched-off and a secret one                       *)
Caps == {"move", "button"}
Element(id, r, role, text) ==
    [Record(id, r, role, "accessibility", Caps, {"actionable"}, NoText) EXCEPT
        !.window = 7, !.parent = 7, !.text = [offset |-> 0, size |-> text]]
Shut(t, why) == [t EXCEPT !.caps = {}, !.flags = IF why = "secure" THEN {"secure", "redacted"} ELSE {why},
                          !.text = IF why = "secure" THEN NoText ELSE @]
Cut(t) == [t EXCEPT !.text = NoText, !.flags = @ \cup {"truncated"}]
SemanticTargets ==
    {Element(11, Rect(0, 0, 8, 8), "button", 2), Element(12, Rect(1, 1, 7, 7), "link", 1),
     Shut(Element(13, Rect(1, 0, 7, 8), "menu_item", 0), "disabled"),
     Shut(Element(14, Rect(16, 0, 12, 6), "text_field", 0), "secure"),
     Element(15, Rect(16, 0, 11, 6), "text", 2), Cut(Element(16, Rect(0, 0, 8, 7), "link", 0))}
Seen(id, r, role, caps) ==
    Record(id, r, role, "model", caps, IF caps = {} THEN {"approximate"} ELSE {"actionable", "approximate"}, NoText)
NeuralTargets ==
    {Seen(21, Rect(0, 0, 8, 8), "unknown", {}), Seen(22, Rect(1, 1, 8, 6), "button", Caps),
     [Seen(23, Rect(17, 0, 11, 6), "text", Caps) EXCEPT !.confidence = 4], Seen(24, Rect(1, 0, 10, 8), "link", Caps)}
PlacedTexts(targets) ==
    [i \in DOMAIN targets |-> [targets[i] EXCEPT !.text.offset = IF @ = 0 /\ targets[i].text.size = 0 THEN 0
                                                                 ELSE TextSize(SubSeq(targets, 1, i - 1))]]
Packet(targets) ==
    [targets |-> PlacedTexts(targets),
     text |-> FlattenSeq([i \in DOMAIN targets |-> [k \in 1..targets[i].text.size |-> targets[i].id]])]
Lists(S, n) == UNION {{s \in [1..k -> S] : \A i, j \in 1..k : i # j => s[i] # s[j]} : k \in 0..n}
MCEvidence == {<<Packet(s), Packet(t)>> : s \in Lists(SemanticTargets, 2), t \in Lists(NeuralTargets, 2)}
Filter(confidence, minimum, scope, order) ==
    [confidence |-> confidence, text_confidence |-> 5, minimum |-> minimum, scope |-> scope, order |-> order]
MCFilters == {Filter(0, 0, Nowhere, "text_first"), Filter(0, 7, Nowhere, "balanced"),
              Filter(9, 0, Rect(0, 0, 6, 9), "controls_first")}
(* A cell keeps an extent: the scope has at least a unit for each              *)
MCGridScopes == {g \in [scope : {Rect(-8, 0, 9, 7), Rect(0, 0, 4, 4)}, rows : {1, 2, 3}, columns : {1, 2, 3}, margin : {0, 1, 2}] :
                    g.scope.w - 2 * g.margin >= g.columns /\ g.scope.h - 2 * g.margin >= g.rows}
MCWindowLists == {[i \in 1..n |-> [id |-> 30 + i, bounds |-> Rect(4 * i, 0, 8, 8), title |-> titles[i]]] :
                    n \in 1..3, titles \in [1..3 -> {0, 1, 3, 5}]}

(* Scenes of the overlay: targets close together, at the edge, off the display *)
Shown1(id, r, display) == [Seen(id, r, "button", Caps) EXCEPT !.display = display]
OverlayTargets == {Shown1(41, Rect(0, 0, 8, 6), 0), Shown1(42, Rect(6, 2, 8, 6), 1), Shown1(43, Rect(30, 20, 12, 8), 0),
                   [Shown1(44, Rect(2, 1, 10, 5), 0) EXCEPT !.role = "text"], Shown1(45, Rect(10, 4, 1, 1), 0),
                   Shown1(46, Rect(20, 8, 6, 6), 2), Shown1(47, Rect(50, 4, 6, 6), 0)}
MCOverlayScenes == Lists(OverlayTargets, 3)
Style(stroke, padding, width, height) ==
    [stroke |-> stroke, padding |-> padding, glyph_width |-> width, glyph_height |-> height,
     advance |-> width + 1, label_height |-> height + 2 * padding, active |-> stroke + 1]
MCStyles == <<Style(1, 1, 1, 2), Style(2, 0, 2, 1)>>
Config(turn, placement, active) ==
    [transform |-> [source |-> Rect(0, 0, 40, 24), destination |-> IF turn = 90 THEN Rect(0, 0, 40, 64) ELSE Rect(0, 0, 64, 40),
                    turn |-> turn],
     display |-> 1, styles |-> MCStyles, role_styles |-> [button |-> 1, text |-> 2], placement |-> placement,
     glyph_symbols |-> {65, 83}, active |-> active]
MCOverlayConfigs == {Config(0, p, 41) : p \in DOMAIN Orders} \cup {Config(90, "automatic", 42)}
MCLabellings == {<< <<65>>, <<83>>, <<65, 83>> >>, << <<65, 65>>, <<65, 83>>, <<83>> >>, << <<65>>, <<66>>, <<83>> >>}

(* Plans: targets that can do one thing, a disabled one, an unknown one        *)
Able(id, caps) == [Seen(id, Rect(8 * id - 400, 0, 6, 6), "button", caps) EXCEPT !.window = IF id = 52 THEN 7 ELSE 0]
MCPlannedScenes == {Packet(<<Able(51, {"move", "button", "drag", "text", "scroll"}), Able(52, {"drop", "drag", "activate", "select"}),
                            Shut(Able(53, Caps), "disabled"),
                            [Able(54, Caps) EXCEPT !.flags = @ \cup {"occluded"}]>>)}
PlanTargets == {<<>>, <<51, 51, 51>>} \cup [1..1 -> {51, 52, 53, 54, 59}] \cup ({51, 52} \X {51, 52, 53, 59})
PlanPoints == {<<>>, <<[x |-> 9, y |-> 2]>>, <<[x |-> 8, y |-> 5], [x |-> 17, y |-> 0]>>}
MCRequests ==
    {[kind |-> kind, targets |-> targets, repeat |-> 1, points |-> points, outside |-> outside, empty |-> FALSE,
      button |-> button, smooth |-> smooth, timed |-> smooth, final |-> ~smooth, final_point |-> [x |-> 3, y |-> 3]] :
        kind \in Kinds, targets \in PlanTargets, outside \in BOOLEAN, button \in {0, 1}, points \in PlanPoints, smooth \in BOOLEAN}
    \cup {[kind |-> kind, targets |-> <<51>>, repeat |-> repeat, points |-> <<>>, outside |-> FALSE, empty |-> TRUE,
           button |-> 1, smooth |-> FALSE, timed |-> FALSE, final |-> FALSE, final_point |-> NoPoint] :
             kind \in {"text", "scroll", "key"}, repeat \in {0, 1}}
MCContexts == {[epochs |-> 1, permissions |-> {"pointer", "text", "window", "keyboard"}, button |-> 0, window |-> 3, display |-> 1],
               [epochs |-> 1, permissions |-> {"pointer"}, button |-> 0, window |-> 3, display |-> 1]}

(* Targets of one unit, thinner than the inset, wide, and at the end of the    *)
(* range                                                                       *)
MCAimedTargets ==
    {[bounds |-> r, safe |-> [x |-> r.x + ((r.w - 1) \div 2), y |-> r.y + ((r.h - 1) \div 2)]] :
       r \in {Rect(0, 0, 1, 1), Rect(-9, 5, 4, 2), Rect(-20, -8, 30, 13), Rect(36, -41, 5, 9)}}

(* Geometry: scales that grow, shrink and differ on the two axes               *)
MCTransforms == {[source |-> s, destination |-> d, turn |-> turn] :
                   s \in {Rect(0, 0, 7, 5), Rect(-3, 2, 12, 9)}, d \in {Rect(0, 0, 5, 3), Rect(-2, 1, 9, 16), Rect(0, 0, 30, 17)},
                   turn \in {0, 90, 180, 270}}
MCRects == {Rect(x, y, w, h) : x \in {-3, 0, 4, 6}, y \in {0, 2, 5}, w \in {1, 2, 7, 15}, h \in {1, 3, 8}}
MCPoints == [x : -3..9, y : 0..11]
MCAtlasSizes == {<<16, 9>>, <<5, 12>>, <<1, 1>>}

Display(id, bounds, main) ==
    [id |-> id, bounds |-> bounds, work |-> bounds, backing |-> [w |-> 2 * bounds.w, h |-> bounds.h], main |-> main]
Left == Display(1, Rect(-6, 0, 6, 6), FALSE)
Centre == Display(2, Rect(0, 0, 8, 6), TRUE)
Below == Display(3, Rect(0, 6, 8, 4), FALSE)
MCDisplayLists ==
    {<<Centre>>, <<Left, Centre>>, <<Centre, Left>>, <<Below, Centre, Left>>, <<Centre, Left, Below>>,
     <<Centre, Centre>>, <<Left>>, <<>>, <<Centre, [Left EXCEPT !.backing.w = 0]>>, <<Centre, [Below EXCEPT !.bounds.w = 4, !.work.w = 4]>>,
     <<Below, Centre, Left, Display(4, Rect(20, 0, 2, 2), FALSE)>>}
Window(id, process, r) == [id |-> id, process |-> process, bounds |-> r]
Windows == {Window(1, 8, Rect(0, 0, 6, 6)), Window(2, 8, Rect(4, 4, 6, 6)), Window(3, 9, Rect(12, 0, 4, 6)),
            Window(4, 9, Rect(2, 0, 13, 2)), Window(1, 7, Rect(4, 4, 6, 6)), Window(2, 9, Rect(0, 0, 0, 4))}
MCNavigatedLists == Lists(Windows, 4)

(* Descriptors: three providers that differ in what they can do, one of the    *)
(* other family, one made for a newer program, and one of each fault           *)
Prefix == [size |-> "current", major |-> 1, reserved |-> FALSE]
Descriptor(family, id, caps) ==
    [prefix |-> Prefix, info |-> [prefix |-> Prefix, family |-> family, id |-> id, name_valid |-> TRUE, caps |-> caps],
     ops |-> [prefix |-> Prefix, complete |-> TRUE]]
HostProvider == Descriptor("inference", 1, {"host_import"})
MCDescriptors ==
    {HostProvider, Descriptor("inference", 2, {"host_import", "native_import", "dynamic"}), Descriptor("inference", 3, {"host_import", "dynamic"}),
     Descriptor("input", 1, {}), [HostProvider EXCEPT !.prefix.size = "newer"], [HostProvider EXCEPT !.info.prefix.size = "newer"],
     [HostProvider EXCEPT !.prefix.major = 2], [HostProvider EXCEPT !.info.id = 0], [HostProvider EXCEPT !.ops.complete = FALSE],
     [HostProvider EXCEPT !.ops.prefix.reserved = TRUE]}
Device(id, caps, imports, queue) ==
    [prefix |-> Prefix, id |-> id, caps |-> caps, formats |-> {"rgba"}, imports |-> imports, queue |-> queue, in_flight |-> 1,
     name_valid |-> TRUE]
MCDeviceInfos ==
    {Device(1, {}, {"host"}, 1), Device(2, {"dynamic"}, {"host", "d3d12"}, 2), Device(1, {"dynamic"}, {"host"}, 2),
     Device(2, {}, {"d3d12"}, 1), Device(1, {}, {"host"}, 0), [Device(2, {}, {"host"}, 1) EXCEPT !.prefix.size = "short"]}
MCNeeds == {{}, {"host_import"}, {"dynamic"}, {"native_import", "dynamic"}}
Need(caps, imports, queue) == [caps |-> caps, formats |-> {}, imports |-> imports, queue |-> queue, in_flight |-> 1]
MCDeviceNeeds == {Need({}, {}, 0), Need({"dynamic"}, {"host"}, 0), Need({}, {"d3d12"}, 2)}

(* What agents ask.  Families of three in which parents may be missing, be     *)
(* their own or go in a circle; two targets in every position to each other;   *)
(* targets that differ in what a filter asks; texts that begin and contain one *)
(* another, in answers too small for them; and requests that are not well      *)
(* formed, each in one way.                                                    *)
Place(k) == Rect(4 * k, 0, 3, 3)
Family(parents) == [k \in DOMAIN parents |-> SceneTarget(k, parents[k], Place(k), <<>>)]
Everything == [kind |-> "desktop", mode |-> "any", id |-> 0, rect |-> Nowhere]
Fresh == [policy |-> "latest", flags |-> {}, after |-> 0]
Request(filters, maximum) ==
    [asks |-> {"observe"}, maximum |-> maximum, filters |-> filters, filters_offset |-> RequestSize, filter_stride |-> FilterSize,
     total |-> RequestSize + Len(filters) + 2, freshness |-> Fresh, generation |-> 0, scope |-> Everything]
Desktop == [window |-> 1, display |-> 1, bounds |-> Rect(0, 0, 8, 8), epoch |-> 5, incomplete |-> {}]
Question(targets, filters, maximum) ==
    [scene |-> targets, state |-> Desktop, request |-> Request(filters, maximum), bytes |-> <<0, 0, 0, 0, 0, 0>>,
     available |-> {"observe"}, room |-> CompletionSize + (3 * ReturnedSize) + 2]
Kin(relation, related) == [NoFilter EXCEPT !.asks = {"relation"}, !.relation = relation, !.related = related]
KinQueries == {Question(Family(parents), <<Kin(relation, related)>>, 3) :
                 parents \in [1..3 -> 0..4], relation \in Relations \ {"contains", "contained_by"}, related \in 1..4}
Spots == {Rect(0, 0, 4, 4), Rect(1, 1, 2, 2), Rect(0, 0, 4, 2), Rect(4, 0, 4, 4), Rect(3, 3, 4, 4), Rect(-2, 1, 9, 1)}
Homes(k, spot, window) == [SceneTarget(k, 0, spot, <<>>) EXCEPT !.window = window, !.display = 2 - window]
SpotScenes == {<<Homes(1, a, 1), Homes(2, b, w)>> : a, b \in Spots, w \in {0, 2}}
Scopes == {[kind |-> kind, mode |-> "any", id |-> id, rect |-> Rect(2, 2, 2, 2)] :
             kind \in {"desktop", "active_window", "display", "rect"}, id \in {0, 2}}
SpotQueries ==
    {Question(s, <<[Kin(relation, 1) EXCEPT !.asks = asks, !.rect = Rect(4, 1, 1, 3)]>>, 2) :
       s \in SpotScenes, relation \in {"contains", "contained_by"}, asks \in {{"relation"}, {"rect"}}}
    \cup {[Question(s, <<>>, 2) EXCEPT !.request.scope = scope, !.state.window = window] :
            s \in SpotScenes, scope \in Scopes, window \in {0, 1}}
Varied == {[SceneTarget(1, 0, Place(1), <<>>) EXCEPT !.role = role, !.source = source, !.caps = caps, !.confidence = confidence] :
             role \in {"button", "text"}, source \in {{"neural"}, {"accessibility", "pixel"}, {"grid"}},
             caps \in SUBSET {"move", "click"}, confidence \in {1, 2}}
VariedFilters == {[NoFilter EXCEPT !.asks = asks, !.id = id, !.source = {"neural", "grid"}, !.needs = {"click"}, !.forbids = {"move"},
                                   !.confidence = 2] :
                    asks \in {{"id", "role"}, {"source"}, {"caps"}, {"confidence"}}, id \in {1, 2}}
VariedQueries == {[Question(<<t>>, <<f>>, 1) EXCEPT !.request.scope.mode = mode] :
                    t \in Varied, f \in VariedFilters, mode \in {"fused", "pixel", "semantic", "grid"}}
Words == {<<>>, <<7>>, <<7, 8>>, <<8, 7, 8>>}
WordScenes == {[k \in 1..3 |-> SceneTarget(k, 0, Place(k), words[k])] : words \in [1..3 -> Words]}
Says(match, size) == [NoFilter EXCEPT !.asks = {"text"}, !.match = match, !.text_at = RequestSize + FilterSize, !.text_size = size]
Tight(q, room) == [q EXCEPT !.bytes = <<0, 0, 0, 7, 8>>, !.room = CompletionSize + (q.request.maximum * ReturnedSize) + room,
                            !.state.incomplete = IF room = 0 THEN {"incomplete"} ELSE {}]
WordQueries ==
    {Tight(Question(s, <<>>, maximum), room) : s \in WordScenes, maximum \in 1..3, room \in 0..4}
    \cup {Tight(Question(s, <<Says(match, size)>>, maximum), 2) :
            s \in WordScenes, match \in {"exact", "prefix", "substring"}, size \in {1, 2}, maximum \in {1, 3}}
Spoken == Tight(Question(Family(<<0, 1, 2>>), <<Says("prefix", 1), Kin("descendant", 1)>>, 2), 2)
OddQueries ==
    {[Spoken EXCEPT !.request.asks = asks] : asks \in {{}, {"observe", "pointer"}}}
    \cup {[Spoken EXCEPT !.request.maximum = n, !.request.filter_stride = stride, !.request.filters_offset = at,
                         !.request.filters[1].text_at = text_at, !.request.filters[1].asks = asks, !.bytes = <<0, 0, 0, 0, 7, 8>>, !.request.total = total] :
            n \in {0, 2, 3}, stride \in 0..2, at \in 1..4, text_at \in 2..6, total \in 5..7, asks \in {{}, {"text"}}}
    \cup {[Spoken EXCEPT !.request.freshness = [policy |-> policy, flags |-> flags, after |-> after], !.request.generation = generation] :
            policy \in {"latest", "after", "force", "other"}, flags \in {{}, {"damage"}}, after \in {4, 5}, generation \in {0, 4, 5}}
    \cup {[Spoken EXCEPT !.request.filters[2].relation = relation] : relation \in {"nearest", "other"}}
MCQueries == KinQueries \cup SpotQueries \cup VariedQueries \cup WordQueries \cup OddQueries
MCObservations ==
    {[scene |-> s, state |-> Desktop, available |-> {"observe"}, room |-> 9,
      request |-> [asks |-> {"observe"}, maximum |-> maximum, target_stride |-> stride, capacity |-> capacity, freshness |-> Fresh,
                   scope |-> Everything]] :
       s \in WordScenes, maximum \in {0, 2, 4}, stride \in 1..3, capacity \in 0..10}

(* Frames of three rows of five pixels: any first two, and a third that joins, *)
(* separates or leaves open what is above it; grey in a scope or with a small  *)
(* area left out, or in colours.                                               *)
Lines == SUBSET (0..4)
Grey(lines) == [y \in 1..3 |-> [x \in 0..4 |-> IF x \in lines[y] THEN <<200 + 11 * x + y>> ELSE <<199>>]]
Coloured(lines) == [y \in 1..3 |-> [x \in 0..4 |-> IF x \in lines[y] THEN <<255, 240, 20 * x>> ELSE <<255, 160, 255>>]]
LookedAt(rows, scope, minimum) == [rows |-> rows, scope |-> scope, threshold |-> 200, minimum_area |-> minimum]
MCDetections ==
    {LookedAt(Grey(<<a, b, c>>), Rect(0, 0, 5, 3), 1) : a, b \in Lines, c \in {{}, 0..4, {0, 2, 4}, {0, 1, 3, 4}}}
    \cup {LookedAt(Grey(<<a, b, {0, 1, 4}>>), Rect(1, 1, 4, 2), 1) : a \in {{}, {0, 2}}, b \in Lines}
    \cup {LookedAt(Coloured(<<a, {1, 2, 4}, c>>), Rect(0, 0, 5, 3), 3) : a, c \in Lines}

(* Rows of a model: two that share much, one in both that is surer, a narrow   *)
(* one, one that goes past the end, one no target could be made of; in every   *)
(* order, with room for fewer than there are, and thinner or less sure ones    *)
(* let through or not.                                                         *)
SeenRow(x, y, w, h, confidence, role) ==
    [finite |-> TRUE, x |-> x, y |-> y, w |-> w, h |-> h, confidence |-> confidence, role |-> role]
SeenRows == {SeenRow(0, 0, 8, 14, 12, 16), SeenRow(1, 0, 8, 14, 12, 32), SeenRow(2, 4, 4, 7, 15, 64),
             SeenRow(9, 0, 1, 16, 4, 160),
             SeenRow(7, 8, 16, 16, 9, 5), SeenRow(0, 0, 8, 9, 12, 47), SeenRow(-3, 0, 8, 7, 4, 144)}
OddRows == {[SeenRow(0, 0, 8, 8, 16, 16) EXCEPT !.finite = FALSE],
            SeenRow(16, 0, 4, 4, 16, 16), SeenRow(0, 0, 8, 8, 16, 170), SeenRow(0, 0, 8, 8, 16, -8)}
NoBand == [minimum |-> 0, from |-> 0, to |-> 0]
Thinning(maximum, minimum, band, iou) == [maximum |-> maximum, minimum |-> minimum, band |-> band, iou |-> iou]
Thinnings == {Thinning(4, 1, NoBand, 32768), Thinning(3, 1, NoBand, 65535),
              Thinning(2, 32768, [minimum |-> 16000, from |-> 4, to |-> 18], 20000)}
MCSightings ==
    [rows : Lists(SeenRows, 3) \cup {s \in [1..5 -> SeenRows] : IsInjective(s)} \cup (OddRows \X SeenRows), scope : {Rect(1, 0, 8, 5)},
     config : Thinnings, room : {2, 4}]
=============================================================================
