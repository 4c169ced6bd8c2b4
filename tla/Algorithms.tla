------------------------------ MODULE Algorithms ------------------------------
(***************************************************************************)
(* The sequential parts of the program at work on all of a set of inputs:  *)
(* the user edits the settings and moves them between files, evidence is   *)
(* fused into a scene and the scene is filtered, labelled, laid out, aimed *)
(* at and acted upon, the platform lists its displays and windows,         *)
(* providers and devices are registered and selected, agents ask what the  *)
(* scene holds, the reference backend detects, the post-processor thins    *)
(* out what a model sees.  These parts share no state, so a behaviour does *)
(* one kind of work.                                                       *)
(***************************************************************************)
EXTENDS Settings, Overlay, Aim, ActionPlanner, Registry, AgentQuery, Detector

CONSTANTS MaximumEdits,       \* how often the user changes the settings
          MaximumPublications,\* how often the platform lists its displays
          Bindings, Alphabets, Translations, Files,        \* what the user enters and opens
          Evidence, Filters, GridScopes, WindowLists,      \* packets and lists fused or shown
          OverlayScenes, OverlayConfigs, Labellings,       \* what is composed
          PlannedScenes, Requests, Contexts,               \* what is planned
          MaximumAdjustments, AimCommands, AimedTargets,    \* what moves the point, of which targets
          Transforms, Rects, Points, AtlasSizes,           \* what is mapped
          DisplayLists, NavigatedLists, Excluded,          \* what the platform lists
          Queries, Observations,                           \* what agents ask, of which scene
          Detections,                                      \* frames, and what is looked for in them
          Sightings                                        \* rows of a model, and how they are thinned out

VARIABLES work,      \* the kind of work of this behaviour
          edits,     \* the changes made so far
          document,  \* SettingsController::staged_
          scene,     \* the packet the coordinator publishes
          catalog,   \* DisplayCatalog
          answer     \* the last operation: what it was asked and what it returned

vars == <<work, edits, document, scene, catalog, registryVars, answer>>
Works == {"settings", "evidence", "overlay", "aim", "plan", "mapping", "lists", "registry", "queries", "detection"}
Nothing == [op |-> "none"]

Init ==
    /\ work \in Works
    /\ edits = 0
    /\ document = default_settings
    /\ scene = EmptyPacket
    /\ catalog = EmptyCatalog
    /\ RegistryInit
    /\ answer = Nothing

(* The user edits a copy of the document, which is staged if the edit is       *)
(* accepted (Application::modify_binding); a page is reset in place.           *)
Editing == work = "settings" /\ edits < MaximumEdits
Edit(op, subject, result, staged) ==
    /\ edits' = edits + 1
    /\ document' = staged
    /\ answer' = [op |-> op, subject |-> subject, result |-> result, before |-> document]
    /\ UNCHANGED <<work, scene, catalog, registryVars>>
EditCopy(op, subject, done) == Edit(op, subject, done.result, IF done.result = Ok THEN done.document ELSE document)
ModifyBinding == Editing /\ \E b \in Bindings : EditCopy("bind", b, set_binding(document, b))
RemoveBinding == Editing /\ \E b \in Bindings : EditCopy("unbind", b, remove_binding(document, b.command))
ResetPage ==
    Editing /\ \E page \in Pages :
       LET done == reset_settings_page(page, document) IN Edit("reset", page, done.result, done.document)
StageAlphabet ==
    Editing /\ \E symbols \in Alphabets :
       LET updated == [document EXCEPT !.hints = set_hint_alphabet(document.hints, symbols)]
       IN EditCopy("alphabet", symbols,
                   Answer(IF updated.hints.alphabet = symbols THEN validate_settings(updated) ELSE Invalid, updated))
ImportSettings == Editing /\ \E file \in Files : EditCopy("import", file, decode_settings(file))
(* The profile is built when the settings are applied: the labels show the     *)
(* symbols of the keyboard's layout                                            *)
ResolveLabels ==
    /\ work = "settings"
    /\ \E symbols \in Translations :
          answer' = [op |-> "labels", shown |-> resolve_hint_alphabet(document.hints, symbols)]
    /\ UNCHANGED <<work, edits, document, scene, catalog, registryVars>>

(* One publication of the coordinator: its inputs, fused and filtered, or one  *)
(* of the two sources that bypass fusion                                       *)
Gathering == work = "evidence" /\ answer = Nothing
PublishScene(packet, report) ==
    /\ scene' = packet
    /\ answer' = report
    /\ UNCHANGED <<work, edits, document, catalog, registryVars>>
Publish ==
    Gathering /\ \E inputs \in Evidence, merge \in BOOLEAN, filter \in Filters :
       \E fused \in {fuse(inputs, merge)} :
          PublishScene(filter_targets(fused, filter),
                       [op |-> "publish", inputs |-> inputs, merge |-> merge, filter |-> filter, fused |-> fused])
ShowGrid ==
    Gathering /\ \E g \in GridScopes :
       /\ GridPossible(g.scope, g.rows, g.columns, g.margin)
       /\ PublishScene(build_grid_scene(g.scope, g.rows, g.columns, g.margin), [op |-> "show"])
ShowWindows ==
    Gathering /\ \E windows \in WindowLists : PublishScene(build_window_scene(windows), [op |-> "show"])

(* What the frozen scene is used for                                           *)
Asked(kind) == work = kind /\ answer = Nothing
Answers(question) == answer' = question /\ UNCHANGED <<work, edits, document, scene, catalog, registryVars>>
ComposeOverlay ==
    /\ Asked("overlay")
    /\ \E targets \in OverlayScenes, config \in OverlayConfigs, labelling \in Labellings :
          LET labels == [i \in DOMAIN targets |->
                           [target_index |-> i, target_id |-> targets[i].id, symbols |-> labelling[i]]]
          IN Answers([op |-> "compose", targets |-> targets, config |-> config,
                      overlay |-> compose(targets, labels, config)])
(* The user moves the point while the session is open; `steps` is what it took *)
Adjust ==
    /\ work = "aim" /\ edits < MaximumAdjustments
    /\ \E command \in AimCommands :
          LET aim == IF answer = Nothing THEN Unaimed ELSE answer.aim
              steps == IF answer = Nothing THEN <<>> ELSE answer.steps
          IN answer' = IF Adjustable(aim, command)
                       THEN [op |-> "aim", result |-> "OK", aim |-> Adjusted(aim, command), steps |-> Append(steps, command)]
                       ELSE [op |-> "aim", result |-> "CAPACITY", aim |-> aim, steps |-> steps]
    /\ edits' = edits + 1
    /\ UNCHANGED <<work, document, scene, catalog, registryVars>>
BuildPlan ==
    /\ Asked("plan")
    /\ \E packet \in PlannedScenes, q \in Requests, context \in Contexts, epochs \in {1, 2} :
          Answers([op |-> "plan", packet |-> packet, request |-> q, context |-> context,
                   plan |-> build(packet, epochs, q, context)])
MapRect ==
    /\ Asked("mapping")
    /\ \E t \in Transforms, r \in Rects : Answers([op |-> "map", transform |-> t, rect |-> r])
LayAtlas ==
    /\ Asked("mapping")
    /\ \E size \in AtlasSizes, r \in Rects, displays \in DisplayLists :
          LET surfaces == ToSet(publish(EmptyCatalog, displays).displays)
          IN Answers([op |-> "atlas", scope |-> r, size |-> size, surfaces |-> surfaces,
                      layout |-> make_scope_atlas_layout(r, size[1], size[2], surfaces)])

(* What the platform lists                                                     *)
PublishDisplays ==
    /\ work = "lists" /\ edits < MaximumPublications
    /\ edits' = edits + 1
    /\ \E displays \in DisplayLists :
          /\ catalog' = publish(catalog, displays)
          /\ answer' = [op |-> "displays", given |-> displays, before |-> catalog]
    /\ UNCHANGED <<work, document, scene, registryVars>>
Navigate ==
    /\ Asked("lists")
    /\ \E listed \in NavigatedLists, excluded \in Excluded, id \in 1..4, direction \in {"left", "right", "up", "down"} :
          LET collected == collect(listed, excluded)
          IN /\ collected.result = "OK" /\ collected.windows # <<>>
             /\ Answers([op |-> "windows", windows |-> collected.windows, id |-> id,
                         after |-> behind(collected.windows, id), before |-> cycle(collected.windows, id, FALSE),
                         direction |-> direction, beside |-> directional(collected.windows, id, direction)])

(* Providers and devices are registered and selected.                          *)
UseRegistry == work = "registry" /\ RegistryNext /\ UNCHANGED <<work, edits, document, scene, catalog, answer>>

(* An agent asks what the scene holds: for some of it, or for all in a scope.  *)
Query ==
    /\ Asked("queries")
    /\ \E q \in Queries :
          Answers([op |-> "query", of |-> q, limit |-> q.request.maximum, room |-> q.room, stride |-> ReturnedSize,
                   filters |-> q.request.filters, bytes |-> q.bytes,
                   told |-> query(q.scene, q.state, q.request, q.bytes, q.available, q.room)])
Observe ==
    /\ Asked("queries")
    /\ \E q \in Observations :
          Answers([op |-> "observe", of |-> q, limit |-> q.request.maximum, room |-> q.request.capacity,
                   stride |-> q.request.target_stride, filters |-> <<>>, bytes |-> <<>>,
                   told |-> observe_scene(q.scene, q.state, q.request, q.available, q.room)])

(* A job of the reference backend runs; a neural model has seen something.     *)
Detect ==
    /\ Asked("detection")
    /\ \E q \in Detections :
          Answers([op |-> "detect", of |-> q, told |-> detect_in(q.rows, q.scope, q.threshold, q.minimum_area)])
Postprocess ==
    /\ Asked("detection")
    /\ \E q \in Sightings :
          \E candidates \in {decode_target_rows(q.rows, q.scope)} :
             Answers([op |-> "see", of |-> q, candidates |-> candidates, told |-> postprocess(candidates, q.config, q.room)])

Next ==
    \/ ModifyBinding \/ RemoveBinding \/ ResetPage \/ StageAlphabet \/ ImportSettings \/ ResolveLabels
    \/ Publish \/ ShowGrid \/ ShowWindows
    \/ ComposeOverlay \/ Adjust \/ BuildPlan \/ MapRect \/ LayAtlas
    \/ PublishDisplays \/ Navigate
    \/ UseRegistry
    \/ Query \/ Observe \/ Detect \/ Postprocess

Spec == Init /\ [][Next]_vars

-------------------------------------------------------------------------------
(* Properties *)

(* No sequence of edits, resets and imports stages a document the settings     *)
(* refuse; an accepted binding alone answers to its chord; a binding is        *)
(* refused as taken only when another command has the chord; what is exported  *)
(* is read back as it was, the keys of an old file migrated; the labels get a  *)
(* style that can be drawn.                                                    *)
BoundAlone ==
    answer.op = "bind" /\ answer.result = Ok =>
       {i \in DOMAIN document.bindings : SameChord(document.bindings[i], answer.subject)}
           = {find_binding(document, answer.subject.command)}
TakenByAnother ==
    answer.op = "bind" /\ answer.result = Exists =>
       \E i \in DOMAIN answer.before.bindings :
          /\ SameChord(answer.before.bindings[i], answer.subject)
          /\ answer.before.bindings[i].command # answer.subject.command
Reread ==
    \A version \in 2..4 :
       LET written == encode_settings(document, version)
           read == decode_settings(written.file)
       IN /\ written.result = Ok /\ read.result = Ok
          /\ read.document = IF version >= 3 THEN document
                              ELSE [document EXCEPT !.hints.keys = migrate_hint_keys(document.hints.alphabet)]
DocumentHolds ==
    work = "settings" => /\ validate_settings(document) = Ok /\ profile_valid(make_interaction_profile(document))
                         /\ style_usable(resolve_overlay_style(document.appearance))
                         /\ BoundAlone /\ TakenByAnother /\ Reread

(* Whatever the keyboard layout makes of the keys, the labels resolve: to      *)
(* different symbols, each the layout's own or the one of the alphabet.        *)
LabelsResolve ==
    answer.op = "labels" =>
       /\ answer.shown.result = Ok
       /\ Distinct(Canonical(answer.shown.alphabet))
       /\ \A k \in 4..56 : default_logical_symbol(k) # 0 => us_physical_key(default_logical_symbol(k)) = k

(* What the user edits, stores and sees holds together.                        *)
SettingsHold == DocumentHolds /\ LabelsResolve

(* The spatial hash misses no repetition it should see: two records of a fused *)
(* scene that overlap by the threshold differ in their role, their window or   *)
(* their display.                                                              *)
NoDuplicateLeft ==
    answer.op = "publish" /\ answer.merge =>
       \A i, j \in DOMAIN scene.targets : i # j =>
          LET s == scene.targets[i]
              t == scene.targets[j]
          IN ~(compatible_role(s, t) /\ compatible_window(s, t) /\ OverlapEnough(s, t))

(* Safety dominates: a record into which anything disabled or secure was       *)
(* merged is not actionable and has no capability, and a secure one no text.   *)
All(packets) == UNION {ToSet(packets[k].targets) : k \in DOMAIN packets}
SafetyWins ==
    answer.op = "publish" => \A t \in ToSet(scene.targets), e \in All(answer.inputs) :
       e.id \in t.merged =>
          /\ e.flags \cap Safety # {} => t.caps = {} /\ "actionable" \notin t.flags
          /\ "secure" \in e.flags => t.text.size = 0 /\ "redacted" \in t.flags

(* A text stays with its record, through fusion, through the titles of the     *)
(* windows and through the filter that moves the pool in place; the filter     *)
(* drops no record it should keep.                                             *)
Untruncated(p) ==
    [p EXCEPT !.targets = [i \in DOMAIN @ |-> IF @[i].text.size = 0 THEN @[i]
                                              ELSE [@[i] EXCEPT !.flags = @ \ {"truncated"}]]]
TextsAreTheirs ==
    /\ validate_packet(Untruncated(scene))
    /\ \A t \in ToSet(scene.targets) : ToSet(TextOf(scene, t)) \subseteq {t.id} \cup t.merged
    /\ answer.op = "publish" =>
          \A t \in ToSet(answer.fused.targets) : Passes(t, answer.filter) =>
             \E k \in ToSet(scene.targets) : k.id = t.id /\ TextOf(scene, k) = TextOf(answer.fused, t)

(* What tests/scene/fusion.cpp:133 asks of a fused scene: its readers accept   *)
(* it.                                                                         *)
FusedIsValid == answer.op = "publish" => validate_packet(scene)

(* A fused scene shows each thing once, allows no more than its safest source  *)
(* and says of each target only what was said of it.                           *)
SceneIsSound == NoDuplicateLeft /\ SafetyWins /\ TextsAreTheirs

(* Labels never meet, never leave the surface and never cover the point that   *)
(* will be clicked; every target large enough to be drawn has one; the tables  *)
(* between scene and overlay are each other's inverse; what is drawn of a      *)
(* target lies in it.                                                          *)
Inside(r, surface) == rect_contains(Rect(0, 0, surface.w, surface.h), r)
LabelsApart ==
    answer.op = "compose" /\ answer.overlay.result = "OK" =>
       LET o == answer.overlay
           config == answer.config
           drawn == expand_static(PacketOf(o, config))
       IN /\ \A i, j \in DOMAIN drawn : i # j => ~overlaps(drawn[i].label, drawn[j].label)
          /\ \A i \in DOMAIN drawn :
                /\ Inside(drawn[i].label, Surface(config))
                /\ ~contains(drawn[i].label, SafePoint(answer.targets[o.to_scene[i]], config))
                /\ \A strip \in drawn[i].outline : rect_contains(Mapped(answer.targets[o.to_scene[i]], config), strip)
                /\ o.to_overlay[o.to_scene[i]] = i
          /\ \A i \in DOMAIN answer.targets :
                o.to_overlay[i] # None =>
                   o.to_scene[o.to_overlay[i]] = i /\ o.targets[o.to_overlay[i]].id = answer.targets[i].id
          /\ \A i \in DOMAIN answer.targets :
                o.to_overlay[i] = None => \/ answer.targets[i].display \notin {0, config.display}
                                          \/ Mapped(answer.targets[i], config).w < 2
                                          \/ Mapped(answer.targets[i], config).h < 2
          /\ o.active # None => expand_active(PacketOf(o, config), o.active)
                                   = {Mapped(answer.targets[o.to_scene[o.active]], config)}

(* What is labelled is there, and what is there can be labelled.               *)
SceneHolds == SceneIsSound /\ LabelsApart

(* A plan presses nothing it does not release, except a hold, whose press is   *)
(* marked; it acts on actionable targets that have the capability and on the   *)
(* points of these targets; it needs only permissions the context has.         *)
Presses(commands) == {i \in DOMAIN commands : commands[i].kind = "down" /\ ~commands[i].continuous}
PlansAreAllowed ==
    answer.op = "plan" /\ answer.plan.result = "OK" =>
       LET q == answer.request
           commands == answer.plan.commands
           targets == {t \in ToSet(answer.packet.targets) : t.id \in ToSet(q.targets)}
       IN /\ \A i \in Presses(commands) : \E j \in (i + 1)..Len(commands) :
                commands[j].kind = "up" /\ commands[j].button = commands[i].button
          /\ answer.plan.permissions \subseteq answer.context.permissions
          /\ answer.plan.epochs = answer.context.epochs
          /\ \A t \in targets : t.flags \cap {"disabled", "secure", "occluded"} = {} /\ t.caps # {}
          /\ \A j \in DOMAIN commands :
                commands[j].kind = "up" /\ q.kind = "drag" =>
                   \E t \in targets : t.id = q.targets[2] /\ "drop" \in t.caps
          /\ ~q.outside => \A j \in DOMAIN commands :
                commands[j].kind \in {"down", "click", "scroll"} =>
                   \E t \in targets : Within(Bounds(t), commands[j].point)

(* The point is where the user put it.  The row and the column are those last  *)
(* named, whatever was named before them; without a nudge the point lies in    *)
(* the target, further right in a column further right; the nudges taken since *)
(* the place was chosen, and no others, add up; nine steps through the places  *)
(* visit them all and come back.                                               *)
Chooses(command) == command.kind # "nudge"
NamesColumn(command) == command.kind = "place" \/ (command.kind = "snap" /\ command.direction \in {"left", "right"})
NamesRow(command) == command.kind = "place" \/ (command.kind = "snap" /\ command.direction \in {"up", "down"})
LastNamed(steps, Names(_), Value(_)) ==
    LET named == SelectSeq(steps, Names) IN IF named = <<>> THEN 1 ELSE Value(Last(named))
Column(command) == IF command.kind = "place" THEN command.index % 3 ELSE IF command.direction = "left" THEN 0 ELSE 2
Row(command) == IF command.kind = "place" THEN command.index \div 3 ELSE IF command.direction = "up" THEN 0 ELSE 2
NudgedTo(steps, direction) ==
    Cardinality({i \in DOMAIN steps : /\ steps[i].kind = "nudge" /\ steps[i].direction = direction
                                      /\ \A j \in i..Len(steps) : ~Chooses(steps[j])})
AfterCycles(aim) == {FoldLeft(LAMBDA a, k : cycle_target_position(a), aim, [i \in 1..n |-> i]) : n \in 1..9}
AimIsMeant ==
    answer.op = "aim" =>
       LET aim == answer.aim
           steps == answer.steps
           place == target_positions[aim.position]
       IN /\ aim \in Aims
          /\ aim.position = Unset <=> \A i \in DOMAIN steps : ~Chooses(steps[i])
          /\ aim.position # Unset /\ (\A i \in DOMAIN steps : steps[i].kind # "next") =>
                /\ place.column = LastNamed(steps, NamesColumn, Column)
                /\ place.row = LastNamed(steps, NamesRow, Row)
          /\ aim.nudge = [x |-> NudgeStep * (NudgedTo(steps, "right") - NudgedTo(steps, "left")),
                          y |-> NudgeStep * (NudgedTo(steps, "down") - NudgedTo(steps, "up"))]
          /\ aim.position # Unset => Cardinality(AfterCycles(aim)) = 9 /\ Aimed(aim.position) \in AfterCycles(aim)
          /\ \A t \in AimedTargets :
                LET point == adjusted_point(aim, t.bounds, t.safe)
                    plain == adjusted_point(Aimed(aim.position), t.bounds, t.safe)
                IN /\ Within(t.bounds, plain)
                   /\ point = [x |-> InRange(plain.x + aim.nudge.x), y |-> InRange(plain.y + aim.nudge.y)]
                   /\ \A k \in 1..9 : aim.position # Unset /\ target_positions[k].column > place.column =>
                         adjusted_point(Aimed(k), t.bounds, t.safe).x >= plain.x

(* A visible rectangle keeps an extent and stays in the destination; a point   *)
(* of it stays in it, and the inverse transform leads back to it as closely as *)
(* the coarser of the two scales allows.  A placement of the atlas lies in the *)
(* image and shows a part of its surface.                                      *)
Coarse(t) == LET turned == Swaps(t.turn)
             IN [x |-> (t.source.w + (IF turned THEN t.destination.h ELSE t.destination.w) - 1)
                          \div (IF turned THEN t.destination.h ELSE t.destination.w),
                 y |-> (t.source.h + (IF turned THEN t.destination.w ELSE t.destination.h) - 1)
                          \div (IF turned THEN t.destination.w ELSE t.destination.h)]
InRect(r, p) == p.x \in r.x..Right(r) /\ p.y \in r.y..Bottom(r)
MappingHolds ==
    /\ answer.op = "map" =>
          LET t == answer.transform
              mapped == map_rect_clipped(t, answer.rect)
              back(p) == map_point(inverse(t), map_point(t, p))
          IN \/ ~rect_valid(intersection(answer.rect, t.source)) /\ mapped = Nowhere
             \/ /\ rect_contains(t.destination, mapped)
                /\ \A p \in Points : InRect(intersection(answer.rect, t.source), p) =>
                      /\ InRect(mapped, map_point(t, p))
                      /\ back(p).x - p.x \in -Coarse(t).x..Coarse(t).x
                      /\ back(p).y - p.y \in -Coarse(t).y..Coarse(t).y
    /\ answer.op = "atlas" =>
          LET image == Rect(0, 0, answer.size[1], answer.size[2])
          IN /\ rect_contains(image, answer.layout.content)
             /\ \A p \in answer.layout.placements : \E s \in answer.surfaces :
                   /\ s.id = p.surface /\ rect_contains(Rect(0, 0, s.backing.w, s.backing.h), p.source)
                   /\ rect_contains(answer.layout.content, p.destination)

(* The topology epoch changes when the displays change, not when the platform  *)
(* lists them in another order; every display of the catalog is found.  The    *)
(* next window is missing only if none overlaps the current one, and a window  *)
(* that lies in a direction has the current one in the other.                  *)
ListsAreRead ==
    /\ answer.op = "displays" =>
          /\ catalog.epoch = answer.before.epoch <=> ToSet(catalog.displays) = ToSet(answer.before.displays)
          /\ catalog # answer.before => ToSet(catalog.displays) = ToSet(answer.given)
          /\ \A id \in 0..4 : find(catalog, id) = 0 <=> \A i \in DOMAIN catalog.displays : catalog.displays[i].id # id
    /\ answer.op = "windows" =>
          LET at == Position(answer.windows, answer.id)
              others == {w \in ToSet(answer.windows) : at # 0 /\ w.id # answer.id /\ WindowsOverlap(w, answer.windows[at])}
              opposite == [left |-> "right", right |-> "left", up |-> "down", down |-> "up"]
          IN /\ at # 0 => (answer.after = 0 <=> others = {}) /\ (answer.before = 0 <=> others = {})
             /\ answer.beside # 0 => directional(answer.windows, answer.beside, opposite[answer.direction]) # 0

(* From the platform's lists and coordinates to the point of a target, an      *)
(* action goes where it was meant to go and does what is allowed there.        *)
ActionsAreMeant == MappingHolds /\ ListsAreRead /\ AimIsMeant /\ PlansAreAllowed

(* An agent is told of the first targets, in the order of the scene, that are  *)
(* what it asked for, and of all unless the answer says it was cut: "ancestor" *)
(* and "descendant" are the closure of "parent" even when parents go in a      *)
(* circle or are gone, "contains" is about every unit of the surface.          *)
Units(r) == (r.x..Right(r) - 1) \X (r.y..Bottom(r) - 1)
Under(among) ==
    LET ids == {among[k].id : k \in DOMAIN among} \cup {0}
    IN TransitiveClosure([x, y \in ids |-> y # 0 /\ \E k \in DOMAIN among : among[k].id = x /\ among[k].parent = y], ids)
Stands(among, t, relation, related) ==
    \E r \in ToSet(among) :
       /\ r.id = related
       /\ CASE relation = "self" -> t = r
            [] relation = "parent" -> r.parent = t.id
            [] relation = "child" -> t.parent = r.id
            [] relation = "ancestor" -> Under(among)[r.id, t.id]
            [] relation = "descendant" -> Under(among)[t.id, r.id]
            [] relation = "sibling" -> t # r /\ t.parent = r.parent /\ r.parent # 0
            [] relation = "contains" -> Units(r.rect) \subseteq Units(t.rect)
            [] relation = "contained_by" -> Units(t.rect) \subseteq Units(r.rect)
Reads(text, asked, match) ==
    \E before, after \in {SubSeq(text, 1, n) : n \in 0..Len(text)} \cup {SubSeq(text, n, Len(text)) : n \in 1..Len(text)} :
       /\ text = before \o asked \o after
       /\ match \in {"exact", "prefix"} => before = <<>>
       /\ match = "exact" => after = <<>>
Wanted(among, t, f, bytes) ==
    /\ "id" \in f.asks => t.id = f.id
    /\ "role" \in f.asks => t.role = f.role
    /\ "source" \in f.asks => \E b \in f.source : b \in t.source
    /\ "caps" \in f.asks => f.needs \subseteq t.caps /\ \A c \in t.caps : c \notin f.forbids
    /\ "confidence" \in f.asks => f.confidence <= t.confidence
    /\ "rect" \in f.asks => Units(f.rect) \cap Units(t.rect) # {}
    /\ "text" \in f.asks => t.text # <<>> /\ Reads(t.text, TextAsked(f, bytes), f.match)
    /\ "relation" \in f.asks => Stands(among, t, f.relation, f.related)
InScope(t, scope, state) ==
    /\ scope.mode = "semantic" => "accessibility" \in t.source
    /\ scope.mode = "pixel" => \E b \in {"neural", "pixel"} : b \in t.source
    /\ scope.mode = "grid" => "grid" \in t.source
    /\ CASE scope.kind = "desktop" -> TRUE
         [] scope.kind = "display" -> t.display = scope.id
         [] scope.kind = "rect" -> Units(scope.rect) \cap Units(t.rect) # {}
         [] scope.kind = "active_window" ->
               \/ t.window = IF scope.id = 0 THEN state.window ELSE scope.id
               \/ t.window = 0 /\ Units(state.bounds) \cap Units(t.rect) # {}
TheFirst(ids, n) == SubSeq(ids, 1, Lesser(n, Len(ids)))
Listed ==
    LET among == answer.of.scene
        shown == answer.told.targets
        meant == SelectSeq(among, LAMBDA t : /\ InScope(t, answer.of.request.scope, answer.of.state)
                                             /\ \A k \in DOMAIN answer.filters : Wanted(among, t, answer.filters[k], answer.bytes))
        places == (answer.room - CompletionSize) \div answer.stride
        limit == Lesser(answer.limit, places)
        mute == {k \in DOMAIN shown : shown[k].size = 0 /\ among[shown[k].index].text # <<>>}
    IN /\ [k \in DOMAIN shown |-> shown[k].id] = TheFirst([k \in DOMAIN meant |-> meant[k].id], limit)
       /\ "truncated" \in answer.told.flags <=> Len(meant) > limit \/ mute # {}
       /\ "incomplete" \in answer.told.flags <=> "incomplete" \in answer.of.state.incomplete
       /\ \A k \in mute : "truncated" \in shown[k].flags

(* Every text that is in the answer is its target's, whole, behind the records *)
(* and within the room the client has; none is left out that would have fit.   *)
TextsFit ==
    LET among == answer.of.scene
        shown == answer.told.targets
        first == CompletionSize + (Len(shown) * answer.stride)
        ends == first + Len(answer.told.lane)
    IN /\ ends <= answer.room
       /\ \A k \in DOMAIN shown :
             LET text == among[shown[k].index].text
             IN IF shown[k].size = 0 THEN text = <<>> \/ ends + Len(text) > answer.room
                ELSE /\ shown[k].offset >= first
                     /\ SubSeq(answer.told.lane, shown[k].offset - first + 1, shown[k].offset - first + shown[k].size) = text

(* A request that is answered was read inside its message, its texts apart     *)
(* from its records.                                                           *)
ReadInside ==
    answer.op = "query" =>
       LET q == answer.of.request
           end(k) == q.filters_offset + ((k - 1) * q.filter_stride) + FilterSize
       IN \A k \in DOMAIN answer.filters :
             LET f == answer.filters[k]
             IN /\ RequestSize <= end(k) - FilterSize /\ end(k) <= Len(answer.bytes)
                /\ "text" \in f.asks => /\ f.text_at + f.text_size <= Len(answer.bytes)
                                         /\ \A n \in DOMAIN answer.filters : end(n) <= f.text_at
QueriesAnswer == answer.op \in {"query", "observe"} /\ answer.told.result = "OK" => Listed /\ TextsFit /\ ReadInside

(* The targets of a job are the bright areas of its scope, whole and apart,    *)
(* however their labels were joined on the way: one target for each area that  *)
(* is large enough, with its box, its size and a point in the box, from the    *)
(* top and the left, no two with the same box, from which their identity is    *)
(* made.  A job fails only when the areas are too many to tell or begin in too *)
(* many places; what is told is read back, but for the area.                   *)
BrightIn(q) ==
    {c \in (q.scope.x..Right(q.scope) - 1) \X (q.scope.y..Bottom(q.scope) - 1) :
        pixel_luma(q.rows[c[2] + 1][c[1]]) >= q.threshold}
Beside(c, d) == <<c[1] - d[1], c[2] - d[2]>> \in {<<0, 1>>, <<1, 0>>, <<0, -1>>, <<-1, 0>>}
AreasOf(cells) ==
    FoldSet(LAMBDA c, areas : LET near == {a \in areas : \E d \in a : Beside(c, d)}
                              IN (areas \ near) \cup {UNION near \cup {c}}, {}, cells)
BoxOf(a) ==
    LET columns == {c[1] : c \in a}
        lines == {c[2] : c \in a}
    IN Rect(Min(columns), Min(lines), Max(columns) - Min(columns) + 1, Max(lines) - Min(lines) + 1)
RunFrom(cells, c) == {d \in cells : d[2] = c[2] /\ d[1] >= c[1] /\ \A x \in c[1]..d[1] : <<x, c[2]>> \in cells}
Beginnings(cells) ==
    {c \in cells : /\ <<c[1] - 1, c[2]>> \notin cells
                   /\ \A d \in RunFrom(cells, c) : <<d[1], d[2] - 1>> \notin cells}
DetectionIsExact ==
    answer.op = "detect" =>
       LET q == answer.of
           told == answer.told
           large == {a \in AreasOf(BrightIn(q)) : Cardinality(a) >= q.minimum_area}
       IN /\ told.result = "CAPACITY" <=> \/ Cardinality(Beginnings(BrightIn(q))) > MaximumComponents
                                         \/ Cardinality(large) > MaximumDetected
          /\ told.result = "OK" =>
                /\ Len(told.targets) = Cardinality(large)
                /\ {<<t.box, t.area>> : t \in ToSet(told.targets)} = {<<BoxOf(a), Cardinality(a)>> : a \in large}
                /\ decode_output(serialize_output(told.targets))
                     = [i \in DOMAIN told.targets |-> [told.targets[i] EXCEPT !.area = told.targets[i].box.w * told.targets[i].box.h]]
          /\ \A i, j \in DOMAIN told.targets : i < j =>
                told.targets[i].id # told.targets[j].id /\ NotAfter(told.targets[i], told.targets[j])
          /\ \A t \in ToSet(told.targets) :
                /\ rect_contains(q.scope, t.box) /\ Within(t.box, [x |-> t.sx, y |-> t.sy])
                /\ t.confidence \in (257 * q.threshold)..65535

(* The targets of a model's frame are decided by the order of the candidates   *)
(* alone, not by the heap that is kept of them: of the best that are sure      *)
(* enough, those are told that no better one that is told stands for, the best *)
(* first, each with a box of its own, from which its identity is made.  A      *)
(* candidate reaches at most an eighth of a pixel out of the scope; a target   *)
(* that can be acted upon has its safe point a pixel from every edge.          *)
SureEnough(c, config) ==
    LET short == Min({c.box.w, c.box.h})
    IN c.confidence >= IF config.band.minimum # 0 /\ config.band.from <= short /\ short < config.band.to
                       THEN config.band.minimum ELSE config.minimum
Earlier(candidates, i, j) ==
    LET Key(k) == <<65535 - candidates[k].confidence, candidates[k].box.y, candidates[k].box.x, k>>
    IN \E n \in 1..4 : Key(i)[n] < Key(j)[n] /\ \A m \in 1..(n - 1) : Key(i)[m] = Key(j)[m]
Common(from1, to1, from2, to2) == Cardinality((from1..(to1 - 1)) \cap (from2..(to2 - 1)))
StandsFor(a, b, iou) ==
    LET both == Common(a.x, Right(a), b.x, Right(b)) * Common(a.y, Bottom(a), b.y, Bottom(b))
    IN both # 0 /\ (both = b.w * b.h \/ both * 65535 >= (a.w * a.h + b.w * b.h - both) * iou)
BestAreTold ==
    answer.op = "see" =>
       LET q == answer.of
           of == answer.candidates
           told == answer.told.targets
           Before(i, j) == Earlier(of, i, j)
           sure == {i \in DOMAIN of : SureEnough(of[i], q.config)}
           best == {i \in sure : Cardinality({j \in sure : Before(j, i)}) < q.config.maximum}
       IN /\ \A c \in ToSet(of) : rect_contains(Rect(q.scope.x * 8, q.scope.y * 8, q.scope.w * 8 + 1, q.scope.h * 8 + 1), c.box)
          /\ answer.told.result = IF Cardinality(best) > q.room THEN "CAPACITY" ELSE "OK"
          /\ answer.told.result = "OK" =>
                \E kept \in SUBSET best :
                   /\ \A i \in best : i \in kept <=> ~\E j \in kept : Before(j, i) /\ StandsFor(of[j].box, of[i].box, q.config.iou)
                   /\ [k \in DOMAIN told |-> <<InQ3(told[k].box), told[k].confidence, told[k].role>>]
                         = [k \in 1..Cardinality(kept) |->
                              LET c == of[SetToSortSeq(kept, Before)[k]] IN <<c.box, c.confidence, c.role>>]
          /\ \A i, j \in DOMAIN told : i # j => told[i].id # told[j].id
          /\ \A t \in ToSet(told) :
                t.caps # {} <=> "actionable" \in t.flags
                /\ (t.caps # {} => /\ t.sx - 256 \in (t.box.x + 1)..(Right(t.box) - 513)
                                   /\ t.sy - 256 \in (t.box.y + 1)..(Bottom(t.box) - 513))

(* Both detectors tell what is to be seen, and each thing once.                *)
DetectionHolds == DetectionIsExact /\ BestAreTold
=============================================================================
