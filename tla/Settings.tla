------------------------------- MODULE Settings -------------------------------
(***************************************************************************)
(* The settings document (src/application/settings.cpp) and the editor of  *)
(* its key bindings (binding_editor.cpp).  Keys are HID usages, symbols    *)
(* are UTF-16 units, modifiers are sets; a page whose fields are only      *)
(* range-checked keeps the fields on which another rule depends.  Colours, *)
(* names and the reserved fields are left out.                             *)
(***************************************************************************)
EXTENDS Naturals, Sequences, SequencesExt

CONSTANTS DefaultBindings,   \* the rows of the two default tables the instance keeps
          MaximumBindings,   \* maximum_hotkey_bindings
          MaximumAlphabet    \* maximum_hint_alphabet

(* Results of the operations *)
Ok == "OK"
Invalid == "INVALID_ARGUMENT"
Exists == "ALREADY_EXISTS"
Full == "CAPACITY"
Missing == "NOT_FOUND"
Version == "VERSION"

LetterA == 65
LetterZ == 90
canonical_symbol(s) == IF s \in 97..122 THEN s - 32 ELSE s
Surrogate(s) == s \in 55296..57343

(* The keys with two signs: their usage, the plain sign, the shifted one.       *)
SignKeys == << <<44, 32, 32>>, <<45, 45, 95>>, <<46, 61, 43>>, <<47, 91, 123>>, <<48, 93, 125>>,
               <<49, 92, 124>>, <<51, 59, 58>>, <<52, 39, 34>>, <<53, 96, 126>>, <<54, 44, 60>>,
               <<55, 46, 62>>, <<56, 47, 63>> >>
KeyOfSign(s) ==
    LET rows == {i \in DOMAIN SignKeys : s \in {SignKeys[i][2], SignKeys[i][3]}}
    IN IF rows = {} THEN 0 ELSE SignKeys[CHOOSE i \in rows : TRUE][1]
us_physical_key(s) ==
    IF canonical_symbol(s) \in LetterA..LetterZ THEN 4 + canonical_symbol(s) - LetterA
    ELSE IF s \in 49..57 THEN 30 + s - 49
    ELSE IF s = 48 THEN 39 ELSE KeyOfSign(s)
default_logical_symbol(k) ==
    IF k \in 4..29 THEN LetterA + k - 4
    ELSE IF k \in 30..38 THEN 49 + k - 30
    ELSE IF k = 39 THEN 48
    ELSE IF \E i \in DOMAIN SignKeys : SignKeys[i][1] = k
         THEN SignKeys[CHOOSE i \in DOMAIN SignKeys : SignKeys[i][1] = k][2] ELSE 0

hint_key_valid(k) == k \in (4..39) \cup (44..56)
SetMin(S) == CHOOSE x \in S : \A y \in S : x <= y

(* migrate_hint_keys: the key of the US layout, or the first that no earlier   *)
(* symbol of the alphabet has; the mutant gives two signs of one key that key. *)
MigratedTwice(symbol, used) ==
    IF hint_key_valid(us_physical_key(symbol)) THEN us_physical_key(symbol) ELSE SetMin((4..39) \ used)
Migrated(symbol, used) ==
    IF hint_key_valid(us_physical_key(symbol)) /\ us_physical_key(symbol) \notin used
    THEN us_physical_key(symbol) ELSE SetMin((4..39) \ used)
migrate_hint_keys(alphabet) ==
    FoldLeft(LAMBDA keys, symbol : Append(keys, Migrated(symbol, ToSet(keys))), <<>>, alphabet)

Distinct(seq) == \A i, j \in DOMAIN seq : i < j => seq[i] # seq[j]
Canonical(alphabet) == [i \in DOMAIN alphabet |-> canonical_symbol(alphabet[i])]

hints_valid(h) ==
    /\ Len(h.alphabet) \in 2..MaximumAlphabet
    /\ h.language # "broken"
    /\ \A i \in DOMAIN h.alphabet :
          h.alphabet[i] # 0 /\ ~Surrogate(h.alphabet[i]) /\ hint_key_valid(h.keys[i])
    /\ Distinct(Canonical(h.alphabet)) /\ Distinct(h.keys)

PrintableKey(k) == k \in (4..39) \cup (44..49) \cup (51..56)
binding_valid(b) ==
    /\ b.key \in 4..231
    /\ ~(b.always /\ b.session)
    /\ ~Surrogate(b.symbol)
    /\ PrintableKey(b.key) => b.symbol # 0
SameChord(a, b) == a.key = b.key /\ a.modifiers = b.modifiers

(* One representative of every rule on the remaining pages                     *)
PagesValid(d) ==
    /\ d.scope = "monitor" => d.monitor # 0
    /\ d.detector # 0
    /\ d.grid.rows # 0 /\ d.grid.columns # 0 /\ d.grid.rows * d.grid.columns <= 10000
    /\ d.actions.timeout \in 100..60000 /\ d.actions.scroll # 0
    /\ d.appearance.font \in 1..(128 * 256)
    /\ (d.compute.policy = "named") <=> (d.compute.device # 0)

validate_settings(d) ==
    IF Len(d.bindings) > MaximumBindings \/ ~hints_valid(d.hints) THEN Invalid
    ELSE IF \E i \in DOMAIN d.bindings : ~binding_valid(d.bindings[i]) THEN Invalid
    ELSE IF \E i, j \in DOMAIN d.bindings : i < j /\ SameChord(d.bindings[i], d.bindings[j]) THEN Exists
    ELSE IF PagesValid(d) THEN Ok ELSE Invalid

DefaultHints == [alphabet |-> <<65, 83, 68>>, keys |-> <<4, 22, 7>>, language |-> "und"]
default_settings ==
    [bindings |-> DefaultBindings, hints |-> DefaultHints, source |-> "pixel",
     scope |-> "desktop", monitor |-> 0, detector |-> 1, grid |-> [rows |-> 8, columns |-> 12],
     actions |-> [timeout |-> 2000, scroll |-> 768],
     appearance |-> [font |-> 14 * 256, outline |-> 256, glow |-> 512],
     compute |-> [policy |-> "automatic", device |-> 0]]

(* An operation answers with its result and the document it leaves behind,     *)
(* which has changed even where the result is an error.                        *)
Answer(result, document) == [result |-> result, document |-> document]

Pages == {"bindings", "hints", "detector", "scope", "pointer", "appearance", "compute"}
reset_settings_page(page, d) ==
    LET e == CASE page = "bindings" -> [d EXCEPT !.bindings = default_settings.bindings]
               [] page = "hints" -> [d EXCEPT !.hints = default_settings.hints]
               [] page = "detector" -> [d EXCEPT !.detector = default_settings.detector,
                                                 !.grid = default_settings.grid,
                                                 !.source = default_settings.source]
               [] page = "scope" -> [d EXCEPT !.scope = default_settings.scope,
                                              !.monitor = default_settings.monitor]
               [] page = "pointer" -> [d EXCEPT !.actions = default_settings.actions]
               [] page = "appearance" -> [d EXCEPT !.appearance = default_settings.appearance]
               [] page = "compute" -> [d EXCEPT !.compute = default_settings.compute]
    IN Answer(validate_settings(e), e)

(* The place of a command in the bindings, 0 for none                          *)
find_binding(d, command) ==
    LET at == {i \in DOMAIN d.bindings : d.bindings[i].command = command}
    IN IF at = {} THEN 0 ELSE SetMin(at)

Conflicts(d, b) ==
    {i \in DOMAIN d.bindings : i # find_binding(d, b.command) /\ SameChord(d.bindings[i], b)}
set_binding(d, b) ==
    LET at == find_binding(d, b.command)
        e  == [d EXCEPT !.bindings = IF at = 0 THEN Append(@, b) ELSE [@ EXCEPT ![at] = b]]
    IN IF b.key = 0 THEN Answer(Invalid, d)
       ELSE IF Conflicts(d, b) # {} THEN Answer(Exists, d)
       ELSE IF at = 0 /\ Len(d.bindings) = MaximumBindings THEN Answer(Full, d)
       ELSE Answer(validate_settings(e), e)

remove_binding(d, command) ==
    LET at == find_binding(d, command)
        e  == [d EXCEPT !.bindings = RemoveAt(@, at)]
    IN IF at = 0 THEN Answer(Missing, d) ELSE Answer(validate_settings(e), e)

set_hint_alphabet(h, symbols) ==
    LET updated == [h EXCEPT !.alphabet = symbols, !.keys = migrate_hint_keys(symbols)]
    IN IF Len(symbols) \in 2..MaximumAlphabet /\ hints_valid(updated) THEN updated ELSE h

(* resolve_hint_alphabet: the labels show the symbols of the user's layout; on *)
(* a collision the later of the two falls back to its own symbol, the earlier  *)
(* one if the later has already.                                               *)
(* The mutant takes half of a surrogate pair for a symbol                      *)
TranslatedAny(symbols) == {i \in DOMAIN symbols : symbols[i] # 0}
Translated(symbols) == {i \in DOMAIN symbols : symbols[i] # 0 /\ ~Surrogate(symbols[i])}
Shown(h, symbols, on) == [i \in DOMAIN h.alphabet |-> IF i \in on THEN symbols[i] ELSE h.alphabet[i]]
(* The pair the loops find first, and the symbol of it that falls back         *)
Collisions(shown) ==
    {p \in (DOMAIN shown) \X (DOMAIN shown) :
        p[2] < p[1] /\ canonical_symbol(shown[p[1]]) = canonical_symbol(shown[p[2]])}
First(pairs) == CHOOSE p \in pairs : \A q \in pairs : p[1] < q[1] \/ (p[1] = q[1] /\ p[2] <= q[2])
Fallback(pair, on) == IF pair[1] \in on THEN pair[1] ELSE pair[2]

RECURSIVE Settle(_, _, _)
Settle(h, symbols, on) ==
    LET shown == Shown(h, symbols, on)
        found == Collisions(shown)
    IN IF found = {} THEN [result |-> Ok, alphabet |-> shown]
       ELSE LET pair == First(found)
            IN IF pair[1] \notin on /\ pair[2] \notin on THEN [result |-> Exists, alphabet |-> shown]
               ELSE Settle(h, symbols, on \ {Fallback(pair, on)})
resolve_hint_alphabet(h, symbols) ==
    LET settled == Settle(h, symbols, Translated(symbols))
    IN IF settled.result # Ok THEN settled
       ELSE [settled EXCEPT !.result = IF hints_valid([h EXCEPT !.alphabet = settled.alphabet])
                                       THEN Ok ELSE Invalid]

(* The file: a sequence of blocks, each with its size in bytes.  A page is one *)
(* block; only the hint keys depend on the version.                            *)
Block(size, value) == [size |-> size, value |-> value]
Size(blocks) == FoldSeq(LAMBDA b, sum : sum + b.size, 0, blocks)
encode_body(d, version) ==
    <<Block(8, Len(d.bindings)), Block(16, <<d.source, d.scope, d.monitor>>)>>
    \o [i \in DOMAIN d.bindings |-> Block(18, d.bindings[i])]
    \o <<Block(4, Len(d.hints.alphabet)), Block(64, d.hints.alphabet)>>
    \o (IF version >= 3 THEN <<Block(128, d.hints.keys)>> ELSE <<>>)
    \o <<Block(28, d.hints.language), Block(16, d.detector), Block(8, d.grid),
         Block(48, d.actions), Block(100, d.appearance), Block(12, d.compute)>>
Capacity == 4096
encode_settings(d, version) ==
    LET body == encode_body(d, version)
    IN [result |-> IF validate_settings(d) # Ok THEN validate_settings(d)
                   ELSE IF 12 + Size(body) > Capacity THEN Full ELSE Ok,
        file |-> [magic |-> TRUE, version |-> version, total |-> 12 + Size(body), body |-> body]]

(* decode_body: the blocks in their order; the place of those behind the       *)
(* bindings depends on their count and on the version.                         *)
decode_body(body, version) ==
    LET n == body[1].value
        at == 3 + n + (IF version >= 3 THEN 3 ELSE 2)
        alphabet == body[3 + n + 1].value
    IN [bindings |-> [i \in 1..n |-> body[2 + i].value],
        source |-> body[2].value[1], scope |-> body[2].value[2], monitor |-> body[2].value[3],
        hints |-> [alphabet |-> alphabet, language |-> body[at].value,
                   keys |-> IF version >= 3 THEN body[at - 1].value ELSE migrate_hint_keys(alphabet)],
        detector |-> body[at + 1].value, grid |-> body[at + 2].value, actions |-> body[at + 3].value,
        appearance |-> body[at + 4].value, compute |-> body[at + 5].value]
Readable(file) ==
    LET n == file.body[1].value
    IN n <= MaximumBindings /\ Len(file.body) = n + (IF file.version >= 3 THEN 11 ELSE 10)
(* The output is emptied before anything is read: what a refusal leaves        *)
Emptied == [default_settings EXCEPT !.bindings = <<>>,
                                    !.hints = [alphabet |-> <<>>, keys |-> <<>>, language |-> "und"]]
decode_settings(file) ==
    IF ~file.magic \/ file.version \notin 2..4 \/ file.total # 12 + Size(file.body)
    THEN Answer(Version, Emptied)
    ELSE IF ~Readable(file) THEN Answer(Invalid, Emptied)
    ELSE LET decoded == decode_body(file.body, file.version)
             valid == validate_settings(decoded)
         IN Answer(valid, IF valid = Ok THEN decoded ELSE Emptied)

(* The geometry of the labels, in eighths of a pixel                           *)
q8_to_q3(v) == (v + 16) \div 32
Larger(a, b) == IF a > b THEN a ELSE b
resolve_overlay_style(a) ==
    LET height  == q8_to_q3(a.font)
        width   == (height * 5 + 3) \div 7
        padding == Larger(16, height \div 7)
        stroke  == Larger(1, q8_to_q3(a.outline))
    IN [stroke |-> stroke, label_height |-> height + 2 * padding, padding |-> padding,
        glyph_width |-> width, glyph_height |-> height, advance |-> width + Larger(8, height \div 7),
        active |-> stroke + q8_to_q3(a.glow)]

(* make_interaction_profile, as far as the controller looks at it              *)
make_interaction_profile(d) == [timeout |-> d.actions.timeout, scroll |-> d.actions.scroll]
profile_valid(p) == p.timeout # 0 /\ p.scroll # 0
=============================================================================
