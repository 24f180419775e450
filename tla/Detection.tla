------------------------------ MODULE Detection ------------------------------
(***************************************************************************)
(* One call of Processor.mask (internal/pii/engine): the registry runs the *)
(* detectors, ResolveContext weighs their findings by what stands around   *)
(* them, the confidence threshold and the policy select, ResolveOverlaps   *)
(* merges, the spans are replaced and the result is scanned again.         *)
(*                                                                         *)
(* A text is a sequence of cells: the pieces that the context rules can    *)
(* tell apart.  A finding [s, e) covers the cells s..e-1.  Offsets count   *)
(* cells, so the normalised view, which replaces rune by rune, and the     *)
(* original have the same offsets.  Confidences are in hundredths.         *)
(***************************************************************************)
EXTENDS Masking, Integers

CONSTANTS
    Types,          \* names of PII types, built-in and configured
    CriticalTypes,  \* those that verify scans for again
    Detectors,      \* how many detectors are registered, in this order
    Supports,       \* the types of each detector
    OfferedTexts,   \* the texts of an instance
    OfferedPolicies,
    Spans,          \* what a detector may report, where and how sure
    Shapes,         \* the values of each type, as classes of runes
    MaxRecordLines, MaxRecordSize,  \* limits of a structured record
    WindowSize,     \* ContextWindowBytes
    NoSpan

ContextTypes == {"full_name", "address"}

anchorTypes ==
    {"full_name", "phone", "email", "passport_number", "card_number", "inn"}

Cells == {"text", "negative", "stop", "separator", "break", "person", "field"}

Profiles == {"conservative", "balanced", "strict"}

ConfidenceHigh == 95

\* Evidence of a finding: a label before it, a trap name, or a surname outside
\* the lexical grammar, which needs an anchor.
Findings ==
    [type : Types, s : Nat \ {0}, e : Nat, conf : 0..100,
     label : BOOLEAN, trap : BOOLEAN, needs : BOOLEAN, det : Nat]

SupportedTypes == UNION {Supports[d] : d \in 1..Detectors}

\* contracts.Policy; nil type lists are the set of all supported types.
Policies ==
    [detect : SUBSET Types, mask : SUBSET Types, profile : Profiles,
     rules : SUBSET [type : Types, requires : SUBSET Types], tokens : BOOLEAN]

\* ValidateContract, which validate calls before anything else.
ValidateContract(p) ==
    /\ p.detect \subseteq SupportedTypes
    /\ p.mask \subseteq p.detect
    /\ \A rule \in p.rules :
          rule.type \in p.detect /\ rule.requires \subseteq p.detect

ASSUME DetectionAssumption ==
    /\ Detectors \in Nat
    /\ Supports \in [1..Detectors -> SUBSET Types]
    /\ OfferedTexts \subseteq Seq(Cells)
    /\ OfferedPolicies \subseteq {p \in Policies : ValidateContract(p)}
    /\ Spans \subseteq Findings
    /\ \A f \in Spans : f.s < f.e
    /\ NoSpan \notin Findings
    /\ MaxRecordLines \in Nat /\ MaxRecordSize \in Nat /\ WindowSize \in Nat

VARIABLES
    pc,
    text, pol,      \* the call's input
    det,            \* detectors that have run
    covered,        \* types that some detector that ran supports
    raw,            \* findings as collected
    found,          \* findings as weighed by their context
    anchors,
    selected,       \* findings the profile and the policy let through
    left,           \* those ResolveOverlaps has not swept yet
    last, out,      \* its last span and the ones before it
    todo,           \* spans still to be replaced
    whole           \* values that a mask hid nothing of

vars == <<pc, text, pol, det, covered, raw, found, anchors, selected, left,
          last, out, todo, whole>>

input == <<text, pol>>

Steps == {"collect", "suppress", "anchors", "promote", "select", "sweep",
          "replace", "verify", "masked", "failed"}

Init ==
    /\ pc = "collect"
    /\ text \in OfferedTexts
    /\ pol \in OfferedPolicies
    /\ det = 0
    /\ covered = {} /\ raw = {} /\ found = {} /\ anchors = {}
    /\ selected = {} /\ left = {} /\ out = {} /\ todo = {}
    /\ last = NoSpan
    /\ whole = {}

-----------------------------------------------------------------------------
(* Registry.collect *)

\* The findings of one detector, of the types asked for only.
RunDetector ==
    LET d == det + 1
        wanted == Supports[d] \cap pol.detect
    IN  /\ pc = "collect"
        /\ det < Detectors
        /\ \E F \in SUBSET {f \in Spans : f.det = d /\ f.type \in wanted
                                            /\ f.e <= Len(text) + 1} :
              raw' = raw \cup F
        /\ det' = d
        /\ covered' = covered \cup wanted
        /\ UNCHANGED <<pc, input, found, anchors, selected, left, last, out,
                       todo, whole>>

\* A type that no detector covers fails the scan.
Collected ==
    /\ pc = "collect"
    /\ det = Detectors
    /\ pc' = IF pol.detect \subseteq covered THEN "suppress" ELSE "failed"
    /\ UNCHANGED <<input, det, covered, raw, found, anchors, selected, left,
                   last, out, todo, whole>>

\* The context ended, a detector panicked or reported an impossible span, or
\* the random source failed.
Abort ==
    /\ pc \in {"collect", "select", "replace", "verify"}
    /\ pc' = "failed"
    /\ UNCHANGED <<input, det, covered, raw, found, anchors, selected, left,
                   last, out, todo, whole>>

-----------------------------------------------------------------------------
(* Windows of text around a finding *)

\* Lines by their first cell; a break at the very end opens no line.
LineStarts ==
    {i \in 1..Len(text) : i = 1 \/ text[i - 1] = "break"}

LineEnd(i) ==
    CHOOSE e \in i..(Len(text) + 1) :
        /\ e = Len(text) + 1 \/ text[e] = "break"
        /\ \A j \in i..(e - 1) : text[j] # "break"

\* The line at l continues the record that the person header at p opened.
Continues(p, l) ==
    /\ p < l
    /\ text[p] = "person"
    /\ \A m \in {i \in LineStarts : p < i /\ i <= l} :
          /\ text[m] = "field"
          /\ Cardinality({i \in LineStarts : p <= i /\ i < m}) < MaxRecordLines
          /\ LineEnd(m) - p <= MaxRecordSize

Opens(l) == \A p \in LineStarts : ~Continues(p, l)

\* The end of the record that begins with the line at l.
RecordEnd(l) ==
    LET ends == {LineEnd(m) : m \in {i \in LineStarts : i = l \/ Continues(l, i)}}
    IN  CHOOSE e \in ends : \A x \in ends : x <= e

logicalRecords == {<<l, RecordEnd(l)>> : l \in {i \in LineStarts : Opens(i)}}

Least(a, b) == IF a <= b THEN a ELSE b

Greatest(a, b) == IF a >= b THEN a ELSE b

\* A finding that no record contains has itself for a window.
recordWindow(f) ==
    LET home == {r \in logicalRecords : r[1] <= f.s /\ f.e <= r[2]}
        r    == CHOOSE x \in home : TRUE
    IN  IF home = {} THEN <<f.s, f.e>>
        ELSE <<Greatest(r[1], f.s - WindowSize), Least(r[2], f.e + WindowSize)>>

\* The part of a window around f that no cell of the given kinds interrupts.
Between(w, f, kinds) ==
    LET before == {i \in w[1]..(f.s - 1) : text[i] \in kinds}
        after  == {i \in f.e..(w[2] - 1) : text[i] \in kinds}
    IN  <<IF before = {} THEN w[1]
          ELSE (CHOOSE i \in before : \A j \in before : j <= i) + 1,
          IF after = {} THEN w[2]
          ELSE CHOOSE i \in after : \A j \in after : i <= j>>

\* Mutant: sentences do not bound the context.
contextWindowAcross(f) == recordWindow(f)

contextWindow(f) == Between(recordWindow(f), f, {"stop"})

localWindow(f) == Between(contextWindow(f), f, {"separator", "break"})

Inside(f, i) == f.s <= i /\ i < f.e

-----------------------------------------------------------------------------
(* ResolveContext *)

negativeOutsideValue(f) ==
    LET w == localWindow(f)
    IN  \E i \in w[1]..(w[2] - 1) : text[i] = "negative" /\ ~Inside(f, i)

Suppress(f) ==
    IF f.type \in ContextTypes /\ (f.trap \/ (~f.label /\ negativeOutsideValue(f)))
    THEN [f EXCEPT !.conf = 0]
    ELSE f

suppressContext ==
    /\ pc = "suppress"
    /\ found' = {Suppress(f) : f \in raw}
    /\ pc' = "anchors"
    /\ UNCHANGED <<input, det, covered, raw, anchors, selected, left, last,
                   out, todo, whole>>

\* Names in the window do not count as negative words: those that begin in
\* it, and the finding just before it in the order of starts.
negativeOutsideNames(w) ==
    LET early == {f \in found : f.s < w[1]}
        prior == {f \in early :
                    \A g \in early : g.s < f.s \/ (g.s = f.s /\ g.det <= f.det)}
        names == {f \in prior \cup {g \in found : w[1] <= g.s /\ g.s < w[2]} :
                    f.type = "full_name" /\ f.conf >= 60}
    IN  \E i \in w[1]..(w[2] - 1) :
            text[i] = "negative" /\ \A f \in names : ~Inside(f, i)

\* Strong findings that may speak for others, frozen before any promotion.
contextAnchors ==
    /\ pc = "anchors"
    /\ anchors' = {f \in found :
                     /\ f.conf >= ConfidenceHigh
                     /\ f.type \in anchorTypes
                     /\ f.label \/ ~negativeOutsideNames(localWindow(f))}
    /\ pc' = "promote"
    /\ UNCHANGED <<input, det, covered, raw, found, selected, left, last, out,
                   todo, whole>>

nearbyAnchorTypes(f) ==
    LET w == contextWindow(f)
    IN  {a.type : a \in {x \in anchors :
            /\ w[1] <= x.s /\ x.s < w[2] /\ x.e <= w[2]
            /\ x.type # f.type
            /\ x.e <= f.s \/ x.s >= f.e}}

Promote(f) ==
    LET seen == nearbyAnchorTypes(f)
        gain == IF Cardinality(seen) > 1 THEN 30 ELSE 22
    IN  IF f.conf = 0 \/ f.conf >= ConfidenceHigh \/ f.type \notin ContextTypes
        THEN f
        ELSE IF seen # {}
        THEN [f EXCEPT !.conf = Least(f.conf + gain, ConfidenceHigh)]
        ELSE IF f.needs THEN [f EXCEPT !.conf = 0] ELSE f

promoteContext ==
    /\ pc = "promote"
    /\ found' = {Promote(f) : f \in found}
    /\ pc' = "select"
    /\ UNCHANGED <<input, det, covered, raw, anchors, selected, left, last,
                   out, todo, whole>>

-----------------------------------------------------------------------------
(* FilterConfidence and Policy.Apply *)

Threshold(profile, type) ==
    IF profile = "strict" THEN 55
    ELSE IF profile = "conservative" THEN 95
    ELSE IF type \in ContextTypes THEN 80
    ELSE 70

FilterConfidence(all, profile) ==
    {f \in all : f.conf >= Threshold(profile, f.type)}

ruleAllows(type, p, present) ==
    \A rule \in p.rules : rule.type = type => rule.requires \subseteq present

Apply(all, p) ==
    LET present == {f.type : f \in all}
    IN  {f \in all : f.type \in p.mask /\ ruleAllows(f.type, p, present)}

Select(profile) == Apply(FilterConfidence(found, profile), pol)

\* Types the policy does not mask are gone before overlaps are resolved.
SelectStep ==
    /\ pc = "select"
    /\ selected' = Select(pol.profile)
    /\ left' = selected'
    /\ pc' = "sweep"
    /\ UNCHANGED <<input, det, covered, raw, found, anchors, last, out, todo,
                   whole>>

-----------------------------------------------------------------------------
(* ResolveOverlaps: a sweep by start, the better finding first *)

better(a, b) ==
    \/ a.conf > b.conf
    \/ /\ a.conf = b.conf
       /\ \/ a.e - a.s > b.e - b.s
          \/ a.e - a.s = b.e - b.s /\ a.s < b.s

\* The order of the stable sort; equal findings keep the detectors' order.
Before(a, b) ==
    \/ a.s < b.s
    \/ /\ a.s = b.s
       /\ better(a, b) \/ (~better(b, a) /\ a.det < b.det)

\* Mutants: the better of two overlapping findings keeps its own span; the
\* first one keeps its name.
MergeBetter(f) == IF better(f, last) THEN f ELSE last

MergeFirst(f) == [last EXCEPT !.e = Greatest(last.e, f.e)]

\* The better finding takes the union of both spans.
Merge(f) ==
    [(IF better(f, last) THEN f ELSE last)
        EXCEPT !.s = last.s, !.e = Greatest(last.e, f.e)]

Sweep ==
    /\ pc = "sweep"
    /\ \E f \in left :
          /\ \A g \in left : ~Before(g, f)
          /\ left' = left \ {f}
          /\ IF last # NoSpan /\ f.s < last.e
             THEN last' = Merge(f) /\ UNCHANGED out
             ELSE last' = f /\ out' = IF last = NoSpan THEN out ELSE out \cup {last}
    /\ UNCHANGED <<pc, input, det, covered, raw, found, anchors, selected,
                   todo, whole>>

Swept ==
    /\ pc = "sweep"
    /\ left = {}
    /\ out' = IF last = NoSpan THEN out ELSE out \cup {last}
    /\ todo' = out'
    /\ last' = NoSpan
    /\ pc' = "replace"
    /\ UNCHANGED <<input, det, covered, raw, found, anchors, selected, left,
                   whole>>

-----------------------------------------------------------------------------
(* Replacement and verification *)

\* Spans are replaced from left to right, by an opaque token or by the mask
\* of whatever value stands there.
UseTokens == pol.tokens \/ pol.profile = "strict"

Replace ==
    /\ pc = "replace"
    /\ \E f \in todo :
          /\ \A g \in todo : f.s <= g.s
          /\ todo' = todo \ {f}
          /\ \E v \in Shapes[f.type] :
                whole' = IF UseTokens \/ Mask(f.type, v) # {} THEN whole
                         ELSE whole \cup {[type |-> f.type, value |-> v]}
    /\ UNCHANGED <<pc, input, det, covered, raw, found, anchors, selected,
                   left, last, out>>

Replaced ==
    /\ pc = "replace"
    /\ todo = {}
    /\ pc' = IF out = {} THEN "masked" ELSE "verify"
    /\ UNCHANGED <<input, det, covered, raw, found, anchors, selected, left,
                   last, out, todo, whole>>

Hidden == UNION {f.s..(f.e - 1) : f \in out}

\* A type that a rule made conditional and nothing accepted is not promised.
verificationTypes ==
    {t \in CriticalTypes \cap pol.detect \cap pol.mask :
        (\E rule \in pol.rules : rule.type = t /\ rule.requires # {})
            => t \in {f.type : f \in out}}

\* What the second scan reports: critical values no span touches, and any
\* format mask that still reads as a value.  Markers are blanked before.
Residue ==
    {f \in raw : /\ f.type \in verificationTypes
                 /\ f.conf >= Threshold(pol.profile, f.type)
                 /\ f.s..(f.e - 1) \cap Hidden = {}}

Verify ==
    /\ pc = "verify"
    /\ \E reads \in (IF UseTokens \/ verificationTypes = {} THEN {FALSE} ELSE BOOLEAN) :
          pc' = IF Residue = {} /\ ~reads THEN "masked" ELSE "failed"
    /\ UNCHANGED <<input, det, covered, raw, found, anchors, selected, left,
                   last, out, todo, whole>>

Next ==
    \/ RunDetector \/ Collected \/ Abort
    \/ suppressContext \/ contextAnchors \/ promoteContext
    \/ SelectStep \/ Sweep \/ Swept
    \/ Replace \/ Replaced \/ Verify

Spec == Init /\ [][Next]_vars

-----------------------------------------------------------------------------
(* Properties *)

TypeOK ==
    /\ pc \in Steps
    /\ text \in Seq(Cells)
    /\ pol \in Policies
    /\ det \in 0..Detectors
    /\ covered \subseteq Types
    /\ raw \subseteq Findings
    /\ found \subseteq Findings
    /\ anchors \subseteq Findings
    /\ selected \subseteq Findings
    /\ left \subseteq selected
    /\ out \subseteq Findings
    /\ todo \subseteq out
    /\ last \in Findings \cup {NoSpan}
    /\ \A w \in whole : w.type \in Types /\ w.value \in Shapes[w.type]

\* The spans that mask replaces (ResolveOverlaps).
Resolved == pc \in {"replace", "verify", "masked"}

Covers(F, i) == \E f \in F : Inside(f, i)

\* Every cell of every finding that profile and policy selected is replaced,
\* no other cell is, and no cell twice: whichever finding wins an overlap,
\* nothing of the loser shows at its edges.
MaskedExactly ==
    Resolved =>
        /\ \A i \in 1..Len(text) : Covers(out, i) <=> Covers(selected, i)
        /\ \A f, g \in out : f # g => f.e <= g.s \/ g.e <= f.s

\* A span is named after a finding no less certain than any finding under it:
\* the confidence it carries is theirs at most, also along a chain of overlaps.
StrongestNames ==
    Resolved =>
        \A o \in out :
            /\ \E f \in selected : f.type = o.type /\ f.conf = o.conf
                                    /\ o.s <= f.s /\ f.e <= o.e
            /\ \A f \in selected :
                  Inside(o, f.s) => f.conf <= o.conf

\* A stricter profile selects everything a laxer one does, the conditional
\* rules of the policy included (Threshold, ruleAllows).
StricterSelectsMore ==
    pc = "select" =>
        /\ Select("conservative") \subseteq Select("balanced")
        /\ Select("balanced") \subseteq Select("strict")

\* f and a stand in one sentence, and in one line or in one record: the lines
\* from a person header on that each begin with a field header.
Together(f, a) ==
    LET from == Least(f.s, a.s)
        to   == Greatest(f.e, a.e) - 1
    IN  /\ \A i \in from..to :
              text[i] = "stop" => Inside(f, i) \/ Inside(a, i)
        /\ \/ \A i \in from..to : text[i] # "break"
           \/ \E p \in 1..from :
                 /\ text[p] = "person"
                 /\ p = 1 \/ text[p - 1] = "break"
                 /\ \A i \in p..to : text[i] = "break" => text[i + 1] = "field"

\* A weak name or address gains confidence only from a finding that a
\* detector itself was sure of, of another type, and in its own context: a
\* candidate that was promoted never promotes another (ResolveContext).
EvidenceIsLocal ==
    pc \in {"select", "sweep", "replace", "verify", "masked"} =>
        \A f \in found : \E g \in raw :
            /\ f = [g EXCEPT !.conf = f.conf]
            /\ g.conf < f.conf =>
                  \E a \in raw : /\ a.conf >= ConfidenceHigh
                                /\ a.type \in anchorTypes \ {f.type}
                                /\ Together(f, a)

BuiltInTypes ==
    {"full_name", "date_of_birth", "place_of_birth", "passport_number",
     "citizenship", "passport_issuer", "passport_division_code",
     "passport_issue_date", "driver_license", "address", "email", "phone",
     "inn", "card_number", "cvv", "card_pin", "card_holder"}

\* Every word is a single rune, so that nothing stands behind an initial.
Initials(v) ==
    \A i \in DOMAIN v : i + 1 \in DOMAIN v => "space" \in {v[i], v[i + 1]}

\* The values the masks leave as they are: names behind a label written in
\* initials already, labelled words of nothing but signs, and what a configured
\* pattern finds without a letter and a digit.
ShownAsIs(type, v) ==
    \/ type \in {"full_name", "card_holder"} /\ Initials(v)
    \/ /\ type \in {"place_of_birth", "citizenship", "address"}
       /\ Marks(v) # {} /\ Letters(v) = {}
    \/ type \notin BuiltInTypes /\ Digits(v) \cup Letters(v) = {}

\* A mask by format hides a part of every other value, also where it keeps the
\* year, the last digits or the first rune: such a masked text is never the
\* original (processExisting tells the two apart by comparing).
MasksHideAPart == \A w \in whole : ShownAsIs(w.type, w.value)

\* What the patterns of the detectors promise of a value of a type, in a wider
\* span too: a letter or what passes for one, so many digits, an address behind
\* the "at".  Of names and of configured types nothing is promised.
Promised(type, v) ==
    LET digits == Cardinality(Digits(v))
    IN  CASE type \in {"date_of_birth", "passport_issue_date", "passport_issuer"} ->
               Digits(v) \cup Letters(v) # {}
          [] type \in {"place_of_birth", "citizenship"} ->
               Letters(v) \cup Marks(v) # {}
          [] type = "address" -> Digits(v) \cup Letters(v) \cup Marks(v) # {}
          [] type \in {"passport_number", "passport_division_code",
                       "driver_license", "inn"} -> digits > 4
          [] type = "email" -> \E i, j \in DOMAIN v : i < j /\ v[i] = "at"
          [] type = "phone" -> digits > 3
          [] type = "card_number" -> digits > 8
          [] type \in {"cvv", "card_pin"} -> digits > 0
          [] OTHER -> TRUE
=============================================================================
