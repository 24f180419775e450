------------------------------ MODULE Detectors ------------------------------
(***************************************************************************)
(* The detectors of internal/pii/detectors over every text that can be     *)
(* written, token by token, in one of three vocabularies: values after a   *)
(* label, numbers after markers, names; and the prefilter of pattern.go    *)
(* over inputs written rune by rune, for every expression of a set.        *)
(***************************************************************************)
EXTENDS Patterns, Names

CONSTANTS
    Regexps,        \* the expressions the prefilter is tried with
    NoRegexp,
    Vocabulary,     \* Vocabulary[topic]: the tokens of a text about the topic
    OddGaps,        \* OddGaps[topic]: gaps other than a single space
    MaxRunes,       \* bounds of the texts
    MaxCells,
    MaxOdd

ASSUME DetectorsAssumption == Regexps \subseteq Trees

VARIABLES
    topic,          \* what the text is about
    re,             \* the expression, for inputs of the prefilter
    written         \* the input, or the text, so far

writeVars == <<topic, re, written>>

Topics == {"label", "marker", "name"}

WriteInit ==
    /\ \/ topic = "pattern" /\ re \in Regexps
       \/ topic \in Topics /\ re = NoRegexp
    /\ written = <<>>

WriteRune(r) ==
    /\ topic = "pattern"
    /\ Len(written) < MaxRunes
    /\ written' = Append(written, r)
    /\ UNCHANGED <<topic, re>>

\* Two words, or two numbers, with nothing between them are one; a number with
\* a hyphen and a date would be a date of another shape.
Joins(c) ==
    /\ written # <<>>
    /\ \/ c.gap = <<>> /\ (c.tok \in Numbers <=> Last(written).tok \in Numbers)
       \/ c.gap = <<"-">> /\ c.tok = "date" /\ Last(written).tok \in Numbers

WriteCell(c) ==
    /\ topic \in Topics
    /\ Len(written) < MaxCells
    /\ ~Joins(c)
    /\ c.gap # <<" ">> =>
          Cardinality({k \in DOMAIN written : written[k].gap # <<" ">>}) < MaxOdd[topic]
    /\ written' = Append(written, c)
    /\ UNCHANGED <<topic, re>>

CellsOf(t) ==
    [gap: OddGaps[t] \cup {<<" ">>}, tok: Vocabulary[t]]

WriteNext ==
    \/ \E r \in Runes : WriteRune(r)
    \/ \E c \in UNION {CellsOf(t) : t \in {topic} \cap Topics} : WriteCell(c)

Writing == WriteInit /\ [][WriteNext]_writeVars

-----------------------------------------------------------------------------
(* Properties *)

\* The prefilter never changes an answer: "a rejected input cannot match"
\* (pattern.go), whatever the expression is built of; a type that operators
\* configure is found wherever its expression matches something.
PrefilterChangesNothing ==
    topic = "pattern" =>
        /\ FindAll(re, written) = Matches(re, written)
        /\ customFindings(re, written) = {m \in Matches(re, written) : m[1] < m[2]}

\* By detector, the value of the label and the text behind what its markers
\* matched.
Labelled(text) ==
    [card_holder     |-> [value |-> cardHolder(text), behind |-> text],
     citizenship     |-> [value |-> citizenship(text), behind |-> text],
     place_of_birth  |-> [value |-> placeOfBirth(text), behind |-> text],
     passport_issuer |-> [value |-> passportIssuer(text), behind |-> behindIssuerMarker(text)]]

\* What is masked as the value of a label lies in the field that begins behind
\* the match of the label's marker, holds no label of another field behind its
\* first word and no number, unless the number is tied to the name of an
\* authority.  The match of an issuer marker takes one character behind the
\* word, be it the end of the field: of the issuer alone the value may come from
\* the next field, and from no other.
LabelledValueStaysInItsField ==
    topic = "label" =>
        LET found == Labelled(written) IN
        \A d \in {d \in DOMAIN found : found[d].value # NoValue} :
            LET v == found[d].value IN
            /\ \A k \in 1..v.end : ~FieldBreak(found[d].behind[k].gap)
            /\ \A k \in v.start..v.end :
                  IF written[k].tok \in Numbers
                  THEN d = "passport_issuer" /\ k > v.start /\ issuerNumber(written, k)
                  ELSE k > v.start => written[k].tok \notin FieldLabels

\* The stretch of cells around cell i without a field boundary.
FieldFrom(i) ==
    CHOOSE a \in 1..i :
        /\ a = 1 \/ FieldBreak(written[a].gap)
        /\ \A k \in (a + 1)..i : ~FieldBreak(written[k].gap)

FieldTo(i) ==
    CHOOSE b \in i..Len(written) :
        /\ b = Len(written) \/ FieldBreak(written[b + 1].gap)
        /\ \A k \in (i + 1)..b : ~FieldBreak(written[k].gap)

\* The finding of a birth year right behind its label ignores the fields: the
\* label and the year are one match, with white space of any kind in it, and the
\* match before, in whatever field, may have taken the character that this one
\* begins with.
YearBehindLabel(i) == i > 1 /\ written[i].tok = "yyyy" /\ written[i - 1].tok = "year"

\* A number is explained by the markers of its own field: the detectors of CVV,
\* PIN, postal codes and dates say of it what they would say had the text no
\* other field ("a neighbouring field does not leak its type onto this date"),
\* except the detector of dates of a year right behind its label; and the nearer
\* of two markers makes a code either a CVV or a PIN.
FieldsDoNotLeak ==
    topic = "marker" =>
        \A i \in {k \in DOMAIN written : written[k].tok \in Numbers} :
            LET v   == Verdict(written, i)
                own == Verdict(SubSeq(written, FieldFrom(i), FieldTo(i)), i - FieldFrom(i) + 1)
            IN  /\ v = [own EXCEPT !.date = IF YearBehindLabel(i) THEN v.date ELSE @]
                /\ ~(v.cvv /\ v.pin)

\* A given name or a surname right behind a strong marker that is itself no part
\* of a name (nameStop lists it) is always reported, with high confidence and
\* its label, whatever words stand before the marker and behind the name: no
\* earlier candidate takes it.  The marker is a word of its own, without a
\* hyphen right before it.
LabelledNameReported ==
    topic = "name" =>
        LET words == nameTokens(written) IN
        \A i \in 2..Len(words) :
            /\ Whole(words[i - 1], StrongMarkers \cap Stops)
            /\ ~EndsInHyphen(words[i - 1].gap)
            /\ Separates(words[i].gap)
            /\ ~nameStop(words[i]) /\ nameLetters(words[i])
            /\ commonGivenName(words[i]) \/ surnameForm(words[i])
            => \E c \in Candidates(written) :
                  /\ c.start = i
                  /\ c.conf = "high"
                  /\ c.label
                  /\ ~c.trap
=============================================================================
