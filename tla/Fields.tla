-------------------------------- MODULE Fields --------------------------------
(***************************************************************************)
(* How the detectors read fields: the value after a label (helpers.go and  *)
(* the detectors of card holders, citizenship, places of birth and         *)
(* passport issuers) and the marker beside a number (dates, CVV, PIN,      *)
(* postal codes).                                                          *)
(* Fields are kept apart by ';' and by newlines.                           *)
(*                                                                         *)
(* A text is a sequence of cells: a token, which is a word, a phrase or a  *)
(* number, with the characters between it and the token before it.  What   *)
(* the regular expressions recognise is the token's kind.                  *)
(***************************************************************************)
EXTENDS Integers, Sequences, SequencesExt, FiniteSets

CONSTANTS
    Window      \* contextWindow: how far back a marker is looked for, in cells

ASSUME FieldsAssumption == Window \in Nat

\* fieldLabelWord.  A city label is also a prefix that some values may have.
FieldLabels == {"label", "city"}

PlacePrefixes == {"city"}

\* The marker "year" is "год рождения", one of those of a date of birth.
DobMarkers == {"dob", "year"}

Markers == DobMarkers \cup {"issue", "generic", "cvv", "pin", "client", "index"}

\* Words of one alphabet, Cyrillic or Latin.
PlainWords == {"word", "unknown", "authority"} \cup FieldLabels \cup Markers

WordTokens == PlainWords \cup {"mixed"}

\* Numbers by what the patterns tell apart: "yyyy" has four digits and begins
\* with 19 or 20; the last group of a dotted date is a number of four digits for
\* the patterns of CVV and PIN.
ShortNumbers == {"n1", "n3", "n4", "yyyy"}

Numbers == ShortNumbers \cup {"n6", "date"}

FieldBreak(gap) == Range(gap) \cap {";", "newline"} # {}

OnlyOf(gap, chars) == Range(gap) \subseteq chars

-----------------------------------------------------------------------------
(* collectLabelValue: the value of a label that stands before the text, a  *)
(* text within the 512 bytes of boundedLabelInput.  labelValueStart skips   *)
(* characters that endsAtGap does not look for before the first word.       *)

\* The characters between cell i and cell j, the numbers between them included.
gapBetween(text, i, j) ==
    (UNION {Range(text[k].gap) : k \in (i + 1)..j})
        \cup IF \E k \in (i + 1)..(j - 1) : text[k].tok \in Numbers
             THEN {"digit"} ELSE {}

\* Mutant: a value goes on in the next field.
endsAtGapNever(s, gap) ==
    IF s.count > 0 THEN gap \cap {",", ".", ":", "digit"} # {}
    ELSE ~s.skippedPrefix /\ gap \cap {"digit", ","} # {}

\* Of the characters that end a value, ',' stands for ",!?" and '.' for ".<>@".
endsAtGap(s, gap) ==
    \/ gap \cap {";", "newline"} # {}
    \/ IF s.count > 0 THEN gap \cap {",", ".", ":", "digit"} # {}
       ELSE ~s.skippedPrefix /\ gap \cap {"digit", ","} # {}

\* A number of up to four digits belongs to the name of an authority when it
\* is attached with a hyphen or stands after a number sign, and nothing is
\* attached to it.
issuerNumber(text, i) ==
    /\ i <= Len(text)
    /\ text[i].tok \in ShortNumbers
    /\ \/ text[i].gap = <<"-">>
       \/ \E k \in DOMAIN text[i].gap :
             /\ text[i].gap[k] = "#"
             /\ \A j \in DOMAIN text[i].gap \ {k} : text[i].gap[j] = " "
    /\ i < Len(text) =>
          IF text[i + 1].gap = <<>> THEN text[i + 1].tok \notin WordTokens
                                    ELSE text[i + 1].gap[1] # "-"

\* The scanner stands behind cell s.pos; s.stop says that the loop is over.
acceptWord(text, s, i, skipPrefixes, issuerNumbers) ==
    LET tok == text[i].tok
        end == IF issuerNumbers /\ issuerNumber(text, i + 1) THEN i + 1 ELSE i
    IN  CASE \/ s.count > 0 /\ tok \in FieldLabels
             \/ i < Len(text) /\ text[i + 1].gap # <<>> /\ text[i + 1].gap[1] = ":"
                -> [s EXCEPT !.stop = TRUE]
          [] s.count = 0 /\ tok \in skipPrefixes
                -> [s EXCEPT !.skippedPrefix = TRUE, !.pos = i]
          [] OTHER
                -> IF tok \notin PlainWords THEN [s EXCEPT !.stop = TRUE]
                   ELSE [s EXCEPT !.start = IF @ = 0 THEN i ELSE @,
                                  !.end = end, !.pos = end, !.count = @ + 1]

\* One round of the loop; the loop is over when a round changes nothing.
scanWord(text, s, maxWords, skipPrefixes, issuerNumbers) ==
    LET ahead == {k \in (s.pos + 1)..Len(text) : text[k].tok \in WordTokens}
        next  == CHOOSE k \in ahead : \A l \in ahead : k <= l
    IN  IF \/ s.stop
           \/ s.count >= maxWords
           \/ ahead = {}
           \/ endsAtGap(s, gapBetween(text, s.pos, next))
        THEN s
        ELSE acceptWord(text, s, next, skipPrefixes, issuerNumbers)

ScanStart ==
    [pos |-> 0, start |-> 0, end |-> 0, count |-> 0, skippedPrefix |-> FALSE, stop |-> FALSE]

\* The scanner after each number of rounds.
scanLabel(text, maxWords, skipPrefixes, issuerNumbers) ==
    LET scan[n \in Nat] ==
            IF n = 0 THEN ScanStart
            ELSE scanWord(text, scan[n - 1], maxWords, skipPrefixes, issuerNumbers)
    IN  scan

\* Where the value begins and ends; start = 0 when there is none.  Every round
\* moves the scanner over a cell or is the last.
collectLabelValue(text, maxWords, skipPrefixes, issuerNumbers) ==
    scanLabel(text, maxWords, skipPrefixes, issuerNumbers)[Len(text)]

NoValue == [start |-> 0, end |-> 0]

ValueOf(s, refused) ==
    IF s.count = 0 \/ refused THEN NoValue ELSE [start |-> s.start, end |-> s.end]

Tokens(text, s) == {text[k].tok : k \in (s.start..s.end) \cap DOMAIN text}

cardHolder(text) == ValueOf(collectLabelValue(text, 3, {}, FALSE), FALSE)

\* "отсутствует", "неизвестно" and their like anywhere in the value
citizenship(text) ==
    LET s == collectLabelValue(text, 3, {}, FALSE)
    IN  ValueOf(s, "unknown" \in Tokens(text, s))

\* the same as the whole value
placeOfBirth(text) ==
    LET s == collectLabelValue(text, 4, PlacePrefixes, FALSE)
    IN  ValueOf(s, s.start = s.end /\ Tokens(text, s) = {"unknown"})

\* What stands behind a match of the issuer markers: their patterns end in one
\* more character, which is neither a letter nor a digit but may be the end of
\* the field.
behindIssuerMarker(text) ==
    IF text = <<>> \/ text[1].gap = <<>> THEN text ELSE [text EXCEPT ![1].gap = Tail(@)]

\* A word or a number attached to the marker makes it another word.
passportIssuer(text) ==
    LET rest == behindIssuerMarker(text)
        s    == collectLabelValue(rest, 8, {}, TRUE)
    IN  ValueOf(s, text[1].gap = <<>> \/ "authority" \notin Tokens(rest, s))

-----------------------------------------------------------------------------
(* Markers before a number *)

\* Mutant: the walk back does not stop at a field boundary.
fieldPrefixAnywhere(text, i) == {k \in 1..(i - 1) : i - k <= Window}

\* The cells before cell i that belong to its field and to the window.
fieldPrefix(text, i) ==
    {k \in 1..(i - 1) : /\ i - k <= Window
                        /\ \A j \in (k + 1)..i : ~FieldBreak(text[j].gap)}

lastMarkerEnd(text, i, markers) ==
    LET found == {k \in fieldPrefix(text, i) : text[k].tok \in markers}
    IN  IF found = {} THEN 0 ELSE CHOOSE k \in found : \A l \in found : l <= k

\* The groups whose marker ends last, and of these the first.
Nearest(ends) ==
    {g \in DOMAIN ends : \A h \in DOMAIN ends :
        ends[h] <= ends[g] /\ (h < g => ends[h] < ends[g])}

\* The group whose marker ends last before cell i, and where; the first of the
\* groups on a tie, 0 when no marker precedes.
nearestPrecedingMarkerMatch(text, i, groups) ==
    LET ends == [g \in DOMAIN groups |-> lastMarkerEnd(text, i, groups[g])]
        best == CHOOSE g \in Nearest(ends) : TRUE
    IN  IF ends[best] = 0 THEN [group |-> 0, end |-> 0]
                          ELSE [group |-> best, end |-> ends[best]]

SequenceGaps == {<<" ">>, <<"-">>}

precededByMoreDigits(text, i) ==
    /\ text[i].tok # "date"
    /\ i > 1
    /\ text[i].gap \in SequenceGaps
    /\ text[i - 1].tok \in Numbers

followedByMoreDigits(text, i) ==
    /\ i < Len(text)
    /\ text[i + 1].gap \in SequenceGaps
    /\ text[i + 1].tok \in Numbers

partOfLongerDigitSequence(text, i) ==
    precededByMoreDigits(text, i) \/ followedByMoreDigits(text, i)

cvvLocalContext(text, i) ==
    nearestPrecedingMarkerMatch(text, i,
        <<{"cvv"}, DobMarkers, {"issue"}, {"generic"}, {"pin"}>>).group = 1

pinLocalContext(text, i) ==
    nearestPrecedingMarkerMatch(text, i,
        <<{"pin"}, DobMarkers, {"issue"}, {"generic"}, {"cvv"}>>).group = 1

isCVV(text, i) ==
    /\ text[i].tok \in {"n3", "n4", "yyyy", "date"}
    /\ ~partOfLongerDigitSequence(text, i)
    /\ cvvLocalContext(text, i)

isCardPIN(text, i) ==
    /\ text[i].tok \in {"n4", "yyyy", "date"}
    /\ ~partOfLongerDigitSequence(text, i)
    /\ pinLocalContext(text, i)

\* DateDetector.classify: the type and the confidence of a date; a date of
\* issue only when nothing but punctuation stands between it and its marker.
classify(text, i) ==
    LET m == nearestPrecedingMarkerMatch(text, i, <<DobMarkers, {"issue"}, {"generic"}>>)
    IN  CASE m.group = 1 -> <<"date_of_birth", "high">>
          [] m.group = 2 /\ m.end = i - 1 -> <<"passport_issue_date", "high">>
          [] m.group = 3 -> <<"date_of_birth", "medium">>
          [] OTHER -> <<>>

\* yearOnlyRe at the year in cell i: the label, any white space with a colon or
\* a hyphen in it, and the year.  A field may end between the two.
yearOnly(text, i) ==
    /\ i > 1
    /\ text[i].tok = "yyyy"
    /\ text[i - 1].tok = "year"
    /\ i > 2 => text[i - 1].gap # <<>>
    /\ OnlyOf(text[i].gap, {" ", "newline", ":", "-"})
    /\ Cardinality({k \in DOMAIN text[i].gap : text[i].gap[k] \in {":", "-"}}) <= 1

\* Two matches would share the one character between them: the pattern takes a
\* character before the label and one behind the year.
sharesCharacter(text, i) ==
    yearOnly(text, i) /\ yearOnly(text, i - 2) /\ Len(text[i - 1].gap) = 1

\* FindAll goes on behind a match: of years that are one character apart every
\* second one is passed over.
isBirthYear(text, i) ==
    /\ yearOnly(text, i)
    /\ Cardinality({n \in 1..i : \A k \in 0..(n - 1) : sharesCharacter(text, i - 2 * k)}) % 2 = 0

\* DateDetector.Detect: the type and the confidence of cell i; the finding of a
\* birth year, the first, would be the one that dedupBySpan keeps.
dateType(text, i) ==
    IF isBirthYear(text, i) THEN <<"date_of_birth", "high">>
    ELSE IF text[i].tok = "date" THEN classify(text, i) ELSE <<>>

-----------------------------------------------------------------------------
(* Postal codes of the address detector *)

\* The end of a line, a field or a sentence.
SentenceBreak(gap) == FieldBreak(gap) \/ gap = <<".", " ">>

contextBounds(text, i) == DOMAIN text \cap ((i - Window)..(i + Window))

\* AddressDetector.confidence: a client marker counts within the window on
\* either side of the candidate, up to the next break.
addressConfidence(text, i) ==
    IF \E k \in contextBounds(text, i) :
          /\ text[k].tok = "client"
          /\ \A j \in ((k + 1)..i) \cup ((i + 1)..k) : ~SentenceBreak(text[j].gap)
    THEN "high" ELSE "candidate"

\* precedingLabel with postalLabel
postalLabelled(text, i) ==
    /\ i > 1
    /\ text[i - 1].tok = "index"
    /\ OnlyOf(text[i].gap, {" ", ":"})

postalCode(text, i) ==
    IF \/ text[i].tok # "n6"
       \/ addressConfidence(text, i) # "high" /\ ~postalLabelled(text, i)
    THEN "none" ELSE addressConfidence(text, i)

\* What the detectors say of cell i.
Verdict(text, i) ==
    [cvv |-> isCVV(text, i), pin |-> isCardPIN(text, i), postal |-> postalCode(text, i),
     date |-> dateType(text, i)]
=============================================================================
