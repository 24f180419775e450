-------------------------------- MODULE Names --------------------------------
(***************************************************************************)
(* FullNameDetector (internal/pii/detectors/full_name.go): one pass over   *)
(* the words of a text.  At each word it tries to begin a name, takes up   *)
(* to three words into it, and goes on behind the name it found, so a word *)
(* that one candidate took is never the beginning of another.              *)
(*                                                                         *)
(* A text is a sequence of cells (Fields): words with the characters       *)
(* before them.  The lexicon and the endings of name_lexicon.go are the    *)
(* constant sets of words.                                                 *)
(***************************************************************************)
EXTENDS Fields

CONSTANTS
    Stops,              \* the words of nameStop, isMarkerWord's included
    StrongMarkers,      \* full matches of strongMarkers
    WeakMarkers,        \* and of weakMarkers
    GivenNames,         \* givenNameForm
    Surnames,           \* surnameForm
    Patronymics,        \* isPatronymic
    TrapNames,          \* famous names: sequences of the parts of a word
    Capitalized,        \* words that begin with an upper-case letter
    WithLower,          \* words that hold a lower-case letter
    Cyrillic            \* isCyrillicWord

\* Words joined by a bare hyphen are one word of several parts.
addToken(words, c) ==
    IF words # <<>> /\ c.gap = <<"-">>
    THEN [words EXCEPT ![Len(words)].parts = Append(@, c.tok)]
    ELSE Append(words, [gap |-> c.gap, parts |-> <<c.tok>>])

\* The words of the first n cells.
wordsUpTo(text) ==
    LET words[n \in Nat] == IF n = 0 THEN <<>> ELSE addToken(words[n - 1], text[n])
    IN  words

nameTokens(text) == wordsUpTo(text)[Len(text)]

Every(w, class) == Range(w.parts) \subseteq class

Whole(w, class) == Len(w.parts) = 1 /\ w.parts[1] \in class

\* Mutant: a marker may be part of a name.
nameStopNoMarkers(w) == Whole(w, Stops \ (StrongMarkers \cup WeakMarkers))

nameStop(w) == Whole(w, Stops)

nameLetters(w) == Every(w, Cyrillic)

nameCapitalized(w) == Every(w, Capitalized)

commonGivenName(w) == Every(w, GivenNames)

surnameForm(w) == Every(w, Surnames)

isPatronymic(w) == Last(w.parts) \in Patronymics

isCapitalizedWord(w) ==
    w.parts[1] \in Capitalized /\ Range(w.parts) \cap WithLower # {}

wordsAdjacent(right) == OnlyOf(right.gap, {" ", "-"})

nameWordsAdjacent(right, labelled) ==
    IF labelled THEN OnlyOf(right.gap, {" ", ","}) ELSE wordsAdjacent(right)

Separates(gap) == OnlyOf(gap, {" ", ":", "-"})

EndsInHyphen(gap) == gap # <<>> /\ Last(gap) = "-"

\* The word before the candidate, when nothing but spaces, a colon, dashes or
\* quotes stand between them.  It is read back over letters and hyphens, one
\* that no word stands before included.
precedingNameLabel(words, i) ==
    IF i > 1 /\ Separates(words[i].gap)
    THEN (IF EndsInHyphen(words[i - 1].gap) THEN <<"-">> ELSE <<>>) \o words[i - 1].parts
    ELSE <<>>

\* A marker is the whole of that word.
markerImmediatelyBefore(words, i, markers) ==
    \E m \in markers : precedingNameLabel(words, i) = <<m>>

nameStart(w) ==
    /\ ~nameStop(w)
    /\ nameLetters(w)
    /\ nameCapitalized(w) \/ commonGivenName(w) \/ surnameForm(w)

nameWordCount(words, i, strong) ==
    LET continues(k) ==
            /\ k <= Len(words)
            /\ ~nameStop(words[k])
            /\ nameLetters(words[k])
            /\ strong \/ nameCapitalized(words[k])
            /\ nameWordsAdjacent(words[k], strong)
    IN  IF ~continues(i + 1) THEN 1
        ELSE IF continues(i + 2)
                  /\ (isPatronymic(words[i + 1]) \/ isPatronymic(words[i + 2]))
        THEN 3 ELSE 2

plausibleNamePair(a, b) ==
    \/ commonGivenName(a) /\ surnameForm(b)
    \/ surnameForm(a) /\ commonGivenName(b)

nameConfidence(words, i, count, labelled) ==
    IF labelled
    THEN IF count >= 2 \/ commonGivenName(words[i]) \/ surnameForm(words[i])
         THEN "high" ELSE "none"
    ELSE IF count = 3 THEN "high"
    ELSE IF count = 2 /\ plausibleNamePair(words[i], words[i + 1])
         THEN "candidate" ELSE "none"

\* Two capitalised words of which exactly one is a given name, unless the
\* second is a given name that may begin a name of its own.
contextualNamePair(words, i, count) ==
    /\ count = 2
    /\ isCapitalizedWord(words[i]) /\ isCapitalizedWord(words[i + 1])
    /\ ~ /\ commonGivenName(words[i + 1])
         /\ i + 2 <= Len(words)
         /\ nameCapitalized(words[i + 2])
         /\ ~nameStop(words[i + 2])
         /\ wordsAdjacent(words[i + 2])
    /\ commonGivenName(words[i]) # commonGivenName(words[i + 1])

hasTrapName(words, i, count) ==
    \E k \in i..(i + count - 1) : words[k].parts \in TrapNames

\* The name that begins at word i; count = 0 when none does.
nameCandidate(words, i) ==
    LET strong   == markerImmediatelyBefore(words, i, StrongMarkers)
        labelled == strong \/ markerImmediatelyBefore(words, i, WeakMarkers)
        count    == nameWordCount(words, i, strong)
        conf     == nameConfidence(words, i, count, labelled)
        needs    == conf = "none" /\ contextualNamePair(words, i, count)
    IN  IF \/ ~nameStart(words[i])
           \/ ~nameCapitalized(words[i]) /\ ~strong
           \/ conf = "none" /\ ~needs
        THEN [count |-> 0]
        ELSE [count |-> count, start |-> i,
              conf |-> IF needs THEN "candidate" ELSE conf,
              needs |-> needs, label |-> labelled,
              trap |-> ~strong /\ hasTrapName(words, i, count)]

\* One round of the pass: p.at is the word at which a name may begin.
tryWord(words, p) ==
    LET c == nameCandidate(words, p.at)
    IN  IF p.at > Len(words) THEN p
        ELSE IF c.count = 0 THEN [p EXCEPT !.at = @ + 1]
        ELSE [at |-> p.at + c.count, found |-> p.found \cup {c}]

\* The pass after each number of rounds.
passOver(words) ==
    LET pass[n \in Nat] ==
            IF n = 0 THEN [at |-> 1, found |-> {}] ELSE tryWord(words, pass[n - 1])
    IN  pass

Candidates(text) ==
    LET words == nameTokens(text)
    IN  passOver(words)[Len(words)].found
=============================================================================
