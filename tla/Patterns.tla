------------------------------- MODULE Patterns -------------------------------
(***************************************************************************)
(* The literal prefilter in front of the detectors' regular expressions    *)
(* (internal/pii/detectors/pattern.go).  compilePattern derives from the   *)
(* syntax tree literals one of which every match must contain; an input    *)
(* without any of them is not given to the regexp.  It also serves the     *)
(* expressions that operators configure (custom_pattern.go).               *)
(*                                                                         *)
(* An input is a sequence of runes.  The prefilter ranks literals by their *)
(* bytes; here every rune counts for one.                                  *)
(***************************************************************************)
EXTENDS Integers, Sequences, SequencesExt

CONSTANTS
    Runes,          \* the runes of inputs and literals
    Orbit,          \* Orbit[r]: r and what unicode.SimpleFold leads to from it
    Trees,          \* syntax trees, every subtree included
    Height,         \* how deep each of them is nested
    MaxNeedles      \* more literals than these are given up (16)

-----------------------------------------------------------------------------
(* Syntax trees: what regexp/syntax makes of an expression *)

Literal(runes, fold) == [op |-> "literal", runes |-> runes, fold |-> fold]

AnyRune == [op |-> "any"]

Empty == [op |-> "empty"]

Capture(x) == [op |-> "capture", sub |-> x]

Star(x) == [op |-> "star", sub |-> x]

Plus(x) == [op |-> "plus", sub |-> x]

Repeat(x, min, max) == [op |-> "repeat", sub |-> x, min |-> min, max |-> max]

Concat(subs) == [op |-> "concat", subs |-> subs]

Alternate(subs) == [op |-> "alternate", subs |-> subs]

\* The immediate subtrees of a tree of a kind.
Subtrees(x) ==
    CASE x.op \in {"capture", "star", "plus", "repeat"} -> {x.sub}
      [] x.op \in {"concat", "alternate"} -> Range(x.subs)
      [] OTHER -> {}

ASSUME PatternsAssumption ==
    /\ \A r \in Runes : r \in Orbit[r] /\ Orbit[r] \subseteq Runes
    /\ MaxNeedles \in Nat
    /\ Height \in [Trees -> Nat]
    /\ \A x \in Trees : \A y \in Subtrees(x) : y \in Trees /\ Height[y] < Height[x]
    /\ \A x \in Trees :
          /\ x.op = "literal" => x.runes \in Seq(Runes) /\ x.fold \in BOOLEAN
          /\ x.op = "repeat" => x.min \in Nat /\ x.max \in Nat \cup {-1}
          /\ x.op \in {"concat", "alternate"} => x.subs \in Seq(Trees)

EqualFold(s, t) ==
    Len(s) = Len(t) /\ \A i \in 1..Len(s) : t[i] \in Orbit[s[i]]

\* Where matches lead to that begin at a member of from, given the ends of each
\* match of one part.
Step(ends, from) == UNION {ends[k] : k \in from}

\* The same for n matches in a row, and for a match of each part in turn.
StepTimes(ends, from) ==
    LET reach[n \in Nat] == IF n = 0 THEN from ELSE Step(ends, reach[n - 1])
    IN  reach

StepEach(parts, from) ==
    LET reach[n \in 0..Len(parts)] == IF n = 0 THEN from ELSE Step(parts[n], reach[n - 1])
    IN  reach

MatchesLiteral(x, s) == IF x.fold THEN EqualFold(x.runes, s) ELSE x.runes = s

\* The ends of the matches of x that begin behind rune i, given those of its
\* subtrees.
EndsAt(x, ends, input, i) ==
    LET reach == StepTimes(ends[x.sub], {i})
        times(min, max) == UNION {reach[n] : n \in min..max}
    IN  CASE x.op = "literal" ->
                {j \in {i + Len(x.runes)} \cap (0..Len(input)) :
                    MatchesLiteral(x, SubSeq(input, i + 1, j))}
          [] x.op = "any" -> {i + 1} \cap (1..Len(input))
          [] x.op = "empty" -> {i}
          [] x.op = "capture" -> ends[x.sub][i]
          [] x.op = "star" -> times(0, Len(input))
          [] x.op = "plus" -> times(1, Len(input) + 1)
          [] x.op = "repeat" ->
                times(x.min, IF x.max = -1 THEN x.min + Len(input) ELSE x.max)
          [] x.op = "concat" ->
                StepEach([k \in DOMAIN x.subs |-> ends[x.subs[k]]], {i})[Len(x.subs)]
          [] x.op = "alternate" -> UNION {ends[y][i] : y \in Range(x.subs)}
          [] OTHER -> {}

\* Where the matches of each tree may end, by where they begin.
Ends(input) ==
    LET ends[x \in Trees] == [i \in 0..Len(input) |-> EndsAt(x, ends, input, i)]
    IN  ends

\* Every match of an expression: what FindAll of regexp chooses from.
Matches(re, input) ==
    LET ends == Ends(input)[re]
    IN  {m \in (0..Len(input)) \X (0..Len(input)) : m[2] \in ends[m[1]]}

-----------------------------------------------------------------------------
(* The literals a match must contain; none means unknown. *)

\* Mutant: of a folded literal's first rune, only the rune itself is looked for.
regexpLiteralNoOrbit(re) ==
    IF re.runes = <<>> THEN <<>>
    ELSE <<[text |-> re.runes, fold |-> re.fold, first |-> {re.runes[1]}]>>

regexpLiteral(re) ==
    IF re.runes = <<>> THEN <<>>
    ELSE <<[text |-> re.runes, fold |-> re.fold,
            first |-> IF re.fold THEN Orbit[re.runes[1]] ELSE {re.runes[1]}]>>

\* The length of the shortest literal of a list; 0 when there is none.
shortestLiteral(candidates) ==
    LET lengths == {Len(c.text) : c \in Range(candidates)}
    IN  IF candidates = <<>> THEN 0
        ELSE CHOOSE n \in lengths : \A m \in lengths : n <= m

\* The first of the parts' lists whose shortest literal is the longest.
concatLiterals(parts) ==
    LET score(k) == shortestLiteral(parts[k])
        best == {k \in DOMAIN parts : /\ score(k) > 0
                                      /\ \A l \in DOMAIN parts : score(l) <= score(k)}
    IN  IF best = {} THEN <<>>
        ELSE parts[CHOOSE k \in best : \A l \in best : k <= l]

\* The lists of the first n parts, one behind the other.
joined(parts) ==
    LET all[n \in 0..Len(parts)] == IF n = 0 THEN <<>> ELSE all[n - 1] \o parts[n]
    IN  all

\* Every alternative must be known, and the list must stay short.
alternateLiterals(parts) ==
    LET all == joined(parts)[Len(parts)]
    IN  IF <<>> \in Range(parts) \/ Len(all) > MaxNeedles THEN <<>> ELSE all

\* The literals of a tree, given those of its subtrees.
literalsOf(x, required) ==
    LET parts == [k \in DOMAIN x.subs |-> required[x.subs[k]]]
    IN  CASE x.op = "literal" -> regexpLiteral(x)
          [] x.op \in {"capture", "plus"} -> required[x.sub]
          [] x.op = "repeat" /\ x.min > 0 -> required[x.sub]
          [] x.op = "concat" -> concatLiterals(parts)
          [] x.op = "alternate" -> alternateLiterals(parts)
          [] OTHER -> <<>>

requiredLiterals[x \in Trees] == literalsOf(x, requiredLiterals)

\* literal.matches: a folded literal is compared where its first rune, in any
\* case, occurs; near the end of the input with what is left of it.
matches(n, input) ==
    IF n.fold
    THEN \E i \in 1..Len(input) :
            /\ input[i] \in n.first
            /\ EqualFold(n.text, SubSeq(input, i,
                  IF i + Len(n.text) - 1 < Len(input) THEN i + Len(n.text) - 1
                                                      ELSE Len(input)))
    ELSE \E i \in 0..(Len(input) - Len(n.text)) :
            SubSeq(input, i + 1, i + Len(n.text)) = n.text

possible(re, input) ==
    LET needles == requiredLiterals[re]
    IN  needles = <<>> \/ \E k \in DOMAIN needles : matches(needles[k], input)

\* MatchString, FindAllStringIndex and FindAllStringSubmatchIndex of a pattern
FindAll(re, input) == IF possible(re, input) THEN Matches(re, input) ELSE {}

\* PatternDetector.Detect: an empty match is no finding.
customFindings(re, input) == {m \in FindAll(re, input) : m[1] # m[2]}
=============================================================================
