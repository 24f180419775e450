----------------------------- MODULE MCDetectors -----------------------------
(* An instance of Detectors for TLC. *)
EXTENDS Detectors

\* 's', its capital and its long form fold to one another.
MCRunes == {"s", "S", "long", "t"}

MCOrbit == [r \in MCRunes |-> IF r = "t" THEN {"t"} ELSE MCRunes \ {"t"}]

Atoms ==
    {Literal(<<"s">>, FALSE), Literal(<<"s">>, TRUE), Literal(<<"t", "s">>, TRUE),
     Empty, AnyRune}

FoldedS == Literal(<<"s">>, TRUE)

Terms ==
    Atoms \cup {Star(x) : x \in Atoms} \cup {Plus(x) : x \in Atoms}
        \cup {Repeat(x, 1, 2) : x \in Atoms}
        \cup {Capture(FoldedS), Repeat(FoldedS, 0, 1), Repeat(FoldedS, 2, -1)}

MCRegexps ==
    [op: {"concat", "alternate"}, subs: Terms \X Terms]
        \cup [op: {"concat"}, subs: [op: {"alternate"}, subs: Atoms \X Atoms] \X Atoms]
        \cup [op: {"alternate"}, subs: Atoms \X Atoms \X Atoms]

MCTrees == Terms \cup MCRegexps

RECURSIVE HeightOf(_)

HeightOf(x) == LET below == {HeightOf(y) : y \in Subtrees(x)}
               IN  IF below = {} THEN 0 ELSE 1 + Max(below)

MCHeight == [x \in MCTrees |-> HeightOf(x)]

MCVocabulary ==
    [label |-> {"word", "unknown", "authority", "label", "city", "n1", "n6"},
     marker |-> {"dob", "year", "issue", "generic", "cvv", "pin", "n3", "yyyy", "n6",
                "date", "client", "index"},
     name |-> {"Client", "Holder", "mr", "Ivan", "ivan", "Petrov", "Petrovich",
               "Pushkin", "Word", "WORD", "word"}]

MCOddGaps ==
    [label |-> {<<":", " ">>, <<";">>, <<",">>, <<"-">>, <<" ", "#">>, <<>>},
     marker |-> {<<";", " ">>, <<"newline">>, <<"-">>, <<".", " ">>},
     name |-> {<<"newline">>, <<",", " ">>, <<":", " ">>, <<"-">>, <<" ", "-">>, <<".", " ">>}]

MCMaxOdd == [label |-> 2, marker |-> 1, name |-> 1]

\* Holder is a declined form: its pattern knows it, nameStop does not.
MCStops == {"Client", "mr"}

MCStrong == {"Client", "Holder"}

MCNameWords == MCVocabulary.name

\* A famous name of one part and one of two.
MCTraps == {<<"Pushkin">>, <<"Word", "Petrov">>}

MCCapitalized == MCNameWords \ {"mr", "ivan", "word"}

MCWithLower == MCNameWords \ {"WORD"}
=============================================================================
