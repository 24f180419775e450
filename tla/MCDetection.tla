----------------------------- MODULE MCDetection -----------------------------
(* An instance of Detection for TLC: personal data around four cells that     *)
(* vary, or overlapping numbers of documents.                                *)
EXTENDS Detection

CONSTANT nospan

Personal == {"full_name", "address", "phone", "date_of_birth"}

Documents == {"email", "inn", "card_number", "cvv", "citizenship", "badge"}

MCTypes == Personal \cup Documents

MCSupports ==
    <<{"full_name"}, {"date_of_birth"}, {"address"}, {"phone"}, Documents>>

MCTexts ==
    {<<a, "text", b, c, "text", d>> :
        a \in {"text", "person"}, b \in {"text", "stop", "break", "separator"},
        c \in {"text", "field", "negative"}, d \in {"text", "negative"}}

Span(type, s, e, conf, flags, d) ==
    [type |-> type, s |-> s, e |-> e, conf |-> conf, det |-> d,
     label |-> "label" \in flags, trap |-> "trap" \in flags,
     needs |-> "needs" \in flags]

MCSpans ==
    {Span("full_name", 2, 3, 60, {"needs"}, 1),
     Span("full_name", 4, 6, 95, {"label"}, 1),
     Span("date_of_birth", 3, 5, 70, {}, 2),
     Span("address", 1, 4, 60, {}, 3),
     Span("address", 5, 6, 60, {}, 3),
     Span("phone", 5, 6, 95, {}, 4),
     Span("phone", 1, 2, 95, {}, 4),
     Span("citizenship", 1, 2, 70, {}, 5),
     Span("email", 2, 3, 95, {}, 5),
     Span("inn", 3, 6, 70, {}, 5),
     Span("card_number", 4, 7, 95, {}, 5),
     Span("cvv", 5, 6, 95, {}, 5),
     Span("badge", 1, 3, 95, {}, 5)}

AllMasked(profile, tokens) ==
    [detect |-> Personal, mask |-> Personal, profile |-> profile,
     rules |-> {}, tokens |-> tokens]

\* A policy that masks phones only beside a name, and no addresses.
Conditional ==
    [detect |-> Personal, mask |-> Personal \ {"address"}, profile |-> "balanced",
     rules |-> {[type |-> "phone", requires |-> {"full_name"}]}, tokens |-> FALSE]

DocumentsOnly ==
    [detect |-> Documents, mask |-> Documents, profile |-> "balanced",
     rules |-> {}, tokens |-> FALSE]

MCPolicies ==
    {AllMasked(p, FALSE) : p \in Profiles}
        \cup {AllMasked("balanced", TRUE), Conditional, DocumentsOnly}

\* What the patterns of the detectors accept, up to repetition.
Rep(class, n) == [i \in 1..n |-> class]

MCShapes ==
    [full_name |-> {Rep("letter", 2) \o <<"space">> \o Rep("letter", 3),
                    <<"letter", "space", "letter">>},
     address |-> {Rep("letter", 3), <<"digit">>},
     phone |-> {Rep("digit", 11),
                <<"sign">> \o Rep("digit", 4) \o <<"space">> \o Rep("digit", 7)},
     date_of_birth |-> {Rep("digit", 2) \o <<"dot">> \o Rep("digit", 2)
                            \o <<"dot">> \o Rep("digit", 4),
                        Rep("digit", 4), Rep("letter", 4)},
     citizenship |-> {Rep("letter", 2), <<"mark">>},
     badge |-> {<<"letter", "sign", "digit">>, <<"sign">>},
     email |-> {<<"letter", "at", "letter", "dot">> \o Rep("letter", 2),
                <<"letter", "dot", "letter", "at", "letter", "dot", "letter">>},
     inn |-> {Rep("digit", 10), Rep("digit", 12)},
     card_number |-> {Rep("digit", 13),
                      Rep("digit", 4) \o <<"space">> \o Rep("digit", 12)},
     cvv |-> {Rep("digit", 3), Rep("digit", 4)}]

ASSUME ShapesPromised ==
    \A t \in MCTypes : \A v \in MCShapes[t] : Promised(t, v)
=============================================================================
