------------------------------- MODULE Masking -------------------------------
(***************************************************************************)
(* The format-preserving masks of internal/pii/masking.  A value is the    *)
(* sequence of the classes of its runes; a mask is the set of positions    *)
(* that it hides.                                                          *)
(***************************************************************************)
EXTENDS Naturals, Sequences, FiniteSets

\* A mark is a rune that the detectors take for a letter and the masks do not:
\* the signs U+0482..U+0489 of the Cyrillic block.
Classes == {"digit", "letter", "mark", "space", "at", "dot", "sign"}

Digits(v) == {i \in DOMAIN v : v[i] = "digit"}

Letters(v) == {i \in DOMAIN v : v[i] = "letter"}

Marks(v) == {i \in DOMAIN v : v[i] = "mark"}

\* Digits but the first and the last few: digitIdx runs over the digits only.
MaskInner(v, first, last) ==
    LET before(i) == Cardinality({j \in Digits(v) : j < i})
    IN  {i \in Digits(v) :
            before(i) >= first /\ before(i) + last < Cardinality(Digits(v))}

maskPassport(v) == MaskInner(v, 2, 2)

maskCardNumber(v) == MaskInner(v, 4, 4)

maskPhone(v) == MaskInner(v, 1, 2)

maskAllDigits(v) == Digits(v)

maskWords(v) == Letters(v)

maskAllAlphaNumeric(v) == Digits(v) \cup Letters(v)

\* Of every word the first rune stays.
maskFullName(v) ==
    {i \in DOMAIN v : v[i] # "space" /\ i > 1 /\ v[i - 1] # "space"}

\* The first rune of the local part and the top-level domain stay.
maskEmail(v) ==
    LET ats   == {i \in DOMAIN v : v[i] = "at"}
        at    == CHOOSE i \in ats : \A j \in ats : i <= j
        dots  == {i \in DOMAIN v : i > at /\ v[i] = "dot"}
        dot   == CHOOSE i \in dots : \A j \in dots : j <= i
        named == dots # {} /\ dot > at + 1
    IN  IF ats = {} THEN maskWords(v)
        ELSE {i \in DOMAIN v :
                \/ 1 < i /\ i < at
                \/ at < i /\ (named => i < dot)}

\* The runs of exactly four digits; dateDigitRuns takes the last for the year.
YearRuns(v) ==
    {i \in DOMAIN v :
        /\ i..(i + 3) \subseteq Digits(v)
        /\ (i - 1) \notin Digits(v)
        /\ (i + 4) \notin Digits(v)}

Year(v) ==
    IF YearRuns(v) = {} THEN {}
    ELSE LET y == CHOOSE i \in YearRuns(v) : \A j \in YearRuns(v) : j <= i
         IN  y..(y + 3)

\* Mutant: the year stays also when the value is nothing but the year.
maskDateKeepsYear(v) ==
    IF Digits(v) = {} THEN maskWords(v) ELSE Digits(v) \ Year(v)

\* The year stays if day or month are hidden; of a year alone, two digits do.
maskDate(v) ==
    IF Digits(v) = {} THEN maskWords(v)
    ELSE IF Cardinality(Digits(v)) > Cardinality(Year(v))
         THEN Digits(v) \ Year(v)
         ELSE {i \in Digits(v) : (i + 2) \in Year(v)}

\* Types without a strategy of their own are the configured ones.
Mask(type, v) ==
    CASE type \in {"full_name", "card_holder"} -> maskFullName(v)
      [] type \in {"date_of_birth", "passport_issue_date"} -> maskDate(v)
      [] type \in {"place_of_birth", "citizenship"} -> maskWords(v)
      [] type \in {"passport_number", "passport_division_code",
                   "driver_license", "inn"} -> maskPassport(v)
      [] type = "email" -> maskEmail(v)
      [] type = "phone" -> maskPhone(v)
      [] type = "card_number" -> maskCardNumber(v)
      [] type \in {"cvv", "card_pin"} -> maskAllDigits(v)
      [] OTHER -> maskAllAlphaNumeric(v)
=============================================================================
