SPECIFICATION Writing
CONSTANTS
    Runes <- MCRunes
    Orbit <- MCOrbit
    Trees <- MCTrees
    Height <- MCHeight
    MaxNeedles = 2
    Window = 2
    Stops <- MCStops
    StrongMarkers <- MCStrong
    WeakMarkers = {"mr"}
    GivenNames = {"Ivan", "ivan"}
    Surnames = {"Petrov", "Pushkin"}
    Patronymics = {"Petrovich"}
    TrapNames <- MCTraps
    Capitalized <- MCCapitalized
    WithLower <- MCWithLower
    Cyrillic <- MCNameWords
    Regexps <- MCRegexps
    NoRegexp = none
    Vocabulary <- MCVocabulary
    OddGaps <- MCOddGaps
    MaxRunes = 3
    MaxCells = 4
    MaxOdd <- MCMaxOdd
INVARIANTS PrefilterChangesNothing LabelledValueStaysInItsField FieldsDoNotLeak LabelledNameReported
CHECK_DEADLOCK FALSE
