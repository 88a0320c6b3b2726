CONSTANTS
    Node <- ViewNode
    Grammar <- ViewGrammar
    Sources <- ViewSources
    Meaning <- PegMeaning
    MeaningFrom <- PegMeaningFrom
SPECIFICATION Spec
INVARIANTS ViewEndsWithString
