CONSTANTS
    Node <- StringNode
    Grammar <- StringGrammar
    Sources <- StringSources
    Meaning <- PegMeaning
    MeaningFrom <- PegMeaningFrom
SPECIFICATION Spec
INVARIANTS RemainderInView
