CONSTANTS
    Node <- LookaheadNode
    Grammar <- LookaheadGrammar
    Sources <- LookaheadSources
    Meaning <- PegMeaning
    MeaningFrom <- PegMeaningFrom
SPECIFICATION Spec
INVARIANTS GoodIffParsed
