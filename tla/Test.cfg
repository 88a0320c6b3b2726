CONSTANTS
    Node <- TestNode
    Grammar <- TestGrammar
    Sources <- TestSources
    Meaning <- PegMeaning
    MeaningFrom <- PegMeaningFrom
SPECIFICATION Spec
PROPERTIES TestTellsSuccess
