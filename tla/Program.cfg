CONSTANTS
    Node <- ProgramNode
    Grammar <- ProgramGrammar
    Sources <- ProgramSources
    Meaning <- PegMeaning
    MeaningFrom <- PegMeaningFrom
SPECIFICATION Spec
INVARIANTS IInv OnTheWay RemainderInView GoodIffParsed FramesNested RecursionConsumes
PROPERTIES ReadImplementsMeaning ReadImplementsCursor
