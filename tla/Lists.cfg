CONSTANTS
    Node <- ListNode
    Grammar <- ListGrammar
    Sources <- ListSources
    Meaning <- PegMeaning
    MeaningFrom <- PegMeaningFrom
SPECIFICATION FairSpec
INVARIANTS TypeOK TrailingSeparatorKept OnTheWay
PROPERTIES ReadImplementsMeaning ReadReturns LoopsAdvance
