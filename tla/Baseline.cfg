CONSTANTS
    Int32 <- IntType
    Int64 <- LongType
    Sources <- MCSources
    Meaning <- PegMeaning
    MeaningFrom <- PegMeaningFrom
SPECIFICATION FairSpec
INVARIANTS IInv AddedSoFar
PROPERTIES BaselineImplementsFold ReadReturns
