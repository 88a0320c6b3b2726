CONSTANTS
    Coroutine <- MCCoroutines
    EntryPoints <- MCCoroutines
    Body <- MCBody
    Sources <- MCSources
    Outcome <- MCOutcome
    Meaning <- TwinMeaning
    MeaningFrom <- TwinFrom
SPECIFICATION FairSpec
INVARIANTS IInv TakenOnce OnTheWay
PROPERTIES CoroutineImplementsCombinator CoroutineImplementsCursor ReadReturns
CHECK_DEADLOCK FALSE
