CONSTANTS
    Coroutine <- MCCoroutines
    EntryPoints <- Throwers
    Body <- MCBody
    Sources <- MCSources
    Outcome <- MCOutcome
    Meaning <- TwinMeaning
    MeaningFrom <- TwinFrom
SPECIFICATION Spec
INVARIANTS ExceptionsCancel
