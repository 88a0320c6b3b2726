CONSTANTS
    Scanner <- MCScanner
    Leaves <- MCLeaves
    Sources <- MCSources
    SizeValues <- MCSizeValues
SPECIFICATION FairSpec
INVARIANTS IInv
PROPERTIES ReadsInView ScansImplementOutcomes ScanReturns
