CONSTANTS
    o1 = o1
    o2 = o2
    Object <- MCObject
    Arrays <- MCArrays
    MaxCount <- MCMaxCount
    MaxOvershoot <- MCMaxOvershoot
    MaxBehind <- MCMaxBehind
    SizeValues <- MCSizeValues
SPECIFICATION Spec
INVARIANTS IInv PositiveSizeIsInside EqualIffEquivalent CompareIsLexical SubstrIsSlice
