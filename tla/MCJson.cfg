SPECIFICATION MCSpec
CONSTANTS
    i1 = i1
    i2 = i2
    i3 = i3
    i4 = i4
    n1 = n1
    Null = Null
    NestingLimit = 2
    Texts <- MCTexts
    Values <- MCValues
    Patches <- MCPatches
    MaxSize = 4
SYMMETRY MCSymmetry
INVARIANTS
    PatchesAsPromised
    DifferencesLeadThere
    ComparisonsAgree
    ReadsWhatItPrinted
    BuffersSuffice
    NothingLeaks
PROPERTIES
    OnlySortingUnlinks
    ImplementsForest
