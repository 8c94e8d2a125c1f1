CONSTANTS
    W <- MC_W
    Alphabet <- MC_Alphabet
    MaxToken <- MC_MaxToken
INIT ParseInit
NEXT ParseNext
INVARIANT
    AcceptsOnlyNumerals
