SPECIFICATION Spec
CONSTANTS
    Index <- MCIndex
    Fields <- MCFields
    Numerals <- MCNumerals
    ArrayLimit = 2
    Paths <- MCPaths
    Contents <- MCContents
    Root <- MCRoot
    Prefix <- MCPrefix
    Callers = {r1, r2}
    Asks <- TwoTags
    MaxLoads = 0
SYMMETRY Interchangeable
INVARIANT DescribesAskedTag
