SPECIFICATION Spec
CONSTANTS
    Index <- MCIndex
    Fields <- MCFields
    Numerals <- MCNumerals
    ArrayLimit = 2
    Paths <- MCPaths
    Contents <- MCContents
    Root <- MCRoot
    Prefix <- MCPrefix
    Callers = {r1, r2}
    Asks <- MCAsks
    MaxLoads = 1
SYMMETRY Interchangeable
INVARIANTS TypeOK UnmarshalledAsMeant DescribesSoleTag
