SPECIFICATION ScanSpec
CONSTANTS
    Char <- MCChar
    EOF = "EOF"
    None = "none"
    Ahead = 1
    Texts <- MCTexts
    Formats <- MCFormats
    Kept <- MCKept
    Largest <- MCLargest
    Smallest <- MCSmallest
    ExpBound = 60
    Bits <- MCBits
    UIntBits = 5
    ULLBits = 8
INVARIANTS NumbersRead ScannedAsMeant
PROPERTIES ReaderIsStream ScanEnds
