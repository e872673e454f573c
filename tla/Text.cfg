SPECIFICATION TextSpec
CONSTANTS
    Alphabets <- MCAlphabets
    MaxBody <- MCMaxBody
    INFIX_DEPTH_MAX = 12
    PLOT_RPN_MAX = 12
    PROGRAM_MAX = 9
    EDIT_ROWS = 2
    Sources <- MCSources
    Chars <- MCChars
    MaxKeys = 5
    INPUT_MAX = 12
    HISTORY_MAX = 2
    LISTING = 1
    Typeable <- MCTypeable
    Vocabulary <- MCVocabulary
    MaxPressed = 5
    Unit = 16
    IntMax = 7
    Mantissa <- MCMantissa
    Exponent <- MCExponent
    FacWhole = 3
    FacFloat = 4
    FacDecimal = 5
    Quarter = 32
    CpxRatio = 16
    MaxDepth = 2
    Literals <- MCLiterals
    Codes <- MCCodes
    MaxStrokes = 4
    Coefficients = {0, 1, 5, 45, 95, 99, 100, 120, 995, 999, 1005, 1234, 9995, 9999}
    Powers <- MCPowers
    Rooms = {5, 7}
    Arrays <- MCArrays
    DECIMALS_MAX = 2
    SCI_PLACES = 3
    ENG_PLACES = 1
    E_PLACES = 2
    DECIMAL_PLAIN_MAX = 5
    D128_DIGITS = 8
    G_DIGITS = 4
    TEXT_MAX = 16
    SourceChars <- MCSourceChars
    WordChars = {"a", "b"}
    Name <- MCName
    Other <- MCOther
    SourceCap = 7
    MaxSource = 5
CONSTRAINT Small
INVARIANTS
    FormulasRight
    EditorKeeps
    
    WordsRight
    KeysAsPressed
    ShownRight
    CopyRenamed
PROPERTY
    SignKeepsTheRest
CHECK_DEADLOCK FALSE
