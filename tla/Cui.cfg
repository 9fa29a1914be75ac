CONSTANTS
    Answers <- MCAnswers
    Lines = 2
    NumSortKeys = 2
    Filters = 2
    Matches <- MCMatches
    Digits <- MCDigits
    Letters = {"."}
    ThresholdWidth = 5
    FilterWidth = 4
    ThresholdMax = 2
SPECIFICATION CuiSpec
INVARIANTS
    CuiTypeOK
    DetailsOfShown
PROPERTY
    EscapeKeeps
CHECK_DEADLOCK FALSE
