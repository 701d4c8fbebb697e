SPECIFICATION Spec
CONSTANTS
    Texts <- MCTexts
    Grammar <- MCGrammar
    Names <- MCNames
    SysTypes = {"u8"}
    Units = {"<m>"}
    Values = {"1"}
    Strings = {"str"}
    MaxArguments = 2
INVARIANTS SentencesKept HaltsExplained
\* A parse returns, or the program is gone.
CHECK_DEADLOCK FALSE
