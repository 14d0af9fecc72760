SPECIFICATION SpecSweep
CONSTANT UintRange = 16
CONSTANT UlongRange = 64
CONSTANT Letters <- MCLetters
CONSTANT Spelling <- MCSpelling
CONSTANT Meaning <- MCMeaning
CONSTANT MaxLexemes = 6
CONSTANT Items <- MCItems
CONSTANT MaxLines = 3
CONSTANT Bases <- MCBases
CHECK_DEADLOCK FALSE
INVARIANT AdcIsAddition
INVARIANT SbcIsSubtraction
INVARIANT TableIsRegular
INVARIANT LexerReads
INVARIANT GrammarDecides
INVARIANT PrecheckIsHarmless
 
INVARIANT DamageIsFound
