CONSTANTS
  Programs <- MCPrograms
  JsBuiltins <- MCJsBuiltins
  Compiler <- Compile
  Linked <- LinkedProgram
  Meaning <- SourceMeaning
  MaxTry = 2
SPECIFICATION Spec
INVARIANTS WordsHaveTheirType MeansWhatItSays Accepted HandlersLive
PROPERTY EveryProgramEnds
CHECK_DEADLOCK FALSE
