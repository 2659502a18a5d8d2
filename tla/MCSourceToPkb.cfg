SPECIFICATION Spec
CONSTANTS
  Names = {"p", "q", "r", "s", "t", "u", "x", "y", "z"}
  Numbers = {"1", "2", "2147483648"}
  Constants = {"1", "2", "2147483648"}
  TooLarge = {"2147483648"}
  MaxDepth = 5
  Texts <- MCTexts
  Again <- MCAgain
INVARIANTS
  TypeOK AcceptsPrograms
  InverseTablesAgree RelationsAreTheProgram EffectsAreTheProgram EntitiesAreTheProgram
PROPERTY ExtractSpec
