SPECIFICATION Spec
CONSTANTS
  Names <- MCNames
  AttributeRefs <- MCAttributeRefs
  Conditions <- MCConditions
  Extensions = {"AffectsBip", "AffectsBip*"}
  Texts <- MCTexts
  Again <- MCAgain
INVARIANTS
  AnswersErrors QueryIsRead
PROPERTY
  EveryQueryEnds
\* A session ends after two queries, or where nothing catches an exception.
CHECK_DEADLOCK FALSE
