SPECIFICATION Spec
CONSTANTS
  Words <- MCWords
  CommandLines <- MCCommandLines
  MAX_OPEN_FILES = 2
  Filenos <- MCFilenos
  Answers <- MCAnswers
INVARIANTS
  Detected
  HandlesApart
