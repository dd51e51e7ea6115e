SPECIFICATION Spec
CONSTANTS
  Char <- MCChar
  Typed <- MCTyped
  Encoding = "UTF-8"
  Commands <- MCCommands
  HistoryMax = 2
  EscapeRead = 8
  MaxKeys = 6
  Typeahead = 5
INVARIANT WholeCharacters
PROPERTY ImplementsEditor
CHECK_DEADLOCK FALSE
