CONSTANTS
  Names <- NamesInOrder
  Scalars <- WaysOfScalars
  Comments <- WaysOfComments
  Gaps <- WaysOfGaps
  AuthorValues <- AgreedValues
  EditKeys <- EditedNames
  EditValues <- NewValues
  MaxLines = 3
  MaxMarks = 15
SPECIFICATION Spec
INVARIANTS
  TypeOK
  LexerFindsTheAuthoredOrder
  WrittenBlocksReadBack
PROPERTY
  EditsKeepTheAuthoredOrder
