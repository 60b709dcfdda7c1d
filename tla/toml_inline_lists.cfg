CONSTANTS
  Names <- NamesInOrder
  Scalars <- WaysOfScalars
  Comments <- WaysOfComments
  Gaps <- WaysOfGaps
  AuthorValues <- Values
  EditKeys <- EditedNames
  EditValues <- Values
  MaxLines = 3
  MaxMarks = 8
SPECIFICATION Spec
INVARIANT WrittenBlocksReadBack
