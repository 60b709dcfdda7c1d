CONSTANTS
  MaxFrontMatterBytes = 40
  MaxFrontMatterLines = 20
  InitialFiles <- ClosedAtTheEnd
  EditKeys = {1, 3}
  EditValues = {1}
  EditBodies <- OneBody
  EditFormats = {}
  MaxEdits = 2
SPECIFICATION Spec
PROPERTIES
  WrittenDocumentsReadBack
