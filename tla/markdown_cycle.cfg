CONSTANTS
  MaxFrontMatterBytes = 10
  MaxFrontMatterLines = 4
  InitialFiles <- Files
  EditKeys = {1, 3}
  EditValues = {0, 1}
  EditBodies <- Bodies
  EditFormats = {"none", "yaml", "toml", "json"}
  MaxEdits = 3
SPECIFICATION Spec
INVARIANTS
  TypeOK
  UneditedIsVerbatim
PROPERTIES
  ReadsBackInItsOwnShape
  MetadataStaysPut
  AuthoredOrderSurvives
  TerminatorsSurvive
