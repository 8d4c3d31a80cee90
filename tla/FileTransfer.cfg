SPECIFICATION LiveSpec
CONSTANTS
  bundle = bundle
  file = file
  bad = bad
  stream = stream
  array = array
  Name = {bundle, file, bad}
  Bundle = {bundle}
  BadName = {bad}
  Write = {stream, array}
  Stream = {stream}
  Parts <- MCParts
  Upload <- MCUpload
  None = None
  Missing = Missing
INVARIANTS
  TypeOK
  OneChunkPerName
  WholeFiles
PROPERTIES
  ReadsAreSnapshots
  WritesSettle
CHECK_DEADLOCK FALSE
