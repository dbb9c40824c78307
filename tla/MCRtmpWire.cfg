SPECIFICATION Spec
CONSTANTS
  Ext = 4
  Wrap = 8
  FirstChunk = 2
  NextChunk = 3
  Cids = {"protocol", "invoke", "video"}
  Role = "client"
  Media <- MCMedia
  Socket = 1
INVARIANTS WireTypeOK EndsInStep
PROPERTY ImplementsChannel
CHECK_DEADLOCK FALSE
