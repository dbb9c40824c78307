SPECIFICATION Spec
CONSTANTS
  Ext = 4
  Wrap = 8
  FirstChunk = 2
  NextChunk = 3
  Cids = {"protocol", "invoke", "video"}
  Role = "server"
  Media <- MCMedia
  Socket = 1
PROPERTY WrittenInOrder
CHECK_DEADLOCK FALSE
