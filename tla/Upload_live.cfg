SPECIFICATION FairSpec
CONSTANTS
  Blank = Blank
  Torn = Torn
  NoHost = NoHost
  Host = Host
  Tool = Tool
  SectorPages = 4
  FilePages = 6
  Attempts = 2
  ToolVersion = 3
  Blocks = 3
  BlockPages = 2
  BlockMod = 2
  IdleMax = 2
  RstMax = 1
  Retries = 3
  Mishaps = 2
  Faults = 0
PROPERTIES Released UploadSucceeds ReadSucceeds
CHECK_DEADLOCK FALSE
