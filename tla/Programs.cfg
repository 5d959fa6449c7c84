CONSTANTS
  MaxConnections = 2
  ClientArgs <- MCClientArgs
  ClientFaults = {1}
  gSendCount = 2
  BufferPieces = 2
  Room = 3
  Addresses = {1, 2}
  MaxDatagramFaults = 3
  OverBuffers = {1, 2, 3}
  MAXIMUM_WAIT_OBJECTS = 4
  OverThreads = {1, 2}
  MaxDatagrams = 1
  MaxSendFaults = 1
  Lanas = {1, 2}
  MaxSessions = 2
  MaxMessages = 2
  MaxRefusals = 1
  NUM_PIPES = 2
  PipeClients = {1, 2}
  MaxWrites = 2
  DEFAULT_SEND_COUNT = 3
  gTtl = 3
  Distance = 2
  SilentHops = {}
  MaxProbes = 4
  MaxStrays = 1
  MtuSizes = {1496, 100, 1500}
  SendSizes = {14, 1448, 1449, 1496, 1497, 4383, 4384, 62304, 62305}
  ChecksumWords = {0, 1, 65534, 65535}
  MAX_PACKET_FRAGMENTS = 44
  RawSendCount = 2
  MAX_CONN = 3
  QosClients = {1, 2, 3}
  QosConfigs <- MCQosConfigs
  MaxQosFaults = 1
  Lsps = {"lsp1", "lsp2"}
  BaseProtocols = 2
  MaxOver = 1
  MaxCommands = 3
  MaxCatalogFaults = 1
  Sources = {"h1", "h2"}
  SourceLists <- MCSourceLists
  gCount = 2
  MaxMulticastFaults = 1
  SpxClients = {1, 2}
  SpxSizes = {1, 2, 3}
  dwNumToSend = 2
  MaxSpxFaults = 1
  NbTransports = {0, 1}
  NbClients = {1, 2}
  dwCount = 2
  MaxNbFaults = 1
  AtSenders = {1, 2}
  AtCount = 1
  AtSize = 2
  MaxAtFaults = 2
  NspConfigs <- MCNspConfigs
SPECIFICATION Spec
INVARIANTS ClientsRight EventArraysRight SessionsSound PacketsRight RegistriesRight
PROPERTY ProgramsServe
CHECK_DEADLOCK FALSE
