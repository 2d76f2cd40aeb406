\* Eight components without shared state, each within the bounds of MCParts.
\* The encoders stop after one sample, and the bounded writes run out.
CONSTANTS
  None = None
  Torn = Torn
  Main = Main
  Threads = {w1, w2}
  Magic = Magic
  Data = Data
  Packets <- TwoPackets
  MaxLength = 2
  Patience = 3
  MaxSent = 3
  MaxTimeouts = 1
  Holders = {ann, bob}
  StreamOf <- OneStream
  Easiest = 2
  Hardest = 3
  LongestTTL = 3
  WrittenVersions = {1, 3, 4, 5}
  Streams = {0, 1, 2}
  Efforts = {2, 4}
  TTLs = {0, 1, 3, 4}
  Mine = {me1, me2}
  Others = {bob}
  Chans = {chan}
  ChatLimit = 1
  MaxRows = 2
  Peers = {ann, bob}
  Objs = {ours, theirs}
  Own = {ours}
  RamMax = 1
  BatchMax = 1
  RowsMax = 2
  BlobsMax = 1
  QueueCap = 2
  MaxWrites = 3
  Texts = {draft}
  MaxCommit = 1
  MaxLost = 1
  AnswersCap = 1
  Pages = {1, 2}
  MaxVersion = 3
  MaxCrashes = 1
SPECIFICATION Spec
INVARIANTS
  FramesKept
  FormatsExact
  ObjectsAuthentic
  
  
  BackupSafe
  
  
CHECK_DEADLOCK FALSE
