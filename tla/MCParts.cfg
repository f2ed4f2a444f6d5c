\* Every component at the bounds that README.md explains.
SPECIFICATION PartsSpec
CONSTANTS
  SndSession = {s1, s2}
  ConfigSink = "none"
  Display = {d1, d2, d3}
  NoName = NoName
  OutputName = d2
  MaxGroup = 2
  Connection = {c1, c2}
  PeerAddress = {p1, p2}
  RegistryCap = 1
  MaxStreams = 2
  KnownApp = {1}
  InputKind = {"key", "button", "abs", "rel"}
  MaxMessages = 3
  MaxClients = 1
  TaskId = {"t1", "t2"}
  Half = 2
  Thread = {t1, t2}
  PostName = {"video", "audio"}
  PostObject = {1, 2, 3}
  MaxElements = 1
  MaxRaised = 2
  MaxFrame = 3
  DefaultDpb = 3
  BufSize = 32
  HeadSize = {5, 20}
  BodySize = {0, 3, 8, 14}
  Image = {i1, i2, i3}
  Texture = {1, 2, 3, 4}
  MaxDesk = 2
  MaxCursor = 2
  BlockSize = 3
  FrameSize = {1, 2, 3, 4, 10, 213, 214, 427, 510, 511, 637, 757, 852, 853, 1500, 2040,
               2041, 2544, 2545, 3024, 3025}
  FecPercent = {1, 20, 50, 255}
  MinParity = {0, 2, 3}
  SeqNumbers = 8
INVARIANTS
  PartsTypeOK DefaultGivenBack DisplayGivenBack AdmittedByOwnHandshake DisplayHasOwner
  KeysUpAfterReset OneObjectPerName UserSettingRecoverable RequestHandledWhole
  ClientCanRecover ClicksLandWhereSent
PROPERTIES
  IndexKeepsDisplay NoLostReference SeenInOrder
\* Each part stops where its inputs are bounded.
CHECK_DEADLOCK FALSE
VIEW PartsView
