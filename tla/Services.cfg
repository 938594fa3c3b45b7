SPECIFICATION ServicesSpec
CONSTANTS
  Sock = {"s1", "s2", "s3"}
  NoSock = "none"
  MaxReconnects = 2
  LateQr = FALSE
  Call = {"c1", "c2"}
  Stubborn = FALSE
  Chain = {"first", "second"}
  HookJob = {1, 2}
  Local = {"late"}
  Priority <- HandlerPriority
  MaxLists = 2
  Message = {1, 2}
  StoreJob = {"j1", "j2"}
  Limit = 1
  InOrder = TRUE
  MaxClock = 2
  Session = {"s1"}
  Lid = {"l1", "l2"}
  Phone = {"p1", "p2"}
  None = "none"
  MaxWrites = 1
  Request = {"r1", "r2"}
  Admin = {"a1"}
  MaxUses = 2
  MaxTime = 2
  CallRequest = {"r1"}
  Person = {"a", "b", "c"}
  Lang = {"en", "es", "fr"}
  NoLang = "none"
  TrJob = {"j1", "j2"}
  Threshold = 2
  MaxMessages = 2
  PageMessage = {"m1"}
  Peer = {"p1", "p2"}
  Self = "me"
  NoChat = "none"
  MaxExtra = 1
  MaxConfig = 2
  MaxAsks = 1
  File = {"f1", "f2"}
  Unsafe = {"u"}
  Huge = {"h"}
  MaxEntries = 2
  Conn = {"h1"}
  Secret = {"x"}
  Path = {"p1"}
  MaxTouched = 2
  Profile = {"postgres"}
  RestartRequest = {"r1", "r2"}
  MaxStarts = 2
  MaxHealthChecks = 2
  DataSession = {"s1", "s2", "s3"}
  DataWebhook = {"w1"}
  OwnerOf <- WebhookOwner
  NameOf <- SessionName
  MaxDbWrites = 2
  CacheCall = {"c1", "c2"}
  CacheObject = {"r1", "r2"}
  NoClient = "null"
  CacheAttempts = 2
  NamedSession = {"s1", "s2"}
  Template = {"t1", "t2"}
  RowName = {"n1", "n2"}
  RowCall = {"c1", "c2"}
  NoName = "none"
  Chat = {"c1", "c2"}
  ChatMessage = {"m1"}
  HistoryLoad = {"l1"}
  NoChatOpen = "noChat"
  MaxChatEvents = 2
  PageSession = {"s1", "s2"}
  NoSelection = "none"
  SocketAttempts = 2
  MaxQueue = 4
  MaxChecks = 2
  Sid = {"a", "b"}
  NoSid = "none"
  PageCall = {"c1", "c2"}
  QrFetch = {1, 2}
  LatePoll = FALSE
  MaxTurns = 2
  MaxEvents = 1
INVARIANTS
  ServicesTypeOK HooksRun SocketsAccounted HistoryAgreesWithFilters NeverCountedTwice
  LastIsNewest ReportsAreTrue PageAgrees InstallationHolds
PROPERTIES
  BaileysIsEngine WebJsIsEngine StepsKeep
CHECK_DEADLOCK FALSE
