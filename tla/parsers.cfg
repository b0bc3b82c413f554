SPECIFICATION MCSpec
CONSTANTS
  Registered = {"http", "dns", "tls", "mysql", "postgres", "redis", "mongodb", "smtp", "ftp", "imap", "pop3", "mqtt", "websocket", "ssh", "unknown"}
  MaxParsers = 3
  PortSet = {9, 80, 443, 993}
  NoParser = NoParser
  HeaderSize = 1
  QuestionFixed = 1
  AnswerFixed = 2
  PrefSize = 1
  Pointer = 192
  AliasType = 2
  MxType = 1
  TxtType = 3
  Bytes = {0, 1, 2, 3, 192}
  MaxBytes = 6
  MaxCount = 1
  Framed = {"mysql", "postgres", "mongodb", "mqtt"}
  Header = 2
  MaxBody = 1
  MaxMessages = 3
  MaxValues = 3
  MaxCut = 4
  MaxInt = 8
  CodeSize = 2
  MaxText = 3
  MaxLines = 2
  Suites <- ClientSuites
  Groups <- ClientGroups
  GreaseValues = {2570, 64250}
  HostName <- ServerHost
  SessionIds <- Sessions
  ExtensionLists <- ClientLists
INVARIANTS FallbackLast BestConfidence NeverUnclaimed  NamesAsWritten WholeMessages TopLevelOnly OneEventPerLine HelloAsSent
PROPERTY Returns
CHECK_DEADLOCK FALSE
