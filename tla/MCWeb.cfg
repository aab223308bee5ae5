SPECIFICATION WebSpec
CONSTANTS
  WarningsBeforeTermination = 2
  Slots <- MCSlots
  CameraTypes = {"multiple_faces"}
  WindowTypes = {"tab_blur"}
  Workloads <- MCRoomWorkloads
  Openings <- MCOpenings
  Closings = {"completed"}
  MaxInFlight = 2
  MaxLost = 1
  Grants = {"g1", "g2"}
  PackConfig <- MCPacks
  ShopPacks = {"p1", "p2"}
  MAX_POLL_ATTEMPTS = 2
  InterviewWorkloads <- MCInterviewWorkloads
  Stored = {1}
  MaxTurns = 3
  Mentions = {"x", "y"}
  Models = {"basic", "pro"}
  Locked = {"pro"}
  ChatWorkloads <- MCChatWorkloads
  Problems <- MCProblems
  PracticeWorkloads <- MCPracticeWorkloads
  Sections = {"learn"}
  SessionWorkloads <- MCSessionWorkloads
  CodePacks <- MCCodePacks
  MaxConfirms = 2
  MaxPrices = 2
  BillingWorkloads <- MCBillingWorkloads
  Catalogue <- MCCatalogue
  PromptSteps = {"s"}
  MaxPopups = 2
  ConnectorWorkloads <- MCConnectorWorkloads
  Users = {"u1", "u2", "u3"}
  Hosts = {"host"}
  MinSize = 1
  MaxSize = 2
  Cap = 3
  MaxTries = 2
  ContestInFlight = 3
  ContestWorkloads <- MCContestWorkloads
INVARIANTS
  WebTypeOK
  OneAtATime
  MediaReleased
  PausedInterviewIsShown
  RequestsFit
  ShownIsStored
  TeamsFit
PROPERTIES
  PagesSettle
  RoomSettles
CHECK_DEADLOCK FALSE
