SPECIFICATION AppSpec
CONSTANTS
  WarningsBeforeTermination = 2
  Slots <- MCSlots
  FaceStatuses = {"multiple_faces", "no_face"}
  Streak = 2
  Workloads <- MCInterviewWorkloads
  Closings = {"completed"}
  MaxInFlight = 2
  MaxPresses = 2
  MaxLost = 1
  Grants = {"g1", "g2"}
  PackConfig <- MCPacks
  MaxLeft = 1
  Stored = {1}
  MaxTurns = 2
  Models = {"basic", "pro"}
  ChatWorkloads <- MCChatWorkloads
  Providers = {"github"}
  MaxTokens = 2
  SessionWorkloads <- MCSessionWorkloads
  Users = {"a", "b"}
  ShopPacks = {"p1"}
  MaxPurchases = 2
  MaxSignOuts = 1
  BillingWorkloads <- MCBillingWorkloads
INVARIANTS
  AppTypesOK
  SessionFitsPack
  DeafRoomIsLeft
  OneAtATime
  ScreenIsOneConversation
  FinishedIsAccounted
  StorageCatchesUp
PROPERTY
  ScreensSettle
CHECK_DEADLOCK FALSE
