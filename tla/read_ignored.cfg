\* A peer sends more than the blocks take.
CONSTANTS
  Client = {c1}
  NUM_CLIENT_MSGBLOCK_RECV_IGNORE_THRESHOLD = 3
  pendingMsgWarningThreshold = 3
  KEVENT_OBSERVE_MAX = 4
  SENT_MAX = 4
  PeersClose = FALSE
SPECIFICATION FairSpec
PROPERTIES AlwaysProcessed
CHECK_DEADLOCK FALSE
