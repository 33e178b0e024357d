\* Two clients whose peers send up to 5 times in all and may close; READ is ignored at 3
\* blocks, processing is forced above 2 entries, and kevent() returns all that is ready.
CONSTANTS
  Client = {c1, c2}
  NUM_CLIENT_MSGBLOCK_RECV_IGNORE_THRESHOLD = 3
  pendingMsgWarningThreshold = 2
  KEVENT_OBSERVE_MAX = 4
  SENT_MAX = 5
  PeersClose = TRUE
SPECIFICATION FairSpec
INVARIANTS TypeOK UnscannedIsQueued QueueBounded
PROPERTIES PendingProcessed  InputIsRead
CHECK_DEADLOCK FALSE
