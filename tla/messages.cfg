\* Blocks of 4 bytes and streams of up to 9, with READ ignored at 3 blocks; messages of up
\* to 8 characters; MODE commands of up to 4 letters and 2 arguments; two messages, each
\* sent to up to two receivers.
CONSTANTS
  MESSAGE_LEN_MAX = 4
  NUM_CLIENT_MSGBLOCK_RECV_IGNORE_THRESHOLD = 3
  STREAM_MAX = 9
  Char = {" ", ":", "x"}
  MSG_LEN_MAX = 8
  Self = Self
  Other = Other
  Number = Number
  Letters = {"o", "i", "t", "k", "l", "x"}
  LETTERS_MAX = 4
  ARGUMENTS_MAX = 2
  Client = {c1, c2}
  Text <- AllTexts
  RECEIVERS_MAX = 2
  MESSAGES_MAX = 2
SYMMETRY ClientSymmetry
SPECIFICATION MessagesSpec
INVARIANTS
  MessagesTypeOK CursorIsExact CompleteOrStalled ShortMessagesAreSafe ParsedAsGrammar
  SequenceOfSingles WireIsQueue FramedAsSent
 
CHECK_DEADLOCK FALSE
