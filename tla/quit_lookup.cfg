\* A client that quits with messages pending is looked up by its nickname.
CONSTANTS
  c1 = c1  c2 = c2  n1 = n1  n2 = n2  n3 = n3
  Client = {c1, c2}
  Nick = {n1, n2}
  Chan = {}
  Key = {}
  Topics = {NoTopic}
  Limits = {}
  NoClient = NoClient
  NoNick = NoNick
  NoKey = NoKey
  NoTopic = NoTopic
  Claims <- OneNickEach
  Commands <- CommandsQuit
  Modes = {}
  CallsThatFail = {}
  KEVENT_OBSERVE_MAX = 1
SPECIFICATION Spec
INVARIANTS QuittingClientIsHeld
