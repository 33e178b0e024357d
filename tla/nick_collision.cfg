\* A client that disconnects before it is registered under a nickname another
\* client has registered meanwhile.
CONSTANTS
  c1 = c1  c2 = c2  n1 = n1  n2 = n2  n3 = n3
  Client = {c1, c2}
  Nick = {n1}
  Chan = {}
  Key = {}
  Topics = {NoTopic}
  Limits = {}
  NoClient = NoClient
  NoNick = NoNick
  NoKey = NoKey
  NoTopic = NoTopic
  Claims <- AnyClaims
  Commands <- Registering
  Modes = {}
  CallsThatFail = {}
  KEVENT_OBSERVE_MAX = 1
SPECIFICATION Spec
INVARIANTS OpenClientIsHeld
