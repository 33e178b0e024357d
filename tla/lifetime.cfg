\* No two clients ask for the same nickname, there is no channel, clients may quit, and
\* every peer reads what it is sent in the end.
CONSTANTS
  c1 = c1  c2 = c2  n1 = n1  n2 = n2  n3 = n3
  Client = {c1, c2}
  Nick = {n1, n2, n3}
  Chan = {}
  Key = {}
  Topics = {NoTopic}
  Limits = {}
  NoClient = NoClient
  NoNick = NoNick
  NoKey = NoKey
  NoTopic = NoTopic
  Claims <- TwoNicksForFirst
  Commands <- CommandsLifetime
  Modes = {}
  CallsThatFail = {"kevent"}
  KEVENT_OBSERVE_MAX = 2
SPECIFICATION ReadingSpec
INVARIANTS OpenClientIsHeld StopClosesSockets
PROPERTIES ImplementsDirectory DeferralEnds QuitCompletes
