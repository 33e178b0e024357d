\* NICK by a member of a channel.
CONSTANTS
  c1 = c1  c2 = c2  n1 = n1  n2 = n2  n3 = n3
  Client = {c1, c2}
  Nick = {n1, n2, n3}
  Chan = {ch1}
  Key = {}
  Topics = {NoTopic}
  Limits = {}
  NoClient = NoClient
  NoNick = NoNick
  NoKey = NoKey
  NoTopic = NoTopic
  Claims <- TwoNicksForFirst
  Commands <- CommandsRename
  Modes = {}
  CallsThatFail = {}
  KEVENT_OBSERVE_MAX = 1
SPECIFICATION Spec
INVARIANTS ListedUnderOwnName
