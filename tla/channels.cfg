\* Two clients with one nickname each in one channel with every mode but +t.
CONSTANTS
  c1 = c1  c2 = c2  n1 = n1  n2 = n2  n3 = n3
  Client = {c1, c2}
  Nick = {n1, n2}
  Chan = {ch1}
  Key = {k1}
  Topics = {NoTopic}
  Limits = {1}
  NoClient = NoClient
  NoNick = NoNick
  NoKey = NoKey
  NoTopic = NoTopic
  Claims <- OneNickEach
  Commands <- CommandsMembership
  Modes = {"o", "i", "k", "l"}
  CallsThatFail = {}
  KEVENT_OBSERVE_MAX = 1
SYMMETRY PairSymmetry
SPECIFICATION Spec
INVARIANTS TypeOK ListedAreMembers
