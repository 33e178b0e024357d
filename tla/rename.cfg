\* Two clients that register, rename themselves, look each other up and quit under two
\* nicknames, in a channel with a limit; batches of two events, system calls may fail.
CONSTANTS
  c1 = c1  c2 = c2  n1 = n1  n2 = n2  n3 = n3
  Client = {c1, c2}
  Nick = {n1, n2}
  Chan = {ch1}
  Key = {}
  Topics = {NoTopic}
  Limits = {1}
  NoClient = NoClient
  NoNick = NoNick
  NoKey = NoKey
  NoTopic = NoTopic
  Claims <- AnyClaims
  Commands <- CommandsRename
  Modes = {"l"}
  CallsThatFail = {"close", "kevent"}
  KEVENT_OBSERVE_MAX = 2
SPECIFICATION Spec
INVARIANTS NickLookup UnregisteredListed DeferredRelease 
PROPERTIES  ExpiredIsFinal
