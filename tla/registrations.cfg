\* Three clients and batches of up to four events.
CONSTANTS
  Client = {c1, c2, c3}
  NoClient = NoClient
  KEVENT_OBSERVE_MAX = 4
SYMMETRY ClientSymmetry
SPECIFICATION Spec
INVARIANTS TypeOK ReadWatched ReadEventOwner NoFalseError
PROPERTIES LostByRemoval
