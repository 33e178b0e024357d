\* A removal swaps EV_ADD and EV_DELETE of another client.
CONSTANTS
  Client = {c1, c2, c3}
  NoClient = NoClient
  KEVENT_OBSERVE_MAX = 3
SYMMETRY ClientSymmetry
SPECIFICATION Spec
INVARIANTS WriteWatched
