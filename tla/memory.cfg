\* Two clients and a channel that hold each other as in the server; three chunks of
\* three slots.
CONSTANTS
  k1 = k1  k2 = k2  ch = ch
  client1 = client1  client2 = client2  channel1 = channel1  channel2 = channel2
  channels1 = channels1  channels2 = channels2
  clients1 = clients1  clients2 = clients2  mChannels = mChannels
  Object = {k1, k2, ch}
  NoObject = NoObject
  SharedSlot = {client1, client2, channel1, channel2, channels1, channels2}
  WeakSlot = {clients1, clients2, mChannels}
  NoSlot = NoSlot
  Owner <- MCOwner
  Targets <- MCTargets
  CAPACITY = 3
  CHUNKS_MAX = 3
SPECIFICATION MemorySpec
INVARIANTS MemoryTypeOK CountsExact NoDangling FreeListExact
PROPERTIES ImplementsLifetime GrowsWhenFull ImplementsAllocator
CHECK_DEADLOCK FALSE
