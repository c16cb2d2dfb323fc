\* Packets shorter than, as long as and longer than the FIFO, responses longer than it.
CONSTANTS
  Depth = 3
  BufferSize = 4
  Timeout = 2
  Lengths = {1, 3, 4}
  Response = 4
  Hosts = {"steady", "halting"}
SPECIFICATION Spec
INVARIANTS TypeOK WholePackets SilentReadLasts
PROPERTIES CallsReturn
