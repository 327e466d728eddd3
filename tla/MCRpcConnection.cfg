SPECIFICATION Spec
CONSTANTS
  Outgoing = {f1, f2}
  Stoppers = {s1}
  BodyLen <- MCBodyLen
  Undecodable = {2}
  MaxFrameLength = 2
  Starts = 2
INVARIANTS WireInOrder NeverStalls FramesReassembled
CHECK_DEADLOCK FALSE
