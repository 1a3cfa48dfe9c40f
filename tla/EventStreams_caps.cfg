SPECIFICATION Spec
CONSTANTS
  s1 = s1
  s2 = s2
  Streams <- TwoStreams
  Subjects <- MCSubjects
  SubjectOf <- SameSubjectOf
  FrameBuffer = 1
  MaxStreams = 0
  MaxPerSubject = 1
  MaxEvents = 2
  Floor = 0
SYMMETRY SlotSymmetry
INVARIANTS
  SlotsAccounted
  ControlStreamsWithinCaps
