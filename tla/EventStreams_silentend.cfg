SPECIFICATION Spec
CONSTANTS
  s1 = s1
  s2 = s2
  Streams <- OneStream
  Subjects <- MCSubjects
  SubjectOf <- OneSubjectOf
  FrameBuffer = 2
  MaxStreams = 1
  MaxPerSubject = 1
  MaxEvents = 2
  Floor = 0
INVARIANT
  SilentEndDelivers
