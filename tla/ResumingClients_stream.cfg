SPECIFICATION FairClientsSpec
CONSTANTS
  s1 = s1
  Streams <- OneStream
  Subjects <- MCSubjects
  SubjectOf <- OneSubjectOf
  FrameBuffer = 2
  MaxStreams = 1
  MaxPerSubject = 1
  MaxEvents = 5
  Floor = 1
INVARIANTS
  ProducerJoined
  EmptyCloseIsTerminal
  BufferedFramesDelivered
  ResetStandsAlone
PROPERTIES
  FeedKept
  QuietAfterClosing
  StreamReturns
