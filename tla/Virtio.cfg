CONSTANTS
  Procs = {p1, p2, p3}
  NoProc = NoProc
  NUM = 7
  Wrap = 7
SPECIFICATION FairSpec
INVARIANTS DescriptorsBalance CompletionIsAnnounced
PROPERTIES RequestsAreServed RequestsEnd
