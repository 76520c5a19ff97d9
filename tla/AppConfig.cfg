\* Two documents in place and two commits to come, so that all three kept files can
\* hold different generations; two lost copies and two failed steps.
CONSTANTS
  MaxDoc = 4
  MaxLost = 2
  MaxErr = 2
SPECIFICATION Spec
INVARIANTS TypeOK LoadedWasCommitted CopiesKept OneGenerationPerFault
PROPERTIES FailedCommitLeavesBoth ImplementsDocStore
