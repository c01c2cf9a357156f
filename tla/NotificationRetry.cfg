\* One approved leave, one recipient, one worker.
SPECIFICATION FairSpec
CONSTANTS
  approval = approval
  Events = {approval}
  Kind <- MCKind
  Recipients <- MCRecipients
  Workers = {w1}
  BufferSize = 1
  MaxRetries = 2
INVARIANTS FailuresAreRetried
CHECK_DEADLOCK FALSE
