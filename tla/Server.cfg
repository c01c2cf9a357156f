\* Two requests, one of which reads inside its transaction, two connections, a
\* channel of one place and two workers.
SPECIFICATION ServerSpec
CONSTANTS
  withdraw = withdraw
  create = create
  Events = {withdraw, create}
  Nested = {create}
  MaxOpen = 2
  Kind <- MCKind
  Recipients <- MCRecipients
  Workers = {w1, w2}
  BufferSize = 1
  MaxRetries = 2
INVARIANTS ServerTypeOK BoundedCopies StopDrains MailsAnnounceCommits
PROPERTIES ImplementsDelivery RequestsAreServed
CHECK_DEADLOCK FALSE
