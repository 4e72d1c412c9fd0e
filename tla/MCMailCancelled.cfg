SPECIFICATION Spec
CONSTANTS
  m1 = m1
  note = note
  letter = letter
  b1 = b1
  b2 = b2
  Confirmation = Confirmation
  None = None
  Mailboxes <- OneMailbox
  Campaigns <- NoteOnly
  Publication <- NoteOnly
  Bindings <- OneBinding
  MaxEnrollments = 1
  MaxEvents = 2
INVARIANT CancellationDrains
CHECK_DEADLOCK FALSE
