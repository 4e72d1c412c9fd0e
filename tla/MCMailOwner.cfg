SPECIFICATION Spec
CONSTANTS
  m1 = m1
  note = note
  letter = letter
  b1 = b1
  b2 = b2
  Confirmation = Confirmation
  None = None
  Mailboxes <- OneMailbox
  Campaigns <- Both
  Publication <- NoteOnly
  Bindings <- TwoBindings
  MaxEnrollments = 1
  MaxEvents = 2
INVARIANT TotalsHold
CHECK_DEADLOCK FALSE
