SPECIFICATION Spec
CONSTANTS
  m1 = m1
  note = note
  letter = letter
  b1 = b1
  b2 = b2
  Confirmation = Confirmation
  None = None
  Mailboxes <- OneMailbox
  Campaigns <- NoteOnly
  Publication <- NoteOnly
  Bindings <- TwoBindings
  MaxEnrollments = 2
  MaxEvents = 2
INVARIANTS
  TypeOK
  LiveConsent
PROPERTIES
  KeepsPromise
  
CHECK_DEADLOCK FALSE
