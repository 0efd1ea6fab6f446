\* Three messages through a mailbox of two with batches of one.
SPECIFICATION MailSpec
CONSTANTS
  MaxMessages = 3
  Capacity = 2
  BatchLimit = 1
INVARIANTS
  MailSafety
PROPERTIES
  MailInOrder
  MailWakesFinished
