\* Two messages of up to three octets, a timeout of two units of time.
CONSTANTS
  Radix = 2
  Message <- MCMessage
  HeaderSize = 2
  IoTimeout = 2
  MaxSent = 2
SPECIFICATION FairSpec
INVARIANTS HeldBounded
PROPERTIES ImplementsChannel TakenOrGivenUp
\* Readers that gave up do nothing more.
CHECK_DEADLOCK FALSE
