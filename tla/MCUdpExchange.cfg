\* Two queries at a time, every scenario, two ports and two addresses.
CONSTANTS
  h1 = h1
  h2 = h2
  Handler = {h1, h2}
  Id = {1, 2}
  Port = {8001, 8002}
  MaxAddresses = 2
SPECIFICATION FairSpec
INVARIANTS ReplyMatches StimulusOnly AllTried
PROPERTIES HandlersEnd
\* Handlers end.
CHECK_DEADLOCK FALSE
