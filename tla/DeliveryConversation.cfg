SPECIFICATION FairSpec
CONSTANTS
  a = a
  b = b
  Agents = {a, b}
  Msgs = {m1, m2}
  From <- MCFrom
  To <- MCTo
  ClientCap = 1
  MaxFaults <- MCFaults
INVARIANTS TypeOK AccountedFor
PROPERTIES ImplementsConversation EventuallyConfirmed
CHECK_DEADLOCK FALSE
