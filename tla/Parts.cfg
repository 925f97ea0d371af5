SPECIFICATION Spec
CONSTANTS
  p1 = p1
  p2 = p2
  p3 = p3
  n1 = n1
  n2 = n2
  mic = mic
  headset = headset
  monitor = monitor
  Everyone = Everyone
  Dummy = Dummy
  Dash = Dash
  NoName = NoName
  NoLink = NoLink
  NoKey = NoKey
  NoResponse = NoResponse
  Pending = Pending
  NoValue = NoValue
INVARIANTS EndsAgree    LinksAnswerTheirHolders
CHECK_DEADLOCK FALSE
