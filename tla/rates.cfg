SPECIFICATION Spec

CONSTANTS
  h1 = h1
  h2 = h2
  vcpu = vcpu
  floor = floor
  low = low
  high = high
  top = top
  Handlers = {h1, h2}
  Columns = {vcpu, floor}
  Values = {low, high, top}
  Default = low
  NoCard = NoCard
  MaxRequests = 3

INVARIANTS
  TypeOK
  UnracedUpdateIsInForce
  NoRateUnasked

CHECK_DEADLOCK FALSE
