SPECIFICATION Spec
CONSTANTS
  a = a
  b = b
  c = c
  p1 = p1
  p2 = p2
  m1 = m1
  m2 = m2
  Row = {a, b, c}
  MemberOf <- Members
  PlanOf <- Plans
  Group = {{p1, p2}}
  Method = {"stripe", "cash"}
  Req = {q1, q2}
  Slow = {q1, q2}
  Mutation = {1, 2}
  MaxFault = 1
  Held = {{a, c}, {b, c}}
  Source <- Sources
  Doomed = {p2}
  MaxAsk = 2
INVARIANTS TypeOK QuantityFollowsRows DeletedPlanStaysEmpty
PROPERTIES PaidAdditionLands
CHECK_DEADLOCK FALSE
SYMMETRY Perms
