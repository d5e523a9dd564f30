SPECIFICATION Spec
CONSTANTS
  u1 = u1
  s1 = s1
  Order = {o1, o2}
  NoOrder = NoOrder
  Ref = {r1, r2}
  NoRef = NoRef
  Hook = {h1, h2}
  Buyer <- OneBuyer
  Item <- OneStrategy
SYMMETRY Interchangeable
INVARIANTS
  AccessUntilExpiry
