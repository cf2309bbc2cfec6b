CONSTANTS
  R = R
  A = A
  B = B
  C = C
  o1 = o1
  o2 = o2
  Roots = {R}
  Children = {A, B, C}
  Parent <- ParentInChain
  Ops = {o1, o2}
  Setups <- DrainedChainTelling
SPECIFICATION Spec
INVARIANTS
  TreeHolds
PROPERTIES
  TreeSettles
