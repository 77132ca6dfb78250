SPECIFICATION Spec
CONSTANTS
  target = target
  stop = stop
  replacement = replacement
  g1 = g1
  g2 = g2
  w1 = w1
  w2 = w2
  i1 = i1
  Nobody = Nobody
  Legs <- TwoBrackets
  Groups <- TwoGroups
  GroupOf <- InTwoGroups
  Workers <- TwoWorkers
  Instances <- OneInstance
CONSTRAINT BeforeTheFirstSlip
SYMMETRY Symmetric
INVARIANTS
  TypeOK
  
  
  
  NoBracketAbandoned
