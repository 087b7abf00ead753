SPECIFICATION Spec
CONSTANTS
  Terms = {"liquidity", "capital", "hedging", "duration"}
  Sections <- AllSections
  HashOrders <- Orders
INVARIANTS
  NothingAskedTwice
  ConceptCapped
  NoConceptForgotten
  ThinIsMarkedOrShared
  EveryFormulaAsked
CHECK_DEADLOCK FALSE
