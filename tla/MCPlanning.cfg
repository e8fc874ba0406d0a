CONSTANTS
  none = none
  o1 = o1
  o2 = o2
  None = none
  Number <- MCNumber
  Substring <- MCSubstring
  Rules <- MCRules
  Captures <- MCCaptures
  Operators = {o1, o2}
  Texts <- MCTexts
  Unobserved <- MCUnobserved
  Linked = FALSE
  Production = FALSE
  MaxRequests = 2
  MaxTwins = 2
  MaxRuns = 1
SYMMETRY MCSymmetry
SPECIFICATION PlanningSpec
CHECK_DEADLOCK FALSE
INVARIANTS
  GeneratedFixesTargets
  RenderedFixesTargets
  VerifiedIsObserved
