\* Monitoring rows in two bands: breach, climb, quiet past the cooldown, breach again,
\* on two pods, with one fault.
SPECIFICATION Spec
CONSTANTS
  p1 = p1
  p2 = p2
  Pods <- MCPods
  NBands = 2
  Resets = TRUE
  Cooldown = 1
  MaxMoves = 2
  MaxFaults = 1
SYMMETRY MCSymmetry
INVARIANTS AlertedOnce LedgerInv
PROPERTIES ImplementsIncident
