\* A value that settles in the band or outside it, on two pods, after one fault.
SPECIFICATION Spec
CONSTANTS
  p1 = p1
  p2 = p2
  Pods <- MCPods
  NBands = 1
  Resets = TRUE
  Cooldown = 1
  MaxMoves = 2
  MaxFaults = 1
PROPERTIES BreachAlerted QuietRearms
