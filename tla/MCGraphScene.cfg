CONSTANTS
  Graphs <- MCGraphs
  Null = Null
  Generic = {}
  Touched <- MCTouched
  MaxParticles = 1
  MaxFlight = 2
  MaxReceived = 3
  MaxClicks = 2
SPECIFICATION Spec
INVARIANTS SceneFollowsPage
PROPERTIES ParticlesBounded LinesHonest NothingStaysHidden
CHECK_DEADLOCK FALSE
