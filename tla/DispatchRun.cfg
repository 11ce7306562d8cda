\* Two runs of two backends with a slot each compete for one global slot;
\* generations of workers take over from each other.
CONSTANTS
  Runs = {r1, r2}
  Workers = {w1, w2}
  Backends = {alpha, beta}
  Slots = {sa, sb, sg}
  Global = global
  None = none
  BackendOf <- RunPerBackend
  ScopeOf <- SlotPerScope
SPECIFICATION Spec
INVARIANTS
    BackendsHold
PROPERTIES
    RunLifecycleHolds
    RunsEnd
CHECK_DEADLOCK FALSE
