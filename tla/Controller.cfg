SPECIFICATION Spec
CONSTANTS
  Launch = {l1, l2}
  Nobody = Nobody
  MaxSwings = 3
  MaxFaults = 1
PROPERTIES NeverStranded RequestHeeded DaemonFound
\* every process may have ended
CHECK_DEADLOCK FALSE
