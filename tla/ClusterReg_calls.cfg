CONSTANTS
  None = None
  Boot = boot
  Kubeconfigs = {k1, m1}
  MultiContext = {m1}
  Keys = {old, new}
  Calls = {p1, p2}
SPECIFICATION Spec
SYMMETRY Symmetry
INVARIANT TablesAgree
INVARIANT ProbedBeforeStored
