SPECIFICATION Spec
CONSTANT Connections = {c1, c2}
INVARIANTS
  PeerErrorsReturn
