SPECIFICATION Spec
CONSTANTS
  k1 = k1
  k2 = k2
  Calls = {k1, k2}
  Denied = {}
  SessionLimit = 3
INVARIANT NoSpuriousDenial
SYMMETRY Swaps
