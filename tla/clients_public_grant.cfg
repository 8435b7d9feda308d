SPECIFICATION Spec
CONSTANTS
    Client = {c1}
    Secret = {s1, s2}
    Worker = {w1}
    Cap = 1
    None = None
INVARIANT PublicGetsNoServiceToken
