SPECIFICATION Spec
CONSTANTS
    Secret = {s1, s2}
    Recovery = {r1}
    Mailed = {m1}
    Cap <- AllMethods
    Worker = {w1}
    Wrong = Wrong
    NoRow = NoRow
    NoSecret = NoSecret
    NoCode = NoCode
PROPERTY FreshSecretAfterDisable
