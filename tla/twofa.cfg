SPECIFICATION Spec
CONSTANTS
    Secret = {s1, s2}
    Recovery = {r1, r2}
    Mailed = {m1}
    Cap <- AllMethods
    Worker = {w1, w2}
    Wrong = Wrong
    NoRow = NoRow
    NoSecret = NoSecret
    NoCode = NoCode
SYMMETRY Symmetry
INVARIANTS
    TypeOK
    RecoverySingleUse
    EnrolmentProven
    MailCodeSpent
PROPERTY
    EnrolmentEnds
