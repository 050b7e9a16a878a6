SPECIFICATION Spec
CONSTANTS
    Request = {q1, q2}
    Token = {t1, t2}
    Assertion = {a1}
    Package = {pkg, other}
    None = None
    MaxSetups = 2
    Code = {c1, c2}
SYMMETRY Symmetric
INVARIANTS TypeOK SecondFactorIsSound TokensAreBound
CHECK_DEADLOCK FALSE
