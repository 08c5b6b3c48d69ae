CONSTANTS
    m1 = m1
    m2 = m2
    m3 = m3
    m4 = m4
    Daemons = {m1, m2, m3, m4}
    IntLimit = 4
    typeOf <- MCTypeOf
SPECIFICATION Spec
INVARIANT GettersAgree
