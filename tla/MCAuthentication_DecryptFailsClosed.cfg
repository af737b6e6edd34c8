\* The identity, network and cipher programs, each from its own initial state.
CONSTANTS
    c1 = c1
    c2 = c2
    s1 = s1
    s2 = s2
    s3 = s3
    cred = cred
    e1 = e1
    e2 = e2
    u1 = u1
    u2 = u2
    u3 = u3
    t1 = t1
    t2 = t2
    None = None
    Panic = Panic
    Err = Err
    NoKey = NoKey
    NoFile = NoFile
SPECIFICATION Spec
INVARIANT DecryptFailsClosed
CHECK_DEADLOCK FALSE
