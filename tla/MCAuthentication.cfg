\* The identity, network and cipher programs, each from its own initial state.
CONSTANTS
    c1 = c1
    c2 = c2
    s1 = s1
    s2 = s2
    s3 = s3
    cred = cred
    e1 = e1
    e2 = e2
    u1 = u1
    u2 = u2
    u3 = u3
    t1 = t1
    t2 = t2
    None = None
    Panic = Panic
    Err = Err
    NoKey = NoKey
    NoFile = NoFile
SPECIFICATION FairSpec
INVARIANT AuthTypeOK
INVARIANT ValidatedTokenBackedByCredential
INVARIANT SessionTypeOK
INVARIANT UserDirectoryTypeOK
INVARIANT AccountTypeOK
INVARIANT EchoTypeOK
INVARIANT ExchangeOrdered
PROPERTY MainTerminates
INVARIANT KeysTypeOK
INVARIANT DerivedKeysRotatable
INVARIANT DecryptWithSameKeyRoundTrips
INVARIANT AesTypeOK
INVARIANT AesRoundTrip
INVARIANT MessageTypeOK
INVARIANT MessageRoundTrip
INVARIANT HexTypeOK
INVARIANT HexDecodesToKey
INVARIANT StreamTypeOK
INVARIANT EchoesWhatWasSent
PROPERTY StreamEnds
INVARIANT TcpTypeOK
\* A panic ends a program, and a program that returned takes no step.
CHECK_DEADLOCK FALSE
