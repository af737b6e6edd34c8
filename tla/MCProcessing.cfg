\* The data-processing and utility programs: every property that holds.
CONSTANTS
    k1 = k1
    k2 = k2
    k3 = k3
    s1 = s1
    s2 = s2
    d1 = d1
    d2 = d2
    v1 = v1
    v2 = v2
    dst1 = dst1
    dst2 = dst2
    gw1 = gw1
    gw2 = gw2
    eth0 = eth0
    NaN = NaN
    None = None
    Panic = Panic
    Err = Err
    Missing = Missing
    NoEq = NoEq
    Empty = Empty
    on = on
    Absent = Absent
    Garbled = Garbled
    w1 = w1
    w2 = w2
    m1 = m1
    l1 = l1
    l2 = l2
    l3 = l3
    c1 = c1
    c2 = c2
SPECIFICATION Spec
INVARIANT ArithTypeOK
INVARIANT ParityCorrect
INVARIANT StatsTypeOK
INVARIANT StatisticsMatchDefinitions
INVARIANT PipelineTypeOK
INVARIANT AppliesTransformationsInForce
INVARIANT RoutesTypeOK
INVARIANT LookupsFollowHistory
INVARIANT StorageTypeOK
INVARIANT FilesArePrefixesOfWrites
INVARIANT SettingsTypeOK
INVARIANT FileReflectsSettings
INVARIANT ConfigTypeOK
INVARIANT ReadReturnsLastSaved
INVARIANT LogTypeOK
INVARIANT KeepsEveryWritersPieces
\* A panic ends the arith, stats, logging and chart programs: no step follows it.
CHECK_DEADLOCK FALSE
