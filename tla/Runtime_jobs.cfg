\* Sweeps against backfills, an admin call, stops and crashes, over two
\* installations that come and go.
SPECIFICATION FairSpec
CONSTANTS
    Installs = {i1, i2}
    AdminCalls = {c1}
    Activations = {n1}
    Sweep = Sweep
INVARIANTS
    TypeOK
    OneJobPerInstallation
    DrainedBeforeClose
    NoFalseStall
PROPERTY
    ActiveIsServed
