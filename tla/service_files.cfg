SPECIFICATION Spec
CONSTANTS
    short = short
    long = long
    junk = junk
    s1 = s1
    s2 = s2
    tab1 = tab1
    tab2 = tab2
    Tab = {tab1, tab2}
    Text = {short, long, junk}
    Size <- SmallSize
    Valid = {short, long}
    Shipped = long
    Mixed = mixed
    NoText = none
    Seed = {s1, s2}
    EmptySeed = emptySeed
SYMMETRY ServiceSymmetry
INVARIANTS
    TypeOK
    OneIdentity
    FileIsLastSave
    UnloadableOnlyIfTorn
