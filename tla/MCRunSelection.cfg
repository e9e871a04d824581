SPECIFICATION Spec
CONSTANTS
    one = one  other = other  later = later  goes = goes  newer = newer
    slower = slower  slow = slow  slowOther = slowOther  goesOther = goesOther  flat = flat  race = race
    FamilyOf <- MCFamilyOf
    StackOf <- MCStackOf
    Configs <- MCConfigs
    Inputs <- MCInputs
INVARIANT TypeOK
INVARIANT OrderNeverMatters
INVARIANT EveryRowCounted
INVARIANT OnlyComparablePooled
