SPECIFICATION Spec
CONSTANTS
    None = None
    usual = usual  without = without  amid = amid
    Asked <- MCAsked
INVARIANT TypeOK
INVARIANT SamplesInTheirSecond
INVARIANT LinesBreakAtGaps
INVARIANT ValuesInPlace
INVARIANT LongerMeansLarger
INVARIANT LegendAgreesWithSlots
