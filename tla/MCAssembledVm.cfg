CONSTANTS
    WordBits = 20
    Answers = {0, 7}
    MaxSteps = 5
    RamSize = 8
    Lines <- MCLines
    Sources <- MCSources
    RawCode <- MCRawCode
SPECIFICATION Spec
INVARIANTS VmInvariant
PROPERTIES RunsTheSource
CHECK_DEADLOCK FALSE
