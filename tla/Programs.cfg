CONSTANTS
    NoInput = NoInput
    MaxArray = 4
    ThreadCount = 3
SPECIFICATION Spec
INVARIANTS AlgorithmsSound LanguagesSound ArithmeticSound HashesSound MachinesSound
PROPERTY LastJoins
CHECK_DEADLOCK FALSE
