CONSTANTS
    NoInput = NoInput
    MaxArray = 4
    ThreadCount = 1
SPECIFICATION Spec
INVARIANT AssertedProduct
CHECK_DEADLOCK FALSE
