\* A route whose plugin chain cannot be built.
CONSTANTS
    r1 = r1
    r2 = r2
    Request = {r1, r2}
    Scenarios <- Skipping
    Unparsable <- Parse
    Text <- Strings
    LowerOf <- ASCII
    Nil = Nil
SPECIFICATION Spec
INVARIANT SkippedNotServed
CHECK_DEADLOCK FALSE
