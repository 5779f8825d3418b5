\* Files of every kind; one or two requests where the file is accepted.
CONSTANTS
    r1 = r1
    r2 = r2
    Request = {r1, r2}
    Scenarios <- Every
    Text <- Strings
    LowerOf <- ASCII
    Unparsable <- Parse
    Nil = Nil
SPECIFICATION Spec
INVARIANTS
    ConfigSound
    RoutedRight
    EnforcedInOrder
    AnswerIsOwn
    OwnRequestID
    StrictServes
\* A refused file ends the program, and every request is sent once.
CHECK_DEADLOCK FALSE
