SPECIFICATION FairSpec
\* The call returns and the program ends.
CHECK_DEADLOCK FALSE
INVARIANTS
    ContextInScope
    HonestReturn
PROPERTIES
    CallReturns
