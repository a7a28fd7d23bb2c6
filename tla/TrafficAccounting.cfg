SPECIFICATION Spec
CONSTANTS
    Users = {u1, u2}
    MaxBytes = 3
INVARIANTS
    TypeOK
    NeverOverbilled
    ExactWhileCoreLives
    BillingInv
SYMMETRY Symmetry
CHECK_DEADLOCK FALSE
