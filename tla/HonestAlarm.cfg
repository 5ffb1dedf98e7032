SPECIFICATION Spec
CONSTANTS
    laptop = laptop
    phone = phone
    l1 = l1
    l2 = l2
    ph1 = ph1
    Users = {u1, u2}
    Nobody = Nobody
    Browsers = {laptop, phone}
    Calls = {l1, l2, ph1}
    Caller <- CallerOf
    MaxTokens = 3
    MaxTroubles = 1
    MaxExpiries = 1
INVARIANT NoFalseAlarm
SYMMETRY Symmetry
CHECK_DEADLOCK FALSE
