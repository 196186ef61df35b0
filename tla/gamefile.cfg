\* Two writers, three files, failures at each step and crashes.
CONSTANTS
    Writers = {w1, w2}
    States = {s1, s2}
    Absent = Absent
    Torn = Torn
    MaxFiles = 3
SPECIFICATION Spec
INVARIANTS
    TypeOK
    ErrorLeavesNoTrace
PROPERTIES
    IsRegister
