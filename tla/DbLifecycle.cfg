SPECIFICATION Spec
CONSTANTS
    s1 = s1
    s2 = s2
    s3 = s3
    NoUser = NoUser
    Session <- ThreeSessions
    User <- ThreeSessions
    UserOf <- OwnUser
    Name = {"db"}
    Failures <- Failure
    MaxFaults = 1
SYMMETRY Symmetry
INVARIANTS TypeOK EraserAlone RegistrationsKept
PROPERTIES RegisteredNotErased
