SPECIFICATION Spec
CONSTANTS
    s1 = s1
    s2 = s2
    s3 = s3
    NoUser = NoUser
    Session <- TwoSessions
    User <- TwoSessions
    UserOf <- OwnUser
    Name = {"db"}
    Failures = {}
    MaxFaults = 0
PROPERTIES ProtectedWhileOpen
