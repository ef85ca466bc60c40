\* Are the roots shown those of the account shown?
SPECIFICATION Spec
CONSTANTS
    max = max
    vic = vic
    s1 = s1
    s2 = s2
    s3 = s3
    None = None
    Account <- MCAccount
    RoleOf <- MCRoleOf
    Session <- MCSession
    MaxLoads = 2
INVARIANTS
    YourFiles
\* Nobody has to do anything more.
CHECK_DEADLOCK FALSE
