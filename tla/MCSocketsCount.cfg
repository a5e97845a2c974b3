SPECIFICATION Spec
CONSTANTS
    t1 = t1
    t2 = t2
    s1 = s1
    s2 = s2
    s3 = s3
    f1 = f1
    f2 = f2
    f3 = f3
    None = None
    Tasks <- MCTasks
    Socks <- MCSocks
    Fds <- MCFds
    Limits <- MCLimits
    MaxCreates = 2
SYMMETRY Symmetry
INVARIANT CountIsOpen
