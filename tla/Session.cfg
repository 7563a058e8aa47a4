\* One user in one tab, who may have two calls in flight and change the password
\* meanwhile; one connection to lose; one event: an edit of the account, a
\* failure or a restart.
CONSTANTS
    Users = {u1}
    Passwords = {p1, p2}
    Tabs = {t1}
    None = none
    FirstAccount <- Administrator
    MaxConns = 1
    MaxSeconds = 0
    MaxCalls = 2
    MaxEvents = 1
SPECIFICATION FairSpec
INVARIANTS TypeOK OldPasswordsAreOut
PROPERTIES PasswordChangeSignsOut LoginEnds
CHECK_DEADLOCK FALSE
