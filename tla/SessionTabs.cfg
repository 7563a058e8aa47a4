\* Two users in two tabs of one browser, one call in flight when another is
\* started; two seconds, so that tokens expire and differ; one event.  Neither
\* the users nor the tabs differ.
CONSTANTS
    Users = {u1, u2}
    Passwords = {p1}
    Tabs = {t1, t2}
    None = none
    FirstAccount <- Administrator
    MaxConns = 1
    MaxSeconds = 1
    MaxCalls = 1
    MaxEvents = 1
SPECIFICATION Spec
INVARIANTS TokenIsOfSavedMe
SYMMETRY UsersAndTabs
CHECK_DEADLOCK FALSE
