\* Two requests at a time: sign-ups, logins, logouts, and callbacks of two identities
\* for two mailboxes, with restarts that bring in an allowlist or drop it.
SPECIFICATION Spec
CONSTANTS
    m1 = m1
    m2 = m2
    i1 = i1
    i2 = i2
    Mailboxes = {m1, m2}
    NoMailbox = NoMailbox
    Allowlists = {{}, {m1}}
    Identities = {i1, i2}
    NoIdentity = NoIdentity
    Vouches <- MCVouches
    Requests = {q1, q2}
    Leavers = {m2}
    MaxEpoch = 2
SYMMETRY AccountsSymmetry
INVARIANTS
    AccountsInv
    LogoutIsFinal
    LinkIsVouched
PROPERTIES
    AllowlistEnforced
    ImplementsSessions
CHECK_DEADLOCK FALSE
