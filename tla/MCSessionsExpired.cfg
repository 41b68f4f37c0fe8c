SPECIFICATION MCSpec
CONSTANTS
    Sids = {s1, s2}
    Devices = {d1, d2}
    Ips = {a1}
    Headers = {d1}
    Addresses = {a1}
    MaxSecret = 1
    Reqs = {q1}
    Ops = {"login", "login_2fa", "two_fa_setup", "two_fa_enable", "logout", "use", "revoke_session"}
    Faults = FALSE
    None = None
SYMMETRY SidDeviceSymmetry
PROPERTIES
    ExpiredPendingRejected
