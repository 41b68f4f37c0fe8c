SPECIFICATION MCSpec
CONSTANTS
    Sids = {s1, s2, s3}
    Devices = {d1, d2}
    Ips = {a1, a2}
    Headers = {d1, d2, None}
    Addresses = {a1, a2, None}
    MaxSecret = 2
    Reqs = {q1, q2}
    Ops = {"login", "login_2fa", "two_fa_setup", "two_fa_enable", "logout", "use", "revoke_session"}
    Faults = TRUE
    None = None
SYMMETRY SidDeviceSymmetry
INVARIANTS
    SecondFactorProved
    EnabledSecretVerifiedSerially
    OneOfAKindPerDeviceSerially
    StolenSessionsRevokedUnlessTorn
    OneDevicePerSessionSerially
PROPERTIES
    DeletedStaysDeleted
