\* Two servers go from key 0 to key 1 and on to key 2, one by one or together.
SPECIFICATION Spec
CONSTANTS
    k0 = k0
    k1 = k1
    k2 = k2
    Secrets = {k0, k1, k2}
    NoSecret = NoSecret
    NoVersion = NoVersion
    Second = 2
    MaxAge = 6
    MaxFuture = 4
    Servers = {s1, s2}
    Clients = {c1}
    LastVersion = 2
    SecretOf <- MCSecretOf
    MaxSkew = 1
    Start = 8
    LegacyTimes = {1, 3, 6, 7, 8}
    MaxClock = 24
    NoCookie = NoCookie
INVARIANTS TypeOK SessionsSurviveRotation NoneOutlivesMaxAge
