CONSTANTS
    p1 = p1  p2 = p2  h1 = h1  h2 = h2  u1 = u1  u2 = u2  s1 = s1  s2 = s2
    None = None
    Publishers = {p1, p2}
    Users = {u1, u2}
    HlsOf <- HlsPlayer
    Shards = {s1, s2}
    PubShards = {s1}
    HlsEnabled = FALSE
    AutoStop = "all"
    Asserts = FALSE
SPECIFICATION Spec
SYMMETRY UserSymmetry
INVARIANTS
    TypeOK  RegisteredIffAlive SubscribedIffPlaying
    ShutdownReachesPlayers 
