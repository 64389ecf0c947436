\* Five streams of two addresses, or two streams and two posts.
CONSTANTS
    c1 = c1  c2 = c2  c3 = c3  c4 = c4  c5 = c5
    p1 = p1  p2 = p2
    home = home  away = away
    Streams = {c1, c2, c3, c4, c5}
    Posts = {p1, p2}
    Addresses = {home, away}
    AddressOf <- From
    Crowds <- Comings
    MaxSessions = 2
    Capacity = 1
    PerAddress = 2
    Minute = 2
    Crowded = 1
    Life = 1
SPECIFICATION Spec
SYMMETRY Symmetry
CHECK_DEADLOCK FALSE
INVARIANTS
    SessionsFollowStreams
    AnswersReachTheirStream
    StartsBounded
