CONSTANTS
    human = human  s1 = s1  p1 = p1  p2 = p2  p3 = p3  p4 = p4
    Sends = {p1, p2}
    Sessions = {s1}
    Author <- SendAuthor
    Tagged <- SendTagged
    Broadcasts = {}
    CardOnly = {}
    Keyed = {p1, p2}
    Quiet = {}
    MaxThreadMsgs = 2
    MaxTries = 2
    MaxRestarts = 2
    ThreadFaults = {"torn"}
    TornLine = TornLine
    GarbageLine = GarbageLine
    NoLine = NoLine
SPECIFICATION ThreadSpec
INVARIANT AcceptedSurvives
CHECK_DEADLOCK FALSE
