\* The history payload replays a message whose revoke has been handled.
SPECIFICATION SceneSpec
CONSTANTS
    m1 = m1
    m2 = m2
    g1 = g1
    c1 = c1
    GroupEvents = 1
    Groups = {g1}
    Contacts = {c1}
    Msgs = {m1, m2}
    Names = {n1}
    Bodies = {b1}
    Syncs = {s1}
    ChatOf <- MCChatOf
    Blank = Blank
    NoRow = NoRow
    MaxEvents = 1
    MaxFaults = 0
    MaxKills = 0
    Lag = 0
CHECK_DEADLOCK FALSE
INVARIANTS
    RevokedStaysHidden
