\* A 1:1 chat or a group, two syncs, a failing statement and a kill.
\* In the scene of the chat nothing reconnects, and the plugin comes to rest.
SPECIFICATION SceneSpec
CONSTANTS
    m1 = m1
    m2 = m2
    g1 = g1
    c1 = c1
    GroupEvents = 2
    Groups = {g1}
    Contacts = {c1}
    Msgs = {m1, m2}
    Names = {n1, n2}
    Bodies = {b1}
    Syncs = {s1, s2}
    ChatOf <- MCChatOf
    Blank = Blank
    NoRow = NoRow
    MaxEvents = 3
    MaxFaults = 1
    MaxKills = 1
    Lag = 2
CHECK_DEADLOCK FALSE
INVARIANTS
    TypeOK
    MessagesSettled
    ContactsSettled
    GroupsSettled
PROPERTIES
    GroupsConverge
