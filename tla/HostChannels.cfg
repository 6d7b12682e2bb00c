CONSTANTS
    Host = {h0, h1, h2}
    Earlier = {h0}
    Pid = {p1, p2}
    Launch = {l1}
    Nil = Nil
SPECIFICATION FairSpec
CHECK_DEADLOCK FALSE
INVARIANTS ChannelsTypeOK ChannelsStand BridgesFollow LeftoversSwept
PROPERTY ChannelsGo
