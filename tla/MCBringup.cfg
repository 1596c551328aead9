SPECIFICATION UpSpec
CHECK_DEADLOCK FALSE
CONSTANTS
    Binds = {1, 2}
    PathIds = {1, 2}
    Supported = {"gsi", "ztn", "unix"}
    Askable = {"gsi", "ztn"}
    Token = "ztn"
    Sites <- LoginsAndJoins
    MaxRounds = 2
    Addresses = {"a1", "a2", "b1"}
    Family <- MCFamily
    Hosts <- MCHosts
    Budget = 4
    Stagger = 2
    Delay = 1
INVARIANTS LinksProper LadderRight NothingLeaks DialRight
PROPERTIES EveryConnectEnds
