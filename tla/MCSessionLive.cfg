SPECIFICATION LiveSpec
CONSTANTS
    Clients = {c1, c2}
    NoClient = NoClient
    Switches = {s1}
    Actions = {}
    Supervisor = Supervisor
    StaleDrop = StaleDrop
    StandbyDrop = StandbyDrop
    MaxOrphans = 0
PROPERTIES Reconnects TeardownsEnd WedgedLinkDropped ConnectCallsReturn
