SPECIFICATION Spec
CONSTANTS
    Clients = {c1, c2, c3}
    NoClient = NoClient
    Switches = {s1}
    Actions = {}
    Supervisor = Supervisor
    StaleDrop = StaleDrop
    StandbyDrop = StandbyDrop
    MaxOrphans = 1
SYMMETRY Symmetry
INVARIANTS SingleFlight
