SPECIFICATION Spec
CONSTANTS
    Clients = {c1, c2, c3}
    NoClient = NoClient
    Switches = {s1}
    Actions = {a1}
    Supervisor = Supervisor
    StaleDrop = StaleDrop
    StandbyDrop = StandbyDrop
    MaxOrphans = 0
SYMMETRY Symmetry
INVARIANTS TypeOK SingleLink StandbyHoldsNoLink
