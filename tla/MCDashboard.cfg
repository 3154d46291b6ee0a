CONSTANTS
    c1 = c1  c2 = c2  c3 = c3
    Clients = {c1, c2, c3}
    Sockets = {c1, c2}
    NoClient = NoClient
SPECIFICATION DashboardSpec
INVARIANTS OpenClientsAreListed OneLine
PROPERTIES EachDepartureCostsOneAtMost DeadConnectionsLeave
CHECK_DEADLOCK FALSE
