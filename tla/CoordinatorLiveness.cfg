SPECIFICATION LiveSpec
CONSTANTS
    Runs <- MCRuns
    Tickets <- MCTickets
    TicketOf <- MCTicketOf
    Modes = {"watch", "once", "hosted"}
    MaxConcurrency = 1
    MaxRestarts = 1
PROPERTIES AssignedRunsStart SignalsEndTheProcess HostedWorkerEnds
