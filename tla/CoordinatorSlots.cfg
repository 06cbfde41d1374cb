SPECIFICATION Spec
CONSTANTS
    Runs <- MCRuns
    Tickets <- MCTickets
    TicketOf <- MCTicketOf
    Modes = {"watch", "hosted"}
    MaxConcurrency = 2
    MaxRestarts = 1
PROPERTIES SlotsSpec OnlyFailedCallsAbandon
