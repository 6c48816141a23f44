\* Two processes in any two modes on each driver, DynamoDB with and without an endpoint, one fault.
SPECIFICATION FairSpec
CONSTANTS
    Processes = {p1, p2}
    NoProcess = NoProcess
    MaxFaults = 1
INVARIANTS TypeOK ServesPrepared ExitCodeTellsWhy
PROPERTIES StartsAreIndependent DrainsFirst StartsEnd StopsAfterSignal
