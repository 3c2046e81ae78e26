\* An agent, a command and the proxy over two starts of the process.
SPECIFICATION FairSpec
CONSTANTS
    Agents = {agent}
    Commands = {command}
    Proxies = {proxy}
    None = None
    MaxSessions = 4
    MaxStarts = 2
INVARIANTS
    SessionsAreReturned
PROPERTIES
    CleanExitCutsNothing
    StoppingEnds
CHECK_DEADLOCK FALSE
