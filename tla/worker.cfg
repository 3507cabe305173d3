\* Deadlock: the system is at rest when supervision has ended.
SPECIFICATION MCSpec
CONSTANTS
    MaxFrames = 2
    Faults = {"stray"}
INVARIANTS
    NoMessageRefused ResultIsTrue PortableResultIsTrue SettledIsOver PostmasterIsSpared
PROPERTIES
    WorkersEnd
CHECK_DEADLOCK FALSE
