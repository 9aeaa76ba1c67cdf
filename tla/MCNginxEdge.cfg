CONSTANTS
    conn = conn
    listener = listener
    Conns = {conn, listener}
    Listeners = {listener}
    MaxEvents = 2
    MaxReuse <- MCMaxReuse
    MaxFaults = 1
SPECIFICATION Spec
INVARIANTS PendingExact NeverStranded
PROPERTIES NoStaleDispatch
