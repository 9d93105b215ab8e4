SPECIFICATION USpec
CONSTANTS
    a1 = a1
    a2 = a2
    w1 = w1
    Addr = {a1, a2}
    Wsi = {w1}
    None = None
    Configured <- AllConfigured
    MaxClients = 3
    MaxCount = 1
    MaxReconnect = 0
    MaxAdds = 1
INVARIANT RemoveSurvives
CHECK_DEADLOCK FALSE
