CONSTANTS
    tcp1 = tcp1  tcp2 = tcp2
    p1 = p1  p2 = p2  p3 = p3
    h1 = h1  h2 = h2
    a1 = a1  a2 = a2
    ip1 = ip1  ip2 = ip2
    None = None
    Config <- TwoListeners
    Udp = {tcp1}
    Ips = {ip1}
    Addrs = {a1}
    Pids = {p1}
    Hashes = {h1}
    MaxWorkers = 1
    MaxPerClient = 2
    MaxQueue = 1
    MaxFaults = 1
    MaxBroken = 1
SPECIFICATION FairSpec
PROPERTY Answered
CHECK_DEADLOCK FALSE
