SPECIFICATION MapTrieSpec
CONSTANTS
    k1 = k1
    k2 = k2
    k3 = k3
    k4 = k4
    Keys = {k1, k2, k3}
    HashOf <- HashesOf
    Tokens = {1}
    MaxMaps = 4
    MaxWrites = 4
CHECK_DEADLOCK FALSE
INVARIANT
    NeverWritten
