CONSTANTS
    N = 3
    Msgs = {m1, m2, m3, m4, m5}
    Consumers = {k1, k2, k3}
    Unset = Unset
SPECIFICATION FairSpec
INVARIANTS RingConsistent AwakeEnough
PROPERTIES ImplementsQueue EveryMessageTaken
