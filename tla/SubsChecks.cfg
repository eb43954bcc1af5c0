\* Two subscriptions, two heads, two pending-tx events, a one-slot channel.
CONSTANTS
    s1 = s1
    s2 = s2
    Subs <- MCSubs
    MaxHead = 1
    MaxTx = 2
    BROADCAST_CAP = 1
SPECIFICATION Spec
INVARIANT PendingNoSilentLoss
INVARIANT AbortPrompt
PROPERTY HeadsCatchUp
