SPECIFICATION FairSpec
CONSTANTS
    f1 = f1
    f2 = f2
    f3 = f3
    k1 = k1
    k2 = k2
    k3 = k3
    m1 = m1
    m2 = m2
    NoSubscription = NoSubscription
    NoMessage = NoMessage
    Configurations <- SomeConfigurations
    Activations <- ThreeActivations
    Subscriptions <- ThreeSubscriptions
    Messages <- TwoMessages
    Broken <- OneBroken
    Calls = "in turn"
    Hides = TRUE
    MaxFaults = 1
INVARIANTS
    TypeOK
    AckedIsAnswered
    OnceUnlessFault
PROPERTIES
    Served
    Quiesces
