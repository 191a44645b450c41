\* Two senders; a controller and the web page patch in any order.
CONSTANTS
    s1 = s1
    s2 = s2
    Senders <- MCSenders
    LegsOn <- MCLegsOn
    Pasted <- MCPasted
    Text <- MCText
    Groups = {"239.0.0.9"}
    Null = Null
SPECIFICATION Spec
INVARIANTS
    ReceiverFollowsActive
    SubscriptionBumped
    ReceivesDescribed
