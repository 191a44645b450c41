\* A connection by a controller, then one from the web page.
CONSTANTS
    s1 = s1
    s2 = s2
    Senders <- MCSenders
    LegsOn <- MCLegsOn
    Pasted <- MCPasted
    Text <- MCText
    Groups = {"239.0.0.9"}
    Null = Null
SPECIFICATION Spec
INVARIANT SubscriptionIsReceived
