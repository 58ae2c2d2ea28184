\* Four clients, enough to fill the buffer of the main loop, and one descriptor
\* less than they can use up.  At the end main waits for a client, or has exited.
CONSTANTS
    pub1 = pub1
    man1 = man1
    man2 = man2
    sub1 = sub1
    Nobody = Nobody
    Registrar = {pub1, man1}
    Lister = {man2}
    Subscriber = {sub1}
    MaxFds = 7
SPECIFICATION FairSpec
CHECK_DEADLOCK FALSE
INVARIANTS
    TypeOK
    TurnsAreCaused
PROPERTIES
    ChannelSpec
    LonelyRequestIsServed
