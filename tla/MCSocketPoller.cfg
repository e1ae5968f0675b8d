\* Three environments: one without surprises but for connect, one in which
\* anything else happens, and one in which everything does.
SPECIFICATION FairSpec
CONSTANTS
    Coro = {c1, c2}
    Socket = {s1, s2}
    Listener = {s2}
    MaxOps = 4
    MaxEvents = 2
    None = None
    HazardSets = {{"immediate"}, {"spurious", "refused"},
                  {"spurious", "immediate", "refused", "shared"}}
INVARIANTS
    NoLostRequest
    ResultDelivered
    EventsLive
    RegistrationFresh
PROPERTIES
    ReadyIsServed
