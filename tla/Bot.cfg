\* Two updates, two events and one end of the process: a stats file that is torn and
\* then read at the restart, polls that are dropped and arrive late.
SPECIFICATION FairSpec
CONSTANTS
    Groups = {g1}
    Profits = {5, 30}
    None = None
    Kinds = {"report"}
    EventKinds = {"buy_failed_count"}
    MaxUpdates = 2
    MaxEvents = 2
    MaxCrashes = 1
    Torn = Torn
INVARIANTS
    TypeOK
    OncePerLife
    StatsAreOfHistory
PROPERTIES
    IsDelivery
    UpdatesAreHandled
    EventsAreTaken
