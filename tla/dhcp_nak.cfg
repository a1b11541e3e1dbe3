SPECIFICATION Spec
CONSTANTS
    google = google
    Clients = {"c1", "c2"}
    Askers = {"c1", "c2"}
    Names = {google}
    Builtin = {google}
    Updates <- MCUpdates
    MaxUpdates = 1
    First = 100
    Limit = 102
    HostSets <- MCHostSets
    query = google
INVARIANT ClientsSurviveNak
