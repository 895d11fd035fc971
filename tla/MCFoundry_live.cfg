CONSTANTS
    Layouts = { "layout_1" }
    Targets <- AnyDirectory
    Requests = { FALSE }
    Curated = FALSE
    Restarts = FALSE
    GuardViews = { "settled" }
SPECIFICATION LiveSpec
INVARIANT AuditTellsTheTruth
PROPERTIES
    ApprovedPlanGraduates
    Climbs
