CONSTANTS
    Layouts = { "layout_1" }
    Targets <- Repositories
    Requests = { FALSE }
    Curated = TRUE
    Restarts = FALSE
    GuardViews = { "settled" }
SPECIFICATION Spec
INVARIANT RequestDoesNotBlockAttachment
