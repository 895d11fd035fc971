CONSTANTS
    Layouts = { "layout_1", "layout_2" }
    Targets <- AnyDirectory
    Requests = { TRUE, FALSE }
    Curated = TRUE
    Restarts = TRUE
    GuardViews = { "written", "settled" }
SPECIFICATION Spec
INVARIANTS
    GraduationIsEarned
    WrittenIsWhatWasApproved
    ApprovalIsTheLastWord
    DesignIsAnswered
