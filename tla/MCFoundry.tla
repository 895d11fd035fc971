----------------------------- MODULE MCFoundry -----------------------------
(* Instances of Foundry for TLC.                                           *)
EXTENDS FoundryClaims

\* An empty directory, for a project of its own.
EmptyDirectory ==
    { [ manifest |-> "missing", request |-> FALSE, occupied |-> FALSE,
        scaffold |-> "none", audit |-> "" ] }
\* A repository of somebody else's, with no manifest, a broken or a valid one.
Repositories ==
    { [ manifest |-> m, request |-> FALSE, occupied |-> TRUE,
        scaffold |-> "none", audit |-> "" ] : m \in Layouts \cup { "missing", "invalid" } }

AnyDirectory == EmptyDirectory \cup Repositories
=============================================================================
