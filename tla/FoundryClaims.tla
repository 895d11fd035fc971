---------------------------- MODULE FoundryClaims ----------------------------
(***************************************************************************)
(* What the documents, prompts and guidance of the foundry say of a        *)
(* session, stated as they say it.  Each is violated by what the code does. *)
(***************************************************************************)
EXTENDS Foundry

\* The README: without a manifest the foundry refuses writes and produces a
\* curator request.  Once the curator has answered it, and the attachment has
\* been planned and its bodies accepted, nothing of the foundry's own making
\* stands in the way of the write: neither the author's request nor, as here,
\* the one that loading a missing manifest leaves.
RequestDoesNotBlockAttachment ==
    mode = "branch_write" /\ Attaching /\ transit = "bodies"
        /\ tree.manifest \in Valid /\ tree.scaffold = "none"
        /\ ~domain.request_lodged
    => NothingInTheWay

=============================================================================
