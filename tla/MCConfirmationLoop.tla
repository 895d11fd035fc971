------------------------- MODULE MCConfirmationLoop -------------------------
(***************************************************************************)
(* Instances of ConfirmationLoop for TLC.                                   *)
(***************************************************************************)
EXTENDS ConfirmationLoop

MCDecisions == { "approve", "request_revision", "send_back" }
MCOutcome == [approve |-> "accepted", request_revision |-> "proposed", send_back |-> "pending"]
MCNeedsInstruction == { "request_revision" }
MCTerminal == { "accepted" }
=============================================================================
