---------------------------- MODULE MCLiveDrive ----------------------------
(***************************************************************************)
(* Instances of LiveDrive for TLC.                                          *)
(***************************************************************************)
EXTENDS LiveDrive

EveryRunner == { {}, { "confirmation" }, { "delegation" }, { "upload" }, { "extraction" },
                 { "export" }, { "keyed" }, { "confirmation", "delegation" }, { "keyed", "upload" } }
FewRunners == { {}, { "confirmation" }, { "export" }, { "keyed", "upload" } }
OneField == { { "a1" }, { "a2" } }
ReviseFirst == << "request_revision" >>
=============================================================================
