----------------------------- MODULE CommandIds -----------------------------
(***************************************************************************)
(* The command identifiers that the companion service, the application     *)
(* service and its journal share, and the value for what is absent.        *)
(***************************************************************************)

CONSTANTS
    None,        \* absent record, receipt, reason, device or mailbox
    Commands     \* command identifiers

=============================================================================
