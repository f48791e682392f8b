--------------------------- MODULE CommandStatus ---------------------------
(***************************************************************************)
(* The status record of one durable local command: its nine states, the    *)
(* transition table and the one function that may replace a published      *)
(* status (application/src/command.rs, CommandJournal::transition).        *)
(* Pure operators, shared by the modules that keep a command journal.      *)
(***************************************************************************)
EXTENDS CommandIds

CONSTANTS
    Receipts,    \* stable receipts a command may publish
    Reasons      \* nonempty rejection or failure reasons

ASSUME NoneAssumption == None \notin Receipts /\ None \notin Reasons

CommandStates ==
    {"received", "validated", "accepted", "running", "waiting_for_device",
     "completed", "rejected", "failed", "cancelled"}

Terminal(state) == state \in {"completed", "rejected", "failed", "cancelled"}

MayTransitionTo(state, next) ==
    \/ next = state
    \/ state = "received" /\ next \in {"validated", "rejected", "failed"}
    \/ state = "validated" /\ next \in {"accepted", "rejected", "failed"}
    \/ state = "accepted"
        /\ next \in {"running", "completed", "rejected", "failed", "cancelled"}
    \/ state = "running"
        /\ next \in {"waiting_for_device", "completed", "failed", "cancelled"}
    \/ state = "waiting_for_device"
        /\ next \in {"running", "completed", "failed", "cancelled"}

Statuses ==
    [state : CommandStates, receipt : Receipts \cup {None},
     reason : Reasons \cup {None}]

InitialStatus == [state |-> "received", receipt |-> None, reason |-> None]

\* What a transition would publish: an earlier receipt is kept, a new reason
\* replaces an earlier one.
NextStatus(status, next, receipt, reason) ==
    [state   |-> next,
     receipt |-> IF status.receipt # None THEN status.receipt ELSE receipt,
     reason  |-> IF reason # None THEN reason ELSE status.reason]

\* Mutant: a command may complete without a receipt.
TransitionAllowedUnreceipted(status, next, receipt, reason) ==
    LET candidate == NextStatus(status, next, receipt, reason)
    IN  /\ MayTransitionTo(status.state, next)
        /\ status.receipt # None /\ receipt # None => receipt = status.receipt
        /\ next = "rejected" => candidate.reason # None
        /\ next = status.state => candidate = status

\* The transitions that do not end in JournalError. Publishing the current
\* state again is accepted only when it changes nothing.
TransitionAllowed(status, next, receipt, reason) ==
    LET candidate == NextStatus(status, next, receipt, reason)
    IN  /\ MayTransitionTo(status.state, next)
        /\ status.receipt # None /\ receipt # None => receipt = status.receipt
        /\ next = "completed" => candidate.receipt # None
        /\ next = "rejected" => candidate.reason # None
        /\ next = status.state => candidate = status

=============================================================================
