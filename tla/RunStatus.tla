------------------------------ MODULE RunStatus ------------------------------
(***************************************************************************)
(* The life-cycle states of an agent run and the two sets the control      *)
(* plane's guards are written with (domain/enums/RunStatus.java).          *)
(***************************************************************************)

TERMINAL == {"CANCELLED", "SUCCEEDED", "PARTIAL_SUCCESS", "FAILED", "TIMED_OUT"}

\* States a run holds its permits in and is expected to make progress.
ACTIVE == {"STARTING", "RUNNING", "WAITING_LLM", "WAITING_TOOL",
           "PAUSING", "RESUMING", "CANCELLING"}

Status == ACTIVE \cup TERMINAL \cup {"QUEUED", "PAUSED"}

\* The states in which a run occupies its conversation.
OCCUPYING == ACTIVE \cup {"PAUSED"}

isTerminal(s) == s \in TERMINAL
isActive(s) == s \in ACTIVE
=============================================================================
