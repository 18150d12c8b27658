-------------------------- MODULE ConversationQueue --------------------------
(***************************************************************************)
(* What the run control plane promises, seen from a conversation: its runs *)
(* wait in order of arrival, one at a time occupies the conversation, a    *)
(* run being cancelled can only become CANCELLED, and an outcome is final. *)
(* (README.md: the run state machine, "one run per conversation, FIFO".)   *)
(***************************************************************************)
EXTENDS Naturals

CONSTANTS Runs, Conversations, ConvOf, Outcomes

VARIABLES
  phase,     \* where each run is, or its outcome
  arrived,   \* order of arrival, 0 before
  clock      \* the next arrival

vars == <<phase, arrived, clock>>

OCCUPIED == {"serving", "paused", "cancelling"}

Init ==
  /\ phase = [r \in Runs |-> "new"]
  /\ arrived = [r \in Runs |-> 0]
  /\ clock = 1

Move(r, from, to) ==
  /\ phase[r] \in from
  /\ phase' = [phase EXCEPT ![r] = to]
  /\ UNCHANGED <<arrived, clock>>

Arrive(r) ==
  /\ phase[r] = "new"
  /\ phase' = [phase EXCEPT ![r] = "waiting"]
  /\ arrived' = [arrived EXCEPT ![r] = clock]
  /\ clock' = clock + 1

\* The conversation is free and nobody in it has waited longer.
Serve(r) ==
  /\ \A q \in Runs \ {r} : ConvOf[q] = ConvOf[r] =>
       /\ phase[q] \notin OCCUPIED
       /\ phase[q] = "waiting" => arrived[r] < arrived[q]
  /\ Move(r, {"waiting"}, "serving")

Withdraw(r) == Move(r, {"waiting"}, "CANCELLED")
Pause(r)    == Move(r, {"serving"}, "paused")
Continue(r) == Move(r, {"paused"}, "serving")
Stop(r)     == Move(r, {"serving"}, "cancelling")
Stopped(r)  == Move(r, {"cancelling"}, "CANCELLED")
Finish(r)   == \E o \in Outcomes : Move(r, {"serving", "paused"}, o)

Next ==
  \E r \in Runs :
    \/ Arrive(r)
    \/ Serve(r)
    \/ Withdraw(r)
    \/ Pause(r)
    \/ Continue(r)
    \/ Stop(r)
    \/ Stopped(r)
    \/ Finish(r)

Spec == Init /\ [][Next]_vars
=============================================================================
