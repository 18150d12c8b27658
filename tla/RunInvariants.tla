--------------------------- MODULE RunInvariants ---------------------------
(***************************************************************************)
(* The inductive invariant behind ConversationSerial and                   *)
(* ServesConversations, as TLC checks it and as the proofs use it.         *)
(***************************************************************************)
EXTENDS RunLifecycle

\* A thread about to close a row has a terminal status to write.
ResultsTyped ==
  \A r \in Runs : result[r].pc = "terminal" => result[r].outcome \in TERMINAL

WatchdogTyped ==
  watchdog.pc # "idle" => watchdog.run \in Runs /\ watchdog.verdict \in TERMINAL

DispatchTyped ==
  \A d \in Dispatchers :
    disp[d].pc \in {"global", "conversation", "mark"} => disp[d].run \in Runs

Typed == TypeOK /\ ResultsTyped /\ WatchdogTyped /\ DispatchTyped

\* Whoever acts on a row other than by a CAS on QUEUED acts on a row that has
\* left the queue: a late answer never touches a waiting run.
Dispatched(r) == status[r] \notin {"ABSENT", "QUEUED"}

Busy(r) ==
  \/ start[r] # "idle" \/ finish[r] \/ result[r].pc # "idle" \/ pausing[r] # "idle"
  \/ resume[r].pc # "idle" \/ cancel[r] \in {"PAUSED", "CANCELLING"}
  \/ runtime[r] = "live" \/ posts[r] # None \/ r \in recovering
  \/ watchdog.pc # "idle" /\ watchdog.run = r

OnlyDispatched == \A r \in Runs : Busy(r) => Dispatched(r)

\* Only the permits of closed rows are still to be released.
FinishedIsTerminal == \A r \in Runs : finish[r] => isTerminal(status[r])

\* The run that occupies a conversation names the lease of its semaphore.
OccupantHoldsLease ==
  \A r \in Runs : status[r] \in OCCUPYING =>
    convPermit[r] # None /\ convHeld[ConvOf[r]] = convPermit[r]

\* So does a dispatcher that is about to mark a run, and no row knows its permit.
DispatcherHoldsLease ==
  \A d \in Dispatchers : disp[d].pc = "mark" =>
    /\ disp[d].c # None
    /\ convHeld[ConvOf[disp[d].run]] = disp[d].c
    /\ \A r \in Runs : convPermit[r] # disp[d].c
    /\ \A e \in Dispatchers \ {d} : disp[e].c # disp[d].c

OneRowPerPermit ==
  \A q, r \in Runs : q # r /\ convPermit[q] # None => convPermit[q] # convPermit[r]

Leased ==
  FinishedIsTerminal /\ OccupantHoldsLease /\ DispatcherHoldsLease /\ OneRowPerPermit

\* Rows are numbered in the order they were inserted ...
Numbered ==
  /\ \A r \in Runs : created[r] < now
  /\ \A q, r \in Runs :
       q # r /\ status[q] # "ABSENT" /\ status[r] # "ABSENT" => created[q] # created[r]

\* ... and what a dispatcher read at the head of a queue has stayed there.
HeadsStay ==
  \A d \in Dispatchers, r \in Runs :
    r \in disp[d].todo \/ (disp[d].pc \in {"global", "conversation", "mark"} /\ disp[d].run = r)
      => status[r] # "ABSENT" /\ EarlierQueued(r) = {}

Ordered == Numbered /\ HeadsStay

\* The whole of it; inductive when restarts do not outlast the leases.
RunInvariant == Typed /\ OnlyDispatched /\ Leased /\ Ordered

-----------------------------------------------------------------------------
(***************************************************************************)
(* The parts behind PermitsBacked and NoPermitLost; inductive with the     *)
(* above as long as no resume overtakes applyPausedResult (the finding of  *)
(* the run pause_permit) and no resume call fails.                         *)
(***************************************************************************)
ResumesAfterPause == \A r \in Runs : ResumeCas(r) => pausing[r] = "idle"

OrderlySpec == Spec /\ [][ResumesAfterPause]_vars

\* A dispatcher has a global permit from the moment it acquires one until it
\* hands it to a row or gives it back.
DispatchersEmpty ==
  \A d \in Dispatchers : disp[d].pc \in {"idle", "next", "global"} => disp[d].g = None

\* applyPausedResult acts on a row that stays inactive; when it comes to clear
\* the column, the permit named there has been released.
PausedThreads ==
  \A r \in Runs :
    /\ pausing[r] # "idle" => status[r] \in TERMINAL \cup {"PAUSED"}
    /\ pausing[r] = "clear" => globalPermit[r] \notin globalHeld

NoFailedResume == \A r \in Runs : resume[r].pc # "failed"

HandsKnown == DispatchersEmpty /\ PausedThreads /\ NoFailedResume

\* The threads with a permit of their own, which no row names yet.
Resuming == {r \in Runs : resume[r].pc = "acquired"}
InThreads ==
  {attaching[r] : r \in Runs} \cup {resume[r].g : r \in Resuming}
    \cup {disp[d].g : d \in Dispatchers}

\* Rows whose permit is in use or will still be released.
Releasing(r) == isActive(status[r]) \/ finish[r] \/ pausing[r] = "release"
InHands == {globalPermit[r] : r \in {q \in Runs : Releasing(q)}} \cup InThreads \cup releasing

\* The permits nobody will release: only their leases end them.
Lost == globalHeld \ InHands

\* The permits that threads and executing rows count on.
Counted == {globalPermit[r] : r \in {q \in Runs : isActive(status[q])}} \cup InThreads
Holds == Counted \ {None} \subseteq globalHeld

\* A permit is named by one row, or is in the hands of one thread.
Owners(p) ==
  {<<"row", r>> : r \in {q \in Runs : globalPermit[q] = p}}
    \cup {<<"attaching", r>> : r \in {q \in Runs : attaching[q] = p}}
    \cup {<<"resume", r>> : r \in {q \in Resuming : resume[q].g = p}}
    \cup {<<"dispatcher", d>> : d \in {e \in Dispatchers : disp[e].g = p}}
    \cup {<<"releasing", q>> : q \in releasing \cap {p}}

OneOwner == \A p \in Permits : \A h, k \in Owners(p) : h = k

PermitsAccounted == HandsKnown /\ Holds /\ OneOwner

-----------------------------------------------------------------------------
(***************************************************************************)
(* The parts behind PausedIsQuiescent; inductive when no start or resume   *)
(* call fails and no result is delivered twice.                            *)
(***************************************************************************)
\* No execution of the run, and no PAUSED result that could still reach its row.
Still(r) == runtime[r] # "live" /\ posts[r] # "PAUSED" /\ result[r].pc # "paused"

\* The row is paused, or on the way to an execution that is not accepted yet.
Waiting(r) == start[r] # "idle" \/ resume[r].pc = "calling" \/ status[r] = "PAUSED"

\* A run that waits is still; it waits for one thing at a time, an execution has
\* no result before it ends, and a PAUSED result is in one place.
Quiescent(r) ==
  /\ start[r] # "failed" /\ resume[r].pc # "failed"
  /\ Waiting(r) => Still(r)
  /\ start[r] # "idle" => resume[r].pc # "calling" /\ status[r] # "PAUSED"
  /\ resume[r].pc = "calling" => status[r] # "PAUSED"
  /\ runtime[r] = "live" => ~Posting(r)
  /\ result[r].pc = "paused" => posts[r] # "PAUSED"

QuiescentRuns == crashes = 0 => recovering = {} /\ \A r \in Runs : Quiescent(r)
=============================================================================
