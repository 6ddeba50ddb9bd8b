------------------------------ MODULE EndToEnd ------------------------------
(***************************************************************************)
(* One authentication on the Linux host: the PAM module of PamShim runs    *)
(* the helper of Helper as its child, over a forwarded socket and against  *)
(* an agent.  The processes share the monotonic clock; the shim's signals  *)
(* end the helper at whatever step it is, and the helper's exit is the     *)
(* status that the shim collects.  The program that authenticates, with    *)
(* the shim in it, may itself be killed and leave the helper behind.       *)
(***************************************************************************)
EXTENDS PamShim

CONSTANTS
  HelperTimeouts, Skew, ResponseMs, MaxMs, Decisions, HelperFaults,
  LinuxBase, MacBase, MaxWallSteps, MaxAnswers   \* as in Helper

ASSUME ChildAssumption ==
  /\ HelperTimeouts \subseteq Nat
  /\ {Skew, ResponseMs, MaxMs, LinuxBase, MacBase, MaxWallSteps, MaxAnswers} \subseteq Nat
  /\ ResponseMs > 0
  /\ HelperFaults \subseteq {"transport", "disk", "kill"}
  /\ Decisions \subseteq {"approved", "denied", "unavailable", "cancelled", "failed"}

VARIABLES
  caller,    \* the authenticating program: "alive" or "killed"
  wall, wallSteps, hpc, htimeout, created, expires, deadline, hnow, got, scan,
  exit, line, requested, answers, markers, written, used    \* as in Helper

H == INSTANCE Helper WITH
  Helper <- {1}, Timeouts <- HelperTimeouts, Faults <- HelperFaults,
  ReplayCache <- "on", MaxUptime <- MaxTime, LastStart <- MaxTime,
  uptime <- now, pc <- hpc, timeout <- htimeout, now <- hnow

shim == <<host, pc, timeout, child, status, polls, code, did>>
helper == <<wall, wallSteps, hpc, htimeout, created, expires, deadline, hnow, got,
            scan, exit, line, requested, answers, markers, written, used>>
system == <<shim, now, helper, caller>>

SystemInit == Init /\ H!Init /\ caller = "alive"

Alive == caller = "alive" /\ UNCHANGED caller

\* What the shim does; SIGKILL also ends the helper.
Signals == IF pc = "kill" /\ child = "running" THEN H!Killed(1) ELSE UNCHANGED helper
ShimSteps == Alive /\ Shim /\ Signals
ShimFails == Alive /\ Faults /\ Signals
Reaps == Alive /\ HostReap /\ UNCHANGED helper

\* SIGKILL to the authenticating program does not reach its child.
CallerKilled == caller = "alive" /\ pc # "done" /\ caller' = "killed" /\ UNCHANGED <<shim, now, helper>>

\* The child runs: a step of run_request, whose exit is the child's.
Runs == child = "running" /\ H!Step(1) /\ exit'[1] = H!Running /\ UNCHANGED shim
Ends == H!Step(1) /\ HelperEnds /\ status' = exit'[1]
ChildSteps == (Runs \/ Ends) /\ UNCHANGED caller

\* A signal, of the shim or of somebody else, ends the helper at any step.
Dies == H!Killed(1) /\ HelperEnds /\ status' = Signalled /\ UNCHANGED caller

\* fexecve fails, or a step before it.
ExecFails ==
  /\ hpc[1] = "start" /\ H!Exit(1, Internal)
  /\ UNCHANGED <<wall, wallSteps, htimeout, created, expires, deadline, hnow, got,
                 scan, requested, answers, markers, written, used, caller>>
  /\ HelperEnds /\ status' = Internal

\* Agent and transport, and the wall clock being set.
Peers == (H!AgentAnswers(1) \/ H!LineCloses(1) \/ H!StepWall) /\ UNCHANGED <<shim, caller>>

Time == Tick /\ H!Tick /\ UNCHANGED caller

Over == (pc = "done" \/ (caller = "killed" /\ child # "running")) /\ UNCHANGED system

SystemNext ==
  \/ ShimSteps \/ ShimFails \/ Reaps \/ CallerKilled
  \/ ChildSteps \/ Dies \/ ExecFails \/ Peers \/ Time \/ Over

\* The shim runs and time passes.  The helper is sure to run only when it has
\* been left behind, where nobody else can end it.
Orphan == caller = "killed" /\ ChildSteps
SystemSpec ==
  /\ SystemInit /\ [][SystemNext]_system
  /\ WF_system(ShimSteps) /\ WF_system(Time) /\ WF_system(Orphan)

-----------------------------------------------------------------------------
(* Properties.                                                             *)

\* PAM_SUCCESS means that the agent signed an approval of this call's own
\* request, and that its marker is complete: a helper that was ended before it
\* had written the expiry leaves an empty marker, which no cleanup removes, but
\* never behind a success (record_replay_marker against the shim's signals).
SuccessMeansConsent ==
  Result = "PAM_SUCCESS" =>
    /\ got[1] \in answers /\ got[1].decision = "approved"
    /\ got[1] \in written

\* Whatever the shim, the clocks and the transport do, a response made for the
\* request is called tampering only for its age (Freshness: an expired request
\* comes first).
TamperMeansStale == H!TamperMeansStale

\* The call returns, however the helper behaves, even if it ignores SIGTERM,
\* unless the program that made it is killed.
CallReturns == <>(pc = "done" \/ caller = "killed")

\* A helper whose caller was killed, so that nobody will end it or read its status,
\* ends by itself, whatever agent, transport and user do (DeadlineStream; received
\* bytes do not renew the deadline).
OrphansEnd == caller = "killed" ~> child # "running"
=============================================================================
