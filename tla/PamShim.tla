------------------------------ MODULE PamShim ------------------------------
(***************************************************************************)
(* The PAM module (pam/pam_macos_auth.c): pam_sm_authenticate validates    *)
(* its inputs, forks and executes the helper, waits for it with a timeout, *)
(* ends it by SIGTERM and then SIGKILL, and maps the outcome to a PAM      *)
(* result.  Actors: the shim, the helper process, the program that loaded  *)
(* the module (it may reap children itself), and time.                     *)
(***************************************************************************)
EXTENDS Naturals

CONSTANTS
  TimeoutArgs,      \* values of timeout_ms=; 0 also stands for a malformed one
  DefaultTimeout,   \* MACOS_AUTH_DEFAULT_TIMEOUT_MS
  MaxTimeout,       \* largest accepted value (600000 ms)
  GracePolls,       \* polls after SIGTERM (20)
  MaxTime           \* bound: last instant of the model

ASSUME ShimAssumption ==
  /\ TimeoutArgs \subseteq Nat /\ GracePolls \in Nat /\ MaxTime \in Nat
  /\ MaxTimeout \in Nat /\ DefaultTimeout \in 1..MaxTimeout

VARIABLES
  host,      \* the program that loaded the module: "plain", or "reaps" when it
             \* ignores SIGCHLD or waits for any child
  pc,        \* where the shim is
  timeout,   \* options.timeout_ms
  now,       \* monotonic time since start_ms
  child,     \* "none", "running", "zombie" or "gone" (reaped)
  status,    \* how the helper ended: an exit code, Signalled, or Pending
  polls,     \* i of the grace loop
  code,      \* what run_helper returns
  did        \* history: "termed" once SIGTERM was sent, "reaped" once the shim
             \* itself collected the status

vars == <<host, pc, timeout, now, child, status, polls, code, did>>

\* Exit codes (MACOS_AUTH_EXIT_*); Signalled is WIFSIGNALED.
Approved == 0
Unavailable == 10
Fallback == {10, 11, 12}
HardFail == {20, 30, 31, 32}
Internal == 127
Signalled == 999
Pending == 1000
ExitCodes == {Approved, Internal, 1} \cup Fallback \cup HardFail

\* map_exit_to_pam
MapExitToPam(c) ==
  CASE c = Approved -> "PAM_SUCCESS"
    [] c \in Fallback -> "PAM_AUTHINFO_UNAVAIL"
    [] OTHER -> "PAM_AUTH_ERR"

\* Mutant of ParseUint: zero is let through.
ParseUintZero(v) == IF v > MaxTimeout THEN DefaultTimeout ELSE v

\* parse_uint_option
ParseUint(v) == IF v = 0 \/ v > MaxTimeout THEN DefaultTimeout ELSE v

-----------------------------------------------------------------------------

Init ==
  /\ host \in {"plain", "reaps"}
  /\ pc = "start" /\ now = 0 /\ child = "none" /\ status = Pending
  /\ polls = 0 /\ code = Internal /\ did = {}
  /\ timeout \in {ParseUint(v) : v \in TimeoutArgs}

\* No user, too many arguments, an untrusted helper path, no monotonic clock,
\* or no process: PAM_AUTH_ERR, directly or as the mapping of 127.
Refuse ==
  /\ pc = "start"
  /\ pc' = "done"
  /\ UNCHANGED <<host, timeout, now, child, status, polls, code, did>>

Fork ==
  /\ pc = "start"
  /\ timeout # 0
  /\ child' = "running"
  /\ pc' = "poll"
  /\ UNCHANGED <<host, timeout, now, status, polls, code, did>>

\* waitpid(WNOHANG) returned the child: its status decides.
PollReaps ==
  /\ pc = "poll" /\ child = "zombie"
  /\ child' = "gone" /\ did' = did \cup {"reaped"}
  /\ code' = IF status = Signalled THEN Internal ELSE status
  /\ pc' = "done"
  /\ UNCHANGED <<host, timeout, now, status, polls>>

\* waitpid failed: ECHILD when somebody else reaped the child; any other error
\* kills and reaps it.
PollFails ==
  /\ pc = "poll"
  /\ code' = Internal
  /\ pc' = IF child = "gone" THEN "done" ELSE "kill"
  /\ UNCHANGED <<host, timeout, now, child, status, polls, did>>

\* waitpid returned 0.
PollEmpty ==
  /\ pc = "poll" /\ child = "running"
  /\ pc' = "clock"
  /\ UNCHANGED <<host, timeout, now, child, status, polls, code, did>>

\* Mutant of ClockFails: a clock failure is treated like a timeout.
ClockFailsSoft ==
  /\ pc = "clock"
  /\ code' = Unavailable
  /\ pc' = "kill"
  /\ UNCHANGED <<host, timeout, now, child, status, polls, did>>

ClockFails ==
  /\ pc = "clock"
  /\ code' = Internal
  /\ pc' = "kill"
  /\ UNCHANGED <<host, timeout, now, child, status, polls, did>>

\* Not yet: usleep and poll again.
Sleep ==
  /\ pc = "clock" /\ now < timeout
  /\ pc' = "poll"
  /\ UNCHANGED <<host, timeout, now, child, status, polls, code, did>>

\* Mutant of TimeOut: the timeout is never noticed.
TimeOutNever ==
  /\ pc = "clock" /\ now > timeout + MaxTime
  /\ pc' = "grace"
  /\ UNCHANGED <<host, timeout, now, child, status, polls, code, did>>

TimeOut ==
  /\ pc = "clock" /\ now >= timeout
  /\ did' = did \cup {"termed"}
  /\ pc' = "grace"
  /\ UNCHANGED <<host, timeout, now, child, status, polls, code>>

\* Mutant of GraceReaps: a status that arrives in the grace period is used.
GraceReapsUsed ==
  /\ pc = "grace" /\ polls < GracePolls /\ child = "zombie"
  /\ child' = "gone" /\ did' = did \cup {"reaped"}
  /\ code' = IF status = Signalled THEN Unavailable ELSE status
  /\ pc' = "done"
  /\ UNCHANGED <<host, timeout, now, status, polls>>

\* Mutant of GraceReaps: the loop goes on to SIGKILL after reaping.
GraceReapsGoesOn ==
  /\ pc = "grace" /\ polls < GracePolls /\ child = "zombie"
  /\ child' = "gone" /\ did' = did \cup {"reaped"}
  /\ code' = Unavailable
  /\ pc' = "kill"
  /\ UNCHANGED <<host, timeout, now, status, polls>>

\* The child went within the grace period; whatever its status, a timeout.
GraceReaps ==
  /\ pc = "grace" /\ polls < GracePolls /\ child = "zombie"
  /\ child' = "gone" /\ did' = did \cup {"reaped"}
  /\ code' = Unavailable
  /\ pc' = "done"
  /\ UNCHANGED <<host, timeout, now, status, polls>>

GraceGone ==
  /\ pc = "grace" /\ polls < GracePolls /\ child = "gone"
  /\ code' = Internal
  /\ pc' = "done"
  /\ UNCHANGED <<host, timeout, now, child, status, polls, did>>

\* waitpid returned 0, or failed with anything but ECHILD.
GraceSleep ==
  /\ pc = "grace" /\ polls < GracePolls /\ child # "gone"
  /\ polls' = polls + 1
  /\ UNCHANGED <<host, pc, timeout, now, child, status, code, did>>

GraceOver ==
  /\ pc = "grace" /\ polls = GracePolls
  /\ code' = Unavailable
  /\ pc' = "kill"
  /\ UNCHANGED <<host, timeout, now, child, status, polls, did>>

\* Mutant of Kill: the child is killed but not waited for.
KillOnly ==
  /\ pc = "kill"
  /\ child' = IF child = "running" THEN "zombie" ELSE child
  /\ status' = IF child = "running" THEN Signalled ELSE status
  /\ pc' = "done"
  /\ UNCHANGED <<host, timeout, now, polls, code, did>>

\* kill_and_reap: SIGKILL ...
Kill ==
  /\ pc = "kill"
  /\ child' = IF child = "running" THEN "zombie" ELSE child
  /\ status' = IF child = "running" THEN Signalled ELSE status
  /\ pc' = "reap"
  /\ UNCHANGED <<host, timeout, now, polls, code, did>>

\* ... and a blocking waitpid, which also returns when the child is gone.
Reap ==
  /\ pc = "reap" /\ child \in {"zombie", "gone"}
  /\ child' = "gone"
  /\ pc' = "done"
  /\ UNCHANGED <<host, timeout, now, status, polls, code, did>>

Shim ==
  \/ Fork \/ PollReaps \/ PollEmpty \/ Sleep \/ TimeOut \/ GraceReaps
  \/ GraceGone \/ GraceSleep \/ GraceOver \/ Kill \/ Reap
  \/ (child = "gone" /\ PollFails)

Faults == Refuse \/ ClockFails \/ PollFails

-----------------------------------------------------------------------------
(* The helper, the host program and time.                                  *)

\* The helper ends, by itself or by a signal; a failing exec is exit 127.
HelperEnds ==
  /\ child = "running"
  /\ child' = "zombie"
  /\ status' \in ExitCodes \cup {Signalled}
  /\ UNCHANGED <<host, pc, timeout, now, polls, code, did>>

\* The host's SIGCHLD disposition or another thread takes the status away.
HostReap ==
  /\ host = "reaps"
  /\ child = "zombie"
  /\ child' = "gone"
  /\ UNCHANGED <<host, pc, timeout, now, status, polls, code, did>>

Tick ==
  /\ now < MaxTime
  /\ now' = now + 1
  /\ UNCHANGED <<host, pc, timeout, child, status, polls, code, did>>

Done == pc = "done" /\ UNCHANGED vars

Next == Shim \/ Faults \/ HelperEnds \/ HostReap \/ Tick \/ Done

Spec == Init /\ [][Next]_vars

-----------------------------------------------------------------------------
(* Properties.                                                             *)

Reaped == "reaped" \in did
Termed == "termed" \in did
Result == IF pc = "done" THEN MapExitToPam(code) ELSE "none"

TypeOK ==
  /\ host \in {"plain", "reaps"}
  /\ pc \in {"start", "poll", "clock", "grace", "kill", "reap", "done"}
  /\ timeout \in 1..MaxTimeout
  /\ now \in Nat
  /\ child \in {"none", "running", "zombie", "gone"}
  /\ status \in ExitCodes \cup {Signalled, Pending}
  /\ polls \in 0..GracePolls
  /\ code \in ExitCodes
  /\ did \subseteq {"reaped", "termed"}

\* PAM_SUCCESS is returned only for a helper that exited with 0 and whose
\* status this call collected before it began to end the helper: an approval
\* that races the timeout is not used (run_helper's grace loop).
SuccessMeansApproved ==
  Result = "PAM_SUCCESS" => Reaped /\ status = Approved /\ ~Termed

\* Password fallback is offered only on a fallback status of the helper or
\* after the timeout: no other failure of the shim is softened.
FallbackIsJustified ==
  Result = "PAM_AUTHINFO_UNAVAIL" =>
     (Reaped /\ status \in Fallback) \/ (Termed /\ now >= timeout)

\* The call leaves no running helper and no zombie behind, whichever way it
\* returns (run_helper's exits against kill_and_reap).
NoChildLeft == pc = "done" => child \in {"none", "gone"}

\* Where the host program leaves its children alone, a signal is never sent to
\* a process id that was already reaped and may belong to a stranger.
SignalsOwnChild == host = "plain" /\ pc \in {"clock", "kill"} => child # "gone"

\* docs/fallback-policy.md: "If there is evidence of tampering, unsafe
\* configuration, or protocol violation, authentication must fail closed."; and
\* its table makes 20, denied, a hard failure too.
TamperFailsClosed ==
  pc = "done" /\ Reaped /\ status \in HardFail => Result = "PAM_AUTH_ERR"

=============================================================================
