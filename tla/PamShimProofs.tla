--------------------------- MODULE PamShimProofs ---------------------------
(***************************************************************************)
(* Proofs about PamShim for every timeout, number of grace polls and exit  *)
(* status.  The safety properties speak of the returned result only; the   *)
(* inductive invariant says, for every position of the shim, what it has   *)
(* already committed to: whether SIGTERM was sent, whether the status was  *)
(* collected, and which code it will return.                               *)
(***************************************************************************)
EXTENDS PamShim, TLAPS

\* What the shim knows at each position.
ShimInv ==
  /\ pc = "start" => child = "none" /\ ~Reaped
  /\ pc \in {"poll", "clock", "grace", "kill", "reap"} => child # "none" /\ ~Reaped
  /\ pc \in {"start", "poll", "clock"} => ~Termed
  /\ pc \in {"start", "poll", "clock", "grace"} => code = Internal
  /\ pc = "grace" => Termed
  /\ pc \in {"kill", "reap"} => code = Internal \/ (code = Unavailable /\ Termed)
  /\ pc = "reap" => child # "running"
  /\ Termed => now >= timeout
  /\ host = "plain" /\ child = "gone" => pc = "done"

\* A child that has ended has a status.
EndedHasStatus == child = "zombie" => status # Pending

ShimSafe ==
  SuccessMeansApproved /\ FallbackIsJustified /\ NoChildLeft /\ SignalsOwnChild

\* Every variable keeps its type; in particular the timeout is never zero and
\* never above the accepted maximum, whatever the module's arguments are.
THEOREM TypeCorrect == Spec => [](TypeOK /\ EndedHasStatus)
<1>1. Init => TypeOK /\ EndedHasStatus
  BY ShimAssumption DEF Init, EndedHasStatus, TypeOK, ParseUint, ExitCodes, Internal, Pending
<1>2. TypeOK /\ EndedHasStatus /\ [Next]_vars => (TypeOK /\ EndedHasStatus)'
  <2> SUFFICES ASSUME TypeOK, EndedHasStatus, [Next]_vars
               PROVE  (TypeOK /\ EndedHasStatus)'
    OBVIOUS
  <2> USE DEF TypeOK, EndedHasStatus, Approved, Unavailable, Fallback, HardFail,
          Internal, Signalled, Pending, ExitCodes
  <2>1. CASE Refuse
    BY <2>1 DEF Refuse
  <2>2. CASE Fork
    BY <2>2 DEF Fork
  <2>3. CASE PollReaps
    BY <2>3 DEF PollReaps
  <2>4. CASE PollFails
    BY <2>4 DEF PollFails
  <2>5. CASE PollEmpty
    BY <2>5 DEF PollEmpty
  <2>6. CASE ClockFails
    BY <2>6 DEF ClockFails
  <2>7. CASE Sleep
    BY <2>7 DEF Sleep
  <2>8. CASE TimeOut
    BY <2>8 DEF TimeOut
  <2>9. CASE GraceReaps
    BY <2>9 DEF GraceReaps
  <2>10. CASE GraceGone
    BY <2>10 DEF GraceGone
  <2>11. CASE GraceSleep
    BY <2>11, ShimAssumption DEF GraceSleep
  <2>12. CASE GraceOver
    BY <2>12 DEF GraceOver
  <2>13. CASE Kill
    BY <2>13 DEF Kill
  <2>14. CASE Reap
    BY <2>14 DEF Reap
  <2>15. CASE HelperEnds
    BY <2>15 DEF HelperEnds
  <2>16. CASE HostReap
    BY <2>16 DEF HostReap
  <2>17. CASE Tick
    BY <2>17 DEF Tick
  <2>18. CASE UNCHANGED vars
    BY <2>18 DEF vars
  <2> QED
    BY <2>1, <2>2, <2>3, <2>4, <2>5, <2>6, <2>7, <2>8, <2>9, <2>10,
       <2>11, <2>12, <2>13, <2>14, <2>15, <2>16, <2>17, <2>18
       DEF Next, Shim, Faults, Done
<1> QED
  BY <1>1, <1>2, PTL DEF Spec

\* run_helper and map_exit_to_pam keep all four promises together: they are
\* inductive only with ShimInv, which ties each position of run_helper to what
\* it has sent, collected and decided.
LEMMA ShimIsSafe == Spec => []ShimSafe
<1>1. Init => ShimInv /\ ShimSafe
  BY DEF Init, ShimInv, ShimSafe, SuccessMeansApproved, FallbackIsJustified,
         NoChildLeft, SignalsOwnChild, Result, Reaped, Termed
<1>2. TypeOK /\ EndedHasStatus /\ ShimInv /\ ShimSafe /\ [Next]_vars
        => (ShimInv /\ ShimSafe)'
  <2> SUFFICES ASSUME TypeOK, EndedHasStatus, ShimInv, ShimSafe, [Next]_vars
               PROVE  (ShimInv /\ ShimSafe)'
    OBVIOUS
  <2> USE DEF TypeOK, EndedHasStatus, ShimInv, ShimSafe, SuccessMeansApproved,
          FallbackIsJustified, NoChildLeft, SignalsOwnChild, Result, Reaped,
          Termed, MapExitToPam, Approved, Unavailable, Fallback, HardFail,
          Internal, Signalled, Pending, ExitCodes
  <2>1. CASE Refuse
    BY <2>1 DEF Refuse
  <2>2. CASE Fork
    BY <2>2 DEF Fork
  <2>3. CASE PollReaps
    BY <2>3 DEF PollReaps
  <2>4. CASE PollFails
    BY <2>4 DEF PollFails
  <2>5. CASE PollEmpty
    BY <2>5 DEF PollEmpty
  <2>6. CASE ClockFails
    BY <2>6 DEF ClockFails
  <2>7. CASE Sleep
    BY <2>7 DEF Sleep
  <2>8. CASE TimeOut
    BY <2>8 DEF TimeOut
  <2>9. CASE GraceReaps
    BY <2>9 DEF GraceReaps
  <2>10. CASE GraceGone
    BY <2>10 DEF GraceGone
  <2>11. CASE GraceSleep
    BY <2>11 DEF GraceSleep
  <2>12. CASE GraceOver
    BY <2>12 DEF GraceOver
  <2>13. CASE Kill
    BY <2>13 DEF Kill
  <2>14. CASE Reap
    BY <2>14 DEF Reap
  <2>15. CASE HelperEnds
    BY <2>15 DEF HelperEnds
  <2>16. CASE HostReap
    BY <2>16, ShimAssumption DEF HostReap
  <2>17. CASE Tick
    BY <2>17 DEF Tick
  <2>18. CASE UNCHANGED vars
    BY <2>18 DEF vars
  <2> QED
    BY <2>1, <2>2, <2>3, <2>4, <2>5, <2>6, <2>7, <2>8, <2>9, <2>10,
       <2>11, <2>12, <2>13, <2>14, <2>15, <2>16, <2>17, <2>18
       DEF Next, Shim, Faults, Done
<1> QED
  BY <1>1, <1>2, TypeCorrect, PTL DEF Spec

\* PAM_SUCCESS stands for a reaped exit 0 of the helper, collected before the
\* timeout was acted on, for every timeout and every behaviour of the helper.
THEOREM SuccessIsAnApproval == Spec => []SuccessMeansApproved
BY ShimIsSafe, PTL DEF ShimSafe

\* PAM_AUTHINFO_UNAVAIL stands for a fallback status of the helper or an
\* expired timeout, and for no other failure of run_helper.
THEOREM FallbackIsEarned == Spec => []FallbackIsJustified
BY ShimIsSafe, PTL DEF ShimSafe

\* pam_sm_authenticate returns with no helper process left, running or zombie.
THEOREM NothingIsLeftBehind == Spec => []NoChildLeft
BY ShimIsSafe, PTL DEF ShimSafe

\* Under a host that does not reap its children, run_helper never signals a
\* process id it has given back to the system.
THEOREM OnlyOwnChildIsSignalled == Spec => []SignalsOwnChild
BY ShimIsSafe, PTL DEF ShimSafe

=============================================================================
