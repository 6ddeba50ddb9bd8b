--------------------------- MODULE EndToEndProofs ---------------------------
(***************************************************************************)
(* Proofs about EndToEnd for every timeout, clock, transport and signal:   *)
(* the shim with a real helper as its child does only what PamShim allows, *)
(* and what its success stands for follows from what run_request has done  *)
(* by the time it exits with 0.                                            *)
(***************************************************************************)
EXTENDS EndToEnd, PamShimProofs

-----------------------------------------------------------------------------
(* The shim.                                                               *)

\* Whatever the helper does, the shim with it is a behaviour of PamShim: the
\* helper's end is the one that run_helper sees, and nothing else touches its state.
THEOREM ShimWithChildIsShim == SystemSpec => Spec
<1>1. SystemInit => Init
  BY DEF SystemInit
<1>2. [SystemNext]_system => [Next]_vars
  <2> SUFFICES ASSUME [SystemNext]_system PROVE [Next]_vars
    OBVIOUS
  <2> USE DEF Next, vars, shim
  <2>1. CASE ShimSteps \/ ShimFails \/ Reaps
    BY <2>1 DEF ShimSteps, ShimFails, Reaps
  <2>2. CASE ChildSteps
    <3>1. CASE Runs
      <4>1. UNCHANGED now
        BY <3>1 DEF Runs, H!Step, H!Refuse, H!ReadClock, H!Budget, H!Connect, H!ConnectFail,
           H!WriteFrame, H!TransferFail, H!ReadFrame, H!ReadGarbage, H!Verify, H!ReadNow,
           H!Freshness, H!StartCleanup, H!CleanupOne, H!CreateMarker, H!MarkerFail,
           H!WriteMarker, H!FinalDeadline, H!Decide, H!notExit, H!clocks
      <4> QED
        BY <3>1, <4>1 DEF Runs
    <3>2. CASE Ends
      BY <3>2 DEF Ends
    <3> QED
      BY <2>2, <3>1, <3>2 DEF ChildSteps
  <2>3. CASE Dies \/ ExecFails
    BY <2>3 DEF Dies, ExecFails
  <2>4. CASE Peers
    BY <2>4 DEF Peers, H!AgentAnswers, H!LineCloses, H!StepWall, H!clocks
  <2>5. CASE Time \/ CallerKilled
    BY <2>5 DEF Time, CallerKilled
  <2>6. CASE UNCHANGED system
    BY <2>6 DEF system
  <2> QED
    BY <2>1, <2>2, <2>3, <2>4, <2>5, <2>6 DEF SystemNext, Over
<1> QED
  BY <1>1, <1>2, PTL DEF SystemSpec, Spec

-----------------------------------------------------------------------------
(* The child.                                                              *)

\* Its variables keep their types; a failed exec adds one exit code to Helper's.
ChildTyped ==
  /\ now \in Nat /\ wall \in Nat
  /\ hpc \in [{1} -> H!Positions]
  /\ htimeout \in [{1} -> Nat] /\ created \in [{1} -> Nat]
  /\ expires \in [{1} -> Nat] /\ hnow \in [{1} -> Nat]
  /\ got \in [{1} -> H!Messages]
  /\ exit \in [{1} -> H!Codes \cup {Internal}]
  /\ answers \subseteq H!Messages

\* What the helper holds at each position: nothing before read_json_frame, only
\* a response to its own request after verify_for_request, and a complete marker
\* once record_replay_marker has returned.
ChildHolds ==
  /\ hpc[1] \in {"start", "budget", "connect", "write", "read"} => got[1].signer = "none"
  /\ hpc[1] = "verify" => got[1].signer # "none"
  /\ hpc[1] \in {"clock", "fresh", "cleanup", "scan", "mark", "final", "decide"} =>
        H!VerifyForRequest(got[1], 1)
  /\ got[1].signer = "agent" => got[1] \in answers
  /\ markers # {} => hpc[1] \in {"mark", "final", "decide", "done"}
  /\ hpc[1] \in {"final", "decide"} => got[1] \in written
  /\ exit[1] = H!Running <=> hpc[1] # "done"

\* What the agent has signed answers the request that was sent, and lives for
\* ResponseMs or as long as the request.
ChildAnswered ==
  /\ requested # {} => hpc[1] \notin {"start", "budget"}
  /\ \A m \in answers :
        /\ m.signer = "agent" /\ requested # {}
        /\ m.expires = m.created + ResponseMs \/ m.expires = expires[1]

\* The helper's exit with 0 stands for consent ...
ChildConsents ==
  exit[1] = H!ExitApproved =>
    /\ got[1] \in answers /\ got[1].decision = "approved"
    /\ got[1] \in written

\* ... and the shim's status 0 for the helper's.
StatusIsChilds == status = Approved => exit[1] = H!ExitApproved

ChildInv == ChildTyped /\ ChildHolds /\ ChildAnswered /\ ChildConsents /\ TamperMeansStale

\* What can happen to the child and its peers: a step of Helper, or a failed exec.
ExecMove ==
  /\ hpc[1] = "start" /\ H!Exit(1, Internal)
  /\ UNCHANGED <<now, wall, wallSteps, htimeout, created, expires, deadline, hnow, got,
                 scan, requested, answers, markers, written, used>>
ChildMove ==
  \/ H!Step(1) \/ H!Killed(1) \/ ExecMove
  \/ H!AgentAnswers(1) \/ H!LineCloses(1) \/ H!StepWall \/ H!Tick
  \/ UNCHANGED <<helper, now>>

(* A step of the whole system moves the shim's own child, or leaves it alone. *)
LEMMA SystemMovesChild == [SystemNext]_system => ChildMove
<1> SUFFICES ASSUME [SystemNext]_system PROVE ChildMove
  OBVIOUS
<1>1. CASE ShimSteps \/ ShimFails
  <2>1. UNCHANGED now
    BY <1>1 DEF ShimSteps, ShimFails, Shim, Faults, Refuse, Fork, PollReaps, PollFails,
       PollEmpty, ClockFails, Sleep, TimeOut, GraceReaps, GraceGone, GraceSleep, GraceOver,
       Kill, Reap
  <2> QED
    BY <1>1, <2>1 DEF ShimSteps, ShimFails, Signals, ChildMove
<1>2. CASE Reaps \/ CallerKilled \/ Over \/ UNCHANGED system
  BY <1>2 DEF Reaps, HostReap, CallerKilled, Over, system, ChildMove
<1>3. CASE ChildSteps \/ Dies \/ Peers \/ Time
  BY <1>3 DEF ChildSteps, Runs, Ends, Dies, Peers, Time, ChildMove
<1>4. CASE ExecFails
  BY <1>4 DEF ExecFails, HelperEnds, ExecMove, ChildMove
<1> QED
  BY <1>1, <1>2, <1>3, <1>4 DEF SystemNext

\* The exit codes of the model are different numbers, and only an approval exits 0.
LEMMA ChildCodes ==
  /\ {H!ExitUnavailable, H!ExitTamper, H!ExitUnsafeConfig, H!ExitProtocol,
      H!ExitInternal, H!Signalled} \subseteq H!Codes
  /\ H!Running \notin {H!ExitApproved, H!ExitUnavailable, H!ExitTamper,
        H!ExitUnsafeConfig, H!ExitProtocol, H!ExitInternal, H!Signalled, Internal}
  /\ H!ExitApproved \notin {H!ExitUnavailable, H!ExitTamper, H!ExitUnsafeConfig,
        H!ExitProtocol, H!ExitInternal, H!Signalled, Internal}
  /\ H!ExitTamper \notin {H!ExitUnavailable, H!ExitUnsafeConfig, H!ExitProtocol,
        H!ExitInternal, H!Signalled, Internal}
BY DEF H!Codes, H!ExitApproved, H!ExitUnavailable, H!ExitCancelled, H!ExitFailed,
       H!ExitDenied, H!ExitTamper, H!ExitUnsafeConfig, H!ExitProtocol, H!ExitInternal,
       H!Signalled, H!Running, Internal

(* exit_code_for_decision: only an approval is an approval, and no decision is tampering. *)
LEMMA ChildDecisionCodes ==
  ASSUME NEW d
  PROVE  /\ H!ExitCodeForDecision(d) \in H!Codes \ {H!Running, H!ExitTamper}
         /\ H!ExitCodeForDecision(d) = H!ExitApproved => d = "approved"
BY DEF H!ExitCodeForDecision, H!Codes, H!ExitApproved, H!ExitUnavailable, H!ExitCancelled,
       H!ExitFailed, H!ExitDenied, H!ExitTamper, H!ExitUnsafeConfig, H!ExitProtocol,
       H!ExitInternal, H!Signalled, H!Running

(* What reaches the child over the link: if the agent signed it, the agent answered it. *)
LEMMA ChildDeliverable ==
  ASSUME ChildTyped, ChildAnswered, NEW m \in H!Deliverable(1)
  PROVE  /\ m \in H!Messages
         /\ m.signer = "agent" => m \in answers
         /\ m.signer # "none"
BY ChildAssumption DEF H!Deliverable, H!Messages, ChildTyped, ChildAnswered

(* The child's invariant holds before it starts. *)
LEMMA ChildInit == SystemInit => ChildInv /\ StatusIsChilds
<1> SUFFICES ASSUME SystemInit PROVE ChildInv /\ StatusIsChilds
  OBVIOUS
<1>1. /\ LinuxBase \in Nat /\ H!NoAnswer(1) \in H!Messages
      /\ H!NoAnswer(1).signer = "none"
  BY ChildAssumption DEF H!NoAnswer, H!Messages
<1>2. H!Running \in H!Codes /\ H!Running \notin {H!ExitApproved, H!ExitTamper}
  BY DEF H!Codes, H!Running, H!ExitApproved, H!ExitTamper
<1>3. status = Pending /\ Pending # Approved
  BY DEF SystemInit, Init, Pending, Approved
<1> QED
  BY <1>1, <1>2, <1>3 DEF SystemInit, H!Init, ChildInv, ChildTyped, ChildHolds,
     ChildAnswered, ChildConsents, TamperMeansStale, H!TamperMeansStale, StatusIsChilds,
     H!Positions

(* The child's state keeps its types. *)
LEMMA ChildStepTyped == ChildInv /\ ChildMove => ChildTyped'
<1> SUFFICES ASSUME ChildInv, ChildMove PROVE ChildTyped'
  OBVIOUS
<1> USE DEF ChildInv, ChildTyped, H!clocks, H!request, H!cache, H!peer, H!notExit, H!Goto,
            H!Positions
<1>0. \A e \in H!Codes \cup {Internal} : H!Exit(1, e) =>
        hpc' \in [{1} -> H!Positions] /\ exit' \in [{1} -> H!Codes \cup {Internal}]
  BY DEF H!Exit
<1>1. CASE \/ H!Refuse(1) \/ H!ConnectFail(1) \/ H!TransferFail(1) \/ H!ReadGarbage(1)
           \/ H!MarkerFail(1) \/ H!Killed(1) \/ ExecMove
  BY <1>0, <1>1, ChildCodes DEF H!Refuse, H!ConnectFail, H!TransferFail, H!ReadGarbage,
     H!MarkerFail, H!Killed, ExecMove
<1>2. CASE H!ReadClock(1)
  BY <1>2, ChildAssumption DEF H!ReadClock
<1>3. CASE H!Budget(1)
  BY <1>0, <1>3, ChildCodes DEF H!Budget
<1>4. CASE H!Connect(1) \/ H!WriteFrame(1) \/ H!ReadNow(1) \/ H!StartCleanup(1)
           \/ H!CleanupOne(1) \/ H!WriteMarker(1)
  BY <1>4 DEF H!Connect, H!WriteFrame, H!ReadNow, H!StartCleanup, H!CleanupOne, H!WriteMarker
<1>5. CASE H!ReadFrame(1)
  BY <1>5, ChildDeliverable DEF H!ReadFrame
<1>6. CASE H!Verify(1) \/ H!Freshness(1) \/ H!CreateMarker(1) \/ H!FinalDeadline(1)
  BY <1>0, <1>6, ChildCodes DEF H!Verify, H!Freshness, H!CreateMarker, H!FinalDeadline
<1>7. CASE H!Decide(1)
  BY <1>0, <1>7, ChildCodes, ChildDecisionCodes DEF H!Decide
<1>8. CASE H!AgentAnswers(1)
  BY <1>8, ChildAssumption DEF H!AgentAnswers, H!Mac, H!Lesser, H!Messages
<1>9. CASE H!StepWall
  BY <1>9, ChildAssumption, ShimAssumption DEF H!StepWall
<1>10. CASE H!Tick \/ H!LineCloses(1) \/ UNCHANGED <<helper, now>>
  BY <1>10 DEF H!Tick, H!LineCloses, helper
<1> QED
  BY <1>1, <1>2, <1>3, <1>4, <1>5, <1>6, <1>7, <1>8, <1>9, <1>10 DEF ChildMove, H!Step

(* What the child holds has passed the checks before its step; its exit with 0 is consent. *)
LEMMA ChildStepHolds == ChildInv /\ ChildMove => (ChildHolds /\ ChildConsents)'
<1> SUFFICES ASSUME ChildInv, ChildMove PROVE (ChildHolds /\ ChildConsents)'
  OBVIOUS
<1> USE DEF ChildInv, ChildTyped, ChildHolds, ChildConsents, H!clocks, H!request, H!cache,
            H!peer, H!notExit, H!Goto
<1>1. CASE \/ H!Refuse(1) \/ H!ConnectFail(1) \/ H!TransferFail(1) \/ H!ReadGarbage(1)
           \/ H!MarkerFail(1) \/ H!Killed(1) \/ ExecMove
  BY <1>1, ChildCodes DEF H!Refuse, H!ConnectFail, H!TransferFail, H!ReadGarbage,
     H!MarkerFail, H!Killed, ExecMove, H!Exit
<1>2. CASE H!ReadClock(1) \/ H!Connect(1) \/ H!WriteFrame(1) \/ H!ReadNow(1)
           \/ H!StartCleanup(1)
  BY <1>2, ChildCodes DEF H!ReadClock, H!Connect, H!WriteFrame, H!ReadNow, H!StartCleanup
<1>3. CASE H!Budget(1)
  BY <1>3, ChildCodes DEF H!Budget, H!Exit
<1>4. CASE H!CleanupOne(1)
  BY <1>4, ChildCodes DEF H!CleanupOne, H!Expired
<1>5. CASE H!ReadFrame(1)
  BY <1>5, ChildDeliverable, ChildCodes DEF H!ReadFrame
<1>6. CASE H!Verify(1)
  BY <1>6, ChildCodes DEF H!Verify, H!Exit
<1>7. CASE H!Freshness(1)
  BY <1>7, ChildCodes DEF H!Freshness, H!Exit
<1>8. CASE H!CreateMarker(1)
  BY <1>8, ChildCodes DEF H!CreateMarker, H!Exit
<1>9. CASE H!WriteMarker(1)
  BY <1>9, ChildCodes DEF H!WriteMarker
<1>10. CASE H!FinalDeadline(1)
  BY <1>10, ChildCodes DEF H!FinalDeadline, H!Exit
<1>11. CASE H!Decide(1)
  BY <1>11, ChildCodes, ChildDecisionCodes DEF H!Decide, H!Exit, H!VerifyForRequest
<1>12. CASE H!AgentAnswers(1)
  BY <1>12 DEF H!AgentAnswers
<1>13. CASE H!StepWall \/ H!Tick \/ H!LineCloses(1) \/ UNCHANGED <<helper, now>>
  BY <1>13 DEF H!StepWall, H!Tick, H!LineCloses, helper
<1> QED
  BY <1>1, <1>2, <1>3, <1>4, <1>5, <1>6, <1>7, <1>8, <1>9, <1>10, <1>11, <1>12, <1>13
     DEF ChildMove, H!Step

(* The agent answers only what was requested, for no longer than it may. *)
LEMMA ChildStepAnswered == ChildInv /\ ChildMove => ChildAnswered'
<1> SUFFICES ASSUME ChildInv, ChildMove PROVE ChildAnswered'
  OBVIOUS
<1> USE DEF ChildInv, ChildTyped, ChildAnswered, H!clocks, H!request, H!cache, H!peer,
            H!notExit, H!Goto
<1>1. CASE UNCHANGED <<hpc, requested, answers, expires>>
  BY <1>1
<1>2. CASE UNCHANGED <<requested, answers, expires>> /\ hpc'[1] \notin {"start", "budget"}
  BY <1>2
<1>3. CASE H!ReadClock(1)
  BY <1>3 DEF H!ReadClock
<1>4. CASE H!Budget(1)
  BY <1>4 DEF H!Budget, H!Exit
<1>5. CASE H!WriteFrame(1)
  BY <1>5 DEF H!WriteFrame
<1>6. CASE H!AgentAnswers(1)
  BY <1>6, ChildAssumption DEF H!AgentAnswers, H!Mac, H!Lesser
<1>7. CASE \/ H!Refuse(1) \/ H!ConnectFail(1) \/ H!TransferFail(1) \/ H!ReadGarbage(1)
           \/ H!MarkerFail(1) \/ H!Killed(1) \/ ExecMove
  BY <1>2, <1>7 DEF H!Refuse, H!ConnectFail, H!TransferFail, H!ReadGarbage, H!MarkerFail,
     H!Killed, ExecMove, H!Exit
<1>8. CASE \/ H!Connect(1) \/ H!ReadFrame(1) \/ H!Verify(1) \/ H!ReadNow(1) \/ H!Freshness(1)
  BY <1>2, <1>8 DEF H!Connect, H!ReadFrame, H!Verify, H!ReadNow, H!Freshness, H!Exit
<1>9. CASE \/ H!StartCleanup(1) \/ H!CleanupOne(1) \/ H!CreateMarker(1) \/ H!WriteMarker(1)
           \/ H!FinalDeadline(1) \/ H!Decide(1)
  BY <1>1, <1>2, <1>9 DEF H!StartCleanup, H!CleanupOne, H!CreateMarker, H!WriteMarker,
     H!FinalDeadline, H!Decide, H!Exit
<1>10. CASE H!StepWall \/ H!Tick \/ H!LineCloses(1) \/ UNCHANGED <<helper, now>>
  BY <1>1, <1>10 DEF H!StepWall, H!Tick, H!LineCloses, helper
<1> QED
  BY <1>3, <1>4, <1>5, <1>6, <1>7, <1>8, <1>9, <1>10 DEF ChildMove, H!Step

\* The shim's signals and a failed exec add no verdict of tampering to those of
\* run_request, and cut none of its checks out of order.
LEMMA ChildStepTamper == ChildInv /\ ChildMove => TamperMeansStale'
<1> SUFFICES ASSUME ChildInv, ChildMove, "disk" \notin HelperFaults,
                    exit'[1] = H!ExitTamper
             PROVE  (\/ H!Wrong(1)
                     \/ hnow[1] > got[1].created + ResponseMs
                     \/ got[1].created > hnow[1] + Skew)'
  BY DEF TamperMeansStale, H!TamperMeansStale
<1> USE DEF H!clocks, H!request, H!cache, H!peer, H!notExit, H!Goto
<1>1. CASE exit[1] = H!ExitTamper
  <2>1. hpc[1] = "done"
    BY <1>1, ChildCodes DEF ChildInv, ChildHolds
  <2>2. UNCHANGED <<hnow, got>>
    BY <2>1 DEF ChildMove, H!Step, H!Refuse, H!ReadClock, H!Budget, H!Connect, H!ConnectFail,
       H!WriteFrame, H!TransferFail, H!ReadFrame, H!ReadGarbage, H!Verify, H!ReadNow,
       H!Freshness, H!StartCleanup, H!CleanupOne, H!CreateMarker, H!MarkerFail,
       H!WriteMarker, H!FinalDeadline, H!Decide, H!Killed, ExecMove, H!AgentAnswers,
       H!LineCloses, H!StepWall, H!Tick, helper
  <2> QED
    BY <1>1, <2>2 DEF ChildInv, TamperMeansStale, H!TamperMeansStale, H!Wrong
<1>2. CASE exit[1] # H!ExitTamper
  <2>0. UNCHANGED exit => FALSE
    BY <1>2
  <2>1. \/ H!Refuse(1) \/ H!ConnectFail(1) \/ H!TransferFail(1) \/ H!ReadGarbage(1)
        \/ H!Budget(1) \/ H!FinalDeadline(1) \/ H!Decide(1) \/ H!Killed(1) \/ ExecMove
        \/ H!Verify(1) \/ H!Freshness(1) \/ H!CreateMarker(1)
    BY <2>0 DEF ChildMove, H!Step, H!ReadClock, H!Connect, H!WriteFrame, H!ReadFrame,
       H!ReadNow, H!StartCleanup, H!CleanupOne, H!MarkerFail, H!WriteMarker,
       H!AgentAnswers, H!LineCloses, H!StepWall, H!Tick, helper
  <2>2. exit \in [{1} -> H!Codes \cup {Internal}]
    BY DEF ChildInv, ChildTyped
  <2>3. ~(\/ H!Refuse(1) \/ H!ConnectFail(1) \/ H!TransferFail(1) \/ H!ReadGarbage(1)
          \/ H!Budget(1) \/ H!FinalDeadline(1) \/ H!Decide(1) \/ H!Killed(1) \/ ExecMove)
    BY <1>2, <2>2, ChildCodes, ChildDecisionCodes DEF H!Refuse, H!ConnectFail,
       H!TransferFail, H!ReadGarbage, H!Budget, H!FinalDeadline, H!Decide, H!Killed,
       ExecMove, H!Exit
  <2>4. CASE H!Verify(1)
    <3>1. ~H!VerifyForRequest(got[1], 1) /\ got[1].signer # "none" /\ UNCHANGED got
      BY <1>2, <2>4 DEF H!Verify, ChildInv, ChildHolds
    <3> QED
      BY <3>1 DEF H!VerifyForRequest, H!Wrong
  <2>5. CASE H!Freshness(1)
    <3>1. H!RequestAlive(1, hnow[1]) /\ ~H!ResponseFresh(1) /\ UNCHANGED <<got, hnow>>
      BY <1>2, <2>2, <2>5, ChildCodes DEF H!Freshness, H!Exit
    <3>2. /\ got[1] \in answers /\ got[1] \in H!Messages
          /\ hnow[1] \in Nat /\ expires[1] \in Nat
      BY <2>5 DEF H!Freshness, ChildInv, ChildHolds, ChildTyped, H!VerifyForRequest
    <3>3. got[1].created \in Nat /\ got[1].expires \in Nat
      BY <3>2 DEF H!Messages
    <3>4. Skew \in Nat /\ ResponseMs \in Nat
      BY ChildAssumption
    <3>5. hnow[1] <= expires[1]
      BY <3>1 DEF H!RequestAlive, H!Fresh
    <3>6. hnow[1] > got[1].expires \/ got[1].created > hnow[1] + Skew
      BY <3>1, <3>2, <3>3, <3>4 DEF H!ResponseFresh, H!Fresh
    <3>7. got[1].expires = got[1].created + ResponseMs \/ got[1].expires = expires[1]
      BY <3>2 DEF ChildInv, ChildAnswered
    <3>8. hnow[1] > got[1].created + ResponseMs \/ got[1].created > hnow[1] + Skew
      BY <3>2, <3>3, <3>4, <3>5, <3>6, <3>7
    <3> QED
      BY <3>1, <3>8
  <2>6. CASE H!CreateMarker(1)
    BY <1>2, <2>6 DEF H!CreateMarker, ChildInv, ChildHolds
  <2> QED
    BY <2>1, <2>3, <2>4, <2>5, <2>6
<1> QED
  BY <1>1, <1>2

\* The shim collects 0 only from a helper that exited with 0: SIGKILL ends the
\* helper, and nothing runs in it afterwards.
LEMMA StatusStep == ChildInv /\ StatusIsChilds /\ [SystemNext]_system => StatusIsChilds'
<1> SUFFICES ASSUME ChildInv, StatusIsChilds, [SystemNext]_system, status' = Approved
             PROVE  exit'[1] = H!ExitApproved
  BY DEF StatusIsChilds
<1>0. Approved = H!ExitApproved /\ Approved \notin {Signalled, Internal}
  BY DEF Approved, H!ExitApproved, Signalled, Internal
<1>1. CASE UNCHANGED status
  <2>1. exit[1] = H!ExitApproved /\ hpc[1] = "done"
    BY <1>1, ChildCodes DEF StatusIsChilds, ChildInv, ChildHolds
  <2>2. ChildMove
    BY SystemMovesChild
  <2>3. UNCHANGED exit
    BY <2>1, <2>2 DEF ChildMove, H!Step, H!Refuse, H!ReadClock, H!Budget, H!Connect,
       H!ConnectFail, H!WriteFrame, H!TransferFail, H!ReadFrame, H!ReadGarbage, H!Verify,
       H!ReadNow, H!Freshness, H!StartCleanup, H!CleanupOne, H!CreateMarker, H!MarkerFail,
       H!WriteMarker, H!FinalDeadline, H!Decide, H!Killed, ExecMove, H!AgentAnswers,
       H!LineCloses, H!StepWall, H!Tick, H!Goto, H!notExit, helper
  <2> QED
    BY <2>1, <2>3
<1>2. CASE Ends
  BY <1>0, <1>2 DEF Ends
<1>3. CASE Kill
  BY <1>0, <1>1, <1>3 DEF Kill
<1>4. CASE Dies \/ ExecFails
  BY <1>0, <1>4 DEF Dies, ExecFails
<1> QED
  BY <1>1, <1>2, <1>3, <1>4 DEF SystemNext, system, shim, ShimSteps, ShimFails, Reaps,
     CallerKilled, ChildSteps, Runs, Peers, Time, Over, Shim, Faults, Refuse, Fork, PollReaps,
     PollFails, PollEmpty, ClockFails, Sleep, TimeOut, GraceReaps, GraceGone, GraceSleep,
     GraceOver, Reap, HostReap, Tick

(* The child's invariant, and that waitpid reports what it exited with, hold throughout. *)
LEMMA ChildInvariant == SystemSpec => [](ChildInv /\ StatusIsChilds)
<1>1. ChildInv /\ [SystemNext]_system => ChildInv'
  BY SystemMovesChild, ChildStepTyped, ChildStepHolds, ChildStepAnswered, ChildStepTamper
     DEF ChildInv
<1> QED
  BY <1>1, ChildInit, StatusStep, PTL DEF SystemSpec

-----------------------------------------------------------------------------

\* pam_sm_authenticate returns PAM_SUCCESS only if the agent signed an approval of
\* the request this very call made and the helper has recorded it completely, for
\* every timeout and whatever signals, clocks and transport do.
THEOREM SuccessIsConsent == SystemSpec => []SuccessMeansConsent
<1>1. SuccessMeansApproved /\ ChildInv /\ StatusIsChilds => SuccessMeansConsent
  BY DEF SuccessMeansApproved, SuccessMeansConsent, ChildInv, StatusIsChilds, ChildConsents
<1> QED
  BY <1>1, ShimWithChildIsShim, SuccessIsAnApproval, ChildInvariant, PTL

\* Under the shim's signals, failed execs and a killed caller, run_request still
\* calls a response to its own request tampering only for its age.
THEOREM TamperIsAge == SystemSpec => []TamperMeansStale
BY ChildInvariant, PTL DEF ChildInv

=============================================================================
