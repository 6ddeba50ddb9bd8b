---------------------------- MODULE HelperProofs ----------------------------
(***************************************************************************)
(* Proofs about Helper for any number of helpers, any timeouts, clocks,    *)
(* faults of transport and disk, and kills at any step.                    *)
(***************************************************************************)
EXTENDS Helper, TLAPS

-----------------------------------------------------------------------------
(* The inductive invariant.                                                *)

BeforeRead == {"start", "budget", "connect", "write", "read"}
Verified == {"clock", "fresh", "cleanup", "scan", "mark", "final", "decide"}
Marked == {"mark", "final", "decide", "done"}

\* What a helper holds at each position: nothing before read_json_frame, and only
\* a response to its own request after verify_for_request.
Held ==
  \A h \in Helper :
     /\ pc[h] \in BeforeRead => got[h].signer = "none"
     /\ pc[h] = "verify" => got[h].signer # "none"
     /\ pc[h] \in Verified => VerifyForRequest(got[h], h)
     /\ got[h].signer = "agent" => got[h] \in answers
     /\ exit[h] = Running <=> pc[h] # "done"

\* What the agent has signed answers a request that was sent.
Answered ==
  /\ \A h \in requested : pc[h] \notin {"start", "budget"}
  /\ \A m \in answers : m.signer = "agent" /\ m.req \in requested

\* A marker is of a helper that has come to create it, and its expiry is written
\* by that helper only.
MarkersOwned ==
  /\ \A m \in markers : pc[m.req] \in Marked
  /\ \A h \in Helper : pc[h] = "mark" => got[h] \in markers \ written

HelperInv == TypeOK /\ Held /\ Answered /\ MarkersOwned

-----------------------------------------------------------------------------

(* exit_code_for_decision gives an exit code, never the one of tampering. *)
LEMMA ExitCodeTyped ==
  ASSUME NEW d PROVE ExitCodeForDecision(d) \in Codes \ {Running, ExitTamper}
BY DEF ExitCodeForDecision, Codes, ExitApproved, ExitUnavailable, ExitCancelled,
       ExitFailed, ExitDenied, ExitTamper, ExitUnsafeConfig, ExitProtocol,
       ExitInternal, Signalled, Running

(* What reaches a helper over the link: if the agent signed it, the agent answered it. *)
LEMMA DeliverableTyped ==
  ASSUME TypeOK, Answered, NEW h \in Helper, NEW m \in Deliverable(h)
  PROVE  /\ m \in Messages
         /\ m.signer = "agent" => m \in answers
         /\ m.signer # "none"
BY HelperAssumption DEF Deliverable, TypeOK, Messages, Answered

(* The invariant holds before any helper runs. *)
LEMMA InitHelperInv == Init => HelperInv
BY HelperAssumption
   DEF Init, HelperInv, TypeOK, Held, Answered, MarkersOwned, NoAnswer, Messages,
       Positions, Codes, BeforeRead, Verified, Running

(* Every step of run_request, of the agent and of the clocks keeps the types. *)
LEMMA StepTypeOK == HelperInv /\ [Next]_vars => TypeOK'
<1> SUFFICES ASSUME HelperInv, [Next]_vars PROVE TypeOK'
  OBVIOUS
<1> USE DEF HelperInv, TypeOK, clocks, request, cache, peer, notPc, notExit, Goto, Positions
<1>1. CASE Tick
  BY <1>1 DEF Tick
<1>2. CASE StepWall
  BY <1>2, HelperAssumption DEF StepWall
<1>3. CASE UNCHANGED vars
  BY <1>3 DEF vars
<1>4. ASSUME NEW h \in Helper, Step(h) \/ Killed(h) \/ AgentAnswers(h) \/ LineCloses(h)
      PROVE  TypeOK'
  <2>0. \A code \in Codes : Exit(h, code) =>
          /\ pc' \in [Helper -> Positions] /\ exit' \in [Helper -> Codes]
          /\ line' \in [Helper -> {"none", "open", "eof"}]
    BY DEF Exit
  <2>a. {ExitApproved, ExitUnavailable, ExitTamper, ExitUnsafeConfig, ExitProtocol,
         ExitInternal, Signalled} \subseteq Codes
    BY DEF Codes
  <2>1. CASE Refuse(h) \/ ConnectFail(h) \/ TransferFail(h) \/ ReadGarbage(h)
             \/ MarkerFail(h) \/ Killed(h)
    BY <2>0, <2>a, <2>1 DEF Refuse, ConnectFail, TransferFail, ReadGarbage, MarkerFail, Killed
  <2>2. CASE ReadClock(h)
    BY <2>2, HelperAssumption DEF ReadClock
  <2>3. CASE Budget(h)
    BY <2>0, <2>a, <2>3, HelperAssumption DEF Budget, Lesser
  <2>4. CASE Connect(h) \/ WriteFrame(h)
    BY <2>4 DEF Connect, WriteFrame
  <2>5. CASE ReadFrame(h)
    BY <2>5, DeliverableTyped DEF ReadFrame
  <2>6. CASE Verify(h) \/ Freshness(h) \/ FinalDeadline(h)
    BY <2>0, <2>a, <2>6 DEF Verify, Freshness, FinalDeadline
  <2>7. CASE ReadNow(h) \/ StartCleanup(h)
    BY <2>7 DEF ReadNow, StartCleanup
  <2>8. CASE CleanupOne(h)
    BY <2>8 DEF CleanupOne
  <2>9. CASE CreateMarker(h)
    BY <2>0, <2>a, <2>9 DEF CreateMarker
  <2>10. CASE WriteMarker(h)
    BY <2>10 DEF WriteMarker, MarkersOwned
  <2>11. CASE Decide(h)
    BY <2>0, <2>a, <2>11, ExitCodeTyped DEF Decide
  <2>12. CASE AgentAnswers(h)
    BY <2>12, HelperAssumption DEF AgentAnswers, Mac, Lesser, Messages
  <2>13. CASE LineCloses(h)
    BY <2>13 DEF LineCloses
  <2> QED
    BY <1>4, <2>1, <2>2, <2>3, <2>4, <2>5, <2>6, <2>7, <2>8, <2>9, <2>10, <2>11,
       <2>12, <2>13 DEF Step
<1> QED
  BY <1>1, <1>2, <1>3, <1>4 DEF Next, Finished

\* A helper's own step leaves what the other helpers hold alone.
LEMMA StepHeld == HelperInv /\ [Next]_vars => (Held /\ Answered /\ MarkersOwned)'
<1> SUFFICES ASSUME HelperInv, [Next]_vars PROVE (Held /\ Answered /\ MarkersOwned)'
  OBVIOUS
<1> USE DEF HelperInv, TypeOK, Held, Answered, MarkersOwned, clocks, request, cache,
            peer, notPc, notExit, Goto, BeforeRead, Verified, Marked
<1>1. CASE Tick
  BY <1>1 DEF Tick
<1>2. CASE StepWall
  BY <1>2 DEF StepWall
<1>3. CASE UNCHANGED vars
  BY <1>3 DEF vars
<1>4. ASSUME NEW h \in Helper, Step(h) \/ Killed(h) \/ AgentAnswers(h) \/ LineCloses(h)
      PROVE  (Held /\ Answered /\ MarkersOwned)'
  <2>0. Running \notin {ExitApproved, ExitUnavailable, ExitTamper, ExitUnsafeConfig,
                        ExitProtocol, ExitInternal, Signalled}
    BY DEF Running, ExitApproved, ExitUnavailable, ExitTamper, ExitUnsafeConfig,
           ExitProtocol, ExitInternal, Signalled
  <2>a. \A m \in markers : m.req \in Helper
    BY DEF Messages
  <2>1. CASE Refuse(h) \/ ConnectFail(h) \/ TransferFail(h) \/ ReadGarbage(h)
             \/ MarkerFail(h) \/ Killed(h)
    BY <2>0, <2>a, <2>1 DEF Refuse, ConnectFail, TransferFail, ReadGarbage, MarkerFail,
       Killed, Exit
  <2>2. CASE ReadClock(h)
    BY <2>a, <2>2 DEF ReadClock
  <2>3. CASE Budget(h)
    BY <2>0, <2>a, <2>3 DEF Budget, Exit
  <2>4. CASE Connect(h) \/ WriteFrame(h)
    BY <2>a, <2>4 DEF Connect, WriteFrame
  <2>5. CASE ReadFrame(h)
    BY <2>a, <2>5, DeliverableTyped DEF ReadFrame
  <2>6. CASE Verify(h) \/ Freshness(h) \/ FinalDeadline(h)
    BY <2>0, <2>a, <2>6 DEF Verify, Freshness, FinalDeadline, Exit
  <2>7. CASE ReadNow(h) \/ StartCleanup(h)
    BY <2>a, <2>7 DEF ReadNow, StartCleanup
  <2>8. CASE CleanupOne(h)
    BY <2>a, <2>8 DEF CleanupOne, Expired
  <2>9. CASE CreateMarker(h)
    BY <2>0, <2>a, <2>9 DEF CreateMarker, Exit, VerifyForRequest
  <2>10. CASE WriteMarker(h)
    BY <2>a, <2>10 DEF WriteMarker, VerifyForRequest
  <2>11. CASE Decide(h)
    BY <2>0, <2>a, <2>11, ExitCodeTyped DEF Decide, Exit
  <2>12. CASE AgentAnswers(h)
    BY <2>a, <2>12 DEF AgentAnswers
  <2>13. CASE LineCloses(h)
    BY <2>a, <2>13 DEF LineCloses
  <2> QED
    BY <1>4, <2>1, <2>2, <2>3, <2>4, <2>5, <2>6, <2>7, <2>8, <2>9, <2>10, <2>11,
       <2>12, <2>13 DEF Step
<1> QED
  BY <1>1, <1>2, <1>3, <1>4 DEF Next, Finished

(* The inductive invariant of the helpers holds throughout. *)
LEMMA HelperInvariant == Spec => []HelperInv
<1>1. HelperInv /\ [Next]_vars => HelperInv'
  BY StepTypeOK, StepHeld DEF HelperInv
<1> QED
  BY InitHelperInv, <1>1, PTL DEF Spec

\* Every variable of run_request and of the replay cache keeps its type; in
\* particular a request's expiry never exceeds a u64, and only markers that exist
\* have their expiry written.
THEOREM TypeCorrect == Spec => []TypeOK
BY HelperInvariant, PTL DEF HelperInv

-----------------------------------------------------------------------------
(* The replay cache.                                                       *)

\* Until the clock is set, what a helper has read of it is not ahead of it.
NowBehind == wallSteps = 0 => \A h \in Helper : now[h] <= wall

\* cleanup_markers, run by any helper at any time, leaves the marker of an accepted
\* response alone as long as the response could pass verify_freshness: for any
\* number of helpers that scan, create and write at once.
THEOREM MarkersStayWhileFresh == Spec => []MarkersCoverUsed
<1>1. Init => NowBehind /\ MarkersCoverUsed
  BY HelperAssumption DEF Init, NowBehind, MarkersCoverUsed
<1>2. HelperInv /\ NowBehind /\ MarkersCoverUsed /\ [Next]_vars
        => (NowBehind /\ MarkersCoverUsed)'
  <2> SUFFICES ASSUME HelperInv, NowBehind, MarkersCoverUsed, [Next]_vars
               PROVE  (NowBehind /\ MarkersCoverUsed)'
    OBVIOUS
  <2> USE DEF HelperInv, TypeOK, NowBehind, MarkersCoverUsed, clocks, request, cache,
              peer, notPc, notExit, Goto
  <2>m. \A m \in used : m.expires \in Nat
    BY DEF Messages
  <2>1. CASE Tick
    BY <2>m, <2>1 DEF Tick
  <2>2. CASE StepWall
    BY <2>2 DEF StepWall
  <2>3. CASE UNCHANGED vars
    BY <2>3 DEF vars
  <2>4. ASSUME NEW h \in Helper, Step(h) \/ Killed(h) \/ AgentAnswers(h) \/ LineCloses(h)
        PROVE  (NowBehind /\ MarkersCoverUsed)'
    <3>1. CASE UNCHANGED <<clocks, now, markers, used>>
      BY <3>1
    <3>2. CASE ReadNow(h) \/ StartCleanup(h)
      BY <3>2 DEF ReadNow, StartCleanup
    <3>3. CASE CleanupOne(h)
      BY <2>m, <3>3 DEF CleanupOne, Expired
    <3>4. CASE CreateMarker(h)
      BY <3>4 DEF CreateMarker
    <3> QED
      BY <2>4, <3>1, <3>2, <3>3, <3>4 DEF Step, Refuse, ReadClock, Budget, Connect,
         ConnectFail, WriteFrame, TransferFail, ReadFrame, ReadGarbage, Verify, Freshness,
         MarkerFail, WriteMarker, FinalDeadline, Decide, Killed, AgentAnswers, LineCloses
  <2> QED
    BY <2>1, <2>2, <2>3, <2>4 DEF Next, Finished
<1> QED
  BY <1>1, <1>2, HelperInvariant, PTL DEF Spec

-----------------------------------------------------------------------------
(* The verdict of tampering.                                               *)

\* A response lives for ResponseMs, or until its request expires.
LivesAtMost ==
  \A m \in answers : m.expires = m.created + ResponseMs \/ m.expires = expires[m.req]

\* run_request calls a response to its own request tampered with only for its age:
\* an expired request is found first, and no other helper's marker is taken for a
\* replay, however the helpers and the clocks interleave.
THEOREM TamperIsJustified == Spec => []TamperMeansStale
<1>1. Init => LivesAtMost /\ TamperMeansStale
  BY DEF Init, LivesAtMost, TamperMeansStale, Running, ExitTamper
<1>2. HelperInv /\ LivesAtMost /\ TamperMeansStale /\ [Next]_vars
        => (LivesAtMost /\ TamperMeansStale)'
  <2> SUFFICES ASSUME HelperInv, LivesAtMost, TamperMeansStale, [Next]_vars
               PROVE  (LivesAtMost /\ TamperMeansStale)'
    OBVIOUS
  <2> USE DEF HelperInv, TypeOK, clocks, request, cache, peer, notPc, notExit, Goto
  <2>l. LivesAtMost'
    <3>1. CASE UNCHANGED <<answers, expires>>
      BY <3>1 DEF LivesAtMost
    <3>2. ASSUME NEW h \in Helper, Budget(h) PROVE LivesAtMost'
      BY <3>2 DEF LivesAtMost, Budget, Answered
    <3>3. ASSUME NEW h \in Helper, AgentAnswers(h) PROVE LivesAtMost'
      BY <3>3, HelperAssumption DEF LivesAtMost, AgentAnswers, Mac, Lesser
    <3> QED
      BY <3>1, <3>2, <3>3 DEF Next, vars, Tick, StepWall, Finished, Step, Refuse, ReadClock,
         Connect, ConnectFail, WriteFrame, TransferFail, ReadFrame, ReadGarbage, Verify,
         ReadNow, Freshness, StartCleanup, CleanupOne, CreateMarker, MarkerFail,
         WriteMarker, FinalDeadline, Decide, Killed, LineCloses
  <2>t. TamperMeansStale'
    <3> SUFFICES ASSUME "disk" \notin Faults, NEW h \in Helper, exit'[h] = ExitTamper
                 PROVE  (\/ Wrong(h)
                         \/ now[h] > got[h].created + ResponseMs
                         \/ got[h].created > now[h] + Skew)'
      BY DEF TamperMeansStale
    <3>1. CASE exit[h] = ExitTamper
      <4>1. pc[h] = "done"
        BY <3>1 DEF Held, Running, ExitTamper
      <4>2. UNCHANGED <<now[h], got[h]>>
        BY <4>1 DEF Next, vars, Tick, StepWall, Finished, Step, Refuse, ReadClock, Budget,
           Connect, ConnectFail, WriteFrame, TransferFail, ReadFrame, ReadGarbage, Verify,
           ReadNow, Freshness, StartCleanup, CleanupOne, CreateMarker, MarkerFail,
           WriteMarker, FinalDeadline, Decide, Killed, AgentAnswers, LineCloses, Exit
      <4> QED
        BY <3>1, <4>2 DEF TamperMeansStale, Wrong
    <3>2. CASE exit[h] # ExitTamper
      <4>1. \/ Verify(h) /\ ~VerifyForRequest(got[h], h)
            \/ Freshness(h) /\ RequestAlive(h, now[h]) /\ ~ResponseFresh(h)
            \/ CreateMarker(h) /\ got[h] \in markers
        <5>0. ExitTamper \notin {ExitApproved, ExitUnavailable, ExitUnsafeConfig,
                                 ExitProtocol, ExitInternal, Signalled}
          BY DEF ExitApproved, ExitUnavailable, ExitTamper, ExitUnsafeConfig,
                 ExitProtocol, ExitInternal, Signalled
        <5>1. exit' # exit
          BY <3>2
        <5>2. PICK g \in Helper : Step(g) \/ Killed(g)
          BY <5>1 DEF Next, vars, Finished, Tick, StepWall, AgentAnswers, LineCloses
        <5>3. \/ Refuse(g) \/ ConnectFail(g) \/ TransferFail(g) \/ ReadGarbage(g)
              \/ Budget(g) \/ FinalDeadline(g) \/ Decide(g) \/ Killed(g)
              \/ Verify(g) \/ Freshness(g) \/ CreateMarker(g)
          BY <5>1, <5>2 DEF Step, ReadClock, Connect, WriteFrame, ReadFrame, ReadNow,
             StartCleanup, CleanupOne, MarkerFail, WriteMarker
        <5>4. ~(Refuse(g) \/ ConnectFail(g) \/ TransferFail(g) \/ ReadGarbage(g)
                \/ Budget(g) \/ FinalDeadline(g) \/ Decide(g) \/ Killed(g))
          BY <3>2, <5>0, ExitCodeTyped DEF Refuse, ConnectFail, TransferFail, ReadGarbage,
             Budget, FinalDeadline, Decide, Killed, Exit
        <5> QED
          BY <3>2, <5>0, <5>3, <5>4 DEF Verify, Freshness, CreateMarker, Exit
      <4>2. CASE Verify(h) /\ ~VerifyForRequest(got[h], h)
        BY <4>2 DEF Verify, VerifyForRequest, Wrong, Held
      <4>3. CASE Freshness(h) /\ RequestAlive(h, now[h]) /\ ~ResponseFresh(h)
        <5>1. /\ got[h] \in answers /\ got[h].req = h
              /\ got[h].created \in Nat /\ got[h].expires \in Nat /\ now[h] \in Nat
              /\ expires[h] \in Nat /\ now[h] <= expires[h]
          BY <4>3, HelperAssumption DEF Freshness, Held, Verified, VerifyForRequest, Messages,
             RequestAlive, Fresh
        <5>2. \/ now[h] > got[h].expires
              \/ got[h].created > now[h] + Skew
          BY <4>3, <5>1, HelperAssumption DEF ResponseFresh, Fresh
        <5>3. got[h].expires = got[h].created + ResponseMs \/ got[h].expires = expires[h]
          BY <5>1 DEF LivesAtMost
        <5>4. \/ now[h] > got[h].created + ResponseMs
              \/ got[h].created > now[h] + Skew
          BY <5>1, <5>2, <5>3, HelperAssumption
        <5> QED
          BY <4>3, <5>4 DEF Freshness
      <4>4. CASE CreateMarker(h) /\ got[h] \in markers
        BY <4>4 DEF CreateMarker, Held, Verified, VerifyForRequest, MarkersOwned, Marked
      <4> QED
        BY <4>1, <4>2, <4>3, <4>4
    <3> QED
      BY <3>1, <3>2
  <2> QED
    BY <2>l, <2>t
<1> QED
  BY <1>1, <1>2, HelperInvariant, PTL DEF Spec

-----------------------------------------------------------------------------
(* run_request implements AuthTransaction.                                 *)

\* The refinement mapping, by its parts.
Consented == {m.req : m \in {a \in answers : a.decision = "approved"}}
Interfered == {h \in Helper : Wrong(h)}
Outcome == [h \in Helper |-> OutcomeOf(exit[h])]

(* What the exit codes that are no decision's mean to PAM. *)
LEMMA Outcomes ==
  /\ OutcomeOf(Running) = "open"
  /\ OutcomeOf(ExitUnavailable) = "fallback"
  /\ \A code \in {ExitTamper, ExitUnsafeConfig, ExitProtocol, ExitInternal, Signalled} :
        OutcomeOf(code) = "refused"
BY DEF OutcomeOf, Running, ExitApproved, FallbackExits, ExitUnavailable, ExitCancelled,
       ExitFailed, ExitTamper, ExitUnsafeConfig, ExitProtocol, ExitInternal, Signalled

(* Only the exit code of an approval grants. *)
LEMMA OutcomeOfDecision ==
  ASSUME NEW d
  PROVE  LET o == OutcomeOf(ExitCodeForDecision(d))
         IN  (o = "granted" /\ d = "approved") \/ o = "fallback" \/ o = "refused"
<1>1. CASE d = "approved"
  BY <1>1 DEF OutcomeOf, ExitCodeForDecision, Running, ExitApproved
<1>2. CASE d = "denied"
  BY <1>2 DEF OutcomeOf, ExitCodeForDecision, Running, ExitApproved, FallbackExits,
     ExitUnavailable, ExitCancelled, ExitFailed, ExitDenied
<1>3. CASE d \notin {"approved", "denied"}
  BY <1>3 DEF OutcomeOf, ExitCodeForDecision, Running, ExitApproved, FallbackExits,
     ExitUnavailable, ExitCancelled, ExitFailed, ExitDenied
<1> QED
  BY <1>1, <1>2, <1>3

\* A helper that ends changes its own outcome and nothing else of the transaction.
LEMMA ExitMaps ==
  ASSUME TypeOK, Held, NEW h \in Helper, NEW code, Exit(h, code), pc[h] # "done",
         UNCHANGED <<got, answers>>
  PROVE  /\ Outcome[h] = "open"
         /\ Outcome' = [Outcome EXCEPT ![h] = OutcomeOf(code)]
         /\ UNCHANGED <<Consented, Interfered>>
BY Outcomes DEF TypeOK, Held, Exit, Outcome, Consented, Interfered, Wrong

\* ... and so it is refused, falls back without evidence, or is granted with consent.
LEMMA RefusalMaps ==
  ASSUME TypeOK, Held, NEW h \in Helper, NEW code, Exit(h, code), pc[h] # "done",
         UNCHANGED <<got, answers>>, OutcomeOf(code) = "refused"
  PROVE  Transaction!Next
BY ExitMaps DEF Transaction!Next, Transaction!Refuse, Consented, Interfered, Outcome

(* An exit that leaves the password prompt to PAM is a step of the transaction. *)
LEMMA FallbackMaps ==
  ASSUME TypeOK, Held, NEW h \in Helper, NEW code, Exit(h, code), pc[h] # "done",
         UNCHANGED <<got, answers>>, OutcomeOf(code) = "fallback", ~Wrong(h)
  PROVE  Transaction!Next
BY ExitMaps DEF Transaction!Next, Transaction!FallBack, Consented, Interfered, Outcome

(* An exit with an approval is a step of the transaction when the user consented. *)
LEMMA GrantMaps ==
  ASSUME TypeOK, Held, NEW h \in Helper, NEW code, Exit(h, code), pc[h] # "done",
         UNCHANGED <<got, answers>>, OutcomeOf(code) = "granted", ~Wrong(h),
         h \in Consented
  PROVE  Transaction!Next
BY ExitMaps DEF Transaction!Next, Transaction!Grant, Consented, Interfered, Outcome

\* Whatever the transport delivers, however the clocks run and whenever helpers are
\* killed, run_request exits 0 only with the user's consent to this very request and
\* never offers fallback once a response not made for it was read: it implements
\* AuthTransaction.
THEOREM RunRequestIsATransaction == Spec => ImplementsTransaction
<1>1. Init => Transaction!Init
  BY Outcomes DEF Init, Transaction!Init, Wrong, NoAnswer
<1>2. HelperInv /\ [Next]_vars => [Transaction!Next]_(Transaction!tvars)
  <2> SUFFICES ASSUME HelperInv, [Next]_vars
               PROVE  Transaction!Next \/ UNCHANGED Transaction!tvars
    OBVIOUS
  <2> USE DEF HelperInv, clocks, request, cache, peer, notPc, notExit, Goto
  <2>0. UNCHANGED <<got, answers, exit>> => UNCHANGED Transaction!tvars
    BY DEF Transaction!tvars, Wrong
  <2>1. CASE UNCHANGED <<got, answers, exit>>
    BY <2>0, <2>1
  <2>2. ASSUME NEW h \in Helper, Step(h) \/ Killed(h) \/ AgentAnswers(h) \/ LineCloses(h)
        PROVE  Transaction!Next \/ UNCHANGED Transaction!tvars
    <3>w. pc[h] \in BeforeRead \cup Verified => ~Wrong(h)
      BY DEF Held, Wrong, VerifyForRequest
    <3>1. CASE Refuse(h) \/ ReadGarbage(h) \/ MarkerFail(h) \/ Killed(h)
      BY <3>1, Outcomes, RefusalMaps DEF Refuse, ReadGarbage, MarkerFail, Killed
    <3>2. CASE Budget(h)
      BY <3>2, <2>0, Outcomes, RefusalMaps DEF Budget
    <3>3. CASE ConnectFail(h)
      BY <3>3, <3>w, Outcomes, FallbackMaps DEF ConnectFail, BeforeRead
    <3>4. CASE TransferFail(h)
      BY <3>4, <3>w, Outcomes, FallbackMaps, RefusalMaps DEF TransferFail, BeforeRead
    <3>5. CASE ReadFrame(h)
      <4>1. ~Wrong(h) /\ Outcome[h] = "open"
        BY <3>5, <3>w, Outcomes DEF ReadFrame, BeforeRead, Held, Outcome
      <4>2. \A g \in Helper \ {h} : Wrong(g)' = Wrong(g)
        BY <3>5 DEF ReadFrame, Wrong, TypeOK
      <4>3. UNCHANGED <<Consented, Outcome>>
        BY <3>5 DEF ReadFrame, Consented, Outcome
      <4>4. CASE Wrong(h)'
        <5>1. Interfered' = Interfered \cup {h}
          BY <4>2, <4>4 DEF Interfered
        <5> QED
          BY <4>1, <4>3, <5>1
             DEF Transaction!Next, Transaction!Interfere, Consented, Interfered, Outcome
      <4>5. CASE ~Wrong(h)'
        <5>1. Interfered' = Interfered
          BY <4>1, <4>2, <4>5 DEF Interfered
        <5> QED
          BY <4>3, <5>1 DEF Transaction!tvars, Consented, Interfered, Outcome
      <4> QED
        BY <4>4, <4>5
    <3>6. CASE Verify(h)
      BY <3>6, <2>0, Outcomes, RefusalMaps DEF Verify
    <3>7. CASE Freshness(h)
      BY <3>7, <3>w, <2>0, Outcomes, FallbackMaps, RefusalMaps DEF Freshness, Verified
    <3>8. CASE CreateMarker(h)
      BY <3>8, <2>0, Outcomes, RefusalMaps DEF CreateMarker
    <3>9. CASE FinalDeadline(h)
      BY <3>9, <3>w, <2>0, Outcomes, FallbackMaps DEF FinalDeadline, Verified
    <3>10. CASE Decide(h)
      <4>1. pc[h] = "decide" /\ pc[h] # "done" /\ ~Wrong(h) /\ UNCHANGED <<got, answers>>
        BY <3>10, <3>w DEF Decide, Verified
      <4>2. got[h].decision = "approved" => h \in Consented
        BY <4>1 DEF Held, Verified, VerifyForRequest, Consented
      <4>3. CASE Exit(h, ExitUnavailable)
        BY <4>1, <4>3, Outcomes, FallbackMaps
      <4>4. CASE Exit(h, ExitCodeForDecision(got[h].decision))
        BY <4>1, <4>2, <4>4, OutcomeOfDecision, GrantMaps, FallbackMaps, RefusalMaps
      <4> QED
        BY <3>10, <4>3, <4>4 DEF Decide
    <3>11. CASE AgentAnswers(h)
      <4>1. UNCHANGED <<Interfered, Outcome>>
        BY <3>11 DEF AgentAnswers, Interfered, Wrong, Outcome
      <4>2. PICK m : m.req = h /\ answers' = answers \cup {m}
        BY <3>11 DEF AgentAnswers
      <4>3. CASE m.decision = "approved"
        <5>1. Consented' = Consented \cup {h}
          BY <4>2, <4>3 DEF Consented
        <5> QED
          BY <4>1, <5>1 DEF Transaction!Next, Transaction!Consent, Consented, Interfered, Outcome
      <4>4. CASE m.decision # "approved"
        <5>1. Consented' = Consented
          BY <4>2, <4>4 DEF Consented
        <5> QED
          BY <4>1, <5>1 DEF Transaction!tvars, Consented, Interfered, Outcome
      <4> QED
        BY <4>3, <4>4
    <3> QED
      BY <2>0, <2>2, <3>1, <3>2, <3>3, <3>4, <3>5, <3>6, <3>7, <3>8, <3>9, <3>10, <3>11
         DEF Step, ReadClock, Connect, WriteFrame, ReadNow, StartCleanup, CleanupOne,
             WriteMarker, LineCloses
  <2> QED
    BY <2>1, <2>2 DEF Next, vars, Tick, StepWall, Finished
<1> QED
  BY <1>1, <1>2, HelperInvariant, PTL DEF Spec, ImplementsTransaction, Transaction!Spec
=============================================================================
