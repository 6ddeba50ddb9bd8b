---------------------------- MODULE AgentProofs ----------------------------
(***************************************************************************)
(* Proofs about Agent for every set of connections and every deadline.     *)
(* TypeOK is inductive.  PromptExclusive and AbandonedMeansCancelled are   *)
(* not: they rest on who owns the authentication slot and on how far a     *)
(* session's block, prompt and result can be while its worker is where it  *)
(* is.  ApprovedByUser follows the user's approval through the session.    *)
(* PoolConserved counts the connections in the pool; RateBound counts the  *)
(* requests of a window, those before the wall clock was last set and      *)
(* those since, whose events the limiter still holds.                      *)
(***************************************************************************)
EXTENDS Agent, FiniteSetTheorems, TLAPS

-----------------------------------------------------------------------------
(* The inductive invariant.                                                *)

\* One worker at a time is between slot.wait and slot.signal.
SlotOwned ==
  /\ slot \in {0, 1}
  /\ \A c \in Conn : pc[c] \in Owners => slot = 0
  /\ \A c, d \in Conn : pc[c] \in Owners /\ pc[d] \in Owners => c = d

\* The main thread runs one block at a time.
MainSerial ==
  \A c, d \in Conn : block[c] \in OnMain /\ block[d] \in OnMain => c = d

\* A worker that has not started its session has no block, prompt, result or
\* decision;
\* while the block is pending there is no prompt and no result yet.
SessionOrder ==
  \A c \in Conn :
     /\ pc[c] \in {"absent", "backlog", "owned"} \cup Waiters =>
          block[c] = "none" /\ decision[c] = None
     /\ block[c] = "none" => la[c] = "none" /\ result[c] = None
     /\ Pending(c) => la[c] = "none" /\ result[c] = None
     /\ pc[c] = "ready" => result[c] # None
     /\ decision[c] # None => ~Pending(c)
     /\ pc[c] \in Answers => decision[c] # None

\* A context that can still show a prompt belongs to the owner of the slot.
ContextOwned ==
  \A c \in Conn :
     /\ la[c] = "prompt" => c \notin invalidated
     /\ (Pending(c) \/ la[c] = "prompt") /\ c \notin invalidated =>
          pc[c] \in {"waiting", "ready", "invalidate"}

\* No alert is up beside a prompt.
AlertExcludesPrompt ==
  \A c, d \in Conn : la[c] = "prompt" => block[d] \notin {"alert", "approve"}

SessionInv ==
  /\ SlotOwned /\ MainSerial /\ SessionOrder /\ ContextOwned
  /\ AbandonedMeansCancelled /\ AlertExcludesPrompt

-----------------------------------------------------------------------------

\* Every variable keeps its type: no operation of the agent leaves the states
\* the model gives it, for any number of connections.
THEOREM TypeCorrect == Spec => []TypeOK
<1>1. Init => TypeOK
  BY NatAssumption, KeyAssumption, FlagAssumption
     DEF Init, TypeOK, Positions, Blocks, LAStates, None
<1>2. TypeOK /\ [Next]_vars => TypeOK'
  <2> SUFFICES ASSUME TypeOK, [Next]_vars PROVE TypeOK'
    OBVIOUS
  <2> USE DEF TypeOK, world, pool, request, limiter, session, reply, user,
              notCheck, notPc, notMain
  <2>1. CASE Tick
    BY <2>1 DEF Tick
  <2>2. CASE StepWall
    BY <2>2, NatAssumption DEF StepWall
  <2>3. CASE Exit
    BY <2>3, NatAssumption DEF Exit, Positions, Blocks, LAStates
  <2>4. ASSUME NEW c \in Conn, AcceptLoop(c) PROVE TypeOK'
    BY <2>4, NatAssumption DEF AcceptLoop, Accept, AcceptFail, Positions, InPool, Waiters
  <2>5. ASSUME NEW c \in Conn, Worker(c) PROVE TypeOK'
    <3> USE DEF Goto, CheckThen, Check, Positions, InPool, Waiters, Owners, Answers, Unwind
    <3>1. CASE StartWorker(c)
      BY <3>1, NatAssumption DEF StartWorker, Lesser
    <3>2. CASE ReadFail(c) \/ SeeResult(c) \/ WriteFail(c)
      BY <3>2 DEF ReadFail, SeeResult, WriteFail
    <3>3. ASSUME NEW g \in BOOLEAN, Verify(c, g) PROVE TypeOK'
      BY <3>3 DEF Verify, Lesser
    <3>4. CASE HandlerCheck(c) \/ PollFail(c) \/ CancelLifetime(c)
      BY <3>4 DEF HandlerCheck, PollFail, CancelLifetime
    <3>5. CASE Allow(c)
      BY <3>5 DEF Allow, Kept, Decision
    <3>6. CASE AcquireSlot(c) \/ SignalSlot(c) \/ FreeSlot(c) \/ CloseHandle(c)
      BY <3>6 DEF AcquireSlot, SignalSlot, FreeSlot, CloseHandle
    <3>7. CASE StartSession(c) \/ TakeResult(c)
      BY <3>7 DEF StartSession, TakeResult, Blocks
    <3>8. CASE CancelSession(c)
      BY <3>8 DEF CancelSession, LAStates, Decision
    <3>9. CASE Respond(c)
      BY <3>9, NatAssumption DEF Respond, Lesser
    <3> QED
      BY <2>5, <3>1, <3>2, <3>3, <3>4, <3>5, <3>6, <3>7, <3>8, <3>9 DEF Worker
  <2>6. ASSUME NEW c \in Conn, Main(c) PROVE TypeOK'
    <3> USE DEF BlockGoto, Guard, Check, Complete, Blocks, OnMain, Decision
    <3>1. CASE RunBlock(c) \/ ShowAlert(c) \/ AbortAlert(c) \/ PolicyGuard(c)
      BY <3>1 DEF RunBlock, ShowAlert, AbortAlert, PolicyGuard
    <3>2. CASE CloseAlert(c)
      BY <3>2 DEF CloseAlert
    <3>3. ASSUME NEW can \in BOOLEAN, CanEvaluatePolicy(c, can) PROVE TypeOK'
      BY <3>3 DEF CanEvaluatePolicy
    <3>4. CASE EvaluatePolicy(c)
      BY <3>4 DEF EvaluatePolicy, LAStates
    <3> QED
      BY <2>6, <3>1, <3>2, <3>3, <3>4 DEF Main
  <2>7. ASSUME NEW c \in Conn, Environment(c) PROVE TypeOK'
    <3>1. CASE Connect(c)
      BY <3>1 DEF Connect, Positions
    <3>2. ASSUME NEW p \in PeerFaults, PeerChange(c, p) PROVE TypeOK'
      BY <3>2, PeerAssumption DEF PeerChange
    <3>3. CASE ReadFrame(c)
      BY <3>3, NatAssumption DEF ReadFrame, Goto, Positions, InPool, Waiters
    <3>4. CASE BadFrame(c) \/ WriteFrame(c)
      BY <3>4 DEF BadFrame, WriteFrame, Goto, Positions, InPool, Unwind
    <3>5. ASSUME NEW yes \in BOOLEAN, UserAnswersAlert(c, yes) PROVE TypeOK'
      BY <3>5 DEF UserAnswersAlert, BlockGoto, Blocks, OnMain
    <3>6. ASSUME NEW d \in Decision, UserAnswersPrompt(c, d) PROVE TypeOK'
      BY <3>6 DEF UserAnswersPrompt, LAStates
    <3> QED
      BY <2>7, <3>1, <3>2, <3>3, <3>4, <3>5, <3>6 DEF Environment
  <2>8. ASSUME NEW c \in Conn, Callback(c) PROVE TypeOK'
    BY <2>8 DEF Callback, Complete, LAStates
  <2>9. CASE UNCHANGED vars
    BY <2>9 DEF vars
  <2> QED
    BY <2>1, <2>2, <2>3, <2>4, <2>5, <2>6, <2>7, <2>8, <2>9 DEF Next, Quiescent
<1> QED
  BY <1>1, <1>2, PTL DEF Spec

-----------------------------------------------------------------------------

\* The agent starts with no session, no alert and an empty run loop, so the
\* session invariant holds before the first connection is accepted.
LEMMA SessionInit == Init => SessionInv
BY DEF Init, SessionInv, SlotOwned, MainSerial, SessionOrder, ContextOwned,
       AbandonedMeansCancelled, AlertExcludesPrompt, Pending, Waiters, Owners,
       Answers, OnMain, None

\* A connection's worker (handleServeRequest and the coordinator's wait for the
\* session) keeps the session invariant: it leaves a posted block behind only
\* after cancelling its lifetime.
LEMMA SessionWorker ==
  ASSUME TypeOK, SessionInv, NEW c \in Conn, Worker(c)
  PROVE  SessionInv'
<1> USE DEF TypeOK, SessionInv, SlotOwned, MainSerial, SessionOrder,
            ContextOwned, AbandonedMeansCancelled, AlertExcludesPrompt, Pending,
            Goto, CheckThen, Check, Waiters, Owners, Answers, OnMain, None,
            world, pool, request, limiter, session, reply, user, notCheck, notPc
<1>1. CASE StartWorker(c)
  BY <1>1 DEF StartWorker
<1>2. CASE ReadFail(c) \/ SeeResult(c) \/ WriteFail(c)
  BY <1>2 DEF ReadFail, SeeResult, WriteFail
<1>3. ASSUME NEW g \in BOOLEAN, Verify(c, g) PROVE SessionInv'
  BY <1>3 DEF Verify
<1>4. CASE HandlerCheck(c)
  BY <1>4 DEF HandlerCheck
<1>5. CASE PollFail(c)
  BY <1>5 DEF PollFail
<1>6. CASE CancelLifetime(c) \/ FreeSlot(c) \/ CloseHandle(c)
  BY <1>6 DEF CancelLifetime, FreeSlot, CloseHandle
<1>7. CASE Allow(c)
  BY <1>7 DEF Allow
<1>8. CASE AcquireSlot(c)
  BY <1>8 DEF AcquireSlot
<1>9. CASE SignalSlot(c)
  BY <1>9 DEF SignalSlot
<1>10. CASE StartSession(c)
  BY <1>10 DEF StartSession
<1>11. CASE TakeResult(c)
  BY <1>11 DEF TakeResult
<1>12. CASE CancelSession(c)
  BY <1>12 DEF CancelSession
<1>13. CASE Respond(c)
  BY <1>13 DEF Respond
<1> QED
  BY <1>1, <1>2, <1>3, <1>4, <1>5, <1>6, <1>7, <1>8, <1>9, <1>10, <1>11, <1>12,
     <1>13 DEF Worker

\* The main run loop (the session block, the alert and its timer, the evaluation
\* of the policy) keeps the session invariant.
LEMMA SessionMain ==
  ASSUME TypeOK, SessionInv, NEW c \in Conn, Main(c)
  PROVE  SessionInv'
<1> USE DEF TypeOK, SessionInv, SlotOwned, MainSerial, SessionOrder,
            ContextOwned, AbandonedMeansCancelled, AlertExcludesPrompt, Pending,
            BlockGoto, Guard, Check, Complete, Waiters, Owners, Answers, OnMain,
            None, world, pool, request, limiter, session, reply, user, notMain
<1>1. CASE RunBlock(c)
  BY <1>1 DEF RunBlock, MainIdle
<1>2. CASE ShowAlert(c)
  BY <1>2 DEF ShowAlert, Alive
<1>3. CASE AbortAlert(c)
  BY <1>3 DEF AbortAlert
<1>4. CASE PolicyGuard(c)
  BY <1>4 DEF PolicyGuard
<1>5. CASE CloseAlert(c)
  BY <1>5 DEF CloseAlert
<1>6. ASSUME NEW can \in BOOLEAN, CanEvaluatePolicy(c, can) PROVE SessionInv'
  BY <1>6 DEF CanEvaluatePolicy
<1>7. CASE EvaluatePolicy(c)
  BY <1>7 DEF EvaluatePolicy
<1> QED
  BY <1>1, <1>2, <1>3, <1>4, <1>5, <1>6, <1>7 DEF Main

\* The accept loop, the clocks, the peers, the user and LocalAuthentication's
\* late callbacks keep the session invariant.
LEMMA SessionOthers ==
  ASSUME TypeOK, SessionInv,
         Tick \/ StepWall \/ Exit \/ UNCHANGED vars
         \/ \E c \in Conn : AcceptLoop(c) \/ Environment(c) \/ Callback(c)
  PROVE  SessionInv'
<1> USE DEF TypeOK, SessionInv, SlotOwned, MainSerial, SessionOrder,
            ContextOwned, AbandonedMeansCancelled, AlertExcludesPrompt, Pending,
            Waiters, Owners, Answers, OnMain, None, world, pool, request,
            limiter, session, reply, user, notCheck, notPc, notMain
<1>1. CASE Tick \/ StepWall \/ UNCHANGED vars
  BY <1>1 DEF Tick, StepWall, vars
<1>2. CASE Exit
  BY <1>2 DEF Exit
<1>3. ASSUME NEW c \in Conn, AcceptLoop(c) PROVE SessionInv'
  BY <1>3 DEF AcceptLoop, Accept, AcceptFail
<1>4. ASSUME NEW c \in Conn, Environment(c) PROVE SessionInv'
  <2>1. CASE Connect(c) \/ ReadFrame(c) \/ BadFrame(c) \/ WriteFrame(c)
    BY <2>1 DEF Connect, ReadFrame, BadFrame, WriteFrame, Goto
  <2>2. ASSUME NEW p \in PeerFaults, PeerChange(c, p) PROVE SessionInv'
    BY <2>2 DEF PeerChange
  <2>3. ASSUME NEW yes \in BOOLEAN, UserAnswersAlert(c, yes) PROVE SessionInv'
    BY <2>3 DEF UserAnswersAlert, BlockGoto
  <2>4. ASSUME NEW d \in Decision, UserAnswersPrompt(c, d) PROVE SessionInv'
    BY <2>4 DEF UserAnswersPrompt, Decision
  <2> QED
    BY <1>4, <2>1, <2>2, <2>3, <2>4 DEF Environment
<1>5. ASSUME NEW c \in Conn, Callback(c) PROVE SessionInv'
  BY <1>5 DEF Callback, Complete, Decision
<1> QED
  BY <1>1, <1>2, <1>3, <1>4, <1>5

\* In every reachable state of the agent the coordinator's slot, the posted
\* blocks and what is on screen belong to each other as SessionInv says.
THEOREM SessionInvariant == Spec => []SessionInv
<1>1. TypeOK /\ SessionInv /\ [Next]_vars => SessionInv'
  BY SessionWorker, SessionMain, SessionOthers DEF Next, Quiescent
<1> QED
  BY <1>1, SessionInit, TypeCorrect, PTL DEF Spec

\* For any number of connections, at most one request is in front of the user:
\* the slot is passed on only after the prompt of its owner was taken down, and
\* an alert that outlives its worker keeps the main thread busy.
THEOREM PromptsAreExclusive == Spec => []PromptExclusive
<1>1. SessionInv => PromptExclusive
  BY DEF SessionInv, SlotOwned, MainSerial, ContextOwned, AlertExcludesPrompt,
         PromptExclusive, Showing, Owners, OnMain
<1> QED
  BY <1>1, SessionInvariant, PTL

\* A block left on the main run loop by a worker that gave up finds its
\* lifetime cancelled, whatever the clocks do in between.
THEOREM AbandonedIsCancelled == Spec => []AbandonedMeansCancelled
BY SessionInvariant, PTL DEF SessionInv

-----------------------------------------------------------------------------
(* The user's approval on its way to the peer.                             *)

\* An approval is one the user gave, at every station; the prompt is only
\* reached through the alert.
ApprovalInv ==
  \A c \in Conn :
     /\ "approved" \in {la[c], result[c], decision[c], sent[c]} => c \in touched
     /\ RequireConfirmation =>
          /\ block[c] \in {"approve", "policy", "canEvaluate", "evaluate", "present"}
               => c \in confirmed
          /\ la[c] # "none" => c \in confirmed
          /\ c \in touched => c \in confirmed

\* What is written is bound to the request that was read, and to its deadline;
\* nothing cancels a lifetime between the last check and the write.
WriteInv ==
  \A c \in Conn :
     /\ sent[c] # None => pc[c] \in Unwind \cup {"done"}
     /\ pc[c] \in {"final", "write"} \/ sent[c] # None =>
          response[c] <= expiresAtMs[c]
     /\ pc[c] \in {"absent", "backlog"} => limit[c] = 0
     /\ limit[c] <= deadline[c]
     /\ pc[c] = "write" => c \notin cancelled

\* No step of worker, main thread, callback or clock turns anything but the
\* user's own answer into an approval.
LEMMA ApprovalStep == TypeOK /\ ApprovalInv /\ [Next]_vars => ApprovalInv'
<1> SUFFICES ASSUME TypeOK, ApprovalInv, [Next]_vars PROVE ApprovalInv'
  OBVIOUS
<1> USE DEF TypeOK, ApprovalInv, world, pool, request, limiter, session, reply,
            user, notCheck, notPc, notMain
<1>1. CASE Tick \/ StepWall \/ Exit \/ UNCHANGED vars
  BY <1>1 DEF Tick, StepWall, Exit, vars
<1>2. ASSUME NEW c \in Conn, AcceptLoop(c) \/ Callback(c) PROVE ApprovalInv'
  BY <1>2 DEF AcceptLoop, Accept, AcceptFail, Callback, Complete, Decision
<1>3. ASSUME NEW c \in Conn, Worker(c) PROVE ApprovalInv'
  <2>1. CASE StartWorker(c) \/ ReadFail(c) \/ (\E g \in BOOLEAN : Verify(c, g))
    BY <2>1 DEF StartWorker, ReadFail, Verify
  <2>2. CASE HandlerCheck(c) \/ AcquireSlot(c) \/ PollFail(c) \/ SeeResult(c)
    BY <2>2 DEF HandlerCheck, AcquireSlot, PollFail, SeeResult
  <2>3. CASE Allow(c)
    BY <2>3 DEF Allow
  <2>4. CASE StartSession(c) \/ TakeResult(c)
    BY <2>4 DEF StartSession, TakeResult
  <2>5. CASE CancelSession(c)
    BY <2>5 DEF CancelSession
  <2>6. CASE \/ SignalSlot(c) \/ Respond(c) \/ WriteFail(c)
             \/ CancelLifetime(c) \/ CloseHandle(c) \/ FreeSlot(c)
    BY <2>6 DEF SignalSlot, Respond, WriteFail, CancelLifetime, CloseHandle, FreeSlot
  <2> QED
    BY <1>3, <2>1, <2>2, <2>3, <2>4, <2>5, <2>6 DEF Worker
<1>4. ASSUME NEW c \in Conn, Main(c) PROVE ApprovalInv'
  <2> USE DEF BlockGoto, Guard, Complete
  <2>1. CASE RunBlock(c) \/ ShowAlert(c) \/ AbortAlert(c) \/ PolicyGuard(c)
    BY <2>1 DEF RunBlock, ShowAlert, AbortAlert, PolicyGuard
  <2>2. CASE CloseAlert(c)
    BY <2>2 DEF CloseAlert
  <2>3. ASSUME NEW can \in BOOLEAN, CanEvaluatePolicy(c, can) PROVE ApprovalInv'
    BY <2>3 DEF CanEvaluatePolicy
  <2>4. CASE EvaluatePolicy(c)
    BY <2>4 DEF EvaluatePolicy
  <2> QED
    BY <1>4, <2>1, <2>2, <2>3, <2>4 DEF Main
<1>5. ASSUME NEW c \in Conn, Environment(c) PROVE ApprovalInv'
  <2>1. CASE Connect(c) \/ ReadFrame(c) \/ BadFrame(c) \/ WriteFrame(c)
    BY <2>1 DEF Connect, ReadFrame, BadFrame, WriteFrame
  <2>2. ASSUME NEW p \in PeerFaults, PeerChange(c, p) PROVE ApprovalInv'
    BY <2>2 DEF PeerChange
  <2>3. ASSUME NEW yes \in BOOLEAN, UserAnswersAlert(c, yes) PROVE ApprovalInv'
    BY <2>3 DEF UserAnswersAlert, BlockGoto
  <2>4. ASSUME NEW d \in Decision, UserAnswersPrompt(c, d) PROVE ApprovalInv'
    BY <2>4 DEF UserAnswersPrompt, Decision
  <2> QED
    BY <1>5, <2>1, <2>2, <2>3, <2>4 DEF Environment
<1> QED
  BY <1>1, <1>2, <1>3, <1>4, <1>5 DEF Next, Quiescent

\* A worker that has reached the write of its response has just seen its request
\* alive: no other thread cancels a request between that check and the write.
LEMMA WriteStep == TypeOK /\ SessionInv /\ WriteInv /\ [Next]_vars => WriteInv'
<1> SUFFICES ASSUME TypeOK, SessionInv, WriteInv, [Next]_vars PROVE WriteInv'
  OBVIOUS
<1> USE DEF TypeOK, WriteInv, Unwind, None, world, pool, request, limiter,
            session, reply, user, notCheck, notPc, notMain
<1>1. CASE Tick \/ StepWall \/ Exit \/ UNCHANGED vars
  BY <1>1 DEF Tick, StepWall, Exit, vars
<1>2. ASSUME NEW c \in Conn, AcceptLoop(c) \/ Callback(c) PROVE WriteInv'
  BY <1>2, NatAssumption DEF AcceptLoop, Accept, AcceptFail, Callback
<1>3. ASSUME NEW c \in Conn, Worker(c) PROVE WriteInv'
  <2> USE DEF Goto, CheckThen, Check
  <2>1. CASE StartWorker(c)
    BY <2>1, NatAssumption DEF StartWorker, Lesser
  <2>2. ASSUME NEW g \in BOOLEAN, Verify(c, g) PROVE WriteInv'
    BY <2>2 DEF Verify, Lesser
  <2>3. CASE HandlerCheck(c)
    BY <2>3 DEF HandlerCheck, Alive
  <2>4. CASE PollFail(c) \/ CancelLifetime(c) \/ StartSession(c) \/ TakeResult(c)
    BY <2>4 DEF PollFail, CancelLifetime, StartSession, TakeResult
  <2>5. CASE Allow(c) \/ AcquireSlot(c) \/ SeeResult(c) \/ CancelSession(c)
    BY <2>5 DEF Allow, AcquireSlot, SeeResult, CancelSession
  <2>6. CASE Respond(c)
    BY <2>6, NatAssumption DEF Respond, Lesser
  <2>7. CASE \/ ReadFail(c) \/ SignalSlot(c) \/ WriteFail(c) \/ CloseHandle(c)
             \/ FreeSlot(c)
    BY <2>7 DEF ReadFail, SignalSlot, WriteFail, CloseHandle, FreeSlot
  <2> QED
    BY <1>3, <2>1, <2>2, <2>3, <2>4, <2>5, <2>6, <2>7 DEF Worker
<1>4. ASSUME NEW c \in Conn, Main(c) PROVE WriteInv'
  <2>1. Pending(c) => pc[c] # "write"
    BY DEF SessionInv, SessionOrder, Answers
  <2>2. Pending(c) /\ cancelled' \subseteq cancelled \cup {c}
    BY <1>4 DEF Main, RunBlock, ShowAlert, AbortAlert, CloseAlert, PolicyGuard,
                CanEvaluatePolicy, EvaluatePolicy, BlockGoto, Guard, Check,
                Pending, OnMain
  <2>3. UNCHANGED notMain
    BY <1>4 DEF Main, RunBlock, ShowAlert, AbortAlert, CloseAlert, PolicyGuard,
                CanEvaluatePolicy, EvaluatePolicy
  <2> QED
    BY <2>1, <2>2, <2>3
<1>5. ASSUME NEW c \in Conn, Environment(c) PROVE WriteInv'
  <2>1. CASE Connect(c) \/ ReadFrame(c) \/ BadFrame(c)
    BY <2>1 DEF Connect, ReadFrame, BadFrame, Goto
  <2>2. CASE WriteFrame(c)
    BY <2>2 DEF WriteFrame, Goto
  <2>3. ASSUME NEW p \in PeerFaults, PeerChange(c, p) PROVE WriteInv'
    BY <2>3 DEF PeerChange
  <2>4. ASSUME NEW yes \in BOOLEAN, UserAnswersAlert(c, yes) PROVE WriteInv'
    BY <2>4 DEF UserAnswersAlert
  <2>5. ASSUME NEW d \in Decision, UserAnswersPrompt(c, d) PROVE WriteInv'
    BY <2>5 DEF UserAnswersPrompt
  <2> QED
    BY <1>5, <2>1, <2>2, <2>3, <2>4, <2>5 DEF Environment
<1> QED
  BY <1>1, <1>2, <1>3, <1>4, <1>5 DEF Next, Quiescent

\* Both facts about answers hold in every reachable state of the agent.
LEMMA ApprovalInvariants == Spec => [](ApprovalInv /\ WriteInv)
<1>1. Init => ApprovalInv /\ WriteInv
  BY DEF Init, ApprovalInv, WriteInv, None
<1> QED
  BY <1>1, ApprovalStep, WriteStep, TypeCorrect, SessionInvariant, PTL DEF Spec

\* For any number of connections and any behaviour of clocks, peers and late
\* callbacks, an approval that is sent was given by the user to that request.
THEOREM ApprovalsComeFromTheUser == Spec => []ApprovedByUser
<1>1. ApprovalInv /\ WriteInv => ApprovedByUser
  BY DEF ApprovalInv, WriteInv, ApprovedByUser, None
<1> QED
  BY <1>1, ApprovalInvariants, PTL

\* Nothing is written for a request that any thread cancelled or whose deadline
\* has passed.
THEOREM AnswersAreAlive == Spec => AnswerWhileAlive
<1>1. TypeOK /\ WriteInv /\ [Next]_vars => [LiveAnswer]_vars
  <2> SUFFICES ASSUME TypeOK, WriteInv, Next, NEW c \in Conn, sent'[c] # sent[c]
               PROVE  c \notin cancelled /\ uptime < limit[c] /\ limit[c] <= deadline[c]
    BY DEF LiveAnswer
  <2>1. PICK d \in Conn : WriteFrame(d)
    <3> USE DEF world, pool, request, limiter, session, reply, user, notCheck,
                notPc, notMain, vars
    <3>1. CASE Tick \/ StepWall \/ Exit \/ Quiescent
      BY <3>1 DEF Tick, StepWall, Exit, Quiescent
    <3>2. ASSUME NEW d \in Conn, AcceptLoop(d) \/ Callback(d) PROVE FALSE
      BY <3>2 DEF AcceptLoop, Accept, AcceptFail, Callback
    <3>3. ASSUME NEW d \in Conn, Worker(d) PROVE FALSE
      BY <3>3 DEF Worker, StartWorker, ReadFail, Verify, HandlerCheck, Allow,
         AcquireSlot, PollFail, StartSession, SeeResult, TakeResult,
         CancelSession, SignalSlot, Respond, WriteFail, CancelLifetime,
         CloseHandle, FreeSlot
    <3>4. ASSUME NEW d \in Conn, Main(d) PROVE FALSE
      BY <3>4 DEF Main, RunBlock, ShowAlert, AbortAlert, CloseAlert,
         PolicyGuard, CanEvaluatePolicy, EvaluatePolicy
    <3>5. ASSUME NEW d \in Conn, Environment(d), ~WriteFrame(d) PROVE FALSE
      BY <3>5 DEF Environment, Connect, PeerChange, ReadFrame, BadFrame,
         UserAnswersAlert, UserAnswersPrompt
    <3> QED
      BY <3>1, <3>2, <3>3, <3>4, <3>5 DEF Next
  <2> QED
    BY <2>1 DEF WriteFrame, Goto, TypeOK, WriteInv
<1> QED
  BY <1>1, TypeCorrect, ApprovalInvariants, PTL DEF Spec, AnswerWhileAlive

-----------------------------------------------------------------------------
(* The connection pool.                                                    *)

\* The connections that hold a slot of the pool.
Admitted == {c \in Conn : pc[c] \in InPool}

\* What a step may do to the pool: leave it alone, admit a connection while a
\* slot is free, take a slot back, or end with the process.
PoolStep ==
  \/ slots' = slots /\ Admitted' = Admitted
  \/ \E c \in Conn \ Admitted :
        slots > 0 /\ slots' = slots - 1 /\ Admitted' = Admitted \cup {c}
  \/ \E c \in Admitted : slots' = slots + 1 /\ Admitted' = Admitted \ {c}
  \/ slots' = PoolLimit /\ Admitted' = {}

\* Only runSocketServer's admission and the deferred slots.signal() move a
\* connection into or out of the pool; every way a handler can end stays in it.
LEMMA PoolSteps == ASSUME TypeOK, [Next]_vars PROVE PoolStep
<1> USE DEF TypeOK, PoolStep, Admitted, Positions, InPool, Waiters, Owners,
            Answers, Unwind, world, pool, request, limiter, session, reply,
            user, notCheck, notPc, notMain
<1>1. CASE Tick \/ StepWall \/ UNCHANGED vars
  BY <1>1 DEF Tick, StepWall, vars
<1>2. CASE Exit
  BY <1>2 DEF Exit
<1>3. ASSUME NEW c \in Conn, AcceptLoop(c) PROVE PoolStep
  <2>1. CASE Accept(c)
    BY <2>1 DEF Accept
  <2>2. CASE AcceptFail(c)
    BY <2>2 DEF AcceptFail
  <2> QED
    BY <1>3, <2>1, <2>2 DEF AcceptLoop
<1>4. ASSUME NEW c \in Conn, Worker(c) PROVE PoolStep
  <2> USE DEF Goto, CheckThen
  <2>1. CASE FreeSlot(c)
    BY <2>1 DEF FreeSlot
  <2>2. CASE StartWorker(c) \/ ReadFail(c) \/ (\E g \in BOOLEAN : Verify(c, g))
    BY <2>2 DEF StartWorker, ReadFail, Verify
  <2>3. CASE HandlerCheck(c) \/ Allow(c) \/ PollFail(c)
    BY <2>3 DEF HandlerCheck, Allow, PollFail
  <2>4. CASE AcquireSlot(c) \/ StartSession(c) \/ SeeResult(c) \/ TakeResult(c)
    BY <2>4 DEF AcquireSlot, StartSession, SeeResult, TakeResult
  <2>5. CASE CancelSession(c) \/ SignalSlot(c) \/ Respond(c) \/ WriteFail(c)
    BY <2>5 DEF CancelSession, SignalSlot, Respond, WriteFail
  <2>6. CASE CancelLifetime(c) \/ CloseHandle(c)
    BY <2>6 DEF CancelLifetime, CloseHandle
  <2> QED
    BY <1>4, <2>1, <2>2, <2>3, <2>4, <2>5, <2>6 DEF Worker
<1>5. ASSUME NEW c \in Conn, Main(c) \/ Callback(c) PROVE PoolStep
  <2>1. UNCHANGED notMain
    BY <1>5 DEF Main, RunBlock, ShowAlert, AbortAlert, CloseAlert, PolicyGuard,
                CanEvaluatePolicy, EvaluatePolicy, Callback
  <2> QED
    BY <2>1
<1>6. ASSUME NEW c \in Conn, Environment(c) PROVE PoolStep
  <2>1. CASE Connect(c) \/ ReadFrame(c) \/ BadFrame(c) \/ WriteFrame(c)
    BY <2>1 DEF Connect, ReadFrame, BadFrame, WriteFrame, Goto
  <2>2. CASE \/ \E when \in PeerFaults : PeerChange(c, when)
             \/ \E yes \in BOOLEAN : UserAnswersAlert(c, yes)
             \/ \E d \in Decision : UserAnswersPrompt(c, d)
    BY <2>2 DEF PeerChange, UserAnswersAlert, UserAnswersPrompt
  <2> QED
    BY <1>6, <2>1, <2>2 DEF Environment
<1> QED
  BY <1>1, <1>2, <1>3, <1>4, <1>5, <1>6 DEF Next, Quiescent

\* For any number of connections and any size of the pool, every connection
\* that is served holds exactly one slot: none is lost or returned twice,
\* whichever way its handler ends (ConnectionPool.submit).
THEOREM SlotsAreConserved == Spec => []PoolConserved
<1> DEFINE Conserved == slots + Cardinality(Admitted) = PoolLimit
<1>1. Conserved <=> PoolConserved
  BY DEF Admitted, PoolConserved
<1>2. Init => Conserved
  <2> SUFFICES ASSUME Init PROVE Conserved
    OBVIOUS
  <2>1. Admitted = {}
    BY DEF Init, Admitted, InPool, Waiters, Owners, Answers, Unwind
  <2>2. slots = PoolLimit /\ PoolLimit \in Nat
    BY NatAssumption DEF Init
  <2> QED
    BY <2>1, <2>2, FS_EmptySet
<1>3. TypeOK /\ Conserved /\ [Next]_vars => Conserved'
  <2> SUFFICES ASSUME TypeOK, Conserved, [Next]_vars PROVE Conserved'
    OBVIOUS
  <2>1. IsFiniteSet(Admitted) /\ Cardinality(Admitted) \in Nat
    BY ConnAssumption, FS_Subset, FS_CardinalityType DEF Admitted
  <2>2. slots \in Nat /\ PoolLimit \in Nat
    BY NatAssumption DEF TypeOK
  <2>3. PoolStep
    BY PoolSteps
  <2>4. CASE slots' = slots /\ Admitted' = Admitted
    BY <2>4
  <2>5. ASSUME NEW c \in Conn \ Admitted, slots > 0, slots' = slots - 1,
               Admitted' = Admitted \cup {c}
        PROVE  Conserved'
    BY <2>1, <2>2, <2>5, FS_AddElement
  <2>6. ASSUME NEW c \in Admitted, slots' = slots + 1,
               Admitted' = Admitted \ {c}
        PROVE  Conserved'
    <3>1. Cardinality(Admitted \ {c}) = Cardinality(Admitted) - 1
      BY <2>1, FS_RemoveElement
    <3> QED
      BY <2>1, <2>2, <2>6, <3>1
  <2>7. CASE slots' = PoolLimit /\ Admitted' = {}
    BY <2>2, <2>7, FS_EmptySet
  <2> QED
    BY <2>3, <2>4, <2>5, <2>6, <2>7 DEF PoolStep
<1> QED
  BY <1>1, <1>2, <1>3, TypeCorrect, PTL DEF Spec

-----------------------------------------------------------------------------
(* The rate limiter.                                                       *)

\* Positions of a worker the limiter has not let through yet.
BeforeGrant == {"absent", "backlog"} \cup (Waiters \ {"slot"})

\* The requests of G whose key is k and that were let through between t and
\* t + WindowMs, given the keys ky.
InWindow(G, ky, k, t) ==
  {g \in G : ky[g[1]] = k /\ g[2] \in t..(t + WindowMs)}

\* The limiter still holds the event of g, at the time the wall clock showed
\* then, or a whole window has passed since.  True while that clock only runs.
Remembered(g) ==
  \/ g[2] + WindowMs < uptime
  \/ \E w \in Nat : /\ <<g[1], w>> \in eventsByKey[key[g[1]]]
                    /\ w + uptime = g[2] + wall

\* old: the requests let through before the wall clock was last set.
SinceClockSet(old) ==
  /\ \A k \in Key, t \in Nat :
        Cardinality(InWindow(old, key, k, t)) <= MaxRequests * wallSteps
  /\ \A k \in Key, t \in Nat :
        Cardinality(InWindow(grants \ old, key, k, t)) <= MaxRequests
  /\ \A g \in grants \ old : Remembered(g)

RateInv ==
  /\ IsFiniteSet(grants)
  /\ \A k \in Key : IsFiniteSet(eventsByKey[k])
  /\ \A g \in grants : pc[g[1]] \notin BeforeGrant
  /\ \E old \in SUBSET grants : SinceClockSet(old)

\* What a step does to the limiter and to the requests it let through.
KeysStay ==
  \A c \in Conn : pc[c] \notin BeforeGrant =>
     pc'[c] \notin BeforeGrant /\ key'[c] = key[c]
LimiterIdle == UNCHANGED <<uptime, wall, wallSteps, eventsByKey, grants>>

\* A request that passed RateLimiter.allow keeps its key, and no other step of
\* the agent touches the limiter.
LEMMA RateSteps ==
  ASSUME TypeOK, [Next]_vars
  PROVE  /\ KeysStay
         /\ LimiterIdle \/ Tick \/ StepWall \/ \E c \in Conn : Allow(c)
<1> DEFINE Goal == KeysStay /\ (LimiterIdle \/ Tick \/ StepWall \/ \E c \in Conn : Allow(c))
<1> USE DEF TypeOK, KeysStay, LimiterIdle, BeforeGrant, Waiters, world, pool,
            request, limiter, session, reply, user, notCheck, notPc, notMain
<1>1. CASE Tick \/ StepWall
  <2>1. UNCHANGED <<pc, key>>
    BY <1>1 DEF Tick, StepWall
  <2> QED
    BY <1>1, <2>1
<1>2. CASE Exit \/ UNCHANGED vars
  BY <1>2 DEF Exit, vars
<1>3. ASSUME NEW c \in Conn, AcceptLoop(c) PROVE Goal
  BY <1>3 DEF AcceptLoop, Accept, AcceptFail
<1>4. ASSUME NEW c \in Conn, Worker(c) PROVE Goal
  <2> USE DEF Goto, CheckThen
  <2>1. CASE Allow(c)
    <3>1. KeysStay
      BY <2>1 DEF Allow
    <3> QED
      BY <2>1, <3>1
  <2>2. CASE StartWorker(c) \/ ReadFail(c) \/ (\E g \in BOOLEAN : Verify(c, g))
    BY <2>2 DEF StartWorker, ReadFail, Verify
  <2>3. CASE HandlerCheck(c) \/ PollFail(c)
    BY <2>3 DEF HandlerCheck, PollFail
  <2>4. CASE AcquireSlot(c) \/ StartSession(c) \/ SeeResult(c) \/ TakeResult(c)
    BY <2>4 DEF AcquireSlot, StartSession, SeeResult, TakeResult
  <2>5. CASE CancelSession(c) \/ SignalSlot(c) \/ Respond(c) \/ WriteFail(c)
    BY <2>5 DEF CancelSession, SignalSlot, Respond, WriteFail
  <2>6. CASE CancelLifetime(c) \/ CloseHandle(c) \/ FreeSlot(c)
    BY <2>6 DEF CancelLifetime, CloseHandle, FreeSlot
  <2> QED
    BY <1>4, <2>1, <2>2, <2>3, <2>4, <2>5, <2>6 DEF Worker
<1>5. ASSUME NEW c \in Conn, Main(c) \/ Callback(c) PROVE Goal
  <2>1. UNCHANGED notMain
    BY <1>5 DEF Main, RunBlock, ShowAlert, AbortAlert, CloseAlert, PolicyGuard,
                CanEvaluatePolicy, EvaluatePolicy, Callback
  <2> QED
    BY <2>1
<1>6. ASSUME NEW c \in Conn, Environment(c) PROVE Goal
  <2>1. CASE Connect(c) \/ ReadFrame(c) \/ BadFrame(c) \/ WriteFrame(c)
    BY <2>1 DEF Connect, ReadFrame, BadFrame, WriteFrame, Goto
  <2>2. CASE \/ \E when \in PeerFaults : PeerChange(c, when)
             \/ \E yes \in BOOLEAN : UserAnswersAlert(c, yes)
             \/ \E d \in Decision : UserAnswersPrompt(c, d)
    BY <2>2 DEF PeerChange, UserAnswersAlert, UserAnswersPrompt
  <2> QED
    BY <1>6, <2>1, <2>2 DEF Environment
<1> QED
  BY <1>1, <1>2, <1>3, <1>4, <1>5, <1>6 DEF Next, Quiescent

\* A window over requests that were let through does not change with the keys
\* that readJSONFrame gives to other connections.
LEMMA WindowStays ==
  ASSUME TypeOK, KeysStay, \A g \in grants : pc[g[1]] \notin BeforeGrant,
         NEW G \in SUBSET grants, NEW k, NEW t
  PROVE  InWindow(G, key', k, t) = InWindow(G, key, k, t)
<1>1. \A g \in G : key'[g[1]] = key[g[1]]
  BY DEF TypeOK, KeysStay
<1> QED
  BY <1>1 DEF InWindow

\* A window over part of the finitely many requests is finite.
LEMMA WindowFinite ==
  ASSUME IsFiniteSet(grants), NEW G \in SUBSET grants, NEW ky, NEW k, NEW t
  PROVE  /\ IsFiniteSet(InWindow(G, ky, k, t))
         /\ Cardinality(InWindow(G, ky, k, t)) \in Nat
<1>1. InWindow(G, ky, k, t) \in SUBSET grants
  BY DEF InWindow
<1> QED
  BY <1>1, FS_Subset, FS_CardinalityType

\* Setting the clock starts a new allowance: the window then holds at most one
\* allowance for each time it was set, and one more.
LEMMA WindowTotal ==
  ASSUME TypeOK, RateInv, NEW k \in Key, NEW t \in Nat
  PROVE  Cardinality(InWindow(grants, key, k, t)) <= MaxRequests * (wallSteps + 1)
<1>1. PICK old \in SUBSET grants : SinceClockSet(old)
  BY DEF RateInv
<1> DEFINE A == InWindow(old, key, k, t)
           B == InWindow(grants \ old, key, k, t)
<1>2. InWindow(grants, key, k, t) = A \cup B
  BY DEF InWindow
<1>3. /\ IsFiniteSet(A) /\ Cardinality(A) \in Nat
      /\ IsFiniteSet(B) /\ Cardinality(B) \in Nat
  BY WindowFinite DEF RateInv
<1>4. Cardinality(A) <= MaxRequests * wallSteps /\ Cardinality(B) <= MaxRequests
  BY <1>1 DEF SinceClockSet
<1>5. A \cap B = {}
  BY DEF InWindow
<1> HIDE DEF A, B
<1>6. Cardinality(A \cup B) = Cardinality(A) + Cardinality(B)
  <2>1. Cardinality(A \cap B) = 0
    BY <1>5, FS_EmptySet
  <2>2. Cardinality(A \cup B) =
          Cardinality(A) + Cardinality(B) - Cardinality(A \cap B)
    BY <1>3, FS_Union
  <2> QED
    BY <1>3, <2>1, <2>2
<1>7. MaxRequests \in Nat /\ wallSteps \in Nat
  BY NatAssumption DEF TypeOK
<1>8. MaxRequests * (wallSteps + 1) = MaxRequests * wallSteps + MaxRequests
  BY <1>7
<1>9. MaxRequests * wallSteps \in Nat
  BY <1>7
<1> QED
  BY <1>2, <1>3, <1>4, <1>6, <1>7, <1>8, <1>9

\* allow drops no event of the last window: a request that is still in it and
\* came after the clock was last set has its event among the kept ones.
LEMMA RecentIsKept ==
  ASSUME TypeOK, NEW g \in grants, Remembered(g), uptime <= g[2] + WindowMs
  PROVE  <<g[1], (g[2] + wall) - uptime>> \in Kept(key[g[1]])
<1>1. g[2] \in Nat /\ uptime \in Nat /\ wall \in Nat /\ WindowMs \in Nat
  BY NatAssumption DEF TypeOK
<1>2. PICK w \in Nat : /\ <<g[1], w>> \in eventsByKey[key[g[1]]]
                       /\ w + uptime = g[2] + wall
  <2>1. ~(g[2] + WindowMs < uptime)
    BY <1>1
  <2> QED
    BY <2>1, Zenon DEF Remembered
<1>3. w = (g[2] + wall) - uptime /\ w + WindowMs >= wall
  BY <1>1, <1>2
<1>4. w >= Cutoff
  BY <1>1, <1>3 DEF Cutoff
<1> QED
  BY <1>2, <1>3, <1>4 DEF Kept

\* A step that leaves the limiter's clock alone and forgets no kept event
\* forgets no request of the last window.
LEMMA StillRemembered ==
  ASSUME TypeOK, UNCHANGED <<uptime, wall>>, KeysStay,
         \A k \in Key : Kept(k) \subseteq eventsByKey'[k],
         NEW g \in grants, pc[g[1]] \notin BeforeGrant, Remembered(g)
  PROVE  Remembered(g)'
<1>1. g[2] \in Nat /\ uptime \in Nat /\ wall \in Nat /\ WindowMs \in Nat
  BY NatAssumption DEF TypeOK
<1>2. g[1] \in Conn /\ key[g[1]] \in Key /\ key'[g[1]] = key[g[1]]
  BY DEF TypeOK, KeysStay
<1>3. CASE g[2] + WindowMs < uptime
  BY <1>3 DEF Remembered
<1>4. CASE ~(g[2] + WindowMs < uptime)
  <2>1. <<g[1], (g[2] + wall) - uptime>> \in Kept(key[g[1]])
    BY <1>1, <1>4, RecentIsKept
  <2>2. Kept(key[g[1]]) \subseteq Conn \X Nat
    BY <1>2 DEF Kept, TypeOK
  <2>3. (g[2] + wall) - uptime \in Nat
    BY <2>1, <2>2
  <2>4. <<g[1], (g[2] + wall) - uptime>> \in eventsByKey'[key'[g[1]]]
    BY <1>2, <2>1
  <2>5. ((g[2] + wall) - uptime) + uptime' = g[2] + wall'
    BY <1>1
  <2> QED
    BY <2>3, <2>4, <2>5 DEF Remembered
<1> QED
  BY <1>3, <1>4

\* A request that RateLimiter.allow lets through is at most the MaxRequests-th
\* of its key in any window since the clock was last set: the others have their
\* events among the kept ones, of which there are fewer.
LEMMA GrantFits ==
  ASSUME TypeOK, RateInv, NEW old \in SUBSET grants, SinceClockSet(old),
         NEW k \in Key, NEW t \in Nat, uptime \in t..(t + WindowMs)
  PROVE  Cardinality(InWindow(grants \ old, key, k, t)) <= Cardinality(Kept(k))
<1> DEFINE R == InWindow(grants \ old, key, k, t)
           f == [g \in R |-> <<g[1], (g[2] + wall) - uptime>>]
<1>1. \A g \in R : g \in grants /\ Remembered(g) /\ key[g[1]] = k /\ g[2] >= t
  BY DEF InWindow, SinceClockSet, TypeOK
<1>2. \A g \in R : g[2] \in Nat /\ uptime <= g[2] + WindowMs
  BY <1>1, NatAssumption DEF TypeOK
<1>3. \A g \in R : f[g] \in Kept(k)
  BY <1>1, <1>2, RecentIsKept
<1>4. \A g, h \in R : f[g] = f[h] => g = h
  <2> SUFFICES ASSUME NEW g \in R, NEW h \in R, f[g] = f[h] PROVE g = h
    OBVIOUS
  <2>1. g[1] = h[1] /\ (g[2] + wall) - uptime = (h[2] + wall) - uptime
    OBVIOUS
  <2>2. uptime \in Nat /\ wall \in Nat /\ g \in Conn \X Nat /\ h \in Conn \X Nat
    BY <1>1 DEF TypeOK
  <2>3. g[2] = h[2]
    BY <2>1, <2>2
  <2> QED
    BY <2>1, <2>2, <2>3
<1>5. f \in Injection(R, Kept(k))
  BY <1>3, <1>4 DEF Injection, IsInjective
<1>6. IsFiniteSet(Kept(k))
  BY FS_Subset DEF RateInv, Kept
<1> HIDE DEF R, f
<1> QED
  BY <1>5, <1>6, FS_Injection DEF R

\* Every step keeps the limiter's accounts.
LEMMA RateStep == TypeOK /\ RateInv /\ [Next]_vars => RateInv'
<1> SUFFICES ASSUME TypeOK, RateInv, [Next]_vars PROVE RateInv'
  OBVIOUS
<1>1. KeysStay /\ (LimiterIdle \/ Tick \/ StepWall \/ \E c \in Conn : Allow(c))
  BY RateSteps
<1>2. \A g \in grants : pc[g[1]] \notin BeforeGrant /\ pc'[g[1]] \notin BeforeGrant
  BY <1>1 DEF RateInv, KeysStay, TypeOK
<1>3. PICK old \in SUBSET grants : SinceClockSet(old)
  BY DEF RateInv
<1>4. \A G \in SUBSET grants : \A k, t : InWindow(G, key', k, t) = InWindow(G, key, k, t)
  BY <1>1, <1>2, WindowStays
<1>5. CASE LimiterIdle \/ Tick
  <2>1. UNCHANGED <<grants, eventsByKey, wallSteps>>
    BY <1>5 DEF LimiterIdle, Tick, limiter
  <2>2. \A g \in grants : key'[g[1]] = key[g[1]] /\ g[2] \in Nat
    BY <1>1, <1>2 DEF KeysStay, TypeOK
  <2>3. ASSUME NEW g \in grants \ old PROVE Remembered(g)'
    <3>1. \/ uptime' = uptime /\ wall' = wall
          \/ uptime' = uptime + 1 /\ wall' = wall + 1
      BY <1>5 DEF LimiterIdle, Tick
    <3>2. Remembered(g)
      BY <1>3 DEF SinceClockSet
    <3>3. uptime \in Nat /\ wall \in Nat /\ g[2] \in Nat /\ WindowMs \in Nat
      BY <2>2, NatAssumption DEF TypeOK
    <3>4. CASE g[2] + WindowMs < uptime
      <4>1. g[2] + WindowMs < uptime'
        BY <3>1, <3>3, <3>4
      <4> QED
        BY <4>1 DEF Remembered
    <3>5. ASSUME NEW w \in Nat, <<g[1], w>> \in eventsByKey[key[g[1]]],
                 w + uptime = g[2] + wall
          PROVE  Remembered(g)'
      <4>1. w + uptime' = g[2] + wall'
        BY <3>1, <3>3, <3>5
      <4>2. <<g[1], w>> \in eventsByKey'[key'[g[1]]]
        BY <2>1, <2>2, <3>5
      <4> QED
        BY <4>1, <4>2 DEF Remembered
    <3> QED
      BY <3>2, <3>4, <3>5 DEF Remembered
  <2>4. SinceClockSet(old)'
    BY <1>3, <1>4, <2>1, <2>3 DEF SinceClockSet
  <2> QED
    BY <1>2, <2>1, <2>4 DEF RateInv
<1>6. CASE StepWall
  <2>1. UNCHANGED <<grants, eventsByKey>> /\ wallSteps' = wallSteps + 1
    BY <1>6 DEF StepWall, limiter
  <2>2. PICK G : G = grants
    OBVIOUS
  <2>3. \A k \in Key, t \in Nat :
          Cardinality(InWindow(G, key', k, t)) <= MaxRequests * wallSteps'
    BY <1>4, <2>1, <2>2, WindowTotal
  <2>4. \A k \in Key, t \in Nat :
          Cardinality(InWindow(grants' \ G, key', k, t)) <= MaxRequests
    <3>1. \A k, t : InWindow(grants' \ G, key', k, t) = {}
      BY <2>1, <2>2 DEF InWindow
    <3>2. MaxRequests \in Nat
      BY NatAssumption
    <3> QED
      BY <3>1, <3>2, FS_EmptySet
  <2>5. SinceClockSet(G)'
    BY <2>1, <2>2, <2>3, <2>4 DEF SinceClockSet
  <2> QED
    BY <1>2, <2>1, <2>2, <2>5 DEF RateInv
<1>7. ASSUME NEW c \in Conn, Allow(c) PROVE RateInv'
  <2>1. UNCHANGED <<uptime, wall, wallSteps, key>>
    BY <1>7 DEF Allow, world, request
  <2>2. key[c] \in Key /\ eventsByKey \in [Key -> SUBSET (Conn \X Nat)]
    BY DEF TypeOK
  <2>3. \A k \in Key : Kept(k) \subseteq eventsByKey'[k]
    BY <1>7, <2>2 DEF Allow, Kept
  <2>4. \A g \in grants \ old : Remembered(g)'
    BY <1>1, <1>2, <1>3, <2>1, <2>3, StillRemembered DEF SinceClockSet
  <2>5. \A k \in Key : IsFiniteSet(Kept(k))
    BY FS_Subset DEF RateInv, Kept
  <2>6. \A k \in Key : IsFiniteSet(eventsByKey'[k])
    <3>1. \A k \in Key : IsFiniteSet(Kept(k) \cup {<<c, wall>>})
      BY <2>5, FS_AddElement
    <3>2. \A k \in Key : \/ eventsByKey'[k] = eventsByKey[k]
                         \/ eventsByKey'[k] = Kept(k)
                         \/ eventsByKey'[k] = Kept(k) \cup {<<c, wall>>}
      BY <1>7, <2>2 DEF Allow
    <3> QED
      BY <2>5, <3>1, <3>2 DEF RateInv
  <2>7. CASE grants' = grants
    <3>1. SinceClockSet(old)'
      BY <1>3, <2>1, <2>4, <2>7 DEF SinceClockSet
    <3> QED
      BY <1>2, <2>6, <2>7, <3>1 DEF RateInv
  <2>8. CASE /\ pc[c] = "limit" /\ pc' = [pc EXCEPT ![c] = "slot"]
             /\ Cardinality(Kept(key[c])) < MaxRequests
             /\ eventsByKey'[key[c]] = Kept(key[c]) \cup {<<c, wall>>}
             /\ grants' = grants \cup {<<c, uptime>>}
    <3>0. PICK new : new = <<c, uptime>>
      OBVIOUS
    <3>1. new \notin grants /\ new \notin old
      BY <1>2, <2>8, <3>0 DEF BeforeGrant, Waiters
    <3>2. grants' \ old = (grants \ old) \cup {new}
      BY <2>8, <3>0, <3>1
    <3>3. IsFiniteSet(grants')
      BY <2>8, FS_AddElement DEF RateInv
    <3>4. \A g \in grants' : pc'[g[1]] \notin BeforeGrant
      <4>1. pc'[c] = "slot"
        BY <2>8 DEF TypeOK
      <4> QED
        BY <1>2, <2>8, <4>1 DEF BeforeGrant, Waiters
    <3>5. Remembered(new)'
      <4>1. wall \in Nat /\ <<c, wall>> \in eventsByKey'[key'[c]]
        BY <2>1, <2>8 DEF TypeOK
      <4>2. new[1] = c /\ new[2] = uptime /\ wall + uptime' = uptime + wall'
        BY <2>1, <3>0 DEF TypeOK
      <4> QED
        BY <4>1, <4>2 DEF Remembered
    <3>6. ASSUME NEW k \in Key, NEW t \in Nat
          PROVE  Cardinality(InWindow(grants' \ old, key, k, t)) <= MaxRequests
      <4> DEFINE R == InWindow(grants \ old, key, k, t)
      <4>1. IsFiniteSet(R) /\ Cardinality(R) \in Nat /\ Cardinality(R) <= MaxRequests
        BY <1>3, WindowFinite DEF RateInv, SinceClockSet
      <4>2. CASE ~(key[c] = k /\ uptime \in t..(t + WindowMs))
        <5>1. InWindow(grants' \ old, key, k, t) = R
          BY <3>0, <3>2, <4>2 DEF InWindow
        <5> QED
          BY <4>1, <5>1
      <4>3. CASE key[c] = k /\ uptime \in t..(t + WindowMs)
        <5>1. InWindow(grants' \ old, key, k, t) = R \cup {new}
          BY <3>0, <3>2, <4>3 DEF InWindow
        <5>2. Cardinality(R) <= Cardinality(Kept(k))
          BY <1>3, <4>3, GrantFits
        <5>3. Cardinality(Kept(k)) \in Nat /\ Cardinality(Kept(k)) < MaxRequests
          BY <2>5, <2>8, <4>3, FS_CardinalityType
        <5>4. MaxRequests \in Nat
          BY NatAssumption
        <5> HIDE DEF R
        <5>5. Cardinality(R \cup {new}) =
                IF new \in R THEN Cardinality(R) ELSE Cardinality(R) + 1
          BY <4>1, FS_AddElement
        <5>6. Cardinality(R \cup {new}) \in Nat
          BY <4>1, FS_AddElement, FS_CardinalityType
        <5> QED
          BY <4>1, <5>1, <5>2, <5>3, <5>4, <5>5, <5>6
      <4> QED
        BY <4>2, <4>3
    <3>7. SinceClockSet(old)'
      <4>1. \A g \in grants' \ old : Remembered(g)'
        BY <2>4, <3>2, <3>5
      <4> QED
        BY <1>3, <2>1, <3>6, <4>1 DEF SinceClockSet
    <3>8. old \in SUBSET grants'
      BY <2>8
    <3> QED
      BY <2>6, <3>3, <3>4, <3>7, <3>8 DEF RateInv
  <2> QED
    BY <1>7, <2>2, <2>7, <2>8 DEF Allow, Goto
<1> QED
  BY <1>1, <1>5, <1>6, <1>7

\* For any number of connections and keys, any window and any maximum, and
\* however often the wall clock is set: a key gets at most MaxRequests requests
\* past RateLimiter.allow within a window of real time, and as many more for
\* each time the clock was set.
THEOREM RateIsBounded == Spec => []RateBound
<1>1. Init => RateInv
  <2> SUFFICES ASSUME Init PROVE RateInv
    OBVIOUS
  <2>1. grants = {} /\ eventsByKey = [k \in Key |-> {}] /\ wallSteps = 0
    BY DEF Init
  <2>2. \A G \in SUBSET grants : \A k, t : InWindow(G, key, k, t) = {}
    BY <2>1 DEF InWindow
  <2>3. MaxRequests \in Nat
    BY NatAssumption
  <2>4. MaxRequests * wallSteps = 0
    BY <2>1, <2>3
  <2>5. SinceClockSet({})
    BY <2>1, <2>2, <2>3, <2>4, FS_EmptySet DEF SinceClockSet
  <2> QED
    BY <2>1, <2>5, FS_EmptySet DEF RateInv
<1>2. TypeOK /\ RateInv => RateBound
  <2> SUFFICES ASSUME TypeOK, RateInv, NEW k \in Key, NEW t \in 0..MaxUptime
               PROVE  Cardinality(InWindow(grants, key, k, t))
                        <= MaxRequests * (1 + wallSteps)
    BY DEF RateBound, InWindow
  <2>1. t \in Nat /\ 1 + wallSteps = wallSteps + 1
    BY NatAssumption DEF TypeOK
  <2> QED
    BY <2>1, WindowTotal
<1> QED
  BY <1>1, <1>2, RateStep, TypeCorrect, PTL DEF Spec

=============================================================================
