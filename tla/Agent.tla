------------------------------- MODULE Agent -------------------------------
(***************************************************************************)
(* The macOS agent (agent/Sources/MacosAuthAgent): the accept loop and     *)
(* connection pool of Transport.swift, the per-connection handler          *)
(* handleServeRequest of main.swift, the AuthenticationCoordinator and     *)
(* LocalAuthenticationSession of Authentication.swift, and the main run    *)
(* loop they share.                                                        *)
(*                                                                         *)
(* Actors: the accept loop; one worker per admitted connection; the main   *)
(* thread, which runs the posted session blocks one at a time; the         *)
(* LocalAuthentication service, which shows the prompt and calls back on a *)
(* thread of its own; the peer; the user; the clocks.  A connection is     *)
(* used once.  Cryptography and JSON are abstract: a frame is genuine or   *)
(* it is refused.                                                          *)
(***************************************************************************)
EXTENDS Naturals, FiniteSets

CONSTANTS
  Conn,                 \* connections that peers may open
  Key,                  \* rate-limit keys: host id | service | user
  Expiry,               \* the expires_at_ms values a request may carry
  PoolLimit,            \* ConnectionPool(limit:)
  ConnectionMs,         \* Deadline of an accepted connection (15 s)
  ReadMs,               \* cap on reading the request frame (2 s)
  ResponseMs,           \* longest life of a response (10 s)
  WindowMs,             \* rate limiter window
  MaxRequests,          \* rate limiter maximum, 0 disables it
  RequireConfirmation,  \* config.require_confirmation
  Modes,                \* how serve may be started: "accepting", "once" (--once)
  PeerFaults,           \* bound: when peers may go away: "early", before they
                        \* are accepted, or "late", after it
  MaxUptime,            \* bound: last instant of the model
  LastArrival,          \* bound: last instant at which a peer connects
  MaxWallSteps          \* bound: how often the wall clock may be set

ASSUME ConnAssumption == IsFiniteSet(Conn)
ASSUME NatAssumption ==
  /\ {PoolLimit, ConnectionMs, ReadMs, ResponseMs, WindowMs, MaxRequests,
      MaxUptime, LastArrival, MaxWallSteps} \subseteq Nat
  /\ Expiry \subseteq Nat
ASSUME KeyAssumption == Key # {}
ASSUME PeerAssumption == PeerFaults \subseteq {"early", "late"}
ASSUME FlagAssumption ==
  /\ RequireConfirmation \in BOOLEAN
  /\ Modes \subseteq {"accepting", "once"}

VARIABLES
  uptime, wall, wallSteps,   \* monotonic clock, wall clock, bound counter
  server,        \* accept loop and its completion
  slots,         \* ConnectionPool.slots
  slot,          \* AuthenticationCoordinator.slot
  peer,          \* the other end of each connection
  pc,            \* where each worker is
  deadline,      \* connection deadline, on the uptime clock
  limit,         \* the deadline now in force: frame cap, then lifetime.deadline
  expiresAtMs,   \* of the request, on the wall clock
  key,           \* rate-limit key of the request
  cancelled,     \* requests whose RequestLifetime is cancelled
  eventsByKey,   \* RateLimiter.eventsByKey, one <<connection, time>> per event
  block,         \* the session's block on the main run loop
  invalidated,   \* sessions whose LAContext was invalidated
  la,            \* LocalAuthentication: prompt shown, reply in flight
  result,        \* LockedResult of the session
  decision,      \* authResult of the handler
  response,      \* expires_at_ms of the response built, 0 before
  sent,          \* decision written to the peer
  confirmed,     \* history: requests the user approved in the alert
  touched,       \* history: requests the user approved in the LA prompt
  grants         \* history: <<request, uptime>> the rate limiter let through

world   == <<uptime, wall, wallSteps, peer>>
pool    == <<server, slots>>
request == <<deadline, limit, expiresAtMs, key>>
limiter == <<eventsByKey, grants>>
session == <<block, invalidated, la, result>>
reply   == <<decision, response, sent>>
user    == <<confirmed, touched>>

\* What a worker step leaves alone that only moves the worker, or only checks
\* its lifetime as well; what a main-thread step leaves alone.
notCheck == <<world, pool, slot, request, limiter, session, reply, user>>
notPc    == <<notCheck, cancelled>>
notMain  == <<world, pool, slot, pc, request, limiter, reply>>
vars     == <<notPc, pc>>

None == "none"
Decision == {"approved", "cancelled", "failed", "unavailable"}

\* Worker positions, in program order.
Waiters  == {"queued", "reading", "verify", "check", "limit", "slot"}
Owners   == {"owned", "waiting", "ready", "invalidate", "signal"}
Answers  == {"recheck", "respond", "final", "write"}
Unwind   == {"cancel", "close", "free"}
InPool   == Waiters \cup Owners \cup Answers \cup Unwind
Closed   == {"free", "done"}
Positions == {"absent", "backlog", "done"} \cup InPool

\* Main-thread positions of a session's block.
OnMain == {"confirm", "alert", "approve", "dismiss", "policy", "canEvaluate",
           "evaluate", "present"}
Blocks == {"none", "posted", "finished"} \cup OnMain
LAStates == {"none", "prompt", "delivered"} \cup Decision

Lesser(a, b) == IF a <= b THEN a ELSE b

-----------------------------------------------------------------------------
(* Clocks, peers and the accept loop.                                      *)

Init ==
  /\ uptime = 0 /\ wall = 0 /\ wallSteps = 0
  /\ server \in Modes
  /\ slots = PoolLimit
  /\ slot = 1
  /\ peer = [c \in Conn |-> "open"]
  /\ pc = [c \in Conn |-> "absent"]
  /\ deadline = [c \in Conn |-> 0]
  /\ limit = [c \in Conn |-> 0]
  /\ expiresAtMs = [c \in Conn |-> 0]
  /\ key = [c \in Conn |-> CHOOSE k \in Key : TRUE]
  /\ cancelled = {}
  /\ eventsByKey = [k \in Key |-> {}]
  /\ block = [c \in Conn |-> "none"]
  /\ invalidated = {}
  /\ la = [c \in Conn |-> "none"]
  /\ result = [c \in Conn |-> None]
  /\ decision = [c \in Conn |-> None]
  /\ response = [c \in Conn |-> 0]
  /\ sent = [c \in Conn |-> None]
  /\ confirmed = {} /\ touched = {} /\ grants = {}

\* Bound: peers that connect are accepted by LastArrival, so that every
\* deadline of the model lies within MaxUptime.
Tick ==
  /\ uptime < MaxUptime
  /\ uptime >= LastArrival /\ server \in Modes =>
        \A c \in Conn : pc[c] # "backlog"
  /\ uptime' = uptime + 1
  /\ wall' = wall + 1
  /\ UNCHANGED <<wallSteps, peer, pool, slot, pc, request, cancelled, limiter,
                 session, reply, user>>

\* The wall clock is set, in either direction; uptime is not affected.
StepWall ==
  /\ wallSteps < MaxWallSteps
  /\ wallSteps' = wallSteps + 1
  /\ wall' \in 0..MaxUptime
  /\ UNCHANGED <<uptime, peer, pool, slot, pc, request, cancelled, limiter,
                 session, reply, user>>

Connect(c) ==
  /\ server # "exited"
  /\ pc[c] = "absent"
  /\ uptime <= LastArrival
  /\ pc' = [pc EXCEPT ![c] = "backlog"]
  /\ UNCHANGED notPc

\* The peer closes, shuts down its sending side or sends bytes after its one
\* frame: RequestLifetime.check refuses all three alike, and reads and writes
\* may still succeed.
PeerChange(c, when) ==
  /\ pc[c] \notin {"absent", "done"}
  /\ (when = "early") = (pc[c] = "backlog")
  /\ peer[c] = "open"
  /\ peer' = [peer EXCEPT ![c] = "closed"]
  /\ UNCHANGED <<uptime, wall, wallSteps, pool, slot, pc, request, cancelled,
                 limiter, session, reply, user>>

\* runSocketServer: accept, start the 15 s deadline, submit to the pool; a
\* connection that is not admitted is closed at once.
Accept(c) ==
  /\ server \in Modes
  /\ pc[c] = "backlog"
  /\ server' = IF server = "once" THEN "last" ELSE server
  /\ deadline' = [deadline EXCEPT ![c] = uptime + ConnectionMs]
  /\ \/ /\ slots > 0
        /\ slots' = slots - 1
        /\ pc' = [pc EXCEPT ![c] = "queued"]
     \/ /\ slots = 0
        /\ pc' = [pc EXCEPT ![c] = "done"]
        /\ UNCHANGED slots
  /\ UNCHANGED <<world, slot, limit, expiresAtMs, key, cancelled, limiter,
                 session, reply, user>>

\* acceptFileHandle throws: setsockopt on a socket whose peer has already
\* disconnected fails with EINVAL.  The accept loop ends with a failure.
AcceptFail(c) ==
  /\ server \in Modes
  /\ pc[c] = "backlog"
  /\ peer[c] = "closed"
  /\ server' = "failed"
  /\ pc' = [pc EXCEPT ![c] = "done"]
  /\ UNCHANGED <<world, slots, slot, request, cancelled, limiter, session,
                 reply, user>>

\* The main thread looks at the completion between two run-loop slices, so not
\* while a block or a modal alert is running on it, and returns: the process
\* ends, and its connections, prompts and workers with it.
MainIdle == \A c \in Conn : block[c] \notin OnMain

Exit ==
  /\ server \in {"failed", "succeeded"}
  /\ MainIdle
  /\ server' = "exited"
  /\ slots' = PoolLimit
  /\ slot' = 1
  /\ pc' = [c \in Conn |-> IF pc[c] = "absent" THEN "absent" ELSE "done"]
  /\ block' = [c \in Conn |-> IF block[c] = "none" THEN "none" ELSE "finished"]
  /\ la' = [c \in Conn |-> IF la[c] = "none" THEN "none" ELSE "delivered"]
  /\ UNCHANGED <<world, request, cancelled, limiter, invalidated, result,
                 reply, user>>

-----------------------------------------------------------------------------
(* The worker: handleServeRequest and AuthenticationCoordinator.evaluate.  *)

Goto(c, from, to) == pc[c] = from /\ pc' = [pc EXCEPT ![c] = to]

\* RequestLifetime.check would succeed: not cancelled, deadline and expiry in
\* the future, and MSG_PEEK finds neither end of file nor data.
Alive(c) ==
  /\ c \notin cancelled
  /\ uptime < limit[c]
  /\ wall < expiresAtMs[c]
  /\ peer[c] = "open"

\* Mutant of Check: "cancelled = true" forgotten in the catch.
CheckNotSticky(c) == UNCHANGED cancelled

\* RequestLifetime.check: a failure cancels the lifetime for good.
Check(c) == cancelled' = IF Alive(c) THEN cancelled ELSE cancelled \cup {c}

\* A worker step that is "try lifetime.check()": go on, or throw.
CheckThen(c, from, ok, thrown) ==
  /\ Goto(c, from, IF Alive(c) THEN ok ELSE thrown)
  /\ Check(c)

\* The pool's queue starts the work; the frame must arrive within the cap.
StartWorker(c) ==
  /\ Goto(c, "queued", "reading")
  /\ limit' = [limit EXCEPT ![c] = Lesser(deadline[c], uptime + ReadMs)]
  /\ UNCHANGED <<world, pool, slot, deadline, expiresAtMs, key, cancelled,
                 limiter, session, reply, user>>

ReadFrame(c) ==
  /\ uptime < limit[c]
  /\ Goto(c, "reading", "verify")
  /\ \E e \in Expiry, k \in Key :
        /\ expiresAtMs' = [expiresAtMs EXCEPT ![c] = e]
        /\ key' = [key EXCEPT ![c] = k]
  /\ UNCHANGED <<world, pool, slot, deadline, limit, cancelled, limiter,
                 session, reply, user>>

\* readJSONFrame throws: frame too large or not a request.
BadFrame(c) ==
  /\ Goto(c, "reading", "close")
  /\ UNCHANGED notPc

\* Mutant of ReadFail: the frame is read without a deadline.
ReadFailOnlyEOF(c) ==
  /\ peer[c] = "closed"
  /\ Goto(c, "reading", "close")
  /\ UNCHANGED notPc

\* readExactly throws: timeout or end of file.
ReadFail(c) ==
  /\ uptime >= limit[c] \/ peer[c] = "closed"
  /\ Goto(c, "reading", "close")
  /\ UNCHANGED notPc

\* Mutant of Verify: the lifetime is not capped by the connection deadline.
VerifyUncapped(c, genuine) ==
  /\ Goto(c, "verify",
          IF genuine /\ wall < expiresAtMs[c] THEN "check" ELSE "close")
  /\ limit' = [limit EXCEPT ![c] = uptime + expiresAtMs[c]]
  /\ UNCHANGED <<world, pool, slot, deadline, expiresAtMs, key, cancelled,
                 limiter, session, reply, user>>

\* Host lookup, verifyRequest (signature, freshness), RequestLifetime.init.
Verify(c, genuine) ==
  /\ \/ /\ genuine /\ wall < expiresAtMs[c]
        /\ Goto(c, "verify", "check")
        /\ limit' = [limit EXCEPT ![c] =
                       Lesser(deadline[c], uptime + (expiresAtMs[c] - wall))]
     \/ /\ ~(genuine /\ wall < expiresAtMs[c])
        /\ Goto(c, "verify", "close")
        /\ UNCHANGED limit
  /\ UNCHANGED <<world, pool, slot, deadline, expiresAtMs, key, cancelled,
                 limiter, session, reply, user>>

\* The three plain "try lifetime.check()" of handleServeRequest: on the verified
\* request, on the authentication result, and on the signed response.
HandlerCheck(c) ==
  /\ \E step \in {<<"check", "limit">>, <<"recheck", "respond">>,
                  <<"final", "write">>} : CheckThen(c, step[1], step[2], "cancel")
  /\ UNCHANGED notCheck

\* RateLimiter.allow
Cutoff == IF wall > WindowMs THEN wall - WindowMs ELSE 0
\* Mutant of Kept: an event exactly one window old is dropped.
KeptStrict(k) == {e \in eventsByKey[k] : e[2] > Cutoff}
Kept(k) == {e \in eventsByKey[k] : e[2] >= Cutoff}

Allow(c) ==
  /\ \/ /\ MaxRequests = 0
        /\ Goto(c, "limit", "slot")
        /\ UNCHANGED <<eventsByKey, decision, grants>>
     \/ /\ MaxRequests > 0
        /\ Cardinality(Kept(key[c])) < MaxRequests
        /\ Goto(c, "limit", "slot")
        /\ eventsByKey' = [eventsByKey EXCEPT ![key[c]] =
                             Kept(key[c]) \cup {<<c, wall>>}]
        /\ grants' = grants \cup {<<c, uptime>>}
        /\ UNCHANGED decision
     \/ /\ MaxRequests > 0
        /\ Cardinality(Kept(key[c])) >= MaxRequests
        /\ Goto(c, "limit", "recheck")
        /\ eventsByKey' = [eventsByKey EXCEPT ![key[c]] = Kept(key[c])]
        /\ decision' = [decision EXCEPT ![c] = "cancelled"]
        /\ UNCHANGED grants
  /\ UNCHANGED <<world, pool, slot, request, cancelled, session, response, sent,
                 user>>

\* Mutant of AcquireSlot: the result of slot.wait is ignored.
AcquireSlotUnchecked(c) ==
  /\ slot' = slot - 1
  /\ Goto(c, "slot", "owned")
  /\ UNCHANGED <<world, pool, request, cancelled, limiter, session, reply,
                 user>>

\* evaluate: slot.wait succeeds.
AcquireSlot(c) ==
  /\ slot > 0
  /\ slot' = slot - 1
  /\ Goto(c, "slot", "owned")
  /\ UNCHANGED <<world, pool, request, cancelled, limiter, session, reply,
                 user>>

\* A 25 ms wait of evaluate, for the slot or for the result, runs out, and the
\* check of its polling loop throws.
PollFail(c) ==
  /\ ~Alive(c)
  /\ \E step \in {<<"slot", "cancel">>, <<"waiting", "invalidate">>} :
        CheckThen(c, step[1], step[1], step[2])
  /\ UNCHANGED notCheck

\* The check under the slot; makeSession; start posts the block.
StartSession(c) ==
  /\ CheckThen(c, "owned", "waiting", "signal")
  /\ block' = IF Alive(c) THEN [block EXCEPT ![c] = "posted"] ELSE block
  /\ UNCHANGED <<world, pool, slot, request, limiter, invalidated, la, result,
                 reply, user>>

\* The polling loop sees a result.
SeeResult(c) ==
  /\ result[c] # None
  /\ Goto(c, "waiting", "ready")
  /\ UNCHANGED notPc

\* The check after the loop; on success evaluate returns the result.
TakeResult(c) ==
  /\ CheckThen(c, "ready", "invalidate", "invalidate")
  /\ decision' = IF Alive(c) THEN [decision EXCEPT ![c] = result[c]] ELSE decision
  /\ UNCHANGED <<world, pool, slot, request, limiter, session, response, sent,
                 user>>

\* Mutant of CancelSession: the context is not invalidated before the slot is
\* signalled.
CancelSessionForgotten(c) ==
  /\ Goto(c, "invalidate", "signal")
  /\ UNCHANGED notPc

\* defer { session.cancel() }: context.invalidate() takes a prompt down; its
\* callback then reports an application cancel.
CancelSession(c) ==
  /\ Goto(c, "invalidate", "signal")
  /\ invalidated' = invalidated \cup {c}
  /\ la' = IF la[c] = "prompt" THEN [la EXCEPT ![c] = "cancelled"] ELSE la
  /\ UNCHANGED <<world, pool, slot, request, cancelled, limiter, block, result,
                 reply, user>>

\* defer { slot.signal() }, then return to the handler or unwind it.
SignalSlot(c) ==
  /\ slot' = slot + 1
  /\ Goto(c, "signal", IF decision[c] = None THEN "cancel" ELSE "recheck")
  /\ UNCHANGED <<world, pool, request, cancelled, limiter, session, reply,
                 user>>

\* AuthResponseBody.forRequest, and the signature over it.
Respond(c) ==
  /\ \/ /\ wall < expiresAtMs[c]
        /\ Goto(c, "respond", "final")
        /\ response' = [response EXCEPT ![c] =
                          wall + Lesser(ResponseMs, expiresAtMs[c] - wall)]
     \/ /\ wall >= expiresAtMs[c]
        /\ Goto(c, "respond", "cancel")
        /\ UNCHANGED response
  /\ UNCHANGED <<world, pool, slot, request, cancelled, limiter, session,
                 decision, sent, user>>

\* Mutant of WriteFrame: no deadline on the write.
WriteFrameUnbounded(c) ==
  /\ Goto(c, "write", "cancel")
  /\ sent' = [sent EXCEPT ![c] = decision[c]]
  /\ UNCHANGED <<world, pool, slot, request, cancelled, limiter, session,
                 decision, response, user>>

\* writeJSONFrame under lifetime.deadline.
WriteFrame(c) ==
  /\ uptime < limit[c]
  /\ Goto(c, "write", "cancel")
  /\ sent' = [sent EXCEPT ![c] = decision[c]]
  /\ UNCHANGED <<world, pool, slot, request, cancelled, limiter, session,
                 decision, response, user>>

WriteFail(c) ==
  /\ uptime >= limit[c] \/ peer[c] = "closed"
  /\ Goto(c, "write", "cancel")
  /\ UNCHANGED notPc

\* defer { lifetime.cancel() }
CancelLifetime(c) ==
  /\ Goto(c, "cancel", "close")
  /\ cancelled' = cancelled \cup {c}
  /\ UNCHANGED notCheck

\* Mutant of CloseHandle: completion is reported only after an answer.
CloseHandleOnAnswer(c) ==
  /\ Goto(c, "close", "free")
  /\ server' = IF server = "last" /\ sent[c] # None THEN "succeeded" ELSE server
  /\ UNCHANGED <<world, slots, slot, request, cancelled, limiter, session,
                 reply, user>>

\* The work of the pool ends: complete(.success) under --once, then
\* defer { handle.close() }.
CloseHandle(c) ==
  /\ Goto(c, "close", "free")
  /\ server' = IF server = "last" THEN "succeeded" ELSE server
  /\ UNCHANGED <<world, slots, slot, request, cancelled, limiter, session,
                 reply, user>>

\* Mutant of FreeSlot: the slot is returned only by handlers that answered.
FreeSlotOnAnswer(c) ==
  /\ Goto(c, "free", "done")
  /\ slots' = IF sent[c] # None THEN slots + 1 ELSE slots
  /\ UNCHANGED <<world, server, slot, request, cancelled, limiter, session,
                 reply, user>>

\* defer { slots.signal() }
FreeSlot(c) ==
  /\ Goto(c, "free", "done")
  /\ slots' = slots + 1
  /\ UNCHANGED <<world, server, slot, request, cancelled, limiter, session,
                 reply, user>>

-----------------------------------------------------------------------------
(* The main thread: the block LocalAuthenticationSession.start posts, and  *)
(* showConfirmationAlert.  Blocks run in the default mode only, so none    *)
(* starts while another runs or shows its modal alert.                     *)

BlockGoto(c, from, to) == block[c] = from /\ block' = [block EXCEPT ![c] = to]

\* A step that is "guard lifetime.isActive else return".
Guard(c, from, ok) ==
  /\ BlockGoto(c, from, IF Alive(c) THEN ok ELSE "finished")
  /\ Check(c)

\* LockedResult.complete: the first value stays.
Complete(c, d) ==
  result' = IF result[c] = None THEN [result EXCEPT ![c] = d] ELSE result

RunBlock(c) ==
  /\ MainIdle
  /\ Guard(c, "posted", IF RequireConfirmation THEN "confirm" ELSE "policy")
  /\ UNCHANGED <<notMain, invalidated, la, result, user>>

\* showConfirmationAlert checks again and then runs the modal alert.
ShowAlert(c) ==
  /\ BlockGoto(c, "confirm", IF Alive(c) THEN "alert" ELSE "dismiss")
  /\ Check(c)
  /\ UNCHANGED <<notMain, invalidated, la, result, user>>

UserAnswersAlert(c, yes) ==
  /\ BlockGoto(c, "alert", IF yes THEN "approve" ELSE "dismiss")
  /\ confirmed' = IF yes THEN confirmed \cup {c} ELSE confirmed
  /\ UNCHANGED <<notMain, cancelled, invalidated, la, result, touched>>

\* Mutant of AbortAlert: the timer runs in the default mode, so never while the
\* modal alert is up.
AbortAlertDefaultMode(c) ==
  /\ MainIdle
  /\ BlockGoto(c, "alert", "dismiss")
  /\ UNCHANGED <<notMain, cancelled, invalidated, la, result, user>>

\* confirmationCancellationTimer: the 25 ms timer aborts the modal session.
AbortAlert(c) ==
  /\ ~Alive(c)
  /\ BlockGoto(c, "alert", "dismiss")
  /\ Check(c)
  /\ UNCHANGED <<notMain, invalidated, la, result, user>>

\* Mutant of CloseAlert: the button pressed is not looked at.
CloseAlertAnyButton(c) ==
  /\ block[c] \in {"approve", "dismiss"}
  /\ block' = [block EXCEPT ![c] = IF Alive(c) THEN "policy" ELSE "finished"]
  /\ Check(c)
  /\ UNCHANGED <<notMain, invalidated, la, result, user>>

\* The alert closes; "isActive && first button", else completion(.cancelled).
CloseAlert(c) ==
  /\ \/ /\ block[c] = "approve" /\ Alive(c)
        /\ BlockGoto(c, "approve", "policy")
        /\ UNCHANGED result
     \/ /\ block[c] = "dismiss" \/ (block[c] = "approve" /\ ~Alive(c))
        /\ block' = [block EXCEPT ![c] = "finished"]
        /\ Complete(c, "cancelled")
  /\ Check(c)
  /\ UNCHANGED <<notMain, invalidated, la, user>>

\* The two "guard lifetime.isActive" around canEvaluatePolicy.
PolicyGuard(c) ==
  /\ \E step \in {<<"policy", "canEvaluate">>, <<"evaluate", "present">>} :
        Guard(c, step[1], step[2])
  /\ UNCHANGED <<notMain, invalidated, la, result, user>>

\* context.canEvaluatePolicy: false on an invalidated context, else it
\* depends on the Mac.
CanEvaluatePolicy(c, can) ==
  /\ can => c \notin invalidated
  /\ BlockGoto(c, "canEvaluate", IF can THEN "evaluate" ELSE "finished")
  /\ IF can THEN UNCHANGED result ELSE Complete(c, "unavailable")
  /\ UNCHANGED <<notMain, cancelled, invalidated, la, user>>

\* context.evaluatePolicy returns at once; an invalidated context shows no
\* prompt and replies with an error (LAError.invalidContext, "failed").
EvaluatePolicy(c) ==
  /\ BlockGoto(c, "present", "finished")
  /\ la' = [la EXCEPT ![c] = IF c \in invalidated THEN "failed" ELSE "prompt"]
  /\ UNCHANGED <<notMain, cancelled, invalidated, result, user>>

-----------------------------------------------------------------------------
(* LocalAuthentication, outside the process.                               *)

UserAnswersPrompt(c, d) ==
  /\ la[c] = "prompt"
  /\ la' = [la EXCEPT ![c] = d]
  /\ touched' = IF d = "approved" THEN touched \cup {c} ELSE touched
  /\ UNCHANGED <<notMain, cancelled, block, invalidated, result, confirmed>>

\* The reply closure runs, however late.
Callback(c) ==
  /\ la[c] \in Decision
  /\ la' = [la EXCEPT ![c] = "delivered"]
  /\ Complete(c, la[c])
  /\ UNCHANGED <<notMain, cancelled, block, invalidated, user>>

-----------------------------------------------------------------------------

\* Worker steps that do not wait for the peer.
Worker(c) ==
  \/ StartWorker(c) \/ ReadFail(c) \/ (\E g \in BOOLEAN : Verify(c, g))
  \/ HandlerCheck(c) \/ Allow(c) \/ AcquireSlot(c) \/ PollFail(c)
  \/ StartSession(c) \/ SeeResult(c) \/ TakeResult(c) \/ CancelSession(c)
  \/ SignalSlot(c) \/ Respond(c) \/ WriteFail(c) \/ CancelLifetime(c)
  \/ CloseHandle(c) \/ FreeSlot(c)

\* Main-thread steps that do not wait for the user.
Main(c) ==
  \/ RunBlock(c) \/ ShowAlert(c) \/ AbortAlert(c) \/ CloseAlert(c)
  \/ PolicyGuard(c) \/ (\E can \in BOOLEAN : CanEvaluatePolicy(c, can))
  \/ EvaluatePolicy(c)

Environment(c) ==
  \/ Connect(c) \/ (\E when \in PeerFaults : PeerChange(c, when))
  \/ ReadFrame(c) \/ BadFrame(c) \/ WriteFrame(c)
  \/ (\E yes \in BOOLEAN : UserAnswersAlert(c, yes))
  \/ (\E d \in Decision : UserAnswersPrompt(c, d))

AcceptLoop(c) == Accept(c) \/ AcceptFail(c)

\* The end of the bounded model: nothing is under way and time is up.
Quiescent ==
  /\ uptime = MaxUptime
  /\ \A c \in Conn : \/ pc[c] \in {"absent", "done"}
                     \/ pc[c] = "backlog" /\ server \notin Modes
  /\ UNCHANGED vars

Next ==
  \/ Tick \/ StepWall \/ Exit \/ Quiescent
  \/ \E c \in Conn : AcceptLoop(c) \/ Worker(c) \/ Main(c) \/ Environment(c)
                     \/ Callback(c)

\* Threads and clocks make progress; peers and users need not.
Fairness ==
  /\ WF_vars(Tick) /\ WF_vars(Exit)
  /\ \A c \in Conn : /\ WF_vars(AcceptLoop(c)) /\ WF_vars(Worker(c))
                     /\ WF_vars(Main(c)) /\ WF_vars(Callback(c))

Spec == Init /\ [][Next]_vars
FairSpec == Spec /\ Fairness

-----------------------------------------------------------------------------
(* Properties.                                                             *)

TypeOK ==
  /\ uptime \in Nat /\ wall \in Nat /\ wallSteps \in Nat
  /\ server \in {"accepting", "once", "last", "failed", "succeeded", "exited"}
  /\ slots \in Nat /\ slot \in Nat
  /\ peer \in [Conn -> {"open", "closed"}]
  /\ pc \in [Conn -> Positions]
  /\ deadline \in [Conn -> Nat] /\ limit \in [Conn -> Nat]
  /\ expiresAtMs \in [Conn -> Nat] /\ key \in [Conn -> Key]
  /\ cancelled \subseteq Conn
  /\ eventsByKey \in [Key -> SUBSET (Conn \X Nat)]
  /\ block \in [Conn -> Blocks]
  /\ invalidated \subseteq Conn
  /\ la \in [Conn -> LAStates]
  /\ result \in [Conn -> Decision \cup {None}]
  /\ decision \in [Conn -> Decision \cup {None}]
  /\ response \in [Conn -> Nat]
  /\ sent \in [Conn -> Decision \cup {None}]
  /\ confirmed \subseteq Conn /\ touched \subseteq Conn
  /\ grants \subseteq Conn \X Nat

\* The user is never shown two requests at once: no LocalAuthentication prompt
\* of one session beside the prompt or the modal alert of another
\* (Authentication.swift: the slot is signalled only after the context was
\* invalidated, and blocks run in the default mode of the main run loop only).
Showing(c) == la[c] = "prompt" \/ block[c] \in {"alert", "approve"}
PromptExclusive == \A c, d \in Conn : Showing(c) /\ Showing(d) => c = d

\* An approval that reaches the peer was given by the user in the prompt of
\* that very request, after its confirmation alert where one is required, and
\* the response does not outlive the request (handleServeRequest, forRequest).
ApprovedByUser ==
  \A c \in Conn : sent[c] = "approved" =>
     /\ c \in touched
     /\ RequireConfirmation => c \in confirmed
     /\ response[c] <= expiresAtMs[c]

\* A session block left behind by its worker is dead: it can neither open an
\* alert or a prompt nor peek at a descriptor that was closed and perhaps
\* reused, because the lifetime was cancelled before the worker moved on
\* (RequestLifetime.check and cancel against LocalAuthenticationSession.start).
Pending(c) == block[c] \in OnMain \cup {"posted"}
AbandonedMeansCancelled ==
  \A c \in Conn : Pending(c) => pc[c] = "waiting" \/ c \in cancelled

\* A response is written only for a live request: not cancelled by any thread
\* meanwhile, and before the deadlines of both request and connection.
LiveAnswer ==
  \A c \in Conn : sent'[c] # sent[c] =>
     /\ c \notin cancelled
     /\ uptime < limit[c]
     /\ limit[c] <= deadline[c]
AnswerWhileAlive == [][LiveAnswer]_vars

\* Pool slots are neither lost nor duplicated, whichever way a handler ends
\* (ConnectionPool.submit).
PoolConserved ==
  slots + Cardinality({c \in Conn : pc[c] \in InPool}) = PoolLimit

\* At most MaxRequests requests of a key reach the user within any window of
\* real time, although the limiter reads the wall clock: each time that clock is
\* set, in either direction, opens at most one more allowance
\* (RateLimiter.allow).
RateBound ==
  MaxRequests > 0 => \A k \in Key, t \in 0..MaxUptime :
     Cardinality({g \in grants : key[g[1]] = k /\ g[2] \in t..(t + WindowMs)})
        <= MaxRequests * (1 + wallSteps)

\* Every admitted connection is finished and its slot returned, whatever peer
\* and user do or fail to do (deadlines of runSocketServer and RequestLifetime).
ConnectionsFinish ==
  \A c \in Conn : pc[c] \in InPool ~> pc[c] = "done"

\* No alert and no prompt stays up for ever (the 25 ms polls of evaluate and of
\* confirmationCancellationTimer).
PromptsEnd == \A c \in Conn : Showing(c) ~> ~Showing(c)

Stopped == server \in {"last", "failed", "succeeded"}

\* An agent that has stopped accepting ends, so that launchd can start another:
\* under serve --once after its one connection, even when the worker gives up
\* while its alert is still on the main thread, and after a failed accept
\* whatever the connections it still serves are doing (runSocketServer).
StoppedEnds == Stopped ~> server = "exited"

=============================================================================
