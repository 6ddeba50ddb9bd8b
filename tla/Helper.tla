------------------------------- MODULE Helper -------------------------------
(***************************************************************************)
(* The Linux helper (crates/helper/src): run_request of main.rs, the       *)
(* DeadlineStream of transport.rs and the replay cache of trust.rs, for    *)
(* several helpers at once that share the cache, with the checks of        *)
(* crates/protocol that it applies to the response.                        *)
(*                                                                         *)
(* Actors: helper processes, which PAM may kill at any step; the agent,    *)
(* with the Mac's clock; the forwarded socket between them, which may      *)
(* delay, misdeliver, repeat or damage what it carries; the clocks.  A     *)
(* helper process sends one request, so it also names it.  Signatures and  *)
(* hashes are ideal: a response names the request it was made for and who  *)
(* signed it.                                                              *)
(***************************************************************************)
EXTENDS Naturals, FiniteSets

CONSTANTS
  Helper,        \* helper processes, one request each
  Timeouts,      \* the values timeout_ms may have
  MaxMs,         \* largest millisecond count (u64)
  Skew,          \* allowed_future_skew_ms
  ResponseMs,    \* longest life of a response on the agent (10 s)
  Decisions,     \* the decisions the agent may send
  ReplayCache,   \* "on" when replay_cache_dir is configured, else "off"
  Faults,        \* of "transport" (misdelivers, repeats, damages, breaks),
                 \* "disk" (replay cache I/O) and "kill" (by PAM or its caller)
  LinuxBase,     \* wall clock of the Linux host at the start
  MacBase,       \* wall clock of the Mac at the start
  MaxUptime,     \* bound: last instant of the model
  LastStart,     \* bound: last instant at which a helper reads its options
  MaxWallSteps,  \* bound: how often the Linux wall clock may be set
  MaxAnswers     \* bound: how many responses the agent signs

ASSUME HelperAssumption ==
  /\ Timeouts \subseteq Nat
  /\ {MaxMs, Skew, ResponseMs, LinuxBase, MacBase, MaxUptime, LastStart,
      MaxWallSteps, MaxAnswers} \subseteq Nat
  /\ ResponseMs > 0
  /\ ReplayCache \in {"on", "off"}
  /\ Faults \subseteq {"transport", "disk", "kill"}
  /\ Decisions \subseteq {"approved", "denied", "unavailable", "cancelled", "failed"}

VARIABLES
  uptime, wall, wallSteps,  \* Instant and SystemTime of the Linux host
  pc,          \* where each helper is
  timeout,     \* timeout_ms
  created,     \* created_at_ms of the request
  expires,     \* expires_at_ms of the request
  deadline,    \* the operation deadline, an Instant
  now,         \* the wall time the helper last read
  got,         \* the response read
  scan,        \* markers cleanup_markers has still to look at
  exit,        \* exit code, Running before
  line,        \* the connection: "none", "open", "eof"
  requested,   \* requests that were written to the agent
  answers,     \* responses the agent has signed
  markers,     \* files of the replay cache, named by their response
  written,     \* the markers whose expiry has been written
  used         \* history: responses whose marker a helper created

clocks  == <<uptime, wall, wallSteps>>
request == <<timeout, created, expires, deadline>>
cache   == <<markers, written, used>>
peer    == <<requested, answers>>
vars    == <<clocks, pc, request, now, got, scan, exit, line, peer, cache>>

\* EXIT_* of main.rs; 1 is main's error exit, Signalled a death by signal.
ExitApproved == 0
ExitUnavailable == 10
ExitCancelled == 11
ExitFailed == 12
ExitDenied == 20
ExitTamper == 30
ExitUnsafeConfig == 31
ExitProtocol == 32
ExitInternal == 1
Signalled == 999
Running == 1000
FallbackExits == {ExitUnavailable, ExitCancelled, ExitFailed}

\* exit_code_for_decision
ExitCodeForDecision(d) ==
  CASE d = "approved" -> ExitApproved
    [] d = "denied" -> ExitDenied
    [] d = "unavailable" -> ExitUnavailable
    [] d = "cancelled" -> ExitCancelled
    [] OTHER -> ExitFailed

Lesser(a, b) == IF a <= b THEN a ELSE b
Mac == MacBase + uptime
Honest == "transport" \notin Faults

NoAnswer(h) ==
  [req |-> h, decision |-> "failed", created |-> 0, expires |-> 0, signer |-> "none"]

-----------------------------------------------------------------------------
(* The checks of crates/protocol.                                          *)

\* Mutant of VerifyForRequest: only the signature is looked at.
VerifyForRequestUnbound(m, h) == m.signer = "agent"

\* SignedAuthResponse::verify_for_request: signature and binding.
VerifyForRequest(m, h) == m.signer = "agent" /\ m.req = h

\* verify_freshness of requests and responses.
Fresh(t, from, until) == t <= until /\ from <= t + Skew

-----------------------------------------------------------------------------

Init ==
  /\ uptime = 0 /\ wall = LinuxBase /\ wallSteps = 0
  /\ pc = [h \in Helper |-> "start"]
  /\ timeout = [h \in Helper |-> 0]
  /\ created = [h \in Helper |-> 0]
  /\ expires = [h \in Helper |-> 0]
  /\ deadline = [h \in Helper |-> 0]
  /\ now = [h \in Helper |-> 0]
  /\ got = [h \in Helper |-> NoAnswer(h)]
  /\ scan = [h \in Helper |-> {}]
  /\ exit = [h \in Helper |-> Running]
  /\ line = [h \in Helper |-> "none"]
  /\ requested = {} /\ answers = {}
  /\ markers = {} /\ written = {} /\ used = {}

Goto(h, from, to) == pc[h] = from /\ pc' = [pc EXCEPT ![h] = to]

\* The process ends and its socket is closed.
Exit(h, code) ==
  /\ pc' = [pc EXCEPT ![h] = "done"]
  /\ exit' = [exit EXCEPT ![h] = code]
  /\ line' = [line EXCEPT ![h] = "none"]

\* What a step leaves alone that only moves the helper, or ends it.
notPc   == <<clocks, request, now, got, scan, exit, line, peer, cache>>
notExit == <<clocks, request, now, got, scan, peer, cache>>

\* Configuration, keys, socket path, host names or replay directory missing or
\* unsafe; or an error that main reports itself.
Refuse(h) ==
  /\ pc[h] = "start"
  /\ \E code \in {ExitUnsafeConfig, ExitInternal} : Exit(h, code)
  /\ UNCHANGED notExit

\* let now = unix_time_ms()
ReadClock(h) ==
  /\ uptime <= LastStart
  /\ Goto(h, "start", "budget")
  /\ created' = [created EXCEPT ![h] = wall]
  /\ \E t \in Timeouts : timeout' = [timeout EXCEPT ![h] = t]
  /\ UNCHANGED <<clocks, expires, deadline, now, got, scan, exit, line, peer, cache>>

\* Mutant of Budget: plain addition instead of checked_add.
BudgetUnchecked(h) ==
  /\ timeout[h] > 0
  /\ Goto(h, "budget", "connect")
  /\ expires' = [expires EXCEPT ![h] = created[h] + timeout[h]]
  /\ deadline' = [deadline EXCEPT ![h] = uptime + timeout[h]]
  /\ UNCHANGED <<clocks, timeout, created, now, got, scan, exit, line, peer, cache>>

\* operation_budget, a moment later: expiry on the wall clock, deadline on the
\* monotonic one; then the request is built and signed.  Bound: the last instant
\* of the model stands for all later ones.
Budget(h) ==
  /\ pc[h] = "budget"
  /\ \/ /\ timeout[h] > 0 /\ created[h] + timeout[h] <= MaxMs
        /\ Goto(h, "budget", "connect")
        /\ expires' = [expires EXCEPT ![h] = created[h] + timeout[h]]
        /\ deadline' = [deadline EXCEPT ![h] = Lesser(uptime + timeout[h], MaxUptime)]
        /\ UNCHANGED <<exit, line>>
     \/ /\ timeout[h] = 0 \/ created[h] + timeout[h] > MaxMs
        /\ Exit(h, ExitUnsafeConfig)
        /\ UNCHANGED <<expires, deadline>>
  /\ UNCHANGED <<clocks, timeout, created, now, got, scan, peer, cache>>

\* DeadlineStream::connect
Connect(h) ==
  /\ uptime < deadline[h]
  /\ Goto(h, "connect", "write")
  /\ line' = [line EXCEPT ![h] = "open"]
  /\ UNCHANGED <<clocks, request, now, got, scan, exit, peer, cache>>

\* No socket, nobody listening, or a backlog that stays full to the deadline.
ConnectFail(h) ==
  /\ pc[h] = "connect"
  /\ Exit(h, ExitUnavailable)
  /\ UNCHANGED notExit

\* write_json_frame
WriteFrame(h) ==
  /\ uptime < deadline[h] /\ line[h] = "open"
  /\ Goto(h, "write", "read")
  /\ requested' = requested \cup {h}
  /\ UNCHANGED <<clocks, request, now, got, scan, exit, line, answers, cache>>

\* Mutant of TransferFail: reads and writes have no deadline.
TransferFailOnlyEOF(h) ==
  /\ pc[h] \in {"write", "read"}
  /\ line[h] = "eof" /\ Exit(h, ExitProtocol)
  /\ UNCHANGED notExit

\* transport_exit: only a timeout is unavailability.
TransferFail(h) ==
  /\ pc[h] \in {"write", "read"}
  /\ \/ uptime >= deadline[h] /\ Exit(h, ExitUnavailable)
     \/ uptime < deadline[h] /\ line[h] = "eof" /\ Exit(h, ExitProtocol)
  /\ UNCHANGED notExit

\* What the socket may hand to h: its own response or, over a faulty transport,
\* any response there is, or one that the agent did not sign and that is fresh
\* at any time.
Deliverable(h) ==
  {m \in answers : Honest => m.req = h} \cup
  {[req |-> h, decision |-> d, created |-> 0, expires |-> MaxMs,
    signer |-> "other"] : d \in IF Honest THEN {} ELSE Decisions}

\* read_json_frame
ReadFrame(h) ==
  /\ uptime < deadline[h] /\ line[h] = "open"
  /\ Goto(h, "read", "verify")
  /\ \E m \in Deliverable(h) : got' = [got EXCEPT ![h] = m]
  /\ UNCHANGED <<clocks, request, now, scan, exit, line, peer, cache>>

\* A frame that is too long, cut short or not a response.
ReadGarbage(h) ==
  /\ ~Honest
  /\ pc[h] = "read" /\ uptime < deadline[h]
  /\ Exit(h, ExitProtocol)
  /\ UNCHANGED notExit

Verify(h) ==
  /\ pc[h] = "verify"
  /\ \/ /\ VerifyForRequest(got[h], h)
        /\ Goto(h, "verify", "clock")
        /\ UNCHANGED <<exit, line>>
     \/ /\ ~VerifyForRequest(got[h], h)
        /\ Exit(h, ExitTamper)
  /\ UNCHANGED notExit

\* let now = unix_time_ms(), before the freshness checks.
ReadNow(h) ==
  /\ Goto(h, "clock", "fresh")
  /\ now' = [now EXCEPT ![h] = wall]
  /\ UNCHANGED <<clocks, request, got, scan, exit, line, peer, cache>>

RequestAlive(h, t) == uptime < deadline[h] /\ Fresh(t, created[h], expires[h])
ResponseFresh(h) == Fresh(now[h], got[h].created, got[h].expires)

\* Mutant of Freshness: the response is judged before the request.
FreshnessSwapped(h) ==
  /\ pc[h] = "fresh"
  /\ \/ /\ RequestAlive(h, now[h]) /\ ResponseFresh(h)
        /\ Goto(h, "fresh", IF ReplayCache = "on" THEN "cleanup" ELSE "final")
        /\ UNCHANGED <<exit, line>>
     \/ ~ResponseFresh(h) /\ Exit(h, ExitTamper)
     \/ ResponseFresh(h) /\ ~RequestAlive(h, now[h]) /\ Exit(h, ExitUnavailable)
  /\ UNCHANGED notExit

\* An expired request is unavailability; only then is the response judged.
Freshness(h) ==
  /\ pc[h] = "fresh"
  /\ \/ /\ RequestAlive(h, now[h]) /\ ResponseFresh(h)
        /\ Goto(h, "fresh", IF ReplayCache = "on" THEN "cleanup" ELSE "final")
        /\ UNCHANGED <<exit, line>>
     \/ ~RequestAlive(h, now[h]) /\ Exit(h, ExitUnavailable)
     \/ RequestAlive(h, now[h]) /\ ~ResponseFresh(h) /\ Exit(h, ExitTamper)
  /\ UNCHANGED notExit

-----------------------------------------------------------------------------
(* record_replay_marker                                                    *)

\* cleanup_markers reads the clock and opens the directory ...
StartCleanup(h) ==
  /\ Goto(h, "cleanup", "scan")
  /\ now' = [now EXCEPT ![h] = wall]
  /\ scan' = [scan EXCEPT ![h] = markers]
  /\ UNCHANGED <<clocks, request, got, exit, line, peer, cache>>

\* Mutant of Expired: a marker is dropped in its last millisecond.
ExpiredEarly(h, m) == m \in written /\ m.expires <= now[h]

\* ... and removes the markers with a readable expiry in the past.  A name stands
\* for one response and so for one expiry: reading and unlinking are one step.
Expired(h, m) == m \in written /\ m.expires < now[h]

CleanupOne(h) ==
  /\ pc[h] = "scan"
  /\ \E m \in scan[h] :
        /\ scan' = [scan EXCEPT ![h] = @ \ {m}]
        /\ markers' = IF Expired(h, m) THEN markers \ {m} ELSE markers
        /\ written' = IF Expired(h, m) THEN written \ {m} ELSE written
  /\ UNCHANGED <<clocks, pc, request, now, got, exit, line, peer, used>>

\* Mutant of CreateMarker: the expiry is left for later.
CreateMarkerOnly(h) ==
  /\ pc[h] = "scan" /\ scan[h] = {}
  /\ got[h] \notin markers
  /\ Goto(h, "scan", "final")
  /\ markers' = markers \cup {got[h]}
  /\ used' = used \cup {got[h]}
  /\ UNCHANGED <<exit, line, clocks, request, now, got, scan, peer, written>>

\* create_marker, O_CREAT | O_EXCL: an existing marker is a replay.
CreateMarker(h) ==
  /\ pc[h] = "scan" /\ scan[h] = {}
  /\ \/ /\ got[h] \notin markers
        /\ Goto(h, "scan", "mark")
        /\ markers' = markers \cup {got[h]}
        /\ used' = used \cup {got[h]}
        /\ UNCHANGED <<exit, line>>
     \/ /\ got[h] \in markers
        /\ Exit(h, ExitTamper)
        /\ UNCHANGED <<markers, used>>
  /\ UNCHANGED <<clocks, request, now, got, scan, peer, written>>

\* The directory cannot be read or the marker not created.
MarkerFail(h) ==
  /\ "disk" \in Faults
  /\ pc[h] \in {"cleanup", "scan", "mark"}
  /\ Exit(h, ExitTamper)
  /\ UNCHANGED notExit

WriteMarker(h) ==
  /\ Goto(h, "mark", "final")
  /\ written' = written \cup {got[h]}
  /\ UNCHANGED <<clocks, request, now, got, scan, exit, line, peer, markers, used>>

-----------------------------------------------------------------------------

\* The last check: the deadline first ...
FinalDeadline(h) ==
  /\ pc[h] = "final"
  /\ \/ /\ uptime < deadline[h]
        /\ Goto(h, "final", "decide")
        /\ UNCHANGED <<exit, line>>
     \/ uptime >= deadline[h] /\ Exit(h, ExitUnavailable)
  /\ UNCHANGED notExit

\* ... then the request's freshness by the clock as it is now.
Decide(h) ==
  /\ pc[h] = "decide"
  /\ \/ /\ Fresh(wall, created[h], expires[h])
        /\ Exit(h, ExitCodeForDecision(got[h].decision))
     \/ /\ ~Fresh(wall, created[h], expires[h])
        /\ Exit(h, ExitUnavailable)
  /\ UNCHANGED notExit

\* The shim, or its caller, ends the helper.
Killed(h) ==
  /\ "kill" \in Faults
  /\ pc[h] # "done"
  /\ Exit(h, Signalled)
  /\ UNCHANGED notExit

-----------------------------------------------------------------------------
(* The agent, the transport and the clocks.                                *)

\* The agent signs a response to a request it holds and that has not expired by
\* the Mac's clock.  A faulty transport can hand it a request twice.
AgentAnswers(h) ==
  /\ h \in requested
  /\ Mac < expires[h]
  /\ Cardinality(answers) < MaxAnswers
  /\ Honest =>
        line[h] = "open" /\ ~\E m \in answers : m.req = h
  /\ \E d \in Decisions :
        answers' = answers \cup
          {[req |-> h, decision |-> d, created |-> Mac,
            expires |-> Mac + Lesser(ResponseMs, expires[h] - Mac),
            signer |-> "agent"]}
  /\ UNCHANGED <<clocks, pc, request, now, got, scan, exit, line, requested, cache>>

\* The agent gives up a request that expired unanswered and closes; a faulty
\* transport can also break.
LineCloses(h) ==
  /\ line[h] = "open"
  /\ \/ ~Honest
     \/ /\ h \in requested /\ Mac >= expires[h]
        /\ ~\E m \in answers : m.req = h
  /\ line' = [line EXCEPT ![h] = "eof"]
  /\ UNCHANGED <<clocks, pc, request, now, got, scan, exit, peer, cache>>

Tick ==
  /\ uptime < MaxUptime
  /\ uptime' = uptime + 1 /\ wall' = wall + 1
  /\ UNCHANGED <<wallSteps, pc, request, now, got, scan, exit, line, peer, cache>>

StepWall ==
  /\ wallSteps < MaxWallSteps
  /\ wallSteps' = wallSteps + 1
  /\ wall' \in LinuxBase..(LinuxBase + MaxUptime)
  /\ UNCHANGED <<uptime, pc, request, now, got, scan, exit, line, peer, cache>>

\* Steps the helper takes by itself.
Step(h) ==
  \/ Refuse(h) \/ ReadClock(h) \/ Budget(h) \/ Connect(h) \/ ConnectFail(h)
  \/ WriteFrame(h) \/ TransferFail(h) \/ ReadFrame(h) \/ ReadGarbage(h)
  \/ Verify(h) \/ ReadNow(h) \/ Freshness(h) \/ StartCleanup(h)
  \/ CleanupOne(h) \/ CreateMarker(h) \/ MarkerFail(h) \/ WriteMarker(h)
  \/ FinalDeadline(h) \/ Decide(h)

Finished == (\A h \in Helper : pc[h] = "done") /\ UNCHANGED vars

Next ==
  \/ Tick \/ StepWall \/ Finished
  \/ \E h \in Helper : Step(h) \/ Killed(h) \/ AgentAnswers(h) \/ LineCloses(h)

Spec == Init /\ [][Next]_vars

-----------------------------------------------------------------------------
(* Properties.                                                             *)

Positions ==
  {"start", "budget", "connect", "write", "read", "verify", "clock", "fresh",
   "cleanup", "scan", "mark", "final", "decide", "done"}
Codes ==
  {ExitApproved, ExitUnavailable, ExitCancelled, ExitFailed, ExitDenied,
   ExitTamper, ExitUnsafeConfig, ExitProtocol, ExitInternal, Signalled, Running}
Messages ==
  [req : Helper, decision : Decisions \cup {"failed"}, created : Nat,
   expires : Nat, signer : {"agent", "other", "none"}]

TypeOK ==
  /\ uptime \in Nat /\ wall \in Nat /\ wallSteps \in Nat
  /\ pc \in [Helper -> Positions]
  /\ timeout \in [Helper -> Nat] /\ created \in [Helper -> Nat]
  /\ expires \in [Helper -> 0..MaxMs] /\ deadline \in [Helper -> Nat]
  /\ now \in [Helper -> Nat]
  /\ got \in [Helper -> Messages]
  /\ scan \in [Helper -> SUBSET Messages]
  /\ exit \in [Helper -> Codes]
  /\ line \in [Helper -> {"none", "open", "eof"}]
  /\ requested \subseteq Helper
  /\ answers \subseteq Messages
  /\ markers \subseteq Messages /\ written \subseteq markers
  /\ used \subseteq Messages

\* run_request implements AuthTransaction: exit 0 only with the user's consent
\* to this helper's own request, and no fallback exit once a response that was
\* not made for it has been read, whatever the timing (verification comes
\* before every deadline and freshness check).
OutcomeOf(code) ==
  CASE code = Running -> "open"
    [] code = ExitApproved -> "granted"
    [] code \in FallbackExits -> "fallback"
    [] OTHER -> "refused"
Wrong(h) == got[h].signer # "none" /\ ~(got[h].signer = "agent" /\ got[h].req = h)

Transaction == INSTANCE AuthTransaction WITH
  Request <- Helper,
  consent <- {m.req : m \in {a \in answers : a.decision = "approved"}},
  evidence <- {h \in Helper : Wrong(h)},
  outcome <- [h \in Helper |-> OutcomeOf(exit[h])]
ImplementsTransaction == Transaction!Spec

\* While a response that some helper accepted could still pass the freshness
\* check, its marker is there: no concurrent cleanup removes it early
\* (cleanup_markers against verify_freshness, at the boundary millisecond).  Until
\* the wall clock is set.
MarkersCoverUsed ==
  wallSteps = 0 => \A m \in used : wall <= m.expires => m \in markers

\* With working storage a helper reports tampering only for a response that was
\* not made for its request, or for one outside its own life as the helper's clock
\* says: neither an expired request nor a concurrent helper's marker is reported so.
TamperMeansStale ==
  "disk" \notin Faults => \A h \in Helper : exit[h] = ExitTamper =>
     \/ Wrong(h)
     \/ now[h] > got[h].created + ResponseMs
     \/ got[h].created > now[h] + Skew

\* docs/fallback-policy.md lists "LocalAuthentication prompt is not completed
\* within PAM shim timeout" under "Fallback-allowed cases": an honest agent whose
\* user does not answer never makes the helper report a protocol error.  (But
\* docs/frame-transport.md: "premature EOF remains a protocol error".)
UnansweredFallsBack == Honest => \A h \in Helper : exit[h] # ExitProtocol

=============================================================================
