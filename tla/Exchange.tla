------------------------------ MODULE Exchange ------------------------------
(***************************************************************************)
(* What a transaction is about, from the PAM items to the decision: the    *)
(* arguments the shim passes on (pam_macos_auth.c), the request the helper *)
(* builds and signs (crates/helper/src/main.rs), what the agent verifies,  *)
(* shows and answers (main.swift), and what the helper then accepts.       *)
(* RustMessages and SwiftMessages hold the two implementations of the      *)
(* messages.  The link between them may bring any message it knows on any  *)
(* connection, with two neighbouring fields of its body changed.           *)
(*                                                                         *)
(* Time is coarse: the Linux hosts and the Mac each have a clock, and only *)
(* their offset matters here.  Deadlines, retries and the replay cache are *)
(* in Helper, prompts and connections in Agent.                            *)
(***************************************************************************)
EXTENDS Naturals, Sequences, FiniteSets

CONSTANTS
  Proc,           \* PAM transactions
  Items,          \* the PAM items each of them may have
  HostConfigs,    \* the configurations, with the host's key, each may run under
  AgentConfigs,   \* the agents, "serve" or the helper's "fake", as configured
  AgentDecisions, \* the decisions the agent may take
  AgentKey,       \* the agent's signing key, which the hosts have pinned
  NonceLen,       \* bytes of a nonce (32)
  Nonce,          \* what OsRng gives each transaction
  Pid,            \* process id of each helper, not unique across hosts
  Timeout,        \* timeout_ms
  Skew,           \* allowed_future_skew_ms, on both sides
  ResponseMs,     \* longest life of a response (10 s)
  LinuxBase,      \* wall clock of the Linux hosts at the start
  MacBases,       \* what the clock of the Mac may show at the start
  Texts,          \* bound: texts the link puts into a field
  MaxClock,       \* bound: last instant of the model
  LastStart,      \* bound: last instant at which a request is made
  MaxChanges      \* bound: how many messages the link changes

ASSUME ExchangeAssumption ==
  /\ {NonceLen, Timeout, Skew, ResponseMs, LinuxBase, MaxClock, LastStart,
      MaxChanges} \subseteq Nat
  /\ MacBases \subseteq Nat
  /\ AgentDecisions \subseteq {"approved", "denied", "unavailable", "cancelled", "failed"}
  /\ Timeout > 0 /\ ResponseMs > 0
  /\ \A p \in Proc : Len(Nonce[p]) = NonceLen
  /\ \A p, q \in Proc : Nonce[p] = Nonce[q] => p = q

\* Text is a sequence of bytes, an option a sequence of at most one text.
Text == Seq(Nat)
IsOption(o) == o = <<>> \/ (o = <<o[1]>> /\ o[1] \in Text)

\* PAM items and configurations hold texts; a fake agent is given one key only.
ASSUME TextAssumption ==
  /\ Texts \subseteq Text
  /\ \A p \in Proc : Nonce[p] \in Text /\ Pid[p] \in Nat
  /\ \A p \in Proc : \A i \in Items[p] :
        /\ i.user \in Text
        /\ IsOption(i.service) /\ IsOption(i.ruser) /\ IsOption(i.rhost) /\ IsOption(i.tty)
  /\ \A p \in Proc : \A h \in HostConfigs[p] :
        IsOption(h.key_id) /\ IsOption(h.host_id) /\ IsOption(h.hostname) /\ IsOption(h.service)
  /\ \A c \in AgentConfigs :
        /\ c.agent \in {"serve", "fake"} /\ (c.agent = "fake" => c.hosts = {})
        /\ c.require_confirmation \in BOOLEAN

VARIABLES
  clock,      \* time since the start
  macBase,    \* wall clock of the Mac at the start
  config,     \* the agent's configuration
  pc,         \* "idle", "sent", "prompt", "answered" or "done"
  asked,      \* the PAM items of the transaction
  sent,       \* the request its helper signed, an Option
  seen,       \* the request the agent accepted on its connection, an Option
  shown,      \* what of it the user was shown: "alert", "reason"
  answer,     \* the response the agent signed on its connection, an Option
  outcome,    \* how it ended, "none" before
  changed     \* the transactions whose messages the link changed

vars == <<clock, macBase, config, pc, asked, sent, seen, shown, answer,
          outcome, changed>>

Rust  == INSTANCE RustMessages
Swift == INSTANCE SwiftMessages

LinuxNow == LinuxBase + clock
MacNow   == macBase + clock

\* Option::or and Option::unwrap_or.
Or(o, other)   == IF o = <<>> THEN other ELSE o
UnwrapOr(o, d) == IF o = <<>> THEN d ELSE o[1]

\* trim().is_empty(): nothing but spaces.
Blank(s) == \A i \in DOMAIN s : s[i] = 32

(***************************************************************************)
(* The shim and the helper.                                                *)
(***************************************************************************)

\* pam_item_string: an item that is not set or empty is no argument.
PamItemString(o) == IF o = <<(<<>>)>> THEN <<>> ELSE o

\* The arguments of "macos-auth-helper request", in pam_sm_authenticate.
PamArgs(items) ==
  [user    |-> items.user,
   service |-> PamItemString(items.service),
   ruser   |-> PamItemString(items.ruser),
   rhost   |-> PamItemString(items.rhost),
   tty     |-> PamItemString(items.tty)]

\* run_request: arguments override the configuration, "sudo" and "host-key-1".
Service(args, host) == UnwrapOr(Or(args.service, host.service), <<31>>)
KeyId(host) == UnwrapOr(host.key_id, <<30>>)

\* The shim wants a user; the helper wants its identity fields filled in.
Acceptable(args, host) ==
  /\ args.user # <<>>
  /\ host.host_id # <<>>
  /\ host.hostname # <<>>
  /\ \A s \in {KeyId(host), host.host_id[1], host.hostname[1],
               Service(args, host), args.user} : ~ Blank(s)

\* build_request, and the expiry that run_request then sets.
BuildRequest(p, args, host, now) ==
  [protocol_version |-> Rust!ProtocolVersion,
   request_id       |-> <<now, Pid[p]>>,
   nonce            |-> Nonce[p],
   created_at_ms    |-> now,
   expires_at_ms    |-> now + Timeout,
   linux_host_id    |-> host.host_id[1],
   linux_hostname   |-> host.hostname[1],
   pam_service      |-> Service(args, host),
   pam_user         |-> args.user,
   pam_ruser        |-> args.ruser,
   pam_rhost        |-> args.rhost,
   pam_tty          |-> args.tty,
   sudo_command     |-> <<>>,
   client_pid       |-> <<Pid[p]>>,
   key_id           |-> KeyId(host),
   alg              |-> "ed25519"]

Init ==
  /\ clock = 0
  /\ macBase \in MacBases
  /\ config \in AgentConfigs
  /\ asked \in [Proc -> UNION {Items[p] : p \in Proc}]
  /\ \A p \in Proc : asked[p] \in Items[p]
  /\ pc = [p \in Proc |-> "idle"]
  /\ sent = [p \in Proc |-> <<>>]
  /\ seen = [p \in Proc |-> <<>>]
  /\ shown = [p \in Proc |-> {}]
  /\ answer = [p \in Proc |-> <<>>]
  /\ outcome = [p \in Proc |-> "none"]
  /\ changed = {}

\* The transaction ends, without touching what the messages said.
End(p, how) ==
  /\ pc' = [pc EXCEPT ![p] = "done"]
  /\ outcome' = [outcome EXCEPT ![p] = how]

Refuse(p, host) ==
  /\ pc[p] = "idle"
  /\ ~ Acceptable(PamArgs(asked[p]), host)
  /\ End(p, "refused")
  /\ UNCHANGED <<clock, macBase, config, asked, sent, seen, shown, answer, changed>>

\* Mutant of Send: remains ready to send, and queues a second request.
SendAgain(p, host) ==
  LET body == BuildRequest(p, PamArgs(asked[p]), host, LinuxNow)
  IN
  /\ pc[p] = "idle"
  /\ clock <= LastStart
  /\ Acceptable(PamArgs(asked[p]), host)
  /\ Len(sent[p]) < 2
  /\ sent' = [sent EXCEPT ![p] =
       Append(@, [body |-> body, signature |-> Rust!Sign(body, host.key)])]
  /\ UNCHANGED <<clock, macBase, config, pc, asked, seen, shown, answer, outcome, changed>>

Send(p, host) ==
  LET body == BuildRequest(p, PamArgs(asked[p]), host, LinuxNow)
  IN
  /\ pc[p] = "idle"
  /\ clock <= LastStart
  /\ Acceptable(PamArgs(asked[p]), host)
  /\ sent' = [sent EXCEPT ![p] = <<[body |-> body, signature |-> Rust!Sign(body, host.key)]>>]
  /\ pc' = [pc EXCEPT ![p] = "sent"]
  /\ UNCHANGED <<clock, macBase, config, asked, seen, shown, answer, outcome, changed>>

(***************************************************************************)
(* The link.                                                               *)
(***************************************************************************)

RequestFields ==
  <<"protocol_version", "request_id", "nonce", "created_at_ms", "expires_at_ms",
    "linux_host_id", "linux_hostname", "pam_service", "pam_user", "pam_ruser",
    "pam_rhost", "pam_tty", "sudo_command", "client_pid", "key_id", "alg">>

ResponseFields ==
  <<"protocol_version", "request_id", "nonce", "request_hash", "linux_host_id",
    "pam_service", "pam_user", "decision", "auth_method", "created_at_ms",
    "expires_at_ms", "agent_key_id", "alg", "error_code", "error_message">>

Digests == {Rust!Sha256(sent[p][1].body) : p \in {q \in Proc : sent[q] # <<>>}}

\* What the link may put into a field.
Values(f) ==
  CASE f = "protocol_version" -> {1, 2}
    [] f \in {"created_at_ms", "expires_at_ms"} -> {1, 3}
    [] f = "nonce" -> {Nonce[p] : p \in Proc} \cup {<<>>}
    [] f = "request_hash" -> Digests
    [] f = "client_pid" -> {<<>>} \cup {<<Pid[p]>> : p \in Proc}
    [] f = "decision" -> {"approved", "denied", "maybe"}
    [] f = "auth_method" -> {"biometric-or-watch", "touch-id"}
    [] f = "alg" -> {"ed25519", "ED25519", "p256"}
    [] f \in {"pam_ruser", "pam_rhost", "pam_tty", "sudo_command", "error_code",
              "error_message"} -> {<<>>} \cup {<<t>> : t \in Texts}
    [] OTHER -> Texts

\* The bodies that differ from body in the fields f and g at most.
ChangesOf(body, f, g) ==
  {[body EXCEPT ![f] = v, ![g] = w] : v \in Values(f), w \in Values(g)}

\* The bodies that differ from body in two neighbouring fields at most.
Changes(body, fields) ==
  UNION {ChangesOf(body, fields[i], fields[i + 1]) : i \in 1..(Len(fields) - 1)}

\* The messages the link can bring on p's connection when p's own is m and it
\* knows those of the set known, within the bound on changes.
Carried(p, m, known, fields) ==
  IF Cardinality(changed \cup {p}) > MaxChanges THEN {m}
  ELSE {m} \cup known \cup
       UNION {[body : Changes(k.body, fields), signature : {k.signature}] : k \in known}

Carry(p, m, got) == changed' = IF got = m THEN changed ELSE changed \cup {p}

(***************************************************************************)
(* The agent.                                                              *)
(***************************************************************************)

\* The host id "*".
Star == <<42>>

\* hostVerifiers(from:) of a configuration the agent started with.
HostVerifiers(c) ==
  IF c.hosts # {}
  THEN [id \in {h.host_id : h \in c.hosts} |->
          (CHOOSE h \in c.hosts : h.host_id = id).key]
  ELSE [id \in {Star} |-> c.host_public_key]

\* The key handleServeRequest verifies with, an Option.
VerifierFor(id) ==
  LET verifiers == HostVerifiers(config)
  IN  IF id \in DOMAIN verifiers THEN <<verifiers[id]>>
      ELSE IF Star \in DOMAIN verifiers THEN <<verifiers[Star]>> ELSE <<>>

Requests == {sent[p][1] : p \in {q \in Proc : sent[q] # <<>>}}
Answers  == {answer[p][1] : p \in {q \in Proc : answer[q] # <<>>}}

\* run_fake_agent of the helper, the agent of development: why it drops a
\* message, "none" if it does not.
FakeAgentRefusal(m) ==
  CASE ~ Rust!DecodesRequest(m.body) -> "garbled"
    [] Rust!DecodesRequest(m.body)
       /\ ~ Rust!VerifyRequest(m.body, m.signature, config.host_public_key) -> "unverified"
    [] OTHER -> IF Rust!VerifyFreshness(m.body, MacNow, Skew) THEN "none" ELSE "stale"

\* handleServeRequest and verifyRequest: why a message is refused, "none" if not.
ServeRefusal(m) ==
  LET key == VerifierFor(m.body.linux_host_id)
  IN  CASE key = <<>> -> "unlisted"
        [] key # <<>> /\ ~ Swift!ValidSignature(m.body, m.signature, key[1]) -> "unverified"
        [] OTHER -> IF Swift!VerifyFreshness(m.body, MacNow, Skew) THEN "none" ELSE "stale"

Refusal(m) == IF config.agent = "fake" THEN FakeAgentRefusal(m) ELSE ServeRefusal(m)

AgentRefuses(p) ==
  /\ pc[p] = "sent"
  /\ \E m \in Carried(p, sent[p][1], Requests, RequestFields) :
       /\ Refusal(m) # "none"
       /\ Carry(p, sent[p][1], m)
       /\ End(p, Refusal(m))
  /\ UNCHANGED <<clock, macBase, config, asked, sent, seen, shown, answer>>

AgentAccepts(p) ==
  /\ pc[p] = "sent" /\ config.agent = "serve"
  /\ \E m \in Carried(p, sent[p][1], Requests, RequestFields) :
       /\ Refusal(m) = "none"
       /\ Carry(p, sent[p][1], m)
       /\ seen' = [seen EXCEPT ![p] = <<m.body>>]
  /\ pc' = [pc EXCEPT ![p] = "prompt"]
  /\ UNCHANGED <<clock, macBase, config, asked, sent, shown, answer, outcome>>

\* start of a session.  The user is shown the alert only where the configuration
\* requires confirmation ...
ShowAlert(p) ==
  /\ pc[p] = "prompt" /\ shown[p] = {}
  /\ config.require_confirmation
  /\ MacNow < seen[p][1].expires_at_ms
  /\ shown' = [shown EXCEPT ![p] = {"alert"}]
  /\ UNCHANGED <<clock, macBase, config, pc, asked, sent, seen, answer, outcome, changed>>

\* Mutant of ShowReason: nobody is asked to confirm.
ShowReasonAtOnce(p) ==
  /\ pc[p] = "prompt" /\ shown[p] = {}
  /\ MacNow < seen[p][1].expires_at_ms
  /\ shown' = [shown EXCEPT ![p] = {"reason"}]
  /\ UNCHANGED <<clock, macBase, config, pc, asked, sent, seen, answer, outcome, changed>>

\* ... and, once he has confirmed that, or at once, LocalAuthentication with its
\* reason.
ShowReason(p) ==
  /\ pc[p] = "prompt"
  /\ shown[p] = IF config.require_confirmation THEN {"alert"} ELSE {}
  /\ MacNow < seen[p][1].expires_at_ms
  /\ shown' = [shown EXCEPT ![p] = @ \cup {"reason"}]
  /\ UNCHANGED <<clock, macBase, config, pc, asked, sent, seen, answer, outcome, changed>>

\* What authResult can be: cancelled by the rate limiter, or in the alert;
\* unavailable if canEvaluatePolicy refuses; what evaluatePolicy calls back with.
Decidable(p) ==
  {"cancelled"}
  \cup (IF config.require_confirmation /\ shown[p] = {} THEN {} ELSE {"unavailable"})
  \cup (IF "reason" \in shown[p] THEN {"approved", "failed"} ELSE {})

\* The rest of handleServeRequest; forRequest throws once the request has expired.
AgentAnswers(p, decision) ==
  LET body == Swift!ForRequest(seen[p][1], decision, MacNow, ResponseMs, <<40>>)
  IN
  /\ pc[p] = "prompt" /\ decision \in Decidable(p)
  /\ MacNow < seen[p][1].expires_at_ms
  /\ Swift!ValidateResponse(body)
  /\ answer' = [answer EXCEPT ![p] =
       <<[body |-> body,
          signature |-> [key |-> AgentKey, text |-> Swift!ResponseBytes(body)]]>>]
  /\ pc' = [pc EXCEPT ![p] = "answered"]
  /\ UNCHANGED <<clock, macBase, config, asked, sent, seen, shown, outcome, changed>>

\* The rest of run_fake_agent: it answers at once, with a response that does not
\* end with its request.
FakeAgentAnswers(p, decision) ==
  /\ pc[p] = "sent" /\ config.agent = "fake"
  /\ \E m \in Carried(p, sent[p][1], Requests, RequestFields) :
       LET method == IF decision = "approved" THEN "biometric-or-watch" ELSE "none"
           body == Rust!ForRequest(m.body, decision, method, MacNow, MacNow + ResponseMs,
                                   <<40>>)
       IN /\ Refusal(m) = "none"
          /\ Carry(p, sent[p][1], m)
          /\ seen' = [seen EXCEPT ![p] = <<m.body>>]
          /\ answer' = [answer EXCEPT ![p] =
               <<[body |-> body, signature |-> Rust!SignResponse(body, AgentKey)]>>]
  /\ pc' = [pc EXCEPT ![p] = "answered"]
  /\ UNCHANGED <<clock, macBase, config, asked, sent, shown, outcome>>

\* The lifetime of the request ends before an answer: the connection closes.
AgentGivesUp(p) ==
  /\ pc[p] = "prompt"
  /\ MacNow >= seen[p][1].expires_at_ms
  /\ End(p, "late")
  /\ UNCHANGED <<clock, macBase, config, asked, sent, seen, shown, answer, changed>>

(***************************************************************************)
(* The helper again.                                                       *)
(***************************************************************************)

\* run_request from the response on: an undecodable one is EXIT_PROTOCOL, a
\* mismatch or an untimely one EXIT_TAMPER, an expired request EXIT_UNAVAILABLE.
Verdict(p, m) ==
  LET request == sent[p][1].body
  IN  CASE ~ Rust!Decodes(m.body) -> "garbled"
        [] Rust!Decodes(m.body) /\ ~ ( /\ Rust!Verify(m.body, m.signature, AgentKey)
                                       /\ Rust!VerifyBinding(m.body, request) ) -> "mismatch"
        [] OTHER ->
             IF \/ LinuxNow >= request.expires_at_ms
                \/ ~ Rust!VerifyFreshness(request, LinuxNow, Skew)
             THEN "expired"
             ELSE IF Rust!VerifyFreshness(m.body, LinuxNow, Skew)
                  THEN m.body.decision ELSE "untimely"

HelperDecides(p) ==
  /\ pc[p] = "answered"
  /\ \E m \in Carried(p, answer[p][1], Answers, ResponseFields) :
       /\ Carry(p, answer[p][1], m)
       /\ End(p, Verdict(p, m))
  /\ UNCHANGED <<clock, macBase, config, asked, sent, seen, shown, answer>>

Tick ==
  /\ clock < MaxClock
  /\ clock' = clock + 1
  /\ UNCHANGED <<macBase, config, pc, asked, sent, seen, shown, answer, outcome, changed>>

Next ==
  \/ Tick
  \/ \E p \in Proc :
       \/ \E host \in HostConfigs[p] : Refuse(p, host) \/ Send(p, host)
       \/ AgentRefuses(p) \/ AgentAccepts(p) \/ ShowAlert(p) \/ ShowReason(p)
       \/ AgentGivesUp(p)
       \/ \E d \in AgentDecisions : AgentAnswers(p, d) \/ FakeAgentAnswers(p, d)
       \/ HelperDecides(p)

Spec == Init /\ [][Next]_vars

-----------------------------------------------------------------------------

\* The spelling of alg is the one part of a request that is not signed.
SameRequest(b, c) == [b EXCEPT !.alg = c.alg] = c

Outcomes == {"none", "refused", "unlisted", "unverified", "stale", "late", "garbled",
             "mismatch", "expired", "untimely"} \cup Rust!Decisions

\* Types of the state that the messages do not fix.
TypeOK ==
  /\ clock \in 0..MaxClock
  /\ macBase \in MacBases
  /\ config \in AgentConfigs
  /\ pc \in [Proc -> {"idle", "sent", "prompt", "answered", "done"}]
  /\ \A p \in Proc : asked[p] \in Items[p]
  /\ outcome \in [Proc -> Outcomes]
  /\ changed \subseteq Proc
  /\ shown \in [Proc -> SUBSET {"alert", "reason"}]
  /\ \A p \in Proc : {Len(sent[p]), Len(seen[p]), Len(answer[p])} \subseteq 0..1

(***************************************************************************)
(* A request that the agent accepts and may show was signed, field by      *)
(* field, by the helper of some transaction, with the key that the agent's *)
(* configuration gives the host id shown: canonicalBytes loses nothing and *)
(* a host cannot be shown under the id of another listed one.              *)
(***************************************************************************)
ShownWasSigned ==
  \A p \in Proc : seen[p] # <<>> =>
    \E q \in Proc :
      /\ sent[q] # <<>>
      /\ SameRequest(seen[p][1], sent[q][1].body)
      /\ VerifierFor(seen[p][1].linux_host_id) = <<sent[q][1].signature.key>>

\* A text shown for the transaction p says what PAM asked of it, and on which host;
\* an unset and an empty item are shown alike.
Says(text, p) ==
  /\ text.host = sent[p][1].body.linux_hostname
  /\ text.user = asked[p].user
  /\ Swift!Detail(asked[p].service) \in {<<>>, <<text.service>>}
  /\ text.requester = Swift!Detail(asked[p].ruser)
  /\ text.tty = Swift!Detail(asked[p].tty)

(***************************************************************************)
(* A transaction ends with a decision only if the agent took that decision *)
(* on the request of this very transaction, and then all that the user was *)
(* shown was about it: localAuthenticationReason and, where confirmation   *)
(* is required, confirmationText, which names remote host and host id as   *)
(* well.  An approval by the agent was given on these texts.  The rate     *)
(* limiter, an unavailable policy and the fake agent decide without        *)
(* showing anything.                                                       *)
(***************************************************************************)
DecisionIsAboutWhatPamAsked ==
  \A p \in Proc : outcome[p] \in Rust!Decisions =>
    \E q \in Proc :
      /\ seen[q] # <<>> /\ seen[q][1].nonce = Nonce[p]
      /\ answer[q] # <<>> /\ answer[q][1].body.decision = outcome[p]
      /\ "reason" \in shown[q] => Says(Swift!LocalAuthenticationReason(seen[q][1]), p)
      /\ "alert" \in shown[q] =>
           LET text == Swift!ConfirmationText(seen[q][1])
           IN  /\ Says(text, p)
               /\ text.hostId = sent[p][1].body.linux_host_id
               /\ text.remoteHost = Swift!Detail(asked[p].rhost)
      /\ outcome[p] = "approved" /\ config.agent = "serve" =>
           /\ "reason" \in shown[q]
           /\ config.require_confirmation => "alert" \in shown[q]

(***************************************************************************)
(* The two implementations understand each other: when the link changed    *)
(* nothing and the agent has the host's key, neither side takes the other  *)
(* for an impostor or its message for garbage, whatever the clocks say.    *)
(***************************************************************************)
PlainExchangeIsUnderstood ==
  \A p \in Proc \ changed :
    ( /\ sent[p] # <<>>
      /\ VerifierFor(sent[p][1].body.linux_host_id) = <<sent[p][1].signature.key>> )
      => outcome[p] \notin {"unlisted", "unverified", "garbled", "mismatch"}
=============================================================================
