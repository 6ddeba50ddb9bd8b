----------------------------- MODULE MCExchange -----------------------------
(* Exchange for TLC: two transactions, two hosts, one agent. *)
EXTENDS Exchange

TextA == <<97>>
TextB == <<98, 97>>

MCProc == {1, 2}
MCNonce == [p \in MCProc |-> <<50 + p>>]
MCPid == [p \in MCProc |-> 7]

\* A requester is unset, empty or set, a service unset or set, a user may be empty.
Asked(user, service, ruser) ==
  [user |-> user, service |-> service, ruser |-> ruser, rhost |-> <<>>, tty |-> <<TextB>>]
AllItems ==
  {Asked(<<>>, <<>>, <<>>), Asked(TextA, <<>>, <<>>), Asked(TextA, <<TextB>>, <<(<<>>)>>),
   Asked(TextA, <<>>, <<TextA>>)}

Plain == [user |-> TextA, service |-> <<TextB>>, ruser |-> <<>>, rhost |-> <<TextA>>,
          tty |-> <<>>]
MCItems == [p \in MCProc |-> IF p = 1 THEN AllItems ELSE {Plain}]

HostA == [key |-> "keyA", key_id |-> <<>>, host_id |-> <<TextA>>, hostname |-> <<TextA>>,
          service |-> <<>>]
HostB == [key |-> "keyB", key_id |-> <<>>, host_id |-> <<TextB>>, hostname |-> <<TextA>>,
          service |-> <<TextA>>]
\* B's key under A's host id, and a blank host id.
HostBAsA == [HostB EXCEPT !.host_id = HostA.host_id]
HostBlank == [HostA EXCEPT !.host_id = <<(<<32>>)>>]
MCHostConfigs ==
  [p \in MCProc |-> IF p = 1 THEN {HostA, HostB, HostBAsA, HostBlank} ELSE {HostB}]

Listed == {[host_id |-> TextA, key |-> "keyA"], [host_id |-> TextB, key |-> "keyB"]}
MCAgentConfigs ==
  {[agent |-> "serve", hosts |-> Listed, host_public_key |-> "none",
    require_confirmation |-> TRUE],
   [agent |-> "serve", hosts |-> {}, host_public_key |-> "keyA",
    require_confirmation |-> FALSE],
   [agent |-> "fake", hosts |-> {}, host_public_key |-> "keyA",
    require_confirmation |-> FALSE]}

MCTexts == {<<>>, TextA, TextB}
=============================================================================
