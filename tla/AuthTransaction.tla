-------------------------- MODULE AuthTransaction --------------------------
(***************************************************************************)
(* What one authentication promises, whatever happens on the way: a        *)
(* request is granted only if the user consented to that very request,     *)
(* password fallback is offered only while there is no evidence of         *)
(* interference with it, and an outcome is final                           *)
(* (docs/fallback-policy.md, docs/threat-model.md).                        *)
(***************************************************************************)
CONSTANT Request

VARIABLES
  consent,    \* requests the user approved
  evidence,   \* requests that received a response not made for them
  outcome     \* of each request

tvars == <<consent, evidence, outcome>>

Outcomes == {"open", "granted", "fallback", "refused"}

Init ==
  /\ consent = {} /\ evidence = {}
  /\ outcome = [r \in Request |-> "open"]

\* The user may consent at any time, also too late.
Consent(r) ==
  /\ consent' = consent \cup {r}
  /\ UNCHANGED <<evidence, outcome>>

Interfere(r) ==
  /\ outcome[r] = "open"
  /\ evidence' = evidence \cup {r}
  /\ UNCHANGED <<consent, outcome>>

Grant(r) ==
  /\ outcome[r] = "open" /\ r \in consent \ evidence
  /\ outcome' = [outcome EXCEPT ![r] = "granted"]
  /\ UNCHANGED <<consent, evidence>>

FallBack(r) ==
  /\ outcome[r] = "open" /\ r \notin evidence
  /\ outcome' = [outcome EXCEPT ![r] = "fallback"]
  /\ UNCHANGED <<consent, evidence>>

Refuse(r) ==
  /\ outcome[r] = "open"
  /\ outcome' = [outcome EXCEPT ![r] = "refused"]
  /\ UNCHANGED <<consent, evidence>>

Next ==
  \E r \in Request :
     Consent(r) \/ Interfere(r) \/ Grant(r) \/ FallBack(r) \/ Refuse(r)

Spec == Init /\ [][Next]_tvars

=============================================================================
