--------------------------- MODULE ListenerProofs ---------------------------
(***************************************************************************)
(* Proofs about Listener for any number of agent processes, any backlog,   *)
(* deaths at every system call and changes of the path at any time.  What  *)
(* agents promise that run one after the other rests on who can listen     *)
(* while another one unlinks; what each promises of its own socket, on     *)
(* whose socket it has recorded.                                           *)
(***************************************************************************)
EXTENDS Listener, FiniteSetTheorems, TLAPS

Active(p) == pc[p] \notin {"off"} \cup Ended

\* Only an agent that serves, or is about to close, listens.
ListenersServe ==
  \A p \in Proc : sock[p] = "listening" => pc[p] \in {"serving", "close"}

\* Agents that launchd starts run one at a time, and none has unlinked a listener.
OneAtATime ==
  agents = 1 =>
    /\ \A p, q \in Proc : Active(p) /\ Active(q) => p = q
    /\ orphaned = {}

\* The socket of an agent is at the path only from its bind to its unlink, or once
\* it has died; and what an agent under which the path did not slip has recorded,
\* and finds when it removes it, is its own.
OwnSocket ==
  \A p \in Proc :
    /\ path = p => \/ pc[p] \in {"identify", "dead"}
                   \/ /\ pc[p] \in {"listen", "serving", "close", "compare", "remove"}
                      /\ identity[p] = p
    /\ pc[p] \in {"compare", "remove"} => identity[p] # "none"
    /\ p \notin slipped =>
         /\ identity[p] \in {p, "none"}
         /\ pc[p] \in {"identify", "remove"} => path = p

(* Every step of a start or of a shutdown keeps the types. *)
LEMMA TypeStep == TypeOK /\ [Next]_vars => TypeOK'
<1> SUFFICES ASSUME TypeOK, [Next]_vars PROVE TypeOK'
  OBVIOUS
<1> USE DEF TypeOK, Goto, Positions, Starting, Stopping, Ended, Sockets, Listening, Slips, history
<1>1. ASSUME NEW p \in Proc, Start(p) \/ Stop(p) \/ Relstat(p) \/ Compare(p) PROVE TypeOK'
  BY <1>1 DEF Start, Stop, Relstat, Compare
<1>2. ASSUME NEW p \in Proc, Lstat(p) PROVE TypeOK'
  BY <1>2 DEF Lstat
<1>3. ASSUME NEW p \in Proc, Probe(p) PROVE TypeOK'
  BY <1>3, ListenerAssumption DEF Probe
<1>4. ASSUME NEW p \in Proc, Unlink(p) \/ Remove(p) PROVE TypeOK'
  BY <1>4 DEF Unlink, Remove, Unlinked
<1>5. ASSUME NEW p \in Proc, Bind(p) PROVE TypeOK'
  BY <1>5 DEF Bind
<1>6. ASSUME NEW p \in Proc, Identify(p) \/ Listen(p) PROVE TypeOK'
  BY <1>6 DEF Identify, Listen
<1>7. ASSUME NEW p \in Proc, ClientConnect(p) \/ Accept(p) PROVE TypeOK'
  BY <1>7, ListenerAssumption DEF ClientConnect, Accept
<1>8. ASSUME NEW p \in Proc, Close(p) \/ Crash(p) PROVE TypeOK'
  BY <1>8, ListenerAssumption DEF Close, Crash
<1>9. CASE Replace \/ UNCHANGED vars
  BY <1>9, ListenerAssumption DEF Replace, vars
<1> QED
  BY <1>1, <1>2, <1>3, <1>4, <1>5, <1>6, <1>7, <1>8, <1>9 DEF Next, Step, AllEnded

\* Every variable keeps its type, the queue of a listener its length, for any
\* number of agents at once.
THEOREM TypeCorrect == Spec => []TypeOK
<1>1. Init => TypeOK
  BY ListenerAssumption DEF Init, TypeOK, Positions, Sockets
<1> QED
  BY <1>1, TypeStep, PTL DEF Spec

-----------------------------------------------------------------------------

(* Every step keeps it so that only an agent that serves, or is about to close, listens. *)
LEMMA ServeStep == TypeOK /\ ListenersServe /\ [Next]_vars => ListenersServe'
<1> SUFFICES ASSUME TypeOK, ListenersServe, [Next]_vars PROVE ListenersServe'
  OBVIOUS
<1> USE DEF TypeOK, ListenersServe, Goto, history
<1>1. ASSUME NEW p \in Proc, Start(p) \/ Stop(p) \/ Relstat(p) \/ Compare(p) \/ Lstat(p)
                             \/ Probe(p) \/ Unlink(p) \/ Remove(p) \/ Identify(p)
      PROVE  ListenersServe'
  BY <1>1 DEF Start, Stop, Relstat, Compare, Lstat, Probe, Unlink, Remove, Identify
<1>2. ASSUME NEW p \in Proc, Bind(p) \/ Listen(p) PROVE ListenersServe'
  BY <1>2 DEF Bind, Listen
<1>3. ASSUME NEW p \in Proc, Close(p) \/ Crash(p) \/ ClientConnect(p) \/ Accept(p)
      PROVE  ListenersServe'
  BY <1>3 DEF Close, Crash, ClientConnect, Accept
<1>4. CASE Replace \/ UNCHANGED vars
  BY <1>4 DEF Replace, vars
<1> QED
  BY <1>1, <1>2, <1>3, <1>4 DEF Next, Step, AllEnded

\* The limit of one lets an agent start only when no other is running.
LEMMA StartsAlone ==
  ASSUME TypeOK, agents = 1, NEW p \in Proc, Start(p)
  PROVE  \A q \in Proc : ~Active(q)
<1> DEFINE running == {q \in Proc : pc[q] \notin {"off"} \cup Ended}
<1>1. IsFiniteSet(running)
  BY ListenerAssumption, FS_Subset
<1>2. Cardinality(running) < 1
  BY DEF Start
<1>3. running = {}
  BY <1>1, <1>2, FS_CardinalityType, FS_EmptySet
<1> QED
  BY <1>3 DEF Active

\* No listener is at the path when the only agent that runs unlinks it.
LEMMA UnlinksNoListener ==
  ASSUME TypeOK, ListenersServe, OneAtATime, agents = 1, NEW p \in Proc,
         pc[p] \in {"unlink", "remove"}, Unlinked(p)
  PROVE  path' = "none" /\ orphaned' = {}
<1>1. ASSUME Listening(path) PROVE FALSE
  <2>1. path \in Proc /\ pc[path] \in {"serving", "close"}
    BY <1>1 DEF Listening, ListenersServe
  <2>2. Active(path) /\ Active(p)
    BY <2>1 DEF Active, Ended
  <2> QED
    BY <2>1, <2>2 DEF OneAtATime
<1> QED
  BY <1>1 DEF Unlinked, OneAtATime

(* Every step keeps launchd's agents one at a time, and listeners at their path. *)
LEMMA OneStep ==
  TypeOK /\ ListenersServe /\ OneAtATime /\ [Next]_vars => OneAtATime'
<1> SUFFICES ASSUME TypeOK, ListenersServe, OneAtATime, [Next]_vars, agents' = 1
             PROVE  OneAtATime'
  BY DEF OneAtATime
<1>0. agents = 1
  BY DEF Next, Step, AllEnded, Start, Stop, Relstat, Compare, Lstat, Probe, Unlink, Remove,
     Identify, Bind, Listen, Close, Crash, ClientConnect, Accept, Replace, vars
<1> USE <1>0 DEF TypeOK, OneAtATime, Active, Goto, Ended, history
<1>1. ASSUME NEW p \in Proc, Start(p) PROVE OneAtATime'
  BY <1>1, StartsAlone DEF Start
<1>2. ASSUME NEW p \in Proc, Stop(p) \/ Relstat(p) \/ Lstat(p) \/ Probe(p) PROVE OneAtATime'
  BY <1>2 DEF Stop, Relstat, Lstat, Probe
<1>3. ASSUME NEW p \in Proc, Unlink(p) PROVE OneAtATime'
  <2>1. CASE path = "none"
    BY <1>3, <2>1 DEF Unlink
  <2>2. CASE path # "none"
    <3>1. path' = "none" /\ orphaned' = {}
      BY <1>3, <2>2, UnlinksNoListener DEF Unlink
    <3> QED
      BY <1>3, <2>2, <3>1 DEF Unlink
  <2> QED
    BY <2>1, <2>2
<1>4. ASSUME NEW p \in Proc, Remove(p) PROVE OneAtATime'
  <2>1. path' = "none" /\ orphaned' = {}
    BY <1>4, UnlinksNoListener DEF Remove
  <2> QED
    BY <1>4, <2>1 DEF Remove
<1>5. ASSUME NEW p \in Proc, Bind(p) PROVE OneAtATime'
  BY <1>5 DEF Bind
<1>6. ASSUME NEW p \in Proc, Identify(p) PROVE OneAtATime'
  BY <1>6 DEF Identify
<1>7. ASSUME NEW p \in Proc, Listen(p) \/ Accept(p) \/ ClientConnect(p) PROVE OneAtATime'
  BY <1>7 DEF Listen, Accept, ClientConnect
<1>8. ASSUME NEW p \in Proc, Close(p) \/ Compare(p) PROVE OneAtATime'
  BY <1>8 DEF Close, Compare
<1>9. ASSUME NEW p \in Proc, Crash(p) PROVE OneAtATime'
  BY <1>9 DEF Crash
<1>10. CASE Replace
  BY <1>10 DEF Replace
<1>11. CASE UNCHANGED vars
  BY <1>11 DEF vars
<1> QED
  BY <1>1, <1>2, <1>3, <1>4, <1>5, <1>6, <1>7, <1>8, <1>9, <1>10, <1>11
     DEF Next, Step, AllEnded

-----------------------------------------------------------------------------

(* Every step keeps an agent's socket its own, whatever the others and the user do. *)
LEMMA OwnStep == TypeOK /\ OwnSocket /\ [Next]_vars => OwnSocket'
<1> SUFFICES ASSUME TypeOK, OwnSocket, [Next]_vars PROVE OwnSocket'
  OBVIOUS
<1> USE ListenerAssumption DEF TypeOK, OwnSocket, Goto, history, Slips, Sockets, Ended
<1>1. ASSUME NEW p \in Proc, Start(p) \/ Stop(p) \/ Relstat(p) \/ Lstat(p) \/ Probe(p)
      PROVE  OwnSocket'
  BY <1>1 DEF Start, Stop, Relstat, Lstat, Probe
<1>2. ASSUME NEW p \in Proc, Unlink(p) PROVE OwnSocket'
  BY <1>2 DEF Unlink, Unlinked
<1>3. ASSUME NEW p \in Proc, Remove(p) PROVE OwnSocket'
  BY <1>3 DEF Remove, Unlinked
<1>4. ASSUME NEW p \in Proc, Bind(p) PROVE OwnSocket'
  BY <1>4 DEF Bind
<1>5. ASSUME NEW p \in Proc, Identify(p) PROVE OwnSocket'
  BY <1>5 DEF Identify
<1>6. ASSUME NEW p \in Proc, Listen(p) \/ Accept(p) \/ ClientConnect(p) PROVE OwnSocket'
  BY <1>6 DEF Listen, Accept, ClientConnect
<1>7. ASSUME NEW p \in Proc, Close(p) PROVE OwnSocket'
  BY <1>7 DEF Close
<1>8. ASSUME NEW p \in Proc, Compare(p) PROVE OwnSocket'
  BY <1>8 DEF Compare
<1>9. ASSUME NEW p \in Proc, Crash(p) PROVE OwnSocket'
  BY <1>9 DEF Crash
<1>10. CASE Replace
  BY <1>10 DEF Replace
<1>11. CASE UNCHANGED vars
  BY <1>11 DEF vars
<1> QED
  BY <1>1, <1>2, <1>3, <1>4, <1>5, <1>6, <1>7, <1>8, <1>9, <1>10, <1>11
     DEF Next, Step, AllEnded

(* The inductive invariant of the listener holds throughout. *)
LEMMA ListenerInvariant ==
  Spec => [](TypeOK /\ ListenersServe /\ OneAtATime /\ OwnSocket)
<1>1. Init => ListenersServe /\ OneAtATime
  BY DEF Init, ListenersServe, OneAtATime, Active
<1>2. Init => OwnSocket
  BY ListenerAssumption DEF Init, OwnSocket
<1> QED
  BY <1>1, <1>2, TypeCorrect, ServeStep, OneStep, OwnStep, PTL DEF Spec

\* However many agents launchd starts one after the other, at whichever system call
\* each of them dies, and whatever the user does to the path, none unlinks the
\* socket of one that listens (removeStaleSocket, closeAndUnlink).
THEOREM SuccessorsSafe == Spec => []SuccessorsSpareListeners
<1>1. OneAtATime => SuccessorsSpareListeners
  BY DEF OneAtATime, SuccessorsSpareListeners, LiveNeverUnlinked
<1> QED
  BY <1>1, ListenerInvariant, PTL

\* For any number of agents that overlap, and any changes the user makes to the
\* path: an agent that ends by itself leaves no socket of its own, and
\* closeAndUnlink removes nothing but the socket its own bind has made, unless the
\* path changed between bind and lstat, or between closeAndUnlink's lstat and unlink.
THEOREM ShutdownIsOwn == Spec => []ShutdownRemovesOwn
<1>1. OwnSocket => ShutdownRemovesOwn
  BY DEF OwnSocket, ShutdownRemovesOwn
<1> QED
  BY <1>1, ListenerInvariant, PTL

=============================================================================
