------------------------------ MODULE Listener ------------------------------
(***************************************************************************)
(* The agent's listening socket (UnixSocketListener in                     *)
(* agent/Sources/MacosAuthAgent/Transport.swift): replacing a stale        *)
(* socket, bind, listen, accept, and closeAndUnlink, system call by system *)
(* call, for several agent processes started one after the other by        *)
(* launchd or at the same time by hand.  Any of them may die at any point, *)
(* and the user may remove or replace the file at any point.               *)
(* A file is named by the process that bound it.                           *)
(***************************************************************************)
EXTENDS Naturals, FiniteSets

CONSTANTS
  Proc,      \* agent processes, each started once
  Order,     \* in which order: they are named as they start
  Backlog,   \* connections the kernel queues for a listener
  Limits,    \* how many may run at once: 1 under launchd, 2 when started by hand
  MaxChanges \* bound: how often the user changes what is at the path

ASSUME ListenerAssumption ==
  /\ Backlog \in Nat /\ Limits \subseteq Nat /\ MaxChanges \in Nat
  /\ Order \in [Proc -> Nat]
  /\ IsFiniteSet(Proc) /\ Proc \cap {"none", "old", "other"} = {}

VARIABLES
  agents,    \* how many run at once
  path,      \* what is at the socket path: "none", "old" (a dead agent's socket),
             \* "other" (not a socket of ours) or the socket of a process
  pc,        \* where each process is
  sock,      \* its socket: "none", "bound", "listening", "closed"
  queue,     \* connections waiting to be accepted
  seen,      \* st of removeStaleSocket
  identity,  \* the file recorded after bind
  orphaned,  \* history: processes whose listening socket an agent unlinked
  slipped,   \* history: processes under which the path changed where they do not
             \* look: between bind and lstat, or between lstat and unlink
  changes    \* the changes that the user will still make

history == <<orphaned, slipped>>
vars == <<agents, path, pc, sock, queue, seen, identity, history, changes>>

Starting == {"lstat", "probe", "relstat", "unlink", "bind", "identify", "listen"}
Stopping == {"close", "compare", "remove"}
Ended    == {"exited", "failed", "dead"}
Positions == {"off", "serving"} \cup Starting \cup Stopping \cup Ended
Sockets  == Proc \cup {"old"}
Listening(f) == f \in Proc /\ sock[f] = "listening"

Goto(p, from, to) == pc[p] = from /\ pc' = [pc EXCEPT ![p] = to]

\* Some other process, or the user, changes what is at the path.
Slips(others) ==
  slipped' = slipped \cup {q \in others : pc[q] \in {"identify", "remove"}}

\* p unlinks the path: the name goes, whatever it stands for by now.
Unlinked(p) ==
  /\ path' = "none"
  /\ orphaned' = IF Listening(path) THEN orphaned \cup {path} ELSE orphaned
  /\ Slips(Proc \ {p})

Init ==
  /\ agents \in Limits
  /\ path \in {"none", "old"}
  /\ pc = [p \in Proc |-> "off"]
  /\ sock = [p \in Proc |-> "none"]
  /\ queue = [p \in Proc |-> 0]
  /\ seen = [p \in Proc |-> "none"]
  /\ identity = [p \in Proc |-> "none"]
  /\ orphaned = {} /\ slipped = {} /\ changes \in 0..MaxChanges

Start(p) ==
  /\ Cardinality({q \in Proc : pc[q] \notin {"off"} \cup Ended}) < agents
  /\ \A q \in Proc : Order[q] < Order[p] => pc[q] # "off"
  /\ Goto(p, "off", "lstat")
  /\ UNCHANGED <<agents, path, sock, queue, seen, identity, history, changes>>

-----------------------------------------------------------------------------
(* removeStaleSocket                                                       *)

Lstat(p) ==
  /\ \/ path = "none" /\ Goto(p, "lstat", "bind") /\ UNCHANGED seen
     \/ path = "other" /\ Goto(p, "lstat", "failed") /\ UNCHANGED seen
     \/ /\ path \in Sockets
        /\ Goto(p, "lstat", "probe")
        /\ seen' = [seen EXCEPT ![p] = path]
  /\ UNCHANGED <<agents, path, sock, queue, identity, history, changes>>

\* connect: accepted into the queue, refused (nobody listens, or the queue is
\* full), or any other error.  Only a refusal means stale.
Probe(p) ==
  /\ \/ /\ Listening(path) /\ queue[path] < Backlog
        /\ Goto(p, "probe", "failed")
        /\ queue' = [queue EXCEPT ![path] = @ + 1]
     \/ /\ path \in Sockets /\ (Listening(path) => queue[path] = Backlog)
        /\ Goto(p, "probe", "relstat")
        /\ UNCHANGED queue
     \/ path \notin Sockets /\ Goto(p, "probe", "failed") /\ UNCHANGED queue
  /\ UNCHANGED <<agents, path, sock, seen, identity, history, changes>>

\* The second lstat must find the same file ...
Relstat(p) ==
  /\ Goto(p, "relstat", IF path = seen[p] THEN "unlink" ELSE "failed")
  /\ seen' = [seen EXCEPT ![p] = "none"]
  /\ UNCHANGED <<agents, path, sock, queue, identity, history, changes>>

\* Mutant of Unlink: a stale socket is left in place.
UnlinkSkipped(p) ==
  /\ Goto(p, "unlink", "bind")
  /\ UNCHANGED <<agents, path, sock, queue, seen, identity, history, changes>>

\* ... and then the name is removed.
Unlink(p) ==
  /\ \/ path # "none" /\ Goto(p, "unlink", "bind") /\ Unlinked(p)
     \/ /\ path = "none" /\ Goto(p, "unlink", "failed")
        /\ UNCHANGED <<path, orphaned, slipped>>
  /\ UNCHANGED <<agents, sock, queue, seen, identity, changes>>

-----------------------------------------------------------------------------
(* init: bind, lstat, chmod and listen; a failure closes and unlinks.      *)

Bind(p) ==
  /\ \/ /\ path = "none" /\ Goto(p, "bind", "identify")
        /\ path' = p
        /\ sock' = [sock EXCEPT ![p] = "bound"]
        /\ Slips(Proc \ {p})
     \/ path # "none" /\ Goto(p, "bind", "close") /\ UNCHANGED <<path, sock, slipped>>
  /\ UNCHANGED <<agents, queue, seen, identity, orphaned, changes>>

\* Mutant of Identify: type and owner of the file are not looked at.
IdentifyUnchecked(p) ==
  /\ Goto(p, "identify", "listen")
  /\ identity' = [identity EXCEPT ![p] = path]
  /\ UNCHANGED <<agents, path, sock, queue, seen, history, changes>>

Identify(p) ==
  /\ \/ /\ path \in Sockets /\ Goto(p, "identify", "listen")
        /\ identity' = [identity EXCEPT ![p] = path]
     \/ path \notin Sockets /\ Goto(p, "identify", "close") /\ UNCHANGED identity
  /\ UNCHANGED <<agents, path, sock, queue, seen, history, changes>>

Listen(p) ==
  /\ \/ /\ path # "none" /\ Goto(p, "listen", "serving")
        /\ sock' = [sock EXCEPT ![p] = "listening"]
     \/ path = "none" /\ Goto(p, "listen", "close") /\ UNCHANGED sock
  /\ UNCHANGED <<agents, path, queue, seen, identity, history, changes>>

-----------------------------------------------------------------------------
(* accept, and closeAndUnlink                                              *)

ClientConnect(p) ==
  /\ path = p /\ Listening(p) /\ queue[p] < Backlog
  /\ queue' = [queue EXCEPT ![p] = @ + 1]
  /\ UNCHANGED <<agents, path, pc, sock, seen, identity, history, changes>>

Accept(p) ==
  /\ pc[p] = "serving" /\ queue[p] > 0
  /\ queue' = [queue EXCEPT ![p] = @ - 1]
  /\ UNCHANGED <<agents, path, pc, sock, seen, identity, history, changes>>

\* The server returns: serve --once is done, or acceptFileHandle threw.
Stop(p) ==
  /\ Goto(p, "serving", "close")
  /\ UNCHANGED <<agents, path, sock, queue, seen, identity, history, changes>>

\* Mutant of Close: the name is removed before the descriptor is closed.
CloseLate(p) ==
  /\ Goto(p, "close", IF identity[p] = "none" THEN "failed" ELSE "compare")
  /\ UNCHANGED <<agents, path, sock, queue, seen, identity, history, changes>>

Close(p) ==
  /\ Goto(p, "close", IF identity[p] = "none" THEN "failed" ELSE "compare")
  /\ sock' = [sock EXCEPT ![p] = "closed"]
  /\ queue' = [queue EXCEPT ![p] = 0]
  /\ UNCHANGED <<agents, path, seen, identity, history, changes>>

\* Mutant of Compare: the identity is not compared.
CompareSkipped(p) ==
  /\ Goto(p, "compare", "remove")
  /\ UNCHANGED <<agents, path, sock, queue, seen, identity, history, changes>>

Compare(p) ==
  /\ \/ path = identity[p] /\ Goto(p, "compare", "remove") /\ UNCHANGED identity
     \/ /\ path # identity[p] /\ Goto(p, "compare", "exited")
        /\ identity' = [identity EXCEPT ![p] = "none"]
  /\ UNCHANGED <<agents, path, sock, queue, seen, history, changes>>

Remove(p) ==
  /\ Goto(p, "remove", "exited")
  /\ Unlinked(p)
  /\ identity' = [identity EXCEPT ![p] = "none"]
  /\ UNCHANGED <<agents, sock, queue, seen, changes>>

\* The process dies: descriptors are closed, its memory is gone, the file stays.
Crash(p) ==
  /\ pc[p] \notin {"off"} \cup Ended
  /\ pc' = [pc EXCEPT ![p] = "dead"]
  /\ sock' = [sock EXCEPT ![p] = "closed"]
  /\ queue' = [queue EXCEPT ![p] = 0]
  /\ seen' = [seen EXCEPT ![p] = "none"]
  /\ identity' = [identity EXCEPT ![p] = "none"]
  /\ slipped' = slipped \ {p}
  /\ UNCHANGED <<agents, path, orphaned, changes>>

\* The user removes what is at the path, or puts a file of his own there, between
\* any two system calls of the agents.
Replace ==
  /\ changes > 0 /\ changes' = changes - 1
  /\ path' \in {"none", "other"} \ {path}
  /\ Slips(Proc)
  /\ UNCHANGED <<agents, pc, sock, queue, seen, identity, orphaned>>

Step(p) ==
  \/ Lstat(p) \/ Probe(p) \/ Relstat(p) \/ Unlink(p) \/ Bind(p) \/ Identify(p)
  \/ Listen(p) \/ Accept(p) \/ Close(p) \/ Compare(p) \/ Remove(p)

AllEnded == (\A p \in Proc : pc[p] \in Ended) /\ UNCHANGED vars

Next ==
  \/ Replace \/ AllEnded
  \/ \E p \in Proc : Start(p) \/ Step(p) \/ ClientConnect(p) \/ Stop(p) \/ Crash(p)

Spec == Init /\ [][Next]_vars
FairSpec == Spec /\ \A p \in Proc : WF_vars(Step(p))

-----------------------------------------------------------------------------
(* Properties.                                                             *)

TypeOK ==
  /\ agents \in Limits
  /\ path \in Sockets \cup {"none", "other"}
  /\ pc \in [Proc -> Positions]
  /\ sock \in [Proc -> {"none", "bound", "listening", "closed"}]
  /\ queue \in [Proc -> 0..Backlog]
  /\ seen \in [Proc -> Sockets \cup {"none"}]
  /\ identity \in [Proc -> Sockets \cup {"none"}]
  /\ orphaned \subseteq Proc /\ slipped \subseteq Proc
  /\ changes \in 0..MaxChanges

\* agent/README.md: "live listeners are never unlinked".  Two agents started at
\* the same time do not keep it (removeStaleSocket: probe, lstat and unlink are
\* separate calls, and a full queue is refused like a dead socket).
LiveNeverUnlinked == orphaned = {}

\* Agents that launchd starts one after the other never unlink a live listener,
\* wherever the previous one died, not even their own (closeAndUnlink closes
\* first, so that no client is queued for a socket whose name is going).
SuccessorsSpareListeners == agents = 1 => LiveNeverUnlinked

\* agent/README.md: "Shutdown removes only the socket identity created by this
\* listener".  However many agents overlap, and whatever the user does to the path
\* meanwhile, an agent that ends by itself does not leave its own socket, and
\* removes nothing else, unless the path changed in one of the two windows that
\* looking at a name leaves open: after bind, before the lstat that takes the
\* identity, and after the lstat of closeAndUnlink, before its unlink.
ShutdownRemovesOwn ==
  \A p \in Proc :
     /\ pc[p] \in {"exited", "failed"} => path # p
     /\ pc[p] = "remove" /\ p \notin slipped => path = p

\* Whatever the user, and agents that overlapped or died between any two of their
\* system calls, have left behind short of a foreign file, an agent that starts
\* alone and is left alone gets the path and serves, unless it dies itself
\* (removeStaleSocket and bind against a launchd restart).
RecoversAlone ==
  \A p \in Proc :
     /\ pc[p] = "lstat" /\ path # "other" /\ changes = 0
     /\ \A q \in Proc \ {p} : pc[q] \in Ended
     ~> pc[p] \in {"serving", "dead"}

=============================================================================
