----------------------------- MODULE ConfigFile -----------------------------
(***************************************************************************)
(* The agent's configuration file (agent/Sources/MacosAuthAgent):          *)
(* "hosts add" and "hosts remove" of main.swift over readSafeFile and      *)
(* replaceConfigFile of SecureFiles.swift, system call by system call, for *)
(* commands that run one after the other or at the same time, are killed   *)
(* at any point, find the disk full, or go down with the system; the user  *)
(* may save a version of his own meanwhile.                                *)
(*                                                                         *)
(* Files are named like the command that created them.  The directory and  *)
(* the contents of a file reach the drive when they are synced, the        *)
(* directory perhaps earlier.  The drive keeps what it was given: fsync of *)
(* Darwin does not flush the drive's own cache, and the code does not ask  *)
(* for it (F_FULLFSYNC), so a loss of power that empties this cache is     *)
(* beyond what the module says.                                            *)
(***************************************************************************)
EXTENDS Naturals, FiniteSets

CONSTANTS
  Command,   \* runs of macos-auth-agent hosts, each once
  Host,      \* host ids
  Limits     \* how many commands may run at once

ASSUME CommandAssumption ==
  /\ IsFiniteSet(Command) /\ Command \cap {"original", "user"} = {}
  /\ Limits \subseteq Nat

VARIABLES
  together,  \* how many commands run at once
  name,      \* the file the config path stands for
  disk,      \* the same, on the drive
  temps,     \* replacement names in the directory
  data,      \* contents of every file
  synced,    \* files whose contents are on the drive
  mode,      \* "0600" or "0644"
  pc,        \* where each command is
  op,        \* its subcommand and host id
  config,    \* the configuration it will write
  original,  \* the file whose metadata replaceConfigFile took
  overtaken, \* history: commands under which the config was replaced where they
             \* do not look: after the load and before the file is opened again,
             \* or after the comparison and before the rename
  want       \* history: what the acknowledged commands say about each host

files == <<name, disk, temps, data, synced, mode>>
history == <<overtaken, want>>
vars  == <<together, files, pc, op, config, original, history>>

Ended == {"ok", "failed", "dead"}
Positions == {"off", "load", "open", "create", "write", "chmod", "sync",
              "compare", "rename", "syncdir", "unlink", "giveUp"} \cup Ended
Inodes == Command \cup {"original", "user"}
Ops == [what : {"add", "remove"}, host : Host]

\* AgentConfig: the allowlist, whether there is a host_public_key_* (the
\* wildcard of hostVerifiers), an inline agent key; "no" for a file that does
\* not decode.
Configs == [hosts : SUBSET Host, wildcard : {"yes", "no"},
            key : {"inline", "file"}, decodes : {"yes"}]
Partial == [hosts |-> {}, wildcard |-> "no", key |-> "file", decodes |-> "no"]

\* hostVerifiers: does serve accept requests of h?
Accepts(c, h) == IF c.hosts # {} THEN h \in c.hosts ELSE c.wildcard = "yes"

Goto(e, from, to) == pc[e] = from /\ pc' = [pc EXCEPT ![e] = to]

Init ==
  /\ together \in Limits
  /\ name = "original" /\ disk = "original" /\ temps = {}
  /\ \E c \in Configs : data = [f \in Inodes |-> IF f = "original" THEN c ELSE Partial]
  /\ synced = {"original"}
  /\ \E m \in {"0600", "0644"} :
        mode = [f \in Inodes |-> IF f = "original" THEN m ELSE "0600"]
  /\ pc = [e \in Command |-> "off"]
  /\ op \in [Command -> Ops]
  /\ config = [e \in Command |-> Partial]
  /\ original = [e \in Command |-> "original"]
  /\ overtaken = {} /\ want = [h \in Host |-> "any"]

\* The path gets another file: who does not notice?
Overtakes(others) ==
  overtaken' = overtaken \cup {d \in others : pc[d] \in {"open", "rename"}}

Start(e) ==
  /\ Cardinality({d \in Command : pc[d] \notin {"off"} \cup Ended}) < together
  /\ Goto(e, "off", "load")
  /\ UNCHANGED <<together, files, op, config, original, history>>

-----------------------------------------------------------------------------
(* runHosts: load, check and edit.                                         *)

\* The host list after the subcommand, for one that applies.
Applies(o, hosts) == IF o.what = "add" THEN o.host \notin hosts ELSE o.host \in hosts
Edited(o, hosts)  == IF o.what = "add" THEN hosts \cup {o.host} ELSE hosts \ {o.host}

\* loadAgentConfig refuses a file that does not decode, and an inline key that
\* others may read; runHosts refuses a subcommand that does not apply.
Load(e) ==
  LET c == data[name] IN
  /\ \/ /\ c.decodes = "yes"
        /\ c.key = "inline" => mode[name] = "0600"
        /\ Applies(op[e], c.hosts)
        /\ Goto(e, "load", "open")
        /\ config' = [config EXCEPT ![e] = [c EXCEPT !.hosts = Edited(op[e], @)]]
     \/ /\ \/ c.decodes = "no"
           \/ c.key = "inline" /\ mode[name] # "0600"
           \/ ~Applies(op[e], c.hosts)
        /\ Goto(e, "load", "failed")
        /\ UNCHANGED config
  /\ UNCHANGED <<together, files, op, original, history>>

-----------------------------------------------------------------------------
(* replaceConfigFile                                                       *)

\* The file is opened again, by name, for its owner and mode.
OpenOriginal(e) ==
  /\ Goto(e, "open", "create")
  /\ original' = [original EXCEPT ![e] = name]
  /\ UNCHANGED <<together, files, op, config, history>>

CreateReplacement(e) ==
  /\ Goto(e, "create", "write")
  /\ temps' = temps \cup {e}
  /\ mode' = [mode EXCEPT ![e] = "0600"]
  /\ UNCHANGED <<together, name, disk, data, synced, op, config, original, history>>

WriteAll(e) ==
  /\ Goto(e, "write", "chmod")
  /\ data' = [data EXCEPT ![e] = config[e]]
  /\ UNCHANGED <<together, name, disk, temps, synced, mode, op, config, original, history>>

\* Mutant of ReplacementMode: taken from a metadata record that was never filled.
ReplacementModeUnread(c, m) == "0000"

\* Mutant of ReplacementMode: the owner-only mask is forgotten.
ReplacementModeKept(c, m) == m

\* st_mode & (privateMaterial ? 0600 : 0777)
ReplacementMode(c, m) == IF c.key = "inline" THEN "0600" ELSE m

Chmod(e) ==
  /\ Goto(e, "chmod", "sync")
  /\ mode' = [mode EXCEPT ![e] = ReplacementMode(config[e], mode[original[e]])]
  /\ UNCHANGED <<together, name, disk, temps, data, synced, op, config, original, history>>

\* Mutant of Sync: renamed before the contents are on the drive.
SyncSkipped(e) ==
  /\ Goto(e, "sync", "compare")
  /\ UNCHANGED <<together, files, op, config, original, history>>

Sync(e) ==
  /\ Goto(e, "sync", "compare")
  /\ synced' = synced \cup {e}
  /\ UNCHANGED <<together, name, disk, temps, data, mode, op, config, original, history>>

\* Mutant of Compare: the file is not compared with the one that was opened.
CompareIgnored(e) ==
  /\ Goto(e, "compare", "rename")
  /\ UNCHANGED <<together, files, op, config, original, history>>

Compare(e) ==
  /\ Goto(e, "compare", IF name = original[e] THEN "rename" ELSE "giveUp")
  /\ UNCHANGED <<together, files, op, config, original, history>>

\* From here the host's fate is open until the command is acknowledged; that of
\* all hosts if the command was overtaken.
Rename(e) ==
  /\ Goto(e, "rename", "syncdir")
  /\ name' = e
  /\ temps' = temps \ {e}
  /\ Overtakes(Command \ {e})
  /\ want' = [h \in Host |-> IF e \in overtaken \/ h = op[e].host THEN "any" ELSE want[h]]
  /\ UNCHANGED <<together, disk, data, synced, mode, op, config, original>>

\* Mutant of SyncDirectory: the directory is not synced.
SyncDirectorySkipped(e) ==
  /\ Goto(e, "syncdir", "unlink")
  /\ UNCHANGED <<together, files, op, config, original, history>>

SyncDirectory(e) ==
  /\ Goto(e, "syncdir", "unlink")
  /\ disk' = name
  /\ UNCHANGED <<together, name, temps, data, synced, mode, op, config, original, history>>

\* defer: unlinkat of the replacement's name, which is gone by now; the command
\* reports success.
Acknowledge(e) ==
  /\ Goto(e, "unlink", "ok")
  /\ want' = IF name # e THEN want ELSE
               [want EXCEPT ![op[e].host] = IF op[e].what = "add" THEN "in" ELSE "out"]
  /\ UNCHANGED <<together, files, op, config, original, overtaken>>

\* A system call fails: the disk is full, or permission is lacking.
IOFails(e) ==
  /\ pc[e] \in {"load", "open", "create", "write", "chmod", "sync", "compare",
                "rename", "syncdir"}
  /\ pc' = [pc EXCEPT ![e] = IF @ \in {"load", "open", "create"} THEN "failed"
                             ELSE "giveUp"]
  /\ UNCHANGED <<together, files, op, config, original, history>>

\* Mutant of GiveUp: the replacement is left behind.
GiveUpLitters(e) ==
  /\ Goto(e, "giveUp", "failed")
  /\ UNCHANGED <<together, files, op, config, original, history>>

\* defer on the way out of an error.
GiveUp(e) ==
  /\ Goto(e, "giveUp", "failed")
  /\ temps' = temps \ {e}
  /\ UNCHANGED <<together, name, disk, data, synced, mode, op, config, original, history>>

-----------------------------------------------------------------------------
(* Surroundings.                                                           *)

Killed(e) ==
  /\ pc[e] \notin {"off"} \cup Ended
  /\ pc' = [pc EXCEPT ![e] = "dead"]
  /\ UNCHANGED <<together, files, op, config, original, history>>

\* The user saves another configuration over the path, with one host and
\* without an inline key.
UserSaves ==
  /\ data["user"] = Partial
  /\ name' = "user" /\ disk' = "user"
  /\ \E h \in Host, m \in {"0600", "0644"} :
        /\ data' = [data EXCEPT !["user"] =
                      [hosts |-> {h}, wildcard |-> "no", key |-> "file",
                       decodes |-> "yes"]]
        /\ mode' = [mode EXCEPT !["user"] = m]
  /\ synced' = synced \cup {"user"}
  /\ Overtakes(Command) /\ want' = [h \in Host |-> "any"]
  /\ UNCHANGED <<together, temps, pc, op, config, original>>

\* The kernel writes the directory back in its own time.
FlushDirectory ==
  /\ disk # name
  /\ disk' = name
  /\ UNCHANGED <<together, name, temps, data, synced, mode, pc, op, config, original, history>>

\* The system goes down; the drive has what it was given.
SystemCrash ==
  /\ \E e \in Command : pc[e] \notin {"off"} \cup Ended
  /\ name' = disk
  /\ data' = [f \in Inodes |-> IF f \in synced THEN data[f] ELSE Partial]
  /\ pc' = [e \in Command |-> IF pc[e] \in {"off"} \cup Ended THEN pc[e] ELSE "dead"]
  /\ UNCHANGED <<together, disk, temps, synced, mode, op, config, original, history>>

AllEnded == (\A e \in Command : pc[e] \in Ended) /\ UNCHANGED vars

Step(e) ==
  \/ Load(e) \/ OpenOriginal(e) \/ CreateReplacement(e) \/ WriteAll(e) \/ Chmod(e)
  \/ Sync(e) \/ Compare(e) \/ Rename(e) \/ SyncDirectory(e) \/ Acknowledge(e)
  \/ GiveUp(e)

Next ==
  \/ UserSaves \/ FlushDirectory \/ SystemCrash \/ AllEnded
  \/ \E e \in Command : Start(e) \/ Step(e) \/ IOFails(e) \/ Killed(e)

Spec == Init /\ [][Next]_vars

-----------------------------------------------------------------------------
(* Properties.                                                             *)

TypeOK ==
  /\ together \in Limits
  /\ name \in Inodes /\ disk \in Inodes
  /\ temps \subseteq Command
  /\ data \in [Inodes -> Configs \cup {Partial}]
  /\ synced \subseteq Inodes
  /\ mode \in [Inodes -> {"0600", "0644"}]
  /\ pc \in [Command -> Positions]
  /\ op \in [Command -> Ops]
  /\ config \in [Command -> Configs \cup {Partial}]
  /\ original \in [Command -> Inodes]
  /\ overtaken \subseteq Command
  /\ want \in [Host -> {"any", "in", "out"}]

\* Whatever dies or fails, and however many commands overlap, the config path
\* stands for a complete configuration, also on the drive: the agent can always
\* be started again (replaceConfigFile: write, fsync, rename).
AlwaysDecodes ==
  /\ data[name].decodes = "yes"
  /\ data[disk].decodes = "yes" /\ disk \in synced

\* agent/README.md: "narrowing inline-secret configs to owner-only permissions":
\* no file a command writes gives an inline private key to others, not even when
\* the config was replaced by a readable one after it had been loaded.
SecretsStayPrivate ==
  \A e \in Command : data[e].key = "inline" => mode[e] = "0600"

\* Commands keep their word, also when they overlap and when the system goes
\* down: after "hosts remove" has succeeded an agent that starts does not accept
\* the host (unless no host is left and the config has a wildcard key), after
\* "hosts add" it does.  Three things end this: a command on the same host, the
\* user saving a config of his own, and a command that was overtaken, which undoes
\* what it has not read.  A config that is replaced in between, after a command
\* has opened it and before it compares, is never overwritten (replaceConfigFile).
EditsAreDurable ==
  \A h \in Host :
     /\ want[h] = "in" => Accepts(data[name], h)
     /\ want[h] = "out" /\ Accepts(data[name], h) =>
          data[name].hosts = {} /\ data[name].wildcard = "yes"

\* A command that ends by itself leaves no replacement file behind, which would
\* be a copy of the configuration and of its inline key.
NoCopyLeft == \A e \in Command : pc[e] \in {"ok", "failed"} => e \notin temps

=============================================================================
