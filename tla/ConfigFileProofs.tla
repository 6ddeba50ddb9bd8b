-------------------------- MODULE ConfigFileProofs --------------------------
(***************************************************************************)
(* Proofs about ConfigFile for any number of commands and hosts.  The      *)
(* properties speak of the file the path stands for; the invariants say    *)
(* what has reached a command's replacement file, and the disk, by the     *)
(* time the command may rename it.                                         *)
(***************************************************************************)
EXTENDS ConfigFile, TLAPS

Early   == {"off", "load", "open", "create", "write"}
Written == {"chmod", "sync", "compare", "rename", "syncdir", "unlink"}
Between == {"create", "write", "chmod", "sync", "compare"}
BeforeRename == {"off", "load", "open", "rename"} \cup Between

\* What path and disk stand for was synced, and what was synced decodes; a
\* replacement is written, then synced, then renamed.
FilesInv ==
  /\ name \in synced /\ disk \in synced
  /\ \A f \in synced : data[f].decodes = "yes"
  /\ \A e \in Command :
        /\ pc[e] \in {"open", "create", "write"} \cup Written =>
             config[e].decodes = "yes"
        /\ pc[e] \in Written => data[e] = config[e]
        /\ pc[e] \in {"compare", "rename", "syncdir", "unlink"} => e \in synced
        /\ pc[e] \in Early => e \notin synced /\ data[e] = Partial

\* An inline key is in a file only from the moment in which its mode is narrow.
SecretsInv ==
  SecretsStayPrivate /\ \A e \in Command : pc[e] = "write" => mode[e] = "0600"

\* What the acknowledged commands say holds for a host list.
Keeps(hosts, h) == (want[h] = "in" => h \in hosts) /\ (want[h] = "out" => h \notin hosts)

\* A replacement is a new file: nobody has seen it before it is renamed, and
\* nobody the user's before he saves it.
NewFile(f) == name # f /\ disk # f /\ \A d \in Command : original[d] # f
NamesInv ==
  /\ \A e \in Command : pc[e] \in BeforeRename => NewFile(e)
  /\ "user" \notin synced => NewFile("user")

\* What command e will write is its edit of the config that is in place.
UpToDate(e) == config[e].hosts = Edited(op[e], data[name].hosts)

\* Path and drive keep every acknowledged edit; a command that was not overtaken
\* will keep those of all other hosts, or find the config changed; and it is
\* acknowledged when the drive has its file.
EditsInv ==
  /\ \A h \in Host : Keeps(data[name].hosts, h) /\ Keeps(data[disk].hosts, h)
  /\ \A e \in Command \ overtaken :
       /\ pc[e] \in {"open", "rename"} => UpToDate(e)
       /\ pc[e] \in Between /\ original[e] = name => UpToDate(e)
  /\ \A e \in Command :
       /\ pc[e] \in {"open", "create", "write"} \cup Written =>
            (op[e].what = "add" <=> op[e].host \in config[e].hosts)
       /\ pc[e] = "unlink" /\ name = e => disk = e

-----------------------------------------------------------------------------

\* No step of a command, of the user or of the disk leaves the types.
LEMMA TypeStep == TypeOK /\ [Next]_vars => TypeOK'
<1> SUFFICES ASSUME TypeOK, [Next]_vars PROVE TypeOK'
  OBVIOUS
<1> USE DEF TypeOK, files, history, Overtakes, Inodes, Positions, Ended, Ops, Configs, Partial
<1>1. ASSUME NEW e \in Command, Start(e) PROVE TypeOK'
  BY <1>1 DEF Start, Goto
<1>2. ASSUME NEW e \in Command, Load(e) PROVE TypeOK'
  <2>1. ASSUME NEW c \in Configs
        PROVE  [c EXCEPT !.hosts = Edited(op[e], @)] \in Configs
    BY DEF Edited
  <2>2. CASE data[name].decodes = "yes"
    <3>1. data[name] \in Configs
      BY <2>2
    <3>2. [data[name] EXCEPT !.hosts = Edited(op[e], @)] \in Configs
      BY <2>1, <3>1
    <3>3. config' \in [Command -> Configs \cup {Partial}]
      <4>1. \/ UNCHANGED config
            \/ config' = [config EXCEPT ![e] = [data[name] EXCEPT !.hosts = Edited(op[e], @)]]
        BY <1>2 DEF Load
      <4> HIDE DEF Configs, Partial
      <4> QED
        BY <3>2, <4>1
    <3>4. pc' \in [Command -> Positions]
      BY <1>2 DEF Load, Goto
    <3> QED
      BY <1>2, <3>3, <3>4 DEF Load
  <2>3. CASE data[name].decodes # "yes"
    <3>1. UNCHANGED <<together, files, op, config, original, history>>
      BY <1>2, <2>3 DEF Load
    <3>2. pc' \in [Command -> Positions]
      BY <1>2 DEF Load, Goto
    <3> HIDE DEF Configs, Partial, Positions, Ops
    <3> QED
      BY <3>1, <3>2
  <2> QED
    BY <2>2, <2>3
<1>3. ASSUME NEW e \in Command, OpenOriginal(e) PROVE TypeOK'
  BY <1>3 DEF OpenOriginal, Goto
<1>4. ASSUME NEW e \in Command, CreateReplacement(e) PROVE TypeOK'
  BY <1>4 DEF CreateReplacement, Goto
<1>5. ASSUME NEW e \in Command, WriteAll(e) PROVE TypeOK'
  BY <1>5 DEF WriteAll, Goto
<1>6. ASSUME NEW e \in Command, Chmod(e) PROVE TypeOK'
  BY <1>6 DEF Chmod, Goto, ReplacementMode
<1>7. ASSUME NEW e \in Command, Sync(e) PROVE TypeOK'
  BY <1>7 DEF Sync, Goto
<1>8. ASSUME NEW e \in Command, Compare(e) PROVE TypeOK'
  BY <1>8 DEF Compare, Goto
<1>9. ASSUME NEW e \in Command, Rename(e) PROVE TypeOK'
  BY <1>9 DEF Rename, Goto
<1>10. ASSUME NEW e \in Command, SyncDirectory(e) PROVE TypeOK'
  BY <1>10 DEF SyncDirectory, Goto
<1>11. ASSUME NEW e \in Command, Acknowledge(e) PROVE TypeOK'
  BY <1>11 DEF Acknowledge, Goto
<1>12. ASSUME NEW e \in Command, GiveUp(e) PROVE TypeOK'
  BY <1>12 DEF GiveUp, Goto
<1>13. ASSUME NEW e \in Command, IOFails(e) PROVE TypeOK'
  BY <1>13 DEF IOFails, Goto
<1>14. ASSUME NEW e \in Command, Killed(e) PROVE TypeOK'
  BY <1>14 DEF Killed, Goto
<1>15. CASE UserSaves
  BY <1>15 DEF UserSaves
<1>16. CASE FlushDirectory
  BY <1>16 DEF FlushDirectory
<1>17. CASE SystemCrash
  BY <1>17 DEF SystemCrash
<1>18. CASE UNCHANGED vars
  BY <1>18 DEF vars
<1> QED
  BY <1>1, <1>2, <1>3, <1>4, <1>5, <1>6, <1>7, <1>8, <1>9, <1>10, <1>11,
     <1>12, <1>13, <1>14, <1>15, <1>16, <1>17, <1>18
     DEF Next, Step, AllEnded

\* Every variable keeps its type, for any number of commands.
THEOREM TypeCorrect == Spec => []TypeOK
<1>1. Init => TypeOK
  BY DEF Init, TypeOK, Inodes, Positions, Ended, Ops, Configs, Partial
<1> QED
  BY <1>1, TypeStep, PTL DEF Spec

-----------------------------------------------------------------------------

\* runHosts either goes on with the edited host list of a config that decodes, or
\* fails and has changed nothing.
LEMMA LoadOutcome ==
  ASSUME TypeOK, NEW e \in Command, Load(e)
  PROVE  /\ pc[e] = "load"
         /\ UNCHANGED <<together, name, disk, temps, data, synced, mode, op,
                        original, history>>
         /\ \/ /\ pc' = [pc EXCEPT ![e] = "open"]
               /\ Applies(op[e], data[name].hosts)
               /\ \E c : /\ config' = [config EXCEPT ![e] = c]
                        /\ c.decodes = "yes"
                        /\ c.hosts = Edited(op[e], data[name].hosts)
            \/ pc' = [pc EXCEPT ![e] = "failed"] /\ UNCHANGED config
<1> DEFINE c == data[name]
           edited == [c EXCEPT !.hosts = Edited(op[e], c.hosts)]
<1>1. c \in Configs \cup {Partial}
  BY DEF TypeOK
<1>2. edited.hosts = Edited(op[e], c.hosts) /\ edited.decodes = c.decodes
  BY <1>1 DEF Configs, Partial
<1>3. /\ pc[e] = "load"
      /\ UNCHANGED <<together, name, disk, temps, data, synced, mode, op,
                     original, history>>
  BY DEF Load, Goto, files, history
<1>4. CASE c.decodes = "yes" /\ Applies(op[e], c.hosts)
           /\ pc' = [pc EXCEPT ![e] = "open"]
           /\ config' = [config EXCEPT ![e] = edited]
  <2>1. \E d : /\ config' = [config EXCEPT ![e] = d]
               /\ d.decodes = "yes"
               /\ d.hosts = Edited(op[e], c.hosts)
    <3> WITNESS edited
    <3> QED
      BY <1>2, <1>4
  <2> QED
    BY <1>3, <1>4, <2>1
<1>5. CASE pc' = [pc EXCEPT ![e] = "failed"] /\ UNCHANGED config
  BY <1>3, <1>5
<1> QED
  BY <1>4, <1>5 DEF Load, Goto

\* replaceConfigFile writes, syncs and renames in this order, and a file that
\* the path or the disk stands for is never written again.
LEMMA FilesStep == TypeOK /\ FilesInv /\ [Next]_vars => FilesInv'
<1> SUFFICES ASSUME TypeOK, FilesInv, [Next]_vars PROVE FilesInv'
  OBVIOUS
<1> USE CommandAssumption
    DEF TypeOK, FilesInv, Early, Written, files, history, Inodes, Positions, Ended, Partial
<1>1. ASSUME NEW e \in Command, Start(e) PROVE FilesInv'
  BY <1>1 DEF Start, Goto
<1>2. ASSUME NEW e \in Command, Load(e) PROVE FilesInv'
  <2>1. UNCHANGED <<together, name, disk, temps, data, synced, mode, op,
                    original, history>> /\ pc[e] = "load"
    BY <1>2, LoadOutcome
  <2>2. CASE pc' = [pc EXCEPT ![e] = "failed"] /\ UNCHANGED config
    BY <2>2, <2>1
  <2>3. ASSUME NEW c, config' = [config EXCEPT ![e] = c], c.decodes = "yes",
               c.hosts = Edited(op[e], data[name].hosts),
               Applies(op[e], data[name].hosts),
               pc' = [pc EXCEPT ![e] = "open"]
        PROVE  FilesInv'
    BY <2>3, <2>1
  <2> QED
    BY <1>2, <2>2, <2>3, LoadOutcome
<1>3. ASSUME NEW e \in Command, OpenOriginal(e) PROVE FilesInv'
  BY <1>3 DEF OpenOriginal, Goto
<1>4. ASSUME NEW e \in Command, CreateReplacement(e) PROVE FilesInv'
  BY <1>4 DEF CreateReplacement, Goto
<1>5. ASSUME NEW e \in Command, WriteAll(e) PROVE FilesInv'
  BY <1>5 DEF WriteAll, Goto
<1>6. ASSUME NEW e \in Command, Chmod(e) PROVE FilesInv'
  BY <1>6 DEF Chmod, Goto, ReplacementMode
<1>7. ASSUME NEW e \in Command, Sync(e) PROVE FilesInv'
  BY <1>7 DEF Sync, Goto
<1>8. ASSUME NEW e \in Command, Compare(e) PROVE FilesInv'
  BY <1>8 DEF Compare, Goto
<1>9. ASSUME NEW e \in Command, Rename(e) PROVE FilesInv'
  BY <1>9 DEF Rename, Goto
<1>10. ASSUME NEW e \in Command, SyncDirectory(e) PROVE FilesInv'
  BY <1>10 DEF SyncDirectory, Goto
<1>11. ASSUME NEW e \in Command, Acknowledge(e) PROVE FilesInv'
  BY <1>11 DEF Acknowledge, Goto
<1>12. ASSUME NEW e \in Command, GiveUp(e) PROVE FilesInv'
  BY <1>12 DEF GiveUp, Goto
<1>13. ASSUME NEW e \in Command, IOFails(e) PROVE FilesInv'
  BY <1>13 DEF IOFails, Goto
<1>14. ASSUME NEW e \in Command, Killed(e) PROVE FilesInv'
  BY <1>14 DEF Killed, Goto
<1>15. CASE UserSaves
  <2>1. "user" \notin Command
    BY CommandAssumption
  <2>2. PICK h \in Host :
          data' = [data EXCEPT !["user"] =
                     [hosts |-> {h}, wildcard |-> "no", key |-> "file",
                      decodes |-> "yes"]]
    BY <1>15 DEF UserSaves
  <2>3. \A e \in Command : data'[e] = data[e]
    BY <2>1, <2>2
  <2>4. \A f \in synced' : data'[f].decodes = "yes"
    BY <1>15, <2>2 DEF UserSaves
  <2> QED
    BY <1>15, <2>1, <2>3, <2>4 DEF UserSaves
<1>16. CASE FlushDirectory
  BY <1>16 DEF FlushDirectory
<1>17. CASE SystemCrash
  BY <1>17 DEF SystemCrash
<1>18. CASE UNCHANGED vars
  BY <1>18 DEF vars
<1> QED
  BY <1>1, <1>2, <1>3, <1>4, <1>5, <1>6, <1>7, <1>8, <1>9, <1>10, <1>11,
     <1>12, <1>13, <1>14, <1>15, <1>16, <1>17, <1>18
     DEF Next, Step, AllEnded

\* The relation between replacement files, path and disk holds at all times.
LEMMA FilesInvariant == Spec => []FilesInv
<1>1. Init => FilesInv
  BY CommandAssumption
     DEF Init, FilesInv, Early, Written, Configs, Inodes, Partial
<1> QED
  BY <1>1, FilesStep, TypeCorrect, PTL DEF Spec

\* For any number of overlapping commands and crashes, of them or the system, the config
\* path stands for a complete configuration, in memory and on the drive.
THEOREM ConfigAlwaysDecodes == Spec => []AlwaysDecodes
<1>1. FilesInv => AlwaysDecodes
  BY DEF FilesInv, AlwaysDecodes
<1> QED
  BY <1>1, FilesInvariant, PTL

-----------------------------------------------------------------------------

\* A replacement is created owner-only, and widened only after it was written
\* and only if it has no inline key.
LEMMA SecretsStep == TypeOK /\ FilesInv /\ SecretsInv /\ [Next]_vars => SecretsInv'
<1> SUFFICES ASSUME TypeOK, FilesInv, SecretsInv, [Next]_vars PROVE SecretsInv'
  OBVIOUS
<1> USE CommandAssumption
    DEF TypeOK, FilesInv, SecretsInv, SecretsStayPrivate, Early, Written, files, history,
        Inodes, Positions, Ended, Partial
<1>1. ASSUME NEW e \in Command, Start(e) PROVE SecretsInv'
  BY <1>1 DEF Start, Goto
<1>2. ASSUME NEW e \in Command, Load(e) PROVE SecretsInv'
  BY <1>2 DEF Load, Goto
<1>3. ASSUME NEW e \in Command, OpenOriginal(e) PROVE SecretsInv'
  BY <1>3 DEF OpenOriginal, Goto
<1>4. ASSUME NEW e \in Command, CreateReplacement(e) PROVE SecretsInv'
  BY <1>4 DEF CreateReplacement, Goto
<1>5. ASSUME NEW e \in Command, WriteAll(e) PROVE SecretsInv'
  BY <1>5 DEF WriteAll, Goto
<1>6. ASSUME NEW e \in Command, Chmod(e) PROVE SecretsInv'
  BY <1>6 DEF Chmod, Goto, ReplacementMode
<1>7. ASSUME NEW e \in Command, Sync(e) PROVE SecretsInv'
  BY <1>7 DEF Sync, Goto
<1>8. ASSUME NEW e \in Command, Compare(e) PROVE SecretsInv'
  BY <1>8 DEF Compare, Goto
<1>9. ASSUME NEW e \in Command, Rename(e) PROVE SecretsInv'
  BY <1>9 DEF Rename, Goto
<1>10. ASSUME NEW e \in Command, SyncDirectory(e) PROVE SecretsInv'
  BY <1>10 DEF SyncDirectory, Goto
<1>11. ASSUME NEW e \in Command, Acknowledge(e) PROVE SecretsInv'
  BY <1>11 DEF Acknowledge, Goto
<1>12. ASSUME NEW e \in Command, GiveUp(e) PROVE SecretsInv'
  BY <1>12 DEF GiveUp, Goto
<1>13. ASSUME NEW e \in Command, IOFails(e) PROVE SecretsInv'
  BY <1>13 DEF IOFails, Goto
<1>14. ASSUME NEW e \in Command, Killed(e) PROVE SecretsInv'
  BY <1>14 DEF Killed, Goto
<1>15. CASE UserSaves
  BY <1>15 DEF UserSaves
<1>16. CASE FlushDirectory
  BY <1>16 DEF FlushDirectory
<1>17. CASE SystemCrash
  BY <1>17 DEF SystemCrash
<1>18. CASE UNCHANGED vars
  BY <1>18 DEF vars
<1> QED
  BY <1>1, <1>2, <1>3, <1>4, <1>5, <1>6, <1>7, <1>8, <1>9, <1>10, <1>11,
     <1>12, <1>13, <1>14, <1>15, <1>16, <1>17, <1>18
     DEF Next, Step, AllEnded

\* No command ever leaves an inline private key in a file that others may read,
\* whichever file its mode was taken from.
THEOREM InlineKeysStayPrivate == Spec => []SecretsStayPrivate
<1>1. Init => SecretsInv
  BY CommandAssumption
     DEF Init, SecretsInv, SecretsStayPrivate, Inodes, Partial
<1>2. SecretsInv => SecretsStayPrivate
  BY DEF SecretsInv
<1> QED
  BY <1>1, <1>2, SecretsStep, FilesInvariant, TypeCorrect, PTL DEF Spec

-----------------------------------------------------------------------------

\* A file that is created, or saved, was not there before.
LEMMA NamesStep == TypeOK /\ FilesInv /\ NamesInv /\ [Next]_vars => NamesInv'
<1> SUFFICES ASSUME TypeOK, FilesInv, NamesInv, [Next]_vars PROVE NamesInv'
  OBVIOUS
<1> USE CommandAssumption
    DEF TypeOK, FilesInv, NamesInv, NewFile, BeforeRename, Between, files, history, Inodes,
        Ended, Partial
<1>1. ASSUME NEW e \in Command, Start(e) PROVE NamesInv'
  BY <1>1 DEF Start, Goto
<1>2. ASSUME NEW e \in Command, Load(e) PROVE NamesInv'
  BY <1>2 DEF Load, Goto
<1>3. ASSUME NEW e \in Command, OpenOriginal(e) PROVE NamesInv'
  BY <1>3 DEF OpenOriginal, Goto
<1>4. ASSUME NEW e \in Command, CreateReplacement(e) PROVE NamesInv'
  BY <1>4 DEF CreateReplacement, Goto
<1>5. ASSUME NEW e \in Command, WriteAll(e) PROVE NamesInv'
  BY <1>5 DEF WriteAll, Goto
<1>6. ASSUME NEW e \in Command, Chmod(e) PROVE NamesInv'
  BY <1>6 DEF Chmod, Goto, ReplacementMode
<1>7. ASSUME NEW e \in Command, Sync(e) PROVE NamesInv'
  BY <1>7 DEF Sync, Goto
<1>8. ASSUME NEW e \in Command, Compare(e) PROVE NamesInv'
  BY <1>8 DEF Compare, Goto
<1>9. ASSUME NEW e \in Command, Rename(e) PROVE NamesInv'
  BY <1>9 DEF Rename, Goto, Overtakes
<1>10. ASSUME NEW e \in Command, SyncDirectory(e) PROVE NamesInv'
  BY <1>10 DEF SyncDirectory, Goto
<1>11. ASSUME NEW e \in Command, Acknowledge(e) PROVE NamesInv'
  BY <1>11 DEF Acknowledge, Goto
<1>12. ASSUME NEW e \in Command, GiveUp(e) PROVE NamesInv'
  BY <1>12 DEF GiveUp, Goto
<1>13. ASSUME NEW e \in Command, IOFails(e) PROVE NamesInv'
  BY <1>13 DEF IOFails, Goto
<1>14. ASSUME NEW e \in Command, Killed(e) PROVE NamesInv'
  BY <1>14 DEF Killed, Goto
<1>15. CASE UserSaves
  BY <1>15 DEF UserSaves, Overtakes
<1>16. CASE FlushDirectory
  BY <1>16 DEF FlushDirectory
<1>17. CASE SystemCrash
  BY <1>17 DEF SystemCrash
<1>18. CASE UNCHANGED vars
  BY <1>18 DEF vars, history
<1> QED
  BY <1>1, <1>2, <1>3, <1>4, <1>5, <1>6, <1>7, <1>8, <1>9, <1>10, <1>11,
     <1>12, <1>13, <1>14, <1>15, <1>16, <1>17, <1>18
     DEF Next, Step, AllEnded

\* A command that was not overtaken renames only what keeps the word of the
\* others, and gives its own word only once its rename is on the drive.
LEMMA EditsStep ==
  TypeOK /\ FilesInv /\ NamesInv /\ EditsInv /\ [Next]_vars => EditsInv'
<1> SUFFICES ASSUME TypeOK, FilesInv, NamesInv, EditsInv, [Next]_vars PROVE EditsInv'
  OBVIOUS
<1> USE CommandAssumption
    DEF TypeOK, FilesInv, NamesInv, NewFile, EditsInv, UpToDate, Keeps, BeforeRename,
        Between, Early, Written, files, history, Inodes, Positions, Ended, Ops
<1>1. ASSUME NEW e \in Command, Start(e) PROVE EditsInv'
  BY <1>1 DEF Start, Goto
<1>2. ASSUME NEW e \in Command, Load(e) PROVE EditsInv'
  <2>1. UNCHANGED <<together, name, disk, temps, data, synced, mode, op,
                    original, history>> /\ pc[e] = "load"
    BY <1>2, LoadOutcome
  <2>2. CASE pc' = [pc EXCEPT ![e] = "failed"] /\ UNCHANGED config
    BY <2>2, <2>1
  <2>3. ASSUME NEW c, config' = [config EXCEPT ![e] = c], c.decodes = "yes",
               c.hosts = Edited(op[e], data[name].hosts),
               Applies(op[e], data[name].hosts),
               pc' = [pc EXCEPT ![e] = "open"]
        PROVE  EditsInv'
    <3>1. config'[e].hosts = Edited(op[e], data[name].hosts)
      BY <2>3
    <3>2. op[e].what = "add" <=> op[e].host \in config'[e].hosts
      BY <3>1 DEF Edited
    <3>3. \A d \in Command \ {e} : config'[d] = config[d] /\ pc'[d] = pc[d]
      BY <2>3
    <3> QED
      BY <2>1, <2>3, <3>1, <3>2, <3>3
  <2> QED
    BY <1>2, <2>2, <2>3, LoadOutcome
<1>3. ASSUME NEW e \in Command, OpenOriginal(e) PROVE EditsInv'
  BY <1>3 DEF OpenOriginal, Goto
<1>4. ASSUME NEW e \in Command, CreateReplacement(e) PROVE EditsInv'
  BY <1>4 DEF CreateReplacement, Goto
<1>5. ASSUME NEW e \in Command, WriteAll(e) PROVE EditsInv'
  BY <1>5 DEF WriteAll, Goto
<1>6. ASSUME NEW e \in Command, Chmod(e) PROVE EditsInv'
  BY <1>6 DEF Chmod, Goto, ReplacementMode
<1>7. ASSUME NEW e \in Command, Sync(e) PROVE EditsInv'
  BY <1>7 DEF Sync, Goto
<1>8. ASSUME NEW e \in Command, Compare(e) PROVE EditsInv'
  BY <1>8 DEF Compare, Goto
<1>9. ASSUME NEW e \in Command, Rename(e) PROVE EditsInv'
  <2>1. /\ pc[e] = "rename" /\ pc' = [pc EXCEPT ![e] = "syncdir"]
        /\ name' = e /\ data[e] = config[e]
        /\ UNCHANGED <<disk, data, op, config, original>>
    BY <1>9 DEF Rename, Goto
  <2>2. \A h \in Host : want'[h] = IF e \in overtaken \/ h = op[e].host THEN "any"
                                                                     ELSE want[h]
    BY <1>9 DEF Rename
  <2>3. \A h \in Host : Keeps(data[disk].hosts, h)'
    BY <2>1, <2>2
  <2>4. \A h \in Host : Keeps(data[name].hosts, h)'
    <3>1. CASE e \in overtaken
      BY <2>2, <3>1
    <3>2. CASE e \notin overtaken
      <4>1. data'[name'].hosts = Edited(op[e], data[name].hosts)
        BY <2>1, <3>2
      <4> QED
        BY <2>2, <4>1 DEF Edited
    <3> QED
      BY <3>1, <3>2
  <2>5. ASSUME NEW d \in Command \ overtaken'
        PROVE  /\ pc'[d] \in {"open", "rename"} => UpToDate(d)'
               /\ pc'[d] \in Between /\ original'[d] = name' => UpToDate(d)'
    BY <1>9, <2>1 DEF Rename, Overtakes
  <2>6. ASSUME NEW d \in Command
        PROVE  /\ pc'[d] \in {"open", "create", "write"} \cup Written =>
                    (op'[d].what = "add" <=> op'[d].host \in config'[d].hosts)
               /\ pc'[d] = "unlink" /\ name' = d => disk' = d
    BY <2>1
  <2> QED
    BY <2>3, <2>4, <2>5, <2>6
<1>10. ASSUME NEW e \in Command, SyncDirectory(e) PROVE EditsInv'
  BY <1>10 DEF SyncDirectory, Goto
<1>11. ASSUME NEW e \in Command, Acknowledge(e) PROVE EditsInv'
  BY <1>11 DEF Acknowledge, Goto
<1>12. ASSUME NEW e \in Command, GiveUp(e) PROVE EditsInv'
  BY <1>12 DEF GiveUp, Goto
<1>13. ASSUME NEW e \in Command, IOFails(e) PROVE EditsInv'
  BY <1>13 DEF IOFails, Goto
<1>14. ASSUME NEW e \in Command, Killed(e) PROVE EditsInv'
  BY <1>14 DEF Killed, Goto
<1>15. CASE UserSaves
  <2>1. /\ name' = "user" /\ disk' = "user" /\ \A h \in Host : want'[h] = "any"
        /\ UNCHANGED <<pc, op, config, original>>
    BY <1>15 DEF UserSaves
  <2>2. "user" \notin synced
    <3>1. data["user"].decodes # "yes"
      BY <1>15 DEF UserSaves, Partial
    <3> QED
      BY <3>1
  <2>3. \A d \in Command : original[d] # "user" /\ d # "user"
    BY <2>2
  <2>4. \A d \in Command \ overtaken' : pc[d] \notin {"open", "rename"}
    BY <1>15 DEF UserSaves, Overtakes
  <2> QED
    BY <2>1, <2>3, <2>4
<1>16. CASE FlushDirectory
  BY <1>16 DEF FlushDirectory
<1>17. CASE SystemCrash
  BY <1>17 DEF SystemCrash
<1>18. CASE UNCHANGED vars
  BY <1>18 DEF vars, history
<1> QED
  BY <1>1, <1>2, <1>3, <1>4, <1>5, <1>6, <1>7, <1>8, <1>9, <1>10, <1>11,
     <1>12, <1>13, <1>14, <1>15, <1>16, <1>17, <1>18
     DEF Next, Step, AllEnded

\* However many commands overlap, every acknowledged edit is what an agent started
\* later goes by, also after the system went down, until a command on the same
\* host, the user, or a command that was overtaken changes it.
THEOREM AcknowledgedEditsAreDurable == Spec => []EditsAreDurable
<1>1. Init => NamesInv /\ EditsInv
  BY CommandAssumption
     DEF Init, NamesInv, NewFile, EditsInv, Keeps, BeforeRename, Between, Written, Inodes
<1>2. EditsInv => EditsAreDurable
  BY DEF EditsInv, EditsAreDurable, Keeps, Accepts
<1> QED
  BY <1>1, <1>2, NamesStep, EditsStep, FilesInvariant, TypeCorrect, PTL DEF Spec

-----------------------------------------------------------------------------

\* A replacement's name is in the directory only while its command is between its
\* creation and the rename, on the way out of an error, or was killed.
TempsInv ==
  \A e \in temps :
     pc[e] \in {"write", "chmod", "sync", "compare", "rename", "giveUp", "dead"}

(* Every step keeps it so that a replacement file is there only while its editor is at it. *)
LEMMA TempsStep == TypeOK /\ TempsInv /\ [Next]_vars => TempsInv'
<1> SUFFICES ASSUME TypeOK, TempsInv, [Next]_vars PROVE TempsInv'
  OBVIOUS
<1> USE DEF TypeOK, TempsInv, files, history, Goto
<1>1. ASSUME NEW e \in Command,
             \/ Start(e) \/ Load(e) \/ OpenOriginal(e) \/ WriteAll(e) \/ Chmod(e) \/ Sync(e)
             \/ Compare(e) \/ SyncDirectory(e) \/ Acknowledge(e)
      PROVE  TempsInv'
  BY <1>1 DEF Start, Load, OpenOriginal, WriteAll, Chmod, Sync, Compare, SyncDirectory,
     Acknowledge
<1>2. ASSUME NEW e \in Command, CreateReplacement(e) PROVE TempsInv'
  BY <1>2 DEF CreateReplacement
<1>3. ASSUME NEW e \in Command, Rename(e) \/ GiveUp(e) PROVE TempsInv'
  BY <1>3 DEF Rename, GiveUp
<1>4. ASSUME NEW e \in Command, IOFails(e) PROVE TempsInv'
  BY <1>4 DEF IOFails
<1>5. ASSUME NEW e \in Command, Killed(e) PROVE TempsInv'
  BY <1>5 DEF Killed
<1>6. CASE SystemCrash
  BY <1>6 DEF SystemCrash, Ended
<1>7. CASE UserSaves \/ FlushDirectory \/ UNCHANGED vars
  BY <1>7 DEF UserSaves, FlushDirectory, vars
<1> QED
  BY <1>1, <1>2, <1>3, <1>4, <1>5, <1>6, <1>7 DEF Next, Step, AllEnded

\* However many commands overlap, and wherever a system call fails, a command of
\* "hosts" that comes to its end by itself has removed its replacement file, which
\* holds a copy of an inline key (the defer of replaceConfigFile).
THEOREM ReplacementsRemoved == Spec => []NoCopyLeft
<1>1. Init => TempsInv
  BY DEF Init, TempsInv
<1>2. TypeOK /\ TempsInv => NoCopyLeft
  BY DEF NoCopyLeft, TempsInv
<1> QED
  BY <1>1, <1>2, TempsStep, TypeCorrect, PTL DEF Spec

=============================================================================
