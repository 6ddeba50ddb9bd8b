------------------------------ MODULE Startup ------------------------------
(***************************************************************************)
(* How a helper comes to run: validate_helper_path of pam_macos_auth.c     *)
(* opens the program; run_request of main.rs opens configuration, keys and *)
(* replay cache through trust::open, checks the options and starts the     *)
(* operation.  Each walk goes from "/" one openat at a time, while other   *)
(* processes change the tree: scripts/linux-install-dev.sh, an             *)
(* administrator and an ordinary user.                                     *)
(*                                                                         *)
(* An inode has an owner, a kind and a mode that never change: root does   *)
(* not adopt or open up what exists.  A file being copied and the file     *)
(* when it is complete are two inodes: a file is read when it is opened.   *)
(***************************************************************************)
EXTENDS HelperConfig

CONSTANTS
  Inode, Slash,    \* inodes, and that of "/"
  Kind, Owner, Mode,
  Reads,           \* the objects that an inode's contents can serve as
  Name,            \* names of directory entries
  Fresh,           \* root's inode for each object, once it is complete
  Partial,         \* root's inode of a file that is still being copied
  NewDir,          \* inodes of directories that the installer may create
  Installed,       \* installed path of each object
  Sources,         \* configurations developers and administrators write
  CliPaths,        \* paths named on the command line of a direct request
  SocketArgs,      \* --socket-path of the installer
  UserTree,        \* what the user's directories hold at the start
  LastMs,          \* bound: last value of the wall clock
  Changes,         \* bound: the changes administrator and user may make
  MaxEdits,        \* bound: changes of the tree by administrator and user
  MaxInstalls      \* bound: runs of the installer

Objects == {"program", "config", "key", "pub", "replay"}
Absent == "absent"
Dir == {i \in Inode : Kind[i] = "dir"}

ASSUME StartupAssumption ==
  /\ Slash \in Dir /\ Absent \notin Inode /\ Partial \in Inode
  /\ Kind \in [Inode -> {"dir", "file", "link"}]
  /\ Owner \in [Inode -> {"root", "user"}]
  /\ Mode \in [Inode -> {"private", "shared", "loose"}]
  /\ Reads \in [Inode -> SUBSET Objects]
  /\ Fresh \in [Objects -> Inode] /\ NewDir \subseteq Dir
  /\ Installed \in [Objects -> Path]
  /\ \A p \in Path : /\ Parts[p] # <<>>
                     /\ \A i \in DOMAIN Parts[p] : Parts[p][i] \in Name \cup {".."}
  /\ \A o \in Objects : Clean(Installed[o]) /\ Len(Parts[Installed[o]]) = 2
  /\ Sources \subseteq HelperConfigs /\ SocketArgs \cup CliPaths \subseteq Path
  /\ UserTree \in [Dir -> [Name -> Inode \cup {Absent}]]
  /\ Changes \subseteq Dir \X Name \X (Inode \cup {Absent})
  /\ {LastMs, MaxEdits, MaxInstalls} \subseteq Nat

\* Where the installed files are.
Top(o) == Parts[Installed[o]][1]
Leaf(o) == Parts[Installed[o]][2]

Writable(d) == Owner[d] = "user" \/ Mode[d] = "loose"

\* "/" is root's, and so is what the script installs, which fits its use.  At the
\* start nothing has been installed.
ASSUME InstallAssumption ==
  /\ ~Writable(Slash) /\ Slash \notin NewDir
  /\ \A o \in Objects :
        /\ Kind[Fresh[o]] = IF o = "replay" THEN "dir" ELSE "file"
        /\ ~Writable(Fresh[o]) /\ o \in Reads[Fresh[o]]
        /\ o \in {"key", "replay"} => Mode[Fresh[o]] = "private"
  /\ \A o, q \in Objects : Leaf(o) = Leaf(q) => o = q
  /\ \A d \in Dir, n \in Name : UserTree[d][n] # Slash
  /\ \A d \in Dir \ {Slash}, o \in Objects : ~Writable(d) => UserTree[d][Leaf(o)] = Absent

VARIABLES
  entry,     \* the tree: what each name of each directory stands for
  by,        \* history: who made each entry
  edits,     \* changes by administrator and user so far
  wall,      \* the wall clock
  dev,       \* config.toml of the development directory
  conf,      \* contents of the installed configuration, an Option
  inst,      \* where the installer is
  item,      \* the file it is installing
  force,     \* "--force" or ""
  staged,    \* installed_config of the script
  installs,  \* runs of the installer so far
  call,      \* "none", "pam" (production) or "direct"
  pc,        \* what run_request is doing
  fd, rest,  \* the open inode and the components still to walk
  have,      \* the inode opened for each object
  config,    \* the loaded configuration
  tainted,   \* history: objects reached through an entry the user made
  marks,     \* directories in which the helper created a marker
  why        \* why it refused

tree   == <<entry, by>>
script == <<conf, inst, item, force, staged, installs>>
helper == <<call, pc, fd, rest, have, config, tainted, marks, why>>
vars   == <<tree, edits, wall, dev, script, helper>>

Init ==
  /\ entry = UserTree
  /\ by = [d \in Dir |-> [n \in Name |-> IF Writable(d) THEN "user" ELSE "root"]]
  /\ edits = 0 /\ wall = 0
  /\ dev \in Sources
  /\ conf = {} /\ inst = "off" /\ item = "program" /\ force = "" /\ staged = dev
  /\ installs = 0
  /\ call = "none" /\ pc = "idle" /\ fd = Absent /\ rest = <<>>
  /\ have = [o \in Objects |-> Absent]
  /\ config = dev /\ tainted = {} /\ marks = {} /\ why = ""

\* What is at the installed paths.
Home(o) == entry[Slash][Top(o)]
At(o) == IF Home(o) \in Dir THEN entry[Home(o)][Leaf(o)] ELSE Absent

Put(d, n, i, who) ==
  /\ entry' = [entry EXCEPT ![d][n] = i]
  /\ by' = [by EXCEPT ![d][n] = who]

-----------------------------------------------------------------------------
(* The walk: trust::open, and the same in validate_helper_path.            *)

RootOwned == call = "pam"
Private(o) == o \in {"key", "replay"}

\* Mutant of Validate: the modes of directories on the way are not looked at.
ValidateLeafOnly(i, directory, private) ==
  /\ Kind[i] = IF directory THEN "dir" ELSE "file"
  /\ directory \/ (RootOwned => Owner[i] = "root")
  /\ directory \/ Mode[i] # "loose"
  /\ private => Mode[i] = "private"

\* validate: type, owner and permissions; trusted_metadata.
Validate(i, directory, private) ==
  /\ Kind[i] = IF directory THEN "dir" ELSE "file"
  /\ RootOwned => Owner[i] = "root"
  /\ Mode[i] # "loose"
  /\ private => Mode[i] = "private"

Refused(reason) ==
  /\ pc' = "refused" /\ why' = reason
  /\ fd' = Absent /\ rest' = <<>>

\* What a step leaves alone that can only move the walk.
notWalk == <<tree, edits, wall, dev, script, call, have, config, marks>>

After(o) ==
  CASE o = "program" -> "config"
    [] o = "config" -> "key"
    [] o = "key" -> "pub"
    [] o = "pub" -> "options"
    [] o = "replay" -> "budget"

\* PAM runs the program of its helper= option; direct requests need not.  Bound:
\* those, of which no property speaks, run on a tree that is at rest.
Start ==
  /\ pc = "idle"
  /\ \/ call' = "pam" /\ pc' = "program"
     \/ call' = "direct" /\ pc' = "config" /\ inst = "off" /\ edits = 0
  /\ UNCHANGED <<tree, edits, wall, dev, script, fd, rest, have, config, tainted, marks, why>>

FromConfig(o) ==
  CASE o \in {"program", "config"} -> {Installed[o]}
    [] o = "key" -> config.host_key_file
    [] o = "pub" -> config.agent_pubkey_file
    [] o = "replay" -> config.replay_cache_dir

\* The path of o: a direct request can name it on the command line.
PathOf(o) == {FromConfig(o)} \cup
             (IF call = "direct" THEN {{p} : p \in CliPaths} ELSE {})

\* The checks before the first openat, and "/" itself.
Begin(o) ==
  /\ pc = o /\ fd = Absent
  /\ \E path \in PathOf(o) :
       \/ /\ path = {} /\ o = "replay"
          /\ pc' = "budget"
          /\ UNCHANGED <<fd, rest, tainted, why>>
       \/ /\ path = {} /\ o # "replay"
          /\ Refused(o)
          /\ UNCHANGED tainted
       \/ \E p \in path :
            \/ /\ RootOwned => p \notin Relative
               /\ ~HasParent(p) /\ Validate(Slash, TRUE, FALSE)
               /\ fd' = Slash /\ rest' = Parts[p]
               /\ UNCHANGED <<pc, tainted, why>>
            \/ /\ \/ RootOwned /\ p \in Relative
                  \/ HasParent(p) \/ ~Validate(Slash, TRUE, FALSE)
               /\ Refused(o)
               /\ UNCHANGED tainted
  /\ UNCHANGED notWalk

\* A key given inline: only in development, and only if no file is configured.
LoadInline(o) ==
  /\ pc = o /\ o \in {"key", "pub"} /\ fd = Absent /\ call = "direct"
  /\ \/ /\ FromConfig(o) = {}
        /\ pc' = After(o)
        /\ UNCHANGED <<fd, rest, why>>
     \/ /\ FromConfig(o) # {}
        /\ Refused(o)
  /\ UNCHANGED <<tainted, notWalk>>

\* load_helper_config without a path, which only a direct request may omit.
LoadDefault ==
  /\ pc = "config" /\ fd = Absent /\ call = "direct"
  /\ config' = [f \in DOMAIN config |-> {}]
  /\ pc' = After("config")
  /\ UNCHANGED <<tree, edits, wall, dev, script, call, fd, rest, have, tainted, marks, why>>

\* What the file of a configuration says.
Contents(i) == IF i = Fresh["config"] /\ conf # {} THEN conf ELSE Sources

\* read_key_material, signing_key_from_hex, toml::from_str: the contents will do.
Serves(i, o) == o \in Reads[i]

Passes(o, i, last) ==
  /\ i # Absent
  /\ Validate(i, ~last \/ o = "replay", last /\ Private(o))
  /\ last => Serves(i, o)

\* openat relative to the directory reached so far, O_NOFOLLOW, and validate.
\* The last component is also validated again and read (read_trusted_file,
\* load_helper_config, read_key_material) or, the program, executed.
OpenAt(o) ==
  /\ pc = o /\ fd \in Dir
  /\ LET next == entry[fd][Head(rest)]
         last == Len(rest) = 1
         taint == IF by[fd][Head(rest)] = "user" THEN tainted \cup {o} ELSE tainted
     IN \/ /\ Passes(o, next, last) /\ ~last
           /\ fd' = next /\ rest' = Tail(rest) /\ tainted' = taint
           /\ UNCHANGED <<pc, have, config, why>>
        \/ /\ Passes(o, next, last) /\ last
           /\ have' = [have EXCEPT ![o] = next]
           /\ config' \in IF o = "config" THEN Contents(next) ELSE {config}
           /\ pc' = After(o) /\ fd' = Absent /\ rest' = <<>> /\ tainted' = taint
           /\ why' = why
        \/ /\ ~Passes(o, next, last)
           /\ Refused(o)
           /\ UNCHANGED <<have, config, tainted>>
  /\ UNCHANGED <<tree, edits, wall, dev, script, call, marks>>

-----------------------------------------------------------------------------
(* The rest of run_request, up to the operation.                           *)

\* The options of a direct request come before the configuration.
Given(S) == {{}} \cup (IF call = "direct" THEN {{x} : x \in S} ELSE {})

CheckOptions ==
  /\ pc = "options"
  /\ \E socket \in Given(SocketArgs), name \in Given({"text"}) :
       config' = [config EXCEPT !.socket_path = Or(socket, @), !.key_id = Or(name, @),
                                !.host_id = Or(name, @), !.hostname = Or(name, @)]
  /\ \/ HasEndpoints(config') /\ pc' = "replay" /\ UNCHANGED <<fd, rest, why>>
     \/ ~HasEndpoints(config') /\ Refused("options")
  /\ UNCHANGED <<tree, edits, wall, dev, script, call, have, tainted, marks>>

\* Which text of the request is blank: one that PAM gives, or a configured one.
BlankOf(service, user) ==
  CASE user = "blank" -> "user"
    [] user # "blank" /\ "blank" \in service -> "service"
    [] OTHER -> "blank"

\* unix_time_ms and operation_budget, then the texts of the request.
CheckBudget ==
  /\ pc = "budget"
  /\ \E service \in {{}} \cup {{t} : t \in Texts}, user \in Texts, ms \in Given({MaxMs}) :
       LET budget == OperationBudget(
                       UnwrapOr(Or(ms, config.timeout_ms), DefaultTimeout), wall)
       IN \/ ~budget /\ Refused("budget")
          \/ budget /\ ~NoneBlank(config, service, user)
             /\ Refused(BlankOf(service, user))
          \/ budget /\ NoneBlank(config, service, user)
             /\ pc' = "ready" /\ UNCHANGED <<fd, rest, why>>
  /\ UNCHANGED <<tainted, notWalk>>

\* Mutant of Mark: a marker is made where no replay cache is configured.
MarkAlways ==
  /\ pc = "ready"
  /\ marks' = marks \cup {have["replay"]}
  /\ UNCHANGED <<tree, edits, wall, dev, script, call, pc, fd, rest, have, config, tainted, why>>

\* Mutant of Mark: the directory is looked up again by its path.
MarkByPath ==
  /\ pc = "ready" /\ have["replay"] # Absent /\ At("replay") \in Dir
  /\ marks' = marks \cup {At("replay")}
  /\ UNCHANGED <<tree, edits, wall, dev, script, call, pc, fd, rest, have, config, tainted, why>>

\* record_replay_marker works on the directory that was opened.
Mark ==
  /\ pc = "ready" /\ have["replay"] # Absent
  /\ marks' = marks \cup {have["replay"]}
  /\ UNCHANGED <<tree, edits, wall, dev, script, call, pc, fd, rest, have, config, tainted, why>>

-----------------------------------------------------------------------------
(* linux-install-dev.sh.                                                   *)

Args(socket) ==
  [socket |-> socket, host_key_file |-> Installed["key"],
   agent_pubkey_file |-> Installed["pub"], host_id |-> {}, hostname |-> {},
   replay_cache_dir |-> {Installed["replay"]}]

notScript == <<tree, edits, wall, dev, helper>>

InstallerStarts ==
  /\ inst = "off" /\ installs < MaxInstalls
  /\ inst' = "check" /\ installs' = installs + 1
  /\ force' \in {"", "--force"}
  /\ UNCHANGED <<notScript, conf, item, staged>>

IsLink(i) == i # Absent /\ Kind[i] = "link"

\* config-key-path prints a path: the fields are valid and both keys load.
ConfigKeyPath(keysLoad) == ValidateConfigFields(dev, wall) /\ keysLoad

\* config-key-path and prepare-config, then the refusals before any change.
Check ==
  /\ inst = "check"
  /\ \E socket \in SocketArgs, keysLoad \in BOOLEAN :
       LET ok == /\ ConfigKeyPath(keysLoad)
                 /\ PrepareAccepts(dev, Args(socket), wall)
                 /\ \A o \in Objects : ~IsLink(Home(o))
                 /\ ~IsLink(At("replay")) /\ ~IsLink(At("config"))
                 /\ At("config") # Absent => force = "--force"
       IN \/ /\ ok
             /\ staged' = Prepared(dev, Args(socket))
             /\ inst' = "file" /\ item' = "program"
          \/ ~ok /\ inst' = "off" /\ UNCHANGED <<item, staged>>
  /\ UNCHANGED <<notScript, conf, force, installs>>

\* Mutant of InstallOrder: the configuration is put in place before the keys.
InstallOrderConfigFirst(o) ==
  CASE o = "program" -> <<"stage", "config">>
    [] o = "key" -> <<"file", "pub">>
    [] o = "pub" -> <<"dir", "replay">>
    [] o = "replay" -> <<"stage", "config">>

\* What the script does after o: files, then the replay cache, then the
\* configuration.
InstallOrder(o) ==
  CASE o = "program" -> <<"file", "key">>
    [] o = "key" -> <<"file", "pub">>
    [] o = "pub" -> <<"dir", "replay">>
    [] o = "replay" -> <<"stage", "config">>

GoOn == inst' = InstallOrder(item)[1] /\ item' = InstallOrder(item)[2]

\* install -d of a parent directory.  For one that is there it changes nothing: one
\* that is not root's own would be adopted, which is left out (see above).
MakeDir ==
  /\ inst \in {"file", "dir", "stage"} /\ Home(item) = Absent
  /\ \E d \in NewDir :
       /\ d # fd /\ \A e \in Dir, n \in Name : entry[e][n] # d
       /\ entry' = [entry EXCEPT ![Slash][Top(item)] = d, ![d] = [n \in Name |-> Absent]]
       /\ by' = [by EXCEPT ![Slash][Top(item)] = "root", ![d] = [n \in Name |-> "root"]]
  /\ UNCHANGED <<edits, wall, dev, script, helper>>

OwnHome(o) == Home(o) \in Dir /\ Owner[Home(o)] = "root" /\ Mode[Home(o)] # "loose"

\* install_file, first half: refuse, or unlink and create the file.
InstallFile ==
  /\ inst = "file" /\ OwnHome(item)
  /\ \/ /\ ~IsLink(At(item)) /\ (At(item) # Absent => force = "--force")
        /\ Put(Home(item), Leaf(item), Partial, "root")
        /\ inst' = "copy"
     \/ /\ IsLink(At(item)) \/ (At(item) # Absent /\ force = "")
        /\ inst' = "off"
        /\ UNCHANGED tree
  /\ UNCHANGED <<edits, wall, dev, helper, conf, item, force, staged, installs>>

\* Second half: the copy is complete and has its owner and mode.
Copied ==
  /\ inst = "copy" /\ OwnHome(item)
  /\ Put(Home(item), Leaf(item), Fresh[item], "root")
  /\ GoOn
  /\ UNCHANGED <<edits, wall, dev, helper, conf, force, staged, installs>>

\* install -d of the replay cache.
InstallReplay ==
  /\ inst = "dir" /\ OwnHome("replay")
  /\ IF At("replay") = Absent
     THEN Put(Home("replay"), Leaf("replay"), Fresh["replay"], "root")
     ELSE UNCHANGED tree
  /\ GoOn
  /\ UNCHANGED <<edits, wall, dev, helper, conf, force, staged, installs>>

\* The configuration is staged beside its name and moved over it.
MoveConfig ==
  /\ inst = "stage" /\ OwnHome("config")
  /\ Put(Home("config"), Leaf("config"), Fresh["config"], "root")
  /\ conf' = {staged} /\ inst' = "off"
  /\ UNCHANGED <<edits, wall, dev, helper, item, force, staged, installs>>

\* A failing command (set -e) or a signal, between any two steps.
InstallerDies ==
  /\ inst # "off"
  /\ inst' = "off"
  /\ UNCHANGED <<notScript, conf, item, force, staged, installs>>

-----------------------------------------------------------------------------
(* Everybody else.                                                         *)

\* The administrator puts any inode anywhere, or removes a name.
RootPlaces(d, n, i) ==
  /\ edits < MaxEdits /\ edits' = edits + 1
  /\ Put(d, n, i, "root")
  /\ UNCHANGED <<wall, dev, script, helper>>

\* The user changes directories he may write: with files of his own, links, other
\* people's files (as hard links) and directories of his own.
UserPlaces(d, n, i) ==
  /\ edits < MaxEdits /\ edits' = edits + 1
  /\ Writable(d)
  /\ i # Absent => Kind[i] # "dir" \/ Owner[i] = "user"
  /\ Put(d, n, i, "user")
  /\ UNCHANGED <<wall, dev, script, helper>>

Tick ==
  /\ wall < LastMs /\ wall' = wall + 1
  /\ UNCHANGED <<tree, edits, dev, script, helper>>

Run ==
  \/ Start \/ LoadDefault \/ CheckOptions \/ CheckBudget \/ Mark
  \/ \E o \in Objects : Begin(o) \/ LoadInline(o) \/ OpenAt(o)
Installer ==
  \/ InstallerStarts \/ Check \/ MakeDir \/ InstallFile \/ Copied
  \/ InstallReplay \/ MoveConfig \/ InstallerDies
Others ==
  \E c \in Changes : RootPlaces(c[1], c[2], c[3]) \/ UserPlaces(c[1], c[2], c[3])
Ended == pc \in {"ready", "refused"} /\ UNCHANGED vars

\* Bound: what happens after the helper is over, or beside a direct request, is
\* left out.
Over == pc = "refused" \/ marks # {} \/ call = "direct"

Next == Run \/ (~Over /\ (Installer \/ Others \/ Tick)) \/ Ended

Spec == Init /\ [][Next]_vars

-----------------------------------------------------------------------------
(* Properties.                                                             *)

TypeOK ==
  /\ entry \in [Dir -> [Name -> Inode \cup {Absent}]]
  /\ by \in [Dir -> [Name -> {"root", "user"}]]
  /\ edits \in 0..MaxEdits /\ wall \in 0..LastMs
  /\ dev \in Sources /\ conf \in SUBSET HelperConfigs
  /\ inst \in {"off", "check", "file", "copy", "dir", "stage"} /\ item \in Objects
  /\ force \in {"", "--force"} /\ staged \in HelperConfigs
  /\ installs \in 0..MaxInstalls
  /\ call \in {"none", "pam", "direct"}
  /\ pc \in {"idle", "options", "budget", "ready", "refused"} \cup Objects
  /\ fd \in Inode \cup {Absent}
  /\ have \in [Objects -> Inode \cup {Absent}]
  /\ config \in HelperConfigs
  /\ tainted \subseteq Objects /\ marks \subseteq Inode
  /\ why \in {"", "options", "budget", "blank", "user", "service"} \cup Objects

\* A production helper is a program that root installed, and runs with a
\* configuration, keys and a replay cache whose every name, from "/" on, root
\* made: however directories are swapped while the walk goes on, no entry that
\* an ordinary user made is followed (trust::open, validate_helper_path).  Its
\* markers are in a directory that nobody else can touch.
OnlyRootsFiles ==
  call = "pam" => /\ tainted = {}
                  /\ \A d \in marks : Owner[d] = "root" /\ Mode[d] = "private"

\* Where only the installer has changed the tree, an installed configuration is
\* never there before what it names, also when an installation dies half way.  A
\* production helper refuses to start only for the file that a forced installation
\* is copying, or was copying when it died; because its timeout no longer fits the
\* clock; or because PAM gives a blank user name or service.
InstalledStarts ==
  [][pc # "refused" /\ pc' = "refused" /\ call = "pam" /\ edits = 0 /\ conf # {} =>
       \/ why' \in Objects /\ At(why') = Partial
       \/ why' \in {"budget", "user", "service"}]_vars

\* Installing keeps the developer's settings: names and timeout are his, and the
\* replay cache is in use if and only if he had one (prepare_config relocates it
\* and "does not enable it otherwise", main.rs).
InstallKeepsSettings ==
  call = "pam" /\ edits = 0 /\ pc = "ready" =>
    /\ \A f \in {"key_id", "host_id", "hostname", "service", "timeout_ms"} :
          config[f] = dev[f]
    /\ (have["replay"] # Absent) <=> (dev.replay_cache_dir # {})

=============================================================================
