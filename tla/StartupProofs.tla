--------------------------- MODULE StartupProofs ---------------------------
(***************************************************************************)
(* Proofs about Startup for every tree, every set of paths and             *)
(* configurations and any number of installations and changes by others.   *)
(***************************************************************************)
EXTENDS Startup, SequenceTheorems, TLAPS

\* The walk: between two openat calls there is an open directory and at least one
\* component left.
WalkTyped ==
  /\ rest \in Seq(Name)
  /\ fd # Absent => fd \in Dir /\ rest # <<>>
  /\ pc \notin Objects => fd = Absent

-----------------------------------------------------------------------------
(* Operators.                                                              *)

(* A path without .. has at least one part, each of them a name. *)
LEMMA PathTyped ==
  ASSUME NEW p \in Path, ~HasParent(p)
  PROVE  Parts[p] \in Seq(Name) /\ Parts[p] # <<>>
<1>1. Parts[p] \in Seq(STRING)
  BY ConfigAssumption
<1>2. \A i \in 1..Len(Parts[p]) : Parts[p][i] \in Name
  <2>1. \A i \in DOMAIN Parts[p] : Parts[p][i] \in Name \cup {".."}
    BY StartupAssumption
  <2> QED
    BY <1>1, <2>1 DEF HasParent
<1>3. Parts[p] # <<>>
  BY StartupAssumption
<1>4. Parts[p] \in Seq(Name)
  BY <1>1, <1>2
<1> QED
  BY <1>3, <1>4

(* The installed paths have a top directory and a leaf. *)
LEMMA InstalledTyped ==
  ASSUME NEW o \in Objects
  PROVE  Installed[o] \in Path /\ Top(o) \in Name /\ Leaf(o) \in Name
<1>1. Installed[o] \in Path /\ Len(Parts[Installed[o]]) = 2
  BY StartupAssumption
<1>2. Parts[Installed[o]] \in Seq(Name)
  BY <1>1, PathTyped, StartupAssumption DEF Clean
<1> QED
  BY <1>1, <1>2 DEF Top, Leaf

(* A path that goes on after its first part has a rest. *)
LEMMA TailTyped ==
  ASSUME NEW S, NEW s \in Seq(S), s # <<>>, Len(s) # 1
  PROVE  Tail(s) \in Seq(S) /\ Tail(s) # <<>>
<1>1. Tail(s) \in Seq(S) /\ Len(Tail(s)) = Len(s) - 1 /\ Len(s) \in Nat /\ Len(s) # 0
  OBVIOUS
<1>2. Len(Tail(s)) # 0
  BY <1>1
<1> QED
  BY <1>1, <1>2

(* Paths of one part are told apart by it. *)
LEMMA OneEach ==
  ASSUME NEW S, NEW s \in Seq(S), NEW t \in Seq(S), Len(s) = 1, Len(t) = 1, s[1] = t[1]
  PROVE  s = t
<1>1. \A i \in 1..Len(s) : s[i] = t[i]
  OBVIOUS
<1> QED
  BY <1>1, SeqEqual

(* A path of two parts is its head and its leaf. *)
LEMMA TwoParts ==
  ASSUME NEW S, NEW s \in Seq(S), Len(s) = 2
  PROVE  Head(s) = s[1] /\ Tail(s) = <<s[2]>>
<1>1. s # <<>> /\ s[2] \in S
  OBVIOUS
<1>2. /\ Tail(s) \in Seq(S) /\ Len(Tail(s)) = Len(s) - 1
      /\ \A i \in 1..Len(Tail(s)) : Tail(s)[i] = s[i + 1]
  BY <1>1, HeadTailProperties
<1>3. Len(Tail(s)) = 1 /\ Tail(s)[1] = s[2]
  BY <1>2
<1>4. <<s[2]>> \in Seq(S) /\ Len(<<s[2]>>) = 1 /\ <<s[2]>>[1] = s[2]
  BY <1>1
<1>5. Tail(s) = <<s[2]>>
  BY <1>2, <1>3, <1>4, OneEach, Zenon
<1>6. Head(s) = s[1]
  BY <1>1
<1> QED
  BY <1>5, <1>6, Zenon

(* Option::or gives an Option, and None is its unit. *)
LEMMA OptionTyped ==
  ASSUME NEW S
  PROVE  /\ {} \in Option(S)
         /\ \A x \in S : {x} \in Option(S)
         /\ \A a \in Option(S) : Or(a, {}) = a /\ Or({}, a) = a
         /\ \A a, b \in Option(S) : Or(a, b) \in Option(S)
BY DEF Option, Or

(* prepare-config replaces the paths and copies the other settings. *)
LEMMA PreparedFields ==
  ASSUME NEW source \in HelperConfigs, NEW socket \in Path
  PROVE  /\ Prepared(source, Args(socket)) \in HelperConfigs
         /\ \A f \in {"key_id", "host_id", "hostname", "service", "timeout_ms"} :
               Prepared(source, Args(socket))[f] = source[f]
         /\ Prepared(source, Args(socket)).socket_path = {socket}
         /\ Prepared(source, Args(socket)).host_key_file = {Installed["key"]}
         /\ Prepared(source, Args(socket)).agent_pubkey_file = {Installed["pub"]}
         /\ Prepared(source, Args(socket)).replay_cache_dir =
              IF source.replay_cache_dir = {} THEN {} ELSE {Installed["replay"]}
<1> DEFINE p == Prepared(source, Args(socket))
<1>1. \A o \in Objects : {Installed[o]} \in Option(Path)
  BY InstalledTyped, OptionTyped
<1>2. {} \in Option(Path) /\ {socket} \in Option(Path)
  BY OptionTyped
<1>3. p = [source EXCEPT
             !.socket_path = {socket}, !.host_key_file = {Installed["key"]},
             !.agent_pubkey_file = {Installed["pub"]},
             !.host_id = Or({}, @), !.hostname = Or({}, @),
             !.replay_cache_dir = IF @ = {} THEN {} ELSE {Installed["replay"]}]
  BY DEF Prepared, Args
<1>4. Or({}, source.host_id) = source.host_id /\ Or({}, source.hostname) = source.hostname
  BY DEF Or
<1> HIDE DEF p
<1>5. p = [source EXCEPT
             !.socket_path = {socket}, !.host_key_file = {Installed["key"]},
             !.agent_pubkey_file = {Installed["pub"]},
             !.replay_cache_dir = IF @ = {} THEN {} ELSE {Installed["replay"]}]
  BY <1>3, <1>4 DEF HelperConfigs
<1>6. p \in HelperConfigs
  BY <1>1, <1>2, <1>5 DEF HelperConfigs, Objects
<1>7. /\ p.socket_path = {socket} /\ p.host_key_file = {Installed["key"]}
      /\ p.agent_pubkey_file = {Installed["pub"]}
      /\ p.replay_cache_dir =
              IF source.replay_cache_dir = {} THEN {} ELSE {Installed["replay"]}
  BY <1>5 DEF HelperConfigs
<1>8. \A f \in {"key_id", "host_id", "hostname", "service", "timeout_ms"} : p[f] = source[f]
  BY <1>5 DEF HelperConfigs
<1> QED
  BY <1>6, <1>7, <1>8 DEF p

(* After an object is loaded comes another one or the end of loading. *)
LEMMA AfterTyped ==
  ASSUME NEW o \in Objects
  PROVE  After(o) \in {"config", "key", "pub", "options", "budget"}
<1>1. CASE o = "program" BY <1>1 DEF After
<1>2. CASE o = "config" BY <1>2 DEF After
<1>3. CASE o = "key" BY <1>3 DEF After
<1>4. CASE o = "pub" BY <1>4 DEF After
<1>5. CASE o = "replay" BY <1>5 DEF After
<1> QED
  BY <1>1, <1>2, <1>3, <1>4, <1>5 DEF Objects

(* The configuration names at most one path for an object. *)
LEMMA FromConfigTyped ==
  ASSUME config \in HelperConfigs, NEW o \in Objects
  PROVE  FromConfig(o) \in Option(Path)
<1>1. CASE o \in {"program", "config"}
  <2>1. FromConfig(o) = {Installed[o]} BY <1>1 DEF FromConfig
  <2> QED BY <2>1, InstalledTyped, OptionTyped
<1>2. CASE o = "key"
  <2>1. FromConfig(o) = config.host_key_file BY <1>2 DEF FromConfig
  <2> QED BY <2>1 DEF HelperConfigs
<1>3. CASE o = "pub"
  <2>1. FromConfig(o) = config.agent_pubkey_file BY <1>3 DEF FromConfig
  <2> QED BY <2>1 DEF HelperConfigs
<1>4. CASE o = "replay"
  <2>1. FromConfig(o) = config.replay_cache_dir BY <1>4 DEF FromConfig
  <2> QED BY <2>1 DEF HelperConfigs
<1> QED
  BY <1>1, <1>2, <1>3, <1>4 DEF Objects

(* The path that run_request uses for an object is a path. *)
LEMMA PathOfTyped ==
  ASSUME config \in HelperConfigs, NEW o \in Objects, NEW path \in PathOf(o), NEW p \in path
  PROVE  p \in Path
<1>1. PathOf(o) \subseteq Option(Path)
  BY FromConfigTyped, OptionTyped, StartupAssumption DEF PathOf
<1> QED
  BY <1>1 DEF Option

(* The order in which linux-install-dev.sh installs, step by step. *)
LEMMA InstallOrderTyped ==
  /\ InstallOrder("program")[1] = "file" /\ InstallOrder("program")[2] = "key"
  /\ InstallOrder("key")[1] = "file" /\ InstallOrder("key")[2] = "pub"
  /\ InstallOrder("pub")[1] = "dir" /\ InstallOrder("pub")[2] = "replay"
  /\ InstallOrder("replay")[1] = "stage" /\ InstallOrder("replay")[2] = "config"
<1>1. /\ InstallOrder("program") = <<"file", "key">>
      /\ InstallOrder("key") = <<"file", "pub">>
      /\ InstallOrder("pub") = <<"dir", "replay">>
      /\ InstallOrder("replay") = <<"stage", "config">>
  BY DEF InstallOrder
<1> QED
  BY <1>1

(* An argument that may be left out is an Option. *)
LEMMA GivenTyped ==
  ASSUME NEW T, NEW S \in SUBSET T
  PROVE  Given(S) \subseteq Option(T)
BY DEF Given, Option

(* HelperConfig::default has every field unset. *)
LEMMA DefaultTyped ==
  ASSUME config \in HelperConfigs
  PROVE  [f \in DOMAIN config |-> {}] \in HelperConfigs
<1> DEFINE c == [f \in DOMAIN config |-> {}]
<1>0. DOMAIN config = {"socket_path", "host_key_file", "agent_pubkey_file", "key_id",
          "host_id", "hostname", "service", "timeout_ms", "replay_cache_dir"}
  BY DEF HelperConfigs
<1>1. c = [socket_path |-> {}, host_key_file |-> {}, agent_pubkey_file |-> {},
           key_id |-> {}, host_id |-> {}, hostname |-> {}, service |-> {},
           timeout_ms |-> {}, replay_cache_dir |-> {}]
  BY <1>0
<1>2. {} \in Option(Path) /\ {} \in Option(Texts) /\ {} \in Option(0..MaxMs)
  BY OptionTyped
<1> QED
  BY <1>1, <1>2 DEF HelperConfigs

-----------------------------------------------------------------------------
(* The inductive invariant of the safety properties.                       *)

\* What the installer has in hand at each of its positions.
ScriptTyped ==
  /\ inst \in {"file", "copy"} => item \in {"program", "key", "pub"}
  /\ inst = "dir" => item = "replay"
  /\ inst = "stage" => item = "config"

\* An entry that the user made is in a directory that he may write: a swap cannot
\* bring one into a directory of root's own.
RootEntries == \A d \in Dir, n \in Name : by[d][n] = "user" => Writable(d)

\* A production walk holds a directory that only root writes, and what it opened
\* as the replay cache is root's and private.
TrustedWalk ==
  /\ pc = "idle" <=> call = "none"
  /\ call = "none" => have["replay"] = Absent /\ fd = Absent /\ tainted = {} /\ marks = {}
  /\ call = "pam" /\ fd # Absent => ~Writable(fd)
  /\ call = "pam" /\ have["replay"] # Absent =>
        Owner[have["replay"]] = "root" /\ Mode[have["replay"]] = "private"

StartupInv ==
  /\ TypeOK /\ WalkTyped /\ ScriptTyped
  /\ RootEntries /\ TrustedWalk /\ OnlyRootsFiles

(* The invariant holds before anything runs. *)
LEMMA InitStartupInv == Init => StartupInv
<1> SUFFICES ASSUME Init PROVE StartupInv
  OBVIOUS
<1>1. /\ LastMs \in Nat /\ MaxEdits \in Nat /\ MaxInstalls \in Nat
      /\ Sources \subseteq HelperConfigs
      /\ UserTree \in [Dir -> [Name -> Inode \cup {Absent}]]
  BY StartupAssumption
<1>0. edits = 0 /\ wall = 0 /\ installs = 0 /\ rest = <<>> /\ fd = Absent
  BY DEF Init
<1>2. /\ dev \in Sources /\ staged = dev /\ config = dev /\ conf = {}
      /\ inst = "off" /\ item = "program" /\ force = ""
      /\ call = "none" /\ pc = "idle" /\ tainted = {} /\ marks = {} /\ why = ""
  BY DEF Init
<1>3. /\ entry = UserTree
      /\ by = [d \in Dir |-> [n \in Name |-> IF Writable(d) THEN "user" ELSE "root"]]
      /\ have = [o \in Objects |-> Absent]
  BY DEF Init
<1>4. /\ entry \in [Dir -> [Name -> Inode \cup {Absent}]]
      /\ by \in [Dir -> [Name -> {"root", "user"}]]
      /\ have \in [Objects -> Inode \cup {Absent}]
  BY <1>1, <1>3
<1>5. /\ edits \in 0..MaxEdits /\ wall \in 0..LastMs /\ installs \in 0..MaxInstalls
      /\ conf \in SUBSET HelperConfigs /\ config \in HelperConfigs
      /\ staged \in HelperConfigs
  <2>1. edits \in 0..MaxEdits /\ wall \in 0..LastMs /\ installs \in 0..MaxInstalls
    BY <1>0, <1>1
  <2>2. conf \in SUBSET HelperConfigs
    BY DEF Init
  <2>3. config \in HelperConfigs /\ staged \in HelperConfigs
    BY <1>1, <1>2
  <2> QED
    BY <2>1, <2>2, <2>3
<1>6. TypeOK
  BY <1>0, <1>2, <1>4, <1>5 DEF TypeOK, Objects
<1>7. WalkTyped /\ ScriptTyped
  <2>1. WalkTyped
    BY <1>0 DEF WalkTyped
  <2>2. inst = "off"
    BY DEF Init
  <2>3. ScriptTyped
    BY <2>2 DEF ScriptTyped
  <2> QED
    BY <2>1, <2>3
<1>8. RootEntries
  BY <1>3 DEF RootEntries
<1>9. TrustedWalk /\ OnlyRootsFiles
  BY <1>0, <1>2, <1>3 DEF TrustedWalk, OnlyRootsFiles, Objects
<1> QED
  BY <1>6, <1>7, <1>8, <1>9 DEF StartupInv

\* Whoever puts an inode into a directory.
LEMMA PutTyped ==
  ASSUME TypeOK, RootEntries, NEW d \in Dir, NEW n \in Name,
         NEW i \in Inode \cup {Absent}, NEW who \in {"root", "user"},
         Put(d, n, i, who), who = "user" => Writable(d)
  PROVE  /\ entry' \in [Dir -> [Name -> Inode \cup {Absent}]]
         /\ by' \in [Dir -> [Name -> {"root", "user"}]]
         /\ RootEntries'
<1>1. /\ entry' \in [Dir -> [Name -> Inode \cup {Absent}]]
      /\ by' \in [Dir -> [Name -> {"root", "user"}]]
  BY DEF TypeOK, Put
<1>2. RootEntries'
  BY DEF TypeOK, Put, RootEntries, Writable
<1> QED
  BY <1>1, <1>2

\* The installer, administrator, user and clock: they change the tree, never
\* the helper.
LEMMA OthersStep ==
  ASSUME StartupInv, Installer \/ Others \/ Tick
  PROVE  StartupInv'
<1> USE DEF StartupInv
<1>1. helper' = helper
  BY DEF Installer, Others, Tick, InstallerStarts, Check, MakeDir, InstallFile, Copied,
     InstallReplay, MoveConfig, InstallerDies, RootPlaces, UserPlaces, notScript
<1>2. WalkTyped' /\ TrustedWalk' /\ OnlyRootsFiles'
  BY <1>1 DEF WalkTyped, TrustedWalk, OnlyRootsFiles, helper
<1>3. /\ entry' \in [Dir -> [Name -> Inode \cup {Absent}]]
      /\ by' \in [Dir -> [Name -> {"root", "user"}]]
      /\ RootEntries'
  <2>1. CASE UNCHANGED tree
    BY <2>1 DEF tree, RootEntries, TypeOK
  <2>2. \A o \in Objects : OwnHome(o) => Home(o) \in Dir /\ Leaf(o) \in Name
    BY InstalledTyped DEF OwnHome
  <2>3. CASE InstallFile
    BY <2>1, <2>2, <2>3, PutTyped, StartupAssumption DEF InstallFile, TypeOK
  <2>4. CASE Copied
    BY <2>2, <2>4, PutTyped, StartupAssumption DEF Copied, TypeOK
  <2>5. CASE InstallReplay
    BY <2>1, <2>2, <2>5, PutTyped, StartupAssumption DEF InstallReplay, Objects
  <2>6. CASE MoveConfig
    BY <2>2, <2>6, PutTyped, StartupAssumption DEF MoveConfig, Objects
  <2>7. CASE MakeDir
    <3>1. PICK d \in NewDir :
            /\ entry' = [entry EXCEPT ![Slash][Top(item)] = d, ![d] = [n \in Name |-> Absent]]
            /\ by' = [by EXCEPT ![Slash][Top(item)] = "root", ![d] = [n \in Name |-> "root"]]
      BY <2>7 DEF MakeDir
    <3>2. d \in Dir /\ d \in Inode /\ Slash \in Dir /\ Top(item) \in Name
      BY InstalledTyped, StartupAssumption DEF TypeOK, Dir
    <3>3. /\ entry' \in [Dir -> [Name -> Inode \cup {Absent}]]
          /\ by' \in [Dir -> [Name -> {"root", "user"}]]
      BY <3>1, <3>2 DEF TypeOK
    <3>4. RootEntries'
      BY <3>1, <3>2 DEF TypeOK, RootEntries, Writable
    <3> QED
      BY <3>3, <3>4
  <2>8. CASE Others
    <3>1. PICK c \in Changes : RootPlaces(c[1], c[2], c[3]) \/ UserPlaces(c[1], c[2], c[3])
      BY <2>8 DEF Others
    <3>2. c[1] \in Dir /\ c[2] \in Name /\ c[3] \in Inode \cup {Absent}
      BY StartupAssumption
    <3>3. CASE RootPlaces(c[1], c[2], c[3])
      BY <3>2, <3>3, PutTyped DEF RootPlaces
    <3>4. CASE UserPlaces(c[1], c[2], c[3])
      BY <3>2, <3>4, PutTyped DEF UserPlaces
    <3> QED
      BY <3>1, <3>3, <3>4
  <2>9. CASE InstallerStarts \/ Check \/ InstallerDies \/ Tick
    BY <2>1, <2>9 DEF InstallerStarts, Check, InstallerDies, Tick, notScript
  <2> QED
    BY <2>3, <2>4, <2>5, <2>6, <2>7, <2>8, <2>9 DEF Installer
<1>4. edits' \in 0..MaxEdits /\ wall' \in 0..LastMs /\ installs' \in 0..MaxInstalls
  <2>1. /\ LastMs \in Nat /\ MaxEdits \in Nat /\ MaxInstalls \in Nat
        /\ edits \in 0..MaxEdits /\ wall \in 0..LastMs /\ installs \in 0..MaxInstalls
    BY StartupAssumption DEF TypeOK
  <2>2. \/ UNCHANGED <<edits, wall, installs>>
        \/ edits < MaxEdits /\ edits' = edits + 1 /\ UNCHANGED <<wall, installs>>
        \/ wall < LastMs /\ wall' = wall + 1 /\ UNCHANGED <<edits, installs>>
        \/ installs < MaxInstalls /\ installs' = installs + 1 /\ UNCHANGED <<edits, wall>>
    BY DEF Installer, Others, Tick, InstallerStarts, Check, MakeDir, InstallFile, Copied,
       InstallReplay, MoveConfig, InstallerDies, RootPlaces, UserPlaces, notScript, script
  <2> QED
    BY <2>1, <2>2
<1>5. /\ dev' \in Sources /\ conf' \in SUBSET HelperConfigs /\ staged' \in HelperConfigs
  <2>1. /\ dev \in Sources /\ conf \in SUBSET HelperConfigs /\ staged \in HelperConfigs
    BY DEF TypeOK
  <2>2. dev' = dev
    BY DEF Installer, Others, Tick, InstallerStarts, Check, MakeDir, InstallFile, Copied,
       InstallReplay, MoveConfig, InstallerDies, RootPlaces, UserPlaces, notScript
  <2>3. conf' = conf \/ conf' = {staged}
    BY DEF Installer, Others, Tick, InstallerStarts, Check, MakeDir, InstallFile, Copied,
       InstallReplay, MoveConfig, InstallerDies, RootPlaces, UserPlaces, script
  <2>4. staged' = staged \/ \E s \in SocketArgs : staged' = Prepared(dev, Args(s))
    BY DEF Installer, Others, Tick, InstallerStarts, Check, MakeDir, InstallFile, Copied,
       InstallReplay, MoveConfig, InstallerDies, RootPlaces, UserPlaces, script
  <2>6. \A s \in SocketArgs : Prepared(dev, Args(s)) \in HelperConfigs
    BY <2>1, PreparedFields, StartupAssumption
  <2> QED
    BY <2>1, <2>2, <2>3, <2>4, <2>6
<1>6. /\ inst' \in {"off", "check", "file", "copy", "dir", "stage"} /\ item' \in Objects
      /\ force' \in {"", "--force"}
      /\ ScriptTyped'
  <2>1. /\ inst \in {"off", "check", "file", "copy", "dir", "stage"} /\ item \in Objects
        /\ force \in {"", "--force"} /\ ScriptTyped
    BY DEF TypeOK
  <2> HIDE DEF StartupInv
  <2> USE <2>1 DEF ScriptTyped
  <2>2. CASE InstallerStarts
    BY <2>2 DEF InstallerStarts
  <2>3. CASE Check
    BY <2>3 DEF Check, Objects
  <2>4. CASE MakeDir \/ Others \/ Tick
    BY <2>4 DEF MakeDir, Others, Tick, RootPlaces, UserPlaces, script
  <2>5. CASE InstallFile \/ InstallerDies \/ MoveConfig
    BY <2>5 DEF InstallFile, InstallerDies, MoveConfig
  <2>6. CASE Copied \/ InstallReplay
    <3>1. /\ inst = "copy" \/ inst = "dir"
          /\ inst' = InstallOrder(item)[1] /\ item' = InstallOrder(item)[2] /\ force' = force
      BY <2>6 DEF Copied, InstallReplay, GoOn
    <3>2. item \in {"program", "key", "pub", "replay"}
      BY <3>1
    <3>3. \/ inst' = "file" /\ item' \in {"key", "pub"}
          \/ inst' = "dir" /\ item' = "replay"
          \/ inst' = "stage" /\ item' = "config"
      <4>1. CASE item = "program" BY <3>1, <4>1, InstallOrderTyped
      <4>2. CASE item = "key" BY <3>1, <4>2, InstallOrderTyped
      <4>3. CASE item = "pub" BY <3>1, <4>3, InstallOrderTyped
      <4>4. CASE item = "replay" BY <3>1, <4>4, InstallOrderTyped
      <4> QED BY <3>2, <4>1, <4>2, <4>3, <4>4
    <3> QED
      BY <3>1, <3>3 DEF Objects
  <2> QED
    BY <2>2, <2>3, <2>4, <2>5, <2>6 DEF Installer
<1>7. TypeOK'
  BY <1>1, <1>3, <1>4, <1>5, <1>6 DEF TypeOK, helper
<1> QED
  BY <1>2, <1>3, <1>6, <1>7

\* The helper: it changes nothing but itself.
LEMMA RunStep ==
  ASSUME StartupInv, Run
  PROVE  StartupInv'
<1> USE DEF StartupInv
<1>1. UNCHANGED <<tree, edits, wall, dev, script>>
  BY DEF Run, Start, LoadDefault, CheckOptions, CheckBudget, Mark, Begin, LoadInline,
     OpenAt, notWalk
<1>2. ScriptTyped' /\ RootEntries'
  BY <1>1 DEF ScriptTyped, RootEntries, tree, script
<1>3. /\ call \in {"none", "pam", "direct"}
      /\ pc \in {"idle", "options", "budget", "ready", "refused"} \cup Objects
      /\ fd \in Inode \cup {Absent}
      /\ have \in [Objects -> Inode \cup {Absent}]
      /\ config \in HelperConfigs
      /\ tainted \subseteq Objects /\ marks \subseteq Inode
      /\ why \in {"", "options", "budget", "blank", "user", "service"} \cup Objects
  BY DEF TypeOK
<1>4. (\A d \in Dir : d \in Inode) /\ Slash \in Dir /\ Absent \notin Inode
  BY StartupAssumption DEF Dir
<1> DEFINE HelperTyped ==
      /\ call' \in {"none", "pam", "direct"}
      /\ pc' \in {"idle", "options", "budget", "ready", "refused"} \cup Objects
      /\ fd' \in Inode \cup {Absent}
      /\ have' \in [Objects -> Inode \cup {Absent}]
      /\ config' \in HelperConfigs
      /\ tainted' \subseteq Objects /\ marks' \subseteq Inode
      /\ why' \in {"", "options", "budget", "blank", "user", "service"} \cup Objects
      /\ WalkTyped' /\ TrustedWalk' /\ OnlyRootsFiles'
<1>5. WalkTyped /\ TrustedWalk /\ OnlyRootsFiles /\ RootEntries
  OBVIOUS
<1>6. HelperTyped
  <2> HIDE DEF StartupInv
  <2> DEFINE Reasons == {"", "options", "budget", "blank", "user", "service"} \cup Objects
             Stops == {"options", "budget", "ready", "refused"} \cup Objects
  <2>a. Objects = {"program", "config", "key", "pub", "replay"}
    BY DEF Objects
  <2>b. \A reason : Refused(reason) =>
          pc' = "refused" /\ why' = reason /\ fd' = Absent /\ rest' \in Seq(Name)
    BY DEF Refused
  <2>c. \A o \in Objects : After(o) \in Stops
    BY <2>a, AfterTyped
  <2>d. pc \notin Objects => fd = Absent
    BY <1>5 DEF WalkTyped
  <2>e. rest \in Seq(Name)
    BY <1>5 DEF WalkTyped
  <2>0. ASSUME pc # "idle", pc' \in Stops, fd' = Absent, rest' \in Seq(Name),
               UNCHANGED <<call, have, tainted, marks>>, config' \in HelperConfigs,
               why' \in Reasons
        PROVE  HelperTyped
    <3>1. WalkTyped'
      BY <2>0 DEF WalkTyped
    <3>2. TrustedWalk' /\ OnlyRootsFiles'
      BY <1>5, <2>0, <2>a DEF TrustedWalk, OnlyRootsFiles
    <3> QED
      BY <1>3, <2>0, <3>1, <3>2
  <2>1. CASE Start
    <3>1. /\ pc = "idle" /\ call' \in {"pam", "direct"} /\ pc' \in {"program", "config"}
          /\ UNCHANGED <<fd, rest, have, config, tainted, marks, why>>
      BY <2>1 DEF Start
    <3>2. WalkTyped'
      BY <1>5, <2>a, <3>1 DEF WalkTyped
    <3>3. TrustedWalk' /\ OnlyRootsFiles'
      BY <1>5, <3>1 DEF TrustedWalk, OnlyRootsFiles
    <3> QED
      BY <1>3, <2>a, <3>1, <3>2, <3>3
  <2>2. CASE LoadDefault
    <3>1. config' \in HelperConfigs
      BY <1>3, <2>2, DefaultTyped DEF LoadDefault
    <3>2. /\ pc = "config" /\ pc' = After("config") /\ fd = Absent
          /\ UNCHANGED <<call, fd, rest, have, tainted, marks, why>>
      BY <2>2 DEF LoadDefault
    <3> QED
      BY <1>3, <2>0, <2>a, <2>c, <2>e, <3>1, <3>2
  <2>3. CASE CheckOptions
    <3>1. PICK socket \in Given(SocketArgs), name \in Given({"text"}) :
            config' = [config EXCEPT !.socket_path = Or(socket, @), !.key_id = Or(name, @),
                                !.host_id = Or(name, @), !.hostname = Or(name, @)]
      BY <2>3 DEF CheckOptions
    <3>2. socket \in Option(Path) /\ name \in Option(Texts)
      BY GivenTyped, StartupAssumption DEF Texts
    <3>3. /\ Or(socket, config.socket_path) \in Option(Path)
          /\ \A f \in {"key_id", "host_id", "hostname"} : Or(name, config[f]) \in Option(Texts)
      BY <1>3, <3>2, OptionTyped DEF HelperConfigs
    <3>4. config' \in HelperConfigs
      BY <1>3, <3>1, <3>3 DEF HelperConfigs
    <3>5. /\ pc = "options" /\ UNCHANGED <<call, have, tainted, marks>>
          /\ \/ pc' = "replay" /\ UNCHANGED <<fd, rest, why>>
             \/ Refused("options")
      BY <2>3 DEF CheckOptions
    <3> QED
      BY <1>3, <2>0, <2>a, <2>b, <2>d, <2>e, <3>4, <3>5
  <2>4. CASE CheckBudget
    <3>1. /\ pc = "budget" /\ UNCHANGED <<call, have, tainted, marks, config>>
          /\ \/ pc' = "ready" /\ UNCHANGED <<fd, rest, why>>
             \/ Refused("budget") \/ Refused("blank") \/ Refused("user") \/ Refused("service")
      BY <2>4 DEF CheckBudget, BlankOf, notWalk
    <3> QED
      BY <1>3, <2>0, <2>a, <2>b, <2>d, <2>e, <3>1
  <2>5. CASE Mark
    <3>1. /\ pc = "ready" /\ have["replay"] # Absent
          /\ marks' = marks \cup {have["replay"]}
          /\ UNCHANGED <<call, pc, fd, rest, have, config, tainted, why>>
      BY <2>5 DEF Mark
    <3>2. WalkTyped'
      BY <1>5, <3>1 DEF WalkTyped
    <3>3. have["replay"] \in Inode
      BY <1>3, <2>a, <3>1
    <3>4. TrustedWalk' /\ OnlyRootsFiles'
      BY <1>5, <3>1 DEF TrustedWalk, OnlyRootsFiles
    <3> QED
      BY <1>3, <3>1, <3>2, <3>3, <3>4
  <2>6. ASSUME NEW o \in Objects, Begin(o) PROVE HelperTyped
    <3>1. /\ pc = o /\ fd = Absent /\ UNCHANGED <<call, have, config, marks>>
          /\ tainted' = tainted
      BY <2>6 DEF Begin, notWalk
    <3>2. CASE pc' = "budget" /\ UNCHANGED <<fd, rest, why>>
      BY <1>3, <2>0, <2>a, <2>e, <3>1, <3>2
    <3>3. CASE Refused(o)
      BY <1>3, <2>0, <2>a, <2>b, <3>1, <3>3
    <3>4. CASE \E path \in PathOf(o) : \E p \in path :
                 /\ ~HasParent(p) /\ Validate(Slash, TRUE, FALSE)
                 /\ fd' = Slash /\ rest' = Parts[p] /\ UNCHANGED <<pc, tainted, why>>
      <4>1. /\ fd' = Slash /\ rest' \in Seq(Name) /\ rest' # <<>> /\ pc' = pc /\ why' = why
        BY <1>3, <3>4, PathOfTyped, PathTyped
      <4>2. call = "pam" => ~Writable(Slash)
        BY <3>4 DEF Validate, RootOwned, Writable
      <4>3. WalkTyped'
        BY <1>4, <1>5, <3>1, <4>1 DEF WalkTyped
      <4>4. TrustedWalk' /\ OnlyRootsFiles'
        BY <1>5, <2>a, <3>1, <4>1, <4>2 DEF TrustedWalk, OnlyRootsFiles, Writable
      <4> QED
        BY <1>3, <1>4, <3>1, <4>1, <4>3, <4>4
    <3> QED
      BY <2>6, <3>2, <3>3, <3>4 DEF Begin
  <2>7. ASSUME NEW o \in Objects, LoadInline(o) PROVE HelperTyped
    <3>1. /\ pc = o /\ fd = Absent /\ UNCHANGED <<call, have, tainted, marks, config>>
          /\ \/ pc' = After(o) /\ UNCHANGED <<fd, rest, why>>
             \/ Refused(o)
      BY <2>7 DEF LoadInline, notWalk
    <3> QED
      BY <1>3, <2>0, <2>a, <2>b, <2>c, <2>e, <3>1
  <2>8. ASSUME NEW o \in Objects, OpenAt(o) PROVE HelperTyped
    <3> DEFINE next == entry[fd][Head(rest)]
               last == Len(rest) = 1
               taint == IF by[fd][Head(rest)] = "user" THEN tainted \cup {o} ELSE tainted
    <3>1. /\ pc = o /\ fd \in Dir /\ UNCHANGED <<call, marks>>
          /\ \/ /\ Passes(o, next, last) /\ ~last
                /\ fd' = next /\ rest' = Tail(rest) /\ tainted' = taint
                /\ UNCHANGED <<pc, have, config, why>>
             \/ /\ Passes(o, next, last) /\ last
                /\ have' = [have EXCEPT ![o] = next]
                /\ config' \in IF o = "config" THEN Contents(next) ELSE {config}
                /\ pc' = After(o) /\ fd' = Absent /\ rest' = <<>> /\ tainted' = taint
                /\ why' = why
             \/ Refused(o) /\ UNCHANGED <<have, config, tainted>>
      BY <2>8 DEF OpenAt
    <3>2. rest # <<>> /\ Head(rest) \in Name /\ call # "none" /\ pc # "idle"
      BY <1>4, <1>5, <2>a, <2>e, <3>1 DEF WalkTyped, TrustedWalk
    <3>3. next \in Inode \cup {Absent}
      <4>1. entry \in [Dir -> [Name -> Inode \cup {Absent}]]
        BY DEF TypeOK, StartupInv
      <4> QED
        BY <3>1, <3>2, <4>1
    <3>4. taint \subseteq Objects /\ (call = "pam" => taint = {})
      <4>1. call = "pam" => by[fd][Head(rest)] # "user"
        BY <1>4, <1>5, <3>1, <3>2 DEF RootEntries, TrustedWalk
      <4> QED
        BY <1>3, <1>5, <4>1 DEF OnlyRootsFiles
    <3> HIDE DEF next, taint
    <3>5. CASE /\ Passes(o, next, last) /\ ~last
               /\ fd' = next /\ rest' = Tail(rest) /\ tainted' = taint
               /\ UNCHANGED <<pc, have, config, why>>
      <4>1. next \in Dir /\ (call = "pam" => ~Writable(next))
        <5>1. /\ next # Absent /\ Kind[next] = "dir" /\ Mode[next] # "loose"
              /\ call = "pam" => Owner[next] = "root"
          BY <3>5 DEF Passes, Validate, RootOwned
        <5> QED
          BY <3>3, <5>1 DEF Dir, Writable
      <4>2. rest' \in Seq(Name) /\ rest' # <<>>
        BY <2>e, <3>2, <3>5, TailTyped
      <4>3. WalkTyped'
        BY <3>1, <3>5, <4>1, <4>2 DEF WalkTyped
      <4>4. TrustedWalk' /\ OnlyRootsFiles'
        BY <1>5, <3>1, <3>2, <3>4, <3>5, <4>1 DEF TrustedWalk, OnlyRootsFiles, Writable
      <4> QED
        BY <1>3, <3>1, <3>3, <3>4, <3>5, <4>3, <4>4
    <3>6. CASE /\ Passes(o, next, last) /\ last
               /\ have' = [have EXCEPT ![o] = next]
               /\ config' \in IF o = "config" THEN Contents(next) ELSE {config}
               /\ pc' = After(o) /\ fd' = Absent /\ rest' = <<>> /\ tainted' = taint
               /\ why' = why
      <4>1. config' \in HelperConfigs
        <5>1. conf \in SUBSET HelperConfigs /\ Sources \subseteq HelperConfigs
          BY StartupAssumption DEF StartupInv, TypeOK
        <5> QED
          BY <1>3, <3>6, <5>1 DEF Contents
      <4>2. /\ have' \in [Objects -> Inode \cup {Absent}]
            /\ have'["replay"] = IF o = "replay" THEN next ELSE have["replay"]
        BY <1>3, <2>a, <3>3, <3>6
      <4>3. call = "pam" /\ o = "replay" => Owner[next] = "root" /\ Mode[next] = "private"
        BY <3>6 DEF Passes, Validate, RootOwned, Private
      <4>4. WalkTyped'
        BY <3>6 DEF WalkTyped
      <4>5. TrustedWalk' /\ OnlyRootsFiles'
        BY <1>5, <2>a, <2>c, <3>1, <3>2, <3>4, <3>6, <4>2, <4>3 DEF TrustedWalk, OnlyRootsFiles
      <4> QED
        BY <1>3, <2>c, <3>1, <3>4, <3>6, <4>1, <4>2, <4>4, <4>5
    <3>7. CASE Refused(o) /\ UNCHANGED <<have, config, tainted>>
      BY <1>3, <2>0, <2>a, <2>b, <3>1, <3>2, <3>7
    <3> QED
      BY <3>1, <3>5, <3>6, <3>7
  <2> QED
    BY <2>1, <2>2, <2>3, <2>4, <2>5, <2>6, <2>7, <2>8 DEF Run
<1>7. TypeOK'
  BY <1>1, <1>6 DEF TypeOK, tree, script
<1> QED
  BY <1>2, <1>6, <1>7

(* The inductive invariant of starting holds throughout. *)
LEMMA StartupInvariant == Spec => []StartupInv
<1>1. StartupInv /\ [Next]_vars => StartupInv'
  <2> SUFFICES ASSUME StartupInv, [Next]_vars PROVE StartupInv'
    OBVIOUS
  <2>1. CASE UNCHANGED vars
    <3>1. UNCHANGED <<entry, by, edits, wall, dev, conf, inst, item, force, staged, installs,
             call, pc, fd, rest, have, config, tainted, marks, why>>
      BY <2>1 DEF vars, tree, script, helper
    <3>2. TypeOK'
      BY <3>1 DEF StartupInv, TypeOK
    <3>3. WalkTyped' /\ ScriptTyped'
      BY <3>1 DEF StartupInv, WalkTyped, ScriptTyped
    <3>4. RootEntries' /\ TrustedWalk' /\ OnlyRootsFiles'
      BY <3>1 DEF StartupInv, RootEntries, TrustedWalk, OnlyRootsFiles
    <3> QED
      BY <3>2, <3>3, <3>4 DEF StartupInv
  <2> QED
    BY <2>1, OthersStep, RunStep DEF Next, Ended
<1> QED
  BY <1>1, InitStartupInv, PTL DEF Spec

\* Helper, installer, administrator and user keep every variable in its type.
THEOREM TypeCorrect == Spec => []TypeOK
<1>1. StartupInv => TypeOK
  BY DEF StartupInv
<1> QED
  BY <1>1, StartupInvariant, PTL

\* In every tree, for every path and however many directories are swapped between
\* two openat calls of trust::open or validate_helper_path, a production helper
\* follows no entry that an ordinary user made, and puts its markers only where
\* nobody else can touch them.
THEOREM ProductionTrustsRoot == Spec => []OnlyRootsFiles
<1>1. StartupInv => OnlyRootsFiles
  BY DEF StartupInv
<1> QED
  BY <1>1, StartupInvariant, PTL

-----------------------------------------------------------------------------
(* The inductive invariant of what the installer promises.                 *)

\* A configuration that prepare-config made of the developer's.
Kept(c, source) ==
  /\ c \in HelperConfigs
  /\ \A f \in {"key_id", "host_id", "hostname", "service", "timeout_ms"} : c[f] = source[f]
  /\ c.host_key_file = {Installed["key"]} /\ c.agent_pubkey_file = {Installed["pub"]}
  /\ c.replay_cache_dir = IF source.replay_cache_dir = {} THEN {} ELSE {Installed["replay"]}
  /\ HasEndpoints(c)
  /\ \A f \in {"key_id", "host_id", "hostname", "service"} : "blank" \notin c[f]

SettingsKept ==
  /\ \A c \in conf : Kept(c, dev)
  /\ inst \in {"file", "copy", "dir", "stage"} => Kept(staged, dev)

\* The directories of root's own hold what the script has put there, and a
\* configuration only once one has been put in place.
InstalledOnly ==
  /\ \A n \in Name : entry[Slash][n] # Slash
  /\ \A d \in Dir \ {Slash}, o \in Objects : ~Writable(d) =>
        entry[d][Leaf(o)] \in {Absent, Fresh[o], Partial}
  /\ \A d \in Dir \ {Slash} : ~Writable(d) =>
        /\ entry[d][Leaf("replay")] \in {Absent, Fresh["replay"]}
        /\ entry[d][Leaf("config")] \in {Absent, Fresh["config"]}
        /\ entry[d][Leaf("config")] # Absent => conf # {}

Placed(o) == OwnHome(o) /\ At(o) = Fresh[o]

\* What the script has put in place when it comes to a file.
Before(o) ==
  CASE o = "program" -> {}
    [] o = "key" -> {"program"}
    [] o = "pub" -> {"program", "key"}
    [] o = "replay" -> {"program", "key", "pub"}
    [] o = "config" -> {"program", "key", "pub", "replay"}

\* A configuration that is in place has everything it names beside it, except
\* a file that a forced installation is copying, or was when it died.
FilesInPlace ==
  /\ inst \in {"file", "copy", "dir", "stage"} => \A o \in Before(item) : Placed(o)
  /\ conf # {} => \A o \in Objects : OwnHome(o) /\ At(o) \in {Partial, Fresh[o]}

\* A production walk is on the way to the installed path.
OnTheWay ==
  fd # Absent =>
    \/ fd = Slash /\ rest = Parts[Installed[pc]]
    \/ fd = Home(pc) /\ rest = <<Leaf(pc)>>

\* A production helper that has read a configuration has read an installed one.
ReadInstalled ==
  /\ pc \in {"key", "pub", "options", "replay", "budget", "ready"} =>
        Kept(config, dev) /\ conf # {}
  /\ pc \in {"budget", "ready"} =>
        (have["replay"] # Absent <=> config.replay_cache_dir # {})
  /\ pc \in {"idle", "options"} \cup Objects => have["replay"] = Absent
  /\ pc = "replay" /\ fd # Absent => config.replay_cache_dir # {}

InstallInv ==
  edits = 0 =>
    /\ SettingsKept /\ InstalledOnly /\ FilesInPlace
    /\ call # "direct" => OnTheWay /\ ReadInstalled

\* The script changes one name in a directory of root's own: everything else
\* stays where it is.
LEMMA PutKeeps ==
  ASSUME TypeOK, InstalledOnly, NEW o \in Objects, NEW i \in Inode, OwnHome(o),
         Put(Home(o), Leaf(o), i, "root")
  PROVE  /\ \A d \in Dir, n \in Name :
               entry'[d][n] = IF d = Home(o) /\ n = Leaf(o) THEN i ELSE entry[d][n]
         /\ \A q \in Objects : Home(q)' = Home(q) /\ (OwnHome(q) => OwnHome(q)')
         /\ \A q \in Objects : At(q)' = IF q = o THEN i ELSE At(q)
<1>1. Home(o) \in Dir /\ Leaf(o) \in Name /\ Home(o) # Slash /\ Slash \in Dir
  BY InstalledTyped, StartupAssumption DEF OwnHome, Home, InstalledOnly
<1>2. \A d \in Dir, n \in Name :
        entry'[d][n] = IF d = Home(o) /\ n = Leaf(o) THEN i ELSE entry[d][n]
  BY <1>1 DEF Put, TypeOK
<1>3. \A q \in Objects : Home(q)' = Home(q)
  BY <1>1, <1>2, InstalledTyped DEF Home
<1>4. \A q \in Objects : OwnHome(q) => OwnHome(q)'
  BY <1>3 DEF OwnHome
<1>5. ASSUME NEW q \in Objects PROVE At(q)' = IF q = o THEN i ELSE At(q)
  <2>1. Leaf(q) \in Name /\ (Leaf(q) = Leaf(o) => q = o)
    BY InstalledTyped, InstallAssumption
  <2>2. At(q)' = IF Home(q) \in Dir THEN entry'[Home(q)][Leaf(q)] ELSE Absent
    BY <1>3 DEF At
  <2>3. CASE Home(q) \in Dir
    BY <1>1, <1>2, <2>1, <2>2, <2>3 DEF At
  <2>4. CASE Home(q) \notin Dir
    BY <1>1, <2>2, <2>4 DEF At
  <2> QED
    BY <2>3, <2>4
<1> QED
  BY <1>2, <1>3, <1>4, <1>5

\* What it puts there is in its own place.
LEMMA PutInstalled ==
  ASSUME TypeOK, InstalledOnly, NEW o \in Objects, NEW i \in Inode, OwnHome(o),
         Put(Home(o), Leaf(o), i, "root"),
         i = Fresh[o] \/ (i = Partial /\ o \in {"program", "key", "pub"}),
         conf # {} \/ o = "config" => conf' # {}
  PROVE  InstalledOnly'
<1>1. \A d \in Dir, n \in Name :
        entry'[d][n] = IF d = Home(o) /\ n = Leaf(o) THEN i ELSE entry[d][n]
  BY PutKeeps
<1>2. Home(o) # Slash /\ Slash \in Dir
  BY InstalledTyped, StartupAssumption DEF Home, InstalledOnly
<1>3. \A n \in Name : entry'[Slash][n] # Slash
  BY <1>1, <1>2 DEF InstalledOnly
<1>4. ASSUME NEW d \in Dir \ {Slash}, NEW q \in Objects, ~Writable(d)
      PROVE  /\ entry'[d][Leaf(q)] \in {Absent, Fresh[q], Partial}
             /\ q \in {"replay", "config"} => entry'[d][Leaf(q)] \in {Absent, Fresh[q]}
             /\ q = "config" /\ entry'[d][Leaf(q)] # Absent => conf' # {}
  <2>1. Leaf(q) \in Name /\ (Leaf(q) = Leaf(o) => q = o)
    BY InstalledTyped, InstallAssumption
  <2>2. CASE d = Home(o) /\ q = o
    BY <1>1, <2>1, <2>2
  <2>3. CASE ~(d = Home(o) /\ q = o)
    <3>1. entry'[d][Leaf(q)] = entry[d][Leaf(q)]
      BY <1>1, <2>1, <2>3
    <3> QED
      BY <1>4, <3>1 DEF InstalledOnly
  <2> QED
    BY <2>2, <2>3
<1> QED
  BY <1>3, <1>4 DEF InstalledOnly, Writable, Objects

\* A new directory is empty and appears where nothing was.
LEMMA MakeDirKeeps ==
  ASSUME TypeOK, InstalledOnly, MakeDir
  PROVE  /\ InstalledOnly'
         /\ \A q \in Objects : Home(q) # Absent => Home(q)' = Home(q)
         /\ \A q \in Objects : OwnHome(q) => OwnHome(q)' /\ At(q)' = At(q)
<1>1. PICK d \in NewDir :
        /\ \A e \in Dir, n \in Name : entry[e][n] # d
        /\ entry' = [entry EXCEPT ![Slash][Top(item)] = d, ![d] = [n \in Name |-> Absent]]
  BY DEF MakeDir
<1>2. /\ d \in Dir /\ d # Slash /\ Slash \in Dir /\ Top(item) \in Name
      /\ conf' = conf /\ entry[Slash][Top(item)] = Absent
  <2>1. d \in Dir /\ Slash \in Dir
    BY StartupAssumption
  <2>2. d # Slash
    BY InstallAssumption
  <2>3. Top(item) \in Name
    BY InstalledTyped DEF TypeOK
  <2> QED
    BY <2>1, <2>2, <2>3 DEF MakeDir, script, Home
<1>3. \A e \in Dir, n \in Name :
        entry'[e][n] = IF e = d THEN Absent
                       ELSE IF e = Slash /\ n = Top(item) THEN d ELSE entry[e][n]
  BY <1>1, <1>2 DEF TypeOK
<1>4. InstalledOnly'
  <2>1. \A n \in Name : entry'[Slash][n] # Slash
    BY <1>2, <1>3 DEF InstalledOnly
  <2>2. \A e \in Dir \ {Slash}, n \in Name : entry'[e][n] \in {Absent, entry[e][n]}
    BY <1>3
  <2> QED
    BY <1>2, <2>1, <2>2, InstalledTyped DEF InstalledOnly, Writable, Objects
<1>5. ASSUME NEW q \in Objects, Home(q) # Absent PROVE Home(q)' = Home(q)
  BY <1>2, <1>3, <1>5, InstalledTyped DEF Home
<1>6. ASSUME NEW q \in Objects, OwnHome(q) PROVE OwnHome(q)' /\ At(q)' = At(q)
  <2>1. Home(q) \in Dir /\ Home(q) # Absent /\ Home(q) # d /\ Home(q) # Slash
    BY <1>1, <1>2, <1>6, InstalledTyped, StartupAssumption DEF OwnHome, Home, Dir, InstalledOnly
  <2>2. Home(q)' = Home(q)
    BY <1>5, <2>1
  <2>3. OwnHome(q)'
    BY <1>6, <2>2 DEF OwnHome
  <2>4. At(q)' = entry'[Home(q)][Leaf(q)]
    BY <2>1, <2>2 DEF At
  <2> QED
    BY <1>3, <2>1, <2>3, <2>4, InstalledTyped DEF At
<1> QED
  BY <1>4, <1>5, <1>6

(* A configuration that prepare-config accepts and rewrites keeps the user's settings. *)
LEMMA PreparedKept ==
  ASSUME dev \in HelperConfigs, NEW socket \in Path, PrepareAccepts(dev, Args(socket), wall)
  PROVE  Kept(Prepared(dev, Args(socket)), dev)
<1> DEFINE p == Prepared(dev, Args(socket))
<1>1. /\ p \in HelperConfigs
      /\ \A f \in {"key_id", "host_id", "hostname", "service", "timeout_ms"} : p[f] = dev[f]
      /\ p.socket_path = {socket}
      /\ p.host_key_file = {Installed["key"]} /\ p.agent_pubkey_file = {Installed["pub"]}
      /\ p.replay_cache_dir = IF dev.replay_cache_dir = {} THEN {} ELSE {Installed["replay"]}
  BY PreparedFields
<1>2. Clean(socket) /\ ValidateConfigFields(p, wall)
  BY DEF PrepareAccepts, Args
<1> HIDE DEF p
<1>3. /\ p.host_id # {} /\ p.hostname # {}
      /\ \A f \in {"key_id", "host_id", "hostname", "service"} : "blank" \notin p[f]
  BY <1>2 DEF ValidateConfigFields
<1>4. HasEndpoints(p)
  BY <1>1, <1>2, <1>3 DEF HasEndpoints, Clean
<1> QED
  BY <1>1, <1>3, <1>4 DEF Kept, p

(* What linux-install-dev.sh has installed before each object. *)
LEMMA BeforeIs ==
  /\ Before("program") = {} /\ Before("key") = {"program"}
  /\ Before("pub") = {"program", "key"} /\ Before("replay") = {"program", "key", "pub"}
  /\ Before("config") = {"program", "key", "pub", "replay"}
BY DEF Before

(* Each object is installed once, after those before it. *)
LEMMA BeforeTyped ==
  /\ \A o \in Objects : Before(o) \subseteq Objects \ {o}
  /\ \A o \in Objects \ {"config"} : Before(InstallOrder(o)[2]) = Before(o) \cup {o}
<1>1. \A o \in Objects : Before(o) \subseteq Objects \ {o}
  BY BeforeIs DEF Objects
<1>2. ASSUME NEW o \in Objects \ {"config"} PROVE Before(InstallOrder(o)[2]) = Before(o) \cup {o}
  <2>1. CASE o = "program"
    BY <2>1, BeforeIs, InstallOrderTyped
  <2>2. CASE o = "key"
    BY <2>2, BeforeIs, InstallOrderTyped
  <2>3. CASE o = "pub"
    BY <2>3, BeforeIs, InstallOrderTyped
  <2>4. CASE o = "replay"
    BY <2>4, BeforeIs, InstallOrderTyped
  <2> QED
    BY <2>1, <2>2, <2>3, <2>4 DEF Objects
<1> QED
  BY <1>1, <1>2

(* The invariant of installing holds before linux-install-dev.sh runs. *)
LEMMA InitInstallInv == Init => InstallInv
<1> SUFFICES ASSUME Init PROVE InstallInv
  OBVIOUS
<1>1. conf = {} /\ inst = "off"
  BY DEF Init
<1>2. fd = Absent /\ pc = "idle" /\ have = [o \in Objects |-> Absent]
  BY DEF Init
<1>3. SettingsKept /\ FilesInPlace
  BY <1>1 DEF SettingsKept, FilesInPlace
<1>4. InstalledOnly
  <2>1. \A d \in Dir, n \in Name : entry[d][n] # Slash
    BY InstallAssumption DEF Init
  <2>2. \A d \in Dir \ {Slash}, o \in Objects : ~Writable(d) => entry[d][Leaf(o)] = Absent
    BY InstallAssumption DEF Init
  <2>3. Slash \in Dir
    BY StartupAssumption
  <2> QED
    BY <2>1, <2>2, <2>3 DEF InstalledOnly, Objects
<1>5. OnTheWay
  BY <1>2 DEF OnTheWay
<1>6. ReadInstalled
  BY <1>2 DEF ReadInstalled, Objects
<1> QED
  BY <1>3, <1>4, <1>5, <1>6 DEF InstallInv

\* The installer's steps, beside which the helper may stand anywhere.
LEMMA OthersKeepInstall ==
  ASSUME StartupInv, InstallInv, Installer \/ Others \/ Tick
  PROVE  InstallInv'
<1>0. TypeOK /\ WalkTyped /\ ScriptTyped
  BY DEF StartupInv
<1>1. UNCHANGED <<call, pc, fd, rest, have, config, dev>>
  BY DEF Installer, Others, Tick, InstallerStarts, Check, MakeDir, InstallFile, Copied,
     InstallReplay, MoveConfig, InstallerDies, RootPlaces, UserPlaces, notScript, helper
<1>2. CASE Others
  <2>1. edits \in Nat /\ edits' = edits + 1
    <3>1. edits \in 0..MaxEdits /\ MaxEdits \in Nat
      BY <1>0, StartupAssumption DEF TypeOK
    <3> QED
      BY <1>2, <3>1 DEF Others, RootPlaces, UserPlaces
  <2> QED
    BY <2>1 DEF InstallInv
<1>3. ASSUME edits' = 0, Installer \/ Tick PROVE InstallInv'
  <2>0. edits = 0
    BY <1>3 DEF Installer, Tick, InstallerStarts, Check, MakeDir, InstallFile, Copied,
       InstallReplay, MoveConfig, InstallerDies, notScript
  <2>1. SettingsKept /\ InstalledOnly /\ FilesInPlace
    BY <2>0 DEF InstallInv
  <2>2. call # "direct" => OnTheWay /\ ReadInstalled
    BY <2>0 DEF InstallInv
  <2> DEFINE Good == /\ SettingsKept' /\ InstalledOnly' /\ FilesInPlace'
                     /\ conf # {} => conf' # {}
                     /\ \A q \in Objects : Home(q) # Absent => Home(q)' = Home(q)
  <2>3. Good
    <3>0. /\ item \in Objects /\ Partial \in Inode /\ Absent \notin Inode
          /\ \A o \in Objects : Fresh[o] \in Inode
      BY <1>0, StartupAssumption DEF TypeOK
    <3>1. ASSUME UNCHANGED <<entry, conf>>, SettingsKept',
                 item' \in Objects,
                 inst' \in {"file", "copy", "dir", "stage"} => \A o \in Before(item') : Placed(o)
          PROVE  Good
      <4>1. \A q \in Objects : Home(q)' = Home(q)
        BY <3>1 DEF Home
      <4>2. \A q \in Objects : At(q)' = At(q) /\ (OwnHome(q)' <=> OwnHome(q))
        BY <3>1, <4>1 DEF At, OwnHome
      <4>3. InstalledOnly'
        BY <2>1, <3>1 DEF InstalledOnly, Writable
      <4>4. \A q \in Objects : Placed(q) => Placed(q)'
        BY <4>2 DEF Placed
      <4>5. \A o \in Before(item') : o \in Objects
        BY <3>1, BeforeTyped
      <4>6. FilesInPlace'
        BY <2>1, <3>1, <4>2, <4>4, <4>5 DEF FilesInPlace
      <4> QED
        BY <3>1, <4>1, <4>3, <4>6
    <3>2. CASE InstallerStarts \/ InstallerDies \/ Tick
      <4>1. /\ UNCHANGED <<entry, conf, staged>>
            /\ item' = item
            /\ inst' \notin {"file", "copy", "dir", "stage"} \/ inst' = inst
        BY <3>2 DEF InstallerStarts, InstallerDies, Tick, notScript, script, tree
      <4>2. SettingsKept'
        BY <1>1, <2>1, <4>1 DEF SettingsKept
      <4> QED
        BY <2>1, <3>0, <3>1, <4>1, <4>2 DEF FilesInPlace
    <3>3. CASE Check
      <4>1. /\ UNCHANGED <<entry, conf>>
            /\ \/ inst' = "off" /\ item' = item
               \/ /\ item' = "program"
                  /\ \E s \in SocketArgs : /\ PrepareAccepts(dev, Args(s), wall)
                                           /\ staged' = Prepared(dev, Args(s))
        BY <3>3 DEF Check, notScript, tree
      <4>2. inst' # "off" => Kept(staged', dev)
        <5>1. dev \in HelperConfigs /\ SocketArgs \subseteq Path
          BY <1>0, StartupAssumption DEF TypeOK
        <5> QED
          BY <4>1, <5>1, PreparedKept
      <4>3. SettingsKept'
        BY <1>1, <2>1, <4>1, <4>2 DEF SettingsKept
      <4>4. "program" \in Objects /\ Before("program") = {}
        BY BeforeIs DEF Objects
      <4> QED
        BY <3>0, <3>1, <4>1, <4>3, <4>4
    <3>4. CASE MakeDir
      <4>1. UNCHANGED <<conf, inst, item, staged>>
        BY <3>4 DEF MakeDir, script
      <4>2. /\ InstalledOnly'
            /\ \A q \in Objects : Home(q) # Absent => Home(q)' = Home(q)
            /\ \A q \in Objects : OwnHome(q) => OwnHome(q)' /\ At(q)' = At(q)
        BY <1>0, <2>1, <3>4, MakeDirKeeps
      <4>3. SettingsKept'
        BY <1>1, <2>1, <4>1 DEF SettingsKept
      <4>4. \A o \in Before(item) : o \in Objects
        BY <3>0, BeforeTyped
      <4>5. FilesInPlace'
        BY <2>1, <4>1, <4>2, <4>4 DEF FilesInPlace, Placed
      <4> QED
        BY <4>1, <4>2, <4>3, <4>5
    <3>5. CASE InstallFile
      <4>1. /\ inst = "file" /\ OwnHome(item) /\ UNCHANGED <<conf, item, staged>>
            /\ item \in {"program", "key", "pub"}
        BY <1>0, <3>5 DEF InstallFile, ScriptTyped
      <4>2. SettingsKept'
        BY <1>1, <2>1, <4>1 DEF SettingsKept
      <4>3. CASE inst' = "off" /\ UNCHANGED tree
        BY <3>0, <3>1, <4>1, <4>2, <4>3 DEF tree
      <4>4. CASE /\ Put(Home(item), Leaf(item), Partial, "root") /\ inst' = "copy"
        <5>1. /\ \A q \in Objects : Home(q)' = Home(q) /\ (OwnHome(q) => OwnHome(q)')
              /\ \A q \in Objects : q # item => At(q)' = At(q)
          BY <1>0, <2>1, <3>0, <4>1, <4>4, PutKeeps
        <5>2. InstalledOnly'
          BY <1>0, <2>1, <3>0, <4>1, <4>4, PutInstalled
        <5>3. \A o \in Before(item) : o \in Objects /\ o # item
          BY <3>0, BeforeTyped
        <5>4. \A o \in Before(item) : Placed(o)'
          BY <2>1, <4>1, <5>1, <5>3 DEF FilesInPlace, Placed
        <5>5. At(item)' = Partial
          BY <1>0, <2>1, <3>0, <4>1, <4>4, PutKeeps
        <5>6. FilesInPlace'
          BY <2>1, <3>0, <4>1, <4>4, <5>1, <5>4, <5>5 DEF FilesInPlace
        <5> QED
          BY <4>1, <4>2, <5>1, <5>2, <5>6
      <4> QED
        BY <3>5, <4>3, <4>4 DEF InstallFile
    <3>9. ASSUME item \in Objects \ {"config"}, GoOn, UNCHANGED <<conf, staged>>,
                 inst \in {"copy", "dir"}, InstalledOnly', OwnHome(item),
                 \A q \in Objects : Home(q)' = Home(q) /\ (OwnHome(q) => OwnHome(q)'),
                 \A q \in Objects : At(q)' = IF q = item THEN Fresh[item] ELSE At(q)
          PROVE  Good
      <4>1. SettingsKept'
        BY <1>1, <2>1, <3>9 DEF SettingsKept
      <4>2. Before(item') = Before(item) \cup {item} /\ Before(item) \subseteq Objects \ {item}
        BY <3>9, BeforeTyped DEF GoOn
      <4>3. \A o \in Before(item') : Placed(o)'
        BY <2>1, <3>9, <4>2 DEF FilesInPlace, Placed
      <4>4. FilesInPlace'
        BY <2>1, <3>9, <4>3 DEF FilesInPlace
      <4> QED
        BY <3>9, <4>1, <4>4
    <3>6. CASE Copied
      <4>1. /\ inst = "copy" /\ OwnHome(item) /\ UNCHANGED <<conf, staged>> /\ GoOn
            /\ item \in {"program", "key", "pub"}
            /\ Put(Home(item), Leaf(item), Fresh[item], "root")
        BY <1>0, <3>6 DEF Copied, ScriptTyped
      <4>2. /\ \A q \in Objects : Home(q)' = Home(q) /\ (OwnHome(q) => OwnHome(q)')
            /\ \A q \in Objects : At(q)' = IF q = item THEN Fresh[item] ELSE At(q)
        BY <1>0, <2>1, <3>0, <4>1, PutKeeps
      <4>3. InstalledOnly'
        BY <1>0, <2>1, <3>0, <4>1, PutInstalled
      <4> QED
        BY <3>0, <3>9, <4>1, <4>2, <4>3
    <3>7. CASE InstallReplay
      <4>1. /\ inst = "dir" /\ item = "replay" /\ OwnHome(item) /\ GoOn
            /\ UNCHANGED <<conf, staged>>
        BY <1>0, <3>7 DEF InstallReplay, ScriptTyped
      <4>2. CASE At("replay") = Absent
        <5>1. Put(Home(item), Leaf(item), Fresh[item], "root")
          BY <3>7, <4>1, <4>2 DEF InstallReplay
        <5>2. /\ \A q \in Objects : Home(q)' = Home(q) /\ (OwnHome(q) => OwnHome(q)')
              /\ \A q \in Objects : At(q)' = IF q = item THEN Fresh[item] ELSE At(q)
          BY <1>0, <2>1, <3>0, <4>1, <5>1, PutKeeps
        <5>3. InstalledOnly'
          BY <1>0, <2>1, <3>0, <4>1, <5>1, PutInstalled
        <5> QED
          BY <3>0, <3>9, <4>1, <5>2, <5>3
      <4>3. CASE At("replay") # Absent
        <5>1. entry' = entry
          BY <3>7, <4>3 DEF InstallReplay, tree
        <5>2. /\ Home("replay") \in Dir \ {Slash} /\ ~Writable(Home("replay"))
              /\ At("replay") = entry[Home("replay")][Leaf("replay")]
          BY <2>1, <3>0, <4>1, InstalledTyped DEF OwnHome, Writable, InstalledOnly, Home, At
        <5>3. At("replay") = Fresh["replay"]
          BY <2>1, <4>3, <5>2 DEF InstalledOnly
        <5>4. \A q \in Objects : Home(q)' = Home(q)
          BY <5>1 DEF Home
        <5>5. \A q \in Objects : At(q)' = At(q) /\ (OwnHome(q)' <=> OwnHome(q))
          BY <5>1, <5>4 DEF At, OwnHome
        <5>6. InstalledOnly'
          BY <2>1, <4>1, <5>1 DEF InstalledOnly, Writable
        <5> QED
          BY <3>0, <3>9, <4>1, <5>3, <5>4, <5>5, <5>6
      <4> QED
        BY <4>2, <4>3
    <3>8. CASE MoveConfig
      <4>1. /\ inst = "stage" /\ OwnHome("config") /\ item = "config"
            /\ conf' = {staged} /\ inst' = "off" /\ staged' = staged
            /\ Put(Home("config"), Leaf("config"), Fresh["config"], "root")
        BY <1>0, <3>8 DEF MoveConfig, ScriptTyped
      <4>2. "config" \in Objects /\ conf' # {}
        BY <4>1 DEF Objects
      <4>3. /\ \A q \in Objects : Home(q)' = Home(q) /\ (OwnHome(q) => OwnHome(q)')
            /\ \A q \in Objects : At(q)' = IF q = "config" THEN Fresh["config"] ELSE At(q)
        BY <1>0, <2>1, <3>0, <4>1, <4>2, PutKeeps
      <4>4. InstalledOnly'
        BY <1>0, <2>1, <3>0, <4>1, <4>2, PutInstalled
      <4>5. SettingsKept'
        BY <1>1, <2>1, <4>1 DEF SettingsKept
      <4>6. \A o \in Objects \ {"config"} : Placed(o)
        BY <2>1, <4>1, BeforeIs DEF FilesInPlace, Objects
      <4>7. FilesInPlace'
        BY <4>1, <4>3, <4>6 DEF FilesInPlace, Placed
      <4> QED
        BY <4>2, <4>3, <4>4, <4>5, <4>7
    <3> QED
      BY <1>3, <3>2, <3>3, <3>4, <3>5, <3>6, <3>7, <3>8 DEF Installer
  <2>5. OnTheWay => OnTheWay'
    <3>1. ASSUME fd # Absent, fd = Home(pc) PROVE Home(pc)' = Home(pc)
      <4>1. pc \in Objects
        BY <1>0, <3>1 DEF WalkTyped
      <4>2. \A q \in Objects : Home(q) # Absent => Home(q)' = Home(q)
        BY <2>3
      <4> QED
        BY <1>1, <3>1, <4>1, <4>2 DEF Home
    <3> QED
      BY <1>1, <3>1 DEF OnTheWay, Leaf
  <2>6. ReadInstalled => ReadInstalled'
    BY <1>1, <2>3 DEF ReadInstalled
  <2> QED
    BY <1>1, <2>2, <2>3, <2>5, <2>6 DEF InstallInv
<1> QED
  BY <1>2, <1>3 DEF InstallInv

\* The only path that a production helper opens for an object is the installed one.
LEMMA NamesInstalled ==
  ASSUME ReadInstalled, call = "pam", NEW o \in Objects, pc = o
  PROVE  /\ PathOf(o) = {FromConfig(o)}
         /\ \/ FromConfig(o) = {Installed[o]}
            \/ o = "replay" /\ FromConfig(o) = {}
         /\ o = "replay" => FromConfig(o) = config.replay_cache_dir
<1>1. PathOf(o) = {FromConfig(o)}
  BY DEF PathOf
<1>2. CASE o \in {"program", "config"}
  <2>1. FromConfig(o) = {Installed[o]} BY <1>2 DEF FromConfig
  <2> QED BY <1>1, <1>2, <2>1
<1>3. CASE o = "key"
  <2>1. FromConfig(o) = config.host_key_file BY <1>3 DEF FromConfig
  <2> QED BY <1>1, <1>3, <2>1 DEF ReadInstalled, Kept
<1>4. CASE o = "pub"
  <2>1. FromConfig(o) = config.agent_pubkey_file BY <1>4 DEF FromConfig
  <2> QED BY <1>1, <1>4, <2>1 DEF ReadInstalled, Kept
<1>5. CASE o = "replay"
  <2>1. FromConfig(o) = config.replay_cache_dir BY <1>5 DEF FromConfig
  <2> QED BY <1>1, <1>5, <2>1 DEF ReadInstalled, Kept
<1> QED
  BY <1>2, <1>3, <1>4, <1>5 DEF Objects

\* The reasons to refuse that InstalledStarts allows.
Excused ==
  \/ why' \in Objects /\ At(why') = Partial
  \/ why' \in {"budget", "user", "service"}

\* A step of a production helper on a tree that only the installer has changed:
\* it stays on its way and reads an installed configuration, and refuses only for
\* a reason that the installer does not answer for.
LEMMA ProductionStep ==
  ASSUME StartupInv, SettingsKept, InstalledOnly, FilesInPlace, OnTheWay, ReadInstalled,
         call = "pam", Run
  PROVE  /\ OnTheWay' /\ ReadInstalled'
         /\ conf # {} /\ pc' = "refused" => Excused
<1>0. /\ TypeOK /\ WalkTyped /\ TrustedWalk
      /\ pc # "idle"
  BY DEF StartupInv, TrustedWalk
<1>1. UNCHANGED <<entry, dev, conf>>
  BY DEF Run, Start, LoadDefault, CheckOptions, CheckBudget, Mark, Begin, LoadInline,
     OpenAt, notWalk, tree, script
<1>2. Objects = {"program", "config", "key", "pub", "replay"}
  BY DEF Objects
<1>3. \A q \in Objects : Home(q)' = Home(q)
  BY <1>1 DEF Home
<1> DEFINE Fine == /\ OnTheWay' /\ ReadInstalled'
                   /\ conf # {} /\ pc' = "refused" => Excused
<1>4. pc \notin Objects => fd = Absent
  BY <1>0 DEF WalkTyped
<1>a. \A reason : Refused(reason) => pc' = "refused" /\ why' = reason /\ fd' = Absent
  BY DEF Refused
<1>b. ASSUME fd' = Absent, pc' = "refused" PROVE OnTheWay' /\ ReadInstalled'
  BY <1>2, <1>b DEF OnTheWay, ReadInstalled
<1>5. CASE CheckOptions
  <2>1. PICK socket \in Given(SocketArgs), name \in Given({"text"}) :
          config' = [config EXCEPT !.socket_path = Or(socket, @), !.key_id = Or(name, @),
                                   !.host_id = Or(name, @), !.hostname = Or(name, @)]
    BY <1>5 DEF CheckOptions
  <2>2. socket = {} /\ name = {}
    BY DEF Given
  <2>3. config' = config
    <3>1. config \in HelperConfigs
      BY <1>0 DEF TypeOK
    <3>2. /\ Or(socket, config.socket_path) = config.socket_path
          /\ \A f \in {"key_id", "host_id", "hostname"} : Or(name, config[f]) = config[f]
      BY <2>2 DEF Or
    <3> QED
      BY <2>1, <3>1, <3>2 DEF HelperConfigs
  <2>4. pc = "options" /\ have' = have /\ Kept(config, dev) /\ conf # {} /\ have["replay"] = Absent
    BY <1>5 DEF CheckOptions, ReadInstalled
  <2>5. pc' = "replay" /\ UNCHANGED <<fd, rest, why>>
    BY <1>5, <2>3, <2>4 DEF CheckOptions, Kept
  <2>6. ReadInstalled'
    BY <1>1, <1>2, <1>4, <2>3, <2>4, <2>5 DEF ReadInstalled
  <2>7. OnTheWay'
    BY <1>2, <1>4, <2>4, <2>5 DEF OnTheWay
  <2> QED
    BY <2>5, <2>6, <2>7
<1>6. CASE CheckBudget
  <2>1. pc = "budget" /\ UNCHANGED <<have, config>> /\ Kept(config, dev)
    BY <1>6 DEF CheckBudget, notWalk, ReadInstalled
  <2>2. PICK service \in {{}} \cup {{t} : t \in Texts}, user \in Texts :
          \/ Refused("budget")
          \/ /\ ~NoneBlank(config, service, user)
             /\ Refused(BlankOf(service, user))
          \/ pc' = "ready" /\ UNCHANGED <<fd, rest, why>>
    BY <1>6 DEF CheckBudget
  <2>3. ~NoneBlank(config, service, user) => BlankOf(service, user) \in {"user", "service"}
    BY <2>1 DEF NoneBlank, Kept, Or, BlankOf, Texts
  <2>4. CASE pc' = "refused" /\ fd' = Absent /\ why' \in {"budget", "user", "service"}
    BY <1>b, <2>4 DEF Excused
  <2>5. CASE pc' = "ready" /\ UNCHANGED <<fd, rest, why>>
    <3>1. ReadInstalled'
      BY <1>1, <1>2, <2>1, <2>5 DEF ReadInstalled
    <3>2. OnTheWay'
      BY <1>2, <1>4, <2>1, <2>5 DEF OnTheWay
    <3> QED
      BY <2>5, <3>1, <3>2
  <2> QED
    BY <1>a, <2>2, <2>3, <2>4, <2>5
<1>7. CASE Mark
  <2>1. UNCHANGED <<pc, fd, rest, have, config>> /\ pc = "ready"
    BY <1>7 DEF Mark
  <2>2. OnTheWay'
    BY <1>2, <1>4, <2>1 DEF OnTheWay
  <2> QED
    BY <1>1, <2>1, <2>2 DEF ReadInstalled
<1>8. ASSUME NEW o \in Objects, Begin(o) PROVE Fine
  <2>1. pc = o /\ fd = Absent /\ UNCHANGED <<have, config>>
    BY <1>8 DEF Begin, notWalk
  <2>2. /\ PathOf(o) = {FromConfig(o)}
        /\ FromConfig(o) = {Installed[o]} \/ (o = "replay" /\ FromConfig(o) = {})
        /\ o = "replay" => FromConfig(o) = config.replay_cache_dir
    BY <2>1, NamesInstalled
  <2>3. Installed[o] \notin Relative /\ ~HasParent(Installed[o]) /\ Validate(Slash, TRUE, FALSE)
    <3>1. Clean(Installed[o]) /\ Slash \in Dir
      BY StartupAssumption
    <3>2. Owner[Slash] = "root" /\ Mode[Slash] # "loose"
      <4>1. ~Writable(Slash) /\ Owner[Slash] \in {"root", "user"}
        BY <3>1, StartupAssumption, InstallAssumption DEF Dir
      <4> QED
        BY <4>1 DEF Writable
    <3> QED
      BY <3>1, <3>2 DEF Clean, Validate, Dir
  <2>4. CASE FromConfig(o) = {}
    <3>1. o = "replay" /\ pc' = "budget" /\ UNCHANGED <<fd, rest, why>>
      BY <1>8, <2>2, <2>4 DEF Begin
    <3>2. ReadInstalled'
      BY <1>1, <1>2, <2>1, <2>2, <2>4, <3>1 DEF ReadInstalled
    <3>3. OnTheWay'
      BY <2>1, <3>1 DEF OnTheWay
    <3> QED
      BY <3>1, <3>2, <3>3
  <2>5. CASE FromConfig(o) = {Installed[o]}
    <3>1. fd' = Slash /\ rest' = Parts[Installed[o]] /\ pc' = pc
      BY <1>8, <2>2, <2>3, <2>5 DEF Begin
    <3>2. ReadInstalled'
      BY <1>1, <1>2, <2>1, <2>2, <2>5, <3>1 DEF ReadInstalled
    <3>3. OnTheWay'
      BY <2>1, <3>1 DEF OnTheWay
    <3> QED
      BY <1>2, <2>1, <3>1, <3>2, <3>3
  <2> QED
    BY <2>2, <2>4, <2>5
<1>9. ASSUME NEW o \in Objects, OpenAt(o) PROVE Fine
  <2> DEFINE next == entry[fd][Head(rest)]
             last == Len(rest) = 1
  <2>1. /\ pc = o /\ fd \in Dir
        /\ \/ /\ Passes(o, next, last) /\ ~last
              /\ fd' = next /\ rest' = Tail(rest)
              /\ UNCHANGED <<pc, have, config, why>>
           \/ /\ Passes(o, next, last) /\ last
              /\ have' = [have EXCEPT ![o] = next]
              /\ config' \in IF o = "config" THEN Contents(next) ELSE {config}
              /\ pc' = After(o) /\ fd' = Absent
           \/ ~Passes(o, next, last) /\ Refused(o) /\ UNCHANGED <<have, config>>
    BY <1>9 DEF OpenAt
  <2>4. fd # Absent
    BY <2>1, StartupAssumption DEF Dir
  <2>2. CASE fd = Slash /\ rest = Parts[Installed[o]]
    <3>1. /\ Len(rest) = 2 /\ rest \in Seq(Name)
          /\ Head(rest) = Top(o) /\ Tail(rest) = <<Leaf(o)>>
      <4>1. Len(rest) = 2 /\ rest \in Seq(Name)
        BY <1>0, <2>2, StartupAssumption DEF WalkTyped
      <4> QED
        BY <2>2, <4>1, TwoParts DEF Top, Leaf
    <3>2. next = Home(o) /\ ~last
      BY <2>2, <3>1 DEF Home
    <3>3. CASE conf = {} \/ Passes(o, next, last)
      <4>1. CASE conf = {} /\ pc' = "refused" /\ fd' = Absent
        BY <1>b, <4>1
      <4>2. CASE fd' = Home(o) /\ rest' = <<Leaf(o)>> /\ UNCHANGED <<pc, have, config, why>>
        <5>1. OnTheWay'
          BY <1>3, <2>1, <4>2 DEF OnTheWay, Leaf
        <5>2. ReadInstalled'
          BY <1>1, <2>1, <2>4, <4>2 DEF ReadInstalled
        <5> QED
          BY <1>2, <2>1, <4>2, <5>1, <5>2
      <4>3. \/ fd' = next /\ rest' = Tail(rest) /\ UNCHANGED <<pc, have, config, why>>
            \/ conf = {} /\ Refused(o)
        BY <2>1, <3>2, <3>3
      <4> QED
        BY <1>a, <3>1, <3>2, <4>1, <4>2, <4>3
    <3>4. CASE conf # {} /\ ~Passes(o, next, last)
      <4>1. OwnHome(o)
        BY <3>4 DEF FilesInPlace
      <4>2. Home(o) # Absent
        BY <4>1, StartupAssumption DEF OwnHome, Dir
      <4>3. Passes(o, Home(o), FALSE)
        BY <4>1, <4>2 DEF OwnHome, Passes, Validate, Dir
      <4> QED
        BY <3>2, <3>4, <4>3
    <3> QED
      BY <3>3, <3>4
  <2>3. CASE fd = Home(o) /\ rest = <<Leaf(o)>>
    <3>1. next = At(o) /\ last
      BY <2>1, <2>3 DEF At
    <3>2. fd # Slash /\ ~Writable(fd)
      BY <1>0, <2>3, <2>4, InstalledTyped DEF InstalledOnly, Home, TrustedWalk
    <3>3. CASE /\ Passes(o, next, last)
               /\ have' = [have EXCEPT ![o] = next]
               /\ config' \in IF o = "config" THEN Contents(next) ELSE {config}
               /\ pc' = After(o) /\ fd' = Absent
      <4>1. OnTheWay'
        BY <3>3 DEF OnTheWay
      <4>2. have \in [Objects -> Inode \cup {Absent}]
        BY <1>0 DEF TypeOK
      <4>3. /\ pc' # "refused" /\ next # Absent
            /\ have'["replay"] = IF o = "replay" THEN next ELSE have["replay"]
        BY <1>2, <3>3, <4>2, AfterTyped DEF Passes
      <4>4. CASE o = "program"
        <5>1. pc' = "config"
          BY <3>3, <4>4 DEF After
        <5>2. ReadInstalled'
          BY <1>2, <2>1, <3>3, <4>3, <4>4, <5>1 DEF ReadInstalled
        <5> QED
          BY <4>1, <4>3, <5>2
      <4>5. CASE o = "config"
        <5>1. pc' = "key"
          BY <3>3, <4>5 DEF After
        <5>2. next = Fresh["config"] /\ conf # {}
          BY <2>1, <2>3, <3>2, <4>3, <4>5 DEF InstalledOnly
        <5>3. Kept(config', dev)
          BY <3>3, <4>5, <5>2 DEF Contents, SettingsKept
        <5>4. ReadInstalled'
          BY <1>1, <1>2, <2>1, <3>3, <4>3, <4>5, <5>1, <5>2, <5>3 DEF ReadInstalled
        <5> QED
          BY <4>1, <4>3, <5>4
      <4>6. CASE o \in {"key", "pub"}
        <5>1. pc' \in {"pub", "options"}
          <6>1. CASE o = "key" BY <3>3, <6>1 DEF After
          <6>2. CASE o = "pub" BY <3>3, <6>2 DEF After
          <6> QED BY <4>6, <6>1, <6>2
        <5>2. config' = config
          BY <3>3, <4>6
        <5>3. ReadInstalled'
          BY <1>1, <1>2, <2>1, <3>3, <4>3, <4>6, <5>1, <5>2 DEF ReadInstalled
        <5> QED
          BY <4>1, <4>3, <5>3
      <4>7. CASE o = "replay"
        <5>1. pc' = "budget"
          BY <3>3, <4>7 DEF After
        <5>2. config' = config
          BY <3>3, <4>7
        <5>3. ReadInstalled'
          BY <1>1, <1>2, <2>1, <2>4, <3>3, <4>3, <4>7, <5>1, <5>2 DEF ReadInstalled
        <5> QED
          BY <4>1, <4>3, <5>3
      <4> QED
        BY <1>2, <4>4, <4>5, <4>6, <4>7
    <3>4. CASE ~Passes(o, next, last) /\ Refused(o)
      <4>1. ASSUME conf # {}, At(o) # Partial PROVE FALSE
        <5>1. next = Fresh[o]
          BY <3>1, <4>1 DEF FilesInPlace
        <5>2. /\ Fresh[o] \in Inode /\ Absent \notin Inode
              /\ Owner[Fresh[o]] \in {"root", "user"}
          BY StartupAssumption
        <5>3. /\ Kind[Fresh[o]] = IF o = "replay" THEN "dir" ELSE "file"
              /\ ~Writable(Fresh[o]) /\ o \in Reads[Fresh[o]]
              /\ o \in {"key", "replay"} => Mode[Fresh[o]] = "private"
          BY InstallAssumption
        <5>4. Passes(o, Fresh[o], TRUE)
          BY <5>2, <5>3 DEF Passes, Validate, Writable, Private, Serves
        <5> QED
          BY <3>1, <3>4, <5>1, <5>4
      <4> QED
        BY <1>a, <1>b, <3>4, <4>1 DEF Excused
    <3> QED
      BY <2>1, <3>1, <3>3, <3>4
  <2> QED
    BY <2>1, <2>2, <2>3, <2>4 DEF OnTheWay
<1> QED
  BY <1>0, <1>5, <1>6, <1>7, <1>8, <1>9 DEF Run, Start, LoadDefault, LoadInline

(* A step that leaves the file tree and linux-install-dev.sh alone keeps what was installed. *)
LEMMA TreeAlone ==
  ASSUME StartupInv, SettingsKept, InstalledOnly, FilesInPlace,
         UNCHANGED <<entry, dev, conf, inst, item, staged>>
  PROVE  SettingsKept' /\ InstalledOnly' /\ FilesInPlace'
<1>1. SettingsKept' /\ InstalledOnly'
  BY DEF SettingsKept, InstalledOnly, Writable
<1>2. \A q \in Objects : Home(q)' = Home(q)
  BY DEF Home
<1>3. \A q \in Objects : At(q)' = At(q) /\ (OwnHome(q)' <=> OwnHome(q))
  BY <1>2 DEF At, OwnHome
<1>4. item \in Objects /\ Before(item) \subseteq Objects
  BY BeforeTyped DEF StartupInv, TypeOK
<1>5. FilesInPlace'
  BY <1>3, <1>4 DEF FilesInPlace, Placed
<1> QED
  BY <1>1, <1>5

(* The helper's own steps keep what was installed. *)
LEMMA RunKeepsInstall ==
  ASSUME StartupInv, InstallInv, Run
  PROVE  InstallInv'
<1> SUFFICES ASSUME edits' = 0
             PROVE  /\ SettingsKept' /\ InstalledOnly' /\ FilesInPlace'
                    /\ call' # "direct" => OnTheWay' /\ ReadInstalled'
  BY DEF InstallInv
<1>1. UNCHANGED <<entry, edits, dev, conf, inst, item, staged>>
  BY DEF Run, Start, LoadDefault, CheckOptions, CheckBudget, Mark, Begin, LoadInline,
     OpenAt, notWalk, tree, script
<1>2. /\ SettingsKept /\ InstalledOnly /\ FilesInPlace
      /\ call # "direct" => OnTheWay /\ ReadInstalled
  BY <1>1 DEF InstallInv
<1>3. SettingsKept' /\ InstalledOnly' /\ FilesInPlace'
  BY <1>1, <1>2, TreeAlone
<1>5. call \in {"none", "pam", "direct"} /\ (pc = "idle" <=> call = "none")
  BY DEF StartupInv, TypeOK, TrustedWalk
<1>6. CASE Start
  <2>1. /\ pc = "idle" /\ pc' \in {"program", "config"} /\ (call' # "direct" => pc' = "program")
        /\ UNCHANGED <<fd, rest, have, config>>
    BY <1>6 DEF Start
  <2>2. fd = Absent /\ ReadInstalled
    BY <1>2, <1>5, <2>1 DEF StartupInv, TrustedWalk
  <2>3. OnTheWay'
    BY <2>1, <2>2 DEF OnTheWay
  <2>4. call' # "direct" => ReadInstalled'
    BY <2>1, <2>2 DEF ReadInstalled, Objects
  <2> QED
    BY <1>3, <2>3, <2>4
<1>7. CASE ~Start
  <2>1. call' = call /\ pc # "idle"
    BY <1>7 DEF Run, Start, LoadDefault, CheckOptions, CheckBudget, Mark, Begin, LoadInline,
       OpenAt, notWalk, Objects
  <2> QED
    BY <1>2, <1>3, <1>5, <2>1, ProductionStep
<1> QED
  BY <1>6, <1>7

(* The inductive invariant of installing holds throughout. *)
LEMMA InstallInvariant == Spec => []InstallInv
<1>1. StartupInv /\ InstallInv /\ [Next]_vars => InstallInv'
  <2> SUFFICES ASSUME StartupInv, InstallInv, [Next]_vars PROVE InstallInv'
    OBVIOUS
  <2>1. CASE UNCHANGED vars
    <3>1. UNCHANGED <<entry, edits, dev, conf, inst, item, staged,
                      call, pc, fd, rest, have, config>>
      BY <2>1 DEF vars, tree, script, helper
    <3>2. SettingsKept /\ InstalledOnly /\ FilesInPlace =>
            (SettingsKept /\ InstalledOnly /\ FilesInPlace)'
      BY <3>1, TreeAlone
    <3>3. OnTheWay => OnTheWay'
      BY <3>1 DEF OnTheWay, Home, Leaf
    <3>4. ReadInstalled => ReadInstalled'
      BY <3>1 DEF ReadInstalled
    <3> QED
      BY <3>1, <3>2, <3>3, <3>4 DEF InstallInv
  <2> QED
    BY <2>1, OthersKeepInstall, RunKeepsInstall DEF Next, Ended
<1> QED
  BY <1>1, InitInstallInv, StartupInvariant, PTL DEF Spec

\* Whenever the installer runs, is killed or is run again beside a production
\* helper, a helper that gets as far as its operation has the developer's names
\* and timeout, and uses a replay cache if and only if the developer had one
\* (prepare_config).
THEOREM SettingsSurvive == Spec => []InstallKeepsSettings
<1>1. StartupInv /\ InstallInv => InstallKeepsSettings
  <2> SUFFICES ASSUME StartupInv, InstallInv, call = "pam", edits = 0, pc = "ready"
               PROVE  /\ \A f \in {"key_id", "host_id", "hostname", "service", "timeout_ms"} :
                            config[f] = dev[f]
                      /\ (have["replay"] # Absent) <=> (dev.replay_cache_dir # {})
    BY DEF InstallKeepsSettings
  <2>1. /\ Kept(config, dev)
        /\ have["replay"] # Absent <=> config.replay_cache_dir # {}
    BY DEF InstallInv, ReadInstalled
  <2> QED
    BY <2>1 DEF Kept
<1> QED
  BY <1>1, StartupInvariant, InstallInvariant, PTL

\* An installed configuration never stands without what it names: whenever an
\* installation dies or a new one begins, a production helper refuses to start only
\* for a file whose copy a forced installation has not finished, for its timeout or
\* for a blank user name or service (linux-install-dev.sh, run_request).
THEOREM HelperStartsOnceInstalled == Spec => InstalledStarts
<1> DEFINE A == pc # "refused" /\ pc' = "refused" /\ call = "pam" /\ edits = 0 /\ conf # {} =>
                  Excused
<1>1. StartupInv /\ InstallInv /\ [Next]_vars => [A]_vars
  <2> SUFFICES ASSUME StartupInv, InstallInv, Next, pc # "refused", pc' = "refused",
                      call = "pam", edits = 0, conf # {}
               PROVE  Excused
    BY DEF A
  <2>1. SettingsKept /\ InstalledOnly /\ FilesInPlace /\ OnTheWay /\ ReadInstalled
    BY DEF InstallInv
  <2>2. CASE Run
    BY <2>1, <2>2, ProductionStep
  <2>3. CASE Installer \/ Others \/ Tick \/ Ended
    <3>1. pc' = pc
      BY <2>3 DEF Installer, Others, Tick, InstallerStarts, Check, MakeDir, InstallFile, Copied,
         InstallReplay, MoveConfig, InstallerDies, RootPlaces, UserPlaces, notScript, helper,
         Ended, vars
    <3> QED
      BY <3>1
  <2> QED
    BY <2>2, <2>3 DEF Next
<1>2. Spec => [][A]_vars
  BY <1>1, StartupInvariant, InstallInvariant, PTL DEF Spec
<1> QED
  BY <1>2 DEF InstalledStarts, Excused

=============================================================================
