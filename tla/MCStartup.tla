----------------------------- MODULE MCStartup -----------------------------
EXTENDS Startup

\* etcA and etcB are root's directories, home is the user's, pool is root's but
\* everybody may write it, rep is root's and private; ln is a symbolic link.
MCInode == {"slash", "etcA", "etcB", "home", "pool", "rep", "ln",
            "program", "key", "pub", "conf", "hand", "part", "mine"}
MCKind == [i \in MCInode |->
  CASE i \in {"slash", "etcA", "etcB", "home", "pool", "rep"} -> "dir"
    [] i = "ln" -> "link"
    [] OTHER -> "file"]
MCOwner == [i \in MCInode |-> IF i \in {"home", "mine"} THEN "user" ELSE "root"]
MCMode == [i \in MCInode |->
  CASE i \in {"key", "rep", "part", "mine"} -> "private"
    [] i = "pool" -> "loose"
    [] OTHER -> "shared"]
MCReads == [i \in MCInode |->
  CASE i \in {"key", "pub"} -> {"key", "pub"}
    [] i \in {"conf", "hand"} -> {"config"}
    [] i = "mine" -> {"program", "config", "key", "pub"}
    [] i = "program" -> {"program"}
    [] MCKind[i] = "dir" -> {"replay"}
    [] OTHER -> {}]
MCName == {"etc", "home", "program", "config", "key", "pub", "replay"}
MCFresh == [o \in Objects |-> CASE o = "config" -> "conf" [] o = "replay" -> "rep" [] OTHER -> o]
MCInstalled == [o \in Objects |->
  CASE o = "program" -> "/etc/program" [] o = "config" -> "/etc/config"
    [] o = "key" -> "/etc/key" [] o = "pub" -> "/etc/pub" [] o = "replay" -> "/etc/replay"]

MCRelative == {"key"}
MCPath == {MCInstalled[o] : o \in Objects} \cup
          {"key", "/home/key", "/home/pub", "/home/../etc/key"}
MCParts == [p \in MCPath |->
  CASE p = "/etc/program" -> <<"etc", "program">> [] p = "/etc/config" -> <<"etc", "config">>
    [] p = "/etc/key" -> <<"etc", "key">> [] p = "/etc/pub" -> <<"etc", "pub">>
    [] p = "/etc/replay" -> <<"etc", "replay">>
    [] p \in {"key", "/home/key"} -> <<"home", "key">>
    [] p = "/home/pub" -> <<"home", "pub">>
    [] OTHER -> <<"home", "..", "etc", "key">>]

Written(key, pub, name, timeout, replay) ==
  [socket_path |-> {"/home/key"}, host_key_file |-> key, agent_pubkey_file |-> pub,
   key_id |-> name, host_id |-> {"text"}, hostname |-> {"text"}, service |-> {},
   timeout_ms |-> timeout, replay_cache_dir |-> replay]
MCSources ==
  {Written({"/home/key"}, {"/home/pub"}, {}, {}, {}),
   Written({"/home/key"}, {"/home/pub"}, {"text"}, {3}, {"/home/key"}),
   Written({"/etc/key"}, {"/etc/pub"}, {"blank"}, {}, {"/etc/replay"}),
   Written({"key"}, {"/home/../etc/key"}, {}, {0}, {})}

\* The user's directories hold hard links to root's files.
MCUserTree == [d \in {i \in MCInode : MCKind[i] = "dir"} |-> [n \in MCName |->
  CASE d = "slash" /\ n = "home" -> "home"
    [] d \in {"home", "pool"} /\ n \in Objects -> MCFresh[n]
    [] OTHER -> "absent"]]
MCChanges ==
  ({"slash"} \X {"etc"} \X {"absent", "home", "pool", "ln"}) \cup
  {<<"etcA", "key", "mine">>, <<"etcA", "config", "hand">>,
   <<"etcA", "replay", "home">>, <<"pool", "key", "mine">>}
=============================================================================
