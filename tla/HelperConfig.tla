---------------------------- MODULE HelperConfig ----------------------------
(***************************************************************************)
(* The helper's configuration (crates/helper/src/main.rs): the fields of   *)
(* HelperConfig, what validate_config_fields accepts and what              *)
(* prepare_config makes of a source configuration.  An Option is a set of  *)
(* at most one element; a text is "text", or "blank" when trim leaves      *)
(* nothing of it.  allowed_future_skew_ms is Skew of module Helper.        *)
(***************************************************************************)
EXTENDS Naturals, Sequences

CONSTANTS
  Path,            \* paths by name
  Relative,        \* the paths that are not absolute
  Parts,           \* the components of each path below "/"
  MaxMs,           \* largest millisecond count (u64)
  DefaultTimeout   \* timeout_ms where neither option nor file gives one

ASSUME ConfigAssumption ==
  /\ Relative \subseteq Path
  /\ Parts \in [Path -> Seq(STRING)]
  /\ MaxMs \in Nat /\ DefaultTimeout \in 1..MaxMs

Option(S) == {{}} \cup {{x} : x \in S}
Texts == {"text", "blank"}

HelperConfigs ==
  [socket_path : Option(Path), host_key_file : Option(Path),
   agent_pubkey_file : Option(Path), key_id : Option(Texts),
   host_id : Option(Texts), hostname : Option(Texts), service : Option(Texts),
   timeout_ms : Option(0..MaxMs), replay_cache_dir : Option(Path)]

\* Option::or and unwrap_or.
Or(a, b) == IF a # {} THEN a ELSE b
UnwrapOr(a, default) == IF a = {} THEN default ELSE CHOOSE x \in a : TRUE

HasParent(p) == \E i \in DOMAIN Parts[p] : Parts[p][i] = ".."

\* is_absolute, and no ParentDir among the components.
Clean(p) == p \notin Relative /\ ~HasParent(p)

\* operation_budget succeeds: a positive timeout whose expiry fits.
OperationBudget(timeout_ms, now_ms) ==
  timeout_ms > 0 /\ now_ms + timeout_ms <= MaxMs

\* Mutant of ValidateConfigFields: blank texts are let through.
ValidateConfigFieldsBlank(config, now_ms) ==
  /\ \A f \in {"socket_path", "host_key_file", "agent_pubkey_file"} :
        config[f] # {} /\ \A p \in config[f] : Clean(p)
  /\ \A f \in {"host_id", "hostname"} : config[f] # {}
  /\ OperationBudget(UnwrapOr(config.timeout_ms, DefaultTimeout), now_ms)

\* validate_config_fields
ValidateConfigFields(config, now_ms) ==
  /\ \A f \in {"socket_path", "host_key_file", "agent_pubkey_file"} :
        config[f] # {} /\ \A p \in config[f] : Clean(p)
  /\ \A f \in {"host_id", "hostname"} : config[f] # {}
  /\ \A f \in {"host_id", "hostname", "key_id", "service"} :
        "blank" \notin config[f]
  /\ OperationBudget(UnwrapOr(config.timeout_ms, DefaultTimeout), now_ms)

\* Mutant of Prepared: the installed configuration always has a replay cache.
PreparedWithCache(source, args) ==
  [source EXCEPT
     !.socket_path = {args.socket}, !.host_key_file = {args.host_key_file},
     !.agent_pubkey_file = {args.agent_pubkey_file},
     !.host_id = Or(args.host_id, @), !.hostname = Or(args.hostname, @),
     !.replay_cache_dir = args.replay_cache_dir]

\* prepare_config: the table it prints ...
Prepared(source, args) ==
  [source EXCEPT
     !.socket_path = {args.socket}, !.host_key_file = {args.host_key_file},
     !.agent_pubkey_file = {args.agent_pubkey_file},
     !.host_id = Or(args.host_id, @), !.hostname = Or(args.hostname, @),
     !.replay_cache_dir = IF @ = {} THEN {} ELSE args.replay_cache_dir]

\* ... and the conditions under which it prints one.
PrepareAccepts(source, args, now_ms) ==
  /\ \A p \in {args.socket, args.host_key_file, args.agent_pubkey_file} : Clean(p)
  /\ source.replay_cache_dir # {} =>
        args.replay_cache_dir # {} /\ \A p \in args.replay_cache_dir : Clean(p)
  /\ ValidateConfigFields(Prepared(source, args), now_ms)

\* run_request: the socket, the host id and the host name.
HasEndpoints(config) ==
  /\ config.socket_path # {} /\ config.socket_path \cap Relative = {}
  /\ config.host_id # {} /\ config.hostname # {}

\* run_request: none of key_id, host_id, hostname, service and user is blank.
NoneBlank(config, service, user) ==
  "blank" \notin config.key_id \cup config.host_id \cup config.hostname
                 \cup Or(service, config.service) \cup {user}
=============================================================================
