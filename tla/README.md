# A TLA+ model of macos-auth

macos-auth lets a Linux host ask a Mac for Touch ID when `sudo` (or any PAM
service) authenticates a user.  A PAM module runs a helper; the helper signs a
request and sends it over a forwarded Unix socket to an agent on the Mac; the
agent asks the user and signs a response; the helper verifies it and its exit
status becomes the PAM result.  This directory models those parts in TLA+,
checks them with TLC on small instances and proves the properties that matter
most with TLAPS for every instance.

## The system

| Part | Source | State it keeps | Operations |
| --- | --- | --- | --- |
| PAM module | `pam/pam_macos_auth.c` | one child process, a monotonic clock, a timeout | parse options, validate the helper's path, fork and exec, poll, SIGTERM, grace polls, SIGKILL and reap, map the exit status |
| helper, request | `crates/helper/src/main.rs` (`run_request`), `transport.rs` | request, deadline on the monotonic clock, expiry on the wall clock | budget, connect, write a frame, read a frame, verify, check freshness, record the replay marker, exit |
| helper, replay cache | `main.rs` (`record_replay_marker`), `trust.rs` | a directory of marker files shared by all helpers of a host | scan and clean up, create exclusively, write the expiry |
| helper, trusted paths | `trust.rs` (`open`) | none, over a file tree that others change | walk a path one `openat` at a time without following links, checking owner and mode |
| helper, configuration | `main.rs` | a TOML file, key files, options | load, validate, prepare, load keys, override |
| Linux installation | `scripts/linux-install-dev.sh` | installed program, keys, replay cache, configuration | check, install files, make directories, stage and move the configuration |
| protocol | `crates/protocol/src/lib.rs`, `agent/.../main.swift` | none | canonical encoding, signing, binding of a response to its request, freshness |
| agent, server | `agent/.../Transport.swift` | connection pool, per-connection deadline, `RequestLifetime` | accept, submit, read, check, write, close |
| agent, handler | `agent/.../main.swift` (`handleServeRequest`, `RateLimiter`) | events per key | verify, rate-limit, ask, respond |
| agent, authentication | `agent/.../Authentication.swift` | one slot, posted blocks on the main run loop, an `LAContext` per session | wait for the slot, post the session, confirmation alert and its timer, evaluate the policy, late callback, invalidate |
| agent, listening socket | `Transport.swift` (`UnixSocketListener`) | the socket file, its identity | replace a stale socket, bind, listen, close and unlink |
| agent, configuration and keys | `SecureFiles.swift`, `main.swift` | a JSON file, key files, keychain | hosts add/remove, replace the file, create keys |
| release | `packaging/release/*.py` | artifact directory, a draft release | collect, verify, upload |

How they interact: the PAM module starts the helper as a child and sees nothing
but its exit status; helper and agent exchange one frame each way over a
connection that a third party forwards; helpers of one host meet in the replay
cache; the installer writes the files that PAM module and helper trust; inside
the agent the workers of the pool, the main run loop and
LocalAuthentication's callback thread share the slot, the lifetimes and the
result of a session; agents that follow each other meet in the socket path.

What is hard: two clocks (monotonic for deadlines, wall for expiry) on two
machines; time-outs on three levels, each racing the answer of the level below;
a modal alert that blocks the only thread able to take it down; callbacks that
arrive after their request is gone; file-system check-then-act sequences
between processes; processes that are killed between any two steps; transports
that repeat, misdeliver and break.  `PROJECT.json` lists the hazards line by
line with the properties that cover them.

## Modules

| Module | Models | Checked by | Proved in |
| --- | --- | --- | --- |
| `Agent` | accept loop, pool, handler, rate limiter, coordinator, session, main run loop | `MCAgent` | `AgentProofs` |
| `PamShim` | `pam_sm_authenticate`, `run_helper`, `kill_and_reap` | `EndToEnd`, `MCPamShim` | `PamShimProofs` |
| `AuthTransaction` | what one authentication promises, abstractly | through `Helper` | `HelperProofs` |
| `Helper` | `run_request`, the deadline transport, the replay cache, several helpers at once | `MCHelper`, `EndToEnd` | `HelperProofs` |
| `EndToEnd` | the PAM module with the helper as its child, over a transport and against an agent (composes `PamShim` and `Helper`) | itself | `EndToEndProofs` |
| `HelperConfig` | `HelperConfig`, `validate_config_fields`, `prepare_config` (operators) | through `Startup` | `StartupProofs` |
| `Startup` | how a helper comes to run: `validate_helper_path`, `trust::open`, loading of configuration and keys, the options, `linux-install-dev.sh` | `MCStartup` | `StartupProofs` |
| `RustMessages` | `crates/protocol`: validation, canonical bytes, freshness, binding (operators) | through `Exchange` | `ExchangeProofs` |
| `SwiftMessages` | the same messages in `main.swift` (operators) | through `Exchange` | `ExchangeProofs` |
| `Exchange` | what a transaction is about, from the PAM items to the decision | `MCExchange` | `ExchangeProofs` |
| `Listener` | `UnixSocketListener`, several agents over time | `MCListener` | `ListenerProofs` |
| `ConfigFile` | `hosts add/remove`, `replaceConfigFile`, several commands, crashes of commands and of the system | `MCConfigFile` | `ConfigFileProofs` |

### Agent

One process per connection with the positions of `handleServeRequest` in
program order (`pc`), the session's block on the main run loop (`block`), and
LocalAuthentication (`la`).  A step is what happens between two accesses to
state that another thread shares: the pool's semaphore (`slots`), the
coordinator's (`slot`), a lifetime (`cancelled`), the result of a session.
`Check` is the whole of `RequestLifetime.check`, including that a failure is
sticky.  Blocks run on the main thread one at a time, and not while an alert's
modal loop runs, because they are posted for the default mode; the alert's
timer is scheduled in the `.modalPanel` mode, so `AbortAlert` may fire.  Signatures and
JSON are ideal: `Verify` succeeds or fails.  `confirmed`, `touched` and `grants`
are history variables.

### PamShim

The positions of `run_helper`; `child` is the process as the kernel sees it.
`HelperEnds` may happen at any time with any status, so every race between the
helper's exit and the timeout is there; that is the module the theorems are
about.  `host` is chosen at the start: a
program that leaves its children alone, or one that reaps them itself so that
`waitpid` reports ECHILD.

### Helper and AuthTransaction

`AuthTransaction` says what an authentication promises: a request is granted
only after consent, and once there is evidence of tampering the outcome is not
fallback.  `Helper` runs several helpers against one replay cache,
one agent and one transport; `Transaction` is the refinement mapping and
`ImplementsTransaction` the property.  Messages are records; a response is
`answers`' member for its request, or a forgery by another signer where the
transport is faulty.  Linux and Mac clocks start at different instants
(`LinuxBase`, `MacBase`).  An answer with the same content is the same message:
what the model does not distinguish is two signatures over identical content.

### EndToEnd

The helper of `PamShim` is no longer a process that may end in any way: it is
one helper of `Helper` (`H`), sharing the monotonic clock with the shim.  Every
step of the composition is a step of `PamShim` or leaves its state alone
(`ShimWithChildIsShim`), so its theorems hold of it; what is new is what only both
together can say.  A signal, of the shim or of anybody
else, ends the helper at whatever step it is (`Dies`; `Signals` for SIGKILL),
the exit of `run_request` is the status the shim collects (`Ends`), a failure
between `fork` and `fexecve` is 127 (`ExecFails`), and the zombie stays until
somebody reaps it.  The program that authenticates may be killed
(`CallerKilled`): the signal does not reach its child, and then only the helper's
own deadline can end it.

### HelperConfig and Startup

`HelperConfig` has the fields of the Rust structure, an `Option` being a set of at
most one element; texts are blank or not, and numbers keep the `u64` limit
(`MaxMs`).  `Startup` walks the paths of the program, the configuration, the
keys and the replay cache, one `openat` per step, in the order of
`pam_sm_authenticate` and `run_request`; the checks before the first `openat`
(relative path, `..`), the fields that are missing or blank, the timeout that
does not fit, keys given inline and options of a direct request are its other
steps.  Meanwhile the installer runs command by command, may fail or be killed
between any two, and may run again; an administrator may put any inode at any
name; a user changes what he may write, with hard links to root's files too.
`by` records who made each directory entry and `tainted` which objects were
reached through an entry that a user made.  PAM gives the user and perhaps a
service, either of which may be blank.

`InstalledStarts` says that an installed configuration starts the helper.
A forced installation copies over files that are in use, and `install_file`
does not copy aside and rename: while it copies a file, and for good if it dies
there, a helper is refused for that file.  The property excuses this one file
(`At(why') = Partial`, until another installation completes it) and nothing
else of an unfinished installation.

Two abstractions: an inode's owner and mode never change (root neither adopts
nor opens up something that exists, so `install -d` of a directory somebody
else made is left out), and a file is read when it is opened (a file being
copied is a different inode from the complete one).  One observation that is
not a property: the comment at `main.rs:131` says that command line arguments
override configuration values; for keys they do not, an inline key together
with a configured key file is refused (`LoadInline`).

### Messages and Exchange

`RustMessages` and `SwiftMessages` are two independent translations, side by
side: what each implementation accepts, what it signs, what it calls fresh and
bound.  `Exchange` runs both against each other.  The shim's arguments become a
request on the Linux side (with `Option::or` and the defaults of the
configuration), the request is signed over the Rust bytes, verified over the
Swift bytes, shown, answered, signed over the Swift bytes and verified over the
Rust bytes.  The link knows all messages, may bring any on any connection and
may change two neighbouring fields of a body, which is what moving bytes across
a field boundary takes.  A text is a sequence of bytes; a number is below 256
and is written as that digit after the zeros of its width, so the encoding of
`u16`, `u32` and `u64` is exact for the numbers of the model; SHA-256 and Ed25519
are ideal.  Spellings of the algorithm are kept apart, because Rust takes one
and Swift lowers the case.

What the user is shown depends on the configuration.  `require_confirmation` is
off by default: then only LocalAuthentication appears, with the reason of
`localAuthenticationReason`, which names host, user, service, requester and
terminal but neither the remote host nor the host id (`ShowReason`).  Where it
is on, the alert with `confirmationText`, which names them all, comes first
(`ShowAlert`).  `shown` records which of the two were on the screen; texts are
records of what they name.  A decision may come before either: the rate limiter
cancels, and an unavailable policy ends the session, without the reason.
`DecisionIsAboutWhatPamAsked` speaks of what was shown, and demands both texts
only for an approval.  That one prompt is up at a time is a matter of `Agent`.

The agent is `serve`, or the Rust `fake-agent` that the end-to-end scripts use
(`config.agent`): it verifies in Rust, knows one host key instead of an
allowlist, and answers without asking or showing anything.  One thing the model
makes visible: the shim has no source for `sudo_command`, so a request made
through PAM never carries one.

### ConfigFile

`loadAgentConfig`, the edit of the allowlist and `replaceConfigFile` system call by
system call.  A file has contents in memory and perhaps on the drive; a crash of
the system (`SystemCrash`) falls back to what was synced, and to the directory as
it was synced or as it is now.  The drive keeps what it was given, see External
behaviour.  Commands run one after the other or two at once (`together`), and the
user may save the file with an editor at any time.  What the acknowledged
commands say about each host is a history variable (`want`).

Commands that overlap can lose updates.  `replaceConfigFile` refuses to rename
over a config that was replaced after it had opened the original and before it
compared, but it does not see a replacement in two windows: after `hosts` has
loaded the config and before `replaceConfigFile` opens it, and after the
comparison and before the rename.  `overtaken` records the commands to which that
happened.  `EditsAreDurable` holds for all others, however many overlap; an
overtaken command may undo what it has not read.

### Listener

System call by system call, for several processes that are started one at a
time (`agents = 1`, launchd) or two at a time.  A file is named by the process
that bound it; the identity comparison (device and inode) is equality of names.
Processes are named in the order in which they start (`Order`).  The user may
remove the socket file or put something else in its place between any two system
calls (`Replace`, at most `MaxChanges` times).

The agent looks at the path by name, which leaves two windows: after `bind` and
before the `lstat` that takes the identity, and after the `lstat` of
`closeAndUnlink` and before its `unlink`.  `slipped` records the processes under
which the path changed there; such a process may remove a file it did not create,
although agent/README.md:136 says "Shutdown removes only the socket identity
created by this listener".  `ShutdownRemovesOwn` says that there is no third
window, for agents that overlap and changes at any other moment.

### External behaviour

Marked `external` in the map, and taken from documentation rather than from
this repository: `setsockopt` on a Unix socket whose peer has disconnected
fails with EINVAL on macOS; `connect` to a listener whose queue is full is
refused on macOS; `fsync` on macOS gives a file's data to the drive but does not
empty the drive's own cache (`F_FULLFSYNC` would, and the code does not use it), so
`ConfigFile` is about crashes of commands and of the system while the drive keeps
what it was given, and a loss of power that empties the cache is outside it;
`LAContext.invalidate` takes a prompt down and its reply block
is called with an error; inode numbers are not reused (APFS); the exit status of
a child can be collected once.

## Runs

| Run | Instance | Shows |
| --- | --- | --- |
| `agent_prompts` | 2 connections, 2 slots, confirmation on, peers that are gone before or after their connection is configured, the wall clock set once to any value | `PromptExclusive`, `ApprovedByUser`, `AbandonedMeansCancelled`, `PoolConserved`, `AnswerWhileAlive` |
| `agent_rate` | 3 connections, 1 key, window 1, one request allowed, arrivals at 0, 1 and 2, the wall clock set once, confirmation off | `RateBound` |
| `agent_liveness` | 2 connections, with and without `--once`, peers gone before they are accepted, nobody answers unless he wants to | `ConnectionsFinish`, `PromptsEnd`, `StoppedEnds` |
| `end_to_end` | 1 PAM call with its helper; timeouts malformed, ordinary and too large; 1 grace poll; both kinds of host; faulty transport, kills of helper and caller, the wall clock set once | `SuccessMeansApproved`, `FallbackIsJustified`, `NoChildLeft`, `SignalsOwnChild`, `CallReturns`, `OrphansEnd`, `SuccessMeansConsent`, `TamperMeansStale` |
| `pam_tamper` | the shim alone, any helper | violates `TamperFailsClosed` |
| `helper_faulty` | 2 helpers, timeouts zero, ordinary and overflowing, faulty transport and disk, kills, the wall clock set once | `MarkersCoverUsed`, `ImplementsTransaction` |
| `helper_unanswered` | 1 helper, honest transport | violates `UnansweredFallsBack` |
| `startup` | production and direct starts, 4 configurations (good, with and without replay cache, with blank and zero values, with relative and `..` paths), 2 installations with and without `--force`, 1 change by administrator or user | `OnlyRootsFiles`, `InstalledStarts`, `InstallKeepsSettings` |
| `exchange` | 2 transactions from 2 hosts with the same process id, items unset, empty and set, a key used under another's host id, an allowlist with confirmation, a wildcard without and a fake-agent configuration, clocks behind and ahead, one changed message | `ShownWasSigned`, `DecisionIsAboutWhatPamAsked`, `PlainExchangeIsUnderstood` |
| `config_file` | 2 commands, 2 hosts, one or two commands at a time, crashes of the system and saves by the user at any moment | `AlwaysDecodes`, `SecretsStayPrivate`, `EditsAreDurable`, `NoCopyLeft` |
| `listener` | 3 agents, one or two at a time, a queue of one, up to 2 changes of the path by the user | `SuccessorsSpareListeners`, `ShutdownRemovesOwn`, `RecoversAlone` |
| `listener_two_agents` | 2 agents at the same time | violates `LiveNeverUnlinked` |

Bounds.  Two connections are enough for everything that is about one request
getting in the way of another, and the theorems remove that bound for all
properties of `agent_prompts` and `agent_rate`; the same holds of the bounds of
the other runs for every property that is not about liveness.  Times are small integers;
what matters is their order, and the values put an expiry before, at and after
each deadline.  Three connections let requests of the rate limiter lie exactly
one window apart, and one setting of the clock empties or stretches the window
once: `RateBound` says how much that is worth, one more allowance.  In
`end_to_end` a response can be cut short by its request's expiry (`ResponseMs`
as long as the timeout), which is what tells an expired request from a stale
response.  In `startup` one change by administrator or user is enough because
the user's directories already hold hard links to all of root's files
(`UserTree`): swapping a directory is the one thing left to do, while a walk
that started before goes on.  Direct requests, of which no property speaks,
start on a tree at rest and nothing happens beside them.  Two helpers give the replay cache a writer and a cleaner.
Two transactions let the link exchange messages; `MaxChanges` is one because a
change is caught, or not, by the first check that sees it.  The agent approves or
cancels in `exchange`; "failed" and "unavailable" travel like "cancelled".  Two commands
give a configuration edit one that overtakes it.  Three agents give a predecessor
that died, one that overlaps and one that recovers; two changes of the path let
the user take the file away and put another there.  `LastArrival`
keeps every deadline of the agent inside `MaxUptime`; for a helper the last instant
stands for all later ones, so a deadline beyond it is that instant.  A mutant of the code,
listed with each property in `PROJECT.json`, breaks that property under the same
bounds.

Fairness.  Weak fairness of the program's own threads (pool workers, accept
loop, main run loop, callback thread; the helper; the shim; an agent's start-up
and shutdown) and of the clocks: the operating system schedules runnable
threads and time passes.  In `end_to_end` that is the shim and the clock, but
the helper only once its caller is gone: `CallReturns` holds of a helper that
never does anything.  Nothing is assumed of peers, users, the transport,
the disk, the helper as the shim sees it, or of crashes.

## Proofs

`AgentProofs`, for any set of connections, any pool size, deadlines and clock
behaviour:

- `TypeCorrect`: `TypeOK` is inductive.
- `PromptsAreExclusive` and `AbandonedIsCancelled`: neither is inductive.
  `SessionInv` adds who owns the slot (`SlotOwned`), that the main thread runs
  one block at a time (`MainSerial`), how far block, prompt, result and
  decision can be for each position of the worker (`SessionOrder`), that a
  context that can still show a prompt belongs to the owner of the slot
  (`ContextOwned`) and that no alert is up beside a prompt.  The argument: the
  slot is passed on only after the context was invalidated; a worker leaves a
  pending block behind only when its check failed, and a failed check is
  sticky, so the block finds its lifetime cancelled when it runs.
- `ApprovalsComeFromTheUser`: `ApprovalInv` follows `approved` through callback,
  result, decision and response back to the user's touch, and the touch to the
  confirmation.
- `AnswersAreAlive`: an action property; `WriteInv` says that nothing cancels a
  lifetime between the last check and the write, which needs `SessionInv` (the
  session's block is not pending any more).
- `SlotsAreConserved`: each step moves at most one connection into or
  out of the pool and the semaphore the other way (`PoolStep`), so the sum stays.
- `RateIsBounded`: `RateBound` counts grants in real time, the limiter counts in
  wall-clock time and forgets.  `RateInv` says that every grant made since the
  clock was last set and within the window is still remembered (`Remembered`)
  and that the grants before the last setting number at most one allowance per
  earlier setting; a new grant fits because the limiter counted all those that
  share a window with it (`GrantFits`).

`PamShimProofs`, for any timeout and number of grace polls: `ShimInv` says for
each position of `run_helper` whether SIGTERM was sent, whether the status was
collected and what will be returned; with it `TypeCorrect`,
`SuccessIsAnApproval`, `FallbackIsEarned`, `NothingIsLeftBehind` and
`OnlyOwnChildIsSignalled` are inductive together.

`HelperProofs`, for any number of helpers, timeouts, clocks, faults and kills:

- `HelperInv` says what a helper holds at each position (`Held`: from "clock" on
  a response that passed `verify_for_request`; one signed by the agent is one of
  its answers), that the agent answers only what was sent (`Answered`), and whose
  marker is whose (`MarkersOwned`).  `TypeCorrect` is part of it.
- `MarkersStayWhileFresh` adds that, until the wall clock is set, no helper's idea
  of now is ahead of it (`NowBehind`): a cleanup that judges by an old reading
  removes only what is expired by the present one, too.
- `TamperIsJustified` adds that a response lives at most `ResponseMs`.
- `RunRequestIsATransaction`: the refinement of `AuthTransaction`.  The agent's
  approval is the abstract consent, a wrong message that is taken up is evidence,
  and every exit is one abstract outcome; all other steps stutter.

`EndToEndProofs`, for the composition: `ShimWithChildIsShim` is `SystemSpec => Spec`,
step by step, so all results of `PamShimProofs` carry over.  For what is about
both, `ChildInv` repeats `HelperInv` for the one child (facts about an instance
cannot be cited, only its definitions), and `StatusIsChilds` ties the status
that `waitpid` reports to the exit of `run_request`; `SuccessIsConsent` and
`TamperIsAge` follow.

`StartupProofs`, for every tree, set of paths, configurations and number of
installations and changes:

- `ProductionTrustsRoot`: `RootEntries` (an entry that the user made is in a
  directory he may write) and `TrustedWalk` (a production walk holds only
  directories that he may not write) are inductive together, so the next
  component is always one that root made.
- `SettingsSurvive` and `HelperStartsOnceInstalled`: `InstallInv` says, while only
  the installer changes the tree, that staged and installed configurations are
  ones `prepare_config` made of the developer's (`SettingsKept`), that directories of
  root's hold only installed files (`InstalledOnly`), that before the
  installer's position everything is in place, complete or the partial copy that
  a forced installation left (`FilesInPlace`), and what the helper has read so far
  is that (`OnTheWay`, `ReadInstalled`).

`ListenerProofs`, for any number of processes, changes of the path and any backlog:
only an agent that serves or is about to close listens (`ListenersServe`), and
under launchd at most one is active (`OneAtATime`); with them `SuccessorsSafe`.
`ShutdownIsOwn` is for agents that overlap as well and needs `OwnSocket`: the
socket of an agent is at the path only from its bind to its unlink or once it has
died, and the identity of an agent under which the path did not slip is its own.

`ConfigFileProofs`, for any number of commands and hosts: `FilesInv` (what
path and disk stand for was synced, what was synced decodes, and a replacement
is written, then synced, then renamed) gives `ConfigAlwaysDecodes`; `SecretsInv`
(a replacement is still private when the contents are written to it) gives
`InlineKeysStayPrivate`; `EditsInv` (path and drive keep every acknowledged edit,
and a command that was not overtaken holds an edit of what is at the path now,
`UpToDate`, or will find in its comparison that it does not) gives, with `NamesInv`
(a replacement that was not renamed yet is nobody's original),
`AcknowledgedEditsAreDurable` for commands that overlap; `TempsInv` (a replacement is there
only while its command is at it) gives `ReplacementsRemoved`.

`ExchangeProofs`, for texts of any content and length, any hosts, keys,
configurations and agents, and any number of changed messages:

- Each encoder's output is unambiguous whatever follows it (`Codes`), and
  appending one more field keeps it so (`CodesExtend`); field by field this gives
  `RequestBytesAreInjective` and `ResponseBytesAreInjective`.  The Swift encoders
  write the same as the Rust ones (`ImplementationsSignAlike`).
- `ExchangeInv` follows the messages: a request that was sent is signed and asks
  what PAM asked (`SentOf`), one that was seen passed the checks (`SeenOf`), an
  answer is bound to what was seen and signed by the agent (`AnswerOf`).  What the
  link brings carries the signature of a message it knows (`CarriedFrom`), so a
  request that verifies is, by injectivity, the one that was signed
  (`AcceptedWasSigned`), and a response that verifies is an answer of the agent,
  whose request hash makes what it saw the request of this very helper
  (`AcceptedDecision`).  `PromptsInv` says what was shown before the agent could
  decide, and `AboutOf` that a text made of what the agent saw says what PAM asked.
  This gives `NothingUnsignedIsShown`, `DecisionsAnswerPam` and, with the agreement
  of the two encoders, `PlainExchangesWork`.
- How `to_be_bytes` spreads a number over its width is not part of the theorems: a
  number is one digit there, as in the module.  Spellings of the algorithm are
  the three that the modules tell apart.

Assumptions of the proofs are the named ASSUMEs on the constants, evaluated by
TLC in every run: types and positive durations; for `Exchange` also that nonces are
distinct and that items and configurations hold texts (`TextAssumption`); for
`EndToEnd` that the helper's constants are what `Helper` wants (`ChildAssumption`);
for the installer's promises that installed files have the modes
`linux-install-dev.sh` gives them and that root's directories do not hold files
of these names beforehand (`InstallAssumption`; `OnlyRootsFiles` does not use it).

Only model-checked: liveness (`ConnectionsFinish`, `PromptsEnd`, `StoppedEnds`,
`CallReturns`, `OrphansEnd`, `RecoversAlone`), because the prover does not treat
fairness, and the three violations below, which are counterexamples.

## Findings

- `pam_tamper`: the grace loop after SIGTERM reaps the helper and ignores its
  status, so a tamper exit that races the timeout ends in password fallback
  (docs/fallback-policy.md:8).  TLC's trace has status 20, a hard failure by line 30
  of that document; 30, 31 and 32 take the same path.
- `helper_unanswered`: an unanswered prompt can end in a hard failure instead
  of fallback, because the agent closes at the request's expiry and the helper's
  own deadline was computed a little later.  The documents disagree:
  docs/fallback-policy.md:86 lists the case under fallback, while
  docs/frame-transport.md:79-80 ("premature EOF remains a protocol error, not a
  timeout") and docs/fallback-policy.md:96 describe what the code does.
- `listener_two_agents`: with two agents started at once a live listener can be
  unlinked.

## Not modelled

- The agent's key files (`writeNewFile`: one `O_EXCL` creation) and the keychain
  (calls into the Security framework): no protocol of their own.
- JSON, TOML and hexadecimal: a text decodes to what was written or does not
  serve; number syntax, unknown members and invalid UTF-8 are left out, and with
  them the fuzz targets.
- How a frame is split over several `read` and `write` calls: a transfer completes
  or fails by deadline or end of file (`ReadFrame`, `TransferFail`).
- The development commands that keep no state (`gen-key`, `pubkey`, samples), the
  accept loop of the Rust fake agent, the release scripts and the setup scripts
  other than `linux-install-dev.sh`: sequential, no part of an authentication.
- Adoption of existing directories and changes of owner or mode, see `Startup`.

Cryptography is ideal throughout.

## Plan

1. `Agent`, `PamShim`, `Helper` refining `AuthTransaction`, `EndToEnd`,
   `HelperConfig` and `Startup`, `Listener`, `ConfigFile`, `RustMessages`,
   `SwiftMessages`, `Exchange`: done.
2. A theorem for every invariant and action property that a run checks, and for
   the refinement: done.
3. Left: theorems of what the runs cannot reach, first of all that a nonce decides
   at most once over all transactions.
