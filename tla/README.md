# InterMCP in TLA+

InterMCP is a Model Context Protocol server written in Rust (`src/src/`): it
takes JSON-RPC requests over stdio or HTTP/SSE, runs tools behind a chain of
checks (policy, guardrails, taint, human approval), proxies the tools of
upstream MCP servers, and keeps signed logs of what was executed.  Clients for
four languages start it and talk to it over stdio.  This directory holds TLA+
models of it, the configurations that check them with TLC, and theorems proved
with TLAPS.

1. [The system](#the-system): its parts, their state, how they interact
2. [Modules](#modules): what models what
3. [Runs](#runs): what is checked, on which instances
4. [Proofs](#proofs): what is proved, and how
5. [Known disagreements](#known-disagreements) between code and documents
6. [Limits](#limits) of the models
7. [Not modelled](#not-modelled)
8. [Plan](#plan): what comes next

`PROJECT.json` is the index: components, runs, the lines every definition
stands for, mutants, hazards, theorems.

## The system

| Part | Source | State it keeps | Operations | What makes it correct |
|---|---|---|---|---|
| JSON-RPC server | `server.rs` | tool, resource and prompt tables (fixed after start), `cancellations` map, log level, handles of all other parts | `handle_request`, `process_raw_message` (batches), `run_stdio` | no tool runs without admission; each cancellation hits its call; answers are those of the requests, in order; logs agree with answers |
| Approval vault | `vault_lock.rs` | `pending` table: id, sender, deadline | `check_or_wait`, `approve`, `reject`, reaper | fails closed; one decision per entry; nobody waits for ever; the table stays bounded |
| HTTP/SSE transport | `http_server.rs` | connection semaphore, IP limiters, SSE sessions | one task per connection | limits hold; answers reach their session; sessions are removed |
| Circuit breaker | `hub.rs` 50-311 | state, error count, window, instant of opening | `send_request`, `record_success`, `record_error`, `call_tool` | opens on a burst and only then; one probe at a time; a probe decides |
| Upstream supervisor | `hub.rs` 313-547 | process, request channel, `pending_map`, `respawn_attempts` | `run`, `spawn_process`, reader task | a request reaches one process at most; no caller is forgotten; one process at a time |
| Firewall, loader | `hub.rs` 549-868 | pinned contracts, quarantine set and its file | `verify_and_pin`, `quarantine`, `load_hub_tools` | what can be called is what was configured and pinned; quarantine survives a restart |
| Result cache | `cache.rs` | entries, access index, byte count | `get`, `set` | limits hold; index and entries agree; least recently used goes first |
| Receipts | `receipts.rs` | file; next number and last hash in memory | `record_execution`, verification on start | a chain that verifies is complete; numbers are not reused |
| SMAC log | `smac.rs` | file, buffered writer; counter and last hash | `record`, verification on start | a chain that verifies hides no loss; a disk that fails for a while does not break it |
| Guardrails | `guardrails.rs` | call history, last and recent signatures, output history | `check_call`, `record_output`, `reset` | rate and budget hold in every window; repetition is detected |
| Policy engine | `policy.rs`, `config.rs` | sliding windows, violation count | `check_*`, `glob_like_match` | rate holds in every window; patterns match what they mean |
| Taint tracker | `taint.rs` | labels | `check_flow`, `scan_json_arguments` | confidential data does not reach an untrusted sink |
| Recorder, replay | `record.rs` | file of frames | `record`, `replay` | each response is compared with its own call's |
| Reaper | `reaper.rs` | process group per child | `kill_group`, drop | no process outlives its owner |
| Tools | `tools/`, `manifest.rs`, `discovery.rs`, `wasm.rs` | a child process while it runs | `execute` | a success is complete; a failure leaves nothing running |
| Filesystem sandbox | `sandbox.rs`, `tools/fs.rs` | none; the file system | `validate_path`, `open_for_write_no_follow` | what is read or written lies in the root |
| IDE configuration | `auto_config.rs` | the IDE's JSON file, a backup | `configure_*` | nothing but the own entry changes; what is replaced is in the backup |
| Wiring | `main.rs`, `lib.rs` | none | `serve`, ... | flags mean what they say |
| Clients | `index.js`, `python/`, `go/`, `php/` | pending requests, a process | `start`, `request`, `stop` | each answer goes to its request |

How they interact.  A connection task (HTTP), a slot of a batch or the stdio
loop runs `handle_request`; for `tools/call` that is a chain of synchronous
checks, one await at the vault, a look into the cache, and then a *spawned
task* for the tool, which the handler awaits together with a cancellation
token.  The supervisor of the vault is another HTTP request on the same server.
A proxied tool's task awaits `call_tool`, which meets all other calls of that
upstream in the breaker's lock and sends its request over a bounded channel to
the one task that owns the upstream process; that task and a reader task share
the pending map and answer over oneshot channels.  Answers go to the client
only after the logs were written and the cache filled.  State is shared through
`parking_lot` locks held for short sections, never across an await; what
happens between two sections is what the models are about.  Files are shared
with other processes and no lock at all: the quarantine, the logs, an IDE's
configuration, and whatever the file tools touch.

What is hard to test here: two critical sections with other threads between
them (vault capacity), decisions racing timeouts racing the reaper, futures
that are *dropped* at an await by an outer timeout or a select (they run no
further code: no `record_error`, no removal from a map), spawned tasks that are
*not* dropped with them, one process failing between the steps of a protocol,
appends that fail or end with the process half way, files that change between a
check and a use, descendants of a process that outlive it, and instants read
before a lock is held.  `PROJECT.json` lists these hazards at their lines, with
the properties that cover them.

## Modules

A definition `X_Y` next to `X` is `X` with the bug `Y`.  It is used nowhere in
the specification; `PROJECT.json` names, for every property, one such bug that
violates it.

| Module | Models | Notes |
|---|---|---|
| `ApprovalGate` | what the vault promises | abstract: a call is held, decided at most once, admitted only if approved |
| `Vault` | `vault_lock.rs` | implements `ApprovalGate` (`ImplementsGate`) |
| `VaultProofs` | | theorems about `Vault` |
| `ToolCall` | `tools/call` in `server.rs` 614-907, `notifications/cancelled` 450-479 | extends `ApprovalGate`: composed with the vault's promise, not with its mechanism |
| `ToolCallProofs` | | theorems about `ToolCall` and `Redaction` |
| `Dispatch` | `server.rs`: messages, batches, the methods of `handle_request`, `run_stdio`; the recorder | `tools/call` is a request that takes time |
| `Replay` | `record.rs`: the replay | a fold over the trace `Dispatch` leaves |
| `Redaction` | `server.rs` 54-232: `redact_for_log`, `mask_secrets` | |
| `Sessions` | the connections of `http_server.rs` 136-175, 236-928 | semaphore, SSE sessions, address windows, delivery of answers |
| `SessionsProofs` | | theorems about `Sessions` |
| `Limits` | `check_rate_limit` in `policy.rs` 369-405, `guardrails.rs` 46-164 | both rate limits, loop breaker, budget, reset |
| `LimitsProofs` | | theorems about `Limits` and `Glob` |
| `Glob` | `glob_like_match` in `policy.rs` 54-118 | both loops, turn by turn |
| `CircuitBreaker` | `hub.rs` 58-80, 145-311 | breaker and callers; upstream answers, fails or is silent |
| `UpstreamPromise` | what a connection to an upstream promises | abstract: a call is executed at most once, only while it is undecided, and a failure decides those that were executed |
| `Supervisor` | `hub.rs` 428-547 | one upstream; callers may leave at any moment; implements `UpstreamPromise` (`ImplementsPromise`) |
| `SupervisorProofs` | | theorems about `Supervisor` |
| `Firewall` | `hub.rs` 549-868 | processes that share a quarantine file |
| `HubProofs` | | theorems about `Firewall` and `CircuitBreaker` |
| `ToolCache` | `cache.rs` 68-135 | |
| `ReceiptBook` | `receipts.rs` 161-379 | memory, file and crashes |
| `AuditLog` | `smac.rs` | memory, buffered writer, file and crashes |
| `ShellProcess` | `tools/system.rs` 196-312, `reaper.rs` | one command and its processes |
| `FileTools` | `sandbox.rs` 340-720, `tools/fs.rs` | on a tree of files that others change |
| `ConfigFile` | `auto_config.rs` | setups, and an IDE that saves |
| `Clients` | `index.js`, `python/`, `go/`, `php/` | four clients, each with its server |
| `HostProofs` | | theorems about `ShellProcess`, `ConfigFile`, `Clients`, `ToolCache`, `ReceiptBook`, `FileTools`, `AuditLog` and `Dispatch` |
| `Sums` | | lemmas: least numbers, and sums over finite sets |
| `MC*` | | symmetry sets and constant functions for TLC; `MCHost` is explained under Runs |

**Vault.**  `phase[r]` is the program counter of one run of `check_or_wait`:
`idle`, `passed` (between the two locks), `waiting`, `gaveUp` (timed out, own
entry not yet removed), then how it ended.  `pending`, `expiry` and `channel`
are the table, the entries' lives and the oneshot channels, `timer` is the
caller's own timeout, and `told` the history of acknowledged decisions.  The
two clocks are separate because the code starts them at different moments
(`expires_at` at line 133, `timeout` at line 159), and both count down, so
states do not grow with time.  There is no await between the capacity test and
the insertion, so at most one run per worker thread can be between them:
`Workers` bounds `BetweenLocks`.

**ToolCall.**  `handler[r]` and `task[r]` are the two concurrent halves of a
call.  The chain of checks before the vault is one action that refuses or
passes, since none of them awaits; `GateAdmits` and what follows it up to the
spawning of the task is one step for the same reason.  From there on the
handler's select (`AnswerCancelled`, `Collect`), the task (`TaskEnds`,
`TaskSeesToken`, `TaskAborts`) and other calls interleave.  An answer, its log
entries and its cache entry are one action: no await separates them.  What the
logs keep is in `receipts` and `smac`, what the client sees in `reply`.

**Dispatch and Replay.**  `frames` is what came, each with the stage of its
handling and the requests of it that are done; a message is one of a few
shapes, a request one of a few kinds that the code tells apart (does it parse,
has it an id, is its method known, does what it names exist).  On stdio the
next line is read when the answer before is written; HTTP handlers run side by
side.  `run_stdio` returns, and leaves what is behind unread, when a line is
not UTF-8 or stdin cannot be read (`ReadFails`) and when an answer cannot be
written (`WriteFails`).  `trace` is the recorder's file, in the order the
handlers wrote it. `Replay` folds the replay's own loop over such a trace,
against a server that answers as the recorded one did.

**Sessions.**  `stage[c]` is where the task of connection `c` stands; each
section of code between two awaits is one step.  `permits` is the semaphore,
`sessions` and `onRecord` the two tables of `SseState`, `channel[c]` and
`writing[c]` what is on its way to stream `c`, and `received`, `accepted` and
`starts` are history.  A write is two steps, so that it may take for ever;
`WriteFails` and `HangUp` are the client leaving, which the code notices at a
read or a write.  `life[c]` is what is left of the 3600 s, which start when the
TLS handshake is over: a connection may hold its permit in the handshake for
as long as it likes.  Why a request is refused is left out; that it may be, at
any point where the code can refuse it, is `Refuse`, and `Answer` is every
request that is answered without touching a session.

**Limits.**  Each `slot[w]` is the call a thread is at.  A time is kept as its
age; `hits` and `charged` are queues because the code empties them from the
front only, `history` is a count per age because only its length matters.  The
history variables `passed`, `admitted` and `released` have the true ages, what
the code files under may be older by `Skew`.  `reset` is four actions; that
`check_call` is one is argued in the module's header.  `config` is how the
server was set up, one of `Configs`: a limit that is not configured costs no
states.

**CircuitBreaker** and **Supervisor** split the hub at the channel.  The
breaker's module keeps the callers' two timers (`call_tool`'s outer 30 s and
`send_request`'s own, which start together within a tick: either may fire
first, and the outer one *drops* the inner future); it lets the upstream do
anything.  The supervisor's module lets callers leave at any moment, which is
what timers and cancellation amount to there.  Writing a request is two steps
(`Forward`, then `WriteOk` or `WriteFails`), since the write is awaited inside
the select's arm: the reader task may end meanwhile (`reading`), and that is
noticed only back at the select (`Notice`).  Between them stands
`UpstreamPromise`: it knows no channel, table or process, only what its callers
can tell apart, and what it decides about calls are steps of
`CircuitBreaker!Upstream`.

**Firewall.**  `hub[p]` is a process: where its loader stands, which server and
which of its tools come next, what it has pinned, quarantined and registered,
and where `persist_quarantine` is.  A configuration and what upstreams offer
are constants; an upstream may offer another list at each load.  The file is
shared; a process that cannot open or parse it when it starts takes it for
empty.  `sealed`, `overlap`, `unsaved`, `blind` (processes that could not read
what was there) and `forgotten` (what such a process dropped by saving its own)
are history.

**ToolCache.**  An operation takes an instant that may be up to `Skew` old,
because the clock is read before the lock is taken.  The eviction loop is
described by what it evicts: an index entry goes if evicting all older ones is
not enough (`Victims`).

**ReceiptBook** and **AuditLog**.  A line of the receipts' file is a receipt or
garbage; a hash is the number of the signature it comes from; an append is two
writes and a sync, and may stop after any of them, with an error or with the
process.  The SMAC log has `BufWriter` in between, modelled by what its
documentation and the use of it in `smac.rs` say: what could not be written
stays in the buffer and is tried again by the next flush and by the drop.
Pieces of an entry are half its text or its newline, so that a write may end
inside a line.

**ShellProcess.**  The spawned leader and one process it may fork, which may
leave the group; both may hold the pipes.  `shTool` is the tool: reading to the
end of the pipes, waiting for the leader, killing after 30 s, or how it ended.
Dropping the tool's future at any await, the end of the server and the two
orders of killing (leader, then group) are steps.  A read that fails passes for
the end of the output (`ShReadFails`).  On success the guard is disarmed, and
then the text is made, which is up to three times as long as what was read and
is cut at `ShCut`: `shOutput` says whether it was, and a cut inside a character
is a call that `panicked`.

**FileTools.**  The file system is a function from paths to files, directories,
links and second names; a call goes through `validate_path`'s branches, its own
look at the target, and its read, write, listing or search.  Between any two
steps another process may once exchange the file for a link.  All trees around
one root up to a size are initial states.  Of sensitive names there are two
kinds, as in the code: directories that shield all they hold (`FsSecretDirs`),
and names that count for the thing that bears them alone (`FsSecretNames`).

**ConfigFile.**  A content is who saved it last, its form and whether it has
the entry; every call of the file system is a step and may fail, and the
process may die after each.  Copying is two steps, between which the backup is
torn; the comparison is two as well, the reading of the file (`CfReread`, kept
in `original[s]`) and of the backup (`CfVerify`).  `disturbed[s]` is history:
whether anybody wrote after setup `s` had read its file, and after it had read
it for the last time, to compare it.

**Glob** and **Redaction** are algorithms, a step for each turn of a loop or
each pass.  `Glob` is compared with what a pattern means (`Means`, a recursive
function), `Redaction` with what the comments of the code call a credential and
with the absence of whole secrets.  Secrets that have the mark's own sign in
them are excepted: beside a mark, the text left may make up one that was not
there.

**Clients.**  `clSdk` is which of the four; `clCalls[r]` is a request, when it
was made, how it ended and with which response; `clLines` is what the server
has written and nobody has read.  Node looks at the id, the others take the
next line under a lock (or have one thread): each has its own request, line and
timer actions.

## Runs

Eight runs pass, four show a violation.

| Run | Instance | Properties |
|---|---|---|
| `vault` | 3 protected calls + 1 free, table of 1, 2 threads, window 1 | `GrantedOnlyIfApproved`, `BoundedOvershoot`, `DecisionsArrive`, `EntryLeavesForCause`, `EveryCallEnds`, `ImplementsGate` |
| `tool_call` | any 2 of 4 calls: 2 under one id (one protected), 1 under its own whose logs may fail, 1 of an unknown tool | `OnlyAdmittedCallsServed`, `CancellationExact`, `RecordsAgree`, `CancellationTakesEffect` |
| `dispatch` | any 2 of 14 messages on stdio and HTTP, batches of up to 3 (and one more), 2 slots | `AnswersMatchRequests`, `TraceTellsSession`, `AnsweredUnlessStuck` |
| `sessions` | 5 streams of 2 addresses on 3 permits, or 2 streams and 2 posts on 4; 2 sessions, 2 starts a window, a channel of 1 | `SessionsFollowStreams`, `AnswersReachTheirStream`, `StartsBounded` |
| `limits` | 2 threads, windows of 2 ticks, lag of 1; 6 ways to set up a server, 2 to 4 calls each | `RatesHold`, `LoopsBreak`, `BudgetHolds` |
| `breaker` | 5 calls, 2 errors open, 30 s = 1 tick | `ProbesInOrder`, `OpensOnBurst` |
| `supervisor` | 3 calls, channel of 2, 1 pause, 3 failures | `EachCallOnce`, `FailureReachesCallers`, `ImplementsPromise` |
| `host` | ten components, see below | `HubAsConfigured`, `QuarantineLasts`, `SetupPreserves`, `ChainSurvivesFailures`, `NoSilentLoss`, `VerifiedMeansComplete`, `NumbersRunOn`, `CacheAccounts`, `OldestMakesRoom`, `NoneSurvivesFailure`, `SuccessIsWhole`, `FsStaysInside`, `MatchesAsMeant`, `LogHidesCredentials`, `MaskHidesSecrets`, `AnswersAreOwn` |
| `tool_call_early`, `breaker_stuck`, `receipts_restart`, `replay` | | one property each, **violated**: see below |

`host` checks the components that share no state with any other.  Its
specification is their sum, not their product: the variable `part` names one
component, which moves while the others rest, so that its states are those of
each component alone, added up.  Nothing is lost by this, since no property of
one of them mentions a variable of another and no action reads one.

Why the bounds are enough.

- `vault`: the overshoot needs a table that is full and more threads than one
  between the locks; three protected calls on two threads with one place give
  a table of two and a third call that is refused.  Window 1 already lets the
  two clocks of a call end in different ticks, in either order with the reaper.
- `tool_call`: calls meet pairwise, in the cancellations map (one key), the
  cache (one key) and the logs (a set): `MaxCalls` is 2, and which two of the
  four is left open.  Two calls of one tool under one id meet in all three
  places, two under ids of their own in two.
- `dispatch`: frames meet pairwise, in the order of the recording, the log
  level, and in what keeps the second waiting or unread.  A batch of three on
  two slots has one request waiting while two end in either order, and a slot
  refilled; four are one too many for `MaxBatch`.
- `sessions`: four streams of one address are one more than two windows that
  meet let pass with two starts each, and the fifth, of another address, makes
  the table old enough to evict; the two windows do meet (three starts in one
  window occur).  Two sessions and three permits let the limits bite
  separately, and sessions cut off fill the table.  Two posts on a channel of
  one: one answer in the channel, the other waiting for room, or both on their
  way to different streams.
- `limits`: a limit of two, two calls that fill it and one or two more; a
  signature repeated past a threshold of two with another one between, in a
  loop breaker's window of three; two results of two texts on a budget that
  fits one and the first text of the other, exactly.
- `breaker`: five is the least number of calls that can open the breaker with
  two errors, keep an older call in flight, and send two probes.
- `supervisor`: a channel of two with three calls lets one be with the
  process, one in the channel, one before it; three failures cover a failure
  in each state and the supervisor's giving up after two in a row.
- `host`, firewall: two processes and two loads in all (two processes at once,
  one after the other, or one that loads twice) of two upstreams, of which one
  has both hashes configured and one a single hash; offers that drift in what
  is configured, in what is only pinned, badly named and doubly named tools.
  The file may be unreadable at either start.
- `host`, setups: two, against two saves of the IDE, in both forms of file; a
  save can fall into each of the windows of a setup.
- `host`, logs: after two entries every combination of memory, buffer and file
  has occurred; four and five leave room for repeated failures and restarts.
  Five pieces of buffer hold one entry and part of the next.
- `host`, cache: three keys on two places and four bytes force evictions; sizes
  of 1, 2 and 4 make the byte limit and the entry limit bite separately, and 5
  never fits; a lag of one against four instants and a life of two let stale
  instants, expiry and collisions happen.
- `host`, command: two processes are a leader and one that outlives it; four
  writes exceed a cap of three, and what is read fits, or does not, into a text
  that is cut at two.
- `host`, files: paths of up to three names through two places of the tree that
  can be absent, files, directories, second names, and links in, out, to
  nothing and to something sensitive, and `..`; a name of each sensitive kind,
  as the last of a path and before others.
- `host`, algorithms: all patterns and paths of up to four letters or
  components, which has a wildcard that must take back what it took; all logs
  of five and outputs of six signs, in which three credentials or secrets
  overlap and contain one another.
- `host`, clients: three requests over two starts; one that times out, one that
  may get its answer, one that may get the next.

Fairness.  `sessions`, `breaker`, `limits` and `host` check safety alone and
use none.  `Vault!Fairness`: once a call has started the runtime polls its
future, time passes, the reaper's interval fires.  `ToolCall!Fairness`:
handlers and tasks are polled; the gate answers whoever waits there, which is
what `Vault!EveryCallEnds` shows; nothing is assumed of tools, clients or
supervisors.  `Dispatch!Fairness`: every frame that came is handled as long as
a step of it can be taken; a request that never ends has none.  The write of an
answer has no fairness: a client need not read, and the property excuses what
waits for one that never does.  `Supervisor!Fairness`: the supervising task is
polled and its pauses end (`Proceed`), and callers that were answered are polled
(`Wake`); a write returns when the process is dead, and may block for ever on
one that lives.  No upstream need answer.  Tokio polls every woken task, and
none of these steps waits for anything but what its guard says, so weak
fairness is what the runtime gives.

Deadlock is checked in `limits`, where time always passes.  Elsewhere it is off:
finitely many calls come to an end and nothing is left to do; that nobody is
stuck before is what the liveness properties and `DecisionsArrive` and
`EachCallOnce` say.

## Proofs

Every safety property of the passing runs is proved.  So are the type
invariants of the components that `host` checks (`HubTypeCorrect`,
`CfTypeCorrect`, `SmacTypeCorrect`, `ReceiptTypeCorrect`, `CacheTypeCorrect`,
`ShTypeCorrect`, `FsTypeCorrect`, `GlobTypeCorrect`, `RedTypeCorrect`,
`ClTypeCorrect`), which that run therefore leaves out.

`VaultProofs` proves, for every set of calls, every number of threads, every
`MaxPending` and every window:

| Theorem | States |
|---|---|
| `TypeCorrect` | `Spec => []TypeOK` |
| `Invariance` | `Spec => []IInv` |
| `FailsClosed` | `Spec => []GrantedOnlyIfApproved` |
| `DecidedOnce` | `Spec => []OneDecision`; TLC sees it in `ImplementsGate`, where a second decision is no step |
| `DecisionsReachCallers` | `Spec => []DecisionsArrive` |
| `EntriesLeaveForCause` | `Spec => EntryLeavesForCause` |
| `CapacityOvershoot` | `Spec => []BoundedOvershoot` |
| `VaultImplementsGate` | `Spec => ImplementsGate` |

The inductive invariant is `IInv == TypeOK /\ Knowledge /\ Clocks`.
`GrantedOnlyIfApproved` is not inductive: to know that a call that takes
"approve" from its channel was approved, and never rejected, one must know what
`Knowledge` says of each phase, how table membership, channel and acknowledged
decisions go together (an entry in the table has no decision yet; one that was
decided has left; the channel of a waiting caller holds exactly the decision
that was acknowledged).  `Clocks` says that the caller's timeout never fires
before its entry has expired, which is why the caller's own removal takes away
nothing a supervisor could still have decided.  The capacity bound has an
argument of its own, by cardinalities: a call passes the test only with
`|pending| < MaxPending` and fewer than `Workers` between the locks, and an
insertion moves one call from the second set to the first.

`ToolCallProofs` proves, for every set of calls, ids and tools, whichever are
protected, registered or cacheable, and whichever log appends fail:

| Theorem | States |
|---|---|
| `TypeCorrect` | `Spec => []TypeOK` |
| `Invariance` | `Spec => []IInv` |
| `ServedOnlyIfAdmitted` | `Spec => []OnlyAdmittedCallsServed` |
| `TokensLeaveWithCalls` | `Spec => []NoStaleCancellation` |
| `CancellationIsPrecise` | `Spec => []CancellationExact` |
| `AuditAgrees` | `Spec => []RecordsAgree` |
| `CacheIsReleased` | `Spec => []CacheHoldsReleasedResults` |
| `MaskHides` | `RedSpec => []MaskHidesSecrets` (of `Redaction`) |
| `LogHides` | `RedSpec => []LogHidesCredentials` |

Its invariant has three parts.  `Served` adds to the property what the gate
knows of admitted calls, and that a call has a reply exactly when its handler
has answered (`Final`): replies never change, so that receipts and cache
entries, once right, stay right.  `Tokens` needs `NoStaleCancellation` to show
`CancelHitsItsCall`: the holder of a call's key, if it is not the call itself,
is another call under the same id.  `Logs` goes through the answers: one that
is neither a result nor a tool error leaves the logs alone (`QuietAnswer`), the
other two write the entry that says what they are.  The proofs use the
assumptions on the constants (`VaultAssumption`, `ToolCallAssumption`) and
nothing else.  `MaxCalls` is among the constants: the theorems hold whatever it
is.

Those about `Redaction` hold for every text, environment and least length.
`Apart`: the spans to replace stand one behind the other.  `MaskReady`: a
secret in the text is still ahead of the matcher, or meets a span that is
replaced; this is inductive because the match taken is one that ends first, so
that what it skips, it meets.  What has no mark in it lies, in the result, in
one piece (`OneBlock`), a copy of a stretch of text that no span meets; so no
secret is in it.  `LogReady`: the spans merged and those still to merge cover
what the scan found (`Hidden`), merged ones leave gaps, and none begins behind
one that is still to merge.  The result is compared with the text sign by sign:
at the end of each span both have written the same (`MarkedOut`).  That a
credential is in what the scan finds is what its loops do, one after the other
(`CredentialIn`).

`HubProofs` proves, for every finite set of calls, every limit of errors and
every period of the breaker, and for any processes, configurations, offers and
number of loads:

| Theorem | States |
|---|---|
| `ProbesOneByOne` | `CircuitBreaker!Spec => []ProbesInOrder` |
| `OpenedByBurst` | `CircuitBreaker!Spec => OpensOnBurst` |
| `FirewallHolds` | `HubSpec => []HubAsConfigured` |
| `QuarantineIsKept` | `HubSpec => []QuarantineLasts` |

`BreakerIInv` adds to the types which probes there may be (`Probes`: one that
is still in flight while the breaker is open is gone before the breaker lets
the next one through) and what the counter counts (`Errors`: as long as an
error window is open, the failures since the last success that fall into it;
no call in flight is among them, so that the next failure is a new one).  From
`Errors` it follows that the step that opens the breaker finds `ErrorLimit`
failures within one period.  `HubIInv` speaks of each process by itself: what
it took over is pinned as it is (`HubPinned`), under each name once
(`HubNoDoubles`), and what it took plus what is ahead in the list is all it was
offered (`HubAccounted`), from which completeness follows at the end of a load.
Of the shared file, `HubAlone` says that if no two processes ever overlapped,
there is at most one; it knows all that was ever renamed into place and not
forgotten, unless it is `blind`, and what it drops when it saves is `forgotten`
from then on.

`SupervisorProofs` proves, for every set of calls, every capacity of the
channel, any number of pauses and failures:

| Theorem | States |
|---|---|
| `CallsOnce` | `Spec => []EachCallOnce` |
| `PromiseKept` | `Spec => ImplementsPromise` |

Here a request that waits in the channel must be there once and not have been
delivered (`Distinct`, `Requests`); `Processes` ties the states of `run` to the
process that is alive; `NoCallerForgotten` is inductive with them.  `Placed`
says more, and of callers that have left too: the table holds exactly the calls
that were written and are undecided, the channel exactly the undecided ones
that were not.  The refinement rests on it.  Its mapping is the identity on
callers and outcomes, `delivered` counts the executions, and the connection is
given up when `run` has returned; writing a request is `Execute`, failing what
is in the table is `Break`, failing table and channel is `GiveUp`, and starting,
pausing and the end of the reader are stutters.

`SessionsProofs` proves, for any connections, addresses, permits and limits:

| Theorem | States |
|---|---|
| `TableFollows` | `Spec => []SessionsFollowStreams` |
| `AnswersArrive` | `Spec => []AnswersReachTheirStream` |
| `StartsHold` | `Spec => []StartsBounded` |

The permits are counted by the tasks that hold one (`Counted`).  What a stream
has received, what is being written to it and what waits in its channel are one
sequence in which nothing occurs twice and all of which was accepted for that
stream (`Flows`).  `Windows` relates the counter of an address to the starts
that really happened: those of the current window are at most what the counter
let pass, and those of the window before it at most `PerAddress`; the record
of an address that was evicted is old enough not to matter.

`LimitsProofs` proves, for any number of threads, any tools, signatures,
limits, windows and lag:

| Theorem | States |
|---|---|
| `RatesAreKept` | `Spec => []RatesHold` |
| `LoopsAreBroken` | `Spec => []LoopsBreak` |
| `BudgetIsKept` | `Spec => []BudgetHolds` |
| `GlobMeans` | `GlobSpec => []MatchesAsMeant` (of `Glob`) |

What the code files lags behind the truth by at most `Skew`, so that what was
let pass within `w` is among what is filed as younger than `w + Skew`.  For a
queue that is emptied from the front this is not inductive as it stands: the
code drops old entries, and must not drop one that still counts.  `Queues` and
`Budgeted` therefore say it of every tail whose missing front is old enough
(`Tracks`, `Covers`); for the budget, what threads have been charged for and
not yet released counts with it (`Paid`).  `Loops` says of every suffix of the
examined calls that the breaker's own list has as many of each signature.

`GlobMeans` is for any letters and lengths.  What a pattern means is put as a
set of places of value and pattern from which the rest fits (`Fitting`), which
`Means` computes; the loops walk through that set.  While a match is to be had
from the start, it is to be had from where the loop is, or from where the last
`*` takes one more: an earlier wild card need not be tried again, as whatever it
could leave to the later one, the later one can take itself.

`HostProofs` proves of the parts that share no state with others:

| Theorem | States | For every |
|---|---|---|
| `ShTypeCorrect` | `ShSpec => []ShTypeOK` | amount of output and cap |
| `FailureKillsGroup` | `ShSpec => []NoneSurvivesFailure` | |
| `SuccessIsComplete` | `ShSpec => []SuccessIsWhole` | |
| `SetupKeepsContents` | `CfSpec => SetupPreserves` | set of setups, number of saves |
| `AnswersPaired` | `ClSpec => []AnswersAreOwn` | number of requests and starts |
| `CacheAccountsHold` | `CacheSpec => []CacheAccounts` | keys, sizes, limits, lag |
| `OldestGoFirst` | `CacheSpec => OldestMakesRoom` | |
| `Complete` | `ReceiptSpec => []VerifiedMeansComplete` | number of receipts |
| `NumbersUnique` | `ReceiptSpec => []NumbersRunOn` | |
| `StaysInside` | `FsSpec => []FsStaysInside` | tree, request, root, link |
| `ChainSurvives` | `SmacSpec => []ChainSurvivesFailures` | number of entries, size of buffer |
| `NothingLost` | `SmacSpec => []NoSilentLoss` | |
| `AnswersMatch` | `Spec => []AnswersMatchRequests` (of `Dispatch`) | messages, number of frames, size of a batch, slots |
| `TraceTells` | `Spec => []TraceTellsSession` | |

- *Command.*  `Leadership`: a living leader is in its own group, it is dead by
  the time the group is killed and once the server is; this is why killing the
  group alone, or the leader alone on the server's death, is enough for what is
  claimed.  `Drained`: what ended the reading stays true, as nobody opens a
  pipe again and nothing is read later; a leader that has ended cannot fork.
  A text that is not cut is shorter than the cap (`ShCut < ShCap`), so that the
  reading it comes from did not end at the cap.  A panic comes after the guard
  was disarmed: of it only the leader's end is claimed.
- *Setup.*  `CfBackedUp`: a run that was not disturbed after it last read the
  file still has it as it read it, and once it has compared the backup, in the
  backup too.  `CfUpToDate`: what an undisturbed run works on is the file as it
  is.
- *Clients.*  `Ordered`: the pipes rise in the number of their request; the
  rest of a line (0) stands only in front, and only with PHP; a process that is
  gone has nothing sent to it.  `Sent`: what the pipes hold was asked of the
  present process and nobody has had it; Node needs none of that, as it looks
  at the id.  A line that is not its reader's own is that of a request that
  timed out, or that itself got an earlier one.
- *Cache.*  The accounts are inductive with the types; they need that a sum
  over the entries changes by the entry that changes (`Sums`).  Evicting makes
  room because more victims make more room (`MoreRoom`) and all of them make
  all the room there is (`AllRoom`); the step is compared with the least
  instant that is not evicted.
- *Receipts.*  `KeptOrRuined`: a file without garbage has all that was
  acknowledged; garbage never goes away and does not verify.  `AckedBelow` and
  `Counters` bound the numbers, so that none is used again.
- *Files.*  The place a path leads to is the last of a walk, one step a name
  (`RealSteps`), and its beginnings lead to the places before (`RealOfPrefixes`);
  so a path of which no beginning is a link leads to itself or nowhere
  (`LeadsToItself`).  `FsOpened` says that of the validated path, up to the
  last name when that was exchanged before the tool looked; `FsClosed`, that
  everything lies in a directory, makes what is above an exchanged file
  directories still (`AboveAreDirs`).
- *Audit log.*  A line that has ended stays a line whatever is written behind it
  (`EndedStay`).  `SmacFiled`: an entry that `record` returned Ok for is in a
  line that ended, or that line has more than the entry and never parses.
  `SmacOrdered`: entries of one process follow one another, and `prev` of one
  that is not its first names the one before; so a chain that verifies has, with
  an entry, all of its process before it (`OneBefore`).  `SmacContinued`: what
  the memory continues is the file and the buffer together, with no line open.
- *Messages.*  `FramesOK`: what is done of a frame at its stage, and that a
  request that does not await is done before all behind it, since
  `buffer_unordered` polls the requests in order (`InFlightIs`).  `InTurns`: on
  stdio nothing is begun before all lines ahead are done with (`TurnOf`).
  So what is recorded next comes behind all that was (`TraceMore`), and the
  request that sets the level next is behind all that did (`FinishKeeps`).  An
  answer is in order because it is a sorted sequence of what is done, and every
  set of places has exactly one (`Enumerated`).

`Sums` has the inductions the others cite.  They are by a smallest
counterexample: what holds of some finite sets is itself a *set*, of which the
library's well-founded order has a minimum, so that no induction rule with an
operator parameter is needed (for numbers, `UpTo`; a function that steps
through them exists, `Stepping`).

tlapm's translation for Z3 takes every value to have a length, and functions on
`1 .. n` alone to have length `n`; of a function on another domain that would be
inconsistent.  All proofs were therefore also run with that axiom reduced to
what is true, that a function on `1 .. n` has length `n`.

All rest on the assumptions beside the constants (`VaultAssumption`,
`ToolCallAssumption`, `BreakerAssumption`, `HubAssumption`,
`SupervisorAssumption`, `SessionsAssumption`, `LimitsAssumption`,
`ShAssumption`, `CfAssumption`, `ClAssumption`, `CacheAssumption`,
`ReceiptAssumption`, `FsAssumption`, `SmacAssumption`, `DispatchAssumption`,
`GlobAssumption`, `RedAssumption`),
which give types, make a limit positive where zero makes no sense, and sets
finite where something is counted.  The bounds of runs
(`MaxReceipts`, `ClRequests`, ...) are among the constants.

Only model-checked:

- liveness (`EveryCallEnds`, `CancellationTakesEffect`, `FailureReachesCallers`,
  `AnsweredUnlessStuck`), which needs fairness and ENABLED, out of the prover's
  reach;
- `Replay`, whose one property is violated.

## Known disagreements

Four runs check what a document or message says and find it violated:

- `tool_call_early`: a cancellation that arrives while a protected call (the one
  of this instance) waits at the vault, undecided, is lost; once approved the
  tool starts and runs on (CHANGELOG F-06: "fixed task orphanage").
- `breaker_stuck`: a probe that is dropped, by `call_tool`'s own timeout or by
  cancellation, leaves the breaker half-open with no probe in flight.
- `receipts_restart`: a crash during an append leaves a file the next start
  refuses, although CHANGELOG "Fix B" describes a write to a temporary file
  and a rename.
- `replay`: a recording of two different requests replays with a mismatch,
  since each answer is compared with the outbound frame before its request
  (README "regression testing", `main.rs` 444 "100% deterministic").

Others were met while modelling.

Server and transport.  A session whose stream the 3600 s limit cuts off stays
in the table, counts towards the 1024 "active" sessions of CHANGELOG AUDIT-03,
and its posts are told 202 for answers nobody gets (`SessionsFollowStreams`
allows exactly these entries).  "Refuse 4th SSE from same IP within 60s" holds
within a window, and across two up to five are let in (`StartsBounded`).  Two
clients with one JSON-RPC id cancel each other's calls; a cancelled call may be
answered with a tool error instead of -32000.  A call whose output is withheld
leaves no receipt, and may have been charged for its first texts; an answer
from the cache is delivered without being charged.  A budget set on the command
line replaces the rate limit set before it (`main.rs` 303-311); one client's
`shutdown` resets the limits of all.  On stdio one line that is not UTF-8, like
a failed read, ends the server (`server.rs` 1194-1197), although a line that is
too long is skipped and one that does not parse is answered.

Vault.  `approve` answers true, and HTTP `"success":true`, for an entry whose
caller has timed out but not yet removed it (`vault_lock.rs` 196-197,
`http_server.rs` 803): the call is vetoed all the same.  The table exceeds the
"strict" ceiling by up to `Workers - 1` (stated as `BoundedOvershoot`).

Hub.  A process that starts and then fails is restarted for ever, since the
counter is reset by the start, and the branch "exceeded maximum restart
attempts" after a crash is dead; the restarted process is sent no `initialize`.
One expected hash applies to all tools of an upstream, so that only one whose
tools agree in what is hashed can be loaded; with the firewall on, an upstream
without expected hashes ends the whole load.  Two processes that share the
quarantine file overwrite each other's entries.  A quarantine file that cannot
be opened or parsed is taken for an empty one without an error (`hub.rs`
583-589): that process admits what was quarantined, and its next save drops it
from the file (`QuarantineLasts` excepts such processes).  While a write to an
upstream blocks, the end of its output is not noticed (`hub.rs` 501-504), and
those who wait are woken by their own timers only.  `docs/SECURITY_MODEL.md` 31
says drift is detected "at runtime"; nothing lists tools again after a load.

Cache.  Two uses at one instant leave an entry that cannot be evicted.

Policy.  A name may have a `*` of its own, and uses up the pattern's: the
pattern `*b` does not match the name `*ab`, because the loop takes equal bytes
before it looks for a wild card (`ComponentsAsMeant` excepts such names from
the second half only).  `a/a` does not match `**/a`: the loop keeps one place
to go back to and does not try the second `a` against the rest, though line 55
of `policy.rs` and `docs/SECURITY_BOUNDARIES.md` 30 intend nested files to
match (`PathsAsMeant` says for which patterns the match is complete).

Redaction.  The comments' regular expressions allow a line end between the
words of a header, and values of `=` only; the code does not find either.
Secrets are sorted longest first, which the matcher's standard match kind does
not heed: of a secret that begins with a shorter one the tail stays.

Tools.  A command's background processes outlive a success, as the guard is
disarmed; on the death of the server only the leader goes with it.  The child
inherits the server's stdin and may read the client's next messages there.
Output over 256 KB is cut at a byte that may be inside a character, which
panics; as the guard has been disarmed by then, the rest of the group lives on
behind a call that failed (`system.rs` 275-287).  A read that fails is taken for
the end of the output (244, 258), so that a success may lack output and not say
so.  Sensitive names, words and extensions are looked for in the last component
of a path only (`sandbox.rs` 377-412): what lies in a directory `secrets` is
served.  Links within the root are followed though messages say links are
prohibited; a file exchanged for a link behind the tool's last look is
followed; the search looks neither at second names nor again before it reads; a
write that fails leaves an empty or shorter file.

Setup.  A save of the IDE after setup's second reading of the file, while the
backup is compared included, is overwritten and in no backup.  A configuration
whose servers are no object is reported as configured
without getting the entry (`auto_config.rs` 271-293); the backup of a second
setup replaces that of the original.

Clients.  `docs/SECURITY_BOUNDARIES.md` 69-71 says they should converge on one
lifecycle.  Node rejects a request after 30 s and drops its late answer, but
lets requests wait for that timer when the server has ended; Python calls a
`close()` that does not exist and its next request may get the late answer; Go
kills the server, and its next request may get a line still in the pipe; PHP
gives the late answer to the next request and takes part of a line for an empty
result.

## Limits

- Text, formatting, hashing and signatures are left out but where a module is
  about them; a hash is assumed not to collide.
- Time is ticks; what happens within one tick happens in any order.
- `Requests`, `Calls`: one member is one call, ids drawn at random never
  repeat.
- `MaxCalls`, `MaxFrames`, `MaxReceipts`, `SmacEntries`, `HubStarts`,
  `CfSaves`, `ClRequests`, `ClStarts`, `ShWrites`, `MaxTime`, `MaxFailures` and
  a configuration's `calls` bound runs, nothing in the code does.
- Data races do not occur (safe Rust); locks are assumed fair enough to be
  granted.
- Files: nobody else writes the logs, and what was written survives the
  process; a power failure is not modelled.
- `Redaction` takes the matcher to be built; should that fail, `mask_secrets`
  returns the text unmasked (`server.rs` 82-84).
- `FileTools` takes the validation of a path as one step, and exchanges the
  target of a path, not a directory on the way to it.
- `ShellProcess` takes one forked process for all, kills at once, and does not
  reuse process ids.
- `Clients`: Python's `start` is taken to be called when nobody waits, since it
  does not take the lock; that an unhandled error on its stdin may end a Node
  program is left out.

## Not modelled

- The splitting of command lines into commands, quoting and substitutions
  (`policy.rs`, `tools/system.rs`), and the choice of the list a path or command
  is held against: sequential text processing, whose verdict is a refusal in
  `ToolCall`.  The same goes for the labels of the taint tracker and the
  substitution of parameters in manifest tools.
- The WASM inspector: a pure parse of a module's header.
- `main.rs` and `lib.rs`: flags, subcommands and the building of a `Server`.
- The git, gravity and information tools: each formats the output of one
  command or of the operating system.
- TLS, HTTP parsing, CORS, the dashboard; Windows job objects and reparse
  points.

## Plan

In this order:

1. *Done*: all modules above.
2. Theorems.  *Done*: all safety properties of `Vault`, `ToolCall`,
   `CircuitBreaker`, `Supervisor`, `Firewall`, `Sessions`, `Limits`,
   `ToolCache`, `ReceiptBook`, `ShellProcess`, `ConfigFile`, `Clients`,
   `FileTools`, `AuditLog`, `Dispatch`, `Glob` and `Redaction`, and the
   refinements of `ApprovalGate` and of `UpstreamPromise`.
3. Composition: `CircuitBreaker` over `UpstreamPromise` instead of an upstream
   that does anything, as `ToolCall` is over `ApprovalGate`.
