# agw in TLA+

`agw` confines AI agents, decides what they may do, and keeps evidence of both:
an egress proxy and a network sandbox hold a workload, an enforcement point
judges its MCP tool calls, a recorder takes in what agents report of themselves,
and every decision is a record of a hash-chained, signed log that two verifiers
check. This directory models those parts from their Go source, checks them with
TLC on small instances, and proves the safety of each part that keeps state, and of
most of the stateless ones, with TLAPS for instances of any size.

`PROJECT.json` maps every definition to the lines it models and lists runs,
mutants, findings, hazards and theorems. This file explains them.

## 1. Inventory

| component | state | operations | hard parts | what makes it correct |
|---|---|---|---|---|
| evidence sink (`pkg/evidence/sink.go`, `chain.go`) | chain head and sequence, buffer, file, `syncedSeq`, `sinceLastCP`, `recordsAtCP` | `NewEvidenceSink`, `Write`, `Checkpoint`, ticker, `SignedThrough`, `Close` | group commit across two mutexes, failing disk and signer, crash and resume | acknowledged means durable and readable; one chain across restarts; every record is anchored sooner or later |
| verifiers (`verify.go`, `cmd/agw-verify`) | scan position, expected hash, counters, problems | `Verify`, `VerifyWithAnchor`; `Verify` of agw-verify | edited logs, resynchronisation after a break, unsigned subtraction, two implementations | intact means unedited as far as signed or anchored; the implementations agree |
| reading a line (`decodeLine`, `strict.go`, `strictjson`; `classify`) and hashing it | none | `decodeLine`, `classify`, `ts`, the hash and signing inputs | two styles of decoding, spellings, kinds, calendar and offsets | one line has one meaning and one hash |
| export (`export.go`, `internal/aat`) | bundle, audit trail | `Export`, `VerifyBundle`, `Convert`, `Check` | filtered extracts, checkpoints at the ends of a range, clocks that step back | an extract of an honest log verifies, and is pinned where it says so; a trail keeps every record |
| audit commands (`internal/cli/auditcli`) | what `follow` has read | `verify`, `verify-bundle`, `export`, `show`, `follow` | a log that grows, is cut or replaced while it is read | the verdict is the verifier's; following shows what reading shows |
| workload registry (`internal/confine/registry.go`) | workloads by address, revoked flag, tracked connections | `Register`, `Lookup`, `Track` and its release, `Revoke` | closing outside the lock | a revoked workload holds nothing |
| egress proxy (`proxy.go`, `resolve.go`, `guard.go`, `policy.go`) | one decision per request, tunnels | `ServeHTTP`, `authorize`, `handleConnect`, `handleHTTP`, `refuse`, `record` | revocation at any point, DNS answers that change, audit failures, many exits | nothing is reached unrecorded, unresolved or unpermitted; no leak on any path |
| policy commands (`cmd/agw/policy.go`) | none | `lint`, `explain`, `suggest` | drafts from records, other readings of hosts and ports | what they say is what is enforced |
| sandbox (`netns`), sidecar | namespace, veth pair, nft table: kernel objects named alike for every run | `Create`, `Destroy`, `cleanupQuietly`, `Command`, `Apply` | each command may fail, agw may be killed, runs may overlap, order of rules | no workload on a live path without its firewall; nothing left behind; no wedge; only the proxy is reached |
| refusal watcher (`netns/dropwatch_linux.go`) | snapshot of the counters | `WatchRefusals` | baseline race, last interval | every refusal recorded once |
| `agw run` (`cmd/agw/run.go`) | child process, goroutines, deferred calls | set-up, wait, drain, final checkpoint, exit | kill switch before start, drain timeout, `os.Exit` | killed is dead; agw exits; the chain is pinned |
| admin socket (`cmd/agw/proxy.go`) | a path, listeners | `startAdmin`, clean-up | check, remove, listen as three steps | a serving process has a reachable kill switch |
| MCP enforcer (`internal/mcp`), `agw mcp` (`cmd/agw/mcp.go`) | `frozen`, `pendingLists`, inventory; the server process | `Admit`, `decide`, `ObserveResponse`, `ServeStdio`, `ServeHTTP`; `sessionEnded`, reaping, exit | two transports, batches, requests of the server, drain, a client that kills agw | judged and recorded before forwarded; changed tools noted and, pinned, stopped; sessions end signed, without orphans |
| authorization (`pkg/authz`, `pkg/decision`) | policy tables | `Authorize`, OPA | precedence of rules, other organizations | default deny, explicit deny wins |
| recorder and shadow (`internal/recorder`), `agw watch` | exports in progress, statistics, the sink | `handleTraces`, gRPC `Export`, `ingest`, `Evaluate`; start and stop | partial success, two encodings, shutdown with handlers running | what is acknowledged is recorded; the log is closed anchored |
| signing daemon and separated signer (`pkg/ags1/signer`), the key (`checkpointkey.go`) | token bucket per purpose, counters; the key learned | `authorizeSigning`, `handle`, `Sign`, `resolveCheckpointKey` | rate limits, restarts with another key, timeouts, two first starts | nothing beyond the budget; every checkpoint is of the key announced |
| AGS1 signatures (`pkg/ags1`) | none | `Sign`, `Verify` | freshness window, canonical forms | a fresh request, unchanged in what is covered |
| gym, SDKs, site, other commands | none that outlives a call | | | |

Interactions. The proxy, `agw run`, the MCP enforcer and the recorder call
`EvidenceSink.Write` and refuse when it fails. `agw run` owns a sandbox, a proxy,
a watcher and an admin socket; the socket calls `Registry.Revoke` and kills the
process group. The sink's signer is a key in the process or a client of the
signing daemon. Shadow evaluation, explain, lint and suggest use the proxy's
policy. The verifiers read what the sink wrote, on another machine and later.

The hazards (steps in an order no test has, crashes between two steps, stale
reads, failures half-way) are listed in `PROJECT.json` at the lines where they
bite, each with the properties that cover it.

## 2. Modules

| module | models | remarks |
|---|---|---|
| `EvidenceChain` | records, checkpoints, `Link`, `HeadAfter`, `WellFormed` | vocabulary; a hash is the tuple of what it covers |
| `EvidenceLog` | the promise of the sink | abstract specification: a chain that grows, and a number of promised records |
| `EvidenceSink` | the sink with writers, ticker, `Close`, disk, crash | `log` is the stream given to the encoder, `written` and `durable` its prefixes |
| `MCEvidenceSink` | instance of `EvidenceSink`, which has the refinement mapping to `EvidenceLog` | |
| `Registry` | the registry's methods | one mutex, so one step each; `Revoke` is two |
| `ConfineProxy`, `MCConfineProxy` | handlers, tunnels, plain requests, operators who revoke; composes `Registry` | a handler is one request with a program counter named after the stage of its method |
| `Sandbox` | `Create` and `Destroy`, one command a step | the kernel's objects are shared by all runs |
| `AdminSocket` | processes given one `--admin` path | |
| `Host`, `MCHost` | `agw run` and `agw proxy` processes on one host; composes `Sandbox` and `AdminSocket` | the order of set-up and of the deferred calls |
| `AgwRun` | `runRun`, watcher, kill switch, exit | the sink is the number of records and of those signed; the proxy one tunnel |
| `ChainVerifier` | `VerifyWithAnchor`, a line a step, on edited logs | history written, then edited, then verified |
| `AgwVerify` | the second implementation as a recursive function of the lines (`scanned`), and its comparison with the first | |
| `Bundle` | `Export`, `VerifyBundle`, the verdicts and exit codes of the commands; on top of `AgwVerify` | operators over the log in hand |
| `McpEnforcer` | the enforcer on both transports | a message is malformed or a list of requests; an answer is one that enforcer and client read alike (`Answer`), or not (`AnswerOtherwise`) |
| `AgwMcp`, `MCMcpEnforcer` | the process around it, from the end of the session to the exit | |
| `SigningDaemon` | `ags-signd`: purposes, buckets, several callers, restart | time is a clock of seconds |
| `Watch`, `MCWatch` | `agw watch` and its key; composes `SigningDaemon` | the sink reduced to its lock, buffer, log and sync |
| `RawLine` | `decodeLine` and `classify` on the members of an object | |
| `HashInput` | hash and signing inputs, timestamps, in both implementations | |
| `Destinations` | policy, guard, resolver, shadow evaluation, lint, explain, suggest | addresses are numbers of 32 and 128 bits, in groups; an IPv6 address may have a zone, as a ninth |
| `Boundary` | firewall rules of sandbox and sidecar, addresses and environment of a workload | a rule set is a sequence, the first match decides |
| `Telemetry` | spans to events in JSON and protobuf, the receiver's door | |
| `Authz` | loading, matching and precedence of rules, decisions, OPA | |
| `Aat` | the audit-trail export and the draft's checks | |
| `Ags1` | request signatures | |
| `Follow` | `show` and `follow` over a file that changes | |
| `Decisions` | one question and its answers: puts the stateless parts to each other | `ask`, `answer` |
| `EvidenceSinkProofs`, `ConfineProxyProofs`, `HostProofs`, `AgwRunProofs`, `McpProofs`, `WatchProofs`, `VerifierProofs`, `DecisionsProofs` | theorems | section 5 |

How code becomes steps. A section under a mutex that takes no other lock is one
step. What happens between two such sections (a file sync, a dial, a write to a
socket, another process's command) is a step of its own, with a second action
for its failure. Goroutines are program counters. Deferred calls are steps in
the order Go runs them. Guards are the conditions of the code; early returns are
actions that go to the end of the handler through the deferred calls. Code that
keeps no state is an operator, and an action of `Decisions` asks it.

What is abstracted. SHA-256 is injective and signatures are unforgeable. An
event is a value (in `ChainVerifier` a pair, because version 1 hashes cover part
of it only); a checkpoint's count, time and key id are left out of the chain,
anchors are of version 2. In `ConfineProxy` hosts include their port, and policy
and guard are relations; `Destinations` has what they decide. Texts are members
of small sets with the spellings the code tells apart. Size limits of scanners,
streamed MCP answers, and formatting are left out.

What the environment is assumed to do.
- *Disk*: an fsync covers all bytes written before it; a failed one leaves them
  as they were; the directory entry is durable; a crash keeps a prefix of what
  was written and may cut one line (`Tears`: in its body, or just its newline).
- *DNS*: any answers, different ones each time.
- *Kernel*: `ip` and `nft` commands succeed or change nothing; the first rule
  that matches decides. Runs may overlap, processes may outlive their workload,
  starts and stops may interleave.
- *agw run*: `cmd.Process` is read by the kill switch without synchronisation;
  the model lets it be seen as soon as it is set.
- *MCP*: the client does not reuse an id it waits for. The server may send
  requests under ids of its own numbering, which JSON-RPC permits, and may write an
  answer so that client and enforcer find different ids or tools in it: the enforcer
  looks for the bytes of the id (1.0 is not 1) and decodes with `encoding/json`,
  which takes the last of several members in any letter case. Over HTTP an answer
  the enforcer does not read may also be a compressed one.
- *Spans*: the keys of attributes are unique.

Ghost variables. One run covers a system with and without its faults: a variable
`happened` (in `Sandbox`, `AgwRun`, `McpEnforcer`; `raced` in `AdminSocket`,
`overrun` in `Watch`) collects which of them have occurred in a behaviour, nothing
reads it but the properties (and, in `AgwMcp`, whether goroutines of a cut session
still run), and a property that holds only in their absence says so. `Contained`
is stated while no runs have overlapped and no process has survived its workload;
`NoRefusalLost` without an unreadable counter, failed write, drain timeout or late
baseline; `SuspendEnds` without a revocation before `cmd.Process` was set;
`ChangeNoted` on stdio without a batched list, a request of the server or an answer
that is read otherwise (`form`), and its HTTP part without a batched list, such an
answer, a cut session (`cut`) or an aborted handler (`aborted`);
`SessionSigned` without a failed signature or a session that was cut off;
`ClosedAnchored` without a handler that outlived the servers, a disk fault or a
failed last checkpoint. What happens in the
excluded behaviours is in the violation runs and in "Departures" below.

## 3. Runs

Bounds are named constants of the modules (`MaxSeq`, `MaxCrashes`, `MaxRefused`,
`MaxLines`, `MaxEdits`, `MaxSent`, `MaxServer`, `MaxNow`, `MaxRestarts`,
`MaxStrangers`, `MaxSpans`, `MaxFaults`). Deadlock is checked only in `decisions`:
the other models are bounded, and each modelled system may stop.

Passing runs.

| run | instance | shows |
|---|---|---|
| `sink_safety` | 2 writers, 3 records, a checkpoint every 2, 1 crash, all faults | `AckedDurable`, `AckedReadable`, `ChainIntact`, and that the sink implements `EvidenceLog` |
| `sink_liveness` | 2 writers, 3 records, signatures fail at times | `WritesReturn`: every `Write` returns; `TailAnchored`: every record is anchored |
| `proxy_safety` | 2 requests of either method, 2 addresses, 2 workloads, 2 revocations, all faults | `RecordedFirst`, `OnlyPermitted`, `RevokedHoldsNothing`, `NothingLeaks` |
| `proxy_tunnels` | 2 CONNECTs, audit and write failures, fail-open | `RevokeCuts`; `RevokedIsDisconnected`: a revoked workload gets and stays disconnected |
| `host_safety` | 2 runs and a proxy, commands fail, agw is killed, processes survive, runs overlap | `Contained`; `HostStaysUsable`: no run is wedged by what another left, nothing is left at the end; `KillSwitchReachable` |
| `run` | fair; 2 categories with a refusal each, all faults, a revocation at any time | `RefusalsAccounted`: none twice, none lost; `SuspendEnds`: reported killed is dead, agw exits once the workload is gone, and a suspended one goes |
| `verifier_safety` | 4 lines, 2 edits, key and anchor or not | `TamperEvident`, `ImplementationsAgree`, `VerdictSound` (exit codes, and honest logs pass), `HonestBundle` (every extract of an honest log passes), `BundlePinned` (where a checkpoint of a bundle names one of its records, the records up to it are the log's) |
| `mcp` | fair; stdio with 3 messages of 12 kinds and 1 event of the server (a redefinition of the tools, a request, an answer read otherwise), and HTTP with 2 handlers, 2 messages and 2 events; all faults | `JudgedAndRecorded`; `PinHolds`: on stdio a change is noted before the client sees it and pinned calls stop, over HTTP it is noted after; `SessionEnds`: drained, signed before the server is reaped, no orphan, and agw exits |
| `watch` | fair; an export by HTTP and one by gRPC, a checkpoint every record, 1 disk fault, 2 keys, 1 restart of the daemon, 3 other callers, 2 seconds | `DaemonBudget`, `AckedRecorded`, `KeyPinned`, `ClosedAnchored`, `WatchStops` |
| `decisions` | 187,208 states, which are questions and their answers | `LinesAgree`, `GuardHolds`, `ShadowAgrees`, `DraftSound`, `AuthzSound`, `AatExact`, `Ags1Exact`, `EncodingsAgree`, `FollowExact`, `BoundaryHolds` |

The properties of `decisions` each hold an answer against another part of the
program that answers the same question, or against what was the case. A line
with any two changes to its members is read alike by `decodeLine` and `classify`,
and so are its timestamps and the order in which its fields are hashed. The guard
lets an exemption open only what was listed; of refused addresses with a zone it
lets exactly the NAT64 ranges and `::` through. Shadow
evaluation and explain say what the proxy does. A draft passes lint, permits what
was allowed and nothing that was denied. Authorization follows a reference
definition of precedence. A trail is exported exactly if the chain verified and
no clock went back, with every record in it. A request verifies exactly if it is
what was signed, up to spellings HTTP does not tell apart. A span becomes one
event in either encoding. Following a growing log prints what reading it prints.
A packet leaves a sandbox only to the proxy, and is counted under the category
the guard would give.

Why the bounds are enough to meet the hard cases. Three records with a
checkpoint every two put a checkpoint between records, a record after it, and a
group commit of one caller over another's record; one crash with a restart makes
a second life, and each life has its torn line. Two requests give every race of
one handler with another and with a revocation, which has two phases. Two runs
meet, in turn, the leavings of a dead run, and, overlapping, each other; the
proxy is a third process at the socket's path. One refusal in each of two
categories gives refusals in one snapshot, in two, and in the last. Four lines hold two
records with a checkpoint on each side; two edits are a change and its cover-up.
Three MCP messages on stdio are two lists around a redefinition and a call after
them; over HTTP two lists in two handlers and two events of the server are two
answers that cross.
Two exports are two handlers at the sink's lock with the ticker and the main
goroutine; a checkpoint for every record makes each of them ask the signer.
`MCWatch` explores the daemon with other callers over time, and with `agw watch`
within a second, not both at once: `agw watch`'s own deadlines are
nondeterministic and do not read the clock. The inputs of `decisions` are the
boundaries of each comparison in the code (prefix lengths, ports, window ends,
days of months, offsets) and the values next to them.

Violation runs. Each states what a comment or a document says and shows how the
code departs from it; `findings` quotes both.

| run | property | what happens |
|---|---|---|
| `sink_torn_newline` | `AckedReadable` | a crash loses only a newline; the resumed sink glues its first record on |
| `proxy_forwarded_request` | `RevokeCuts` | plain HTTP exchanges are not tracked |

Departures. Other places where the models behave unlike a comment or document
of the repository, or in a way its reader might not expect; they have no run of
their own, and the properties exclude or state them by name.

- Guard: `netip.Prefix.Contains` is false of an address with a zone, and such an
  address is equal to none without. Of the cases of `Check`, those for NAT64
  (`guard.go:188`) and for `::` so let addresses with a zone through, with any list of
  exemptions, although NAT64 is space that "no allowlist entry can permit"
  (`guard.go:19`). `GuardHolds` says that it is those and no others. No exemption
  covers an address with a zone either; and since `ParseAddr` takes any text as a
  zone, a host that is such an address may end like the names of a rule with a
  wildcard (`Permits` compares texts).
- AGS1: `net/http` takes the question mark off the query and `CanonicalQuery` one
  more, and an absent query and an empty one are signed alike: no query and a lone
  `?` verify alike, and so do `?a` and `??a`, although `request.go:89-92` gives the
  replay with `?` appended as what is prevented. `Ags1Exact` says (`SameRequest`)
  that these are all the queries that are taken for each other. Parameters are
  accepted in any order; a body without a type is not canonicalized and is then
  called JSON.
- MCP: an answer is looked at if the bytes of its id, as `encoding/json` finds it,
  are those of a pending list, and is read by `encoding/json`, which takes the last of
  several members in any letter case. An answer to id 1 written as 1.0, or with a
  second member `Id` or `Tools`, and over HTTP one that is compressed, shows the client
  tools that the enforcer does not see (`AnswerOtherwise`): a change is then not
  recorded, and a pin stops nothing. `PinHolds` is stated of servers that do not write
  answers so ("form"); without that proviso TLC finds it violated.
- Sink: a resumed sink counts nothing as unsigned, so an unsigned tail is not
  anchored until new traffic arrives, and `SignedThrough` reports the sequence it
  resumed at (`TailAnchored` fails with `MaxCrashes` = 1). A failed `Sync` of a
  checkpoint is not tried again.
- Proxy: a second `Revoke` returns while the first is still closing connections
  (`RevokeCuts` with two operators); a tunnel refused at the second `Track` is
  counted as denied and not recorded, and like a failed `Hijack` leaves an allow
  record without its end; probes of a revoked workload are recorded without its
  id, because `Lookup` of a revoked workload is an error; `IdleTimeout` is an
  absolute deadline.
- Host: `Destroy` removes the table before the link, so processes that outlive
  the workload are unfiltered in between (`sandbox_linux.go:241`; `Contained`
  excludes survivors). A second run's sweep removes the table of a run that is
  alive; of two processes that start together one may remove the other's socket.
- `agw run`: a revocation before `cmd.Start` is answered `workload_killed=true`
  and the workload then starts (`procgroup_unix.go:23`). Refusals of a workload
  that starts before the watcher has read its baseline are never recorded; records
  other goroutines write after the final checkpoint stay unsigned when agw leaves
  through `os.Exit`. With `--inherit-env` the `--env` flags are not looked at.
- Verifier: a log cut back to an earlier checkpoint, or to nothing, verifies
  under the key alone; only an anchor shows it, as `VerifyWithAnchor` says. "Records
  before the first problem remain trustworthy" does not hold of records before a
  failing checkpoint that were rewritten consistently.
- Bundles: `verify-bundle` prints VERIFIED for a contiguous bundle whose records
  were rewritten consistently, even with a signed checkpoint for its last record,
  because records and checkpoints are checked apart (`BundlePinned` says where
  they are related).
- Timestamps: a time before year 0 in UTC has another text in `agw-verify`
  (`%04d` counts the sign) than in `time.Format`; `TimesAgree` excludes it.
- MCP: on stdio a request of the server under the id of a pending `tools/list`
  takes its entry, and the array that answers a batched list is not looked at: a
  change then goes unnoted. An answer that is read otherwise keeps its entry in
  `pendingLists`, so the id of a later answer may find it. Over HTTP a server or client
  that goes in the middle aborts the handler (`ReverseProxy`) before it looks at the
  answer. Requests that are no POST pass by unjudged (`proxy.go:113`); the model has
  POST only. The answer is passed on over HTTP before it is
  looked at, so one call may still go through, and ids are never deleted from
  `pendingLists`; a batch refused half-way through its records leaves its list's
  id there too. A call decided before the enforcer froze is forwarded after.
- `agw mcp`: goroutines of a session that was cut off go on admitting and
  recording while the server is reaped; a record between the last checkpoint and
  the closing of the file stays unsigned. On a signal the server's input stays
  open, so agw waits out its three seconds.
- `agw watch`: `GracefulStop` waits without a deadline for a stalled gRPC client
  and a second signal is swallowed; an HTTP handler that outlives its five seconds
  may write after the final checkpoint; a kill between the creation of the default
  key and its writing leaves an empty file that every later start refuses; of two
  first starts one fails.
- Recorder: times that a JSON exporter writes as numbers are rounded to a
  float64; `isJSON` minds letter case where `isProtobuf` does not.
- Shadow evaluation says `would_allow` of a port outside 1..65535 under a rule
  without ports, where the proxy refuses the request as malformed.
- `agw policy suggest`: a host with a leading `*.` is drafted as a wildcard and
  one with a trailing dot never matches; without `--workload` one agent is given
  the destinations of all; an observation without a port is drafted as 443;
  `wss://` and database spans are not drafted.
- Authorization: `MaxRiskClass` on a deny rule denies the low risks and not the
  high ones; agent patterns are not validated.
- Audit trail: the log is opened again after it was verified; a clock that
  stepped back makes the export fail with an internal error, and so does an
  `--agent-version` that is no semantic version (`verify.go:64`), which `AatExact` takes
  as given to be one.
- `follow`: a log that was replaced or cut and has grown past what was read by
  the next poll goes unnoticed; a line that `encoding/json` accepts and
  `decodeLine` refuses is printed by `follow` and fails `show`.
- Sidecar: connections that are established survive a change of the rules.

## 4. Fairness

- *Sink*: goroutines keep running (weak fairness); `sync.Mutex` hands the lock to
  a waiter that has starved for a millisecond, so the steps that take `syncMu`
  are strongly fair; the ticker ticks for ever; a signer that is asked again and
  again answers at least sometimes. Nothing makes a client write.
- *Proxy*: handlers and the admin handler keep running, because every call they
  make has a timeout. A tunnel is assumed to end only when one of its connections
  is closed: its `IdleTimeout` is in fact an absolute deadline, and the copy of a
  plain response's body has none.
- *agw run*: its goroutines keep running; the workload owes nothing. A cancelled
  context is taken by `select` sooner or later. The five-second timer is a step of
  the main goroutine, which is fair.
- *MCP*: the goroutines run and the drain timer fires. Server and client owe
  nothing: the session ends even if the server neither answers nor exits, because
  `agw mcp` kills it in the end; `runMCP` is one goroutine and fair.
- *agw watch*: the call to the signer ends, by an answer or its timeout (weak
  fairness of `SignCall`); handlers and the main goroutine take turns at the sink's
  mutex, which is fair to starved waiters (strong fairness). gRPC clients are
  assumed to finish their exports, because `GracefulStop` waits for them; HTTP
  clients owe nothing, and neither does the daemon.

## 5. Proofs

Checked by TLAPS for every value of the constants.

*Sink* (`EvidenceSinkProofs`). `DurabilityInv` is inductive: types, every record
up to `syncedSeq` is on the disk (`SyncedIsDurable`), every acknowledged one is
(`AckedDurable`), and what a caller at the sync stage waits for is in the stream,
with what a flush in progress has handed over bounded by what is written
(`GroupCommit`). `AckedDurable` alone is not inductive: whether an acknowledgement
is sound depends on `syncedSeq`, and that on what the current holder of `syncMu`
has flushed. It gives `TypeCorrect`, `AcknowledgedIsDurable` and, as an action
property, `DurableLinesStay`. `OneChain` rests on `ChainInv`: the stream is a
chain, and while the sink runs its head is the chain's; the step of a restart
uses the lemmas on prefixes and appended lines the module begins with.
`AcknowledgedIsReadable` adds `ReadInv` (no unterminated line, a fragment only at
the very end and only while the sink is down) and assumes that no crash cuts just
a newline: the very crash of `sink_torn_newline`.

`SinkImplementsLog` is the refinement of `EvidenceLog`. The abstract chain is
`RecordsOf(log)`, the record of each sequence number up to the last; what was
promised is the highest sequence a `Write` returned. A `Write` extends the chain
(with or without the checkpoint it also appends), a return promises or stutters, a
checkpoint stutters, a crash loses unpromised records, or, when it cuts just the
newline of a line whose `Encode` failed, extends the chain by that record, which is
why `FailedAsked` is carried along. That a chain has exactly one record for each
number is shown on the least line where it would fail
(`LeastNumber`): induction over the lines without an induction rule.

*Proxy* (`ConfineProxyProofs`). `ProxyInv` says, handler by handler, what holds
at each stage: from `authorize` on the identity owns the source address and the
policy permits the destination; what is dialled was validated; a connection is
open or tracked only between the step that opens and the one that closes it.
`OthersUndisturbed` shows once that a step of one request leaves the others'
facts alone; each action then has one lemma. It gives `RecordGatesEgress`,
`EgressIsPermitted`, `RevokedStaysEmpty` and `HandlersCleanUp`.
`KillSwitchCutsTunnels` adds `TunnelInv` (a tunnel whose workload is revoked is
among the connections some operator is still closing) and assumes CONNECT only
and one operator: the assumptions exclude `proxy_forwarded_request` and the second
`Revoke` of the departures.

*Host* (`HostProofs`). `HostInv`: types; without overlapping runs or survivors one
run is active at a time, the table is loaded from before processes start until
after they end (`ContainInv`); without failed commands every object of the kernel
has a run that will still remove it (`LeftInv`) and `Create` finds only what its own
commands made (`WedgeInv`); a workload runs only while its kill switch serves; with
starts and stops one at a time the socket at the path is the serving process's
(`AdminInv`). `Contained` alone says nothing of the run that is about to start
processes. It gives `ContainedHolds`, `HostStaysUsableHolds`,
`KillSwitchReachableHolds`.

*agw run* (`AgwRunProofs`). `RunInv` orders the watcher's snapshots (`Snapshots`),
says up to which of them a category is in the evidence, also in the middle of a tick
(`Recorded`), ties the stages of the main goroutine to the workload and the watcher
(`Stage`), and says what the last look and the drain have seen (`Drained`). It gives
`RefusalsAccountedHolds`; `SuspendedIsDead`, the safety half of `SuspendEnds`; and
the action property `EvidenceOnlyGrows`.

*MCP* (`McpProofs`). `McpInv`: how far `Admit` is with the message in hand
(`Admitting`), which handler each transport uses, and for the pin what is on its way:
every list that goes out is announced, no two messages share an id, every id that is
waited for is in flight, the enforcer is ahead of the client by at most the message
in the reader's hands, and a client that saw a change gets no call past `decide`. The
parts about ids are the ones `PendingInFlight` needs and no run states. It gives
`JudgedAndRecordedHolds`; `PinHoldsOnStdio` and `SessionEndsClean`, the safety parts
of `PinHolds` and `SessionEnds`. What the pin promises is proved of the behaviours in
which every answer is read alike by client and enforcer, no list goes out in a batch and
the server asks nothing under the id of a list (`Inspected`); without the
first of these TLC finds it violated.

*agw watch* (`WatchProofs`). `WatchInv` composes two invariants. The daemon's: what
was granted since any second and what could be granted now are together within burst
and rate (`WithinRate`; the budget alone is not inductive, since a full bucket may be
spent at once), and every signature, counted or in a handler's hands, has its token
(`TokenForEach`). The program's: who holds the sink's lock (`LockInv`), nothing is
written before the key is known and then the key is the file's (`KeyInv`), what is
counted is flushed and what a `Write` waits for is in the buffer, as cardinalities of
sets of lines (`RecordInv`), and which goroutines can still run at each stage of the
end (`EndInv`). It gives `DaemonBudgetHolds`, `KeyPinnedHolds`, `AckedRecordedHolds`,
`ClosedAnchoredHolds`.

*Verifiers and bundles* (`VerifierProofs`). The invariant (`VerifierInvariant`; TLC
checked its conjuncts before the proof) follows a log from its writing over its edits to
the last line read.
- The history is a chain (`HistoryOK`), and whatever an edit makes of the log, a
  checkpoint in it that verifies under the key is one of the history's, because an edit
  cannot sign (`LogOK`, by `Presentable`).
- While no problem was found, the lines read join up to a chain whose last hash is the one
  expected next (`HeadOK`), and the highest signed position is that of a checkpoint among
  them (`SignedOK`, `SeenOK`).
- An unedited log never makes a problem (`HonestOK`).
- After the same lines `scanned` has gathered what the first verifier has (`AgreeOK`).

`TamperEvident` then needs one fact about chains: two with the same hash at a position
hold the same records up to it (`SameHead`). It is shown on the least pair of positions
where they differ, because a hash determines the record and the hash before it.
`ImplementationsAgreeHolds`, `TamperEvidentHolds` and `VerdictSoundHolds` follow at the
end of the log. The recursive functions (the hashes of a rewritten chain, `scanned`) are
shown to have the values their definitions give, again by a least counterexample, so no
rule of induction is assumed. For bundles, `Export`'s choice of records is a sequence
ordered by rank (`PickedLines`), an extract without gaps is counted (`Counted`), the
checkpoints a bundle carries cover its ends (`BundleCovers`), and a checkpoint that names
one of its records pins those before it (`PinnedRecords`): `HonestBundleHolds` and
`BundlePinnedHolds`.

*Decisions* (`DecisionsProofs`). The state is a question and its answer, and the
inductive invariants (`Asked`, `ReadingAsked`, `ExportAsked`, `BoundaryAsked`) say that the answer in hand
is the code's to the question in hand; what is proved about the code's operators is
stated apart, for every input, and carries the rest.
- *Guard*: `GuardSound` holds for every list of exemptions and every address of 32 or 128
  bits, with any zone or none. Prefixes are compared group by group; what a mask leaves
  open is a power of two (`Powers`), so one prefix lies inside another or they are apart.
  An address with a zone is in no prefix (`Bare`), and what the tests that do not go by
  prefix still refuse of it is all but the NAT64 ranges and `::`. It is why the proof
  needs no list of addresses where the run has one.
- *Shadow evaluation*: `ShadowAgreesHolds`. Explain, `Evaluate` and `authorize` ask the
  same guard and the same policy of a host in lower case; what each leaves out (the
  lookup, a port the span does not tell) is what the two directions of the property allow.
- *Authorization*: `DenyWins` is about the loop of `Authorize` (`evaluate`, a recursive
  function of the rules read so far), for policies of any number of rules. What the loop
  holds after a rule is a summary of the set of rules before it (`LoopIs`, on the least
  rule where it would not be); so the order of the rules does not matter, allow needs a
  match that allows and none that denies, and more rules that deny allow nothing. With the
  tables by tenant and OPA's answers it gives `AuthzSoundHolds`.
- *Lines*: `SameReading` for every line. Both programs accept a member under its exact
  name once and with its kind, the one through the decoder's lenient reading and a check
  of the names, the other through a map of members; the proof goes through the set of
  names (`ExactReads`, `SameEvents`).
- *Timestamps*: the day before and after a date is one day away (`NextDay`, from
  `YearLength` and `MonthLength`), so an offset moves the date and keeps the instant
  (`SameInstant`), and below year 0, where the texts differ, is what the property leaves out.
- *Audit trail*: `AatExactHolds`. `Convert` links each record to the finished one before
  it, so the draft's checks can fail only over a clock that went back (`ExportChecks`).
- *Boundary*: `BoundaryHoldsAlways`. The first rule of a sequence that matches decides
  (`FirstRule`), and the nine rules of the sandbox's table ask what `TableRules` says. The
  categories of reserved addresses are told apart by an address's first group
  (`SpaceBegins`, `SpacesApart`), which is why the firewall's counters and the guard name
  the same reason (`GuardReason`). A sidecar's rules decide by user in the namespace it
  shares (`SharedFilter`), and the two ends of a sandbox's link lie in its subnet
  (`LinkEnds`). The workload's environment is a recursive function, shown to have its
  values by a least counterexample (`KeptDefined`, `MinimalKept`); the proxy's variables
  come last in it and so are the ones in force (`LastNamed`, `EnvHeld`).
- *Spans*: `EncodingsAgreeHolds`. What protobuf leaves out of the attributes has no text
  in JSON either (`SameAttrs`), so every question the mapping asks of them has the same
  answer, and numbers small enough for a float64 have the same numeral in both (`SameText`).

Assumptions of the theorems are the named `ASSUME`s of the modules
(`SinkAssumptions`, `ProxyAssumptions`, `NoOneIsNoWorkload`, `SandboxAssumptions`,
`AdminAssumptions`, `HostAssumptions`, `RunAssumptions`, `McpAssumptions`,
`BodyAssumptions`, `DaemonAssumptions`, `WatchAssumptions`, `VerifierAssumptions`,
`NothingIsNothing`, `WildAsksNothing`), which TLC evaluates in the runs. They say that sets and bounds have
their kinds, that the names for nobody, for what is absent and for the program's own
goroutines are no one else's, that a wildcard is none of the values rules ask for, and
that a message which is no batch holds one request.

Only model-checked:
- all liveness, also inside `PinHolds`, `SessionEnds`, `SuspendEnds` and `WatchStops`:
  fairness and `ENABLED` are out of the prover's reach;
- of `Decisions`: `DraftSound` (a draft is folded from a sequence of observations),
  `Ags1Exact` (headers, selected and joined as sequences of texts) and `FollowExact`
  (bytes of a file, cut into lines poll by poll). Each would take the argument by a least
  counterexample that `DenyWins` and `EnvHeld` use, for functions of several arguments;
  the runs enumerate the texts at the boundaries of each comparison.

## 6. Plan

The parts of the program that carry its state are modelled, and the safety of each is
proved; so are the verifiers, and seven of the ten stateless comparisons. What is left to
prove is `DraftSound`, with the drafted rules as a set, `Ags1Exact`, and `FollowExact`,
with the lines of a file as a recursive function of their ends.

## 7. Not modelled

- The gym (`internal/gym`, `cmd/agw-gym`): a harness that runs the system and
  scores it; it observes the system and is no part of it.
- The SDKs: clients that sign one request at a time with the AGS1 packages, and a
  Python port of them.
- The site and its verifier in JavaScript: a third implementation of what
  `AgwVerify` and `RawLine` model, in another language.
- `ags`, `agw init`, `agw keygen`: read arguments, write files, print.
- Routing (`pkg/routing`): its registry and matcher have no caller in the program.
- Keys, JWK thumbprints, proofs and the bytes of JCS, base64, protobuf, gzip and
  YAML: conversions of bytes without state; the models take what they accept.
- Printing, wording and command-line flags, except where a verdict or an exit
  code depends on them.
