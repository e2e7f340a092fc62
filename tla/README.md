# Formal models of XrayR, xrayr-center and xrayr-agent

TLA+ specifications of the parts of this repository in which order, failure and
concurrency decide whether the program is right, with the TLC configurations that
check them and proofs of their main invariants for the TLA+ proof system.

The repository holds three programs:

* **XrayR** (`main.go`, `cmd/`, `panel/`, `service/`, `common/`, `api/`, `app/`):
  the backend of a proxy node. It polls a panel for the node's settings and users,
  configures xray-core, limits devices and speed, and reports traffic.
* **xrayr-center** (`xrayr-center/`): an HTTP server with a PostgreSQL database.
  Administrators look at the nodes there and send them commands.
* **xrayr-agent** (`xrayr-agent/`): a daemon beside XrayR that keeps a WebSocket to
  the Center, executes the pushed commands and posts their progress and results.

The Center and the agents were written last and have no tests beyond small units; their
command path is the part with most interleavings. In XrayR the order of calls between the
controller, its panel and xray-core, and the unlocked maps that every connection uses, are
what a test hardly reaches.

## Inventory

| Component | State | Operations | What is hard about it |
|---|---|---|---|
| Command queue (`handlers_phase2.go`) | table `command_task` | enqueueCommand, applyConfigDeployFlow, flushPendingCommands, progress and result handlers | every query is a separate statement; the push and the SENT mark are not atomic; status writes are unconditional |
| Agent hub, agent WebSocket (`agent_hub.go`, `handlers_ws_agent.go`) | map node -> connection | register, remove, sendJSON, agentWebSocket | reconnects; the connection is read under a lock and written outside it |
| Permissions (`handlers_phase2.go`, `handlers_rest.go`, `handlers_dashboard.go`) | `manage_status`, `allow_*` | assertCommandAllowed, enableWritable, patchNodeSettings, agentDiscoveryReport | changed between the check and the INSERT; discovery revokes |
| Agent worker (`cmd/agent/main.go`) | push channel, `running` map | readLoop, commandWorker, one goroutine per command | duplicates, a full channel, restarts, posts that time out |
| Command execution (`cmdexec/`) | configuration file, binary, systemd unit, backups | RunStatus, RunRestart, RunApplyConfig, runXrayrInstallUpgrade | several steps on files, each can fail; two executions at once |
| Command reports (`handlers_phase2.go`) | `result_json`, `config_deploy_task`, `config_version` | postAgentCommandProgress, postAgentCommandResult, createConfigVersion | read, merge and write back of a JSON column |
| Registration (`handlers_rest.go`, agent's `config.go`, `capi`) | `node_install_token`, `node_hmac_key`, `agent.yml` | postNodeIssueInstallToken, agentRegister, cfg.Save | READ COMMITTED; a lost answer after the token is used; a file cut off while it is written |
| Signatures and nonces (`server.go`, `hsign/`, `noncecache/`) | nonce map | requireAgentHMAC, Verify, Seen | the clock skew against the time to live; a key replaced while a request waits; a pause between two checks |
| Artifacts, dashboard, login, migrations | tables, files | CRUD | little |
| Panel and reload (`panel/`, `cmd/root.go`) | running services, last reload time | Start, Close, OnConfigChange | debounce; a new client has no ETags |
| Controller (`service/controller/`) | remembered node, users, tag; xray's inbounds, users, counters | nodeInfoMonitor, userInfoMonitor | two periodic tasks; an error halfway leaves memory and core apart |
| Limiter (`common/limiter/`) | per inbound: users, online IPs, buckets, global cache | GetUserBucket, GetOnlineDevice, UpdateInboundLimiter | lock-free maps used by every connection; two calls on one map are never atomic |
| Rule manager (`common/rule/`) | rules, sets of detected results | Detect, GetDetectResult, UpdateRule | a set is taken away while it is added to |
| Dispatcher (`app/mydispatcher/`) | one link per connection | Dispatch, DispatchLink, routedDispatch, sniffer | the destination that is checked, routed and dialled may be three; handlers are replaced meanwhile |
| API clients (`api/*`, seven of them) | ETags, remembered answers, LastReportOnline | GetNodeInfo, GetUserList, GetNodeRule, ReportNodeOnlineUsers | an ETag is remembered before its answer is understood; a list and a report race |
| Inbound and user builders (`service/controller/`) | none | InboundBuilder, build...User | what is refused or panics after the old inbound is gone |
| Certificates, outbound builder | files, xray configuration | | libraries, pure construction |

Components interact as follows. An administrator's request runs in a goroutine of the
Center, inserts a row and writes to the node's connection, which the hub keeps. The
agent reads the connection in one goroutine and passes pushes through a bounded channel
to its worker, which starts a goroutine for each command. That goroutine posts over
HTTP, on other connections, so posts are not ordered with pushes or with each other. The
only state that the requests, the flushes and the report handlers share is the database
row; the only state they share with the sessions is the hub. An agent that starts registers
first if its file has a token and no secret, and signs every request with the secret from
then on. Inside XrayR a client of the panel answers the controller, which builds inbounds
and users for xray-core and tells limiter and rule manager about them; xray-core calls the
dispatcher for every connection, and the dispatcher asks limiter and rule manager. The
controller's periodic tasks, the dispatcher's connections and the configuration watcher share
all of these.

What makes each component correct:

* queue and hub: no PENDING row is forgotten while the agent is connected, none is
  marked SENT without a write, duplicates are bounded, a checked command was allowed,
  a result is final (it is not, see Findings);
* agent: one execution of a command at a time, the map holds what runs, no invented
  SUCCESS, every execution ends;
* execution: after a failure the machine has the old files, after a success the new
  ones, and the verdict says which;
* reports: nothing an agent reported is lost;
* registration: a token makes one secret, and the node has one usable token; signatures: a
  request is handled once;
* controller: the core serves what the panel said, and traffic is reported once;
* clients and builders: a run in which nothing failed leaves the node as the panel describes
  it, with its security, and a user's devices on all nodes within his limit;
* limiter: no more devices than allowed, on the node and in the global cache, and the rate of
  today; rule manager: every detection is reported; dispatcher: nobody gets past limiter and
  rules, the rules see the destination that is dialled, and no link hangs.

## Modules

| Module | Models | Used by |
|---|---|---|
| `CommandCenter` | the queue, the hub, the sessions and the flush of one node, with permissions | `CommandSystem` |
| `AgentWorker` | channel, worker, command goroutines and their posts | `CommandSystem` |
| `CommandContract` | abstract: what Center and agent promise together, and what follows from it (`ContractKept`) | `CommandSystem` |
| `CommandSystem` | Center, network and agent composed | |
| `NodeFiles` | APPLY_CONFIG, INSTALL_XRAYR and UPGRADE_XRAYR on the node's files and service | |
| `Controller` | a node's controller: nodeInfoMonitor and userInfoMonitor, with xray-core, limiter and panel as they see them | |
| `Connections` | the connections and users of one inbound | `Limiter`, `RuleManager` |
| `Limiter` | the limiter of one tag, with the global cache | `Dispatcher` |
| `RuleManager` | the audit rules of one tag | `Dispatcher` |
| `Dispatcher` | dispatcher and sniffers, composed with the two, the controller and the outbounds | |
| `PanelApi` | what the clients of all panels share: requests, ETags, what the controller does with an answer | the clients |
| `SSPanel`, `NewV2board`, `GoV2Panel`, `PMPanel`, `ProxyPanel`, `V2RaySocks`, `BunPanel` | one client each | `PanelNode` |
| `InboundBuilder` | pure functions: the inbound and the accounts that a node gets | `PanelNode` |
| `PanelNode` | a node with any of the panels, reloads and restarts | |
| `Registration` | tokens, the transactions that issue and use them, the agents that register | `AgentAccess` |
| `AgentAccess` | signed requests and the nonce cache, beside the registration | |
| `MCCommandCenter`, `MCCommandSystem`, `MCNodeFiles`, `MCController`, `MCDispatcher`, `MCPanelNode`, `MCAgentAccess` | symmetry and small instances for TLC | |
| `CommandSystemProofs`, `AgentWorkerProofs`, `NodeFilesProofs`, `ControllerProofs`, `LimiterProofs`, `DispatcherProofs`, `PanelNodeProofs`, `AgentAccessProofs` | theorems and proofs | |

**One node.** Every query filters by `node_id`, and the hub is a map keyed by node, so
nodes do not interact; the models have one.

**CommandCenter.** A request of the Center is a goroutine with a step (`req[c].at`): `BeginRequest`
(permission check), `hasConcurrentDangerous` (the count), `InsertCommand`, `LookupConn` and
`WriteConn` (the two halves of `sendJSON`: the lock is released in between) and `MarkSent`.
`applyConfigDeployFlow` starts at `insert`, because it makes neither check. A flush (`flush[k]`) is
a goroutine of the session `k`: `FlushQuery`, `FlushNext`, `FlushWrite`, `FlushMark`, `FlushEnd`. A
session is `UpgradeConn`, `RegisterConn` (hub, and the replaced connection is closed), `EndSession`.
A link is `up`, `broken` (a write may fail, or succeed and be lost) or `closed` by the Center
(writes are refused). `RequestSqlError` and `FlushSqlError` are the failing database and the
cancelled context, where the statement changed nothing. An INSERT or a COMMIT may also take effect
and yet return an error; then `InsertCommand` leaves a row and a request that is `failed`, which
never calls `sendJSON` (an UPDATE that does so is `MarkSent`, because its error is ignored).
`CenterCrash` keeps the database and loses everything else; a statement that was sent before is over
when the restarted Center flushes, and a row is taken as visible when it is written. The progress
and result handlers overwrite the status, as their UPDATEs do. `pushes` and `granted` are history
variables. In `CommandCenter` alone the agent is arbitrary: it connects when it likes and reports on
anything that was pushed.

**AgentWorker.** `Receive` appends to the channel or drops (`readLoop`'s select);
`IgnorePush` and `TakePush` are the worker loop and its `running` map; a slot is a
goroutine of a command. `Answered` is the return of an HTTP call: the answer came, or 30 s
passed while the request may still arrive. `AgentExit` loses the process and not its
posts. Alone, the Center is arbitrary and pushes anything again and again.

**CommandSystem** extends the first and instantiates the second, adds the bytes under way
(`wire`), the connection the agent reads and whether it has booted: after a restart it
posts its discovery, which takes MANAGED_WRITABLE away, before it dials. `Contract` is the
refinement mapping to `CommandContract`: `queued` is the row's type, `verdict` its status
when that is a result.

**NodeFiles** takes over where `AgentWorker` has only "performs the command". The node is three
files (`file`: binary, systemd unit, configuration, each missing, `damaged`, `old`, brought by a
command, or, for the unit, `rendered`) and the service (`run`: the files it was started with, or
`NoFiles`). Each command is a goroutine (`job[c]`) with a step `at`, the copies it has `saved`, and
while it rolls back the files and the restart it has still to `undo`. The steps are the calls of
`RunApplyConfig` and `runXrayrInstallUpgrade` in their order: `Begin` (an INSTALL is refused on a
node with a binary, an UPGRADE on one without), `Backup`, `Fetch`, `BackupConf`, `PutBinary`,
`PutConf`, `PutUnit`, `Reload`, `RestartService`, `Verify`, then `UndoStep`s. A write that fails
leaves the file as it was, incomplete, or complete all the same, and one by `sudo install` may leave
none, since that removes its target before it copies (`Mangled`); only APPLY_CONFIG renames a
complete file over the old one. A restart that fails leaves the old service, none, or the new one
(`RestartFails`). `Faults` names the steps that may fail: every call whose error the code looks at,
and three cases it does not: "read" is a file that exists and cannot be read, which the code takes
for a missing one; "backupConf" is the copy of the configuration whose error is ignored; "restart"
in APPLY_CONFIG. "undo" is for the writes, the removals and the restart of a rollback, whose errors
are ignored or only reported (`exec.go:175`, `xrayr_install_upgrade.go:219`, `:473`): the rollback
goes on with its next step. `harm` is a history variable, the step at which a command failed and
what its own failed writes and rollback have left behind. "exit" ends the agent between two steps;
nothing is persisted about a command, so nothing is rolled back when the agent starts again. `works`
says whether a service starts with what the command brings, so `Verify` decides between `SUCCESS`
and rollback by the content of the files and not by a guess; with a damaged file, or without the
unit that systemd may still have loaded, the service may start or not. Abstracted: the download and
its hash are one step (they happen in a temporary directory); refusals of a payload, of a missing
`systemctl` and of a role without root come before any change and are left to the faults of `fetch`;
names of backups do not collide; `daemon-reload` and `enable` have no effect of their own; a service
that is active does not crash by itself.

**Controller.** `mem` is what the controller remembers (`nodeInfo`, which determines `Tag`, and
`userList`), `core` the inbounds of xray-core with the users of each, `limiter` the inbounds of
the limiter with the record of each user, `etag` what the panel's client was answered last. A
user is an id with a record (`UidOf`): the same id with another speed or device limit is another
element, as in `compareUserList`, which compares whole records. Each call of the two monitors is a
step, named after the call (`GetNodeInfo`, `removeOldTag`, `addNewTag`, `resetTraffic`, ...) or,
where the code calls one function at two places, after what it is for: `FillInbound` and
`JoinUsers` call `addNewUser`, `DropUsers` calls `removeUsers`, `UserTick`, `LimitUsers` and
`LimitJoined` call `UpdateInboundLimiter`. `mon` and `usr` hold the step and the local variables of
the two. They are timers and share everything else, so all their steps interleave.
`Faults` names the calls that may fail: those to the panel ("node", "users", "report", and
"answer": the panel has received the report and its answer is lost), and those to the core
("inbound", "outbound", "user"). `damage` is a history variable, the worst that a failed call has
left behind: `Stale`, a node that `GetNodeInfo` returned was forgotten; `Down`, no inbound;
`Partial`, an inbound without some of its users. Every property that excludes a case does so by a
level of `damage`, and none of them is ever repaired by a later run.
External and modelled from their use: an inbound or a user that is not there, or is there already,
is an error of xray-core; a connection that goes on counts for the tag and user it was accepted
with; a periodic task that returns an error is not scheduled again, which only a node with port 0
causes (`dead`); the panel's client is one with ETags (`sspanel`, `newV2board`), whose ETag moves
with every complete answer. Abstracted: one byte counter for each user instead of one for
each direction; the bytes of a period against `AutoLimit`; when a limit ends, which is left open.
Removing the outbound never fails, so it is part of `removeOldTag`; `DeleteInboundLimiter` cannot
fail. The rules are in `PanelNode`, and what `userInfoMonitor` takes from the limiter and the rule
manager is in `Dispatcher`: neither changes anything that this module has.

**Limiter.** One tag. `InboundInfo` is an object with a number; `AddInboundLimiter` makes the next
one, and connections may still hold an old one. Its three maps are `users`, `hub` and `online`, and
all of them are `sync.Map`s without a lock, so every operation on one is a step: `GetUserBucket`
reads the object and the user's settings once, then `JoinOnline`, `AddIp`, `CountIps`,
`globalLimit`, `SpeedLimit`, and `pushIP` as a goroutine of its own that nobody waits for.
`GetOnlineDevice` goes through the users twice (`ClearBucket`, `ResetOnline`), and
`UpdateInboundLimiter` writes settings and bucket in two steps. A bucket and a map of IPs have the
name of the connection that made them. The global cache (`shared`) is external: a map that may fail
or be late, to which other nodes write too. `stale` is a history variable: buckets whose rate came
from settings that had been replaced. Abstracted: a range over a `sync.Map` visits each user once;
tokens of a bucket are not counted, only its rate.

**RuleManager.** `rules` is the list of the tag, a rule a set of destinations (its expression).
The results are sets with an identity (`found[s]`), because `Detect` loads a set, adds to it, and
stores it again, while `GetDetectResult` takes it away and reads it: an old set may come back, and
a new one may be overwritten (`overwritten`, history). `detections` is what has been reported.

**Dispatcher.** Every connection is a link with a step: `Dispatch` or `DispatchLink`, `getLink`
(the limiter's answer), `routedDispatch` (sniffer, override, hosts, audit rules), `CloseRejected` and
`PickHandler`. A link has the destination that is `checked` by the rules, the `target` that the
outbound dials and the destination for the routes (`routed`). What a sniffer recognises is an input
(`content`); FakeDNS and the hosts are functions. `ControllerStep` is everything that the controller
does to limiter, rules and outbound handlers meanwhile.

**PanelApi, clients, PanelNode.** A client is a record of what the Go struct keeps; `etag[r]` says
whether it holds the panel's present ETag of r. The panel changes whenever it likes and then has a
new ETag. `Answers` are a good answer, 304, none, or a header with a body that is of no use. Each
client's module has the four calls that keep state, with the parsing of every node type: a node is
the fields that decide what the builders do (port, transport, security, VLESS, cipher, settings that
are kept; for V2board also the keys under which the answer has the settings, because EnableVless
reads them from another one). An older SSPanel may describe a node in part (`short`), and its
parsers, which index what they split without a check, then panic (`ParsePanics`). A rule may be no
regular expression (`Malformed`), which `regexp.MustCompile` turns into a panic in every client that
reads rules (`MustCompilePanics`). `mon` is the run of nodeInfoMonitor with its answers, `ctl` the
controller's memory and the inbound that it serves, `lost` and `list` history variables. The start
of a controller is the same run with `starting`, in which every error is fatal (`crashed`).
`InboundBuilder` is the code of `inboundbuilder.go` and `userbuilder.go` up to what xray-core
refuses (a transport or a cipher it does not know, REALITY over WebSocket, httpupgrade, splithttp,
kcp or quic): which protocol, transport, security and settings come out, when it returns an error
and when it panics. A transport has one of its names (not `websocket` beside `ws`); the keys of
REALITY and of the ciphers of Shadowsocks 2022 are taken as usable. `Controller` has the finer steps
of the controller with one abstract client; `PanelNode` has coarser ones with every real client.
`MaxUint32` stands for 2^32 - 1, which TLC's integers do not hold: it is a number larger than any
port.

**Registration, AgentAccess.** A row of `node_install_token` has its lock. A transaction of
`postNodeIssueInstallToken` has three steps, because under READ COMMITTED an UPDATE sees the rows
of the moment it begins, waits for locked ones and looks at the condition again; that of
`agentRegister` has two. Either may be rolled back. The agent starts, registers, saves and may end
at any of these, and a file that is being written may be cut off. `AgentAccess` adds the clock, the
requests that an agent signs (they stay in `sent`, so each may arrive late, twice or never) and
`requireAgentHMAC` in its three steps, `ReadKey`, `Verify` and `Seen`. The signature itself is a
library function: a request is accepted if its secret is the one that was read.

Definitions under a comment that begins with "Faulty:" are not part of the
specifications. Each is a variant of the definition that follows it with a plausible
mistake in it; substituting it makes TLC report the property it belongs to, which shows
that the property depends on that line of the code.

## Runs

| Run | Instance | Checks |
|---|---|---|
| `delivery` | 2 commands, 2 connections, breaks, crashes, SQL errors before and after the statement took effect; or 1 connection, checked commands and settings that change | `PendingIsCovered`, `SentWasPushed`, `CheckedTypesWereGranted`, types |
| `agent` | 2 commands, 2 goroutines, channel of 1, 2 starts per command, timeouts, losses, restarts | one execution, exact map, no invented SUCCESS, `ExecutionEnds` |
| `system` | 1 command, 2 connections, settings, restarts of agent and Center | `ImplementsContract`, `RunsWithinPushes` |
| `system_liveness` | 2 commands, 2 connections, 2 goroutines, channel of 2, breaks | `EventuallySent`, `QueuedIsAnswered` |
| `node_files` | 2 commands one after another, all kinds, all faults, those of a rollback too, agent's death, any initial node | `FailedIsUndone`, `FailedRunsAgain`, `SuccessIsInPlace`, types |
| `controller` | 3 nodes, two of the same tag, 2 users, one with two records, 4 lists, all faults of panel and core | `CoreFollowsMemory`, `PanelIsFollowed`, `OneInbound`, `NobodyElseIsServed`, types |
| `traffic` | 3 nodes, one without a port, 1 user with two records, 2 bytes each, both monitors, reports that fail | `TrafficIsConserved`, `SlowIsReleased` |
| `dispatcher` | 2 connections of 3 kinds, 1 user with 4 devices and 2 settings, 1 updater, 2 inbounds, 1 change; global cache that fails and other nodes | `DevicesWithinLimit`, `GlobalWithinOneMore`, `BucketFollowsPanel`, `DetectionKept`, `AuditSeesTarget`, `NoDispatchHangs`, types |
| `panel` | all 7 clients, every node type, 5 configurations, two nodes, lists, rules or device counts that change; answers that fail, nodes described in part, rules that do not compile, restarts | `PanelIsFollowed`, `LimitIsShared`, `NodeIsServedAsDescribed`, `EndsOnlyForThese`, types |
| `agent_api` | 4 scenes: 2 administrators and a host, 2 hosts and an administrator, 2 requests, a request beside a new registration | `TokenIsOneTime`, `OneUsableToken`, `HandledOnce`, types |
| `two_restarts`, `system_waiting` | smallest that show it, with RESTART_XRAYR | the two findings |

**Why the bounds are enough.** Two commands are the fewest that race in `hasConcurrentDangerous` or
share a flush, two connections the fewest in which one replaces another while its flush is under
way, a channel of capacity one is full with one push, and two starts of a command are the fewest
that repeat. Actors beyond these do not interact in new ways: requests meet only pairwise (a count
against an insert), and a request meets one current connection. In `delivery` second connections,
broken links, failed flushes and failed requests that left a row do not come together with settings
that change (`SettingsOrFaults`): the settings decide only whether a request begins, which is all
the same to the delivery. In `system` one command is enough, because its properties are about the
row, the writes and the executions of one command, and another one only takes places in the channel
from it, which is what a push that is lost looks like. It is not enough for `QueuedIsAnswered`:
there a second command fills the channel. `readLoop` drops a push that finds the channel full
(`wsclient/client.go:98`), its row is SENT or will be, and nobody pushes it again; the property
assumes that this does not happen (`HasRoom`) and no connection breaks (`Unbroken`), and the run,
with two commands and a channel of two, has behaviours on both sides of the premise. The bounds of
that run are in `MCCommandSystem`: a second request comes only while no connection has broken, and
connections and goroutines, whose names do not matter, are taken in order, since TLC cannot use
symmetry with liveness. They hold back only administrators and faults and never the last step open
to a process, so every behaviour of the run is one of `FairSpec`. The number of connections bounds
the reconnects, and of commands the requests; no other bound is in a guard except `MaxRuns`. In
`NodeFiles` a command is alone between its start and its verdict, so two commands in a row show
every state in which a second one can start: a node left by a success, by a rollback, by a rollback
that failed, or half changed by an agent that died. They are symmetric, and `MCNodeFiles` leaves out
of the state what is only remembered of a command before the last. `Overlap` is FALSE there because
with two commands at once none of the promises holds (see Findings); the agent does start them at
once, so this is a condition under which the code is right and not one that it ensures, unless the
Center's `hasConcurrentDangerous` does (see `two_restarts`). The proofs drop all of these bounds but
the last. In `Controller` the panel changes any number of times, before and between any two calls,
so two tags, two nodes of one tag, and lists that add, remove and change a user give every kind of
run of `nodeInfoMonitor` after every other; the four lists are the bound (`MCLists`). The run
`controller` leaves `userInfoMonitor` out (`UserTask` FALSE), because nothing that one writes except
the limits is read by the other; the run `traffic` has both. `MaxBytes` bounds the bytes of a user
and the bytes reported again; two are enough for one to be counted between the reading and the reset
of the other.

In `Dispatcher` the properties are about a pair: a connection against another one, against
the controller, another node or the cache. Two connections and one change of the controller give
all of these pairs, each with every interleaving; the proofs allow any number of all of them. Two
inbounds are the fewest with a replaced one, four devices the fewest that are too many for a limit
of two and new ones. In `PanelNode` a setup fixes what the panel can have: two nodes are enough for
every change of transport, security, port or rules, and `MCSetups` is all clients and node types
with the nodes, lists or devices that differ in one respect at a time. One user is enough because
the clients treat the users of a list one by one. `AgentAccess` has clocks of 4 ticks with a skew of
1 and a time to live of 3, the smallest that satisfy `TTL >= 2 * Skew + Pause`; the scenes exist
because tokens and requests share only the secret, and the scene that has both lets it change.

**Deadlock** is checked in the runs of `Controller`, `PanelNode` and `AgentAccess`, where timers,
restarts and clocks go on. It is not checked in the others: administrators may stop asking, the
finite sets of commands and connections run out, and in `NodeFiles` a command runs once. That no
connection of `Dispatcher` waits for ever before this is `NoDispatchHangs`.

**Fairness.** Neither process stops while one of its goroutines can run, and the network
delivers (`CenterRuns`, `AgentRuns`, `NetworkDelivers` in `CommandSystem`; `SlotStep` and
`IgnorePush` in `AgentWorker`). The Go scheduler gives more than that: fairness to each
goroutine. No fairness is assumed of administrators, of faults, of settings or of new
connections' success. `ExecutionEnds` assumes that the command itself returns:
`systemctl` is called without a timeout. `EventuallySent` assumes that the database
answers (its run has no "sql"): a flush whose query fails gives up silently (`handlers_phase2.go:197`) and the
rows wait for the next connection. `Dispatcher`, `PanelNode` and `AgentAccess` need no fairness: a
connection takes a bounded number of steps, and `NoDispatchHangs` says that there is always a next.

## Findings

* `two_restarts`: `hasConcurrentDangerous` and the INSERT are two statements, so two
  requests can both find the queue free (`handlers_phase2.go:162`).
* `system_waiting`: the `UPDATE ... SET status='SENT'` of `enqueueCommand`
  (`handlers_phase2.go:190`) has no condition on the status; when it runs after the agent's
  result it overwrites it. The row of a RESTART_XRAYR stays SENT for ever, and
  `hasConcurrentDangerous` answers "wait for it to complete" from then on.

Three more places where the code and what is written about it differ, which have no run of their own
because one reading of the code shows them:

* `applyConfigDeployFlow` does not check the permissions that the dashboard's document requires of
  every write operation (`UI_DASHBOARD_RESULT.md:71`);
* an upgrade that has overwritten the configuration and then cannot write the unit calls
  `rollbackInstall`, which leaves the new configuration (`xrayr_install_upgrade.go:186`); the
  document of phase 3 says that it is rolled back. `NodeFiles` has it as `NotUndone`;
* of two APPLY_CONFIG commands at once the second takes the first one's configuration for the old
  one (`exec.go:136`) and "rolls back" to it. `Overlap` admits it.

What the delivery of commands shows, and its properties admit by name:

* an INSERT or a COMMIT that takes effect and returns an error (the administrator hung up, the
  connection to the database broke) leaves a PENDING row that no one pushes until the agent
  connects again (`handlers_phase2.go:178`, `:314`; `OrphanedOn`);
* a push that the agent drops at a full channel is not repeated (`HasRoom`).

What the commands on files show, and `FailedIsUndone`, `FailedRunsAgain` and `SuccessIsInPlace`
admit by name:

* what a command could not copy it cannot restore (`NotUndone`); the error of the configuration's
  backup is ignored altogether;
* a binary whose `sudo install` failed is not taken back (`xrayr_install_upgrade.go:149`): it may
  be missing, cut off or new after a FAILED, and so may a file whose rollback failed (`harm`). No
  such error ends the rollback; that of its restart is reported by an install or an upgrade whose
  service did not come up (`xrayr_install_upgrade.go:222`) and else ignored (`exec.go:178`);
* an APPLY_CONFIG whose restart failed may report SUCCESS for a service that went on with the
  configuration it had (`exec.go:160`: the error is ignored, and `is-active` answers for the
  old process).

What `Controller` shows without a run of its own, because no document promises the opposite;
the levels of `damage` and the variable `ledger` name these cases:

* a node that `GetNodeInfo` returned is lost when `GetUserList` fails after it
  (`controller.go:216`): the ETag is consumed, and the node runs with its old settings until the
  panel changes them again;
* an inbound that cannot be added is not tried again (`controller.go:240`): `nodeInfo` and `Tag` are
  assigned first, so the next run finds nothing changed, and when the panel does change,
  `removeOldTag` fails because there is nothing to remove. The node is down until a restart;
* after one failed `AddUser`, a user who was never added makes `removeUsers` stop
  (`control.go:101`), and users after him whom the panel has deleted are served for ever;
* a node with port 0 ends `nodeInfoMonitor` for good (`controller.go:204`), because the periodic
  task stops at the first error;
* a released user gets the limit he had when he was limited (`controller.go:508`), also when
  the panel has changed it since;
* bytes counted between reading and reset are lost (`controller.go:581`), bytes whose report was
  received but not answered are reported twice, and bytes of a removed user or of an old tag
  are never reported, because only the users of `userList` are asked for under the present `Tag`.

What `Limiter` and `RuleManager` show, and their properties admit by name:

* the global limit lets one device more in (`limiter.go:249`), and from then on refuses devices that
  are online already; a device that is refused there stays in the local map and is reported;
* two pushes of one user overwrite each other, so a device may be missing from the cache;
* a device with the IP of another connection that is about to be counted and refused loses its entry
  when that one leaves, although it was admitted;
* `GetOnlineDevice` forgets the maps once a period: connections that last longer no longer count, and
  what a connection adds to a map that was forgotten is never reported. It also forgets the bucket of
  a user whose first connection is between its two maps; the next one makes a second bucket;
* a bucket made from settings that `UpdateInboundLimiter` replaces at that moment keeps the old rate
  (`stale`), and connections without a bucket stay unlimited when their user is limited later;
* a set that `GetDetectResult` has taken away may be stored again, in the place of another
  (`overwritten`); a rule of the local list (ID -1) rejects without recording;
* the audit rules see the destination after sniffing and hosts; under RouteOnly that is not the one
  the outbound dials. `LookupHosts` asks for the target with its network and port, and not for the name that
  was sniffed; the sniffer `fakeDNSThenOthers` is never asked; a connection whose outbound is replaced
  while it is sniffed goes to the default one.

What the clients show; `lost` names these cases:

* the ETag is remembered before the body is parsed (`sspanel.go:176`): an answer that was cut off or
  refused, a node whose run ended because of the user list, users whose inbound could not be built are
  not asked for again until the panel changes. Rules are not sent again for a new tag, and a tag
  used before has its old ones;
* for V2board and GoV2Panel a list without users is an error, so the last user that is removed stays
  served, and a node without users cannot start;
* XrayR ends, with every node it serves, for four things that a panel or a configuration may say
  (`EndsOnlyForThese` lists them and says that there is no fifth): a rule that is no regular
  expression, with every client that reads rules (`regexp.MustCompile`, `sspanel.go:379`,
  `v2board.go:294`, ...); a `RawServerString` of an older SSPanel that is cut short
  (`sspanel.go:422`, ...); TLS without `CertConfig` or the panel's REALITY without
  `REALITYConfigs`, which are nil pointers of the builder; and with V2RaySocks an answer without
  inbounds, which is indexed out of range, or a 304 after a `GetNodeInfo` that failed, with which
  `GetNodeRule` dereferences nil;
* a list of rules without any is not applied, so the last rules stay in force;
* SSPanel and BunPanel replace `LastReportOnline` before the report is sent and clear it with every
  list. `LimitIsShared` holds when the panel has counted the last report, and else the node's own
  devices count as those of others;
* ProxyPanel keeps the first device limit it was sent; port 0 of Shadowsocks-Plugin becomes
  2^32 - 1 (`sspanel.go:558`);
* a Shadowsocks node of an older SSPanel never starts: its parser, which takes the port of the first
  user, assigns `method` nowhere, and xray-core refuses an empty cipher. Nor does any node of
  Shadowsocks-Plugin, whose inner inbound has no cipher either (`NeverInv` in the proofs);
* an inbound of an unknown transport or cipher, without a certificate, or with REALITY over a
  transport that has none is refused after the old one was removed: the node is down until a
  restart;
* with EnableVless, V2board's settings are read from `VlessNetworkSettings` and those under
  `NetworkSettings` are lost (`v2board.go:394`; `SettingsAreRead`);
* a REALITY node of BunPanel or V2RaySocks is served without it, in clear, if the configuration has
  the panel's REALITY disabled and none of its own.

What registration and signatures show:

* two requests that issue a token at once leave two usable ones (`raced`);
* if the answer of a registration is lost, or the agent ends before its file is written, the token is
  used and nobody has the secret. An agent that was registered before is locked out, ends at its
  discovery and is started again for ever;
* the nonce cache is in memory: after a restart of the Center a request may be handled again within
  the skew. `HandledOnce` is about one process.

## Proofs

`tlapm` proves, for any values of the constants that satisfy the named assumptions, so for any number
of commands, connections, requests, users, devices, hosts or tokens:

| Theorem | Property | Inductive invariant |
|---|---|---|
| `TypeCorrect` | `CenterTypeOK` | `Shape`: the types, and a flush that writes or marks holds a row and a connection, and the hub's session is reading |
| `NoLostWakeup` | `PendingIsCovered` | `CoverInv`: a PENDING row is covered by its request, by the flush of the hub's connection, by a write, or by a broken link, or was orphaned by a failed request while this very connection was the hub's. The request's `lookup` step covers whatever connection registers before it; a connection that registers after it has its whole flush ahead |
| `NoPushIsInvented` | `SentWasPushed` | `SentInv`: a goroutine at `mark` has written the row it holds |
| `CheckedCommandsWereGranted` | `CheckedTypesWereGranted` | `GrantInv`: between check and INSERT the type is in `granted`, which only grows, and `granted` contains what the settings allow now |
| `SystemChecksPermissions`, `SystemLosesNoWakeup` | `CheckedTypesWereGranted`, `PendingIsCovered`, of `CommandSystem` | `SystemInv`, see below |
| `SystemImplementsContract` | `ImplementsContract` (the refinement of `CommandContract`) | `SystemInv`: the initial states map to initial states, and every step to a step of the contract or a stutter |
| `ExecutionsArePushed` | `RunsWithinPushes` | `SystemInv` and `PushesAccount`: the places in `wire` and `cmdCh` that hold a command, and its executions, are together no more than its pushes |
| `SystemKeepsContract` | `Contract!ContractKept` of the composed system | `ContractKept` is inductive in `CommandContract`; the refinement carries it over |
| `RecordedSuccessIsReal` | (a row that says SUCCESS was performed) | follows from `SystemKeepsContract` |
| `SystemExecutesOnce` | `OneExecutionPerCommand`, `RunningIsExact`, of `CommandSystem` | `OneEach`, the same two together, with `SystemInv`: for the agent with the real Center instead of any |
| `ExecutionsPerConnection` | (`PushesAreFew`) | `CountInv`, see below |
| `GoroutinesAreBounded` | (`GoroutinesGoOn`, an action property) | `SystemInv` and `CountInv`, see below |
| `AgentTypeCorrect` | `AgentTypeOK` | `TypeInv`: a busy slot holds a command and a type |
| `NoConcurrentExecution`, `MapIsExact` | `OneExecutionPerCommand`, `RunningIsExact` | `ExecInv`: the two properties together, because each is needed to keep the other |
| `SuccessIsReal` | `SuccessWasPerformed` | `SuccessInv`: a slot whose verdict is SUCCESS has performed its command |
| `ExecutionIsBounded` | (`GoesOn`, an action property) | `TypeInv`: an execution has five steps of its own at most, of one command |
| `FilesTypeCorrect` | `FilesTypeOK` | the types |
| `FailureIsUndone`, `FailureRunsAgain`, `SuccessIsReal` (of `NodeFilesProofs`) | `FailedIsUndone`, `FailedRunsAgain`, `SuccessIsInPlace` | `Inv`, see below; they assume `~Overlap` |
| `NoInboundIsLeft`, `CoreIsInStep`, `NobodyIsLeft`, `MonitorCatchesUp`, `PunishmentEnds` | `OneInbound`, `CoreFollowsMemory`, `NobodyElseIsServed`, `PanelIsFollowed`, `SlowIsReleased` | `Inv` of `ControllerProofs`, see below |
| `ControllerTypeCorrect`, `NoByteIsForgotten` | `ControllerTypeOK`, `TrafficIsConserved` | `TrafficInv`, with `Inv` of `ControllerProofs` for the types, see below |
| `DispatcherUsesLimiter` | (`LimiterSpec`) | none is needed: every step is one of the limiter's or leaves it alone |
| `DeviceLimitHolds`, `GlobalLimitHolds`, `RatesFollowPanel` | `DevicesWithinLimit`, `GlobalWithinOneMore`, `BucketFollowsPanel` | `LimiterInv`, see below |
| `DetectionsAreKept` | `DetectionKept` | `RuleInv`: whatever is in any set, or was to be recorded, `IsKept` |
| `DispatcherTypeCorrect`, `AuditsSeeTarget` | `DispatcherTypeOK`, `AuditSeesTarget` | `LinkInv`: before the sniffers, `checked` is `target` and there is no `routed`; past the limiter, the connection is `admitted` |
| `OutboundsAreChecked`, `DispatchIsBounded`, `DispatchesGoOn` | (`OutboundIsChecked`, `StepsLeft`, `NextStepIsItsOwn`) | `AskedInv`, see below |
| `PanelTypeCorrect`, `LimitsAreShared`, `XrayREndsOnlyForThese` | `PanelTypeOK`, `LimitIsShared`, `EndsOnlyForThese` | `Inv` of `PanelNodeProofs`, see below |
| `NodeFollowsPanel`, `NodeIsAsDescribed` | `PanelIsFollowed`, `NodeIsServedAsDescribed` of `PanelNode` | `FollowInv`, with that `Inv`, see below |
| `AccessTypeCorrect`, `OneTimeTokens`, `OneTokenAtATime`, `NoReplay` | `AccessTypeOK`, `TokenIsOneTime`, `OneUsableToken`, `HandledOnce` | `RegInv` and `AuthInv`, see below |

`SystemInv` puts the Center and its agent together. Every step of `CommandSystem` is a step of `CommandCenter`
or only breaks a link (`CenterStep`), so the invariants of the Center with an arbitrary agent (`CenterInv`) carry
over. To them come what the agent holds: whatever is under way, in the channel or in a slot has been written by the
Center (`HeldWasWritten`), and a slot or a post that says SUCCESS has performed its command
(`SuccessIsPerformed`); what has been written has a row (`WrittenHasRow`), and a row is inserted once (`InsertedOnce`). Nothing
less gives the refinement: a result may be recorded long after the process that performed the command has died, and
the contract must have seen the performance. `PushesAccount` counts places by cardinality: a write adds at most
one, the step from the wire to the channel and the start of a goroutine move one, and a broken connection, a full
channel or the death of the agent only remove some.

The agent executes a command again whenever it is pushed again after its end, so the number of pushes is what an
administrator depends on. `CountInv` bounds it: a command is written at most once by its own request
(`OwnPush`) and once by each connection whose flush is past it (`PassedBy`: it has read the rows and has none of
this command left to write), which needs that a flush does not run before its session is registered
(`RegistersFirst`) and that the row it writes is not among those to come (`HeldApart`). So
`PushesAreFew`: no more pushes, or executions, than connections that flushed, plus one. The bound is
reached: with two connections a command is pushed three times.

`GoroutinesGoOn` gives every goroutine a measure that its own steps lower and no other step raises: the stage of a
request; of a flush, its phase, then the rows it has left (a finite set), then the stage of the row it
holds; the stage of an execution. This is what the code's structure justifies `Fairness` with (a goroutine
that is always scheduled comes to its end), stated without fairness. `ExecutionIsBounded` is its
counterpart for an agent with any Center at all.

`AskedInv` follows a dispatch from its start to the outbound: whoever waits for the limiter has called it, the audit
rules are left out only for a session without a user, and at the outbound a session of a user has their
answer `allowed`. With `LinkInv` this gives `OutboundsAreChecked`, the safety of every path to an outbound, through the
sniffers and the hosts. `StepsLeft` adds what the dispatch, its call to the limiter and its `Detect` have
left: 19 steps at most, whatever other connections, updates and reports do. `NextStepIsItsOwn` says, of the three
places where a dispatch can only go on under a condition (the call to the limiter, the route and the audit
rules), that the condition of one of its own steps holds: nobody waits for anybody.

`Inv` of `NodeFilesProofs` follows the one command that is executed (`Serial`). `Copies`: what it
saved is what was there, which needs that nothing on the node comes from a command that has not
started (`Fresh`). `Placed`: at each step, exactly the files `Put` names are new and the others are
as before, and until the rollback nothing of the command has failed (`Clean`). `Undoing`: a file
that is not as it was is still on the list of the rollback, or was left so by a failed write of the
command's own (`harm`), or is `NotUndone`; the last task of a rollback that restarts is the restart,
after which the files that are there run, or nothing (`RestartedOn`), unless that restart failed.
`Service`: what runs is what ran before, until the restart. At the verdict these give `Reported`,
which holds until the next command starts (`Quiet`). Without `~Overlap`, `Placed` fails at the first
write of a second command.

`Inv` of `ControllerProofs` says, for every step of `nodeInfoMonitor`, which inbound there is
(`InboundInv`), whom it serves (`ServedInv`: nobody after `addNewTag`, the common users
after `DropUsers`, the new list after `JoinUsers`), which inbounds the limiter has and with what
limits (`LimiterInv`), and what the client was answered (`ETagInv`). None of the properties is inductive without these: that
`addUsers` finds nobody twice, and `removeUsers` everybody, follows from `ServedInv` and from one
record per user in a list (`UserList`). `damage` decides which parts still hold after a failed
call. `userInfoMonitor` keeps all of it, because it changes only limits (`LimitsKeepInv`) and its
own data (`UserDataKeepsInv`); its steps come at any time. `InvHolds` is the induction; each
theorem is then one implication.

`TrafficInv` is about sums over all tags of a user. `ReadInv`: what `userInfoMonitor` has read from a
counter is still in it, since only its own reset takes anything away. `LedgerInv`: the equation of `TrafficIsConserved`,
and that between the report and the reset the panel's number already includes what is still counted, so no sum
exceeds the bytes used; this is also why the types of the counters (`ControllerTypeOK`) are no easier to prove
than the conservation. The sums are the library's `SumFunctionOnSet`, a CHOOSE of a recursive function. That it exists
and does not depend on the order of the elements (`FoldExists`, `FoldAdds`) is proved by induction on the number of
elements, as a fact about a set of numbers that has 0 and is closed under + 1 (`NatSets`); that lemma itself follows from
the cardinality of finite sets, because the library's induction theorems take an operator, which the installed provers
cannot instantiate.

`LimiterInv` has the three properties and what keeps them. `ShapeInv`: a call has what its step
reads. `HubInv`: the bucket in a hub was made by an admitted call of that very user and inbound, so no
other user's update can set its rate. `PushInv`: what is about to be pushed has one device above the
limit at most; the cache is over the limit only by what a push or another node added while it was not.
For `DevicesWithinLimit` the connection that makes a map, and then every one that passes its
count, is the witness: whoever leaves takes its own device with it, and those that have still to
count are not `Settled`.

`RegInv` is the types, `LockInv` and `IssueInv`. `LockInv`: the transaction that uses or revokes a
token holds its row, and a row has one holder; so the second of two registrations sees the first
one's commit. `IssueInv`: an issue that is alone has seen, locked and is going to revoke every usable
token, which fails as soon as another one has begun (`raced`). `AuthInv` is about one request: `NonceInv` says that a
request that was handled is remembered, or that its time is over even for a handler that has checked
its timestamp already and paused as long as it may; this is where `TTL >= 2 * Skew + Pause` is used.

`Inv` of `PanelNodeProofs` is the types, `ShareInv` and `RespInv`. `ShareInv`: while the panel has counted
the last report (`counted`), what it counts here is what the client remembers, and between the
request of a list and its parsing the number of the answer is still that of the list's devices elsewhere
and the client's own; a report in between ends `counted`, because it replaces the one without the
other. `RespInv`: a client of V2board or GoV2Panel that has started has a configuration, because no
ETag is left at a start and a failed start is the end of XrayR. The calls of the seven clients are first reduced to those
that the controller makes: `NodeAsked`, `ListAsked` (with `ListFetched` and `ParseEffect` where the answer is parsed
later), `RulesAsked` and `Reported` say what any of them may change (`CallsAreAsked`), and an invariant is then
proved once for each of these and not for 28 calls.

`FollowInv` says what holds between the panel's state, the ETags, the run of `nodeInfoMonitor` and
the controller at every step. `NodeInv`, `UsersInv`, `RulesInv`: with the panel's present ETag, or
in a run the panel did not change under, what the client was told last is what the panel has now,
unless an answer was lost (`lost`, the answers whose ETag is remembered and whose content is not);
which variable that is depends on the step (`HeldNode`, `ListTaken`). `ServedInv`: the inbound is
the builder's for the remembered node or is missing because the builder refuses it, and its accounts
are of that node. `ETagInv` has which clients know no ETags, and that none is left at a start;
`TypeInv`, that a node never changes its type. A run ends only where these parts speak of `ctl`, and
`PanelIsFollowed` is read off there. For `NodeIsServedAsDescribed`, `DescribedKeeps` adds what each
client's parser keeps of a node of the panel, one case per client and version. An older SSPanel has
the port of a Shadowsocks node only from its list of users; `NeverInv` says that such a node, like
any of Shadowsocks-Plugin, does not get past its start, so neither theorem has to except it.
`XrayREndsOnlyForThese` goes through the calls of each client for what its panics need
(`NodeAskedEnds`, `RulesAskedEnds`, `AddNewTagEnds`).

The theorems use only the named assumptions of the modules (`TypesAssumption`,
`AgentResultsAssumption`, `LimiterAssumption`, `DispatcherAssumption`, `AccessAssumption`,
`SetupsAssumption`, `RealityAssumption`, ...), which every run evaluates, and `~Overlap` where the
table says so. `AgentResultsAssumption`: the results the Center accepts include the two that the
agent posts. `RealityAssumption`: a panel whose answers have no field for REALITY has no node with
it; only `NodeIsAsDescribed` uses it. `LocalAssumption`: the rules of the local file are regular
expressions, without which XrayR ends before it has a client; only `XrayREndsOnlyForThese` uses it.

Left to TLC: liveness (`ExecutionEnds`, `EventuallySent`, `QueuedIsAnswered`), which the provers do not do, and `NoDispatchHangs`,
whose ENABLED they do not either. Proved of them is what needs neither: that executions, requests and flushes have a
bounded number of steps (`ExecutionIsBounded`, `GoroutinesAreBounded`), and that a dispatch has too and always meets the
condition of its next one (`DispatchIsBounded`, `DispatchesGoOn`); that the steps are then taken is what TLC checks. Every other invariant and action property of a passing run, and the refinement, has a
theorem.

## What could come next

* `CommandReports`: `result_json`, `config_deploy_task` and `config_version` under concurrent progress
  and result posts;
* the reload of the configuration: events that are dropped within three seconds, and keys that stay
  because the file is decoded into the structure of the last time (`root.go:85-104`);
* the second inbound of Shadowsocks-Plugin and speed limits in the clients;
* that `Limiter` implements the summary of it that `Controller` has, as `Dispatcher` implements `LimiterSpec`:
  `Controller` has every tag and one step per call, `Limiter` one tag and one step per map operation.

## Not modelled

* Command reports: the merge of `result_json` is a read and a write of one column, and the lost update
  is visible in the two statements; deploy tasks are rows that follow their command.
* Logins, artifacts, migrations, the dashboard and the install page: stateless, or single statements.
* Heartbeats and monitor reports: values that no later step reads.
* The agent's discovery of a node at its start, and the commands it runs for that: pure I/O. What a
  discovery does to the permissions is in `CommandCenter`.
* Certificates (lego and files) and the outbound builder: a library, pure construction. A certificate
  is an input of `InboundBuilder`.
* The clients' posts of traffic, detections and status, which keep no state; their speed limits.
* What the sniffers of protocols recognise, the bytes that are copied, the texts of JSON and YAML.
* `expires_at` of a command, which the code stores and never reads.
* A revocation of a permission between the check and the INSERT: `CheckedTypesWereGranted` says only
  that the type was granted at some time, and nothing of APPLY_CONFIG, which asks for no permission.
* `DisableUploadTraffic` (`controller.go:574`), with which nothing is reported and nothing is reset.
* A clock that is set back: the Center's clock in `AgentAccess` only goes on, while
  `hsign.Verify` reads the wall clock.
* What becomes of the two ends of a connection's link (Close, Interrupt): `Dispatcher` knows the step of
  each dispatch, and not whether an end that nobody reads was closed.

PROJECT.json lists every component with its status and the reason.
