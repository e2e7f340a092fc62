---------------------------- MODULE AgentWorker ----------------------------
(***************************************************************************)
(* Command execution in xrayr-agent: the channel between the WebSocket     *)
(* reader and the worker (readLoop, main), the worker loop and the         *)
(* goroutine it starts for each command (commandWorker), and the progress  *)
(* and result posts of that goroutine (cmdexec).  What a command does to   *)
(* the machine is one step, Perform; the steps inside APPLY_CONFIG and     *)
(* INSTALL / UPGRADE have modules of their own.                            *)
(***************************************************************************)
EXTENDS Integers, Sequences

CONSTANTS
  Cmd,       \* command ids
  Slot,      \* goroutines that may run at once (one per command is enough)
  NoCmd,     \* an idle slot
  Types,     \* command types the Center pushes
  Allow,     \* agent.allow_commands in agent.yml
  ChanCap,   \* capacity of the push channel: 32 in main
  MaxRuns,   \* bound on how often a command is started
  Events     \* what may happen: "timeout" and "loss" of a post, "restart"

ASSUME ChanCapAssumption == ChanCap \in Nat \ {0}
ASSUME MaxRunsAssumption == MaxRuns \in Nat
ASSUME NoCmdAssumption == NoCmd \notin Cmd

VARIABLES
  cmdCh,     \* pushes read from the WebSocket and not yet taken
  running,   \* commandWorker's map of the ids being executed
  slot,      \* the command goroutines
  post,      \* HTTP requests on their way to the Center
  performed, \* history: commands whose action was carried out
  runs       \* history: how often the execution of a command was started

agentVars == << cmdCh, running, slot, post, performed, runs >>

Push == [id : Cmd, type : Types]

Idle == [cmd |-> NoCmd, type |-> "STATUS_XRAYR", at |-> "idle", verdict |-> "none"]

\* A post names the goroutine that waits for its answer.
Post(s, says) == [cmd |-> slot[s].cmd, says |-> says, by |-> s]

Busy == {s \in Slot : slot[s].at # "idle"}

Step(s, from, to) ==
  /\ slot[s].at = from
  /\ slot' = [slot EXCEPT ![s].at = to]

\* The verdict is known and has to be reported.
Decide(s, v) ==
  slot' = [slot EXCEPT ![s] = [cmd |-> @.cmd, type |-> @.type, at |-> "report", verdict |-> v]]

(***************************************************************************)
(* The channel and the worker loop.                                        *)
(***************************************************************************)

\* Faulty: the channel has no capacity.
Receive_unbounded(p) ==
  /\ cmdCh' = Append(cmdCh, p)
  /\ UNCHANGED << running, slot, post, performed, runs >>

\* Faulty: the last place of the channel is never used.
Receive_offByOne(p) ==
  /\ cmdCh' = IF Len(cmdCh) < ChanCap - 1 THEN Append(cmdCh, p) ELSE cmdCh
  /\ UNCHANGED << running, slot, post, performed, runs >>

\* readLoop: a push that finds the channel full is dropped with a log line.
Receive(p) ==
  /\ cmdCh' = IF Len(cmdCh) < ChanCap THEN Append(cmdCh, p) ELSE cmdCh
  /\ UNCHANGED << running, slot, post, performed, runs >>

\* The worker loop ignores an id that is being executed...
IgnorePush ==
  /\ cmdCh # << >>
  /\ Head(cmdCh).id \in running
  /\ cmdCh' = Tail(cmdCh)
  /\ UNCHANGED << running, slot, post, performed, runs >>

\* ... and starts a goroutine for any other, one executed before included.
StartPush(s) ==
  /\ cmdCh # << >>
  /\ slot[s].at = "idle"
  /\ running' = running \cup {Head(cmdCh).id}
  /\ slot' = [slot EXCEPT ![s] = [cmd |-> Head(cmdCh).id, type |-> Head(cmdCh).type,
                                  at |-> "start", verdict |-> "none"]]
  /\ runs' = [runs EXCEPT ![Head(cmdCh).id] = @ + 1]
  /\ cmdCh' = Tail(cmdCh)
  /\ UNCHANGED << post, performed >>

\* Faulty: the running map is not consulted.
TakePush_unchecked(s) == StartPush(s)

TakePush(s) ==
  /\ StartPush(s)
  /\ Head(cmdCh).id \notin running

(***************************************************************************)
(* A command goroutine: cmdexec.Run...                                     *)
(***************************************************************************)

\* Faulty: the refusal keeps the result's initial SUCCESS.
Refuse_success(s) ==
  /\ slot[s].type \notin Allow
  /\ slot[s].at = "start"
  /\ Decide(s, "SUCCESS")
  /\ UNCHANGED << cmdCh, running, post, performed, runs >>

Refuse(s) ==
  /\ slot[s].type \notin Allow
  /\ slot[s].at = "start"
  /\ Decide(s, "FAILED")
  /\ UNCHANGED << cmdCh, running, post, performed, runs >>

\* All but STATUS_XRAYR announce themselves; the several progress posts of
\* one execution carry the same status and are modelled by the first.
Announce(s) ==
  /\ slot[s].type \in Allow
  /\ IF slot[s].type = "STATUS_XRAYR"
     THEN Step(s, "start", "ready") /\ UNCHANGED post
     ELSE Step(s, "start", "announced") /\ post' = post \cup {Post(s, "RUNNING")}
  /\ UNCHANGED << cmdCh, running, performed, runs >>

\* Faulty: the HTTP client has no timeout.
Answered_untimed(s, says) == Post(s, says) \notin post

\* SignedJSON returns with the answer, or after its 30 s timeout while the
\* request may still reach the Center; its error is ignored.
Answered(s, says) == Post(s, says) \notin post \/ "timeout" \in Events

Announced(s) ==
  /\ Step(s, "announced", "ready")
  /\ Answered(s, "RUNNING")
  /\ UNCHANGED << cmdCh, running, post, performed, runs >>

\* The command acts on the machine and may fail in the end, or gives up before
\* it acts; RunStatus always succeeds.
Perform(s) ==
  /\ slot[s].at = "ready"
  /\ \/ Decide(s, "SUCCESS") /\ performed' = performed \cup {slot[s].cmd}
     \/ /\ slot[s].type # "STATUS_XRAYR"
        /\ Decide(s, "FAILED")
        /\ performed' \in {performed, performed \cup {slot[s].cmd}}
  /\ UNCHANGED << cmdCh, running, post, runs >>

Report(s) ==
  /\ Step(s, "report", "reported")
  /\ post' = post \cup {Post(s, slot[s].verdict)}
  /\ UNCHANGED << cmdCh, running, performed, runs >>

\* Faulty: the id stays in the running map.
Finish_keepsId(s) ==
  /\ slot[s].at = "reported"
  /\ Answered(s, slot[s].verdict)
  /\ slot' = [slot EXCEPT ![s] = Idle]
  /\ UNCHANGED << cmdCh, running, post, performed, runs >>

\* The deferred function forgets the id.
Finish(s) ==
  /\ slot[s].at = "reported"
  /\ Answered(s, slot[s].verdict)
  /\ running' = running \ {slot[s].cmd}
  /\ slot' = [slot EXCEPT ![s] = Idle]
  /\ UNCHANGED << cmdCh, post, performed, runs >>

(***************************************************************************)
(* Posts in the network, and the agent process.                            *)
(***************************************************************************)

\* A post arrives at the Center.
Arrive(r) ==
  /\ r \in post
  /\ post' = post \ {r}
  /\ UNCHANGED << cmdCh, running, slot, performed, runs >>

LosePost(r) ==
  /\ "loss" \in Events
  /\ Arrive(r)

\* The process dies: the channel, the map and the goroutines are lost.
AgentExit ==
  /\ "restart" \in Events
  /\ cmdCh' = << >>
  /\ running' = {}
  /\ slot' = [s \in Slot |-> Idle]
  /\ UNCHANGED << post, performed, runs >>

AgentInit ==
  /\ cmdCh = << >>
  /\ running = {}
  /\ slot = [s \in Slot |-> Idle]
  /\ post = {}
  /\ performed = {}
  /\ runs = [c \in Cmd |-> 0]

SlotStep(s) ==
  \/ TakePush(s)
  \/ Refuse(s)
  \/ Announce(s)
  \/ Announced(s)
  \/ Perform(s)
  \/ Report(s)
  \/ Finish(s)

AgentAlone ==
  \/ IgnorePush
  \/ \E s \in Slot : SlotStep(s)
  \/ \E r \in post : LosePost(r)

\* Any Center: it pushes what it likes, as often as it likes.
AnyCenter ==
  \/ \E p \in Push : runs[p.id] < MaxRuns /\ Receive(p)
  \/ \E r \in post : Arrive(r)

AgentNext == AgentAlone \/ AgentExit \/ AnyCenter

AgentSpec == AgentInit /\ [][AgentNext]_agentVars

\* Goroutines run, and the client's timeout ends every wait for an answer.
AgentFairSpec ==
  AgentSpec /\ WF_agentVars(IgnorePush) /\ \A s \in Slot : WF_agentVars(SlotStep(s))

(***************************************************************************)
(* Properties.                                                             *)
(***************************************************************************)

AgentTypeOK ==
  /\ cmdCh \in Seq(Push) /\ Len(cmdCh) <= ChanCap
  /\ running \in SUBSET Cmd
  /\ slot \in [Slot -> [cmd     : Cmd \cup {NoCmd},
                        type    : Types \cup {"STATUS_XRAYR"},
                        at      : {"idle", "start", "announced", "ready", "report", "reported"},
                        verdict : {"none", "SUCCESS", "FAILED"}]]
  /\ post \in SUBSET [cmd : Cmd, says : {"RUNNING", "SUCCESS", "FAILED"}, by : Slot]
  /\ performed \in SUBSET Cmd
  /\ runs \in [Cmd -> Nat]

\* A command is never executed by two goroutines at the same time, however
\* often it is pushed (the running map of commandWorker).
OneExecutionPerCommand ==
  \A s, t \in Busy : slot[s].cmd = slot[t].cmd => s = t

\* The map holds exactly the commands being executed: no id stays behind to
\* make the worker ignore a later push, none is missing.
RunningIsExact == running = {slot[s].cmd : s \in Busy}

\* A SUCCESS on its way to the Center, however late or from a process that
\* has died since, is about an action that was carried out.
SuccessWasPerformed ==
  \A r \in post : r.says = "SUCCESS" => r.cmd \in performed

\* Every execution ends and forgets its id, provided systemctl returns: no
\* command is barred for ever from being executed again.
ExecutionEnds ==
  \A c \in Cmd : (c \in running) ~> (c \notin running)

=============================================================================
