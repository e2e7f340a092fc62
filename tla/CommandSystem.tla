--------------------------- MODULE CommandSystem ---------------------------
(***************************************************************************)
(* The Center's command queue and one node's agent, composed.  The agent   *)
(* dials, reads the pushes of its connection in order (wsclient.Run,       *)
(* readLoop), executes them, and its posts are handled by the Center, late *)
(* or never.  When the agent's process restarts it reports its discovery   *)
(* before it dials again (main).                                           *)
(***************************************************************************)
EXTENDS CommandCenter, Sequences

CONSTANTS
  Slot,      \* goroutines of the agent
  Allow,     \* agent.allow_commands
  ChanCap    \* capacity of the agent's push channel

\* cmdexec posts no other results.
ASSUME AgentResultsAssumption == {"SUCCESS", "FAILED"} \subseteq Results

VARIABLES
  wire,      \* pushes written to each connection and not yet read
  dialed,    \* the connection the agent reads
  booted,    \* the agent reported its discovery and runs
  cmdCh, running, slot, post, performed, runs   \* as in AgentWorker

Agent == INSTANCE AgentWorker WITH MaxRuns <- 0

agentVars == << cmdCh, running, slot, post, performed, runs >>

vars == << centerVars, wire, dialed, booted, agentVars >>

(***************************************************************************)
(* The network between the two.                                            *)
(***************************************************************************)

\* A push that the Center writes to an unbroken connection travels on it.
Carried(k, c) ==
  wire' = IF pushes'[c] > pushes[c] /\ link[k] = "up"
          THEN [wire EXCEPT ![k] = Append(@, [id |-> c, type |-> ctype[c]])]
          ELSE wire

CenterWrites ==
  /\ \/ \E c \in Cmd : WriteConn(c) /\ Carried(req[c].conn, c)
     \/ \E k \in Conn : FlushWrite(k) /\ Carried(flush[k].conn, flush[k].cur)
  /\ UNCHANGED << dialed, booted, agentVars >>

CenterDoes ==
  /\ \/ enableWritable
     \/ patchNodeSettings
     \/ \E c \in Cmd :
          \/ \E t \in Types : BeginRequest(c, t)
          \/ hasConcurrentDangerous(c) \/ InsertCommand(c)
          \/ LookupConn(c) \/ MarkSent(c) \/ RequestSqlError(c)
     \/ \E k \in Conn :
          \/ RegisterConn(k) \/ EndSession(k) \/ BreakLink(k)
          \/ FlushQuery(k) \/ FlushNext(k) \/ FlushMark(k) \/ FlushEnd(k)
          \/ FlushSqlError(k)
     \/ CenterCrash
  /\ UNCHANGED << wire, dialed, booted, agentVars >>

Dial(k) ==
  /\ booted /\ dialed = NoConn
  /\ UpgradeConn(k)
  /\ dialed' = k
  /\ UNCHANGED << wire, booted, agentVars >>

\* Faulty: a push stays on the connection when it is read.
ReadPush_repeats ==
  /\ dialed # NoConn /\ wire[dialed] # << >>
  /\ Agent!Receive(Head(wire[dialed]))
  /\ UNCHANGED << centerVars, wire, dialed, booted >>

ReadPush ==
  /\ dialed # NoConn /\ wire[dialed] # << >>
  /\ wire' = [wire EXCEPT ![dialed] = Tail(@)]
  /\ Agent!Receive(Head(wire[dialed]))
  /\ UNCHANGED << centerVars, dialed, booted >>

\* The read fails: what the connection still carried is lost.
ReadFails ==
  /\ dialed # NoConn /\ Broken(dialed)
  /\ dialed' = NoConn
  /\ wire' = [wire EXCEPT ![dialed] = << >>]
  /\ UNCHANGED << centerVars, booted, agentVars >>

(***************************************************************************)
(* The agent's posts at the Center, and the agent's process.               *)
(***************************************************************************)

\* Faulty: the progress of a command is recorded as its result.
HandlePost_progressConcludes(r) ==
  /\ Agent!Arrive(r)
  /\ postAgentCommandResult(r.cmd, IF r.says = "RUNNING" THEN "SUCCESS" ELSE r.says)
  /\ UNCHANGED << wire, dialed, booted >>

HandlePost(r) ==
  /\ Agent!Arrive(r)
  /\ IF r.says = "RUNNING" THEN postAgentCommandProgress(r.cmd)
                           ELSE postAgentCommandResult(r.cmd, r.says)
  /\ UNCHANGED << wire, dialed, booted >>

AgentDoes ==
  /\ Agent!AgentAlone
  /\ UNCHANGED << centerVars, wire, dialed, booted >>

\* Killed or exiting, the process leaves a connection that breaks.
AgentDies ==
  /\ booted
  /\ Agent!AgentExit
  /\ booted' = FALSE
  /\ dialed' = NoConn
  /\ wire' = [k \in Conn |-> IF k = dialed THEN << >> ELSE wire[k]]
  /\ link' = [k \in Conn |-> IF k = dialed /\ link[k] = "up" THEN "broken" ELSE link[k]]
  /\ UNCHANGED << status, ctype, rowId, nextId, node, req, hub, session, flush,
                  pushes, granted >>

AgentBoots ==
  /\ ~booted
  /\ agentDiscoveryReport
  /\ booted' = TRUE
  /\ UNCHANGED << wire, dialed, agentVars >>

(***************************************************************************)
(* Specification.                                                          *)
(***************************************************************************)

Init ==
  /\ CenterInit
  /\ Agent!AgentInit
  /\ wire = [k \in Conn |-> << >>]
  /\ dialed = NoConn
  /\ booted = FALSE

Next ==
  \/ CenterDoes
  \/ CenterWrites
  \/ \E k \in Conn : Dial(k)
  \/ ReadPush
  \/ ReadFails
  \/ \E r \in post : HandlePost(r)
  \/ AgentDoes
  \/ AgentDies
  \/ AgentBoots

Spec == Init /\ [][Next]_vars

\* Neither process stops while one of its goroutines can run, and the network
\* delivers what it carries.  That is less than fairness to each goroutine;
\* it is enough, because each runs for a bounded number of steps.  Nothing is
\* assumed of administrators or of faults.
CenterRuns ==
  \/ /\ CenterDoes
     /\ \/ \E c \in Cmd : RequestStep(c)
        \/ \E k \in Conn : RegisterConn(k) \/ EndSession(k) \/ FlushStep(k)
  \/ CenterWrites

AgentRuns ==
  \/ AgentBoots
  \/ \E k \in Conn : Dial(k)
  \/ ReadFails
  \/ AgentDoes /\ (Agent!IgnorePush \/ \E s \in Slot : Agent!SlotStep(s))

NetworkDelivers == ReadPush \/ \E r \in post : HandlePost(r)

Fairness == WF_vars(CenterRuns) /\ WF_vars(AgentRuns) /\ WF_vars(NetworkDelivers)

FairSpec == Spec /\ Fairness

(***************************************************************************)
(* Properties.                                                             *)
(***************************************************************************)

Concluded(c) == status[c] \in Results

\* The node never executes a command more often than the Center wrote it.
RunsWithinPushes == \A c \in Cmd : runs[c] <= pushes[c]

\* The system implements the contract: Queue is InsertCommand, Perform the
\* agent's Perform, Conclude the result handler; a SENT mark or a progress
\* post that comes after a result is a Reopen.
Contract == INSTANCE CommandContract WITH
  queued    <- [c \in Cmd |-> IF status[c] = "ABSENT" THEN "none" ELSE ctype[c]],
  verdict   <- [c \in Cmd |-> IF status[c] \in Results THEN status[c] ELSE "none"],
  Unchecked <- {"STATUS_XRAYR", "APPLY_CONFIG"},
  Verdicts  <- Results

ImplementsContract == Contract!ContractSpec

\* No link fails and no push arrives while the agent's channel is full: both
\* lose a push whose row is, or will be, SENT, and nobody pushes it again.
Unbroken == \A k \in Conn : link[k] \in {"none", "up"}
HasRoom  == dialed # NoConn /\ wire[dialed] # << >> => Len(cmdCh) < ChanCap

\* If no push is lost, a queued command is pushed, executed and answered: its
\* row comes to hold a result, whichever of its request and the flush pushes
\* it and whatever other commands are pushed and executed meanwhile.
QueuedIsAnswered ==
  [](Unbroken /\ HasRoom) =>
    \A c \in Cmd : (status[c] = "PENDING") ~> Concluded(c)

\* "a command of this type is already in the queue, please wait for it to
\* complete": waiting is enough, the type becomes free again for good.
WaitingIsEnough ==
  \A c \in Cmd : (status[c] \in Live) ~> [](status[c] \notin Live)

=============================================================================
