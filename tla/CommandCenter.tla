--------------------------- MODULE CommandCenter ---------------------------
(***************************************************************************)
(* The command queue of xrayr-center, for one node.                        *)
(*                                                                         *)
(* An administrator's HTTP request creates a row of command_task, looks up *)
(* the node's WebSocket in the hub, writes the push and marks the row      *)
(* SENT; every database round trip and the write are separate steps of the *)
(* request's goroutine (enqueueCommand, applyConfigDeployFlow).  When the  *)
(* agent connects, its session registers in the hub and starts a flush     *)
(* goroutine that pushes the rows it finds PENDING (agentWebSocket,        *)
(* flushPendingCommands).  The agent's progress and result posts overwrite *)
(* the status whatever it is.  All queries filter by node_id and the hub   *)
(* is keyed by node, so nodes do not interact and one node is modelled.    *)
(***************************************************************************)
EXTENDS Integers, FiniteSets

CONSTANTS
  Cmd,      \* command ids; each names the request that draws it (bounds them)
  Conn,     \* WebSocket connections of the node's agent (bounds reconnects)
  NoCmd, NoConn,  \* no command, no connection
  Types,    \* command types the administrators ask for
  Results,  \* statuses the agent's result posts carry
  Events    \* what may happen: "settings", "break", "crash", "sql"

AllTypes == {"STATUS_XRAYR", "RESTART_XRAYR", "APPLY_CONFIG",
             "INSTALL_XRAYR", "UPGRADE_XRAYR"}

ASSUME TypesAssumption == Types \subseteq AllTypes
ASSUME ResultsAssumption == Results \subseteq {"SUCCESS", "FAILED", "TIMEOUT", "CANCELED"}
ASSUME NoneAssumption == NoConn \notin Conn /\ NoCmd \notin Cmd

VARIABLES
  \* ---- database
  status,   \* command_task.status, "ABSENT" before the INSERT
  ctype,    \* the type the request asks for, command_task.command_type
  rowId,    \* command_task.id (BIGSERIAL)
  nextId,   \* the next value of that sequence
  node,     \* manage_status = MANAGED_WRITABLE, and the allow_* columns
  \* ---- memory of the Center
  req,      \* the request goroutine of each command: step and looked-up conn;
            \* "failed" is an error over a row that was written all the same
  hub,      \* agentHub.nodes[node]
  session,  \* the agentWebSocket handler of each connection
  flush,    \* the flushPendingCommands goroutine of each connection
  \* ---- network
  link,     \* state of the TCP connection, as the Center's end has it
  \* ---- history
  pushes,   \* how many pushes of a command were written successfully
  granted   \* dangerous types the node ever allowed

centerVars == << status, ctype, rowId, nextId, node, req, hub, session, flush,
                 link, pushes, granted >>

Live      == {"PENDING", "SENT", "RUNNING"}
Statuses  == {"ABSENT"} \cup Live \cup Results
ConnOrNo  == Conn \cup {NoConn}

(***************************************************************************)
(* Permissions.  assertCommandAllowed and dangerousCommand.                *)
(***************************************************************************)

dangerousCommand(t) == t # "STATUS_XRAYR"

DangerousTypes == {t \in AllTypes : dangerousCommand(t)}

assertCommandAllowed(t, n) ==
  dangerousCommand(t) => n.writable /\ t \in n.allow

\* What the node's settings grant, independently of how a request checks it.
Grants(n) == IF n.writable THEN n.allow ELSE {}

SetNode(n) ==
  /\ node' = n
  /\ granted' = granted \cup Grants(n)
  /\ UNCHANGED << status, ctype, rowId, nextId, req, hub, session, flush,
                  link, pushes >>

enableWritable ==
  /\ "settings" \in Events
  /\ SetNode([writable |-> TRUE, allow |-> DangerousTypes])

\* The settings form sets manage_status and any of the allow_* flags.
patchNodeSettings ==
  /\ "settings" \in Events
  /\ \E w \in BOOLEAN, on \in SUBSET (Types \cap DangerousTypes) :
       SetNode([writable |-> w, allow |-> (node.allow \ Types) \cup on])

\* Every install_state the agent reports moves manage_status to
\* MANAGED_READONLY, REPAIR_REQUIRED or DISCOVERED: none is writable.
agentDiscoveryReport ==
  SetNode([node EXCEPT !.writable = FALSE])

(***************************************************************************)
(* A request: enqueueCommand, and applyConfigDeployFlow for APPLY_CONFIG,  *)
(* which checks neither the permissions nor the commands already queued.   *)
(***************************************************************************)

At(c, step) == req[c].at = step

\* The looked-up connection is a local variable, alive while it is written.
Goto(c, step) == req' = [req EXCEPT ![c] = [at |-> step, conn |-> NoConn]]

requestUnchanged == << node, hub, session, flush, link, granted >>

\* Faulty: no type is checked, as for APPLY_CONFIG.
BeginRequest_unchecked(c, t) ==
  /\ At(c, "idle")
  /\ ctype' = [ctype EXCEPT ![c] = t]
  /\ Goto(c, IF t = "APPLY_CONFIG" THEN "insert" ELSE "dup")
  /\ UNCHANGED << status, rowId, nextId, pushes, requestUnchanged >>

BeginRequest(c, t) ==
  /\ At(c, "idle")
  /\ ctype' = [ctype EXCEPT ![c] = t]
  /\ Goto(c, IF t = "APPLY_CONFIG" THEN "insert"
             ELSE IF assertCommandAllowed(t, node) THEN "dup" ELSE "done")
  /\ UNCHANGED << status, rowId, nextId, pushes, requestUnchanged >>

SameTypeLive(t) == {d \in Cmd : status[d] \in Live /\ ctype[d] = t}

hasConcurrentDangerous(c) ==
  /\ At(c, "dup")
  /\ Goto(c, IF dangerousCommand(ctype[c]) /\ SameTypeLive(ctype[c]) # {}
             THEN "done" ELSE "insert")
  /\ UNCHANGED << status, ctype, rowId, nextId, pushes, requestUnchanged >>

\* The row may be written although Exec or Commit returns an error (the
\* administrator hung up, the connection to the database broke): the request
\* ends and nobody looks up the hub.  req keeps who was registered when the
\* row appeared.
InsertCommand(c) ==
  /\ At(c, "insert")
  /\ status' = [status EXCEPT ![c] = "PENDING"]
  /\ rowId' = [rowId EXCEPT ![c] = nextId]
  /\ nextId' = nextId + 1
  /\ \/ Goto(c, "lookup")
     \/ "sql" \in Events /\ req' = [req EXCEPT ![c] = [at |-> "failed", conn |-> hub]]
  /\ UNCHANGED << ctype, pushes, requestUnchanged >>

\* agentHub.sendJSON, first half: the connection is read under the lock...
LookupConn(c) ==
  /\ At(c, "lookup")
  /\ req' = [req EXCEPT ![c] = [at   |-> IF hub = NoConn THEN "done" ELSE "write",
                                conn |-> hub]]
  /\ UNCHANGED << status, ctype, rowId, nextId, pushes, requestUnchanged >>

\* ... and written after it.  A connection the Center closed refuses the
\* write; a broken one may too, or the kernel takes the bytes and they are lost.
Accepted(k, c) == link[k] # "closed" /\ pushes' = [pushes EXCEPT ![c] = @ + 1]

Broken(k) == link[k] \in {"broken", "closed"}

Refused(k) == Broken(k) /\ UNCHANGED pushes

\* Faulty: the row is marked SENT though sendJSON returned false.
WriteConn_ignoresRefusal(c) ==
  /\ At(c, "write")
  /\ Accepted(req[c].conn, c) \/ Refused(req[c].conn)
  /\ Goto(c, "mark")
  /\ UNCHANGED << status, ctype, rowId, nextId, requestUnchanged >>

WriteConn(c) ==
  /\ At(c, "write")
  /\ \/ Accepted(req[c].conn, c) /\ Goto(c, "mark")
     \/ Refused(req[c].conn)     /\ Goto(c, "done")
  /\ UNCHANGED << status, ctype, rowId, nextId, requestUnchanged >>

MarkSent(c) ==
  /\ At(c, "mark")
  /\ status' = [status EXCEPT ![c] = "SENT"]
  /\ Goto(c, "done")
  /\ UNCHANGED << ctype, rowId, nextId, pushes, requestUnchanged >>

\* A query or an update of the request fails and changes nothing: its error is
\* returned to the administrator up to the INSERT and ignored after it.
RequestSqlError(c) ==
  /\ "sql" \in Events
  /\ req[c].at \in {"dup", "insert", "mark"}
  /\ Goto(c, "done")
  /\ UNCHANGED << status, ctype, rowId, nextId, pushes, requestUnchanged >>

(***************************************************************************)
(* The agent's connection: agentWebSocket, agentHub.register and remove.   *)
(***************************************************************************)

FlushAt(k, step) == flush[k].at = step

FlushHolds(k, step, todo, row, conn) ==
  flush' = [flush EXCEPT ![k] = [at |-> step, todo |-> todo, cur |-> row, conn |-> conn]]

\* The flush of k moves to a step where it holds no row and no connection.
FlushGoto(k, step, todo) == FlushHolds(k, step, todo, NoCmd, NoConn)

sessionUnchanged == << status, ctype, rowId, nextId, node, req, pushes,
                       granted >>

UpgradeConn(k) ==
  /\ session[k] = "none"
  /\ session' = [session EXCEPT ![k] = "upgraded"]
  /\ link' = [link EXCEPT ![k] = "up"]
  /\ UNCHANGED << hub, flush, sessionUnchanged >>

\* Faulty: the rows left PENDING are not flushed.
RegisterConn_withoutFlush(k) ==
  /\ session[k] = "upgraded"
  /\ session' = [session EXCEPT ![k] = "reading"]
  /\ link' = [j \in Conn |-> IF j = hub THEN "closed" ELSE link[j]]
  /\ hub' = k
  /\ FlushGoto(k, "done", {})
  /\ UNCHANGED sessionUnchanged

RegisterConn(k) ==
  /\ session[k] = "upgraded"
  /\ session' = [session EXCEPT ![k] = "reading"]
  /\ link' = [j \in Conn |-> IF j = hub THEN "closed" ELSE link[j]]
  /\ hub' = k
  /\ FlushGoto(k, "query", {})
  /\ UNCHANGED sessionUnchanged

\* The read loop fails: the connection is closed and leaves the hub, unless a
\* newer one replaced it, and the handler's context is cancelled.
EndSession(k) ==
  /\ session[k] = "reading" /\ Broken(k)
  /\ session' = [session EXCEPT ![k] = "gone"]
  /\ link' = [link EXCEPT ![k] = "closed"]
  /\ hub' = IF hub = k THEN NoConn ELSE hub
  /\ UNCHANGED << flush, sessionUnchanged >>

BreakLink(k) ==
  /\ "break" \in Events
  /\ link[k] = "up"
  /\ link' = [link EXCEPT ![k] = "broken"]
  /\ UNCHANGED << hub, session, flush, sessionUnchanged >>

(***************************************************************************)
(* flushPendingCommands, started by the session of connection k.           *)
(***************************************************************************)

flushUnchanged == << ctype, rowId, nextId, node, req, hub, session, link, granted >>

FlushQuery(k) ==
  /\ FlushAt(k, "query")
  /\ FlushGoto(k, "next", {c \in Cmd : status[c] = "PENDING"})
  /\ UNCHANGED << status, pushes, flushUnchanged >>

\* The next row, in the order of the ids, goes to the hub's current
\* connection: another one than k if k was replaced.
FlushNext(k) ==
  /\ FlushAt(k, "next")
  /\ \E c \in flush[k].todo :
       /\ \A d \in flush[k].todo : rowId[c] <= rowId[d]
       /\ IF hub = NoConn
          THEN FlushGoto(k, "next", flush[k].todo \ {c})
          ELSE FlushHolds(k, "write", flush[k].todo \ {c}, c, hub)
  /\ UNCHANGED << status, pushes, flushUnchanged >>

FlushWrite(k) ==
  /\ FlushAt(k, "write")
  /\ \/ /\ Accepted(flush[k].conn, flush[k].cur)
        /\ FlushHolds(k, "mark", flush[k].todo, flush[k].cur, NoConn)
     \/ /\ Refused(flush[k].conn)
        /\ FlushGoto(k, "next", flush[k].todo)
  /\ UNCHANGED << status, flushUnchanged >>

\* Faulty: the pushed row is not marked.
FlushMark_forgets(k) ==
  /\ FlushAt(k, "mark")
  /\ FlushGoto(k, "next", flush[k].todo)
  /\ UNCHANGED << status, pushes, flushUnchanged >>

FlushMark(k) ==
  /\ FlushAt(k, "mark")
  /\ status' = [status EXCEPT ![flush[k].cur] = "SENT"]
  /\ FlushGoto(k, "next", flush[k].todo)
  /\ UNCHANGED << pushes, flushUnchanged >>

FlushEnd(k) ==
  /\ FlushAt(k, "next")
  /\ flush[k].todo = {}
  /\ FlushGoto(k, "done", {})
  /\ UNCHANGED << status, pushes, flushUnchanged >>

\* The session's context is cancelled, or the database fails: the query
\* returns nothing, the iteration stops, the update of a pushed row is lost.
FlushSqlError(k) ==
  /\ session[k] = "gone" \/ "sql" \in Events
  /\ flush[k].at \in {"query", "next", "mark"}
  /\ IF FlushAt(k, "mark") THEN FlushGoto(k, "next", flush[k].todo)
                           ELSE FlushGoto(k, "failed", {})
  /\ UNCHANGED << status, pushes, flushUnchanged >>

(***************************************************************************)
(* Reports of the agent, and a crash of the Center.                        *)
(***************************************************************************)

reportUnchanged == << ctype, rowId, nextId, node, req, hub, session, flush, link, pushes, granted >>

\* Faulty: the phase the agent reports is stored as the status.
postAgentCommandProgress_phase(c) ==
  /\ status[c] # "ABSENT"
  /\ status' = [status EXCEPT ![c] = "VALIDATING"]
  /\ UNCHANGED reportUnchanged

postAgentCommandProgress(c) ==
  /\ status[c] # "ABSENT"
  /\ status' = [status EXCEPT ![c] = "RUNNING"]
  /\ UNCHANGED reportUnchanged

postAgentCommandResult(c, st) ==
  /\ status[c] # "ABSENT"
  /\ status' = [status EXCEPT ![c] = st]
  /\ UNCHANGED reportUnchanged

\* The database survives; goroutines, the hub and the connections do not.
CenterCrash ==
  /\ "crash" \in Events
  /\ req' = [c \in Cmd |-> IF At(c, "idle") THEN req[c]
                           ELSE [at |-> "done", conn |-> NoConn]]
  /\ hub' = NoConn
  /\ session' = [k \in Conn |-> IF session[k] = "none" THEN "none" ELSE "gone"]
  /\ flush' = [k \in Conn |-> IF FlushAt(k, "none") THEN flush[k]
                              ELSE [at |-> "failed", todo |-> {}, cur |-> NoCmd, conn |-> NoConn]]
  /\ link' = [k \in Conn |-> IF link[k] = "none" THEN "none" ELSE "closed"]
  /\ UNCHANGED << status, ctype, rowId, nextId, node, pushes, granted >>

(***************************************************************************)
(* Specification of the Center with an agent that connects when it likes   *)
(* and reports on any command that was pushed to it.                       *)
(***************************************************************************)

CenterInit ==
  /\ status  = [c \in Cmd |-> "ABSENT"]
  /\ ctype   = [c \in Cmd |-> "STATUS_XRAYR"]
  /\ rowId   = [c \in Cmd |-> 0]
  /\ nextId  = 1
  /\ node    = [writable |-> FALSE, allow |-> {}]
  /\ req     = [c \in Cmd |-> [at |-> "idle", conn |-> NoConn]]
  /\ hub     = NoConn
  /\ session = [k \in Conn |-> "none"]
  /\ flush   = [k \in Conn |-> [at |-> "none", todo |-> {}, cur |-> NoCmd, conn |-> NoConn]]
  /\ link    = [k \in Conn |-> "none"]
  /\ pushes  = [c \in Cmd |-> 0]
  /\ granted = {}

RequestStep(c) ==
  \/ hasConcurrentDangerous(c)
  \/ InsertCommand(c)
  \/ LookupConn(c)
  \/ WriteConn(c)
  \/ MarkSent(c)

FlushStep(k) ==
  \/ FlushQuery(k)
  \/ FlushNext(k)
  \/ FlushWrite(k)
  \/ FlushMark(k)
  \/ FlushEnd(k)

\* What the Center does by itself, on its own data.
CenterAlone ==
  \/ enableWritable
  \/ patchNodeSettings
  \/ \E c \in Cmd :
       \/ \E t \in Types : BeginRequest(c, t)
       \/ RequestStep(c)
       \/ RequestSqlError(c)
  \/ \E k \in Conn :
       \/ RegisterConn(k)
       \/ EndSession(k)
       \/ BreakLink(k)
       \/ FlushStep(k)
       \/ FlushSqlError(k)
  \/ CenterCrash

AnyAgent ==
  \/ agentDiscoveryReport
  \/ \E k \in Conn : UpgradeConn(k)
  \/ \E c \in Cmd :
       /\ pushes[c] > 0
       /\ \/ postAgentCommandProgress(c)
          \/ \E st \in Results : postAgentCommandResult(c, st)

CenterNext == CenterAlone \/ AnyAgent

CenterSpec == CenterInit /\ [][CenterNext]_centerVars

(***************************************************************************)
(* Properties.                                                             *)
(***************************************************************************)

\* Every variable of the Center has the type its code gives it.
CenterTypeOK ==
  /\ status  \in [Cmd -> Statuses]
  /\ ctype   \in [Cmd -> AllTypes]
  /\ rowId   \in [Cmd -> Nat]
  /\ nextId  \in Nat
  /\ node    \in [writable : BOOLEAN, allow : SUBSET AllTypes]
  /\ req     \in [Cmd -> [at   : {"idle", "dup", "insert", "lookup", "write", "mark", "done",
                                  "failed"},
                          conn : ConnOrNo]]
  /\ hub     \in ConnOrNo
  /\ session \in [Conn -> {"none", "upgraded", "reading", "gone"}]
  /\ flush   \in [Conn -> [at   : {"none", "query", "next", "write", "mark", "done", "failed"},
                           todo : SUBSET Cmd,
                           cur  : Cmd \cup {NoCmd},
                           conn : ConnOrNo]]
  /\ link    \in [Conn -> {"none", "up", "broken", "closed"}]
  /\ pushes  \in [Cmd -> Nat]
  /\ granted \in SUBSET AllTypes

\* The request of c is still on its way to the hub's connection.
OwnRequestCovers(c) ==
  \/ At(c, "lookup")
  \/ At(c, "write") /\ req[c].conn = hub

\* The flush started by the hub's connection has yet to deal with c, or died.
FlushCovers(c) ==
  \/ flush[hub].at \in {"query", "failed"}
  \/ c \in flush[hub].todo
  \/ FlushAt(hub, "write") /\ flush[hub].cur = c

\* The request ended with an error over a row it had written: the row has no
\* one to push it as long as this very connection stays registered.
OrphanedOn(c, k) == At(c, "failed") /\ req[c].conn = k

\* No lost wakeup: while the node's agent is connected, a PENDING command is
\* orphaned in one way only.  Its own request or the flush of the current
\* connection will still try it, it was written once already, or the
\* connection is broken and the next one will flush it.  This is what
\* enqueueCommand and agentWebSocket obtain by inserting before the lookup and
\* registering before the flush.  The one way is an INSERT that took effect
\* and was answered with an error while this connection was the hub's: it ends
\* with the connection, since the flush of any later one finds the row.
PendingIsCovered ==
  \A c \in Cmd :
    status[c] = "PENDING" /\ hub # NoConn =>
      \/ OwnRequestCovers(c)
      \/ FlushCovers(c)
      \/ pushes[c] > 0
      \/ Broken(hub)
      \/ OrphanedOn(c, hub)

\* A row that left PENDING was really written to a connection: the Center
\* never counts as sent a push that sendJSON refused.
SentWasPushed ==
  \A c \in Cmd : status[c] \notin {"ABSENT", "PENDING"} => pushes[c] > 0

\* A dangerous command that reaches the queue is of a type the node allowed
\* at some time (assertCommandAllowed).  APPLY_CONFIG is
\* left out: applyConfigDeployFlow does not ask, whatever the node allows.
CheckedTypesWereGranted ==
  \A c \in Cmd :
    status[c] # "ABSENT" /\ ctype[c] \in DangerousTypes \ {"APPLY_CONFIG"} => ctype[c] \in granted

\* The message of enqueueCommand: a second dangerous command of the same type
\* is refused while one is in the queue.
OneDangerousPerType ==
  \A c, d \in Cmd :
    /\ status[c] \in Live /\ status[d] \in Live
    /\ ctype[c] = ctype[d] /\ dangerousCommand(ctype[c])
    => c = d

\* Once the agent's connection stays registered and unbroken, every command
\* that is PENDING is eventually pushed and leaves PENDING.
StablyConnected == hub # NoConn /\ link[hub] = "up"

EventuallySent ==
  <>[]StablyConnected =>
    \A c \in Cmd : (status[c] = "PENDING") ~> (status[c] # "PENDING")

=============================================================================
