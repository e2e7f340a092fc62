------------------------ MODULE CommandSystemProofs ------------------------
(***************************************************************************)
(* Proofs about CommandCenter and CommandSystem, for any number of         *)
(* commands, connections and goroutines, any subset of the faults.         *)
(*                                                                         *)
(* First the Center with any agent.  PendingIsCovered becomes inductive    *)
(* with two facts: the connection in the hub has a session that reads (so  *)
(* nothing but a new registration or the end of that session takes it      *)
(* out), and the flush it started writes to it and to no other while it is *)
(* in the hub.                                                             *)
(*                                                                         *)
(* Then the Center with its agent.  Every step of the system is a step of  *)
(* the Center or breaks a link, so the Center's invariants carry over;     *)
(* with them the agent holds only commands that were written, and its      *)
(* SUCCESS is real.  That is what the refinement of CommandContract needs, *)
(* and a count of the places a written push can be in bounds how often a   *)
(* command is executed.                                                    *)
(***************************************************************************)
EXTENDS CommandSystem, FiniteSetTheorems, TLAPS

USE NoneAssumption, TypesAssumption, ResultsAssumption

-----------------------------------------------------------------------------
(* Type correctness.                                                       *)

LEMMA TypeInit == CenterInit => CenterTypeOK
  BY DEF CenterInit, CenterTypeOK, Statuses, Live, AllTypes, ConnOrNo

\* A step of the node's settings keeps the types.
LEMMA TypeSetNode ==
  ASSUME CenterTypeOK, NEW n \in [writable : BOOLEAN, allow : SUBSET AllTypes], SetNode(n)
  PROVE  CenterTypeOK'
  BY DEF CenterTypeOK, SetNode, Grants

LEMMA TypeSettings ==
  ASSUME CenterTypeOK, enableWritable \/ patchNodeSettings \/ agentDiscoveryReport
  PROVE  CenterTypeOK'
<1>1. CASE enableWritable
  <2>1. [writable |-> TRUE, allow |-> DangerousTypes] \in [writable : BOOLEAN, allow : SUBSET AllTypes]
    BY DEF DangerousTypes
  <2>2. QED BY <1>1, <2>1, TypeSetNode DEF enableWritable
<1>2. CASE patchNodeSettings
  <2>1. ASSUME NEW w \in BOOLEAN, NEW on \in SUBSET (Types \cap DangerousTypes)
        PROVE  [writable |-> w, allow |-> (node.allow \ Types) \cup on]
                 \in [writable : BOOLEAN, allow : SUBSET AllTypes]
    BY DEF CenterTypeOK
  <2>2. QED BY <1>2, <2>1, TypeSetNode DEF patchNodeSettings
<1>3. CASE agentDiscoveryReport
  <2>1. [node EXCEPT !.writable = FALSE] \in [writable : BOOLEAN, allow : SUBSET AllTypes]
    BY DEF CenterTypeOK
  <2>2. QED BY <1>3, <2>1, TypeSetNode DEF agentDiscoveryReport
<1>4. QED BY <1>1, <1>2, <1>3

LEMMA TypeRequest ==
  ASSUME CenterTypeOK, NEW c \in Cmd,
         (\E t \in Types : BeginRequest(c, t)) \/ RequestStep(c) \/ RequestSqlError(c)
  PROVE  CenterTypeOK'
<1> USE DEF CenterTypeOK, Goto, At, ConnOrNo, Statuses, Live
<1>1. ASSUME NEW t \in Types, BeginRequest(c, t) PROVE CenterTypeOK'
  BY <1>1 DEF BeginRequest, requestUnchanged
<1>2. CASE hasConcurrentDangerous(c)
  BY <1>2 DEF hasConcurrentDangerous, requestUnchanged
<1>3. CASE InsertCommand(c)
  BY <1>3 DEF InsertCommand, requestUnchanged
<1>4. CASE LookupConn(c)
  BY <1>4 DEF LookupConn, requestUnchanged
<1>5. CASE WriteConn(c)
  BY <1>5 DEF WriteConn, Accepted, Refused, Broken, requestUnchanged
<1>6. CASE MarkSent(c)
  BY <1>6 DEF MarkSent, requestUnchanged
<1>7. CASE RequestSqlError(c)
  BY <1>7 DEF RequestSqlError, requestUnchanged
<1>8. QED BY <1>1, <1>2, <1>3, <1>4, <1>5, <1>6, <1>7 DEF RequestStep

LEMMA TypeSession ==
  ASSUME CenterTypeOK, NEW k \in Conn,
         UpgradeConn(k) \/ RegisterConn(k) \/ EndSession(k) \/ BreakLink(k)
  PROVE  CenterTypeOK'
<1> USE DEF CenterTypeOK, ConnOrNo, sessionUnchanged
<1>1. CASE UpgradeConn(k) BY <1>1 DEF UpgradeConn
<1>2. CASE RegisterConn(k) BY <1>2 DEF RegisterConn, FlushGoto, FlushHolds
<1>3. CASE EndSession(k) BY <1>3 DEF EndSession, Broken
<1>4. CASE BreakLink(k) BY <1>4 DEF BreakLink
<1>5. QED BY <1>1, <1>2, <1>3, <1>4

\* A flush holds a row exactly while it writes and marks it.
FlushHoldsRow ==
  \A k \in Conn : flush[k].at \in {"write", "mark"} => flush[k].cur \in Cmd

LEMMA TypeFlush ==
  ASSUME CenterTypeOK, FlushHoldsRow, NEW k \in Conn, FlushStep(k) \/ FlushSqlError(k)
  PROVE  CenterTypeOK'
<1> USE DEF CenterTypeOK, ConnOrNo, FlushAt, FlushGoto, FlushHolds, flushUnchanged
<1>1. CASE FlushQuery(k)
  <2>1. {c \in Cmd : status[c] = "PENDING"} \in SUBSET Cmd
    OBVIOUS
  <2>2. QED BY <1>1, <2>1 DEF FlushQuery
<1>2. CASE FlushNext(k)
  <2>1. PICK c \in flush[k].todo :
          IF hub = NoConn THEN FlushGoto(k, "next", flush[k].todo \ {c})
                          ELSE FlushHolds(k, "write", flush[k].todo \ {c}, c, hub)
    BY <1>2 DEF FlushNext
  <2>2. c \in Cmd /\ flush[k].todo \ {c} \in SUBSET Cmd
    OBVIOUS
  <2>3. CASE hub = NoConn BY <1>2, <2>1, <2>2, <2>3 DEF FlushNext
  <2>4. CASE hub # NoConn BY <1>2, <2>1, <2>2, <2>4 DEF FlushNext
  <2>5. QED BY <2>3, <2>4
<1>3. CASE FlushWrite(k)
  <2>1. flush[k].cur \in Cmd
    BY <1>3 DEF FlushWrite, FlushHoldsRow
  <2>2. CASE Accepted(flush[k].conn, flush[k].cur) /\ FlushHolds(k, "mark", flush[k].todo, flush[k].cur, NoConn)
    BY <1>3, <2>1, <2>2 DEF FlushWrite, Accepted
  <2>3. CASE Refused(flush[k].conn) /\ FlushGoto(k, "next", flush[k].todo)
    BY <1>3, <2>3 DEF FlushWrite, Refused
  <2>4. QED BY <1>3, <2>2, <2>3 DEF FlushWrite
<1>4. CASE FlushMark(k) BY <1>4 DEF FlushMark, Statuses, Live, FlushHoldsRow
<1>5. CASE FlushEnd(k) BY <1>5 DEF FlushEnd
<1>6. CASE FlushSqlError(k) BY <1>6 DEF FlushSqlError
<1>7. QED BY <1>1, <1>2, <1>3, <1>4, <1>5, <1>6 DEF FlushStep

LEMMA TypeReport ==
  ASSUME CenterTypeOK, NEW c \in Cmd,
         \/ postAgentCommandProgress(c)
         \/ \E st \in Results : postAgentCommandResult(c, st)
  PROVE  CenterTypeOK'
  BY DEF CenterTypeOK, postAgentCommandProgress, postAgentCommandResult,
         reportUnchanged, Statuses, Live

LEMMA TypeCrash ==
  ASSUME CenterTypeOK, CenterCrash
  PROVE  CenterTypeOK'
  BY DEF CenterTypeOK, CenterCrash, ConnOrNo, At, FlushAt

-----------------------------------------------------------------------------
(* The three facts about flushes and the hub.                              *)

\* The connection in the hub has a handler in its read loop.
HubReads == hub # NoConn => session[hub] = "reading"

\* As long as its connection is in the hub, a flush writes to that connection.
FlushHoldsHub == hub # NoConn /\ FlushAt(hub, "write") => flush[hub].conn = hub

Shape == CenterTypeOK /\ FlushHoldsRow /\ HubReads /\ FlushHoldsHub

LEMMA ShapeInit == CenterInit => Shape
<1>1. CenterInit => FlushHoldsRow /\ HubReads /\ FlushHoldsHub
  BY DEF CenterInit, FlushHoldsRow, HubReads, FlushHoldsHub
<1>2. QED BY <1>1, TypeInit DEF Shape

LEMMA ShapeSession ==
  ASSUME Shape, NEW k \in Conn,
         UpgradeConn(k) \/ RegisterConn(k) \/ EndSession(k) \/ BreakLink(k)
  PROVE  Shape'
<1>1. CenterTypeOK'
  BY TypeSession DEF Shape
<1> USE DEF Shape, CenterTypeOK, ConnOrNo, FlushHoldsRow, HubReads, FlushHoldsHub, FlushAt
<1>2. (FlushHoldsRow /\ HubReads /\ FlushHoldsHub)'
  <2>1. CASE UpgradeConn(k) BY <2>1 DEF UpgradeConn
  <2>2. CASE RegisterConn(k) BY <2>2 DEF RegisterConn, FlushGoto, FlushHolds
  <2>3. CASE EndSession(k) BY <2>3 DEF EndSession, Broken
  <2>4. CASE BreakLink(k) BY <2>4 DEF BreakLink
  <2>5. QED BY <2>1, <2>2, <2>3, <2>4
<1>3. QED BY <1>1, <1>2

LEMMA ShapeFlush ==
  ASSUME Shape, NEW k \in Conn, FlushStep(k) \/ FlushSqlError(k)
  PROVE  Shape'
<1>1. CenterTypeOK'
  BY TypeFlush DEF Shape
<1> USE DEF Shape, CenterTypeOK, ConnOrNo, FlushHoldsRow, HubReads, FlushHoldsHub, FlushAt,
            FlushGoto, FlushHolds, flushUnchanged
<1>2. (FlushHoldsRow /\ HubReads /\ FlushHoldsHub)'
  <2>1. CASE FlushQuery(k) BY <2>1 DEF FlushQuery
  <2>2. CASE FlushNext(k)
    <3>1. PICK c \in flush[k].todo :
            IF hub = NoConn THEN FlushGoto(k, "next", flush[k].todo \ {c})
                            ELSE FlushHolds(k, "write", flush[k].todo \ {c}, c, hub)
      BY <2>2 DEF FlushNext
    <3>2. c \in Cmd
      OBVIOUS
    <3>3. UNCHANGED << hub, session >>
      BY <2>2 DEF FlushNext
    <3>4. CASE hub = NoConn BY <3>1, <3>3, <3>4
    <3>5. CASE hub # NoConn
      <4>1. flush'[k] = [at |-> "write", todo |-> flush[k].todo \ {c}, cur |-> c, conn |-> hub]
        BY <3>1, <3>5
      <4>2. \A j \in Conn \ {k} : flush'[j] = flush[j]
        BY <3>1, <3>5
      <4>3. flush'[k].cur \in Cmd /\ flush'[k].conn = hub
        BY <3>2, <4>1
      <4>4. FlushHoldsRow'
        BY <4>2, <4>3
      <4>5. FlushHoldsHub'
        BY <3>3, <3>5, <4>2, <4>3
      <4>6. QED BY <3>3, <4>4, <4>5
    <3>6. QED BY <3>4, <3>5
  <2>3. CASE FlushWrite(k)
    <3>1. UNCHANGED << hub, session >> /\ flush[k].cur \in Cmd
      BY <2>3 DEF FlushWrite
    <3>2. CASE FlushHolds(k, "mark", flush[k].todo, flush[k].cur, NoConn) BY <3>1, <3>2
    <3>3. CASE FlushGoto(k, "next", flush[k].todo) BY <3>1, <3>3
    <3>4. QED BY <2>3, <3>2, <3>3 DEF FlushWrite
  <2>4. CASE FlushMark(k) BY <2>4 DEF FlushMark
  <2>5. CASE FlushEnd(k) BY <2>5 DEF FlushEnd
  <2>6. CASE FlushSqlError(k)
    <3>1. UNCHANGED << hub, session >>
      BY <2>6 DEF FlushSqlError
    <3>2. /\ flush'[k].at \in {"next", "failed"}
          /\ \A j \in Conn \ {k} : flush'[j] = flush[j]
      BY <2>6 DEF FlushSqlError
    <3>3. QED BY <3>1, <3>2
  <2>7. QED BY <2>1, <2>2, <2>3, <2>4, <2>5, <2>6 DEF FlushStep
<1>3. QED BY <1>1, <1>2

\* The other steps touch neither a flush, nor the hub, nor a session.
LEMMA ShapeUnchanged ==
  ASSUME Shape, CenterTypeOK', UNCHANGED << flush, hub, session >>
  PROVE  Shape'
  BY DEF Shape, FlushHoldsRow, HubReads, FlushHoldsHub, FlushAt

-----------------------------------------------------------------------------
(* No lost wakeup.                                                         *)

\* A request either keeps its command on the way to the hub's connection, or
\* ends with the command sent, written, or the connection broken.
LEMMA CoveredRequest ==
  ASSUME Shape, PendingIsCovered, NEW c \in Cmd,
         (\E t \in Types : BeginRequest(c, t)) \/ RequestStep(c) \/ RequestSqlError(c)
  PROVE  PendingIsCovered'
<1> USE DEF Shape, CenterTypeOK, ConnOrNo, PendingIsCovered, OwnRequestCovers, FlushCovers, OrphanedOn,
            Broken, At, FlushAt, Goto, requestUnchanged
<1>1. ASSUME NEW t \in Types, BeginRequest(c, t) PROVE PendingIsCovered'
  BY <1>1 DEF BeginRequest
<1>2. CASE hasConcurrentDangerous(c) BY <1>2 DEF hasConcurrentDangerous
<1>3. CASE InsertCommand(c)
  <2>1. CASE Goto(c, "lookup") BY <1>3, <2>1 DEF InsertCommand
  <2>2. CASE req' = [req EXCEPT ![c] = [at |-> "failed", conn |-> hub]]
    BY <1>3, <2>2 DEF InsertCommand
  <2>3. QED BY <1>3, <2>1, <2>2 DEF InsertCommand
<1>4. CASE LookupConn(c) BY <1>4 DEF LookupConn
<1>5. CASE WriteConn(c)
  <2>1. CASE Accepted(req[c].conn, c) BY <1>5, <2>1 DEF WriteConn, Accepted
  <2>2. CASE Refused(req[c].conn) /\ Goto(c, "done") BY <1>5, <2>2 DEF WriteConn, Refused
  <2>3. QED BY <1>5, <2>1, <2>2 DEF WriteConn
<1>6. CASE MarkSent(c) BY <1>6 DEF MarkSent
<1>7. CASE RequestSqlError(c) BY <1>7 DEF RequestSqlError
<1>8. QED BY <1>1, <1>2, <1>3, <1>4, <1>5, <1>6, <1>7 DEF RequestStep

\* A new connection covers every row by the flush it starts; the one in the
\* hub cannot be upgraded again, it only breaks or leaves.
LEMMA CoveredSession ==
  ASSUME Shape, PendingIsCovered, NEW k \in Conn,
         UpgradeConn(k) \/ RegisterConn(k) \/ EndSession(k) \/ BreakLink(k)
  PROVE  PendingIsCovered'
<1> USE DEF Shape, CenterTypeOK, ConnOrNo, PendingIsCovered, OwnRequestCovers, FlushCovers, OrphanedOn,
            Broken, At, FlushAt, sessionUnchanged
<1>1. CASE UpgradeConn(k) BY <1>1 DEF UpgradeConn, HubReads
<1>2. CASE RegisterConn(k)
  <2>1. hub' = k /\ flush'[k].at = "query"
    BY <1>2 DEF RegisterConn, FlushGoto, FlushHolds
  <2>2. QED BY <2>1
<1>3. CASE EndSession(k) BY <1>3 DEF EndSession, Broken
<1>4. CASE BreakLink(k) BY <1>4 DEF BreakLink
<1>5. QED BY <1>1, <1>2, <1>3, <1>4

\* The flush of the hub's connection takes every PENDING row, writes each to
\* that connection, and drops one only when the write is refused.
LEMMA CoveredFlush ==
  ASSUME Shape, PendingIsCovered, NEW k \in Conn, FlushStep(k) \/ FlushSqlError(k)
  PROVE  PendingIsCovered'
<1> USE DEF Shape, CenterTypeOK, ConnOrNo, PendingIsCovered, OwnRequestCovers, FlushCovers, OrphanedOn,
            Broken, At, FlushAt, FlushGoto, FlushHolds, flushUnchanged
<1>1. CASE FlushQuery(k) BY <1>1 DEF FlushQuery
<1>2. CASE FlushNext(k)
  <2>1. PICK c \in flush[k].todo :
          IF hub = NoConn THEN FlushGoto(k, "next", flush[k].todo \ {c})
                          ELSE FlushHolds(k, "write", flush[k].todo \ {c}, c, hub)
    BY <1>2 DEF FlushNext
  <2>2. CASE hub = NoConn BY <1>2, <2>2 DEF FlushNext
  <2>3. CASE hub # NoConn
    <3>1. UNCHANGED << status, pushes, hub, link, req >>
      BY <1>2 DEF FlushNext
    <3>2. SUFFICES ASSUME NEW d \in Cmd, status[d] = "PENDING",
                          ~OwnRequestCovers(d), ~(pushes[d] > 0), ~Broken(hub),
                          ~OrphanedOn(d, hub)
                   PROVE  FlushCovers(d)'
      BY <3>1
    <3>3. FlushCovers(d)
      BY <2>3, <3>1, <3>2
    <3>4. CASE hub = k
      <4>1. d = c \/ d \in flush[k].todo \ {c} \/ flush[k].at = "failed"
        BY <1>2, <3>3, <3>4 DEF FlushNext
      <4>2. flush'[k] = [at |-> "write", todo |-> flush[k].todo \ {c}, cur |-> c, conn |-> hub]
        BY <2>1, <2>3
      <4>3. QED BY <1>2, <3>1, <3>4, <4>1, <4>2 DEF FlushNext
    <3>5. CASE hub # k
      <4>1. flush'[hub] = flush[hub]
        BY <2>1, <2>3, <3>5
      <4>2. QED BY <3>1, <3>3, <4>1
    <3>6. QED BY <3>4, <3>5
  <2>4. QED BY <2>2, <2>3
<1>3. CASE FlushWrite(k)
  <2>1. flush[k].cur \in Cmd
    BY <1>3 DEF FlushWrite, FlushHoldsRow
  <2>2. CASE Accepted(flush[k].conn, flush[k].cur) /\ FlushHolds(k, "mark", flush[k].todo, flush[k].cur, NoConn)
    BY <1>3, <2>1, <2>2 DEF FlushWrite, Accepted
  <2>3. CASE Refused(flush[k].conn) /\ FlushGoto(k, "next", flush[k].todo)
    BY <1>3, <2>1, <2>3 DEF FlushWrite, Refused, FlushHoldsHub
  <2>4. QED BY <1>3, <2>2, <2>3 DEF FlushWrite
<1>4. CASE FlushMark(k) BY <1>4 DEF FlushMark
<1>5. CASE FlushEnd(k) BY <1>5 DEF FlushEnd
<1>6. CASE FlushSqlError(k)
  <2>1. CASE FlushAt(k, "mark") BY <1>6, <2>1 DEF FlushSqlError
  <2>2. CASE ~FlushAt(k, "mark") /\ flush[k].at # "write"
    <3>1. UNCHANGED << status, pushes, hub, link, req >>
      BY <1>6 DEF FlushSqlError
    <3>2. flush'[k].at = "failed" /\ \A j \in Conn \ {k} : flush'[j] = flush[j]
      BY <1>6, <2>2 DEF FlushSqlError
    <3>3. QED BY <3>1, <3>2
  <2>3. QED BY <1>6, <2>1, <2>2 DEF FlushSqlError
<1>7. QED BY <1>1, <1>2, <1>3, <1>4, <1>5, <1>6 DEF FlushStep

LEMMA CoveredReport ==
  ASSUME Shape, PendingIsCovered, NEW c \in Cmd,
         \/ postAgentCommandProgress(c)
         \/ \E st \in Results : postAgentCommandResult(c, st)
  PROVE  PendingIsCovered'
  BY DEF Shape, CenterTypeOK, PendingIsCovered, OwnRequestCovers, FlushCovers, OrphanedOn, Broken, At, FlushAt,
         postAgentCommandProgress, postAgentCommandResult, reportUnchanged

-----------------------------------------------------------------------------
(* The theorems.                                                           *)

CoverInv == Shape /\ PendingIsCovered

LEMMA CoverInit == CenterInit => CoverInv
<1>1. CenterInit => PendingIsCovered
  BY DEF CenterInit, PendingIsCovered
<1>2. QED BY <1>1, ShapeInit DEF CoverInv

LEMMA CoverStep == CoverInv /\ [CenterNext]_centerVars => CoverInv'
<1> SUFFICES ASSUME CoverInv, [CenterNext]_centerVars PROVE CoverInv'
  OBVIOUS
<1> USE DEF CoverInv
<1>1. CenterTypeOK
  BY DEF Shape
<1>2. ASSUME NEW c \in Cmd,
             (\E t \in Types : BeginRequest(c, t)) \/ RequestStep(c) \/ RequestSqlError(c)
      PROVE  CoverInv'
  <2>1. UNCHANGED << flush, hub, session >>
    BY <1>2 DEF BeginRequest, RequestStep, RequestSqlError, hasConcurrentDangerous,
                InsertCommand, LookupConn, WriteConn, MarkSent, requestUnchanged
  <2>2. CenterTypeOK'
    BY <1>1, <1>2, TypeRequest
  <2>3. QED BY <1>2, <2>1, <2>2, ShapeUnchanged, CoveredRequest
<1>3. ASSUME NEW k \in Conn, UpgradeConn(k) \/ RegisterConn(k) \/ EndSession(k) \/ BreakLink(k)
      PROVE  CoverInv'
  BY <1>3, ShapeSession, CoveredSession
<1>4. ASSUME NEW k \in Conn, FlushStep(k) \/ FlushSqlError(k)
      PROVE  CoverInv'
  BY <1>4, ShapeFlush, CoveredFlush
<1>5. ASSUME NEW c \in Cmd,
             \/ postAgentCommandProgress(c)
             \/ \E st \in Results : postAgentCommandResult(c, st)
      PROVE  CoverInv'
  <2>1. UNCHANGED << flush, hub, session >>
    BY <1>5 DEF postAgentCommandProgress, postAgentCommandResult, reportUnchanged
  <2>2. CenterTypeOK'
    BY <1>1, <1>5, TypeReport
  <2>3. QED BY <1>5, <2>1, <2>2, ShapeUnchanged, CoveredReport
<1>6. CASE enableWritable \/ patchNodeSettings \/ agentDiscoveryReport
  <2>1. UNCHANGED << status, req, hub, session, flush, link, pushes >>
    BY <1>6 DEF enableWritable, patchNodeSettings, agentDiscoveryReport, SetNode
  <2>2. CenterTypeOK'
    BY <1>1, <1>6, TypeSettings
  <2>3. PendingIsCovered'
    BY <2>1 DEF PendingIsCovered, OwnRequestCovers, FlushCovers, OrphanedOn, Broken, At, FlushAt
  <2>4. QED BY <2>1, <2>2, <2>3, ShapeUnchanged
<1>7. CASE CenterCrash
  <2>1. CenterTypeOK' /\ hub' = NoConn
    BY <1>1, <1>7, TypeCrash DEF CenterCrash
  <2>2. FlushHoldsRow'
    BY <1>1, <1>7 DEF CenterCrash, CenterTypeOK, FlushHoldsRow, FlushAt
  <2>3. QED BY <2>1, <2>2 DEF Shape, HubReads, FlushHoldsHub, PendingIsCovered
<1>8. CASE UNCHANGED centerVars
  <2>1. CenterTypeOK'
    BY <1>1, <1>8 DEF centerVars, CenterTypeOK
  <2>2. PendingIsCovered'
    BY <1>8 DEF centerVars, PendingIsCovered, OwnRequestCovers, FlushCovers, OrphanedOn, Broken, At, FlushAt
  <2>3. QED BY <1>8, <2>1, <2>2, ShapeUnchanged DEF centerVars
<1>9. QED
  BY <1>2, <1>3, <1>4, <1>5, <1>6, <1>7, <1>8 DEF CenterNext, CenterAlone, AnyAgent

LEMMA CoverInvariant == CenterSpec => []CoverInv
<1>1. QED BY CoverInit, CoverStep, PTL DEF CenterSpec

\* Every variable keeps its type: no request, flush or report leaves the
\* tables or the hub with a value the code does not know.
THEOREM TypeCorrect == CenterSpec => []CenterTypeOK
<1>1. CoverInv => CenterTypeOK
  BY DEF CoverInv, Shape
<1>2. QED BY <1>1, CoverInvariant, PTL

\* While the agent is connected, no command stays PENDING with nobody left to
\* push it: what enqueueCommand, register and flushPendingCommands obtain
\* together by the order of their steps.  An INSERT that took effect under an
\* error is the one exception, until the next connection registers.
THEOREM NoLostWakeup == CenterSpec => []PendingIsCovered
<1>1. CoverInv => PendingIsCovered
  BY DEF CoverInv
<1>2. QED BY <1>1, CoverInvariant, PTL

-----------------------------------------------------------------------------
(* A row counts as sent only after a write.                                *)

\* A goroutine about to mark a row has written it.
MarksWhatItWrote ==
  /\ \A c \in Cmd : At(c, "mark") => pushes[c] > 0
  /\ \A k \in Conn : FlushAt(k, "mark") => pushes[flush[k].cur] > 0

SentInv == Shape /\ MarksWhatItWrote /\ SentWasPushed

LEMMA SentRequest ==
  ASSUME SentInv, NEW c \in Cmd,
         (\E t \in Types : BeginRequest(c, t)) \/ RequestStep(c) \/ RequestSqlError(c)
  PROVE  (MarksWhatItWrote /\ SentWasPushed)'
<1> USE DEF SentInv, Shape, CenterTypeOK, ConnOrNo, MarksWhatItWrote, SentWasPushed, FlushHoldsRow,
            At, FlushAt, Goto, requestUnchanged
<1>1. ASSUME NEW t \in Types, BeginRequest(c, t) PROVE (MarksWhatItWrote /\ SentWasPushed)'
  BY <1>1 DEF BeginRequest
<1>2. CASE hasConcurrentDangerous(c) BY <1>2 DEF hasConcurrentDangerous
<1>3. CASE InsertCommand(c) BY <1>3 DEF InsertCommand
<1>4. CASE LookupConn(c) BY <1>4 DEF LookupConn
<1>5. CASE WriteConn(c)
  <2>1. CASE Accepted(req[c].conn, c) /\ Goto(c, "mark")
    <3>1. pushes'[c] > 0 /\ \A d \in Cmd : pushes[d] > 0 => pushes'[d] > 0
      BY <2>1 DEF Accepted
    <3>2. UNCHANGED << status, flush >>
      BY <1>5 DEF WriteConn
    <3>3. \A d \in Cmd : d # c => req'[d] = req[d]
      BY <2>1
    <3>4. SentWasPushed'
      BY <3>1, <3>2
    <3>5. \A k \in Conn : FlushAt(k, "mark") => pushes'[flush[k].cur] > 0
      BY <3>1
    <3>6. \A d \in Cmd : req'[d].at = "mark" => pushes'[d] > 0
      BY <3>1, <3>3
    <3>7. QED BY <3>2, <3>4, <3>5, <3>6
  <2>2. CASE Refused(req[c].conn) /\ Goto(c, "done") BY <1>5, <2>2 DEF WriteConn, Refused
  <2>3. QED BY <1>5, <2>1, <2>2 DEF WriteConn
<1>6. CASE MarkSent(c) BY <1>6 DEF MarkSent
<1>7. CASE RequestSqlError(c) BY <1>7 DEF RequestSqlError
<1>8. QED BY <1>1, <1>2, <1>3, <1>4, <1>5, <1>6, <1>7 DEF RequestStep

LEMMA SentFlush ==
  ASSUME SentInv, NEW k \in Conn, FlushStep(k) \/ FlushSqlError(k)
  PROVE  (MarksWhatItWrote /\ SentWasPushed)'
<1> USE DEF SentInv, Shape, CenterTypeOK, ConnOrNo, MarksWhatItWrote, SentWasPushed, FlushHoldsRow,
            At, FlushAt, FlushGoto, FlushHolds, flushUnchanged
<1>1. CASE FlushQuery(k) BY <1>1 DEF FlushQuery
<1>2. CASE FlushNext(k)
  <2>1. UNCHANGED << status, pushes, req >>
    BY <1>2 DEF FlushNext
  <2>2. /\ flush'[k].at \in {"next", "write"}
        /\ \A j \in Conn \ {k} : flush'[j] = flush[j]
    BY <1>2 DEF FlushNext
  <2>3. QED BY <2>1, <2>2
<1>3. CASE FlushWrite(k)
  <2>1. flush[k].cur \in Cmd
    BY <1>3 DEF FlushWrite
  <2>2. CASE /\ Accepted(flush[k].conn, flush[k].cur)
             /\ FlushHolds(k, "mark", flush[k].todo, flush[k].cur, NoConn)
    <3>1. pushes'[flush[k].cur] > 0 /\ \A d \in Cmd : pushes[d] > 0 => pushes'[d] > 0
      BY <2>1, <2>2 DEF Accepted
    <3>2. UNCHANGED << status, req >>
      BY <1>3 DEF FlushWrite
    <3>3. /\ flush'[k].cur = flush[k].cur
          /\ \A j \in Conn \ {k} : flush'[j] = flush[j]
      BY <2>2
    <3>4. \A j \in Conn : flush'[j].at = "mark" => pushes'[flush'[j].cur] > 0
      BY <3>1, <3>3
    <3>5. QED BY <3>1, <3>2, <3>4
  <2>3. CASE Refused(flush[k].conn) /\ FlushGoto(k, "next", flush[k].todo)
    BY <1>3, <2>3 DEF FlushWrite, Refused
  <2>4. QED BY <1>3, <2>2, <2>3 DEF FlushWrite
<1>4. CASE FlushMark(k) BY <1>4 DEF FlushMark
<1>5. CASE FlushEnd(k) BY <1>5 DEF FlushEnd
<1>6. CASE FlushSqlError(k)
  <2>1. UNCHANGED << status, pushes, req >>
    BY <1>6 DEF FlushSqlError
  <2>2. /\ flush'[k].at \in {"next", "failed"}
        /\ \A j \in Conn \ {k} : flush'[j] = flush[j]
    BY <1>6 DEF FlushSqlError
  <2>3. QED BY <2>1, <2>2
<1>7. QED BY <1>1, <1>2, <1>3, <1>4, <1>5, <1>6 DEF FlushStep

LEMMA SentInit == CenterInit => SentInv
<1>1. CenterInit => MarksWhatItWrote /\ SentWasPushed
  BY DEF CenterInit, MarksWhatItWrote, SentWasPushed, At, FlushAt
<1>2. QED BY <1>1, ShapeInit DEF SentInv

LEMMA SentStep == SentInv /\ Shape' /\ [CenterNext]_centerVars => SentInv'
<1> SUFFICES ASSUME SentInv, Shape', [CenterNext]_centerVars
             PROVE  (MarksWhatItWrote /\ SentWasPushed)'
  BY DEF SentInv
<1>1. ASSUME NEW c \in Cmd,
             (\E t \in Types : BeginRequest(c, t)) \/ RequestStep(c) \/ RequestSqlError(c)
      PROVE  (MarksWhatItWrote /\ SentWasPushed)'
  BY <1>1, SentRequest
<1>2. ASSUME NEW k \in Conn, FlushStep(k) \/ FlushSqlError(k)
      PROVE  (MarksWhatItWrote /\ SentWasPushed)'
  BY <1>2, SentFlush
<1> USE DEF SentInv, Shape, CenterTypeOK, MarksWhatItWrote, SentWasPushed, At, FlushAt
<1>3. ASSUME NEW k \in Conn, UpgradeConn(k) \/ RegisterConn(k) \/ EndSession(k) \/ BreakLink(k)
      PROVE  (MarksWhatItWrote /\ SentWasPushed)'
  <2>1. UNCHANGED << status, pushes, req >>
    BY <1>3 DEF UpgradeConn, RegisterConn, EndSession, BreakLink, sessionUnchanged
  <2>2. \A j \in Conn : flush'[j] = flush[j] \/ flush'[j].at = "query"
    BY <1>3 DEF UpgradeConn, RegisterConn, EndSession, BreakLink, FlushGoto, FlushHolds
  <2>3. QED BY <2>1, <2>2
<1>4. ASSUME NEW c \in Cmd, pushes[c] > 0,
             \/ postAgentCommandProgress(c)
             \/ \E st \in Results : postAgentCommandResult(c, st)
      PROVE  (MarksWhatItWrote /\ SentWasPushed)'
  BY <1>4 DEF postAgentCommandProgress, postAgentCommandResult, reportUnchanged
<1>5. CASE enableWritable \/ patchNodeSettings \/ agentDiscoveryReport
  <2>1. UNCHANGED << status, req, flush, pushes >>
    BY <1>5 DEF enableWritable, patchNodeSettings, agentDiscoveryReport, SetNode
  <2>2. QED BY <2>1
<1>6. CASE CenterCrash
  <2>1. UNCHANGED << status, pushes >>
    BY <1>6 DEF CenterCrash
  <2>2. (\A c \in Cmd : req'[c].at # "mark") /\ (\A k \in Conn : flush'[k].at # "mark")
    BY <1>6 DEF CenterCrash
  <2>3. QED BY <2>1, <2>2
<1>7. CASE UNCHANGED centerVars
  BY <1>7 DEF centerVars
<1>8. QED
  BY <1>1, <1>2, <1>3, <1>4, <1>5, <1>6, <1>7 DEF CenterNext, CenterAlone, AnyAgent

\* The Center never counts a refused push as sent: a row leaves PENDING only
\* after sendJSON returned true, for a request as for a flush.
THEOREM NoPushIsInvented == CenterSpec => []SentWasPushed
<1>1. CoverInv => Shape
  BY DEF CoverInv
<1>2. SentInv => SentWasPushed
  BY DEF SentInv
<1>3. QED BY <1>1, <1>2, CoverInvariant, SentInit, SentStep, PTL DEF CenterSpec

-----------------------------------------------------------------------------
(* Permissions.                                                            *)

\* The rows that requests and flushes hold have been inserted.
RowsExist ==
  /\ \A c \in Cmd : req[c].at \in {"lookup", "write", "mark"} => status[c] # "ABSENT"
  /\ \A k \in Conn : \A c \in flush[k].todo : status[c] # "ABSENT"
  /\ \A k \in Conn : flush[k].at \in {"write", "mark"} => status[flush[k].cur] # "ABSENT"

\* No step takes a row out of the table.
LEMMA RowsStay ==
  ASSUME CenterTypeOK, FlushHoldsRow, [CenterNext]_centerVars
  PROVE  \A c \in Cmd : status[c] # "ABSENT" => status'[c] # "ABSENT"
<1> USE DEF CenterTypeOK, FlushHoldsRow
<1>1. ASSUME NEW c \in Cmd, InsertCommand(c) \/ MarkSent(c) \/ postAgentCommandProgress(c)
      PROVE  \A d \in Cmd : status[d] # "ABSENT" => status'[d] # "ABSENT"
  BY <1>1 DEF InsertCommand, MarkSent, postAgentCommandProgress
<1>2. ASSUME NEW c \in Cmd, NEW st \in Results, postAgentCommandResult(c, st)
      PROVE  \A d \in Cmd : status[d] # "ABSENT" => status'[d] # "ABSENT"
  BY <1>2 DEF postAgentCommandResult
<1>3. ASSUME NEW k \in Conn, FlushMark(k)
      PROVE  \A d \in Cmd : status[d] # "ABSENT" => status'[d] # "ABSENT"
  BY <1>3 DEF FlushMark, FlushAt
<1>4. ASSUME NEW c \in Cmd, \/ \E t \in Types : BeginRequest(c, t)
                            \/ hasConcurrentDangerous(c) \/ LookupConn(c)
                            \/ WriteConn(c) \/ RequestSqlError(c)
      PROVE  UNCHANGED status
  BY <1>4 DEF BeginRequest, hasConcurrentDangerous, LookupConn, WriteConn, RequestSqlError
<1>5. ASSUME NEW k \in Conn,
             \/ UpgradeConn(k) \/ RegisterConn(k) \/ EndSession(k) \/ BreakLink(k)
             \/ FlushQuery(k) \/ FlushNext(k) \/ FlushWrite(k) \/ FlushEnd(k) \/ FlushSqlError(k)
      PROVE  UNCHANGED status
  BY <1>5 DEF UpgradeConn, RegisterConn, EndSession, BreakLink, sessionUnchanged, FlushQuery,
              FlushNext, FlushWrite, FlushEnd, FlushSqlError
<1>6. CASE \/ enableWritable \/ patchNodeSettings \/ agentDiscoveryReport
           \/ CenterCrash \/ UNCHANGED centerVars
  BY <1>6 DEF enableWritable, patchNodeSettings, agentDiscoveryReport, SetNode, CenterCrash, centerVars
<1>7. QED
  BY <1>1, <1>2, <1>3, <1>4, <1>5, <1>6
     DEF CenterNext, CenterAlone, AnyAgent, RequestStep, FlushStep

LEMMA RowsInit == CenterInit => RowsExist
  BY DEF CenterInit, RowsExist

\* A request holds its row from the INSERT on, a flush those of its query.
LEMMA RowsStep == Shape /\ Shape' /\ RowsExist /\ [CenterNext]_centerVars => RowsExist'
<1> SUFFICES ASSUME Shape, Shape', RowsExist, [CenterNext]_centerVars PROVE RowsExist'
  OBVIOUS
<1>1. \A c \in Cmd : status[c] # "ABSENT" => status'[c] # "ABSENT"
  BY RowsStay DEF Shape
<1>2. \A c \in Cmd : /\ req'[c].at \in {"lookup", "write", "mark"}
                     /\ status[c] = "ABSENT"
                     => status'[c] # "ABSENT"
  <2> USE DEF Shape, CenterTypeOK, RowsExist, At, Goto
  <2>1. ASSUME NEW c \in Cmd, InsertCommand(c)
        PROVE  /\ status'[c] # "ABSENT"
               /\ \A d \in Cmd : d # c => req'[d] = req[d]
    BY <2>1 DEF InsertCommand
  <2>2. ASSUME NEW c \in Cmd, \/ \E t \in Types : BeginRequest(c, t)
                              \/ hasConcurrentDangerous(c) \/ LookupConn(c)
                              \/ WriteConn(c) \/ MarkSent(c) \/ RequestSqlError(c)
        PROVE  \A d \in Cmd : req'[d].at \in {"lookup", "write", "mark"}
                                => req[d].at \in {"lookup", "write", "mark"}
    <3>1. CASE \/ \E t \in Types : BeginRequest(c, t)
               \/ hasConcurrentDangerous(c) \/ RequestSqlError(c)
      BY <3>1 DEF BeginRequest, hasConcurrentDangerous, RequestSqlError
    <3>2. CASE LookupConn(c) BY <3>2 DEF LookupConn
    <3>3. CASE WriteConn(c) BY <3>3 DEF WriteConn
    <3>4. CASE MarkSent(c) BY <3>4 DEF MarkSent
    <3>5. QED BY <2>2, <3>1, <3>2, <3>3, <3>4
  <2>3. ASSUME NEW k \in Conn,
               \/ UpgradeConn(k) \/ RegisterConn(k) \/ EndSession(k) \/ BreakLink(k)
               \/ FlushStep(k) \/ FlushSqlError(k)
        PROVE  UNCHANGED req
    BY <2>3 DEF UpgradeConn, RegisterConn, EndSession, BreakLink, sessionUnchanged, FlushStep,
                FlushQuery, FlushNext, FlushWrite, FlushMark, FlushEnd, FlushSqlError, flushUnchanged
  <2>4. ASSUME NEW c \in Cmd, \/ postAgentCommandProgress(c)
                              \/ \E st \in Results : postAgentCommandResult(c, st)
        PROVE  UNCHANGED req
    BY <2>4 DEF postAgentCommandProgress, postAgentCommandResult, reportUnchanged
  <2>5. CASE enableWritable \/ patchNodeSettings \/ agentDiscoveryReport \/ UNCHANGED centerVars
    BY <2>5 DEF enableWritable, patchNodeSettings, agentDiscoveryReport, SetNode, centerVars
  <2>6. CASE CenterCrash
    BY <2>6 DEF CenterCrash
  <2>7. QED
    BY <2>1, <2>2, <2>3, <2>4, <2>5, <2>6 DEF CenterNext, CenterAlone, AnyAgent, RequestStep
<1>3. \A k \in Conn :
        /\ \A c \in flush'[k].todo : status[c] # "ABSENT"
        /\ flush'[k].at \in {"write", "mark"} => status[flush'[k].cur] # "ABSENT"
  <2>0. \/ enableWritable \/ patchNodeSettings \/ agentDiscoveryReport
        \/ CenterCrash \/ UNCHANGED centerVars
        \/ \E c \in Cmd : \/ \E t \in Types : BeginRequest(c, t)
                          \/ RequestStep(c) \/ RequestSqlError(c) \/ postAgentCommandProgress(c)
                          \/ \E st \in Results : postAgentCommandResult(c, st)
        \/ \E k \in Conn : \/ UpgradeConn(k) \/ EndSession(k) \/ BreakLink(k) \/ RegisterConn(k)
                           \/ FlushStep(k) \/ FlushSqlError(k)
    BY DEF CenterNext, CenterAlone, AnyAgent
  <2> USE DEF Shape, CenterTypeOK, RowsExist, FlushAt, FlushGoto, FlushHolds
  <2>1. ASSUME NEW k \in Conn, FlushQuery(k) \/ FlushEnd(k) \/ RegisterConn(k)
        PROVE  /\ \A c \in flush'[k].todo : status[c] # "ABSENT"
               /\ flush'[k].at \notin {"write", "mark"}
               /\ \A j \in Conn : j # k => flush'[j] = flush[j]
    BY <2>1 DEF FlushQuery, FlushEnd, RegisterConn
  <2>2. ASSUME NEW k \in Conn, FlushNext(k)
        PROVE  /\ \A c \in flush'[k].todo : status[c] # "ABSENT"
               /\ flush'[k].at = "write" => flush'[k].cur \in flush[k].todo
               /\ flush'[k].at # "mark"
               /\ \A j \in Conn : j # k => flush'[j] = flush[j]
    <3>1. PICK c \in flush[k].todo :
            IF hub = NoConn THEN FlushGoto(k, "next", flush[k].todo \ {c})
                            ELSE FlushHolds(k, "write", flush[k].todo \ {c}, c, hub)
      BY <2>2 DEF FlushNext
    <3>2. CASE hub = NoConn BY <3>1, <3>2
    <3>3. CASE hub # NoConn BY <3>1, <3>3
    <3>4. QED BY <3>2, <3>3
  <2>3. ASSUME NEW k \in Conn, FlushWrite(k) \/ FlushMark(k) \/ FlushSqlError(k)
        PROVE  /\ flush'[k].todo \subseteq flush[k].todo
               /\ flush'[k].at # "write"
               /\ flush'[k].at = "mark" => flush[k].at = "write" /\ flush'[k].cur = flush[k].cur
               /\ \A j \in Conn : j # k => flush'[j] = flush[j]
    <3>1. CASE FlushWrite(k) BY <3>1 DEF FlushWrite
    <3>2. CASE FlushMark(k) BY <3>2 DEF FlushMark
    <3>3. CASE FlushSqlError(k) BY <3>3 DEF FlushSqlError
    <3>4. QED BY <2>3, <3>1, <3>2, <3>3
  <2>4. ASSUME NEW k \in Conn, UpgradeConn(k) \/ EndSession(k) \/ BreakLink(k)
        PROVE  UNCHANGED flush
    BY <2>4 DEF UpgradeConn, EndSession, BreakLink
  <2>5. ASSUME NEW c \in Cmd,
               \/ \E t \in Types : BeginRequest(c, t)
               \/ RequestStep(c) \/ RequestSqlError(c) \/ postAgentCommandProgress(c)
               \/ \E st \in Results : postAgentCommandResult(c, st)
        PROVE  UNCHANGED flush
    BY <2>5 DEF BeginRequest, RequestStep, hasConcurrentDangerous, InsertCommand, LookupConn, WriteConn,
                MarkSent, RequestSqlError, requestUnchanged, postAgentCommandProgress,
                postAgentCommandResult, reportUnchanged
  <2>6. ASSUME enableWritable \/ patchNodeSettings \/ agentDiscoveryReport \/ UNCHANGED centerVars
        PROVE  UNCHANGED flush
    BY <2>6 DEF enableWritable, patchNodeSettings, agentDiscoveryReport, SetNode, centerVars
  <2>7. CASE CenterCrash
    BY <2>7 DEF CenterCrash
  <2> DEFINE Inserted == \A k \in Conn :
                /\ \A c \in flush'[k].todo : status[c] # "ABSENT"
                /\ flush'[k].at \in {"write", "mark"} => status[flush'[k].cur] # "ABSENT"
  <2>8. ASSUME NEW k \in Conn, FlushStep(k) \/ FlushSqlError(k) \/ RegisterConn(k)
        PROVE  Inserted
    BY <2>1, <2>2, <2>3, <2>8 DEF FlushStep
  <2>9. UNCHANGED flush => Inserted
    OBVIOUS
  <2>10. CenterCrash => Inserted
    BY <2>7
  <2> HIDE DEF Inserted
  <2>11. Inserted
    BY <2>0, <2>4, <2>5, <2>6, <2>8, <2>9, <2>10
  <2>12. QED BY <2>11 DEF Inserted
<1>4. (\A c \in Cmd : req'[c].at \in {"lookup", "write", "mark"} => status'[c] # "ABSENT")
  BY <1>1, <1>2
<1>5. \A k \in Conn : /\ flush'[k].todo \subseteq Cmd
                      /\ flush'[k].at \in {"write", "mark"} => flush'[k].cur \in Cmd
  BY DEF Shape, CenterTypeOK, FlushHoldsRow
<1>6. QED BY <1>1, <1>3, <1>4, <1>5 DEF RowsExist

\* What a request checked stays granted until its INSERT, because granted
\* only grows; a request is started once, before its row exists.
GrantFacts ==
  /\ Grants(node) \subseteq granted
  /\ \A c \in Cmd : At(c, "idle") => status[c] = "ABSENT"
  /\ \A c \in Cmd : req[c].at \in {"dup", "insert"} =>
       ctype[c] \in {"STATUS_XRAYR", "APPLY_CONFIG"} \cup granted

GrantInv == Shape /\ RowsExist /\ GrantFacts /\ CheckedTypesWereGranted

LEMMA GrantInit == CenterInit => GrantInv
<1>1. CenterInit => GrantFacts /\ CheckedTypesWereGranted
  BY DEF CenterInit, GrantFacts, Grants, At, CheckedTypesWereGranted
<1>2. QED BY <1>1, ShapeInit, RowsInit DEF GrantInv

\* assertCommandAllowed lets a request on only with a type the node grants.
LEMMA CheckGrants ==
  ASSUME CenterTypeOK, GrantFacts, NEW t \in Types, assertCommandAllowed(t, node)
  PROVE  t \in {"STATUS_XRAYR"} \cup granted
  BY DEF CenterTypeOK, GrantFacts, Grants, assertCommandAllowed, dangerousCommand

LEMMA GrantRequest ==
  ASSUME GrantInv, NEW c \in Cmd,
         (\E t \in Types : BeginRequest(c, t)) \/ RequestStep(c) \/ RequestSqlError(c)
  PROVE  (GrantFacts /\ CheckedTypesWereGranted)'
<1> USE DEF GrantInv, Shape, CenterTypeOK, RowsExist, GrantFacts, CheckedTypesWereGranted,
            DangerousTypes, dangerousCommand, At, Goto, requestUnchanged
<1>1. ASSUME NEW t \in Types, BeginRequest(c, t)
      PROVE  (GrantFacts /\ CheckedTypesWereGranted)'
  <2>1. UNCHANGED << status, node, granted >> /\ status[c] = "ABSENT"
    BY <1>1 DEF BeginRequest
  <2>2. ctype'[c] = t /\ \A d \in Cmd : d # c => ctype'[d] = ctype[d] /\ req'[d] = req[d]
    BY <1>1 DEF BeginRequest
  <2>3. req'[c].at # "idle"
    BY <1>1 DEF BeginRequest
  <2>4. req'[c].at \in {"dup", "insert"} => t \in {"STATUS_XRAYR", "APPLY_CONFIG"} \cup granted
    BY <1>1, CheckGrants DEF BeginRequest
  <2>5. GrantFacts'
    BY <2>1, <2>2, <2>3, <2>4
  <2>6. CheckedTypesWereGranted'
    BY <2>1, <2>2
  <2>7. QED BY <2>5, <2>6
<1>2. CASE InsertCommand(c)
  <2>1. UNCHANGED << ctype, node, granted >>
    BY <1>2 DEF InsertCommand
  <2>2. /\ req'[c].at \in {"lookup", "failed"}
        /\ \A d \in Cmd : d # c => status'[d] = status[d] /\ req'[d] = req[d]
    BY <1>2 DEF InsertCommand
  <2>3. ctype[c] \in {"STATUS_XRAYR", "APPLY_CONFIG"} \cup granted
    BY <1>2 DEF InsertCommand
  <2>4. QED BY <2>1, <2>2, <2>3
<1>3. CASE MarkSent(c)
  <2>1. UNCHANGED << ctype, node, granted >>
    BY <1>3 DEF MarkSent
  <2>2. req'[c].at = "done" /\ \A d \in Cmd : d # c => status'[d] = status[d] /\ req'[d] = req[d]
    BY <1>3 DEF MarkSent
  <2>3. status[c] # "ABSENT"
    BY <1>3 DEF MarkSent
  <2>4. GrantFacts'
    BY <2>1, <2>2
  <2>5. CheckedTypesWereGranted'
    BY <2>1, <2>2, <2>3
  <2>6. QED BY <2>4, <2>5
<1>4. CASE hasConcurrentDangerous(c) \/ LookupConn(c) \/ WriteConn(c) \/ RequestSqlError(c)
  <2>1. UNCHANGED << status, ctype, node, granted >>
    BY <1>4 DEF hasConcurrentDangerous, LookupConn, WriteConn, RequestSqlError
  <2>2. req'[c].at # "idle"
    BY <1>4 DEF hasConcurrentDangerous, LookupConn, WriteConn, RequestSqlError
  <2>3. /\ \A d \in Cmd : d # c => req'[d] = req[d]
        /\ req'[c].at \in {"dup", "insert"} => req[c].at \in {"dup", "insert"}
    BY <1>4 DEF hasConcurrentDangerous, LookupConn, WriteConn, RequestSqlError
  <2>4. QED BY <2>1, <2>2, <2>3
<1>5. QED BY <1>1, <1>2, <1>3, <1>4 DEF RequestStep

LEMMA GrantStep == GrantInv /\ Shape' /\ [CenterNext]_centerVars => GrantInv'
<1> SUFFICES ASSUME GrantInv, Shape', [CenterNext]_centerVars
             PROVE  (GrantFacts /\ CheckedTypesWereGranted)'
  BY RowsStep DEF GrantInv
<1>1. ASSUME NEW c \in Cmd,
             (\E t \in Types : BeginRequest(c, t)) \/ RequestStep(c) \/ RequestSqlError(c)
      PROVE  (GrantFacts /\ CheckedTypesWereGranted)'
  BY <1>1, GrantRequest
<1> USE DEF GrantInv, Shape, GrantFacts, CheckedTypesWereGranted
<1>2. ASSUME NEW k \in Conn,
             \/ UpgradeConn(k) \/ RegisterConn(k) \/ EndSession(k) \/ BreakLink(k)
             \/ FlushQuery(k) \/ FlushNext(k) \/ FlushWrite(k) \/ FlushEnd(k) \/ FlushSqlError(k)
      PROVE  (GrantFacts /\ CheckedTypesWereGranted)'
  <2>1. UNCHANGED << status, ctype, node, req, granted >>
    BY <1>2 DEF UpgradeConn, RegisterConn, EndSession, BreakLink, sessionUnchanged, FlushQuery,
                FlushNext, FlushWrite, FlushEnd, FlushSqlError, flushUnchanged
  <2>2. QED BY <2>1 DEF At
<1>3. ASSUME NEW k \in Conn, FlushMark(k)
      PROVE  (GrantFacts /\ CheckedTypesWereGranted)'
  <2>1. UNCHANGED << ctype, node, req, granted >>
    BY <1>3 DEF FlushMark, flushUnchanged
  <2>2. flush[k].cur \in Cmd /\ status[flush[k].cur] # "ABSENT"
    BY <1>3 DEF FlushMark, FlushAt, FlushHoldsRow, RowsExist
  <2>3. \A d \in Cmd : d # flush[k].cur => status'[d] = status[d]
    BY <1>3 DEF FlushMark, CenterTypeOK
  <2>4. QED BY <2>1, <2>2, <2>3 DEF At
<1>4. ASSUME NEW c \in Cmd,
             \/ postAgentCommandProgress(c)
             \/ \E st \in Results : postAgentCommandResult(c, st)
      PROVE  (GrantFacts /\ CheckedTypesWereGranted)'
  <2>1. UNCHANGED << ctype, node, req, granted >> /\ status[c] # "ABSENT"
    BY <1>4 DEF postAgentCommandProgress, postAgentCommandResult, reportUnchanged
  <2>2. \A d \in Cmd : d # c => status'[d] = status[d]
    BY <1>4 DEF postAgentCommandProgress, postAgentCommandResult, CenterTypeOK
  <2>3. QED BY <2>1, <2>2 DEF At
<1>5. CASE enableWritable \/ patchNodeSettings \/ agentDiscoveryReport
  <2>1. UNCHANGED << status, ctype, req >> /\ granted' = granted \cup Grants(node')
    BY <1>5 DEF enableWritable, patchNodeSettings, agentDiscoveryReport, SetNode
  <2>2. QED BY <2>1 DEF At, Grants
<1>6. CASE CenterCrash
  <2>1. UNCHANGED << status, ctype, node, granted >>
    BY <1>6 DEF CenterCrash
  <2>2. \A c \in Cmd : req'[c].at = "done" \/ (req[c].at = "idle" /\ req'[c] = req[c])
    BY <1>6 DEF CenterCrash, At
  <2>3. QED BY <2>1, <2>2 DEF At
<1>7. CASE UNCHANGED centerVars
  BY <1>7 DEF centerVars, At
<1>8. QED
  BY <1>1, <1>2, <1>3, <1>4, <1>5, <1>6, <1>7 DEF CenterNext, CenterAlone, AnyAgent, FlushStep

\* A dangerous command that assertCommandAllowed is asked about reaches the
\* queue only if the node allowed its type at some time, whatever happens to
\* the settings and the agent between the check and the INSERT.
THEOREM CheckedCommandsWereGranted == CenterSpec => []CheckedTypesWereGranted
<1>1. CoverInv => Shape
  BY DEF CoverInv
<1>2. GrantInv => CheckedTypesWereGranted
  BY DEF GrantInv
<1>3. QED BY <1>1, <1>2, CoverInvariant, GrantInit, GrantStep, PTL DEF CenterSpec

-----------------------------------------------------------------------------
(* The Center and the agent composed: what CommandSystem adds.             *)

\* The Center's end of the dead agent's connection: it only breaks.
LinksBreak ==
  /\ link' \in [Conn -> {"none", "up", "broken", "closed"}]
  /\ \A k \in Conn : link'[k] = link[k] \/ (link[k] = "up" /\ link'[k] = "broken")
  /\ UNCHANGED << status, ctype, rowId, nextId, node, req, hub, session, flush,
                  pushes, granted >>

CenterStep == CenterNext \/ UNCHANGED centerVars \/ LinksBreak

CenterInv == CoverInv /\ SentInv /\ GrantInv

LEMMA CenterInvInit == CenterInit => CenterInv
  BY CoverInit, SentInit, GrantInit DEF CenterInv

LEMMA CenterInvBreak ==
  ASSUME CenterInv, LinksBreak
  PROVE  CenterInv'
<1>1. CenterTypeOK'
  BY DEF CenterInv, CoverInv, Shape, CenterTypeOK, LinksBreak
<1>2. Shape'
  BY <1>1, ShapeUnchanged DEF CenterInv, CoverInv, LinksBreak
<1>3. PendingIsCovered'
  BY DEF CenterInv, CoverInv, Shape, CenterTypeOK, ConnOrNo, LinksBreak, PendingIsCovered,
         OwnRequestCovers, FlushCovers, OrphanedOn, Broken, At, FlushAt
<1>4. (MarksWhatItWrote /\ SentWasPushed)'
  BY DEF CenterInv, SentInv, LinksBreak, MarksWhatItWrote, SentWasPushed, At, FlushAt
<1>5. (RowsExist /\ GrantFacts /\ CheckedTypesWereGranted)'
  BY DEF CenterInv, GrantInv, LinksBreak, RowsExist, GrantFacts, CheckedTypesWereGranted, At
<1>6. QED BY <1>2, <1>3, <1>4, <1>5 DEF CenterInv, CoverInv, SentInv, GrantInv

LEMMA CenterInvStep == CenterInv /\ CenterStep => CenterInv'
<1> SUFFICES ASSUME CenterInv, CenterStep PROVE CenterInv'
  OBVIOUS
<1>1. CASE [CenterNext]_centerVars
  <2>1. CoverInv'
    BY <1>1, CoverStep DEF CenterInv
  <2>2. Shape'
    BY <2>1 DEF CoverInv
  <2>3. SentInv' /\ GrantInv'
    BY <1>1, <2>2, SentStep, GrantStep DEF CenterInv
  <2>4. QED BY <2>1, <2>3 DEF CenterInv
<1>2. CASE LinksBreak
  BY <1>2, CenterInvBreak
<1>3. QED BY <1>1, <1>2 DEF CenterStep

\* Only a write counts a push, and what is written has a row.
LEMMA PushesStep ==
  ASSUME CenterInv, CenterStep
  PROVE  \A c \in Cmd : pushes'[c] = pushes[c] \/ (pushes'[c] = pushes[c] + 1 /\ status[c] # "ABSENT")
<1> USE DEF CenterInv, GrantInv, Shape, CenterTypeOK, RowsExist
<1>1. ASSUME NEW c \in Cmd, WriteConn(c)
      PROVE  \A d \in Cmd : pushes'[d] = pushes[d] \/ (pushes'[d] = pushes[d] + 1 /\ status[d] # "ABSENT")
  BY <1>1 DEF WriteConn, At, Accepted, Refused
<1>2. ASSUME NEW k \in Conn, FlushWrite(k)
      PROVE  \A d \in Cmd : pushes'[d] = pushes[d] \/ (pushes'[d] = pushes[d] + 1 /\ status[d] # "ABSENT")
  <2>1. flush[k].cur \in Cmd /\ status[flush[k].cur] # "ABSENT"
    BY <1>2 DEF FlushWrite, FlushAt, FlushHoldsRow
  <2>2. UNCHANGED pushes \/ pushes' = [pushes EXCEPT ![flush[k].cur] = @ + 1]
    BY <1>2 DEF FlushWrite, Accepted, Refused
  <2>3. QED BY <2>1, <2>2
<1>3. ASSUME NEW c \in Cmd, \/ \E t \in Types : BeginRequest(c, t)
                            \/ hasConcurrentDangerous(c) \/ InsertCommand(c) \/ LookupConn(c)
                            \/ MarkSent(c) \/ RequestSqlError(c)
                            \/ postAgentCommandProgress(c)
                            \/ \E st \in Results : postAgentCommandResult(c, st)
      PROVE  UNCHANGED pushes
  BY <1>3 DEF BeginRequest, hasConcurrentDangerous, InsertCommand, LookupConn, MarkSent,
              RequestSqlError, postAgentCommandProgress, postAgentCommandResult, reportUnchanged
<1>4. ASSUME NEW k \in Conn,
             \/ UpgradeConn(k) \/ RegisterConn(k) \/ EndSession(k) \/ BreakLink(k)
             \/ FlushQuery(k) \/ FlushNext(k) \/ FlushMark(k) \/ FlushEnd(k) \/ FlushSqlError(k)
      PROVE  UNCHANGED pushes
  BY <1>4 DEF UpgradeConn, RegisterConn, EndSession, BreakLink, sessionUnchanged, FlushQuery,
              FlushNext, FlushMark, FlushEnd, FlushSqlError
<1>5. CASE \/ enableWritable \/ patchNodeSettings \/ agentDiscoveryReport
           \/ CenterCrash \/ UNCHANGED centerVars \/ LinksBreak
  BY <1>5 DEF enableWritable, patchNodeSettings, agentDiscoveryReport, SetNode, CenterCrash,
              centerVars, LinksBreak
<1>6. QED
  BY <1>1, <1>2, <1>3, <1>4, <1>5 DEF CenterStep, CenterNext, CenterAlone, AnyAgent, RequestStep, FlushStep

\* The rows that stay, for every step of the Center.
LEMMA RowsStayStep ==
  ASSUME CenterInv, CenterStep
  PROVE  \A c \in Cmd : status[c] # "ABSENT" => status'[c] # "ABSENT"
<1>1. CASE [CenterNext]_centerVars
  BY <1>1, RowsStay DEF CenterInv, CoverInv, Shape
<1>2. CASE LinksBreak
  BY <1>2 DEF LinksBreak
<1>3. QED BY <1>1, <1>2 DEF CenterStep

-----------------------------------------------------------------------------
(* The agent's side: types, where the commands it holds come from, and     *)
(* what its SUCCESS means.                                                 *)

WirePush == [id : Cmd, type : AllTypes]

SlotRecord == [cmd     : Cmd \cup {NoCmd},
               type    : AllTypes,
               at      : {"idle", "start", "announced", "ready", "report", "reported"},
               verdict : {"none", "SUCCESS", "FAILED"}]

PostRecord == [cmd : Cmd, says : {"RUNNING", "SUCCESS", "FAILED"}, by : Slot]

AgentTypes ==
  /\ wire \in [Conn -> Seq(WirePush)]
  /\ dialed \in ConnOrNo
  /\ cmdCh \in Seq(WirePush)
  /\ slot \in [Slot -> SlotRecord]
  /\ post \in SUBSET PostRecord
  /\ performed \in SUBSET Cmd
  /\ runs \in [Cmd -> Nat]

\* A goroutine has a command while it is busy, and a verdict when it reports.
BusySlots ==
  \A s \in Slot :
    /\ slot[s].at # "idle" => slot[s].cmd \in Cmd
    /\ slot[s].at \in {"report", "reported"} => slot[s].verdict # "none"

\* Every command on the agent's side was written by the Center.
Written == {c \in Cmd : pushes[c] > 0}

HeldWasWritten ==
  /\ \A k \in Conn : \A i \in 1 .. Len(wire[k]) : wire[k][i].id \in Written
  /\ \A i \in 1 .. Len(cmdCh) : cmdCh[i].id \in Written
  /\ \A s \in Slot : slot[s].at # "idle" => slot[s].cmd \in Written
  /\ \A r \in post : r.cmd \in Written

\* A verdict of SUCCESS, kept or posted, is about an action carried out.
SuccessIsPerformed ==
  /\ \A s \in Slot : slot[s].verdict = "SUCCESS" => slot[s].cmd \in performed
  /\ \A r \in post : r.says = "SUCCESS" => r.cmd \in performed

AgentInv == AgentTypes /\ BusySlots /\ HeldWasWritten /\ SuccessIsPerformed

\* What the Center wrote has a row.
WrittenHasRow == \A c \in Written : status[c] # "ABSENT"

\* Who writes has a connection to write to.
WritesToConn ==
  /\ \A c \in Cmd : req[c].at = "write" => req[c].conn \in Conn
  /\ \A k \in Conn : flush[k].at = "write" => flush[k].conn \in Conn

\* A row exists only once its request has passed the INSERT.
InsertedOnce == \A c \in Cmd : req[c].at \in {"dup", "insert"} => status[c] = "ABSENT"

SystemInv == CenterInv /\ WritesToConn /\ InsertedOnce /\ AgentInv /\ WrittenHasRow

LEMMA SystemInit == Init => SystemInv
<1> SUFFICES ASSUME Init PROVE SystemInv
  OBVIOUS
<1>1. CenterInv
  BY CenterInvInit DEF Init
<1>2. Written = {}
  BY DEF Init, CenterInit, Written
<1> DEFINE idle == [cmd |-> NoCmd, type |-> "STATUS_XRAYR", at |-> "idle", verdict |-> "none"]
<1>3. idle \in SlotRecord
  BY DEF SlotRecord, AllTypes
<1>4. /\ cmdCh = << >> /\ slot = [s \in Slot |-> idle] /\ post = {} /\ performed = {}
      /\ runs = [c \in Cmd |-> 0]
  BY DEF Init, Agent!AgentInit, Agent!Idle
<1>5. wire = [k \in Conn |-> << >>] /\ dialed = NoConn
  BY DEF Init
<1>6. AgentTypes
  BY <1>3, <1>4, <1>5 DEF AgentTypes, ConnOrNo
<1>7. BusySlots /\ HeldWasWritten /\ SuccessIsPerformed
  BY <1>4, <1>5 DEF BusySlots, HeldWasWritten, SuccessIsPerformed
<1>8. WritesToConn /\ InsertedOnce
  BY DEF Init, CenterInit, WritesToConn, InsertedOnce
<1>9. QED BY <1>1, <1>2, <1>6, <1>7, <1>8 DEF SystemInv, AgentInv, WrittenHasRow

\* Rows that stay and pushes that are only added keep what the agent holds.
LEMMA WrittenStays ==
  ASSUME CenterInv, WrittenHasRow, CenterStep
  PROVE  Written \subseteq Written' /\ WrittenHasRow'
<1>1. pushes \in [Cmd -> Nat]
  BY DEF CenterInv, CoverInv, Shape, CenterTypeOK
<1>2. Written \subseteq Written'
  BY <1>1, PushesStep DEF Written
<1>3. \A c \in Written' : status[c] # "ABSENT"
  BY <1>1, PushesStep DEF Written, WrittenHasRow
<1>4. QED BY <1>2, <1>3, RowsStayStep DEF WrittenHasRow, Written

LEMMA WritesToConnStep ==
  ASSUME CenterInv, WritesToConn, CenterStep
  PROVE  WritesToConn'
<1> USE DEF CenterInv, CoverInv, Shape, CenterTypeOK, WritesToConn
<1>1. ASSUME NEW c \in Cmd, LookupConn(c)
      PROVE  WritesToConn'
  BY <1>1 DEF LookupConn, ConnOrNo, requestUnchanged
<1>2. ASSUME NEW c \in Cmd, \/ \E t \in Types : BeginRequest(c, t)
                            \/ hasConcurrentDangerous(c) \/ InsertCommand(c) \/ WriteConn(c)
                            \/ MarkSent(c) \/ RequestSqlError(c)
      PROVE  WritesToConn'
  <2>1. UNCHANGED flush
    BY <1>2 DEF BeginRequest, hasConcurrentDangerous, InsertCommand, WriteConn, MarkSent,
                RequestSqlError, requestUnchanged
  <2>2. \A d \in Cmd : req'[d] = req[d] \/ req'[d].at # "write"
    BY <1>2 DEF BeginRequest, hasConcurrentDangerous, InsertCommand, WriteConn, MarkSent,
                RequestSqlError, Goto
  <2>3. QED BY <2>1, <2>2
<1>3. ASSUME NEW k \in Conn, FlushNext(k)
      PROVE  WritesToConn'
  <2>1. UNCHANGED req
    BY <1>3 DEF FlushNext, flushUnchanged
  <2>2. \A j \in Conn : flush'[j] = flush[j] \/ flush'[j].at # "write" \/ flush'[j].conn \in Conn
    <3>1. CASE hub = NoConn
      BY <1>3, <3>1 DEF FlushNext, FlushGoto, FlushHolds
    <3>2. CASE hub # NoConn
      <4>1. hub \in Conn
        BY <3>2 DEF ConnOrNo
      <4>2. QED BY <1>3, <3>2, <4>1 DEF FlushNext, FlushHolds
    <3>3. QED BY <3>1, <3>2
  <2>3. QED BY <2>1, <2>2
<1>4. ASSUME NEW k \in Conn,
             \/ UpgradeConn(k) \/ RegisterConn(k) \/ EndSession(k) \/ BreakLink(k)
             \/ FlushQuery(k) \/ FlushWrite(k) \/ FlushMark(k) \/ FlushEnd(k) \/ FlushSqlError(k)
      PROVE  WritesToConn'
  <2>1. UNCHANGED req
    BY <1>4 DEF UpgradeConn, RegisterConn, EndSession, BreakLink, sessionUnchanged, FlushQuery,
                FlushWrite, FlushMark, FlushEnd, FlushSqlError, flushUnchanged
  <2>2. \A j \in Conn : flush'[j] = flush[j] \/ flush'[j].at # "write"
    BY <1>4 DEF UpgradeConn, RegisterConn, EndSession, BreakLink, FlushQuery, FlushWrite, FlushMark,
                FlushEnd, FlushSqlError, FlushGoto, FlushHolds
  <2>3. QED BY <2>1, <2>2
<1>5. ASSUME NEW c \in Cmd, \/ postAgentCommandProgress(c)
                            \/ \E st \in Results : postAgentCommandResult(c, st)
      PROVE  WritesToConn'
  BY <1>5 DEF postAgentCommandProgress, postAgentCommandResult, reportUnchanged
<1>6. CASE CenterCrash
  <2>1. (\A c \in Cmd : req'[c].at # "write") /\ (\A k \in Conn : flush'[k].at # "write")
    BY <1>6 DEF CenterCrash, At, FlushAt
  <2>2. QED BY <2>1
<1>7. CASE \/ enableWritable \/ patchNodeSettings \/ agentDiscoveryReport
           \/ UNCHANGED centerVars \/ LinksBreak
  BY <1>7 DEF enableWritable, patchNodeSettings, agentDiscoveryReport, SetNode, centerVars, LinksBreak
<1>8. QED
  BY <1>1, <1>2, <1>3, <1>4, <1>5, <1>6, <1>7
     DEF CenterStep, CenterNext, CenterAlone, AnyAgent, RequestStep, FlushStep

-----------------------------------------------------------------------------
(* The agent's own steps.                                                  *)

\* The head of the channel was written, and so was what remains.
LEMMA ChannelHead ==
  ASSUME AgentInv, cmdCh # << >>
  PROVE  /\ Head(cmdCh) \in WirePush /\ Head(cmdCh).id \in Written
         /\ Tail(cmdCh) \in Seq(WirePush)
         /\ \A i \in 1 .. Len(Tail(cmdCh)) : Tail(cmdCh)[i].id \in Written
<1>1. cmdCh \in Seq(WirePush) /\ Len(cmdCh) > 0
  BY DEF AgentInv, AgentTypes
<1>2. Head(cmdCh) = cmdCh[1] /\ 1 \in 1 .. Len(cmdCh)
  BY <1>1
<1>3. Head(cmdCh) \in WirePush /\ Tail(cmdCh) \in Seq(WirePush)
  BY <1>1
<1>4. \A i \in 1 .. Len(Tail(cmdCh)) : i + 1 \in 1 .. Len(cmdCh) /\ Tail(cmdCh)[i] = cmdCh[i + 1]
  BY <1>1
<1>5. QED BY <1>2, <1>3, <1>4 DEF AgentInv, HeldWasWritten

\* What a step of goroutine s leaves of the goroutines and the posts.
SlotMoves(s) ==
  /\ slot' \in [Slot -> SlotRecord]
  /\ \A t \in Slot \ {s} : slot'[t] = slot[t]
  /\ slot'[s].at # "idle" => slot'[s].cmd \in Written
  /\ slot'[s].at \in {"report", "reported"} => slot'[s].verdict # "none"
  /\ slot'[s].verdict = "SUCCESS" => slot'[s].cmd \in performed'
  /\ performed' \in SUBSET Cmd /\ performed \subseteq performed'
  /\ \A r \in post' \ post : r \in PostRecord /\ r.cmd \in Written
  /\ \A r \in post' \ post : r.says = "SUCCESS" => r.cmd \in performed

LEMMA MovesTake ==
  ASSUME AgentInv, NEW s \in Slot, Agent!TakePush(s)
  PROVE  SlotMoves(s)
<1>1. /\ cmdCh # << >>
      /\ slot' = [slot EXCEPT ![s] = [cmd |-> Head(cmdCh).id, type |-> Head(cmdCh).type,
                                      at |-> "start", verdict |-> "none"]]
      /\ UNCHANGED << post, performed >>
  BY DEF Agent!TakePush, Agent!StartPush
<1>2. Head(cmdCh).id \in Written /\ Head(cmdCh).id \in Cmd /\ Head(cmdCh).type \in AllTypes
  BY <1>1, ChannelHead DEF WirePush
<1>3. slot \in [Slot -> SlotRecord] /\ performed \in SUBSET Cmd
  BY DEF AgentInv, AgentTypes
<1>4. [cmd |-> Head(cmdCh).id, type |-> Head(cmdCh).type, at |-> "start", verdict |-> "none"] \in SlotRecord
  BY <1>2 DEF SlotRecord
<1>5. QED BY <1>1, <1>2, <1>3, <1>4 DEF SlotMoves

\* A verdict SUCCESS is given with the action, a refusal or a failure is not one.
LEMMA MovesDecide ==
  ASSUME AgentInv, NEW s \in Slot, Agent!Refuse(s) \/ Agent!Perform(s)
  PROVE  SlotMoves(s)
<1>1. slot[s].at # "idle" /\ post' = post
  BY DEF Agent!Refuse, Agent!Perform
<1>2. slot \in [Slot -> SlotRecord] /\ slot[s].cmd \in Written /\ slot[s].cmd \in Cmd
  BY <1>1 DEF AgentInv, AgentTypes, BusySlots, HeldWasWritten
<1>3. performed' \in SUBSET Cmd /\ performed \subseteq performed'
  BY <1>2 DEF Agent!Refuse, Agent!Perform, AgentInv, AgentTypes
<1>4. PICK v \in {"SUCCESS", "FAILED"} :
        /\ slot' = [slot EXCEPT ![s] = [cmd |-> @.cmd, type |-> @.type, at |-> "report", verdict |-> v]]
        /\ v = "SUCCESS" => slot[s].cmd \in performed'
  BY DEF Agent!Refuse, Agent!Perform, Agent!Decide
<1>5. [cmd |-> slot[s].cmd, type |-> slot[s].type, at |-> "report", verdict |-> v] \in SlotRecord
  BY <1>2 DEF SlotRecord
<1>6. /\ slot' \in [Slot -> SlotRecord]
      /\ slot'[s] = [cmd |-> slot[s].cmd, type |-> slot[s].type, at |-> "report", verdict |-> v]
      /\ \A t \in Slot \ {s} : slot'[t] = slot[t]
  BY <1>2, <1>4, <1>5
<1>7. QED BY <1>1, <1>2, <1>3, <1>4, <1>6 DEF SlotMoves

\* A goroutine that goes on, with or without a post, keeps its command.
LEMMA MovesStep ==
  ASSUME AgentInv, NEW s \in Slot, Agent!Announce(s) \/ Agent!Announced(s) \/ Agent!Report(s)
  PROVE  SlotMoves(s)
<1>1. PICK to \in {"ready", "announced", "reported"} :
        /\ slot[s].at # "idle" /\ (to = "reported" => slot[s].at = "report")
        /\ slot' = [slot EXCEPT ![s].at = to]
  BY DEF Agent!Announce, Agent!Announced, Agent!Report, Agent!Step
<1>2. slot \in [Slot -> SlotRecord] /\ slot[s].cmd \in Written /\ slot[s].cmd \in Cmd
  BY <1>1 DEF AgentInv, AgentTypes, BusySlots, HeldWasWritten
<1>3. /\ slot' \in [Slot -> SlotRecord]
      /\ slot'[s].cmd = slot[s].cmd /\ slot'[s].verdict = slot[s].verdict /\ slot'[s].at = to
      /\ \A t \in Slot \ {s} : slot'[t] = slot[t]
  BY <1>1, <1>2 DEF SlotRecord
<1>4. performed' = performed /\ performed \in SUBSET Cmd
  BY DEF Agent!Announce, Agent!Announced, Agent!Report, AgentInv, AgentTypes
<1>5. slot[s].verdict = "SUCCESS" => slot[s].cmd \in performed
  BY DEF AgentInv, SuccessIsPerformed
<1>6. slot[s].at = "report" => slot[s].verdict \in {"SUCCESS", "FAILED"}
  BY <1>2 DEF AgentInv, BusySlots, SlotRecord
<1>7. ASSUME NEW r \in post' \ post
      PROVE  /\ r \in PostRecord /\ r.cmd \in Written
             /\ r.says = "SUCCESS" => r.cmd \in performed
  <2>1. \/ r = [cmd |-> slot[s].cmd, says |-> "RUNNING", by |-> s]
        \/ slot[s].at = "report" /\ r = [cmd |-> slot[s].cmd, says |-> slot[s].verdict, by |-> s]
    BY <1>7 DEF Agent!Announce, Agent!Announced, Agent!Report, Agent!Post, Agent!Step
  <2>2. QED BY <1>2, <1>5, <1>6, <2>1 DEF PostRecord
<1>8. QED BY <1>1, <1>2, <1>3, <1>4, <1>5, <1>6, <1>7 DEF SlotMoves, AgentInv, BusySlots

LEMMA MovesFinish ==
  ASSUME AgentInv, NEW s \in Slot, Agent!Finish(s)
  PROVE  SlotMoves(s)
<1> DEFINE idle == [cmd |-> NoCmd, type |-> "STATUS_XRAYR", at |-> "idle", verdict |-> "none"]
<1>1. slot' = [slot EXCEPT ![s] = idle] /\ UNCHANGED << post, performed >>
  BY DEF Agent!Finish, Agent!Idle
<1>2. idle \in SlotRecord
  BY DEF SlotRecord, AllTypes
<1>3. QED BY <1>1, <1>2 DEF SlotMoves, AgentInv, AgentTypes

\* Of the agent's own steps, only the worker loop takes from the channel.
LEMMA SlotStepMoves ==
  ASSUME AgentInv, NEW s \in Slot, Agent!SlotStep(s)
  PROVE  /\ SlotMoves(s)
         /\ \/ UNCHANGED << cmdCh, runs >>
            \/ Agent!TakePush(s)
<1>1. Agent!TakePush(s) \/ Agent!Refuse(s) \/ Agent!Announce(s) \/ Agent!Announced(s)
      \/ Agent!Perform(s) \/ Agent!Report(s) \/ Agent!Finish(s)
  BY DEF Agent!SlotStep
<1>2. SlotMoves(s)
  BY <1>1, MovesTake, MovesDecide, MovesStep, MovesFinish
<1>3. Agent!TakePush(s) \/ UNCHANGED << cmdCh, runs >>
  BY <1>1 DEF Agent!Refuse, Agent!Announce, Agent!Announced, Agent!Perform, Agent!Report, Agent!Finish
<1>4. QED BY <1>2, <1>3

\* The channel and the counters after the worker loop took a push, or not.
ChannelMoves ==
  /\ runs' \in [Cmd -> Nat]
  /\ \/ cmdCh' = cmdCh
     \/ cmdCh # << >> /\ cmdCh' = Tail(cmdCh)

LEMMA AgentAloneMoves ==
  ASSUME AgentInv, Agent!AgentAlone
  PROVE  /\ ChannelMoves
         /\ (\E s \in Slot : SlotMoves(s)) \/ (post' \subseteq post /\ UNCHANGED << slot, performed >>)
<1>1. ASSUME NEW s \in Slot, Agent!SlotStep(s)
      PROVE  ChannelMoves /\ SlotMoves(s)
  <2>1. CASE Agent!TakePush(s)
    <3>1. /\ cmdCh # << >> /\ cmdCh' = Tail(cmdCh)
          /\ runs' = [runs EXCEPT ![Head(cmdCh).id] = @ + 1]
      BY <2>1 DEF Agent!TakePush, Agent!StartPush
    <3>2. Head(cmdCh).id \in Cmd /\ runs \in [Cmd -> Nat]
      BY <3>1, ChannelHead DEF Written, AgentInv, AgentTypes
    <3>3. QED BY <1>1, <3>1, <3>2, SlotStepMoves DEF ChannelMoves
  <2>2. CASE UNCHANGED << cmdCh, runs >>
    BY <1>1, <2>2, SlotStepMoves DEF ChannelMoves, AgentInv, AgentTypes
  <2>3. QED BY <1>1, <2>1, <2>2, SlotStepMoves
<1>2. CASE Agent!IgnorePush
  BY <1>2 DEF Agent!IgnorePush, ChannelMoves, AgentInv, AgentTypes
<1>3. ASSUME NEW r \in post, Agent!LosePost(r)
      PROVE  ChannelMoves /\ post' \subseteq post /\ UNCHANGED << slot, performed >>
  BY <1>3 DEF Agent!LosePost, Agent!Arrive, ChannelMoves, AgentInv, AgentTypes
<1>4. QED BY <1>1, <1>2, <1>3 DEF Agent!AgentAlone

\* The invariant of the agent's side, from what a step leaves of it.
LEMMA AgentKept ==
  ASSUME AgentInv, ChannelMoves, wire' = wire, dialed' \in ConnOrNo, Written \subseteq Written',
         \/ \E s \in Slot : SlotMoves(s)
         \/ post' \subseteq post /\ UNCHANGED << slot, performed >>
  PROVE  AgentInv'
<1>1. cmdCh' \in Seq(WirePush) /\ \A i \in 1 .. Len(cmdCh') : cmdCh'[i].id \in Written
  <2>1. CASE cmdCh' = cmdCh
    BY <2>1 DEF AgentInv, AgentTypes, HeldWasWritten
  <2>2. CASE cmdCh # << >> /\ cmdCh' = Tail(cmdCh)
    BY <2>2, ChannelHead
  <2>3. QED BY <2>1, <2>2 DEF ChannelMoves
<1>2. CASE \E s \in Slot : SlotMoves(s)
  <2>1. PICK s \in Slot : SlotMoves(s)
    BY <1>2
  <2>2. /\ slot' \in [Slot -> SlotRecord] /\ performed' \in SUBSET Cmd
        /\ \A t \in Slot \ {s} : slot'[t] = slot[t]
        /\ \A r \in post' : r \in post \/ r \in PostRecord
        /\ \A r \in post' : r \in post \/ r.cmd \in Written
        /\ \A r \in post' : r \in post \/ (r.says = "SUCCESS" => r.cmd \in performed)
        /\ performed \subseteq performed'
    BY <2>1 DEF SlotMoves
  <2>3. /\ slot'[s].at # "idle" => slot'[s].cmd \in Written
        /\ slot'[s].at \in {"report", "reported"} => slot'[s].verdict # "none"
        /\ slot'[s].verdict = "SUCCESS" => slot'[s].cmd \in performed'
    BY <2>1 DEF SlotMoves
  <2>4. AgentTypes'
    BY <1>1, <2>2 DEF AgentTypes, AgentInv, ChannelMoves
  <2>5. BusySlots'
    BY <2>2, <2>3 DEF BusySlots, AgentInv, Written
  <2>6. SuccessIsPerformed'
    BY <2>2, <2>3 DEF SuccessIsPerformed, AgentInv
  <2>7. HeldWasWritten'
    BY <1>1, <2>2, <2>3 DEF HeldWasWritten, AgentInv
  <2>8. QED BY <2>4, <2>5, <2>6, <2>7 DEF AgentInv
<1>3. CASE post' \subseteq post /\ UNCHANGED << slot, performed >>
  <2>1. AgentTypes'
    BY <1>1, <1>3 DEF AgentTypes, AgentInv, ChannelMoves
  <2>2. BusySlots' /\ SuccessIsPerformed'
    BY <1>3 DEF BusySlots, SuccessIsPerformed, AgentInv
  <2>3. HeldWasWritten'
    BY <1>1, <1>3 DEF HeldWasWritten, AgentInv
  <2>4. QED BY <2>1, <2>2, <2>3 DEF AgentInv
<1>4. QED BY <1>2, <1>3

-----------------------------------------------------------------------------
(* Every step of the system is one of the Center, or breaks its links.     *)

LEMMA CenterPart ==
  ASSUME SystemInv, [Next]_vars
  PROVE  CenterStep
<1>1. CASE CenterDoes
  BY <1>1 DEF CenterDoes, CenterStep, CenterNext, CenterAlone, RequestStep, FlushStep
<1>2. CASE CenterWrites
  BY <1>2 DEF CenterWrites, CenterStep, CenterNext, CenterAlone, RequestStep, FlushStep
<1>3. ASSUME NEW k \in Conn, Dial(k) PROVE CenterStep
  BY <1>3 DEF Dial, CenterStep, CenterNext, AnyAgent
<1>4. ASSUME NEW r \in post, HandlePost(r) PROVE CenterStep
  <2>1. r.cmd \in Cmd /\ pushes[r.cmd] > 0
    BY DEF SystemInv, AgentInv, HeldWasWritten, Written
  <2>2. r.says \in {"RUNNING", "SUCCESS", "FAILED"}
    BY DEF SystemInv, AgentInv, AgentTypes, PostRecord
  <2>3. r.says # "RUNNING" => r.says \in Results
    BY <2>2, AgentResultsAssumption
  <2>4. CASE postAgentCommandProgress(r.cmd)
    BY <2>1, <2>4 DEF CenterStep, CenterNext, AnyAgent
  <2>5. CASE r.says # "RUNNING" /\ postAgentCommandResult(r.cmd, r.says)
    BY <2>1, <2>3, <2>5 DEF CenterStep, CenterNext, AnyAgent
  <2>6. QED BY <1>4, <2>4, <2>5 DEF HandlePost
<1>5. CASE ReadPush \/ ReadFails \/ AgentDoes \/ UNCHANGED vars
  BY <1>5 DEF ReadPush, ReadFails, AgentDoes, vars, CenterStep
<1>6. CASE AgentDies
  <2>1. link' = [k \in Conn |-> IF k = dialed /\ link[k] = "up" THEN "broken" ELSE link[k]]
    BY <1>6 DEF AgentDies
  <2>2. link \in [Conn -> {"none", "up", "broken", "closed"}]
    BY DEF SystemInv, CenterInv, CoverInv, Shape, CenterTypeOK
  <2>3. LinksBreak
    BY <1>6, <2>1, <2>2 DEF LinksBreak, AgentDies
  <2>4. QED BY <2>3 DEF CenterStep
<1>7. CASE AgentBoots
  BY <1>7 DEF AgentBoots, CenterStep, CenterNext, AnyAgent
<1>8. QED BY <1>1, <1>2, <1>3, <1>4, <1>5, <1>6, <1>7 DEF Next

-----------------------------------------------------------------------------
(* What travels on the connections.                                        *)

\* A connection carries what it carried, and at most the push just written.
LEMMA CarriedPush ==
  ASSUME SystemInv, NEW k \in Conn, NEW c \in Cmd, Carried(k, c), pushes' \in [Cmd -> Nat]
  PROVE  \/ wire' = wire
         \/ /\ pushes'[c] > pushes[c] /\ [id |-> c, type |-> ctype[c]] \in WirePush
            /\ wire' = [wire EXCEPT ![k] = Append(@, [id |-> c, type |-> ctype[c]])]
<1>1. pushes \in [Cmd -> Nat] /\ ctype \in [Cmd -> AllTypes]
  BY DEF SystemInv, CenterInv, CoverInv, Shape, CenterTypeOK
<1>2. CASE pushes'[c] > pushes[c] /\ link[k] = "up"
  BY <1>1, <1>2 DEF Carried, WirePush
<1>3. CASE ~(pushes'[c] > pushes[c] /\ link[k] = "up")
  BY <1>3 DEF Carried
<1>4. QED BY <1>2, <1>3

\* Appending a written push keeps what is on the wires.
LEMMA WireAppend ==
  ASSUME AgentInv, NEW k \in Conn, NEW p \in WirePush, p.id \in Written', Written \subseteq Written',
         wire' = [wire EXCEPT ![k] = Append(@, p)]
  PROVE  /\ wire' \in [Conn -> Seq(WirePush)]
         /\ \A j \in Conn : \A i \in 1 .. Len(wire'[j]) : wire'[j][i].id \in Written'
<1>1. wire \in [Conn -> Seq(WirePush)]
  BY DEF AgentInv, AgentTypes
<1>2. /\ wire' \in [Conn -> Seq(WirePush)] /\ wire'[k] = Append(wire[k], p)
      /\ \A j \in Conn \ {k} : wire'[j] = wire[j]
  BY <1>1
<1>3. \A i \in 1 .. Len(wire'[k]) : wire'[k][i] = p \/ (i \in 1 .. Len(wire[k]) /\ wire'[k][i] = wire[k][i])
  BY <1>1, <1>2
<1>4. QED BY <1>2, <1>3 DEF AgentInv, HeldWasWritten

\* Taking the head of a connection, or dropping all of it, does too.
LEMMA WireTail ==
  ASSUME AgentInv, NEW k \in Conn, wire[k] # << >>
  PROVE  /\ Head(wire[k]) \in WirePush /\ Head(wire[k]).id \in Written
         /\ Tail(wire[k]) \in Seq(WirePush)
         /\ \A i \in 1 .. Len(Tail(wire[k])) : Tail(wire[k])[i].id \in Written
<1>1. wire[k] \in Seq(WirePush) /\ Len(wire[k]) > 0
  BY DEF AgentInv, AgentTypes
<1>2. Head(wire[k]) = wire[k][1] /\ 1 \in 1 .. Len(wire[k])
  BY <1>1
<1>3. Head(wire[k]) \in WirePush /\ Tail(wire[k]) \in Seq(WirePush)
  BY <1>1
<1>4. \A i \in 1 .. Len(Tail(wire[k])) : i + 1 \in 1 .. Len(wire[k]) /\ Tail(wire[k])[i] = wire[k][i + 1]
  BY <1>1
<1>5. QED BY <1>2, <1>3, <1>4 DEF AgentInv, HeldWasWritten

\* The rest of the agent's side is left alone.
LEMMA AgentWires ==
  ASSUME AgentInv, Written \subseteq Written', dialed' \in ConnOrNo,
         UNCHANGED << cmdCh, slot, post, performed, runs >>,
         wire' \in [Conn -> Seq(WirePush)],
         \A j \in Conn : \A i \in 1 .. Len(wire'[j]) : wire'[j][i].id \in Written'
  PROVE  AgentInv'
<1>1. AgentTypes'
  BY DEF AgentInv, AgentTypes
<1>2. BusySlots' /\ SuccessIsPerformed'
  BY DEF AgentInv, BusySlots, SuccessIsPerformed
<1>3. HeldWasWritten'
  BY DEF AgentInv, HeldWasWritten
<1>4. QED BY <1>1, <1>2, <1>3 DEF AgentInv

LEMMA AgentSideWrites ==
  ASSUME SystemInv, CenterWrites, Written \subseteq Written', pushes' \in [Cmd -> Nat]
  PROVE  AgentInv'
<1>1. UNCHANGED << cmdCh, slot, post, performed, runs >> /\ dialed' = dialed
  BY DEF CenterWrites, agentVars
<1>2. dialed \in ConnOrNo /\ wire \in [Conn -> Seq(WirePush)]
  BY DEF SystemInv, AgentInv, AgentTypes
<1>3. \E k \in Conn, c \in Cmd : Carried(k, c)
  <2>1. ASSUME NEW c \in Cmd, WriteConn(c), Carried(req[c].conn, c)
        PROVE  req[c].conn \in Conn
    BY <2>1 DEF WriteConn, SystemInv, WritesToConn, At
  <2>2. ASSUME NEW k \in Conn, FlushWrite(k), Carried(flush[k].conn, flush[k].cur)
        PROVE  flush[k].conn \in Conn /\ flush[k].cur \in Cmd
    BY <2>2 DEF FlushWrite, FlushAt, SystemInv, WritesToConn, CenterInv, CoverInv, Shape, FlushHoldsRow
  <2>3. QED BY <2>1, <2>2 DEF CenterWrites
<1>4. PICK k \in Conn, c \in Cmd : Carried(k, c)
  BY <1>3
<1>5. CASE wire' = wire
  BY <1>1, <1>2, <1>5, AgentWires DEF SystemInv, AgentInv, HeldWasWritten
<1>6. CASE /\ pushes'[c] > pushes[c] /\ [id |-> c, type |-> ctype[c]] \in WirePush
           /\ wire' = [wire EXCEPT ![k] = Append(@, [id |-> c, type |-> ctype[c]])]
  <2>1. pushes[c] \in Nat /\ pushes'[c] \in Nat
    BY DEF SystemInv, CenterInv, CoverInv, Shape, CenterTypeOK
  <2>2. c \in Written'
    BY <1>6, <2>1 DEF Written
  <2>3. QED BY <1>1, <1>2, <1>6, <2>2, WireAppend, AgentWires DEF SystemInv
<1>7. QED BY <1>4, <1>5, <1>6, CarriedPush

\* The push read enters the channel, if it has room.
LEMMA AgentReads ==
  ASSUME SystemInv, ReadPush, Written \subseteq Written'
  PROVE  AgentInv'
<1>1. /\ dialed \in Conn /\ wire[dialed] # << >>
      /\ wire' = [wire EXCEPT ![dialed] = Tail(@)]
      /\ UNCHANGED << dialed, slot, post, performed, runs >>
  BY DEF ReadPush, Agent!Receive, SystemInv, AgentInv, AgentTypes, ConnOrNo
<1>2. cmdCh' = cmdCh \/ cmdCh' = Append(cmdCh, Head(wire[dialed]))
  BY DEF ReadPush, Agent!Receive
<1>3. /\ Head(wire[dialed]) \in WirePush /\ Head(wire[dialed]).id \in Written
      /\ Tail(wire[dialed]) \in Seq(WirePush)
      /\ \A i \in 1 .. Len(Tail(wire[dialed])) : Tail(wire[dialed])[i].id \in Written
  BY <1>1, WireTail DEF SystemInv
<1>4. /\ cmdCh \in Seq(WirePush) /\ wire \in [Conn -> Seq(WirePush)]
      /\ \A i \in 1 .. Len(cmdCh) : cmdCh[i].id \in Written
      /\ \A k \in Conn : \A i \in 1 .. Len(wire[k]) : wire[k][i].id \in Written
  BY DEF SystemInv, AgentInv, AgentTypes, HeldWasWritten
<1>5. cmdCh' \in Seq(WirePush) /\ \A i \in 1 .. Len(cmdCh') : cmdCh'[i].id \in Written
  <2>1. CASE cmdCh' = Append(cmdCh, Head(wire[dialed]))
    <3>1. cmdCh' \in Seq(WirePush)
      BY <1>3, <1>4, <2>1
    <3>2. \A i \in 1 .. Len(cmdCh') : \/ i \in 1 .. Len(cmdCh) /\ cmdCh'[i] = cmdCh[i]
                                      \/ cmdCh'[i] = Head(wire[dialed])
      BY <1>4, <2>1
    <3>3. QED BY <1>3, <1>4, <3>1, <3>2
  <2>2. QED BY <1>2, <1>4, <2>1
<1>6. /\ wire' \in [Conn -> Seq(WirePush)]
      /\ \A k \in Conn : \A i \in 1 .. Len(wire'[k]) : wire'[k][i].id \in Written
  BY <1>1, <1>3, <1>4
<1>7. AgentTypes'
  BY <1>1, <1>5, <1>6 DEF SystemInv, AgentInv, AgentTypes
<1>8. BusySlots' /\ SuccessIsPerformed'
  BY <1>1 DEF SystemInv, AgentInv, BusySlots, SuccessIsPerformed
<1>9. HeldWasWritten'
  BY <1>1, <1>5, <1>6 DEF SystemInv, AgentInv, HeldWasWritten
<1>10. QED BY <1>7, <1>8, <1>9 DEF AgentInv

\* A process that dies keeps neither pushes nor goroutines; its posts travel on.
LEMMA AgentForgets ==
  ASSUME SystemInv, AgentDies, Written \subseteq Written'
  PROVE  AgentInv'
<1> DEFINE idle == [cmd |-> NoCmd, type |-> "STATUS_XRAYR", at |-> "idle", verdict |-> "none"]
<1>1. /\ cmdCh' = << >> /\ slot' = [s \in Slot |-> idle] /\ dialed' = NoConn
      /\ UNCHANGED << post, performed, runs >>
      /\ wire' = [k \in Conn |-> IF k = dialed THEN << >> ELSE wire[k]]
  BY DEF AgentDies, Agent!AgentExit, Agent!Idle
<1>2. idle \in SlotRecord
  BY DEF SlotRecord, AllTypes
<1>3. AgentTypes'
  BY <1>1, <1>2 DEF SystemInv, AgentInv, AgentTypes, ConnOrNo
<1>4. BusySlots' /\ SuccessIsPerformed'
  BY <1>1 DEF SystemInv, AgentInv, BusySlots, SuccessIsPerformed
<1>5. HeldWasWritten'
  BY <1>1 DEF SystemInv, AgentInv, HeldWasWritten
<1>6. QED BY <1>3, <1>4, <1>5 DEF AgentInv

LEMMA AgentInvStep ==
  ASSUME SystemInv, [Next]_vars, Written \subseteq Written', pushes' \in [Cmd -> Nat]
  PROVE  AgentInv'
<1>1. CASE CenterDoes \/ AgentBoots \/ UNCHANGED vars
  BY <1>1, AgentWires DEF CenterDoes, AgentBoots, vars, agentVars, SystemInv, AgentInv, AgentTypes, HeldWasWritten
<1>2. CASE CenterWrites
  BY <1>2, AgentSideWrites
<1>3. ASSUME NEW k \in Conn, Dial(k) PROVE AgentInv'
  BY <1>3, AgentWires DEF Dial, agentVars, SystemInv, AgentInv, AgentTypes, HeldWasWritten, ConnOrNo
<1>4. CASE ReadPush
  BY <1>4, AgentReads
<1>5. CASE ReadFails
  <2>1. /\ wire' = [wire EXCEPT ![dialed] = << >>] /\ dialed' \in ConnOrNo
        /\ UNCHANGED << cmdCh, slot, post, performed, runs >>
    BY <1>5 DEF ReadFails, agentVars, ConnOrNo
  <2>2. wire \in [Conn -> Seq(WirePush)]
        /\ \A j \in Conn : \A i \in 1 .. Len(wire[j]) : wire[j][i].id \in Written
    BY DEF SystemInv, AgentInv, AgentTypes, HeldWasWritten
  <2>3. wire' \in [Conn -> Seq(WirePush)]
        /\ \A j \in Conn : \A i \in 1 .. Len(wire'[j]) : wire'[j][i].id \in Written
    <3>1. \A j \in Conn : wire'[j] = wire[j] \/ wire'[j] = << >>
      BY <2>1, <2>2
    <3>2. wire' \in [Conn -> Seq(WirePush)]
      <4>1. << >> \in Seq(WirePush)
        OBVIOUS
      <4>2. QED BY <2>1, <2>2, <4>1
    <3>3. QED BY <2>2, <3>1, <3>2
  <2>4. QED BY <2>1, <2>3, AgentWires DEF SystemInv
<1>6. ASSUME NEW r \in post, HandlePost(r) PROVE AgentInv'
  <2>1. /\ post' \subseteq post /\ UNCHANGED << cmdCh, slot, performed, runs >>
        /\ UNCHANGED << wire, dialed >>
    BY <1>6 DEF HandlePost, Agent!Arrive
  <2>2. ChannelMoves /\ dialed' \in ConnOrNo
    BY <2>1 DEF ChannelMoves, SystemInv, AgentInv, AgentTypes
  <2>3. QED BY <2>1, <2>2, AgentKept DEF SystemInv
<1>7. CASE AgentDoes
  <2>1. dialed' \in ConnOrNo
    BY <1>7 DEF AgentDoes, SystemInv, AgentInv, AgentTypes
  <2>2. QED BY <1>7, <2>1, AgentAloneMoves, AgentKept DEF AgentDoes, SystemInv
<1>8. CASE AgentDies
  BY <1>8, AgentForgets
<1>9. QED BY <1>1, <1>2, <1>3, <1>4, <1>5, <1>6, <1>7, <1>8 DEF Next

-----------------------------------------------------------------------------
(* The system implements the contract.  SystemInv gives what the mapping   *)
(* of a step needs: that a queued type was granted, that a command carried *)
(* out or reported on has a row, that a SUCCESS is real.                   *)

\* What a step does to the rows and the grants: it keeps every row, inserts
\* one, or rewrites the status of one.
RowsKept ==
  /\ UNCHANGED status
  /\ \A c \in Cmd : status[c] # "ABSENT" => ctype'[c] = ctype[c]
  /\ granted \subseteq granted' /\ granted' \in SUBSET AllTypes

RowInserted(c) == InsertCommand(c) /\ UNCHANGED << ctype, granted >>

RowRewritten(c, st) ==
  /\ status[c] # "ABSENT"
  /\ status' = [status EXCEPT ![c] = st]
  /\ UNCHANGED << ctype, granted >>

RowsEffect ==
  \/ RowsKept
  \/ \E c \in Cmd : RowInserted(c)
  \/ \E c \in Cmd, st \in {"SENT", "RUNNING"} \cup Results :
       RowRewritten(c, st) /\ (st = "SUCCESS" => c \in performed)

LEMMA RowsUntouched ==
  ASSUME SystemInv, UNCHANGED << status, ctype, granted >>
  PROVE  RowsEffect
<1>1. granted \in SUBSET AllTypes
  BY DEF SystemInv, CenterInv, CoverInv, Shape, CenterTypeOK
<1>2. QED BY <1>1 DEF RowsEffect, RowsKept

LEMMA RowsOfRequest ==
  ASSUME SystemInv, NEW c \in Cmd,
         (\E t \in Types : BeginRequest(c, t)) \/ RequestStep(c) \/ RequestSqlError(c)
  PROVE  RowsEffect
<1> USE DEF SystemInv, CenterInv, CoverInv, GrantInv, Shape, CenterTypeOK
<1>1. ASSUME NEW t \in Types, BeginRequest(c, t)
      PROVE  RowsKept
  BY <1>1 DEF BeginRequest, requestUnchanged, RowsKept, GrantFacts, At
<1>2. CASE hasConcurrentDangerous(c) \/ LookupConn(c) \/ WriteConn(c) \/ RequestSqlError(c)
  <2>1. UNCHANGED << status, ctype, granted >>
    BY <1>2 DEF hasConcurrentDangerous, LookupConn, WriteConn, RequestSqlError, requestUnchanged
  <2>2. QED BY <2>1, RowsUntouched
<1>3. CASE InsertCommand(c)
  <2>1. RowInserted(c)
    BY <1>3 DEF InsertCommand, requestUnchanged, RowInserted
  <2>2. QED BY <2>1 DEF RowsEffect
<1>4. CASE MarkSent(c)
  <2>1. RowRewritten(c, "SENT")
    BY <1>4 DEF MarkSent, requestUnchanged, RowsExist, At, RowRewritten
  <2>2. QED BY <2>1 DEF RowsEffect
<1>5. QED BY <1>1, <1>2, <1>3, <1>4 DEF RequestStep, RowsEffect

LEMMA RowsOfConn ==
  ASSUME SystemInv, NEW k \in Conn,
         \/ UpgradeConn(k) \/ RegisterConn(k) \/ EndSession(k) \/ BreakLink(k)
         \/ FlushStep(k) \/ FlushSqlError(k)
  PROVE  RowsEffect
<1>1. CASE FlushMark(k)
  <2>1. flush[k].cur \in Cmd /\ status[flush[k].cur] # "ABSENT"
    BY <1>1 DEF FlushMark, FlushAt, SystemInv, CenterInv, GrantInv, Shape, FlushHoldsRow, RowsExist
  <2>2. RowRewritten(flush[k].cur, "SENT")
    BY <1>1, <2>1 DEF FlushMark, flushUnchanged, RowRewritten
  <2>3. QED BY <2>1, <2>2 DEF RowsEffect
<1>2. CASE \/ UpgradeConn(k) \/ RegisterConn(k) \/ EndSession(k) \/ BreakLink(k)
           \/ FlushQuery(k) \/ FlushNext(k) \/ FlushWrite(k) \/ FlushEnd(k) \/ FlushSqlError(k)
  <2>1. UNCHANGED << status, ctype, granted >>
    BY <1>2 DEF UpgradeConn, RegisterConn, EndSession, BreakLink, sessionUnchanged, FlushQuery,
                FlushNext, FlushWrite, FlushEnd, FlushSqlError, flushUnchanged
  <2>2. QED BY <2>1, RowsUntouched
<1>3. QED BY <1>1, <1>2 DEF FlushStep

LEMMA RowsOfSettings ==
  ASSUME SystemInv, enableWritable \/ patchNodeSettings \/ agentDiscoveryReport
  PROVE  RowsEffect
<1>1. UNCHANGED << status, ctype >> /\ granted \subseteq granted'
  BY DEF enableWritable, patchNodeSettings, agentDiscoveryReport, SetNode
<1>2. CenterTypeOK'
  BY TypeSettings DEF SystemInv, CenterInv, CoverInv, Shape
<1>3. granted' \in SUBSET AllTypes
  BY <1>2 DEF CenterTypeOK
<1>4. QED BY <1>1, <1>3 DEF RowsEffect, RowsKept

\* The agent's post says SUCCESS only of what was carried out.
LEMMA RowsOfPost ==
  ASSUME SystemInv, NEW r \in post, HandlePost(r)
  PROVE  RowsEffect
<1>1. r.cmd \in Cmd /\ r.says \in {"RUNNING", "SUCCESS", "FAILED"}
      /\ (r.says = "SUCCESS" => r.cmd \in performed)
  BY DEF SystemInv, AgentInv, AgentTypes, PostRecord, SuccessIsPerformed
<1>2. RowRewritten(r.cmd, r.says)
  BY DEF HandlePost, postAgentCommandProgress, postAgentCommandResult, reportUnchanged, RowRewritten
<1>3. r.says \in {"SENT", "RUNNING"} \cup Results
  BY <1>1, AgentResultsAssumption
<1>4. QED BY <1>1, <1>2, <1>3 DEF RowsEffect

LEMMA RowsOfStep ==
  ASSUME SystemInv, [Next]_vars
  PROVE  RowsEffect
<1>1. CASE CenterDoes
  <2>1. CASE CenterCrash
    BY <2>1, RowsUntouched DEF CenterCrash
  <2>2. QED BY <1>1, <2>1, RowsOfRequest, RowsOfConn, RowsOfSettings DEF CenterDoes, RequestStep, FlushStep
<1>2. CASE CenterWrites
  BY <1>2, RowsOfRequest, RowsOfConn DEF CenterWrites, RequestStep, FlushStep
<1>3. ASSUME NEW k \in Conn, Dial(k) PROVE RowsEffect
  BY <1>3, RowsOfConn DEF Dial
<1>4. CASE ReadPush \/ ReadFails \/ AgentDoes \/ AgentDies \/ UNCHANGED vars
  <2>1. UNCHANGED << status, ctype, granted >>
    BY <1>4 DEF ReadPush, ReadFails, AgentDoes, AgentDies, vars, centerVars
  <2>2. QED BY <2>1, RowsUntouched
<1>5. CASE AgentBoots
  BY <1>5, RowsOfSettings DEF AgentBoots
<1>6. QED BY <1>1, <1>2, <1>3, <1>4, <1>5, RowsOfPost DEF Next

\* Only BeginRequest and the check for a concurrent command lead to the INSERT.
InsertIsChecked ==
  \A c \in Cmd : req'[c].at \in {"dup", "insert"} => req[c].at \in {"idle", "dup", "insert"}

LEMMA InsertIsCheckedStep ==
  ASSUME SystemInv, CenterStep
  PROVE  InsertIsChecked
<1>1. ASSUME NEW c \in Cmd, \E t \in Types : BeginRequest(c, t)
      PROVE  InsertIsChecked
  <2>1. req[c].at = "idle" /\ \A d \in Cmd : d # c => req'[d] = req[d]
    BY <1>1 DEF BeginRequest, Goto, At, SystemInv, CenterInv, CoverInv, Shape, CenterTypeOK
  <2>2. QED BY <2>1 DEF InsertIsChecked
<1>2. ASSUME NEW c \in Cmd, RequestStep(c) \/ RequestSqlError(c)
      PROVE  InsertIsChecked
  <2>1. /\ \A d \in Cmd : d # c => req'[d] = req[d]
        /\ req'[c].at = "insert" => req[c].at = "dup"
        /\ req'[c].at # "dup"
    BY <1>2 DEF RequestStep, hasConcurrentDangerous, InsertCommand, LookupConn, WriteConn,
                MarkSent, RequestSqlError, Goto, At, SystemInv, CenterInv, CoverInv, Shape, CenterTypeOK
  <2>2. QED BY <2>1 DEF InsertIsChecked
<1>3. CASE UNCHANGED req
  BY <1>3 DEF InsertIsChecked
<1>4. ASSUME NEW k \in Conn,
             \/ UpgradeConn(k) \/ RegisterConn(k) \/ EndSession(k) \/ BreakLink(k)
             \/ FlushStep(k) \/ FlushSqlError(k)
      PROVE  UNCHANGED req
  BY <1>4 DEF UpgradeConn, RegisterConn, EndSession, BreakLink, sessionUnchanged, FlushStep,
              FlushQuery, FlushNext, FlushWrite, FlushMark, FlushEnd, FlushSqlError, flushUnchanged
<1>5. ASSUME NEW c \in Cmd, \/ postAgentCommandProgress(c)
                            \/ \E st \in Results : postAgentCommandResult(c, st)
      PROVE  UNCHANGED req
  BY <1>5 DEF postAgentCommandProgress, postAgentCommandResult, reportUnchanged
<1>6. enableWritable \/ patchNodeSettings \/ agentDiscoveryReport \/ UNCHANGED centerVars \/ LinksBreak
        => UNCHANGED req
  BY DEF enableWritable, patchNodeSettings, agentDiscoveryReport, SetNode, centerVars, LinksBreak
<1>7. CASE CenterCrash
  <2>1. \A c \in Cmd : req'[c] = req[c] \/ req'[c] = [at |-> "done", conn |-> NoConn]
    BY <1>7 DEF CenterCrash, At
  <2>2. QED BY <2>1 DEF InsertIsChecked
<1>8. CASE CenterAlone
  BY <1>1, <1>2, <1>3, <1>4, <1>6, <1>7, <1>8 DEF CenterAlone
<1>9. CASE AnyAgent
  BY <1>3, <1>4, <1>5, <1>6, <1>9 DEF AnyAgent
<1>10. QED BY <1>3, <1>6, <1>8, <1>9 DEF CenterStep, CenterNext

LEMMA InsertedOnceStep ==
  ASSUME SystemInv, CenterStep, RowsEffect
  PROVE  InsertedOnce'
<1> USE DEF SystemInv, CenterInv, CoverInv, Shape, CenterTypeOK
<1>1. \A c \in Cmd : req'[c].at \in {"dup", "insert"} => req[c].at \in {"idle", "dup", "insert"}
  BY InsertIsCheckedStep DEF InsertIsChecked
<1>2. \A c \in Cmd : req[c].at \in {"idle", "dup", "insert"} => status[c] = "ABSENT"
  BY DEF InsertedOnce, GrantInv, GrantFacts, At
<1>3. CASE RowsKept
  BY <1>1, <1>2, <1>3 DEF RowsKept, InsertedOnce
<1>4. ASSUME NEW c \in Cmd, RowInserted(c)
      PROVE  InsertedOnce'
  <2>1. req'[c].at \in {"lookup", "failed"} /\ \A d \in Cmd : d # c => status'[d] = status[d]
    BY <1>4 DEF RowInserted, InsertCommand, Goto
  <2>2. QED BY <1>1, <1>2, <2>1 DEF InsertedOnce
<1>5. ASSUME NEW c \in Cmd, NEW st, RowRewritten(c, st)
      PROVE  InsertedOnce'
  <2>1. status[c] # "ABSENT" /\ \A d \in Cmd : d # c => status'[d] = status[d]
    BY <1>5 DEF RowRewritten
  <2>2. QED BY <1>1, <1>2, <2>1 DEF InsertedOnce
<1>6. QED BY <1>3, <1>4, <1>5 DEF RowsEffect

LEMMA SystemStep == SystemInv /\ [Next]_vars => SystemInv'
<1> SUFFICES ASSUME SystemInv, [Next]_vars PROVE SystemInv'
  OBVIOUS
<1>1. CenterStep
  BY CenterPart
<1>2. CenterInv'
  BY <1>1, CenterInvStep DEF SystemInv
<1>3. WritesToConn'
  BY <1>1, WritesToConnStep DEF SystemInv
<1>4. Written \subseteq Written' /\ WrittenHasRow'
  BY <1>1, WrittenStays DEF SystemInv
<1>5. pushes' \in [Cmd -> Nat]
  BY <1>2 DEF CenterInv, CoverInv, Shape, CenterTypeOK
<1>6. AgentInv'
  BY <1>4, <1>5, AgentInvStep
<1>7. InsertedOnce'
  BY <1>1, RowsOfStep, InsertedOnceStep
<1>8. QED BY <1>2, <1>3, <1>4, <1>6, <1>7 DEF SystemInv

LEMMA SystemInvariant == Spec => []SystemInv
  BY SystemInit, SystemStep, PTL DEF Spec

\* With a real agent as without one: what the Center promises of its queue
\* holds in the composed system, agents that die and boot included.
THEOREM SystemChecksPermissions == Spec => []CheckedTypesWereGranted
<1>1. SystemInv => CheckedTypesWereGranted
  BY DEF SystemInv, CenterInv, GrantInv
<1>2. QED BY <1>1, SystemInvariant, PTL

\* Nor is a pending command left with nobody to push it, when the links, the
\* agents and their dials are those of the composed system.
THEOREM SystemLosesNoWakeup == Spec => []PendingIsCovered
<1>1. SystemInv => PendingIsCovered
  BY DEF SystemInv, CenterInv, CoverInv
<1>2. QED BY <1>1, SystemInvariant, PTL

\* What a step does to the commands carried out.
LEMMA PerformedStep ==
  ASSUME SystemInv, [Next]_vars
  PROVE  \/ performed' = performed
         \/ /\ UNCHANGED << status, ctype, granted >>
            /\ \E c \in Cmd : status[c] # "ABSENT" /\ performed' = performed \cup {c}
<1>1. CASE AgentDoes
  <2>1. UNCHANGED << status, ctype, granted >>
    BY <1>1 DEF AgentDoes, centerVars
  <2>2. ASSUME NEW s \in Slot, Agent!Perform(s)
        PROVE  /\ slot[s].cmd \in Cmd /\ status[slot[s].cmd] # "ABSENT"
               /\ performed' = performed \/ performed' = performed \cup {slot[s].cmd}
    <3>1. slot[s].at # "idle"
      BY <2>2 DEF Agent!Perform
    <3>2. slot[s].cmd \in Written
      BY <3>1 DEF SystemInv, AgentInv, HeldWasWritten
    <3>3. QED BY <2>2, <3>2 DEF Agent!Perform, Written, SystemInv, WrittenHasRow
  <2>3. ASSUME NEW s \in Slot,
               \/ Agent!TakePush(s) \/ Agent!Refuse(s) \/ Agent!Announce(s) \/ Agent!Announced(s)
               \/ Agent!Report(s) \/ Agent!Finish(s)
        PROVE  performed' = performed
    BY <2>3 DEF Agent!TakePush, Agent!StartPush, Agent!Refuse, Agent!Announce, Agent!Announced,
                Agent!Report, Agent!Finish
  <2>4. CASE Agent!IgnorePush \/ \E r \in post : Agent!LosePost(r)
    BY <2>4 DEF Agent!IgnorePush, Agent!LosePost, Agent!Arrive
  <2>5. QED BY <1>1, <2>1, <2>2, <2>3, <2>4 DEF AgentDoes, Agent!AgentAlone, Agent!SlotStep
<1>2. CASE \/ CenterDoes \/ CenterWrites \/ (\E k \in Conn : Dial(k)) \/ ReadPush \/ ReadFails
           \/ (\E r \in post : HandlePost(r)) \/ AgentDies \/ AgentBoots \/ UNCHANGED vars
  BY <1>2 DEF CenterDoes, CenterWrites, Dial, ReadPush, ReadFails, HandlePost, AgentDies, AgentBoots,
              agentVars, vars, Agent!Receive, Agent!Arrive, Agent!AgentExit
<1>3. QED BY <1>1, <1>2 DEF Next

\* Both together: a step moves the rows or the commands carried out, not both.
LEMMA ContractStep ==
  ASSUME SystemInv, RowsEffect,
         \/ performed' = performed
         \/ /\ UNCHANGED << status, ctype, granted >>
            /\ \E c \in Cmd : status[c] # "ABSENT" /\ performed' = performed \cup {c}
  PROVE  Contract!ContractNext \/ UNCHANGED Contract!contractVars
<1>1. /\ status \in [Cmd -> Statuses] /\ ctype \in [Cmd -> AllTypes]
      /\ "none" \notin AllTypes /\ "ABSENT" \notin Results /\ "none" \notin Results
      /\ "SENT" \notin Results /\ "RUNNING" \notin Results /\ "PENDING" \notin Results
  BY ResultsAssumption DEF SystemInv, CenterInv, CoverInv, Shape, CenterTypeOK, AllTypes
<1>2. CASE performed' = performed /\ RowsKept
  <2>1. [c \in Cmd |-> IF status'[c] = "ABSENT" THEN "none" ELSE ctype'[c]]
          = [c \in Cmd |-> IF status[c] = "ABSENT" THEN "none" ELSE ctype[c]]
    BY <1>2 DEF RowsKept
  <2>2. Contract!Grant
    BY <1>2, <2>1 DEF RowsKept, Contract!Grant
  <2>3. QED BY <2>2 DEF Contract!ContractNext
<1>3. ASSUME performed' = performed, NEW c \in Cmd, RowInserted(c)
      PROVE  Contract!ContractNext
  <2>1. req[c].at = "insert" /\ status' = [status EXCEPT ![c] = "PENDING"] /\ UNCHANGED << ctype, granted >>
    BY <1>3 DEF RowInserted, InsertCommand, At
  <2>2. ctype[c] \in {"STATUS_XRAYR", "APPLY_CONFIG"} \cup granted /\ ctype[c] \in AllTypes
    BY <1>1, <2>1 DEF SystemInv, CenterInv, GrantInv, GrantFacts
  <2>3. status[c] = "ABSENT"
    BY <2>1 DEF SystemInv, InsertedOnce
  <2>4. PICK t \in AllTypes : t = ctype[c]
    BY <2>2
  <2>5. Contract!Queue(c, t)
    BY <1>1, <1>3, <2>1, <2>2, <2>3, <2>4 DEF Contract!Queue
  <2>6. QED BY <2>5 DEF Contract!ContractNext
<1>4. ASSUME performed' = performed, NEW c \in Cmd, NEW st \in {"SENT", "RUNNING"} \cup Results,
             RowRewritten(c, st), st = "SUCCESS" => c \in performed
      PROVE  Contract!ContractNext
  <2>1. status[c] # "ABSENT" /\ status' = [status EXCEPT ![c] = st] /\ UNCHANGED << ctype, granted >>
    BY <1>4 DEF RowRewritten
  <2>2. st # "ABSENT" /\ ctype[c] # "none"
    BY <1>1
  <2>3. [d \in Cmd |-> IF status'[d] = "ABSENT" THEN "none" ELSE ctype'[d]]
          = [d \in Cmd |-> IF status[d] = "ABSENT" THEN "none" ELSE ctype[d]]
    BY <1>1, <2>1, <2>2
  <2>4. CASE st \in Results
    <3>1. [d \in Cmd |-> IF status'[d] \in Results THEN status'[d] ELSE "none"]
            = [[d \in Cmd |-> IF status[d] \in Results THEN status[d] ELSE "none"] EXCEPT ![c] = st]
      BY <1>1, <2>1, <2>4
    <3>2. Contract!Conclude(c, st)
      BY <1>4, <2>1, <2>2, <2>3, <3>1 DEF Contract!Conclude
    <3>3. \E v \in Results : Contract!Conclude(c, v)
      BY <2>4, <3>2
    <3>4. QED BY <3>3 DEF Contract!ContractNext
  <2>5. CASE st \notin Results
    <3>1. [d \in Cmd |-> IF status'[d] \in Results THEN status'[d] ELSE "none"]
            = [[d \in Cmd |-> IF status[d] \in Results THEN status[d] ELSE "none"] EXCEPT ![c] = "none"]
      BY <1>1, <2>1, <2>5
    <3>2. Contract!Reopen(c)
      BY <1>4, <2>1, <2>3, <3>1 DEF Contract!Reopen
    <3>3. QED BY <3>2 DEF Contract!ContractNext
  <2>6. QED BY <2>4, <2>5
<1>5. ASSUME UNCHANGED << status, ctype, granted >>, NEW c \in Cmd, status[c] # "ABSENT",
             performed' = performed \cup {c}
      PROVE  Contract!ContractNext
  <2>1. ctype[c] # "none"
    BY <1>1
  <2>2. Contract!Perform(c)
    BY <1>5, <2>1 DEF Contract!Perform
  <2>3. QED BY <2>2 DEF Contract!ContractNext
<1>6. QED BY <1>2, <1>3, <1>4, <1>5 DEF RowsEffect

\* Whatever the network, the faults and the administrators do, the Center and
\* the agent together keep the contract: a checked type is queued only once
\* granted, only a queued command is carried out, and a SUCCESS is recorded
\* only of one that was.
THEOREM SystemImplementsContract == Spec => ImplementsContract
<1>1. Init => Contract!ContractInit
  BY ResultsAssumption DEF Init, CenterInit, Agent!AgentInit, Contract!ContractInit
<1>2. SystemInv /\ [Next]_vars => [Contract!ContractNext]_(Contract!contractVars)
  BY RowsOfStep, PerformedStep, ContractStep
<1>3. QED BY <1>1, <1>2, SystemInvariant, PTL DEF Spec, ImplementsContract, Contract!ContractSpec

\* What the contract adds up to, in its own terms: the mapped variables are
\* functions on the commands, so an EXCEPT changes one command's value only.
LEMMA ContractKeptStep ==
  ASSUME SystemInv, Contract!ContractKept, [Contract!ContractNext]_(Contract!contractVars)
  PROVE  Contract!ContractKept'
<1> DEFINE q == [c \in Cmd |-> IF status[c] = "ABSENT" THEN "none" ELSE ctype[c]]
           v == [c \in Cmd |-> IF status[c] \in Results THEN status[c] ELSE "none"]
<1>1. /\ \A c \in performed : q[c] # "none"
      /\ \A c \in Cmd : v[c] # "none" => q[c] # "none"
      /\ \A c \in Cmd : v[c] = "SUCCESS" => c \in performed
      /\ \A c \in Cmd : q[c] \in {"none"} \cup granted \cup {"STATUS_XRAYR", "APPLY_CONFIG"}
  BY DEF Contract!ContractKept
<1>2. performed \in SUBSET Cmd /\ DOMAIN q = Cmd /\ DOMAIN v = Cmd
  BY DEF SystemInv, AgentInv, AgentTypes
<1> SUFFICES /\ \A c \in performed' : q'[c] # "none"
             /\ \A c \in Cmd : v'[c] # "none" => q'[c] # "none"
             /\ \A c \in Cmd : v'[c] = "SUCCESS" => c \in performed'
             /\ \A c \in Cmd : q'[c] \in {"none"} \cup granted' \cup {"STATUS_XRAYR", "APPLY_CONFIG"}
  BY DEF Contract!ContractKept
<1>3. CASE Contract!Grant
  <2>1. granted \subseteq granted' /\ q' = q /\ performed' = performed /\ v' = v
    BY <1>3 DEF Contract!Grant
  <2> HIDE DEF q, v
  <2>2. QED BY <1>1, <2>1
<1>4. ASSUME NEW c \in Cmd, NEW t \in AllTypes, Contract!Queue(c, t)
      PROVE  /\ \A d \in performed' : q'[d] # "none"
             /\ \A d \in Cmd : v'[d] # "none" => q'[d] # "none"
             /\ \A d \in Cmd : v'[d] = "SUCCESS" => d \in performed'
             /\ \A d \in Cmd : q'[d] \in {"none"} \cup granted' \cup {"STATUS_XRAYR", "APPLY_CONFIG"}
  <2>1. /\ q' = [q EXCEPT ![c] = t] /\ t \in granted \cup {"STATUS_XRAYR", "APPLY_CONFIG"}
        /\ granted' = granted /\ performed' = performed /\ v' = v
    BY <1>4 DEF Contract!Queue
  <2>2. t # "none"
    BY DEF AllTypes
  <2> HIDE DEF q, v
  <2>3. q'[c] = t /\ \A d \in Cmd \ {c} : q'[d] = q[d]
    BY <1>2, <2>1
  <2>4. QED BY <1>1, <1>2, <2>1, <2>2, <2>3
<1>5. ASSUME NEW c \in Cmd, Contract!Perform(c)
      PROVE  /\ \A d \in performed' : q'[d] # "none"
             /\ \A d \in Cmd : v'[d] # "none" => q'[d] # "none"
             /\ \A d \in Cmd : v'[d] = "SUCCESS" => d \in performed'
             /\ \A d \in Cmd : q'[d] \in {"none"} \cup granted' \cup {"STATUS_XRAYR", "APPLY_CONFIG"}
  <2>1. /\ q[c] # "none" /\ performed' = performed \cup {c}
        /\ granted' = granted /\ q' = q /\ v' = v
    BY <1>5 DEF Contract!Perform
  <2> HIDE DEF q, v
  <2>2. QED BY <1>1, <2>1
<1>6. ASSUME NEW c \in Cmd,
             (\E st \in Results : Contract!Conclude(c, st)) \/ Contract!Reopen(c)
      PROVE  /\ \A d \in performed' : q'[d] # "none"
             /\ \A d \in Cmd : v'[d] # "none" => q'[d] # "none"
             /\ \A d \in Cmd : v'[d] = "SUCCESS" => d \in performed'
             /\ \A d \in Cmd : q'[d] \in {"none"} \cup granted' \cup {"STATUS_XRAYR", "APPLY_CONFIG"}
  <2>1. PICK st : /\ v' = [v EXCEPT ![c] = st]
                  /\ st = "none" \/ (q[c] # "none" /\ (st = "SUCCESS" => c \in performed))
                  /\ granted' = granted /\ q' = q /\ performed' = performed
    BY <1>6 DEF Contract!Conclude, Contract!Reopen
  <2> HIDE DEF q, v
  <2>2. v'[c] = st /\ \A d \in Cmd \ {c} : v'[d] = v[d]
    BY <1>2, <2>1
  <2>3. QED BY <1>1, <2>1, <2>2
<1>7. CASE UNCHANGED Contract!contractVars
  <2>1. granted' = granted /\ q' = q /\ performed' = performed /\ v' = v
    BY <1>7 DEF Contract!contractVars
  <2> HIDE DEF q, v
  <2>2. QED BY <1>1, <2>1
<1>8. QED BY <1>3, <1>4, <1>5, <1>6, <1>7 DEF Contract!ContractNext

\* The guarantees that the contract makes are the system's: a verdict in the
\* commands table is about a queued command, one of a checked type about a
\* granted one, and a SUCCESS about one that the node carried out.
THEOREM SystemKeepsContract == Spec => []Contract!ContractKept
<1>1. Init => Contract!ContractKept
  BY ResultsAssumption DEF Init, CenterInit, Agent!AgentInit, Contract!ContractKept
<1>2. SystemInv /\ Contract!ContractKept /\ [Contract!ContractNext]_(Contract!contractVars)
        => Contract!ContractKept'
  BY ContractKeptStep
<1>3. Spec => [][Contract!ContractNext]_(Contract!contractVars)
  BY SystemImplementsContract, PTL DEF ImplementsContract, Contract!ContractSpec
<1>4. Spec => Init
  BY DEF Spec
<1>5. QED BY <1>1, <1>2, <1>3, <1>4, SystemInvariant, PTL

\* The row an administrator reads says SUCCESS only of a command that the
\* agent carried out, whatever was lost, late or repeated on the way.
THEOREM RecordedSuccessIsReal ==
  Spec => [](\A c \in Cmd : status[c] = "SUCCESS" => c \in performed)
<1>1. ASSUME Contract!ContractKept, NEW c \in Cmd, status[c] = "SUCCESS"
      PROVE  c \in performed
  <2>1. status[c] \in Results
    BY <1>1, AgentResultsAssumption
  <2>2. QED BY <1>1, <2>1 DEF Contract!ContractKept
<1>2. Contract!ContractKept => \A c \in Cmd : status[c] = "SUCCESS" => c \in performed
  BY <1>1
<1>3. QED BY <1>2, SystemKeepsContract, PTL

-----------------------------------------------------------------------------
(* The agent's guarantees, with the Center and the network that it really  *)
(* has.  AgentWorkerProofs shows them of the agent with any Center; here   *)
(* its steps are those of the system, which bounds neither the pushes nor  *)
(* the executions.                                                         *)

OneEach == Agent!OneExecutionPerCommand /\ Agent!RunningIsExact

\* A goroutine that goes on keeps its command, and so does the map.
LEMMA OneEachKeeps ==
  ASSUME OneEach, UNCHANGED running,
         \A s \in Slot : slot'[s].cmd = slot[s].cmd /\ (slot'[s].at = "idle" <=> slot[s].at = "idle")
  PROVE  OneEach'
<1>1. Agent!Busy' = Agent!Busy
  BY DEF Agent!Busy
<1>2. \A s \in Agent!Busy : slot'[s].cmd = slot[s].cmd
  BY DEF Agent!Busy
<1>3. QED BY <1>1, <1>2 DEF OneEach, Agent!OneExecutionPerCommand, Agent!RunningIsExact

LEMMA OneEachTakes ==
  ASSUME SystemInv, OneEach, NEW s \in Slot, Agent!TakePush(s)
  PROVE  OneEach'
<1> DEFINE c == Head(cmdCh).id
<1>1. slot \in [Slot -> SlotRecord]
  BY DEF SystemInv, AgentInv, AgentTypes
<1>2. /\ slot[s].at = "idle" /\ c \notin running
      /\ running' = running \cup {c}
      /\ slot'[s].cmd = c /\ slot'[s].at = "start"
      /\ \A t \in Slot \ {s} : slot'[t] = slot[t]
  BY <1>1 DEF Agent!TakePush, Agent!StartPush
<1>3. Agent!Busy' = Agent!Busy \cup {s} /\ s \notin Agent!Busy
  BY <1>2 DEF Agent!Busy
<1>4. \A t \in Agent!Busy : slot'[t].cmd = slot[t].cmd /\ slot[t].cmd \in running
  BY <1>2, <1>3 DEF OneEach, Agent!RunningIsExact, Agent!Busy
<1>5. Agent!OneExecutionPerCommand'
  BY <1>2, <1>3, <1>4 DEF OneEach, Agent!OneExecutionPerCommand
<1>6. Agent!RunningIsExact'
  BY <1>2, <1>3, <1>4 DEF OneEach, Agent!RunningIsExact
<1>7. QED BY <1>5, <1>6 DEF OneEach

LEMMA OneEachFinishes ==
  ASSUME SystemInv, OneEach, NEW s \in Slot, Agent!Finish(s)
  PROVE  OneEach'
<1>1. slot \in [Slot -> SlotRecord]
  BY DEF SystemInv, AgentInv, AgentTypes
<1>2. /\ s \in Agent!Busy
      /\ running' = running \ {slot[s].cmd}
      /\ slot'[s].at = "idle"
      /\ \A t \in Slot \ {s} : slot'[t] = slot[t]
  BY <1>1 DEF Agent!Finish, Agent!Idle, Agent!Busy
<1>3. Agent!Busy' = Agent!Busy \ {s}
  BY <1>2 DEF Agent!Busy
<1>4. \A t \in Agent!Busy \ {s} : slot'[t].cmd = slot[t].cmd /\ slot[t].cmd # slot[s].cmd
  BY <1>2 DEF OneEach, Agent!OneExecutionPerCommand, Agent!Busy
<1>5. Agent!OneExecutionPerCommand'
  BY <1>3, <1>4 DEF OneEach, Agent!OneExecutionPerCommand
<1>6. Agent!RunningIsExact'
  BY <1>2, <1>3, <1>4 DEF OneEach, Agent!RunningIsExact
<1>7. QED BY <1>5, <1>6 DEF OneEach

LEMMA OneEachGoesOn ==
  ASSUME SystemInv, OneEach, NEW s \in Slot,
         \/ Agent!Refuse(s) \/ Agent!Announce(s) \/ Agent!Announced(s)
         \/ Agent!Perform(s) \/ Agent!Report(s)
  PROVE  OneEach'
<1>1. slot \in [Slot -> SlotRecord] /\ running' = running
  BY DEF SystemInv, AgentInv, AgentTypes, Agent!Refuse, Agent!Announce, Agent!Announced,
         Agent!Perform, Agent!Report
<1>2. CASE Agent!Refuse(s) \/ Agent!Perform(s)
  <2>1. slot[s].at # "idle" /\ \E v \in {"SUCCESS", "FAILED"} : Agent!Decide(s, v)
    BY <1>2 DEF Agent!Refuse, Agent!Perform
  <2>2. PICK v \in {"SUCCESS", "FAILED"} :
          slot' = [slot EXCEPT ![s] = [cmd |-> @.cmd, type |-> @.type, at |-> "report", verdict |-> v]]
    BY <2>1 DEF Agent!Decide
  <2>3. /\ slot'[s].cmd = slot[s].cmd /\ slot'[s].at = "report"
        /\ \A t \in Slot \ {s} : slot'[t] = slot[t]
    BY <1>1, <2>2
  <2>4. QED BY <1>1, <2>1, <2>3, OneEachKeeps
<1>3. CASE Agent!Announce(s) \/ Agent!Announced(s) \/ Agent!Report(s)
  <2>1. PICK to \in {"ready", "announced", "reported"} :
          slot[s].at # "idle" /\ slot' = [slot EXCEPT ![s].at = to]
    BY <1>3 DEF Agent!Announce, Agent!Announced, Agent!Report, Agent!Step
  <2>2. /\ slot'[s].cmd = slot[s].cmd /\ slot'[s].at = to
        /\ \A t \in Slot \ {s} : slot'[t] = slot[t]
    BY <1>1, <2>1 DEF SlotRecord
  <2>3. QED BY <1>1, <2>1, <2>2, OneEachKeeps
<1>4. QED BY <1>2, <1>3

LEMMA OneEachStep == SystemInv /\ OneEach /\ [Next]_vars => OneEach'
<1> SUFFICES ASSUME SystemInv, OneEach, [Next]_vars PROVE OneEach'
  OBVIOUS
<1>1. CASE \/ CenterDoes \/ CenterWrites \/ (\E k \in Conn : Dial(k)) \/ ReadPush \/ ReadFails
           \/ (\E r \in post : HandlePost(r)) \/ AgentBoots \/ UNCHANGED vars
           \/ (AgentDoes /\ (Agent!IgnorePush \/ \E r \in post : Agent!LosePost(r)))
  <2>1. UNCHANGED << running, slot >>
    BY <1>1 DEF CenterDoes, CenterWrites, Dial, ReadPush, ReadFails, HandlePost, AgentBoots, vars,
                agentVars, Agent!Receive, Agent!Arrive, Agent!LosePost, Agent!IgnorePush
  <2>2. QED BY <2>1, OneEachKeeps
<1>2. ASSUME NEW s \in Slot, Agent!SlotStep(s) PROVE OneEach'
  BY <1>2, OneEachTakes, OneEachGoesOn, OneEachFinishes DEF Agent!SlotStep
<1>3. CASE AgentDies
  <2>1. running' = {} /\ Agent!Busy' = {}
    BY <1>3 DEF AgentDies, Agent!AgentExit, Agent!Busy, Agent!Idle
  <2>2. QED BY <2>1 DEF OneEach, Agent!OneExecutionPerCommand, Agent!RunningIsExact
<1>4. QED BY <1>1, <1>2, <1>3 DEF Next, AgentDoes, Agent!AgentAlone

\* However often a request and the flushes write a command to the node, around
\* links that break and processes that die, two goroutines of the agent never
\* execute it at once, and its map neither forgets an execution nor keeps one.
THEOREM SystemExecutesOnce ==
  Spec => [](Agent!OneExecutionPerCommand /\ Agent!RunningIsExact)
<1>1. Init => OneEach
  <2>1. Init => Agent!Busy = {} /\ running = {}
    BY DEF Init, Agent!AgentInit, Agent!Busy, Agent!Idle
  <2>2. QED BY <2>1 DEF OneEach, Agent!OneExecutionPerCommand, Agent!RunningIsExact
<1>2. OneEach => Agent!OneExecutionPerCommand /\ Agent!RunningIsExact
  BY DEF OneEach
<1>3. QED BY <1>1, <1>2, OneEachStep, SystemInvariant, PTL DEF Spec

-----------------------------------------------------------------------------
(* No execution without a push.  A command that was written n times is in  *)
(* n places at most: on a wire, in the agent's channel, or started.        *)

\* The places of command c in the queues q: which queue, and where in it.
Places(q, c) ==
  {p \in ConnOrNo \X Nat : p[2] \in 1 .. Len(q[p[1]]) /\ q[p[1]][p[2]].id = c}

Queues == [ConnOrNo -> Seq(WirePush)]

\* One more place for what is appended to a queue.
LEMMA PlacesAppend ==
  ASSUME NEW q \in Queues, NEW r \in Queues, NEW k \in ConnOrNo, NEW p \in WirePush, NEW c \in Cmd,
         r = [q EXCEPT ![k] = Append(@, p)], IsFiniteSet(Places(q, c))
  PROVE  /\ IsFiniteSet(Places(r, c))
         /\ Cardinality(Places(r, c)) <= Cardinality(Places(q, c)) + (IF p.id = c THEN 1 ELSE 0)
<1> DEFINE new == << k, Len(q[k]) + 1 >>
<1>1. /\ q[k] \in Seq(WirePush) /\ r[k] = Append(q[k], p)
      /\ \A j \in ConnOrNo \ {k} : r[j] = q[j]
  BY DEF Queues
<1>2. /\ Len(r[k]) = Len(q[k]) + 1 /\ r[k][Len(q[k]) + 1] = p
      /\ \A i \in 1 .. Len(q[k]) : r[k][i] = q[k][i]
  BY <1>1
<1>3. ASSUME NEW x \in Places(r, c)
      PROVE  x \in Places(q, c) \/ (x = new /\ p.id = c)
  <2>1. PICK j \in ConnOrNo, i \in Nat : x = << j, i >> /\ i \in 1 .. Len(r[j]) /\ r[j][i].id = c
    BY <1>3 DEF Places
  <2>2. CASE j # k
    BY <1>1, <2>1, <2>2 DEF Places
  <2>3. CASE j = k /\ i = Len(q[k]) + 1
    BY <1>2, <2>1, <2>3
  <2>4. CASE j = k /\ i # Len(q[k]) + 1
    <3>1. i \in 1 .. Len(q[k])
      BY <1>1, <1>2, <2>1, <2>4
    <3>2. QED BY <1>2, <2>1, <2>4, <3>1 DEF Places
  <2>5. QED BY <2>2, <2>3, <2>4
<1>4. Cardinality(Places(q, c)) \in Nat
  BY FS_CardinalityType
<1>5. CASE p.id = c
  <2>1. Places(r, c) \subseteq Places(q, c) \cup {new}
    BY <1>3
  <2>2. /\ IsFiniteSet(Places(q, c) \cup {new})
        /\ Cardinality(Places(q, c) \cup {new}) <= Cardinality(Places(q, c)) + 1
    <3>1. /\ IsFiniteSet(Places(q, c) \cup {new})
          /\ Cardinality(Places(q, c) \cup {new})
               = IF new \in Places(q, c) THEN Cardinality(Places(q, c)) ELSE Cardinality(Places(q, c)) + 1
      BY FS_AddElement
    <3>2. QED BY <1>4, <3>1
  <2>3. /\ IsFiniteSet(Places(r, c))
        /\ Cardinality(Places(r, c)) <= Cardinality(Places(q, c) \cup {new})
    BY <2>1, <2>2, FS_Subset
  <2>4. Cardinality(Places(r, c)) \in Nat /\ Cardinality(Places(q, c) \cup {new}) \in Nat
    BY <2>2, <2>3, FS_CardinalityType
  <2>5. QED BY <1>4, <1>5, <2>2, <2>3, <2>4
<1>6. CASE p.id # c
  <2>1. Places(r, c) \subseteq Places(q, c)
    BY <1>3, <1>6
  <2>2. IsFiniteSet(Places(r, c)) /\ Cardinality(Places(r, c)) <= Cardinality(Places(q, c))
    BY <2>1, FS_Subset
  <2>3. QED BY <1>4, <1>6, <2>2, FS_CardinalityType
<1>7. QED BY <1>5, <1>6

\* The place of its head is gone when a queue goes on to its tail.
LosesItsHead(q, r, k, c) ==
  /\ IsFiniteSet(Places(r, c))
  /\ Cardinality(Places(r, c)) <= Cardinality(Places(q, c))
  /\ Head(q[k]).id = c => Cardinality(Places(r, c)) + 1 <= Cardinality(Places(q, c))

LEMMA PlacesTail ==
  ASSUME NEW q \in Queues, NEW r \in Queues, NEW k \in ConnOrNo, NEW c \in Cmd, q[k] # << >>,
         r = [q EXCEPT ![k] = Tail(@)], IsFiniteSet(Places(q, c))
  PROVE  LosesItsHead(q, r, k, c)
<1> USE DEF LosesItsHead
<1> DEFINE head == << k, 1 >>
           rest == Places(q, c) \ {head}
           f    == [x \in Places(r, c) |-> IF x[1] = k THEN << k, x[2] + 1 >> ELSE x]
<1>1. /\ q[k] \in Seq(WirePush) /\ r[k] = Tail(q[k]) /\ Len(q[k]) > 0 /\ Len(r[k]) = Len(q[k]) - 1
      /\ \A j \in ConnOrNo \ {k} : r[j] = q[j]
      /\ Head(q[k]) = q[k][1]
  BY DEF Queues
<1>2. \A i \in 1 .. Len(r[k]) : i + 1 \in 2 .. Len(q[k]) /\ r[k][i] = q[k][i + 1]
  BY <1>1
<1>3. ASSUME NEW x \in Places(r, c)
      PROVE  /\ x[1] \in ConnOrNo /\ x[2] \in Nat /\ x = << x[1], x[2] >>
             /\ f[x] \in rest
  <2>1. PICK j \in ConnOrNo, i \in Nat : x = << j, i >> /\ i \in 1 .. Len(r[j]) /\ r[j][i].id = c
    BY <1>3 DEF Places
  <2>2. CASE j = k
    <3>1. i + 1 \in 2 .. Len(q[k]) /\ q[k][i + 1].id = c /\ i + 1 \in Nat /\ i + 1 # 1
      <4>1. i \in 1 .. Len(r[k]) /\ r[k][i].id = c
        BY <2>1, <2>2
      <4>2. i + 1 \in 2 .. Len(q[k]) /\ r[k][i] = q[k][i + 1]
        BY <1>2, <4>1
      <4>3. QED BY <2>1, <4>1, <4>2
    <3>2. << k, i + 1 >> \in Places(q, c)
      BY <1>1, <3>1 DEF Places
    <3>3. f[x] = << k, i + 1 >>
      BY <1>3, <2>1, <2>2
    <3>4. QED BY <2>1, <3>1, <3>2, <3>3
  <2>3. CASE j # k
    <3>1. x \in Places(q, c)
      BY <1>1, <2>1, <2>3 DEF Places
    <3>2. f[x] = x
      BY <1>3, <2>1, <2>3
    <3>3. QED BY <2>1, <2>3, <3>1, <3>2
  <2>4. QED BY <2>2, <2>3
<1>4. \A x, y \in Places(r, c) : f[x] = f[y] => x = y
  <2>1. SUFFICES ASSUME NEW x \in Places(r, c), NEW y \in Places(r, c), f[x] = f[y]
                 PROVE  x = y
    OBVIOUS
  <2>2. /\ x = << x[1], x[2] >> /\ y = << y[1], y[2] >> /\ x[2] \in Nat /\ y[2] \in Nat
    BY <1>3
  <2>3. /\ f[x] = IF x[1] = k THEN << k, x[2] + 1 >> ELSE x
        /\ f[y] = IF y[1] = k THEN << k, y[2] + 1 >> ELSE y
    OBVIOUS
  <2>4. CASE x[1] = k /\ y[1] = k
    <3>1. x[2] + 1 = y[2] + 1
      BY <2>1, <2>3, <2>4
    <3>2. QED BY <2>2, <2>4, <3>1
  <2>5. CASE x[1] # k /\ y[1] # k
    BY <2>1, <2>3, <2>5
  <2>6. CASE x[1] = k /\ y[1] # k
    BY <2>1, <2>2, <2>3, <2>6
  <2>7. CASE x[1] # k /\ y[1] = k
    BY <2>1, <2>2, <2>3, <2>7
  <2>8. QED BY <2>4, <2>5, <2>6, <2>7
<1>5. f \in Injection(Places(r, c), rest)
  BY <1>3, <1>4 DEF Injection, IsInjective
<1>6. IsFiniteSet(rest) /\ Cardinality(Places(q, c)) \in Nat
      /\ Cardinality(rest) = IF head \in Places(q, c) THEN Cardinality(Places(q, c)) - 1
                                                      ELSE Cardinality(Places(q, c))
  BY FS_RemoveElement, FS_CardinalityType
<1>7. IsFiniteSet(Places(r, c)) /\ Cardinality(Places(r, c)) <= Cardinality(rest)
  BY <1>5, <1>6, FS_Injection
<1>8. Cardinality(Places(r, c)) \in Nat /\ Cardinality(rest) \in Nat
  BY <1>6, <1>7, FS_CardinalityType
<1>9. Head(q[k]).id = c => head \in Places(q, c)
  BY <1>1 DEF Places
<1>10. QED BY <1>6, <1>7, <1>8, <1>9

\* What is left when queues are dropped.
LEMMA PlacesDrop ==
  ASSUME NEW q \in Queues, NEW r \in Queues, NEW c \in Cmd, IsFiniteSet(Places(q, c)),
         \A j \in ConnOrNo : r[j] = q[j] \/ r[j] = << >>
  PROVE  IsFiniteSet(Places(r, c)) /\ Cardinality(Places(r, c)) <= Cardinality(Places(q, c))
<1>1. Places(r, c) \subseteq Places(q, c)
  BY DEF Places
<1>2. QED BY <1>1, FS_Subset

-----------------------------------------------------------------------------
(* The queues of the system, and the count.                                *)

\* The wires, and the channel under the name no connection has.
Held == [k \in ConnOrNo |-> IF k = NoConn THEN cmdCh ELSE wire[k]]

PushesAccount ==
  \A c \in Cmd :
    /\ IsFiniteSet(Places(Held, c))
    /\ Cardinality(Places(Held, c)) + runs[c] <= pushes[c]

LEMMA HeldQueuesStep ==
  ASSUME AgentInv, AgentInv'
  PROVE  Held \in Queues /\ Held' \in Queues
  BY DEF AgentInv, AgentTypes, Held, Queues, ConnOrNo

LEMMA AccountInit == Init => PushesAccount
<1> SUFFICES ASSUME Init, NEW c \in Cmd
             PROVE  IsFiniteSet(Places(Held, c)) /\ Cardinality(Places(Held, c)) + runs[c] <= pushes[c]
  BY DEF PushesAccount
<1>1. cmdCh = << >> /\ wire = [k \in Conn |-> << >>] /\ runs[c] = 0 /\ pushes[c] = 0
  BY DEF Init, CenterInit, Agent!AgentInit
<1>2. \A k \in ConnOrNo : Held[k] = << >>
  BY <1>1 DEF Held, ConnOrNo
<1>3. Places(Held, c) = {}
  BY <1>2 DEF Places
<1>4. QED BY <1>1, <1>3, FS_EmptySet

\* A step that adds nothing to the queues and starts nothing.
LEMMA AccountDrop ==
  ASSUME SystemInv, PushesAccount, CenterStep, AgentInv', runs' = runs,
         \A k \in ConnOrNo : Held'[k] = Held[k] \/ Held'[k] = << >>
  PROVE  PushesAccount'
<1>1. ASSUME NEW c \in Cmd
      PROVE  IsFiniteSet(Places(Held', c)) /\ Cardinality(Places(Held', c)) + runs[c] <= pushes'[c]
  <2>1. Held \in Queues /\ Held' \in Queues
    BY HeldQueuesStep DEF SystemInv
  <2>2. IsFiniteSet(Places(Held, c)) /\ Cardinality(Places(Held, c)) + runs[c] <= pushes[c]
    BY DEF PushesAccount
  <2>3. IsFiniteSet(Places(Held', c)) /\ Cardinality(Places(Held', c)) <= Cardinality(Places(Held, c))
    BY <2>1, <2>2, PlacesDrop
  <2>4. Cardinality(Places(Held', c)) \in Nat /\ Cardinality(Places(Held, c)) \in Nat
    BY <2>2, <2>3, FS_CardinalityType
  <2>5. runs[c] \in Nat /\ pushes[c] \in Nat
    BY DEF SystemInv, AgentInv, AgentTypes, CenterInv, CoverInv, Shape, CenterTypeOK
  <2>6. pushes'[c] = pushes[c] \/ pushes'[c] = pushes[c] + 1
    BY PushesStep DEF SystemInv
  <2>7. QED BY <2>2, <2>3, <2>4, <2>5, <2>6
<1>2. QED BY <1>1 DEF PushesAccount, Places

\* A write counts a push when it puts one on the wire.
LEMMA AccountWrite ==
  ASSUME SystemInv, PushesAccount, CenterStep, AgentInv', UNCHANGED << runs, cmdCh >>,
         NEW k \in Conn, NEW c \in Cmd, pushes'[c] > pushes[c],
         [id |-> c, type |-> ctype[c]] \in WirePush,
         wire' = [wire EXCEPT ![k] = Append(@, [id |-> c, type |-> ctype[c]])]
  PROVE  PushesAccount'
<1>1. Held \in Queues /\ Held' \in Queues /\ k \in ConnOrNo /\ k # NoConn
  BY HeldQueuesStep, NoneAssumption DEF SystemInv, ConnOrNo
<1>2. Held' = [Held EXCEPT ![k] = Append(@, [id |-> c, type |-> ctype[c]])]
  BY <1>1 DEF Held, SystemInv, AgentInv, AgentTypes, ConnOrNo
<1>3. ASSUME NEW d \in Cmd
      PROVE  IsFiniteSet(Places(Held', d)) /\ Cardinality(Places(Held', d)) + runs[d] <= pushes'[d]
  <2>1. IsFiniteSet(Places(Held, d)) /\ Cardinality(Places(Held, d)) + runs[d] <= pushes[d]
    BY DEF PushesAccount
  <2>2. PICK p \in WirePush : p = [id |-> c, type |-> ctype[c]]
    OBVIOUS
  <2>3. /\ IsFiniteSet(Places(Held', d))
        /\ Cardinality(Places(Held', d)) <= Cardinality(Places(Held, d)) + (IF p.id = d THEN 1 ELSE 0)
    <3>1. Held' = [Held EXCEPT ![k] = Append(@, p)]
      BY <1>2, <2>2
    <3>2. QED BY <1>1, <2>1, <3>1, PlacesAppend
  <2>4. Cardinality(Places(Held', d)) \in Nat /\ Cardinality(Places(Held, d)) \in Nat
    BY <2>1, <2>3, FS_CardinalityType
  <2>5. runs[d] \in Nat /\ pushes[d] \in Nat
    BY DEF SystemInv, AgentInv, AgentTypes, CenterInv, CoverInv, Shape, CenterTypeOK
  <2>6. pushes'[d] = pushes[d] \/ pushes'[d] = pushes[d] + 1
    BY PushesStep DEF SystemInv
  <2>7. p.id = d => pushes'[d] = pushes[d] + 1
    BY <2>2, <2>5, <2>6
  <2>8. QED BY <2>1, <2>3, <2>4, <2>5, <2>6, <2>7
<1>4. QED BY <1>3 DEF PushesAccount, Places

\* A push that is read moves from its wire to the channel, or is dropped.
LEMMA AccountRead ==
  ASSUME SystemInv, PushesAccount, AgentInv', ReadPush
  PROVE  PushesAccount'
<1> DEFINE p  == Head(wire[dialed])
           q1 == [Held EXCEPT ![dialed] = Tail(@)]
<1>1. /\ dialed \in Conn /\ wire[dialed] # << >>
      /\ wire' = [wire EXCEPT ![dialed] = Tail(@)]
      /\ UNCHANGED << runs, pushes >>
  BY DEF ReadPush, Agent!Receive, centerVars, SystemInv, AgentInv, AgentTypes, ConnOrNo
<1>2. cmdCh' = cmdCh \/ cmdCh' = Append(cmdCh, p)
  BY DEF ReadPush, Agent!Receive
<1>3. p \in WirePush /\ Tail(wire[dialed]) \in Seq(WirePush)
  BY <1>1, WireTail DEF SystemInv
<1>4. /\ Held \in Queues /\ Held' \in Queues /\ dialed # NoConn
      /\ dialed \in ConnOrNo /\ NoConn \in ConnOrNo /\ Held[dialed] = wire[dialed]
  BY <1>1, HeldQueuesStep, NoneAssumption DEF SystemInv, Held, ConnOrNo
<1>5. q1 \in Queues
  BY <1>3, <1>4 DEF Queues
<1>6. Held' = q1 \/ Held' = [q1 EXCEPT ![NoConn] = Append(@, p)]
  <2>1. \A k \in ConnOrNo \ {NoConn} : Held'[k] = q1[k]
    BY <1>1, <1>4 DEF Held, ConnOrNo, SystemInv, AgentInv, AgentTypes
  <2>2. q1[NoConn] = cmdCh /\ Held'[NoConn] = cmdCh'
    BY <1>4 DEF Held
  <2>3. QED BY <1>2, <1>4, <1>5, <2>1, <2>2 DEF Queues
<1>7. ASSUME NEW c \in Cmd
      PROVE  IsFiniteSet(Places(Held', c)) /\ Cardinality(Places(Held', c)) + runs[c] <= pushes[c]
  <2>1. IsFiniteSet(Places(Held, c)) /\ Cardinality(Places(Held, c)) + runs[c] <= pushes[c]
    BY DEF PushesAccount
  <2>2. /\ IsFiniteSet(Places(q1, c))
        /\ Cardinality(Places(q1, c)) <= Cardinality(Places(Held, c))
        /\ p.id = c => Cardinality(Places(q1, c)) + 1 <= Cardinality(Places(Held, c))
    <3>1. LosesItsHead(Held, q1, dialed, c)
      BY <1>1, <1>4, <1>5, <2>1, PlacesTail
    <3>2. QED BY <1>4, <3>1 DEF LosesItsHead
  <2>3. /\ IsFiniteSet(Places(Held', c))
        /\ Cardinality(Places(Held', c)) <= Cardinality(Places(q1, c)) + (IF p.id = c THEN 1 ELSE 0)
    <3>1. CASE Held' = q1
      BY <2>2, <3>1, FS_CardinalityType
    <3>2. CASE Held' = [q1 EXCEPT ![NoConn] = Append(@, p)]
      BY <1>3, <1>4, <1>5, <2>2, <3>2, PlacesAppend
    <3>3. QED BY <1>6, <3>1, <3>2
  <2>4. /\ Cardinality(Places(Held', c)) \in Nat /\ Cardinality(Places(q1, c)) \in Nat
        /\ Cardinality(Places(Held, c)) \in Nat
    BY <2>1, <2>2, <2>3, FS_CardinalityType
  <2>5. runs[c] \in Nat /\ pushes[c] \in Nat
    BY DEF SystemInv, AgentInv, AgentTypes, CenterInv, CoverInv, Shape, CenterTypeOK
  <2>6. QED BY <2>1, <2>2, <2>3, <2>4, <2>5
<1>8. QED BY <1>1, <1>7 DEF PushesAccount, Places

\* The worker loop takes the head of the channel: a start uses it up.
LEMMA AccountTake ==
  ASSUME SystemInv, PushesAccount, AgentInv', cmdCh # << >>, cmdCh' = Tail(cmdCh),
         UNCHANGED << wire, pushes >>,
         runs' = runs \/ runs' = [runs EXCEPT ![Head(cmdCh).id] = @ + 1]
  PROVE  PushesAccount'
<1>1. /\ Held \in Queues /\ Held' \in Queues /\ NoConn \in ConnOrNo
      /\ Held[NoConn] = cmdCh /\ Held[NoConn] # << >>
  BY HeldQueuesStep DEF SystemInv, Held, ConnOrNo
<1>2. Held' = [Held EXCEPT ![NoConn] = Tail(@)]
  BY <1>1 DEF Held
<1>3. ASSUME NEW c \in Cmd
      PROVE  IsFiniteSet(Places(Held', c)) /\ Cardinality(Places(Held', c)) + runs'[c] <= pushes[c]
  <2>1. IsFiniteSet(Places(Held, c)) /\ Cardinality(Places(Held, c)) + runs[c] <= pushes[c]
    BY DEF PushesAccount
  <2>2. /\ IsFiniteSet(Places(Held', c))
        /\ Cardinality(Places(Held', c)) <= Cardinality(Places(Held, c))
        /\ Head(Held[NoConn]).id = c => Cardinality(Places(Held', c)) + 1 <= Cardinality(Places(Held, c))
    <3>1. PICK q \in Queues : q = Held
      BY <1>1
    <3>2. PICK r \in Queues : r = Held'
      BY <1>1
    <3>3. /\ q[NoConn] # << >> /\ r = [q EXCEPT ![NoConn] = Tail(@)]
          /\ IsFiniteSet(Places(q, c)) /\ NoConn \in ConnOrNo
      BY <1>1, <1>2, <2>1, <3>1, <3>2
    <3>4. LosesItsHead(q, r, NoConn, c)
      BY <3>3, PlacesTail
    <3>5. QED BY <3>1, <3>2, <3>4 DEF LosesItsHead
  <2>3. Cardinality(Places(Held', c)) \in Nat /\ Cardinality(Places(Held, c)) \in Nat
    BY <2>1, <2>2, FS_CardinalityType
  <2>4. runs \in [Cmd -> Nat] /\ pushes[c] \in Nat
    BY DEF SystemInv, AgentInv, AgentTypes, CenterInv, CoverInv, Shape, CenterTypeOK
  <2>5. runs'[c] = runs[c] \/ (runs'[c] = runs[c] + 1 /\ Head(Held[NoConn]).id = c)
    BY <1>1, <2>4
  <2>6. QED BY <2>1, <2>2, <2>3, <2>4, <2>5
<1>4. QED BY <1>3 DEF PushesAccount, Places

LEMMA AccountAgent ==
  ASSUME SystemInv, PushesAccount, CenterStep, AgentInv', AgentDoes
  PROVE  PushesAccount'
<1>1. UNCHANGED << wire, pushes >> /\ Agent!AgentAlone
  BY DEF AgentDoes, centerVars
<1>2. CASE Agent!IgnorePush
  BY <1>1, <1>2, AccountTake DEF Agent!IgnorePush
<1>3. ASSUME NEW s \in Slot, Agent!TakePush(s)
      PROVE  PushesAccount'
  BY <1>1, <1>3, AccountTake DEF Agent!TakePush, Agent!StartPush
<1>4. CASE UNCHANGED << cmdCh, runs >>
  BY <1>1, <1>4, AccountDrop DEF Held
<1>5. ASSUME NEW r \in post, Agent!LosePost(r)
      PROVE  UNCHANGED << cmdCh, runs >>
  BY <1>5 DEF Agent!LosePost, Agent!Arrive
<1>6. QED BY <1>1, <1>2, <1>3, <1>4, <1>5, SlotStepMoves DEF SystemInv, Agent!AgentAlone

LEMMA AccountStep == SystemInv /\ PushesAccount /\ SystemInv' /\ [Next]_vars => PushesAccount'
<1> SUFFICES ASSUME SystemInv, PushesAccount, SystemInv', [Next]_vars PROVE PushesAccount'
  OBVIOUS
<1>1. CenterStep /\ AgentInv' /\ AgentInv
  BY CenterPart DEF SystemInv
<1>2. ASSUME UNCHANGED << wire, cmdCh, runs >> PROVE PushesAccount'
  BY <1>1, <1>2, AccountDrop DEF Held
<1>3. CASE CenterDoes \/ (\E k \in Conn : Dial(k)) \/ AgentBoots \/ UNCHANGED vars
  BY <1>2, <1>3 DEF CenterDoes, Dial, AgentBoots, vars, agentVars
<1>4. CASE CenterWrites
  <2>1. UNCHANGED << cmdCh, runs >>
    BY <1>4 DEF CenterWrites, agentVars
  <2>2. PICK k \in Conn, c \in Cmd : Carried(k, c)
    <3>1. ASSUME NEW c \in Cmd, WriteConn(c), Carried(req[c].conn, c)
          PROVE  req[c].conn \in Conn
      BY <3>1 DEF WriteConn, SystemInv, WritesToConn, At
    <3>2. ASSUME NEW k \in Conn, FlushWrite(k), Carried(flush[k].conn, flush[k].cur)
          PROVE  flush[k].conn \in Conn /\ flush[k].cur \in Cmd
      BY <3>2 DEF FlushWrite, FlushAt, SystemInv, WritesToConn, CenterInv, CoverInv, Shape, FlushHoldsRow
    <3>3. QED BY <1>4, <3>1, <3>2 DEF CenterWrites
  <2>3. pushes' \in [Cmd -> Nat]
    BY DEF SystemInv, CenterInv, CoverInv, Shape, CenterTypeOK
  <2>4. CASE wire' = wire
    BY <1>2, <2>1, <2>4
  <2>5. CASE /\ pushes'[c] > pushes[c] /\ [id |-> c, type |-> ctype[c]] \in WirePush
             /\ wire' = [wire EXCEPT ![k] = Append(@, [id |-> c, type |-> ctype[c]])]
    BY <1>1, <2>1, <2>5, AccountWrite
  <2>6. QED BY <2>2, <2>3, <2>4, <2>5, CarriedPush
<1>5. CASE ReadPush
  BY <1>1, <1>5, AccountRead
<1>6. CASE ReadFails
  <2>1. wire' = [wire EXCEPT ![dialed] = << >>] /\ UNCHANGED << cmdCh, runs >>
    BY <1>6 DEF ReadFails, agentVars
  <2>2. \A k \in ConnOrNo : Held'[k] = Held[k] \/ Held'[k] = << >>
    BY <1>1, <2>1 DEF Held, AgentInv, AgentTypes, ConnOrNo
  <2>3. QED BY <1>1, <2>1, <2>2, AccountDrop
<1>7. ASSUME NEW r \in post, HandlePost(r) PROVE PushesAccount'
  BY <1>2, <1>7 DEF HandlePost, Agent!Arrive
<1>8. CASE AgentDoes
  BY <1>1, <1>8, AccountAgent
<1>9. CASE AgentDies
  <2>1. /\ wire' = [k \in Conn |-> IF k = dialed THEN << >> ELSE wire[k]]
        /\ cmdCh' = << >> /\ runs' = runs
    BY <1>9 DEF AgentDies, Agent!AgentExit
  <2>2. \A k \in ConnOrNo : Held'[k] = Held[k] \/ Held'[k] = << >>
    BY <1>1, <2>1 DEF Held, AgentInv, AgentTypes, ConnOrNo
  <2>3. QED BY <1>1, <2>1, <2>2, AccountDrop
<1>10. QED BY <1>3, <1>4, <1>5, <1>6, <1>7, <1>8, <1>9 DEF Next

\* The node never executes a command more often than the Center wrote it:
\* nothing between the write and the start of the goroutine - connections that
\* break with pushes on them, a full channel, a process that dies - repeats one.
THEOREM ExecutionsArePushed == Spec => []RunsWithinPushes
<1>1. SystemInv /\ PushesAccount => RunsWithinPushes
  <2>1. SUFFICES ASSUME SystemInv, PushesAccount, NEW c \in Cmd PROVE runs[c] <= pushes[c]
    BY DEF RunsWithinPushes
  <2>2. IsFiniteSet(Places(Held, c)) /\ Cardinality(Places(Held, c)) + runs[c] <= pushes[c]
    BY <2>1 DEF PushesAccount
  <2>3. Cardinality(Places(Held, c)) \in Nat /\ runs[c] \in Nat /\ pushes[c] \in Nat
    BY <2>1, <2>2, FS_CardinalityType DEF SystemInv, AgentInv, AgentTypes, CenterInv, CoverInv, Shape, CenterTypeOK
  <2>4. QED BY <2>2, <2>3
<1>2. QED BY <1>1, SystemInvariant, AccountInit, AccountStep, PTL DEF Spec

-----------------------------------------------------------------------------
(* How long a request and a flush run, and how often they push.            *)

RequestStage(c) ==
  CASE At(c, "idle")   -> 6
    [] At(c, "dup")    -> 5
    [] At(c, "insert") -> 4
    [] At(c, "lookup") -> 3
    [] At(c, "write")  -> 2
    [] At(c, "mark")   -> 1
    [] OTHER           -> 0

\* A flush has its query ahead, is among its rows, or is over.
FlushPhase(k) ==
  CASE FlushAt(k, "none")  -> 3
    [] FlushAt(k, "query") -> 2
    [] flush[k].at \in {"next", "write", "mark"} -> 1
    [] OTHER               -> 0

FlushStage(k) ==
  CASE FlushAt(k, "write") -> 2
    [] FlushAt(k, "mark")  -> 1
    [] OTHER               -> 0

\* What is left of a flush in a step: a later phase, or fewer rows, or the row
\* it has is further.
FlushGoesOn(k) ==
  \/ FlushPhase(k)' < FlushPhase(k)
  \/ /\ FlushPhase(k)' = FlushPhase(k)
     /\ \/ flush'[k].todo \subseteq flush[k].todo /\ flush'[k].todo # flush[k].todo
        \/ flush'[k].todo = flush[k].todo /\ FlushStage(k)' < FlushStage(k)

\* The steps of a flush, whatever else they do.
FlushMove(k) ==
  \/ FlushAt(k, "query") /\ flush'[k].at = "next"
  \/ /\ FlushAt(k, "next")
     /\ \E c \in flush[k].todo :
          /\ flush'[k].todo = flush[k].todo \ {c}
          /\ flush'[k].at = "next" \/ (flush'[k].at = "write" /\ flush'[k].cur = c)
  \/ FlushAt(k, "write") /\ flush'[k].at \in {"mark", "next"} /\ flush'[k].todo = flush[k].todo
  \/ FlushAt(k, "mark") /\ flush'[k].at = "next" /\ flush'[k].todo = flush[k].todo
  \/ flush[k].at \in {"query", "next"} /\ flush'[k].at \in {"done", "failed"}

FlushEffect(k) ==
  \/ flush'[k] = flush[k]
  \/ FlushMove(k)
  \/ FlushAt(k, "none") /\ flush'[k].at = "query"
  \/ ~FlushAt(k, "none") /\ flush'[k].at = "failed"

\* A push is a request's, which writes once, or a flush's, of the row it holds.
PushEffect(c) ==
  \/ pushes'[c] = pushes[c]
  \/ /\ pushes'[c] = pushes[c] + 1
     /\ \/ At(c, "write") /\ req'[c].at = "mark"
        \/ \E k \in Conn : /\ FlushAt(k, "write") /\ flush[k].cur = c
                           /\ flush'[k].at = "mark" /\ flush'[k].todo = flush[k].todo

\* The flushes that were started, and a step that starts one at most.
Flushed == {k \in Conn : ~FlushAt(k, "none")}

StartsOne == Flushed' \subseteq Flushed \/ \E k \in Conn : Flushed' \subseteq Flushed \cup {k}

\* No flush runs before its session is registered.
Unregistered(k) == session[k] \in {"none", "upgraded"}

RegistersFirst == \A k \in Conn : Unregistered(k) => FlushAt(k, "none")

CenterEffect ==
  /\ \A c \in Cmd : RequestStage(c)' <= RequestStage(c) /\ PushEffect(c)
  /\ \A k \in Conn : FlushEffect(k)
  /\ \A k \in Conn : Unregistered(k)' => Unregistered(k) /\ flush'[k] = flush[k]
  /\ StartsOne

\* The steps of a request lead to these.
Later(c, step) ==
  \/ At(c, "idle") /\ step \in {"insert", "dup", "done"}
  \/ At(c, "dup") /\ step \in {"insert", "done"}
  \/ At(c, "insert") /\ step \in {"lookup", "failed", "done"}
  \/ At(c, "lookup") /\ step \in {"write", "done"}
  \/ At(c, "write") /\ step \in {"mark", "done"}
  \/ At(c, "mark") /\ step = "done"

LEMMA FlushMoves == \A k \in Conn : FlushMove(k) => FlushGoesOn(k)
BY DEF FlushMove, FlushGoesOn, FlushPhase, FlushStage, FlushAt

LEMMA Steady ==
  ASSUME UNCHANGED << req, pushes, flush >>,
         \A k \in Conn : Unregistered(k)' => Unregistered(k)
  PROVE  CenterEffect
<1>1. Flushed' = Flushed
  BY DEF Flushed, FlushAt
<1>2. \A c \in Cmd : RequestStage(c)' = RequestStage(c) /\ RequestStage(c) \in Nat
  BY DEF RequestStage, At
<1> QED BY <1>1, <1>2 DEF CenterEffect, PushEffect, FlushEffect, StartsOne

\* A request goes on to a later step, and pushes on its way from one to the next.
LEMMA RequestEffect ==
  ASSUME CenterTypeOK, NEW c \in Cmd,
         (\E t \in Types : BeginRequest(c, t)) \/ RequestStep(c) \/ RequestSqlError(c)
  PROVE  CenterEffect /\ RequestStage(c)' < RequestStage(c)
<1>1. UNCHANGED << flush, session >>
  BY DEF BeginRequest, RequestStep, hasConcurrentDangerous, InsertCommand, LookupConn, WriteConn,
         MarkSent, RequestSqlError, requestUnchanged
<1>2. PICK r : req' = [req EXCEPT ![c] = r] /\ Later(c, r.at)
  <2>1. ASSUME NEW step, Goto(c, step), Later(c, step)
        PROVE  \E r : req' = [req EXCEPT ![c] = r] /\ Later(c, r.at)
    <3> DEFINE r == [at |-> step, conn |-> NoConn]
    <3>1. req' = [req EXCEPT ![c] = r] /\ r.at = step
      BY <2>1 DEF Goto
    <3> HIDE DEF r
    <3> QED BY <2>1, <3>1
  <2>2. CASE LookupConn(c)
    <3>1. PICK step \in {"write", "done"} : req' = [req EXCEPT ![c] = [at |-> step, conn |-> hub]]
      BY <2>2 DEF LookupConn
    <3> DEFINE r == [at |-> step, conn |-> hub]
    <3>2. req' = [req EXCEPT ![c] = r] /\ r.at = step
      BY <3>1
    <3>3. Later(c, step)
      BY <2>2 DEF LookupConn, Later
    <3> HIDE DEF r
    <3> QED BY <3>2, <3>3
  <2>3. CASE \E t \in Types : BeginRequest(c, t)
    BY <2>1, <2>3 DEF BeginRequest, Later
  <2>4. CASE hasConcurrentDangerous(c)
    BY <2>1, <2>4 DEF hasConcurrentDangerous, Later
  <2>6. CASE InsertCommand(c)
    <3>1. CASE Goto(c, "lookup")
      BY <2>1, <2>6, <3>1 DEF InsertCommand, Later
    <3>2. CASE req' = [req EXCEPT ![c] = [at |-> "failed", conn |-> hub]]
      <4> DEFINE r == [at |-> "failed", conn |-> hub]
      <4>1. req' = [req EXCEPT ![c] = r] /\ r.at = "failed" /\ Later(c, "failed")
        BY <2>6, <3>2 DEF InsertCommand, Later
      <4> HIDE DEF r
      <4> QED BY <4>1
    <3> QED BY <2>6, <3>1, <3>2 DEF InsertCommand
  <2>5. CASE WriteConn(c) \/ MarkSent(c) \/ RequestSqlError(c)
    BY <2>1, <2>5 DEF WriteConn, MarkSent, RequestSqlError, At, Later
  <2> QED BY <2>2, <2>3, <2>4, <2>5, <2>6 DEF RequestStep
<1>3. req'[c].at = r.at /\ \A d \in Cmd : d # c => req'[d] = req[d]
  BY <1>2 DEF CenterTypeOK
<1>4. RequestStage(c)' < RequestStage(c)
  BY <1>2, <1>3 DEF RequestStage, At, Later
<1>5. \A d \in Cmd : RequestStage(d)' <= RequestStage(d)
  BY <1>3, <1>4 DEF RequestStage, At
<1>6. \A d \in Cmd : PushEffect(d)
  <2>1. CASE UNCHANGED pushes
    BY <2>1 DEF PushEffect
  <2>2. CASE At(c, "write") /\ req'[c].at = "mark" /\ pushes' = [pushes EXCEPT ![c] = @ + 1]
    BY <2>2 DEF PushEffect, CenterTypeOK
  <2> QED BY <1>3, <2>1, <2>2
          DEF BeginRequest, RequestStep, hasConcurrentDangerous, InsertCommand, LookupConn, WriteConn,
              MarkSent, RequestSqlError, Goto, Accepted, Refused, CenterTypeOK
<1>7. Flushed' = Flushed
  BY <1>1 DEF Flushed, FlushAt
<1> QED BY <1>1, <1>4, <1>5, <1>6, <1>7 DEF CenterEffect, FlushEffect, StartsOne, Unregistered

LEMMA FlushStepEffect ==
  ASSUME CenterTypeOK, RegistersFirst, NEW k \in Conn, FlushStep(k) \/ FlushSqlError(k)
  PROVE  CenterEffect /\ (FlushStep(k) => FlushGoesOn(k))
<1>1. UNCHANGED << req, session >>
  BY DEF FlushStep, FlushQuery, FlushNext, FlushWrite, FlushMark, FlushEnd, FlushSqlError, flushUnchanged
<1>2. ASSUME NEW step, NEW todo, NEW row, NEW conn, FlushHolds(k, step, todo, row, conn)
      PROVE  /\ \A j \in Conn : j # k => flush'[j] = flush[j]
             /\ flush'[k].at = step /\ flush'[k].todo = todo /\ flush'[k].cur = row
  BY <1>2 DEF FlushHolds, CenterTypeOK
<1>3. \A j \in Conn : j # k => flush'[j] = flush[j]
  BY <1>2 DEF FlushStep, FlushQuery, FlushNext, FlushWrite, FlushMark, FlushEnd, FlushSqlError, FlushGoto
<1>4. FlushMove(k)
  <2>1. CASE FlushQuery(k)
    BY <1>2, <2>1 DEF FlushQuery, FlushGoto, FlushMove
  <2>2. CASE FlushNext(k)
    <3>1. PICK c \in flush[k].todo :
            IF hub = NoConn THEN FlushGoto(k, "next", flush[k].todo \ {c})
                            ELSE FlushHolds(k, "write", flush[k].todo \ {c}, c, hub)
      BY <2>2 DEF FlushNext
    <3>2. FlushAt(k, "next")
      BY <2>2 DEF FlushNext
    <3>3. CASE hub = NoConn
      BY <1>2, <3>1, <3>2, <3>3 DEF FlushGoto, FlushMove
    <3>4. CASE hub # NoConn
      BY <1>2, <3>1, <3>2, <3>4 DEF FlushMove
    <3> QED BY <3>3, <3>4
  <2>3. CASE FlushWrite(k)
    <3>1. FlushAt(k, "write")
      BY <2>3 DEF FlushWrite
    <3>2. \/ FlushHolds(k, "mark", flush[k].todo, flush[k].cur, NoConn)
          \/ FlushGoto(k, "next", flush[k].todo)
      BY <2>3 DEF FlushWrite
    <3> QED BY <1>2, <3>1, <3>2 DEF FlushGoto, FlushMove
  <2>4. CASE FlushMark(k)
    BY <1>2, <2>4 DEF FlushMark, FlushGoto, FlushMove
  <2>5. CASE FlushEnd(k)
    BY <1>2, <2>5 DEF FlushEnd, FlushGoto, FlushMove, FlushAt
  <2>6. CASE FlushSqlError(k)
    BY <1>2, <2>6 DEF FlushSqlError, FlushGoto, FlushMove, FlushAt
  <2> QED BY <2>1, <2>2, <2>3, <2>4, <2>5, <2>6 DEF FlushStep
<1>5. \A c \in Cmd : PushEffect(c)
  <2>1. CASE UNCHANGED pushes
    BY <2>1 DEF PushEffect
  <2>2. CASE FlushWrite(k) /\ Accepted(flush[k].conn, flush[k].cur)
             /\ FlushHolds(k, "mark", flush[k].todo, flush[k].cur, NoConn)
    <3>1. /\ FlushAt(k, "write") /\ flush'[k].at = "mark" /\ flush'[k].todo = flush[k].todo
          /\ pushes' = [pushes EXCEPT ![flush[k].cur] = @ + 1]
      BY <1>2, <2>2 DEF FlushWrite, Accepted
    <3>2. \A c \in Cmd : pushes'[c] = IF c = flush[k].cur THEN pushes[c] + 1 ELSE pushes[c]
      BY <3>1 DEF CenterTypeOK
    <3> QED BY <3>1, <3>2 DEF PushEffect
  <2> QED BY <2>1, <2>2
          DEF FlushStep, FlushQuery, FlushNext, FlushWrite, FlushMark, FlushEnd, FlushSqlError, Refused
<1>6. Flushed' \subseteq Flushed \cup {k}
  BY <1>3 DEF Flushed, FlushAt
<1>7. \A c \in Cmd : RequestStage(c)' <= RequestStage(c)
  BY <1>1 DEF RequestStage, At
<1>8. \A j \in Conn : FlushEffect(j)
  BY <1>3, <1>4 DEF FlushEffect
<1>9. \A j \in Conn : Unregistered(j)' => Unregistered(j) /\ flush'[j] = flush[j]
  BY <1>1, <1>3, <1>4 DEF RegistersFirst, Unregistered, FlushMove, FlushAt
<1> QED BY <1>1, <1>4, <1>5, <1>6, <1>7, <1>8, <1>9, FlushMoves DEF CenterEffect, StartsOne

LEMMA SessionEffect ==
  ASSUME CenterTypeOK, RegistersFirst, NEW k \in Conn,
         UpgradeConn(k) \/ RegisterConn(k) \/ EndSession(k) \/ BreakLink(k)
  PROVE  CenterEffect
<1>1. CASE RegisterConn(k)
  <2>1. UNCHANGED << req, pushes >> /\ FlushAt(k, "none")
    BY <1>1 DEF RegisterConn, sessionUnchanged, RegistersFirst, Unregistered
  <2>2. /\ flush'[k].at = "query" /\ session'[k] = "reading"
        /\ \A j \in Conn : j # k => flush'[j] = flush[j] /\ session'[j] = session[j]
    BY <1>1 DEF RegisterConn, FlushGoto, FlushHolds, CenterTypeOK
  <2>3. Flushed' \subseteq Flushed \cup {k}
    BY <2>2 DEF Flushed, FlushAt
  <2>4. \A c \in Cmd : RequestStage(c)' <= RequestStage(c) /\ PushEffect(c)
    BY <2>1 DEF RequestStage, At, PushEffect
  <2> QED BY <2>1, <2>2, <2>3, <2>4 DEF CenterEffect, FlushEffect, StartsOne, Unregistered
<1>2. CASE UpgradeConn(k) \/ EndSession(k) \/ BreakLink(k)
  <2>1. UNCHANGED << req, pushes, flush >>
    BY <1>2 DEF UpgradeConn, EndSession, BreakLink, sessionUnchanged
  <2>2. \A j \in Conn : Unregistered(j)' => Unregistered(j)
    BY <1>2 DEF UpgradeConn, EndSession, BreakLink, Unregistered, CenterTypeOK
  <2> QED BY <2>1, <2>2, Steady
<1> QED BY <1>1, <1>2

LEMMA CrashEffect ==
  ASSUME CenterTypeOK, RegistersFirst, CenterCrash
  PROVE  CenterEffect
<1>1. /\ UNCHANGED pushes
      /\ \A c \in Cmd : req'[c] = IF At(c, "idle") THEN req[c] ELSE [at |-> "done", conn |-> NoConn]
      /\ \A k \in Conn : session'[k] = IF session[k] = "none" THEN "none" ELSE "gone"
      /\ \A k \in Conn : flush'[k] = IF FlushAt(k, "none") THEN flush[k]
                                     ELSE [at |-> "failed", todo |-> {}, cur |-> NoCmd, conn |-> NoConn]
  BY DEF CenterCrash
<1>2. \A c \in Cmd : RequestStage(c)' <= RequestStage(c) /\ PushEffect(c)
  BY <1>1 DEF RequestStage, At, PushEffect
<1>3. \A k \in Conn : FlushEffect(k)
  BY <1>1 DEF FlushEffect
<1>4. \A k \in Conn : Unregistered(k)' => Unregistered(k) /\ flush'[k] = flush[k]
  BY <1>1 DEF Unregistered, RegistersFirst
<1>5. Flushed' = Flushed
  BY <1>1 DEF Flushed, FlushAt
<1> QED BY <1>2, <1>3, <1>4, <1>5 DEF CenterEffect, StartsOne

LEMMA EveryEffect ==
  ASSUME CenterTypeOK, RegistersFirst, CenterStep
  PROVE  /\ CenterEffect
         /\ \A c \in Cmd : RequestStep(c) => RequestStage(c)' < RequestStage(c)
         /\ \A k \in Conn : FlushStep(k) => FlushGoesOn(k)
<1>1. ASSUME \/ enableWritable \/ patchNodeSettings \/ agentDiscoveryReport
             \/ UNCHANGED centerVars \/ LinksBreak
             \/ \E c \in Cmd : \/ postAgentCommandProgress(c)
                               \/ \E st \in Results : postAgentCommandResult(c, st)
      PROVE  CenterEffect
  <2>1. UNCHANGED << req, pushes, flush, session >>
    BY <1>1 DEF enableWritable, patchNodeSettings, agentDiscoveryReport, SetNode, centerVars,
                LinksBreak, postAgentCommandProgress, postAgentCommandResult, reportUnchanged
  <2> QED BY <2>1, Steady DEF Unregistered
<1>2. CenterEffect
  BY <1>1, RequestEffect, FlushStepEffect, SessionEffect, CrashEffect
     DEF CenterStep, CenterNext, CenterAlone, AnyAgent
<1> QED BY <1>2, RequestEffect, FlushStepEffect

-----------------------------------------------------------------------------
(* How often a command is pushed.                                          *)

\* The flush of k has been asked for c already, if it ever will be.
Passed(k, c) ==
  \/ flush[k].at \in {"done", "failed"}
  \/ flush[k].at \in {"next", "mark"} /\ c \notin flush[k].todo
  \/ FlushAt(k, "write") /\ c \notin flush[k].todo /\ c # flush[k].cur

PassedBy(c) == {k \in Conn : Passed(k, c)}

OwnPush(c) == IF req[c].at \in {"mark", "done", "failed"} THEN 1 ELSE 0

\* A row that is being written is not among those still to come.
HeldApart == \A k \in Conn : FlushAt(k, "write") => flush[k].cur \notin flush[k].todo

CountInv ==
  /\ RegistersFirst /\ HeldApart /\ IsFiniteSet(Flushed)
  /\ \A c \in Cmd : pushes[c] <= Cardinality(PassedBy(c)) + OwnPush(c)

LEMMA PassedFew ==
  ASSUME IsFiniteSet(Flushed), NEW c
  PROVE  /\ IsFiniteSet(PassedBy(c)) /\ Cardinality(PassedBy(c)) \in Nat
         /\ Cardinality(PassedBy(c)) <= Cardinality(Flushed) /\ Cardinality(Flushed) \in Nat
<1>1. PassedBy(c) \subseteq Flushed
  BY DEF PassedBy, Passed, Flushed, FlushAt
<1> QED BY <1>1, FS_Subset, FS_CardinalityType

LEMMA PassedStays ==
  ASSUME CenterEffect, NEW c
  PROVE  PassedBy(c) \subseteq PassedBy(c)'
<1>1. \A k \in Conn : Passed(k, c) => Passed(k, c)'
  <2> SUFFICES ASSUME NEW k \in Conn, Passed(k, c) PROVE Passed(k, c)'
    OBVIOUS
  <2>1. FlushEffect(k)
    BY DEF CenterEffect
  <2>2. CASE flush'[k] = flush[k]
    BY <2>2 DEF Passed, FlushAt
  <2>3. CASE FlushMove(k)
    BY <2>3 DEF Passed, FlushMove, FlushAt
  <2> QED BY <2>1, <2>2, <2>3 DEF FlushEffect, Passed, FlushAt
<1> QED BY <1>1 DEF PassedBy

LEMMA CountInit == CenterInit => CountInv
<1> SUFFICES ASSUME CenterInit PROVE CountInv
  OBVIOUS
<1>1. Flushed = {} /\ RegistersFirst /\ HeldApart
  BY DEF CenterInit, Flushed, FlushAt, RegistersFirst, HeldApart
<1>2. \A c \in Cmd : PassedBy(c) = {} /\ pushes[c] = 0 /\ OwnPush(c) = 0
  BY DEF CenterInit, PassedBy, Passed, FlushAt, OwnPush
<1>3. IsFiniteSet({}) /\ Cardinality({}) = 0
  BY FS_EmptySet
<1>4. \A c \in Cmd : pushes[c] <= Cardinality(PassedBy(c)) + OwnPush(c)
  BY <1>2, <1>3
<1> QED BY <1>1, <1>3, <1>4 DEF CountInv

\* A push is counted where it is made: the flush that made it will not hold the
\* row again, and a request never writes twice.
LEMMA CountStep ==
  ASSUME CenterInv, CountInv, CenterStep
  PROVE  CountInv'
<1>1. CenterTypeOK /\ RegistersFirst /\ CenterEffect
  BY EveryEffect DEF CenterInv, CoverInv, Shape, CountInv
<1>2. RegistersFirst'
  BY <1>1 DEF CenterEffect, RegistersFirst, FlushAt
<1>3. HeldApart'
  <2> SUFFICES ASSUME NEW k \in Conn, flush'[k].at = "write"
               PROVE  flush'[k].cur \notin flush'[k].todo
    BY DEF HeldApart, FlushAt
  <2>1. CASE flush'[k] = flush[k]
    BY <2>1 DEF CountInv, HeldApart, FlushAt
  <2>2. CASE FlushMove(k)
    BY <2>2 DEF FlushMove
  <2> QED BY <1>1, <2>1, <2>2 DEF CenterEffect, FlushEffect
<1>4. IsFiniteSet(Flushed')
  <2>1. CASE Flushed' \subseteq Flushed
    BY <2>1, FS_Subset DEF CountInv
  <2>2. ASSUME NEW k \in Conn, Flushed' \subseteq Flushed \cup {k}
        PROVE  IsFiniteSet(Flushed')
    BY <2>2, FS_AddElement, FS_Subset DEF CountInv
  <2> QED BY <1>1, <2>1, <2>2 DEF CenterEffect, StartsOne
<1>5. ASSUME NEW c \in Cmd
      PROVE  pushes'[c] <= Cardinality(PassedBy(c)') + OwnPush(c)'
  <2> DEFINE P == PassedBy(c)
             Q == PassedBy(c)'
  <2>1. P \subseteq Q
    BY <1>1, PassedStays
  <2>2. IsFiniteSet(P) /\ Cardinality(P) \in Nat
    BY PassedFew DEF CountInv
  <2>3. IsFiniteSet(Q)
    <3>1. Q \subseteq Flushed'
      BY DEF PassedBy, Passed, Flushed, FlushAt
    <3> QED BY <1>4, <3>1, FS_Subset
  <2>4. Cardinality(Q) \in Nat /\ Cardinality(P) <= Cardinality(Q)
    BY <2>1, <2>3, FS_Subset, FS_CardinalityType
  <2>5. pushes[c] \in Nat /\ pushes[c] <= Cardinality(P) + OwnPush(c)
    BY <1>1 DEF CountInv, CenterTypeOK
  <2>6. RequestStage(c)' <= RequestStage(c) /\ PushEffect(c)
    BY <1>1 DEF CenterEffect
  <2>7. OwnPush(c) \in {0, 1} /\ OwnPush(c)' \in {0, 1} /\ OwnPush(c) <= OwnPush(c)'
    <3> DEFINE Steps == {"idle", "dup", "insert", "lookup", "write", "mark", "done", "failed"}
    <3>1. req[c].at \in Steps /\ req'[c].at \in Steps
      <4>1. CenterTypeOK'
        BY CenterInvStep DEF CenterInv, CoverInv, Shape
      <4> QED BY <1>1, <4>1 DEF CenterTypeOK
    <3> QED BY <2>6, <3>1 DEF OwnPush, RequestStage, At
  <2> HIDE DEF P, Q
  <2>8. ASSUME pushes'[c] = pushes[c]
        PROVE  pushes'[c] <= Cardinality(Q) + OwnPush(c)'
    BY <2>2, <2>4, <2>5, <2>7, <2>8
  <2>9. ASSUME pushes'[c] = pushes[c] + 1, At(c, "write"), req'[c].at = "mark"
        PROVE  pushes'[c] <= Cardinality(Q) + OwnPush(c)'
    <3>1. OwnPush(c) = 0 /\ OwnPush(c)' = 1
      BY <2>9 DEF OwnPush, At
    <3> QED BY <2>2, <2>4, <2>5, <2>9, <3>1
  <2>10. ASSUME NEW k \in Conn, FlushAt(k, "write"), flush[k].cur = c, flush'[k].at = "mark",
                flush'[k].todo = flush[k].todo, pushes'[c] = pushes[c] + 1
         PROVE  pushes'[c] <= Cardinality(Q) + OwnPush(c)'
    <3>1. k \notin P /\ k \in Q
      BY <2>10 DEF P, Q, PassedBy, Passed, CountInv, HeldApart, FlushAt
    <3>2. Cardinality(P \cup {k}) = Cardinality(P) + 1 /\ P \cup {k} \subseteq Q
      BY <2>1, <2>2, <3>1, FS_AddElement
    <3>3. Cardinality(P) + 1 <= Cardinality(Q)
      BY <2>3, <3>2, FS_Subset
    <3> QED BY <2>2, <2>4, <2>5, <2>7, <2>10, <3>3
  <2> QED BY <2>6, <2>8, <2>9, <2>10 DEF PushEffect, Q
<1> QED BY <1>2, <1>3, <1>4, <1>5 DEF CountInv

\* However the Center crashes and its flushes fail, a command is written once
\* by the request that inserts it and once by the flush of every connection
\* since, at most; and the node starts to execute it no more often.
PushesAreFew ==
  /\ IsFiniteSet(Flushed)
  /\ \A c \in Cmd : /\ pushes[c] <= Cardinality(Flushed) + 1
                    /\ runs[c] <= Cardinality(Flushed) + 1

\* A command cannot be pushed, or executed, more often than the agent has
\* connected, plus once: enqueueCommand and flushPendingCommands repeat nothing
\* on one connection, whatever they meet at their steps.
THEOREM ExecutionsPerConnection == Spec => []PushesAreFew
<1>1. SystemInv /\ CountInv /\ RunsWithinPushes => PushesAreFew
  <2> SUFFICES ASSUME SystemInv, CountInv, RunsWithinPushes, NEW c \in Cmd
               PROVE  pushes[c] <= Cardinality(Flushed) + 1 /\ runs[c] <= Cardinality(Flushed) + 1
    BY DEF PushesAreFew, CountInv
  <2>1. pushes[c] \in Nat /\ runs[c] \in Nat /\ runs[c] <= pushes[c]
    BY DEF SystemInv, AgentInv, AgentTypes, CenterInv, CoverInv, Shape, CenterTypeOK, RunsWithinPushes
  <2>2. pushes[c] <= Cardinality(PassedBy(c)) + OwnPush(c) /\ OwnPush(c) \in {0, 1}
    BY DEF CountInv, OwnPush
  <2>3. /\ Cardinality(PassedBy(c)) \in Nat /\ Cardinality(Flushed) \in Nat
        /\ Cardinality(PassedBy(c)) <= Cardinality(Flushed)
    BY PassedFew DEF CountInv
  <2> QED BY <2>1, <2>2, <2>3
<1>2. Init => CountInv
  BY CountInit DEF Init
<1>3. SystemInv /\ CountInv /\ [Next]_vars => CountInv'
  BY CenterPart, CountStep DEF SystemInv
<1> QED BY <1>1, <1>2, <1>3, SystemInvariant, ExecutionsArePushed, PTL DEF Spec

-----------------------------------------------------------------------------
(* The goroutines that Fairness speaks of.                                 *)

\* The rows there are, of which a flush takes its own.
Rows == {c \in Cmd : status[c] # "ABSENT"}

LEMMA RowsFinite ==
  ASSUME SystemInv, IsFiniteSet(Rows), [Next]_vars
  PROVE  IsFiniteSet(Rows')
<1>1. status \in [Cmd -> Statuses]
  BY DEF SystemInv, CenterInv, CoverInv, Shape, CenterTypeOK
<1>2. PICK c : Rows' \subseteq Rows \cup {c}
  <2>1. CASE RowsKept
    BY <2>1 DEF RowsKept, Rows
  <2>2. ASSUME NEW c \in Cmd, RowInserted(c)
        PROVE  Rows' \subseteq Rows \cup {c}
    BY <1>1, <2>2 DEF RowInserted, InsertCommand, Rows
  <2>3. ASSUME NEW c \in Cmd, NEW st, RowRewritten(c, st)
        PROVE  Rows' \subseteq Rows \cup {c}
    BY <1>1, <2>3 DEF RowRewritten, Rows
  <2> QED BY <2>1, <2>2, <2>3, RowsOfStep DEF RowsEffect
<1> QED BY <1>2, FS_AddElement, FS_Subset

ExecutionStage(s) ==
  CASE slot[s].at = "start"     -> 5
    [] slot[s].at = "announced" -> 4
    [] slot[s].at = "ready"     -> 3
    [] slot[s].at = "report"    -> 2
    [] slot[s].at = "reported"  -> 1
    [] OTHER                    -> 0

LEMMA ExecutionGoesOn ==
  ASSUME SystemInv, NEW s \in Slot, slot[s].at # "idle", Agent!SlotStep(s)
  PROVE  ExecutionStage(s)' < ExecutionStage(s)
<1>1. slot \in [Slot -> SlotRecord]
  BY DEF SystemInv, AgentInv, AgentTypes
<1>2. CASE Agent!Refuse(s) \/ Agent!Perform(s)
  <2>1. PICK v : slot' = [slot EXCEPT ![s] = [cmd |-> slot[s].cmd, type |-> slot[s].type,
                                              at |-> "report", verdict |-> v]]
    BY <1>2 DEF Agent!Refuse, Agent!Perform, Agent!Decide
  <2>2. slot[s].at \in {"start", "ready"}
    BY <1>2 DEF Agent!Refuse, Agent!Perform
  <2>3. slot'[s].at = "report"
    BY <1>1, <2>1
  <2> QED BY <2>2, <2>3 DEF ExecutionStage
<1>3. CASE Agent!Announce(s) \/ Agent!Announced(s) \/ Agent!Report(s)
  <2>1. PICK to \in {"ready", "announced", "reported"} :
          /\ slot' = [slot EXCEPT ![s].at = to]
          /\ << slot[s].at, to >> \in {<< "start", "ready" >>, << "start", "announced" >>,
                                       << "announced", "ready" >>, << "report", "reported" >>}
    BY <1>3 DEF Agent!Announce, Agent!Announced, Agent!Report, Agent!Step
  <2>2. slot'[s].at = to
    BY <1>1, <2>1 DEF SlotRecord
  <2> QED BY <2>1, <2>2 DEF ExecutionStage
<1>4. CASE Agent!Finish(s)
  BY <1>1, <1>4 DEF Agent!Finish, Agent!Idle, ExecutionStage
<1> QED BY <1>2, <1>3, <1>4 DEF Agent!SlotStep, Agent!TakePush, Agent!StartPush

\* Only its own steps and the death of the process touch an execution.
LEMMA ExecutionStays ==
  ASSUME SystemInv, [Next]_vars, NEW s \in Slot, slot[s].at # "idle"
  PROVE  ExecutionStage(s)' <= ExecutionStage(s)
<1>1. ExecutionStage(s) \in Nat /\ ExecutionStage(s)' \in Nat
  BY DEF ExecutionStage
<1>2. CASE slot'[s] = slot[s]
  BY <1>1, <1>2 DEF ExecutionStage
<1>3. CASE AgentDoes
  <2>1. CASE UNCHANGED slot
    BY <1>2, <2>1
  <2>2. ASSUME NEW t \in Slot, Agent!SlotStep(t)
        PROVE  ExecutionStage(s)' <= ExecutionStage(s)
    <3>1. CASE t = s
      BY <1>1, <2>2, <3>1, ExecutionGoesOn
    <3>2. CASE t # s
      BY <1>2, <2>2, <3>2, SlotStepMoves DEF SystemInv, SlotMoves
    <3> QED BY <3>1, <3>2
  <2> QED BY <1>3, <2>1, <2>2
          DEF AgentDoes, Agent!AgentAlone, Agent!IgnorePush, Agent!LosePost, Agent!Arrive
<1>4. CASE AgentDies
  <2>1. slot'[s].at = "idle"
    BY <1>4 DEF AgentDies, Agent!AgentExit, Agent!Idle
  <2> QED BY <1>1, <2>1 DEF ExecutionStage
<1>5. CASE UNCHANGED slot
  BY <1>2, <1>5
<1> QED BY <1>3, <1>4, <1>5
        DEF Next, CenterDoes, CenterWrites, Dial, ReadPush, ReadFails, HandlePost, AgentBoots, vars,
            agentVars, Agent!Receive, Agent!Arrive

\* Requests go on to their end; flushes go on with finitely many rows, each of
\* which they take once, and then end for good; so does every execution that
\* was started.
GoroutinesGoOn ==
  /\ \A c \in Cmd : /\ RequestStage(c)' <= RequestStage(c)
                    /\ RequestStep(c) => RequestStage(c)' < RequestStage(c)
  /\ \A k \in Conn : /\ flush'[k] = flush[k] \/ FlushGoesOn(k) \/ FlushPhase(k)' = 0
                     /\ FlushPhase(k) = 0 => FlushPhase(k)' = 0
                     /\ FlushStep(k) => FlushGoesOn(k)
                     /\ IsFiniteSet(flush[k].todo)
  /\ \A s \in Slot : slot[s].at # "idle" =>
       /\ ExecutionStage(s)' <= ExecutionStage(s)
       /\ Agent!SlotStep(s) => ExecutionStage(s)' < ExecutionStage(s)

\* What Fairness relies on: every goroutine that CenterRuns and AgentRuns stand
\* for runs for a bounded number of steps, so none of them can keep the others
\* waiting for ever.
THEOREM GoroutinesAreBounded == Spec => [][GoroutinesGoOn]_vars
<1>1. SystemInv /\ CountInv /\ IsFiniteSet(Rows) /\ [Next]_vars => GoroutinesGoOn
  <2> SUFFICES ASSUME SystemInv, CountInv, IsFiniteSet(Rows), [Next]_vars
               PROVE  GoroutinesGoOn
    OBVIOUS
  <2>1. CenterTypeOK /\ RegistersFirst /\ RowsExist
    BY DEF SystemInv, CenterInv, CoverInv, GrantInv, Shape, CountInv
  <2>2. /\ CenterEffect
        /\ \A c \in Cmd : RequestStep(c) => RequestStage(c)' < RequestStage(c)
        /\ \A k \in Conn : FlushStep(k) => FlushGoesOn(k)
    BY <2>1, CenterPart, EveryEffect
  <2>3. ASSUME NEW k \in Conn
        PROVE  /\ flush'[k] = flush[k] \/ FlushGoesOn(k) \/ FlushPhase(k)' = 0
               /\ FlushPhase(k) = 0 => FlushPhase(k)' = 0
    <3>1. FlushEffect(k)
      BY <2>2 DEF CenterEffect
    <3>2. CASE flush'[k] = flush[k]
      BY <3>2 DEF FlushPhase, FlushAt
    <3>3. CASE FlushMove(k)
      <4>1. FlushPhase(k) # 0
        BY <3>3 DEF FlushMove, FlushPhase, FlushAt
      <4> QED BY <3>3, <4>1, FlushMoves
    <3>4. CASE FlushAt(k, "none") /\ flush'[k].at = "query"
      BY <3>4 DEF FlushGoesOn, FlushPhase, FlushAt
    <3>5. CASE flush'[k].at = "failed"
      BY <3>5 DEF FlushPhase, FlushAt
    <3> QED BY <3>1, <3>2, <3>3, <3>4, <3>5 DEF FlushEffect
  <2>4. ASSUME NEW k \in Conn
        PROVE  IsFiniteSet(flush[k].todo)
    <3>1. flush[k].todo \subseteq Rows
      BY <2>1 DEF RowsExist, Rows, CenterTypeOK
    <3> QED BY <3>1, FS_Subset
  <2>5. \A s \in Slot : slot[s].at # "idle" =>
          /\ ExecutionStage(s)' <= ExecutionStage(s)
          /\ Agent!SlotStep(s) => ExecutionStage(s)' < ExecutionStage(s)
    BY ExecutionGoesOn, ExecutionStays
  <2> QED BY <2>2, <2>3, <2>4, <2>5 DEF GoroutinesGoOn, CenterEffect
<1>2. Init => CountInv /\ IsFiniteSet(Rows)
  <2>1. Init => Rows = {}
    BY DEF Init, CenterInit, Rows
  <2> QED BY <2>1, CountInit, FS_EmptySet DEF Init
<1>3. SystemInv /\ CountInv /\ IsFiniteSet(Rows) /\ [Next]_vars => CountInv' /\ IsFiniteSet(Rows)'
  <2>1. IsFiniteSet(Rows)' <=> IsFiniteSet(Rows')
    BY DEF IsFiniteSet, Rows
  <2> QED BY <2>1, CenterPart, CountStep, RowsFinite DEF SystemInv
<1> QED BY <1>1, <1>2, <1>3, SystemInvariant, PTL DEF Spec
=============================================================================
