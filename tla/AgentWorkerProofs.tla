------------------------- MODULE AgentWorkerProofs -------------------------
(***************************************************************************)
(* Proofs about AgentWorker, for any number of commands and goroutines,    *)
(* any capacity of the channel, any Center and any subset of the faults.   *)
(*                                                                         *)
(* OneExecutionPerCommand and RunningIsExact hold each other up: the map   *)
(* excludes a second goroutine because it misses no command, and removing  *)
(* an id at the end is right because no other goroutine has it.            *)
(***************************************************************************)
EXTENDS AgentWorker, TLAPS

USE ChanCapAssumption, MaxRunsAssumption, NoCmdAssumption

-----------------------------------------------------------------------------
(* Types.                                                                  *)

SlotRecord == [cmd     : Cmd \cup {NoCmd},
               type    : Types \cup {"STATUS_XRAYR"},
               at      : {"idle", "start", "announced", "ready", "report", "reported"},
               verdict : {"none", "SUCCESS", "FAILED"}]

\* A goroutine has a command while it is busy, and a verdict when it reports.
SlotFacts ==
  \A s \in Slot :
    /\ slot[s].at # "idle" => slot[s].cmd \in Cmd
    /\ slot[s].at \in {"report", "reported"} => slot[s].verdict # "none"

TypeInv == AgentTypeOK /\ SlotFacts

LEMMA AgentTypeInit == AgentInit => TypeInv
<1> SUFFICES ASSUME AgentInit PROVE TypeInv
  OBVIOUS
<1>1. Idle \in SlotRecord
  BY DEF Idle, SlotRecord
<1>2. slot \in [Slot -> SlotRecord]
  BY <1>1 DEF AgentInit
<1>3. cmdCh \in Seq(Push) /\ Len(cmdCh) <= ChanCap
  BY DEF AgentInit
<1>4. SlotFacts
  BY DEF AgentInit, SlotFacts, Idle
<1>5. QED BY <1>2, <1>3, <1>4 DEF TypeInv, AgentTypeOK, AgentInit, SlotRecord

\* The channel: nothing else changes it.
LEMMA TypeChannel ==
  ASSUME TypeInv, (\E p \in Push : Receive(p)) \/ IgnorePush
  PROVE  TypeInv'
<1> USE DEF TypeInv, AgentTypeOK, SlotFacts
<1>1. ASSUME NEW p \in Push, Receive(p) PROVE TypeInv'
  BY <1>1 DEF Receive
<1>2. CASE IgnorePush
  BY <1>2 DEF IgnorePush
<1>3. QED BY <1>1, <1>2

LEMMA TypeTakePush ==
  ASSUME TypeInv, NEW s \in Slot, TakePush(s)
  PROVE  TypeInv'
<1> USE DEF TypeInv, AgentTypeOK, SlotFacts
<1>1. StartPush(s)
  BY DEF TakePush
<1>2. Head(cmdCh) \in Push /\ Tail(cmdCh) \in Seq(Push) /\ Len(Tail(cmdCh)) <= ChanCap
  BY <1>1 DEF StartPush
<1>3. Head(cmdCh).id \in Cmd /\ Head(cmdCh).type \in Types
  BY <1>2 DEF Push
<1>4. QED BY <1>1, <1>2, <1>3 DEF StartPush

LEMMA TypeSlot ==
  ASSUME TypeInv, NEW s \in Slot,
         \/ Refuse(s) \/ Announce(s) \/ Announced(s) \/ Perform(s) \/ Report(s) \/ Finish(s)
  PROVE  TypeInv'
<1> USE DEF TypeInv, AgentTypeOK, SlotFacts, Step
<1>1. CASE Refuse(s) BY <1>1 DEF Refuse, Decide
<1>2. CASE Announce(s) BY <1>2 DEF Announce, Post
<1>3. CASE Announced(s) BY <1>3 DEF Announced
<1>4. CASE Perform(s)
  <2>1. slot[s].cmd \in Cmd /\ performed' \in SUBSET Cmd
    BY <1>4 DEF Perform
  <2>2. CASE Decide(s, "SUCCESS") BY <1>4, <2>1, <2>2 DEF Perform, Decide
  <2>3. CASE Decide(s, "FAILED") BY <1>4, <2>1, <2>3 DEF Perform, Decide
  <2>4. QED BY <1>4, <2>2, <2>3 DEF Perform
<1>5. CASE Report(s)
  <2>1. slot[s].at = "report" /\ slot' = [slot EXCEPT ![s].at = "reported"]
    BY <1>5 DEF Report
  <2>2. slot[s].cmd \in Cmd /\ slot[s].verdict \in {"SUCCESS", "FAILED"}
    BY <2>1
  <2>3. Post(s, slot[s].verdict) \in [cmd : Cmd, says : {"RUNNING", "SUCCESS", "FAILED"}, by : Slot]
    BY <2>2 DEF Post
  <2>4. slot' \in [Slot -> SlotRecord]
    BY <2>1 DEF SlotRecord
  <2>5. SlotFacts'
    BY <2>1, <2>2
  <2>6. UNCHANGED << cmdCh, running, performed, runs >>
        /\ post' \in SUBSET [cmd : Cmd, says : {"RUNNING", "SUCCESS", "FAILED"}, by : Slot]
    BY <1>5, <2>3 DEF Report
  <2>7. QED BY <2>4, <2>5, <2>6 DEF SlotRecord
<1>6. CASE Finish(s) BY <1>6 DEF Finish, Idle
<1>7. QED BY <1>1, <1>2, <1>3, <1>4, <1>5, <1>6

LEMMA TypeOutside ==
  ASSUME TypeInv, (\E r \in post : Arrive(r)) \/ AgentExit \/ UNCHANGED agentVars
  PROVE  TypeInv'
<1> USE DEF TypeInv, AgentTypeOK, SlotFacts
<1>1. CASE \E r \in post : Arrive(r) BY <1>1 DEF Arrive
<1>2. CASE AgentExit BY <1>2 DEF AgentExit, Idle
<1>3. CASE UNCHANGED agentVars BY <1>3 DEF agentVars
<1>4. QED BY <1>1, <1>2, <1>3

-----------------------------------------------------------------------------
(* At most one goroutine per command.                                      *)

ExecInv == TypeInv /\ OneExecutionPerCommand /\ RunningIsExact

LEMMA ExecInit == AgentInit => ExecInv
<1>1. AgentInit => Busy = {}
  BY DEF AgentInit, Busy, Idle
<1>2. AgentInit => OneExecutionPerCommand /\ RunningIsExact
  BY <1>1 DEF OneExecutionPerCommand, RunningIsExact, AgentInit
<1>3. QED BY <1>2, AgentTypeInit DEF ExecInv

\* A goroutine that goes on keeps its command, and so does the map.
LEMMA ExecKeeps ==
  ASSUME ExecInv, UNCHANGED running,
         \A s \in Slot : slot'[s].cmd = slot[s].cmd /\ (slot'[s].at = "idle" <=> slot[s].at = "idle")
  PROVE  (OneExecutionPerCommand /\ RunningIsExact)'
<1>1. Busy' = Busy
  BY DEF Busy
<1>2. \A s \in Busy : slot'[s].cmd = slot[s].cmd
  BY DEF Busy
<1>3. QED BY <1>1, <1>2 DEF ExecInv, OneExecutionPerCommand, RunningIsExact

LEMMA ExecTakePush ==
  ASSUME ExecInv, NEW s \in Slot, TakePush(s)
  PROVE  (OneExecutionPerCommand /\ RunningIsExact)'
<1> DEFINE c == Head(cmdCh).id
<1>1. /\ slot[s].at = "idle" /\ c \notin running
      /\ running' = running \cup {c}
      /\ slot'[s].cmd = c /\ slot'[s].at = "start"
      /\ \A t \in Slot \ {s} : slot'[t] = slot[t]
  BY DEF TakePush, StartPush, ExecInv, TypeInv, AgentTypeOK
<1>2. Busy' = Busy \cup {s} /\ s \notin Busy
  BY <1>1 DEF Busy
<1>3. \A t \in Busy : slot'[t].cmd = slot[t].cmd /\ slot[t].cmd \in running
  BY <1>1, <1>2 DEF ExecInv, RunningIsExact, Busy
<1>4. OneExecutionPerCommand'
  BY <1>1, <1>2, <1>3 DEF ExecInv, OneExecutionPerCommand
<1>5. RunningIsExact'
  BY <1>1, <1>2, <1>3 DEF ExecInv, RunningIsExact
<1>6. QED BY <1>4, <1>5

LEMMA ExecFinish ==
  ASSUME ExecInv, NEW s \in Slot, Finish(s)
  PROVE  (OneExecutionPerCommand /\ RunningIsExact)'
<1>1. /\ s \in Busy
      /\ running' = running \ {slot[s].cmd}
      /\ slot'[s].at = "idle"
      /\ \A t \in Slot \ {s} : slot'[t] = slot[t]
  BY DEF Finish, Idle, Busy, ExecInv, TypeInv, AgentTypeOK
<1>2. Busy' = Busy \ {s}
  BY <1>1 DEF Busy
<1>3. \A t \in Busy \ {s} : slot'[t].cmd = slot[t].cmd /\ slot[t].cmd # slot[s].cmd
  BY <1>1 DEF ExecInv, OneExecutionPerCommand, Busy
<1>4. OneExecutionPerCommand'
  BY <1>2, <1>3 DEF ExecInv, OneExecutionPerCommand
<1>5. RunningIsExact'
  BY <1>1, <1>2, <1>3 DEF ExecInv, RunningIsExact
<1>6. QED BY <1>4, <1>5

LEMMA TypeStep == TypeInv /\ [AgentNext]_agentVars => TypeInv'
<1> SUFFICES ASSUME TypeInv, [AgentNext]_agentVars PROVE TypeInv'
  OBVIOUS
<1>1. ASSUME NEW s \in Slot, SlotStep(s) PROVE TypeInv'
  BY <1>1, TypeTakePush, TypeSlot DEF SlotStep
<1>2. CASE IgnorePush
  BY <1>2, TypeChannel
<1>3. CASE \E r \in post : LosePost(r) \/ Arrive(r)
  BY <1>3, TypeOutside DEF LosePost
<1>4. CASE \E p \in Push : Receive(p)
  BY <1>4, TypeChannel
<1>5. CASE AgentExit \/ UNCHANGED agentVars
  BY <1>5, TypeOutside
<1>6. QED BY <1>1, <1>2, <1>3, <1>4, <1>5 DEF AgentNext, AgentAlone, AnyCenter

LEMMA ExecStep == ExecInv /\ [AgentNext]_agentVars => ExecInv'
<1> SUFFICES ASSUME ExecInv, [AgentNext]_agentVars
             PROVE  (OneExecutionPerCommand /\ RunningIsExact)'
  BY TypeStep DEF ExecInv
<1>1. ASSUME NEW s \in Slot, TakePush(s)
      PROVE  (OneExecutionPerCommand /\ RunningIsExact)'
  BY <1>1, ExecTakePush
<1>2. ASSUME NEW s \in Slot,
             Refuse(s) \/ Announce(s) \/ Announced(s) \/ Perform(s) \/ Report(s)
      PROVE  (OneExecutionPerCommand /\ RunningIsExact)'
  <2>1. UNCHANGED running
    BY <1>2 DEF Refuse, Announce, Announced, Perform, Report
  <2>2. \A t \in Slot : /\ slot'[t].cmd = slot[t].cmd
                        /\ slot'[t].at = "idle" <=> slot[t].at = "idle"
    <3> USE DEF ExecInv, TypeInv, AgentTypeOK
    <3>1. CASE Refuse(s) BY <3>1 DEF Refuse, Decide
    <3>2. CASE Announce(s)
      <4>1. Step(s, "start", "ready") \/ Step(s, "start", "announced")
        BY <3>2 DEF Announce
      <4>2. slot'[s].cmd = slot[s].cmd /\ slot'[s].at # "idle" /\ slot[s].at # "idle"
        BY <4>1 DEF Step
      <4>3. \A t \in Slot \ {s} : slot'[t] = slot[t]
        BY <4>1 DEF Step
      <4>4. QED BY <4>2, <4>3
    <3>3. CASE Announced(s) BY <3>3 DEF Announced, Step
    <3>4. CASE Perform(s)
      <4>1. slot[s].at = "ready" /\ (Decide(s, "SUCCESS") \/ Decide(s, "FAILED"))
        BY <3>4 DEF Perform
      <4>2. slot'[s].cmd = slot[s].cmd /\ slot'[s].at = "report"
        BY <4>1 DEF Decide
      <4>3. \A t \in Slot \ {s} : slot'[t] = slot[t]
        BY <4>1 DEF Decide
      <4>4. QED BY <4>1, <4>2, <4>3
    <3>5. CASE Report(s) BY <3>5 DEF Report, Step
    <3>6. QED BY <1>2, <3>1, <3>2, <3>3, <3>4, <3>5
  <2>3. QED BY <2>1, <2>2, ExecKeeps
<1>3. ASSUME NEW s \in Slot, Finish(s)
      PROVE  (OneExecutionPerCommand /\ RunningIsExact)'
  BY <1>3, ExecFinish
<1>4. CASE \/ IgnorePush
           \/ \E r \in post : LosePost(r) \/ Arrive(r)
           \/ \E p \in Push : Receive(p)
           \/ UNCHANGED agentVars
  <2>1. UNCHANGED << running, slot >>
    BY <1>4 DEF IgnorePush, LosePost, Arrive, Receive, agentVars
  <2>2. QED BY <2>1, ExecKeeps
<1>5. CASE AgentExit
  <2>1. running' = {} /\ Busy' = {}
    BY <1>5 DEF AgentExit, Busy, Idle
  <2>2. QED BY <2>1 DEF OneExecutionPerCommand, RunningIsExact
<1>6. QED
  BY <1>1, <1>2, <1>3, <1>4, <1>5 DEF AgentNext, AgentAlone, AnyCenter, SlotStep

\* Every variable of the agent keeps its type; the channel never holds more
\* than its capacity.
THEOREM AgentTypeCorrect == AgentSpec => []AgentTypeOK
<1>1. TypeInv => AgentTypeOK
  BY DEF TypeInv
<1>2. QED BY <1>1, AgentTypeInit, TypeStep, PTL DEF AgentSpec

\* However often the Center pushes a command, around reconnects and restarts,
\* two goroutines of the agent never execute it at once.
THEOREM NoConcurrentExecution == AgentSpec => []OneExecutionPerCommand
<1>1. ExecInv => OneExecutionPerCommand
  BY DEF ExecInv
<1>2. QED BY <1>1, ExecInit, ExecStep, PTL DEF AgentSpec

\* The running map neither forgets an execution nor keeps one that ended.
THEOREM MapIsExact == AgentSpec => []RunningIsExact
<1>1. ExecInv => RunningIsExact
  BY DEF ExecInv
<1>2. QED BY <1>1, ExecInit, ExecStep, PTL DEF AgentSpec

-----------------------------------------------------------------------------
(* A SUCCESS is about an action carried out.                               *)

SuccessFacts == \A s \in Slot : slot[s].verdict = "SUCCESS" => slot[s].cmd \in performed

SuccessInv == TypeInv /\ SuccessFacts /\ SuccessWasPerformed

LEMMA SuccessInit == AgentInit => SuccessInv
<1>1. AgentInit => SuccessFacts /\ SuccessWasPerformed
  BY DEF AgentInit, SuccessFacts, SuccessWasPerformed, Idle
<1>2. QED BY <1>1, AgentTypeInit DEF SuccessInv

LEMMA SuccessSlot ==
  ASSUME SuccessInv, NEW s \in Slot, SlotStep(s)
  PROVE  (SuccessFacts /\ SuccessWasPerformed)'
<1> USE DEF SuccessInv, TypeInv, AgentTypeOK, SuccessFacts, SuccessWasPerformed
<1>1. CASE TakePush(s)
  <2>1. UNCHANGED << post, performed >> /\ slot'[s].verdict = "none"
    BY <1>1 DEF TakePush, StartPush
  <2>2. \A t \in Slot \ {s} : slot'[t] = slot[t]
    BY <1>1 DEF TakePush, StartPush
  <2>3. QED BY <2>1, <2>2
<1>2. CASE Refuse(s)
  <2>1. UNCHANGED << post, performed >> /\ slot'[s].verdict = "FAILED"
    BY <1>2 DEF Refuse, Decide
  <2>2. \A t \in Slot \ {s} : slot'[t] = slot[t]
    BY <1>2 DEF Refuse, Decide
  <2>3. QED BY <2>1, <2>2
<1>3. CASE Announce(s) \/ Announced(s)
  <2>1. PICK from, to : Step(s, from, to)
    BY <1>3 DEF Announce, Announced
  <2>2. \A t \in Slot : slot'[t].cmd = slot[t].cmd /\ slot'[t].verdict = slot[t].verdict
    BY <2>1 DEF Step
  <2>3. UNCHANGED performed /\ \A r \in post' : r \in post \/ r.says = "RUNNING"
    BY <1>3 DEF Announce, Announced, Post
  <2>4. QED BY <2>2, <2>3
<1>4. CASE Perform(s)
  <2>1. performed \subseteq performed' /\ UNCHANGED post
    BY <1>4 DEF Perform
  <2>2. \A t \in Slot \ {s} : slot'[t] = slot[t]
    BY <1>4 DEF Perform, Decide
  <2>3. slot'[s].verdict = "SUCCESS" => slot'[s].cmd \in performed'
    BY <1>4 DEF Perform, Decide
  <2>4. QED BY <2>1, <2>2, <2>3
<1>5. CASE Report(s)
  <2>1. UNCHANGED performed /\ post' = post \cup {Post(s, slot[s].verdict)}
    BY <1>5 DEF Report
  <2>2. \A t \in Slot : slot'[t].cmd = slot[t].cmd /\ slot'[t].verdict = slot[t].verdict
    BY <1>5 DEF Report, Step
  <2>3. \A r \in post' : r \in post \/ (r.cmd = slot[s].cmd /\ r.says = slot[s].verdict)
    BY <2>1 DEF Post
  <2>4. QED BY <2>1, <2>2, <2>3
<1>6. CASE Finish(s)
  <2>1. UNCHANGED << post, performed >> /\ slot'[s].verdict = "none"
    BY <1>6 DEF Finish, Idle
  <2>2. \A t \in Slot \ {s} : slot'[t] = slot[t]
    BY <1>6 DEF Finish
  <2>3. QED BY <2>1, <2>2
<1>7. QED BY <1>1, <1>2, <1>3, <1>4, <1>5, <1>6 DEF SlotStep

LEMMA SuccessStep == SuccessInv /\ [AgentNext]_agentVars => SuccessInv'
<1> SUFFICES ASSUME SuccessInv, [AgentNext]_agentVars
             PROVE  (SuccessFacts /\ SuccessWasPerformed)'
  BY TypeStep DEF SuccessInv
<1>1. ASSUME NEW s \in Slot, SlotStep(s) PROVE (SuccessFacts /\ SuccessWasPerformed)'
  BY <1>1, SuccessSlot
<1> USE DEF SuccessInv, SuccessFacts, SuccessWasPerformed
<1>2. CASE \/ IgnorePush
           \/ \E p \in Push : Receive(p)
           \/ \E r \in post : LosePost(r) \/ Arrive(r)
           \/ UNCHANGED agentVars
  <2>1. UNCHANGED << slot, performed >> /\ post' \subseteq post
    BY <1>2 DEF IgnorePush, Receive, LosePost, Arrive, agentVars
  <2>2. QED BY <2>1
<1>3. CASE AgentExit
  BY <1>3 DEF AgentExit, Idle
<1>4. QED BY <1>1, <1>2, <1>3 DEF AgentNext, AgentAlone, AnyCenter

\* No post claims SUCCESS of a command whose action was not carried out, not
\* even one that outlives the process that sent it.
THEOREM SuccessIsReal == AgentSpec => []SuccessWasPerformed
<1>1. SuccessInv => SuccessWasPerformed
  BY DEF SuccessInv
<1>2. QED BY <1>1, SuccessInit, SuccessStep, PTL DEF AgentSpec

-----------------------------------------------------------------------------
(* Every execution is a few steps of its goroutine.                        *)

StepsLeft(s) ==
  CASE slot[s].at = "start"     -> 5
    [] slot[s].at = "announced" -> 4
    [] slot[s].at = "ready"     -> 3
    [] slot[s].at = "report"    -> 2
    [] slot[s].at = "reported"  -> 1
    [] OTHER                    -> 0

\* A step of the goroutine itself brings the end of its execution nearer, and
\* nobody else gives it another command or sets it back.
GoesOn(s) ==
  /\ SlotStep(s) => StepsLeft(s)' < StepsLeft(s)
  /\ slot'[s] = slot[s] \/ SlotStep(s) \/ slot'[s] = Idle
  /\ slot'[s].at # "idle" => slot'[s].cmd = slot[s].cmd /\ slot'[s].type = slot[s].type

LEMMA BusyGoesOn ==
  ASSUME TypeInv, [AgentNext]_agentVars, NEW s \in Slot, slot[s].at # "idle"
  PROVE  GoesOn(s)
<1>1. slot \in [Slot -> SlotRecord]
  BY DEF TypeInv, AgentTypeOK, SlotRecord
<1>2. ASSUME NEW t \in Slot, SlotStep(t)
      PROVE  /\ t # s => slot'[s] = slot[s]
             /\ t = s => /\ StepsLeft(s)' < StepsLeft(s)
                         /\ slot'[s].at # "idle" => slot'[s].cmd = slot[s].cmd /\ slot'[s].type = slot[s].type
  <2>1. CASE TakePush(t)
    BY <1>1, <2>1 DEF TakePush, StartPush
  <2>2. CASE \E v : slot[t].at \in {"start", "ready"} /\ Decide(t, v)
    <3>1. PICK v : slot[t].at \in {"start", "ready"} /\ Decide(t, v)
      BY <2>2
    <3>2. slot' = [slot EXCEPT ![t] = [cmd |-> slot[t].cmd, type |-> slot[t].type,
                                       at |-> "report", verdict |-> v]]
      BY <3>1 DEF Decide
    <3> QED BY <1>1, <3>1, <3>2 DEF StepsLeft
  <2>3. CASE \/ Step(t, "start", "ready") \/ Step(t, "start", "announced")
             \/ Step(t, "announced", "ready") \/ Step(t, "report", "reported")
    <3>1. PICK from \in {"start", "announced", "report"}, to \in {"ready", "announced", "reported"} :
            /\ Step(t, from, to)
            /\ << from, to >> \in {<< "start", "ready" >>, << "start", "announced" >>,
                                   << "announced", "ready" >>, << "report", "reported" >>}
      BY <2>3
    <3>2. slot[t].at = from /\ slot' = [slot EXCEPT ![t].at = to]
      BY <3>1 DEF Step
    <3>3. \A x \in Slot : x # t => slot'[x] = slot[x]
      BY <1>1, <3>2
    <3>4. slot'[t].at = to /\ slot'[t].cmd = slot[t].cmd /\ slot'[t].type = slot[t].type
      BY <1>1, <3>2 DEF SlotRecord
    <3> QED BY <3>1, <3>2, <3>3, <3>4 DEF StepsLeft
  <2>4. CASE Finish(t)
    BY <1>1, <2>4 DEF Finish, Idle, StepsLeft
  <2> QED BY <1>2, <2>1, <2>2, <2>3, <2>4 DEF SlotStep, Refuse, Announce, Announced, Perform, Report
<1>3. CASE \E t \in Slot : SlotStep(t)
  BY <1>2, <1>3 DEF GoesOn
<1>4. CASE UNCHANGED slot
  BY <1>2, <1>4 DEF GoesOn
<1>5. CASE AgentExit
  BY <1>2, <1>5 DEF GoesOn, AgentExit, Idle
<1> QED BY <1>3, <1>4, <1>5
        DEF AgentNext, AgentAlone, AnyCenter, IgnorePush, Receive, LosePost, Arrive, agentVars

\* The executions that ExecutionEnds waits for are short: each is five steps of
\* its goroutine at most, of one command from its push to its end, and only
\* those steps and the death of the process change it.
THEOREM ExecutionIsBounded ==
  AgentSpec => [][\A s \in Slot : slot[s].at # "idle" => GoesOn(s)]_agentVars
<1> DEFINE A == \A s \in Slot : slot[s].at # "idle" => GoesOn(s)
<1>1. TypeInv /\ [AgentNext]_agentVars => A
  BY BusyGoesOn
<1> HIDE DEF A
<1>2. AgentSpec => [][A]_agentVars
  BY <1>1, AgentTypeInit, TypeStep, PTL DEF AgentSpec
<1>3. QED BY <1>2 DEF A

=============================================================================
