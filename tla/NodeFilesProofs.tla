-------------------------- MODULE NodeFilesProofs --------------------------
(***************************************************************************)
(* Proofs about NodeFiles when commands do not overlap, for any number of  *)
(* commands and any failing steps.                                         *)
(*                                                                         *)
(* The invariant follows the command that is executed: Placed says which   *)
(* files it has replaced at each step, Copies what it can restore, Undoing *)
(* what its rollback has left to do or spoiled, Service what is running.   *)
(* When the command reports, they give what its verdict promises, which    *)
(* stays so until the next command starts (Quiet).                         *)
(***************************************************************************)
EXTENDS NodeFiles, Naturals, TLAPS

USE NoCmdAssumption, KindsAssumption

-----------------------------------------------------------------------------
(* Types.                                                                  *)

Steps == {"fetch", "backup", "backupConf", "bin", "conf", "unit", "reload", "restart", "verify", "undo"}

JobRecord == [kind     : AllKinds,
              withConf : BOOLEAN,
              works    : BOOLEAN,
              saved    : [Part -> Content],
              undo     : Seq(Part \cup {"restart"}),
              at       : Ended \cup Steps,
              verdict  : {"none", "SUCCESS", "FAILED"}]

HarmRecord == [at    : {"none", "bin", "conf", "unit", "reload", "restart", "verify"},
               parts : SUBSET (Part \cup {"restart"})]

TypeInv ==
  /\ file \in [Part -> Content]
  /\ run \in [Part -> Content]
  /\ job \in [Cmd -> JobRecord]
  /\ before \in [Cmd -> [files : [Part -> Content], run : [Part -> Content]]]
  /\ harm \in [Cmd -> HarmRecord]
  /\ last \in Cmd \cup {NoCmd}

LEMMA TypeInvIsType == TypeInv <=> FilesTypeOK
BY DEF TypeInv, FilesTypeOK, JobRecord, HarmRecord, Steps

LEMMA TypeInit == Init => TypeInv
<1> SUFFICES ASSUME Init PROVE TypeInv
  OBVIOUS
<1>1. NoFiles \in [Part -> Content]
  BY DEF NoFiles, Part, Content, Others
<1>2. file \in [Part -> Content] /\ run \in [Part -> Content]
  BY <1>1 DEF Init, Content, Others
<1>3. << >> \in Seq(Part \cup {"restart"})
  OBVIOUS
<1>4. job \in [Cmd -> JobRecord]
  BY <1>1, <1>3 DEF Init, JobRecord, AllKinds, Ended
<1>5. harm \in [Cmd -> HarmRecord]
  BY DEF Init, HarmRecord
<1>6. QED BY <1>2, <1>4, <1>5 DEF Init, TypeInv

\* A goroutine that goes on keeps its type.
LEMMA TypeBecomes ==
  ASSUME TypeInv, NEW c \in Cmd,
         NEW at \in Ended \cup Steps, NEW verdict \in {"none", "SUCCESS", "FAILED"},
         NEW saved \in [Part -> Content], NEW undo \in Seq(Part \cup {"restart"}),
         Becomes(c, at, verdict, saved, undo)
  PROVE  job' \in [Cmd -> JobRecord]
<1>1. job[c] \in JobRecord
  BY DEF TypeInv
<1>2. [kind |-> job[c].kind, withConf |-> job[c].withConf, works |-> job[c].works,
       at |-> at, verdict |-> verdict, saved |-> saved, undo |-> undo] \in JobRecord
  BY <1>1 DEF JobRecord
<1>3. QED BY <1>2 DEF TypeInv, Becomes

LEMMA TypeGoto ==
  ASSUME TypeInv, NEW c \in Cmd, NEW step \in Steps, Goto(c, step)
  PROVE  job' \in [Cmd -> JobRecord] /\ last' \in Cmd \cup {NoCmd}
<1>1. job[c].saved \in [Part -> Content] /\ << >> \in Seq(Part \cup {"restart"})
  BY DEF TypeInv, JobRecord
<1>2. QED BY <1>1, TypeBecomes DEF Goto, TypeInv

LEMMA TypeSave ==
  ASSUME TypeInv, NEW c \in Cmd, NEW parts, NEW step \in Steps, Save(c, parts, step)
  PROVE  job' \in [Cmd -> JobRecord] /\ last' \in Cmd \cup {NoCmd}
<1>1. << >> \in Seq(Part \cup {"restart"}) /\ job[c].saved \in [Part -> Content]
  BY DEF TypeInv, JobRecord
<1>2. [p \in Part |-> IF p \in parts THEN file[p] ELSE job[c].saved[p]] \in [Part -> Content]
  BY <1>1 DEF TypeInv
<1>3. QED BY <1>1, <1>2, TypeBecomes DEF Save, TypeInv

LEMMA TypeUndo ==
  ASSUME TypeInv, NEW c \in Cmd, NEW tasks \in Seq(Part \cup {"restart"}), Undo(c, tasks)
  PROVE  job' \in [Cmd -> JobRecord] /\ last' \in Cmd \cup {NoCmd}
<1>1. job[c].saved \in [Part -> Content]
  BY DEF TypeInv, JobRecord
<1>2. QED BY <1>1, TypeBecomes DEF Undo, TypeInv, Steps

LEMMA TypeConclude ==
  ASSUME TypeInv, NEW c \in Cmd, NEW verdict \in {"SUCCESS", "FAILED"}, Conclude(c, verdict)
  PROVE  job' \in [Cmd -> JobRecord] /\ last' \in Cmd \cup {NoCmd}
<1>1. job[c].saved \in [Part -> Content] /\ << >> \in Seq(Part \cup {"restart"})
  BY DEF TypeInv, JobRecord
<1>2. "done" \in Ended \cup Steps /\ verdict \in {"none", "SUCCESS", "FAILED"}
  BY DEF Ended
<1>3. job' \in [Cmd -> JobRecord]
  BY <1>1, <1>2, TypeBecomes DEF Conclude
<1>4. QED BY <1>3 DEF Conclude

LEMMA TypeHarm ==
  ASSUME TypeInv, NEW c \in Cmd, NEW step \in {"none", "bin", "conf", "unit", "reload", "restart", "verify"},
         NEW parts \in SUBSET (Part \cup {"restart"}), Harm(c, step, parts)
  PROVE  harm' \in [Cmd -> HarmRecord]
<1>1. [at |-> step, parts |-> parts] \in HarmRecord
  BY DEF HarmRecord
<1>2. QED BY <1>1 DEF Harm, TypeInv

LEMMA TypeSpoil ==
  ASSUME TypeInv, NEW c \in Cmd, NEW task \in Part \cup {"restart"}, Spoil(c, task) \/ Repair(c, task)
  PROVE  harm' \in [Cmd -> HarmRecord]
<1>1. harm[c] \in HarmRecord
  BY DEF TypeInv
<1>2. /\ harm[c].at \in {"none", "bin", "conf", "unit", "reload", "restart", "verify"}
      /\ harm[c].parts \cup {task} \in SUBSET (Part \cup {"restart"})
      /\ harm[c].parts \ {task} \in SUBSET (Part \cup {"restart"})
  BY <1>1 DEF HarmRecord
<1>3. QED BY <1>2, TypeHarm DEF Spoil, Repair

LEMMA TypeMangled ==
  ASSUME TypeInv, NEW c \in Cmd, NEW p \in Part, NEW new \in Content, Mangled(c, p, new)
  PROVE  file' \in [Part -> Content]
<1>1. PICK left \in {file[p], "damaged", new, "none"} : file' = [file EXCEPT ![p] = left]
  BY DEF Mangled
<1>2. left \in Content
  BY DEF TypeInv, Content, Others
<1>3. QED BY <1>1, <1>2 DEF TypeInv

LEMMA TypeRestart ==
  ASSUME TypeInv, Restart \/ RestartFails
  PROVE  run' \in [Part -> Content]
<1>1. NoFiles \in [Part -> Content]
  BY DEF NoFiles, Part, Content, Others
<1>2. QED BY <1>1 DEF Restart, RestartFails, TypeInv

\* The lists of files a rollback visits.
RollbackList ==
  { << "conf", "restart" >>, << "bin", "unit", "restart" >>,
    << "bin", "unit", "conf", "restart" >>, << "bin" >> }

LEMMA RollbackLists == RollbackList \subseteq Seq(Part \cup {"restart"})
BY DEF RollbackList, Part

LEMMA RollbackFullType ==
  ASSUME TypeInv, NEW c \in Cmd, rollbackFull(c)
  PROVE  job' \in [Cmd -> JobRecord] /\ last' \in Cmd \cup {NoCmd}
<1> DEFINE tasks == CASE job[c].kind = "APPLY_CONFIG"  -> << "conf", "restart" >>
                      [] job[c].kind = "INSTALL_XRAYR" -> << "bin", "unit", "restart" >>
                      [] job[c].kind = "UPGRADE_XRAYR" -> << "bin", "unit", "conf", "restart" >>
<1>1. job[c].kind \in AllKinds
  BY DEF TypeInv, JobRecord
<1>2. tasks \in RollbackList
  BY <1>1 DEF RollbackList, AllKinds
<1>3. tasks \in Seq(Part \cup {"restart"})
  BY <1>2, RollbackLists
<1>4. Undo(c, tasks)
  BY DEF rollbackFull
<1>5. QED BY <1>3, <1>4, TypeUndo

LEMMA TypeNext == TypeInv /\ [Next]_vars => TypeInv'
<1> SUFFICES ASSUME TypeInv, [Next]_vars PROVE TypeInv'
  OBVIOUS
<1>1. ASSUME NEW c \in Cmd, NEW k \in Kinds, NEW withConf \in BOOLEAN, NEW works \in BOOLEAN,
             Begin(c, k, withConf, works)
      PROVE  TypeInv'
  <2>1. NoFiles \in [Part -> Content] /\ << >> \in Seq(Part \cup {"restart"})
    BY DEF NoFiles, Part, Content, Others
  <2>2. PICK at \in Ended \cup Steps, verdict \in {"none", "FAILED"} :
          job' = [job EXCEPT ![c] =
            [kind |-> k, withConf |-> withConf, works |-> works, saved |-> NoFiles,
             undo |-> << >>, at |-> at, verdict |-> verdict]]
    BY <1>1 DEF Begin, Ended, Steps
  <2>3. [kind |-> k, withConf |-> withConf, works |-> works, saved |-> NoFiles,
         undo |-> << >>, at |-> at, verdict |-> verdict] \in JobRecord
    BY <2>1, <2>2 DEF JobRecord
  <2>4. job' \in [Cmd -> JobRecord]
    BY <2>2, <2>3 DEF TypeInv
  <2>5. before' \in [Cmd -> [files : [Part -> Content], run : [Part -> Content]]]
    BY <1>1 DEF Begin, TypeInv
  <2>6. last' \in Cmd \cup {NoCmd}
    BY <1>1 DEF Begin, TypeInv
  <2>7. QED BY <1>1, <2>4, <2>5, <2>6 DEF Begin, TypeInv
<1>2. ASSUME NEW c \in Cmd, CommandStep(c) PROVE TypeInv'
  <2>1. job[c] \in JobRecord /\ job[c].kind \in AllKinds
    BY DEF TypeInv, JobRecord
  <2>2. CASE Fetch(c)
    <3>1. CASE Fail(c) BY <2>2, <3>1, TypeConclude DEF Fetch, Fail, TypeInv
    <3>2. CASE \E step \in Steps : Goto(c, step) BY <2>2, <3>2, TypeGoto DEF Fetch, TypeInv
    <3>3. QED BY <2>1, <2>2, <3>1, <3>2 DEF Fetch, Steps, AllKinds
  <2>3. CASE Backup(c)
    <3>1. CASE Fail(c) BY <2>3, <3>1, TypeConclude DEF Backup, Fail, TypeInv
    <3>2. CASE \E step \in Steps : Goto(c, step) BY <2>3, <3>2, TypeGoto DEF Backup, TypeInv
    <3>3. CASE \E step \in Steps : \E parts \in SUBSET Part : Save(c, parts, step)
      BY <2>3, <3>3, TypeSave DEF Backup, TypeInv
    <3>4. {"conf"} \in SUBSET Part /\ {"bin"} \in SUBSET Part /\ {"bin", "unit"} \in SUBSET Part
      BY DEF Part
    <3>5. QED BY <2>3, <3>1, <3>2, <3>3, <3>4 DEF Backup, Steps
  <2>4. CASE BackupConf(c)
    <3>1. CASE Goto(c, "bin") BY <2>4, <3>1, TypeGoto DEF BackupConf, TypeInv, Steps
    <3>2. CASE Save(c, {"conf"}, "bin") BY <2>4, <3>2, TypeSave DEF BackupConf, TypeInv, Steps
    <3>3. QED BY <2>4, <3>1, <3>2 DEF BackupConf
  <2>5. CASE PutBinary(c)
    <3>1. CASE Fail(c) /\ Mangled(c, "bin", c) /\ Harm(c, "bin", {"bin"})
      <4>1. file' \in [Part -> Content]
        BY <3>1, TypeMangled DEF Part, Content
      <4>2. harm' \in [Cmd -> HarmRecord]
        BY <3>1, TypeHarm DEF Part
      <4>3. QED BY <2>5, <3>1, <4>1, <4>2, TypeConclude DEF PutBinary, Fail, TypeInv
    <3>2. CASE /\ file' = [file EXCEPT !.bin = c]
               /\ \E step \in Steps : Goto(c, step)
               /\ UNCHANGED harm
      <4>1. file' \in [Part -> Content]
        BY <3>2 DEF TypeInv, Content
      <4>2. QED BY <2>5, <3>2, <4>1, TypeGoto DEF PutBinary, TypeInv
    <3>3. QED BY <2>5, <3>1, <3>2 DEF PutBinary, Steps
  <2>6. CASE PutConf(c)
    <3>1. CASE Fail(c) /\ UNCHANGED << file, harm >>
      BY <2>6, <3>1, TypeConclude DEF PutConf, Fail, TypeInv
    <3>2. CASE /\ file' = [file EXCEPT !.conf = c]
               /\ \E step \in Steps : Goto(c, step)
               /\ UNCHANGED harm
      <4>1. file' \in [Part -> Content]
        BY <3>2 DEF TypeInv, Content
      <4>2. QED BY <2>6, <3>2, <4>1, TypeGoto DEF PutConf, TypeInv
    <3>3. CASE /\ \E tasks \in RollbackList : Undo(c, tasks)
               /\ Mangled(c, "conf", c)
               /\ Harm(c, "conf", {"conf"})
      <4>1. file' \in [Part -> Content]
        BY <3>3, TypeMangled DEF Part, Content
      <4>2. harm' \in [Cmd -> HarmRecord]
        BY <3>3, TypeHarm DEF Part
      <4>3. QED BY <2>6, <3>3, <4>1, <4>2, RollbackLists, TypeUndo DEF PutConf, TypeInv
    <3>4. QED BY <2>1, <2>6, <3>1, <3>2, <3>3 DEF PutConf, Steps, RollbackList, AllKinds
  <2>7. CASE PutUnit(c)
    <3>1. CASE Undo(c, << "bin", "unit", "restart" >>) /\ Mangled(c, "unit", "rendered") /\ Harm(c, "unit", {"unit"})
      <4>1. file' \in [Part -> Content]
        BY <3>1, TypeMangled DEF Part, Content, Others
      <4>2. harm' \in [Cmd -> HarmRecord]
        BY <3>1, TypeHarm DEF Part
      <4>3. QED BY <2>7, <3>1, <4>1, <4>2, RollbackLists, TypeUndo DEF PutUnit, TypeInv, RollbackList
    <3>2. CASE file' = [file EXCEPT !.unit = "rendered"] /\ Goto(c, "reload") /\ UNCHANGED harm
      <4>1. file' \in [Part -> Content]
        BY <3>2 DEF TypeInv, Content, Others
      <4>2. QED BY <2>7, <3>2, <4>1, TypeGoto DEF PutUnit, TypeInv, Steps
    <3>3. QED BY <2>7, <3>1, <3>2 DEF PutUnit
  <2>8. CASE Reload(c)
    <3>1. CASE rollbackFull(c) /\ Harm(c, "reload", {})
      BY <2>8, <3>1, RollbackFullType, TypeHarm DEF Reload, TypeInv
    <3>2. CASE Goto(c, "restart") /\ UNCHANGED harm
      BY <2>8, <3>2, TypeGoto DEF Reload, TypeInv, Steps
    <3>3. QED BY <2>8, <3>1, <3>2 DEF Reload
  <2>9. CASE RestartService(c)
    <3>1. run' \in [Part -> Content]
      BY <2>9, TypeRestart DEF RestartService
    <3>2. CASE rollbackFull(c) /\ Harm(c, "restart", {})
      BY <2>9, <3>1, <3>2, RollbackFullType, TypeHarm DEF RestartService, TypeInv
    <3>3. CASE Goto(c, "verify") /\ UNCHANGED harm
      BY <2>9, <3>1, <3>3, TypeGoto DEF RestartService, TypeInv, Steps
    <3>4. QED BY <2>9, <3>2, <3>3 DEF RestartService
  <2>10. CASE Verify(c)
    <3>1. CASE Conclude(c, "SUCCESS") /\ UNCHANGED harm
      BY <2>10, <3>1, TypeConclude DEF Verify, TypeInv
    <3>2. CASE rollbackFull(c) /\ Harm(c, "verify", {})
      BY <2>10, <3>2, RollbackFullType, TypeHarm DEF Verify, TypeInv
    <3>3. QED BY <2>10, <3>1, <3>2 DEF Verify
  <2>11. CASE UndoStep(c)
    <3> DEFINE task == Head(job[c].undo)
    <3>1. job[c].undo \in Seq(Part \cup {"restart"}) /\ job[c].undo # << >>
      BY <2>1, <2>11 DEF UndoStep, JobRecord
    <3>2. task \in Part \cup {"restart"} /\ Tail(job[c].undo) \in Seq(Part \cup {"restart"})
      BY <3>1
    <3>3. job' \in [Cmd -> JobRecord] /\ last' \in Cmd \cup {NoCmd}
      BY <2>11, <3>2, TypeUndo DEF UndoStep
    <3>4. harm' \in [Cmd -> HarmRecord]
      <4>1. harm' = harm \/ Spoil(c, task) \/ Repair(c, task)
        BY <2>11 DEF UndoStep, UndoRestart, UndoFile
      <4> HIDE DEF task
      <4>2. QED BY <3>2, <4>1, TypeSpoil DEF TypeInv
    <3>5. run' \in [Part -> Content]
      BY <2>11, TypeRestart DEF UndoStep, UndoRestart, UndoFile, TypeInv
    <3>6. file' \in [Part -> Content]
      <4>1. CASE UNCHANGED file
        BY <4>1 DEF TypeInv
      <4>2. ASSUME task \in Part, Mangled(c, task, job[c].saved[task]) PROVE file' \in [Part -> Content]
        <5>1. job[c].saved[task] \in Content
          BY <2>1, <4>2 DEF JobRecord
        <5>2. QED BY <4>2, <5>1, TypeMangled
      <4>3. ASSUME task \in Part, NEW x \in {"none", job[c].saved[task]}, file' = [file EXCEPT ![task] = x]
            PROVE  file' \in [Part -> Content]
        <5>1. x \in Content
          BY <2>1, <4>3 DEF JobRecord, Content, Others
        <5>2. QED BY <4>3, <5>1 DEF TypeInv
      <4>4. CASE task # "restart" /\ UndoFile(c, task)
        BY <3>2, <4>1, <4>2, <4>3, <4>4 DEF UndoFile
      <4>5. QED BY <2>11, <4>1, <4>4 DEF UndoStep, UndoRestart
    <3>7. QED BY <2>11, <3>3, <3>4, <3>5, <3>6 DEF UndoStep, TypeInv
  <2>12. CASE UndoEnds(c) BY <2>12, TypeConclude DEF UndoEnds, Fail, TypeInv
  <2>13. QED BY <1>2, <2>2, <2>3, <2>4, <2>5, <2>6, <2>7, <2>8, <2>9, <2>10, <2>11, <2>12 DEF CommandStep
<1>3. CASE AgentExit
  <2>1. ASSUME NEW c \in Cmd PROVE [job[c] EXCEPT !.at = "dead"] \in JobRecord
    <3>1. job[c] \in JobRecord /\ "dead" \in Ended \cup Steps
      BY DEF TypeInv, Ended
    <3>2. ASSUME NEW r \in JobRecord, NEW at \in Ended \cup Steps
          PROVE  [r EXCEPT !.at = at] \in JobRecord
      BY DEF JobRecord
    <3>3. QED BY <3>1, <3>2
  <2>2. job' \in [Cmd -> JobRecord]
    BY <1>3, <2>1 DEF AgentExit, TypeInv
  <2>3. QED BY <1>3, <2>2 DEF AgentExit, TypeInv
<1>4. CASE UNCHANGED vars
  BY <1>4 DEF vars, TypeInv
<1>5. QED BY <1>1, <1>2, <1>3, <1>4 DEF Next

\* The files, the service and every goroutine of a command keep their types.
THEOREM FilesTypeCorrect == Spec => []FilesTypeOK
<1>1. Init => TypeInv
  BY TypeInit
<1>2. TypeInv /\ [Next]_vars => TypeInv'
  BY TypeNext
<1>3. TypeInv => FilesTypeOK
  BY TypeInvIsType
<1>4. QED BY <1>1, <1>2, <1>3, PTL DEF Spec

-----------------------------------------------------------------------------
(* The invariant, for commands that do not overlap.                        *)

Working(c) == job[c].at \notin Ended

\* At most one command is executed, and none once one has reported.
Serial == \A c, d \in Cmd : Working(c) /\ Working(d) => c = d
Quiet  == last # NoCmd => \A c \in Cmd : ~Working(c)

\* Nothing on the node comes from a command that has not started.
Fresh ==
  \A c \in Cmd : job[c].at = "idle" =>
    \A p \in Part :
      /\ file[p] # c
      /\ run[p] # c
      /\ \A d \in Cmd : before[d].files[p] # c /\ before[d].run[p] # c

\* Before its rollback a command has nothing failed behind it.
NoHarm   == [at |-> "none", parts |-> {}]
Clean(c) == job[c].at # "undo" => harm[c] = NoHarm

Unharmed == \A c \in Cmd : job[c].at = "idle" => harm[c] = NoHarm

Startable(f) == f # NoFiles => MayStart(f)

\* The steps of each kind of command, and what it found when it started.
KindOK(c) ==
  /\ job[c].kind = "APPLY_CONFIG" =>
       job[c].withConf /\ job[c].at \notin {"backupConf", "bin", "unit", "reload"}
  /\ job[c].kind = "INSTALL_XRAYR" =>
       /\ job[c].at \notin {"backup", "backupConf"}
       /\ before[c].files["bin"] = "none"
       /\ \A p \in Part : job[c].saved[p] = "none"
  /\ job[c].kind = "UPGRADE_XRAYR" =>
       /\ before[c].files["bin"] # "none"
       /\ job[c].at # "backup" => job[c].saved["bin"] # "none"
  /\ job[c].at = "backupConf" => job[c].withConf
  /\ job[c].at = "conf" => job[c].withConf

\* What c has saved is what was there.
Copies(c) == \A p \in Part : job[c].saved[p] \in {"none", before[c].files[p]}

\* The files c has replaced before a step.
Put(c) ==
  CASE job[c].at \in {"restart", "verify", "reload"} -> Brought(c)
    [] job[c].at = "unit" -> Brought(c) \ {"unit"}
    [] job[c].at = "conf" -> Brought(c) \ {"unit", "conf"}
    [] job[c].at \notin {"restart", "verify", "reload", "unit", "conf"} -> {}

Placed(c) ==
  job[c].at # "undo" =>
    \A p \in Part :
      file[p] = IF p \notin Put(c) THEN before[c].files[p] ELSE IF p = "unit" THEN "rendered" ELSE c

\* What a restart over files f may leave running.
RestartedOn(f, r) == r \in {f, NoFiles} /\ (Whole(f) /\ MayStart(f) => r = f)

OnList(tasks, task) == \E i \in 1 .. Len(tasks) : tasks[i] = task

Left(c, task) == OnList(job[c].undo, task)

\* What is not as it was is still on the list of the rollback, whose last task
\* is the restart if the service has been touched.
Undoing(c) ==
  job[c].at = "undo" =>
    /\ \A p \in Part \ (NotUndone(c) \cup harm[c].parts) :
         file[p] = before[c].files[p] \/ (p \in Tried(c) /\ Left(c, p))
    /\ job[c].kind = "INSTALL_XRAYR" => \A p \in Part : Left(c, p) => p \in Tried(c)
    /\ \/ run = before[c].run /\ ~Left(c, "restart")
       \/ job[c].undo = << >> /\ ("restart" \in harm[c].parts \/ RestartedOn(file, run))
       \/ job[c].undo # << >> /\ job[c].undo[Len(job[c].undo)] = "restart"

Service(c) ==
  /\ job[c].at \notin {"verify", "undo"} => run = before[c].run
  /\ job[c].at = "verify" =>
       run \in {NoFiles, file} \/ (job[c].kind = "APPLY_CONFIG" /\ run = before[c].run)

JobOK(c) ==
  /\ KindOK(c)
  /\ Copies(c)
  /\ Placed(c)
  /\ Clean(c)
  /\ Undoing(c)
  /\ Service(c)
  /\ Startable(before[c].run)

\* What a verdict promises.
FilesBack(c) ==
  \A p \in Part \ (NotUndone(c) \cup harm[c].parts) : file[p] = before[c].files[p]

ServiceBack(c) ==
  "restart" \notin harm[c].parts =>
    /\ run \in {before[c].run, file, NoFiles}
    /\ before[c].run = before[c].files /\ Whole(file) /\ file = before[c].files => run = file

FailureOK(c) == FilesBack(c) /\ ServiceBack(c)

SuccessOK(c) ==
  /\ run # NoFiles
  /\ run = file \/ (job[c].kind = "APPLY_CONFIG" /\ run = before[c].run)
  /\ file["conf"] = IF job[c].withConf THEN c ELSE before[c].files["conf"]
  /\ file["bin"]  = IF job[c].kind = "APPLY_CONFIG" THEN before[c].files["bin"] ELSE c
  /\ file["unit"] = IF job[c].kind = "APPLY_CONFIG" THEN before[c].files["unit"] ELSE "rendered"

Reported ==
  \A c \in Cmd :
    /\ JustEnded(c, "FAILED") => FailureOK(c)
    /\ JustEnded(c, "SUCCESS") => SuccessOK(c)

Inv ==
  /\ TypeInv
  /\ Serial
  /\ Quiet
  /\ Fresh
  /\ Unharmed
  /\ Startable(run)
  /\ \A c \in Cmd : Working(c) => JobOK(c)
  /\ Reported

-----------------------------------------------------------------------------
(* What a step of the command that is executed leaves to be shown.         *)

LEMMA BecomesFields ==
  ASSUME TypeInv, NEW c \in Cmd, NEW at, NEW verdict, NEW saved, NEW undo,
         Becomes(c, at, verdict, saved, undo)
  PROVE  /\ job'[c].kind = job[c].kind
         /\ job'[c].withConf = job[c].withConf
         /\ job'[c].at = at
         /\ job'[c].verdict = verdict
         /\ job'[c].saved = saved
         /\ job'[c].undo = undo
         /\ \A d \in Cmd \ {c} : job'[d] = job[d]
         /\ \A d \in Cmd : job'[d].works = job[d].works
BY DEF TypeInv, Becomes

\* What a file may hold after a step of c: what it held, what c brings, or
\* what c copied.
Possible(c, p) == {file[p], c, "rendered", "none", "damaged", before[c].files[p]}

LEMMA FreshKept ==
  ASSUME Inv, NEW c \in Cmd, Working(c),
         \A d \in Cmd \ {c} : job'[d] = job[d] /\ harm'[d] = harm[d],
         job'[c].at # "idle", before' = before,
         \A p \in Part : file'[p] \in Possible(c, p),
         run' \in {run, NoFiles, file}
  PROVE  Fresh' /\ Unharmed'
<1>1. ASSUME NEW d \in Cmd, job'[d].at = "idle", NEW p \in Part
      PROVE  /\ file'[p] # d
             /\ run'[p] # d
             /\ \A e \in Cmd : before'[e].files[p] # d /\ before'[e].run[p] # d
  <2>1. d # c /\ job[d].at = "idle"
    BY <1>1
  <2>2. /\ file[p] # d /\ run[p] # d
        /\ \A e \in Cmd : before[e].files[p] # d /\ before[e].run[p] # d
    BY <2>1 DEF Inv, Fresh
  <2>3. d \notin {"none", "rendered", "damaged"} /\ NoFiles[p] = "none"
    BY DEF NoFiles, Part, Others
  <2>4. file'[p] # d
    BY <2>1, <2>2, <2>3 DEF Possible
  <2>5. run'[p] # d
    BY <2>2, <2>3
  <2>6. QED BY <2>2, <2>4, <2>5
<1>2. Unharmed'
  BY DEF Inv, Unharmed
<1>3. QED BY <1>1, <1>2 DEF Fresh

LEMMA Continues ==
  ASSUME Inv, TypeInv', NEW c \in Cmd, Working(c), NEW at \in Steps, NEW saved, NEW undo,
         Becomes(c, at, "none", saved, undo), last' = last, before' = before,
         \A d \in Cmd \ {c} : harm'[d] = harm[d],
         \A p \in Part : file'[p] \in Possible(c, p),
         run' \in {run, NoFiles} \/ (run' = file /\ MayStart(file)),
         KindOK(c)', Copies(c)', Placed(c)', Clean(c)', Undoing(c)', Service(c)'
  PROVE  Inv'
<1>1. /\ job'[c].at = at
      /\ \A d \in Cmd \ {c} : job'[d] = job[d]
      /\ \A d \in Cmd : job'[d].works = job[d].works
  BY BecomesFields DEF Inv
<1>2. \A d \in Cmd \ {c} : ~Working(d)
  BY DEF Inv, Serial
<1>3. \A d \in Cmd \ {c} : ~Working(d)'
  BY <1>1, <1>2 DEF Working
<1>4. last = NoCmd
  BY DEF Inv, Quiet
<1>5. Serial' /\ Quiet'
  BY <1>3, <1>4 DEF Serial, Quiet
<1>6. Reported'
  BY <1>4 DEF Reported, JustEnded
<1>7. Fresh' /\ Unharmed'
  BY <1>1, FreshKept DEF Steps
<1>8. Startable(run)'
  <2>1. run' # NoFiles => MayStart(run')
    BY DEF Inv, Startable
  <2>2. QED BY <1>1, <2>1 DEF Startable, MayStart
<1>9. Startable(before[c].run)'
  <2>1. Startable(before[c].run)
    BY DEF Inv, JobOK
  <2>2. QED BY <1>1, <2>1 DEF Startable, MayStart
<1>10. QED BY <1>3, <1>5, <1>6, <1>7, <1>8, <1>9 DEF Inv, JobOK

LEMMA Reports ==
  ASSUME Inv, TypeInv', NEW c \in Cmd, Working(c), NEW verdict \in {"SUCCESS", "FAILED"},
         Conclude(c, verdict), UNCHANGED << run, before >>,
         \A d \in Cmd \ {c} : harm'[d] = harm[d],
         \A p \in Part : file'[p] \in Possible(c, p),
         verdict = "FAILED" => FailureOK(c)',
         verdict = "SUCCESS" => SuccessOK(c)'
  PROVE  Inv'
<1>1. /\ job'[c].at = "done"
      /\ job'[c].verdict = verdict
      /\ \A d \in Cmd \ {c} : job'[d] = job[d]
      /\ \A d \in Cmd : job'[d].works = job[d].works
      /\ last' = c
  BY BecomesFields DEF Inv, Conclude
<1>2. \A d \in Cmd \ {c} : ~Working(d)
  BY DEF Inv, Serial
<1>3. \A d \in Cmd : ~Working(d)'
  BY <1>1, <1>2 DEF Working, Ended
<1>4. Serial' /\ Quiet'
  BY <1>3 DEF Serial, Quiet
<1>5. Reported'
  BY <1>1 DEF Reported, JustEnded
<1>6. Fresh' /\ Unharmed'
  <2>1. job'[c].at # "idle"
    BY <1>1
  <2>2. QED BY <1>1, <2>1, FreshKept
<1>7. Startable(run)'
  BY <1>1 DEF Inv, Startable, MayStart
<1>8. QED BY <1>3, <1>4, <1>5, <1>6, <1>7 DEF Inv

LEMMA Harms ==
  ASSUME TypeInv, NEW c \in Cmd, NEW step, NEW parts, Harm(c, step, parts)
  PROVE  /\ harm'[c].at = step /\ harm'[c].parts = parts
         /\ \A d \in Cmd \ {c} : harm'[d] = harm[d]
BY DEF TypeInv, Harm

LEMMA Mangles ==
  ASSUME TypeInv, NEW c \in Cmd, NEW p \in Part, NEW new, Mangled(c, p, new)
  PROVE  /\ file'[p] \in {file[p], "damaged", "none", new}
         /\ \A q \in Part \ {p} : file'[q] = file[q]
<1>1. PICK left \in {file[p], "damaged", new, "none"} : file' = [file EXCEPT ![p] = left]
  BY DEF Mangled
<1>2. QED BY <1>1 DEF TypeInv

LEMMA ListContents ==
  /\ OnList(<< "bin" >>, "bin")
  /\ OnList(<< "conf", "restart" >>, "conf")
  /\ OnList(<< "bin", "unit", "restart" >>, "bin")
  /\ OnList(<< "bin", "unit", "restart" >>, "unit")
  /\ OnList(<< "bin", "unit", "conf", "restart" >>, "bin")
  /\ OnList(<< "bin", "unit", "conf", "restart" >>, "unit")
  /\ OnList(<< "bin", "unit", "conf", "restart" >>, "conf")
<1>1. OnList(<< "bin" >>, "bin")
  <2>1. 1 \in 1 .. Len(<< "bin" >>) /\ << "bin" >>[1] = "bin"
    OBVIOUS
  <2>2. QED BY <2>1 DEF OnList
<1>2. OnList(<< "conf", "restart" >>, "conf")
  <2>1. 1 \in 1 .. Len(<< "conf", "restart" >>) /\ << "conf", "restart" >>[1] = "conf"
    OBVIOUS
  <2>2. QED BY <2>1 DEF OnList
<1>3. /\ OnList(<< "bin", "unit", "restart" >>, "bin")
      /\ OnList(<< "bin", "unit", "restart" >>, "unit")
  <2> DEFINE tasks == << "bin", "unit", "restart" >>
  <2>1. 1 \in 1 .. Len(tasks) /\ 2 \in 1 .. Len(tasks) /\ tasks[1] = "bin" /\ tasks[2] = "unit"
    OBVIOUS
  <2>2. QED BY <2>1 DEF OnList
<1>4. /\ OnList(<< "bin", "unit", "conf", "restart" >>, "bin")
      /\ OnList(<< "bin", "unit", "conf", "restart" >>, "unit")
      /\ OnList(<< "bin", "unit", "conf", "restart" >>, "conf")
  <2> DEFINE tasks == << "bin", "unit", "conf", "restart" >>
  <2>1. 1 \in 1 .. Len(tasks) /\ 2 \in 1 .. Len(tasks) /\ 3 \in 1 .. Len(tasks)
    OBVIOUS
  <2>2. tasks[1] = "bin" /\ tasks[2] = "unit" /\ tasks[3] = "conf"
    OBVIOUS
  <2>3. QED BY <2>1, <2>2 DEF OnList
<1>5. QED BY <1>1, <1>2, <1>3, <1>4

\* What the lists of INSTALL do not contain.
LEMMA ListBounds ==
  /\ \A t : OnList(<< "bin" >>, t) => t = "bin"
  /\ \A t : OnList(<< "bin", "unit", "restart" >>, t) => t \in {"bin", "unit", "restart"}
<1>1. ASSUME NEW t, OnList(<< "bin" >>, t) PROVE t = "bin"
  <2>1. PICK i \in 1 .. Len(<< "bin" >>) : << "bin" >>[i] = t
    BY <1>1 DEF OnList
  <2>2. i = 1
    BY <2>1
  <2>3. QED BY <2>1, <2>2
<1>2. ASSUME NEW t, OnList(<< "bin", "unit", "restart" >>, t) PROVE t \in {"bin", "unit", "restart"}
  <2> DEFINE tasks == << "bin", "unit", "restart" >>
  <2>1. PICK i \in 1 .. Len(tasks) : tasks[i] = t
    BY <1>2 DEF OnList
  <2>2. i \in 1 .. 3
    BY <2>1
  <2>3. tasks[1] = "bin" /\ tasks[2] = "unit" /\ tasks[3] = "restart"
    OBVIOUS
  <2>4. i = 1 \/ i = 2 \/ i = 3
    BY <2>2
  <2>5. QED BY <2>1, <2>3, <2>4
<1>3. QED BY <1>1, <1>2

LEMMA ListEnds ==
  ASSUME NEW tasks \in RollbackList, tasks # << "bin" >>
  PROVE  tasks # << >> /\ tasks[Len(tasks)] = "restart"
<1>1. CASE tasks = << "conf", "restart" >>
  <2>1. Len(tasks) = 2 /\ tasks[2] = "restart"
    BY <1>1
  <2>2. QED BY <2>1
<1>2. CASE tasks = << "bin", "unit", "restart" >>
  <2>1. Len(tasks) = 3 /\ tasks[3] = "restart"
    BY <1>2
  <2>2. QED BY <2>1
<1>3. CASE tasks = << "bin", "unit", "conf", "restart" >>
  <2>1. Len(tasks) = 4 /\ tasks[4] = "restart"
    BY <1>3
  <2>2. QED BY <2>1
<1>4. QED BY <1>1, <1>2, <1>3 DEF RollbackList

\* A rollback begins: the list must name what has been replaced.
LEMMA RollsBack ==
  ASSUME Inv, TypeInv', NEW c \in Cmd, Working(c),
         job[c].at \in {"conf", "unit", "reload", "restart", "verify"},
         NEW tasks \in RollbackList, Undo(c, tasks), UNCHANGED before,
         NEW parts \in SUBSET Part, Harm(c, job[c].at, parts),
         \A p \in Part : file'[p] = file[p] \/ (p \in parts /\ file'[p] \in Possible(c, p)),
         run' \in {run, NoFiles} \/ (run' = file /\ MayStart(file)),
         \A p \in Put(c) \ parts : p \in NotUndone(c)' \/ OnList(tasks, p),
         job[c].kind = "INSTALL_XRAYR" => \A p \in Part : OnList(tasks, p) => p \in Tried(c)',
         tasks = << "bin" >> => run' = run /\ job[c].at # "verify"
  PROVE  Inv'
<1>1. Becomes(c, "undo", "none", job[c].saved, tasks) /\ last' = last
  BY DEF Undo
<1>2. /\ job'[c].kind = job[c].kind
      /\ job'[c].withConf = job[c].withConf
      /\ job'[c].at = "undo"
      /\ job'[c].saved = job[c].saved
      /\ job'[c].undo = tasks
  BY <1>1, BecomesFields DEF Inv
<1>3. JobOK(c)
  BY DEF Inv
<1>4. /\ harm'[c].at = job[c].at /\ harm'[c].parts = parts
      /\ \A d \in Cmd \ {c} : harm'[d] = harm[d]
  BY Harms DEF Inv
<1>5. KindOK(c)'
  BY <1>2, <1>3 DEF JobOK, KindOK
<1>6. Copies(c)'
  BY <1>2, <1>3 DEF JobOK, Copies
<1>7. Placed(c)' /\ Clean(c)' /\ Service(c)'
  BY <1>2 DEF Placed, Clean, Service
<1>8. \A p \in Part : p \notin Put(c) => file[p] = before[c].files[p]
  BY <1>3 DEF JobOK, Placed
<1>9. Put(c) \subseteq Tried(c)'
  <2>1. Brought(c)' = Brought(c) /\ Brought(c) \subseteq {"bin", "unit", "conf"}
    BY <1>2 DEF Brought
  <2>2. CASE job[c].at = "conf"
    BY <1>4, <2>1, <2>2 DEF Put, Tried
  <2>3. CASE job[c].at # "conf"
    BY <1>4, <2>1, <2>3 DEF Put, Tried
  <2>4. QED BY <2>2, <2>3
<1>10. Undoing(c)'
  <2>1. ASSUME NEW p \in Part, p \notin NotUndone(c)', p \notin parts
        PROVE  file'[p] = before[c].files[p] \/ (p \in Tried(c)' /\ OnList(tasks, p))
    BY <1>8, <1>9, <2>1
  <2>2. CASE tasks = << "bin" >>
    <3>1. run' = before[c].run
      BY <1>3, <2>2 DEF JobOK, Service
    <3>2. ~OnList(tasks, "restart")
      BY <2>2, ListBounds
    <3>3. QED BY <1>2, <1>4, <2>1, <3>1, <3>2 DEF Undoing, Left
  <2>3. CASE tasks # << "bin" >>
    <3>1. tasks # << >> /\ tasks[Len(tasks)] = "restart"
      BY <2>3, ListEnds
    <3>2. QED BY <1>2, <1>4, <2>1, <3>1 DEF Undoing, Left
  <2>4. QED BY <2>2, <2>3
<1>11. \A p \in Part : file'[p] \in Possible(c, p)
  BY DEF Possible
<1>12. QED BY <1>1, <1>4, <1>5, <1>6, <1>7, <1>10, <1>11, Continues DEF Steps

\* A failure before anything was replaced.
LEMMA FailsEarly ==
  ASSUME Inv, TypeInv', NEW c \in Cmd, Working(c), Put(c) = {},
         job[c].at \notin {"undo", "verify"}, Fail(c), UNCHANGED << file, run, before, harm >>
  PROVE  Inv'
<1>1. JobOK(c)
  BY DEF Inv
<1>2. \A p \in Part : file[p] = before[c].files[p]
  BY <1>1 DEF JobOK, Placed
<1>3. run = before[c].run
  BY <1>1 DEF JobOK, Service
<1>4. FailureOK(c)'
  BY <1>2, <1>3 DEF FailureOK, FilesBack, ServiceBack
<1>5. \A p \in Part : file'[p] \in Possible(c, p)
  BY DEF Possible
<1>6. QED BY <1>4, <1>5, Reports DEF Fail

\* A step that replaces nothing and does not begin a rollback.
LEMMA GoesOn ==
  ASSUME Inv, TypeInv', NEW c \in Cmd, Working(c), Put(c) = {},
         job[c].at \notin {"undo", "verify"},
         NEW at \in Steps \ {"undo", "verify"}, NEW saved, Becomes(c, at, "none", saved, << >>),
         last' = last, UNCHANGED << file, run, before, harm >>,
         KindOK(c)', Copies(c)', Put(c)' = {}
  PROVE  Inv'
<1>1. JobOK(c)
  BY DEF Inv
<1>2. job'[c].at = at
  BY BecomesFields DEF Inv
<1>3. Placed(c)'
  BY <1>1, <1>2 DEF JobOK, Placed
<1>4. Service(c)'
  BY <1>1, <1>2 DEF JobOK, Service
<1>5. Undoing(c)' /\ Clean(c)'
  BY <1>1, <1>2 DEF JobOK, Undoing, Clean
<1>6. \A p \in Part : file'[p] \in Possible(c, p)
  BY DEF Possible
<1>7. QED BY <1>3, <1>4, <1>5, <1>6, Continues

-----------------------------------------------------------------------------
(* Every step of a command keeps the invariant.                            *)

LEMMA AtIsWorking ==
  ASSUME NEW c \in Cmd, NEW step \in Steps, At(c, step)
  PROVE  Working(c) /\ job[c].at = step
BY DEF At, Working, Steps, Ended

LEMMA StepFetch ==
  ASSUME Inv, TypeInv', NEW c \in Cmd, Fetch(c)
  PROVE  Inv'
<1>1. Working(c) /\ job[c].at = "fetch"
  BY AtIsWorking DEF Fetch, Steps
<1>2. JobOK(c) /\ job[c].kind \in AllKinds
  BY <1>1 DEF Inv, TypeInv, JobRecord
<1>3. Put(c) = {}
  BY <1>1 DEF Put
<1>4. CASE Fail(c)
  BY <1>1, <1>3, <1>4, FailsEarly DEF Fetch
<1>5. ASSUME NEW at \in {"backup", "backupConf", "bin"}, Goto(c, at),
             job[c].kind = "APPLY_CONFIG" => at = "backup",
             job[c].kind = "INSTALL_XRAYR" => at = "bin",
             job[c].kind = "UPGRADE_XRAYR" => at # "backup",
             at = "backupConf" => job[c].withConf
      PROVE  Inv'
  <2>1. Becomes(c, at, "none", job[c].saved, << >>) /\ last' = last /\ UNCHANGED << file, run, before, harm >>
    BY <1>5 DEF Goto, Fetch
  <2>2. /\ job'[c].kind = job[c].kind /\ job'[c].withConf = job[c].withConf
        /\ job'[c].at = at /\ job'[c].saved = job[c].saved
    BY <2>1, BecomesFields DEF Inv
  <2>3. KindOK(c)'
    BY <1>1, <1>2, <1>5, <2>1, <2>2 DEF JobOK, KindOK
  <2>4. Copies(c)' /\ Put(c)' = {}
    BY <1>2, <1>5, <2>1, <2>2 DEF JobOK, Copies, Put
  <2>5. QED BY <1>1, <1>3, <1>5, <2>1, <2>3, <2>4, GoesOn DEF Steps
<1>6. QED BY <1>2, <1>4, <1>5 DEF Fetch, AllKinds

LEMMA StepBackup ==
  ASSUME Inv, TypeInv', NEW c \in Cmd, Backup(c)
  PROVE  Inv'
<1>1. Working(c) /\ job[c].at = "backup"
  BY AtIsWorking DEF Backup, Steps
<1>2. JobOK(c) /\ job[c].kind \in AllKinds
  BY <1>1 DEF Inv, TypeInv, JobRecord
<1>3. Put(c) = {} /\ UNCHANGED << file, run, before, harm >>
  BY <1>1 DEF Put, Backup
<1>4. CASE Fail(c)
  BY <1>1, <1>3, <1>4, FailsEarly
<1>5. ASSUME NEW at \in {"conf", "fetch"}, NEW saved, Becomes(c, at, "none", saved, << >>), last' = last,
             \A p \in Part : saved[p] \in {job[c].saved[p], file[p]},
             job[c].kind = "APPLY_CONFIG" => at = "conf",
             job[c].kind = "UPGRADE_XRAYR" => at = "fetch" /\ saved["bin"] = file["bin"],
             job[c].kind # "INSTALL_XRAYR"
      PROVE  Inv'
  <2>1. /\ job'[c].kind = job[c].kind /\ job'[c].withConf = job[c].withConf
        /\ job'[c].at = at /\ job'[c].saved = saved
    BY <1>5, BecomesFields DEF Inv
  <2>2. \A p \in Part : file[p] = before[c].files[p]
    BY <1>1, <1>2, <1>3 DEF JobOK, Placed
  <2>3. Copies(c)'
    BY <1>2, <1>3, <1>5, <2>1, <2>2 DEF JobOK, Copies
  <2>4. "bin" \in Part
    BY DEF Part
  <2>5. KindOK(c)'
    <3>1. job[c].kind = "APPLY_CONFIG" => job[c].withConf
      BY <1>2 DEF JobOK, KindOK
    <3>2. job[c].kind = "UPGRADE_XRAYR" => before'[c].files["bin"] # "none" /\ saved["bin"] # "none"
      BY <1>2, <1>3, <1>5, <2>2, <2>4 DEF JobOK, KindOK
    <3>3. CASE job[c].kind = "APPLY_CONFIG"
      BY <1>5, <2>1, <3>1, <3>3 DEF KindOK
    <3>4. CASE job[c].kind = "UPGRADE_XRAYR"
      BY <1>5, <2>1, <3>2, <3>4 DEF KindOK
    <3>5. QED BY <1>2, <1>5, <3>3, <3>4 DEF AllKinds
  <2>6. Put(c)' = {}
    <3>1. at = "conf" => job[c].kind = "APPLY_CONFIG"
      BY <1>2, <1>5 DEF AllKinds
    <3>2. QED BY <1>5, <2>1, <3>1 DEF Put, Brought
  <2>7. QED BY <1>1, <1>3, <1>5, <2>3, <2>5, <2>6, GoesOn DEF Steps
<1>6. job[c].kind # "INSTALL_XRAYR"
  BY <1>1, <1>2 DEF JobOK, KindOK
<1>7. CASE job[c].kind = "APPLY_CONFIG"
  <2>1. CASE Goto(c, "conf")
    BY <1>5, <1>7, <2>1 DEF Goto
  <2>2. CASE Save(c, {"conf"}, "conf")
    <3> DEFINE saved == [p \in Part |-> IF p \in {"conf"} THEN file[p] ELSE job[c].saved[p]]
    <3>1. \A p \in Part : saved[p] \in {job[c].saved[p], file[p]}
      OBVIOUS
    <3>2. Becomes(c, "conf", "none", saved, << >>) /\ last' = last
      BY <2>2 DEF Save
    <3>3. QED BY <1>5, <1>7, <3>1, <3>2
  <2>3. QED BY <1>4, <1>7, <2>1, <2>2 DEF Backup
<1>8. CASE job[c].kind = "UPGRADE_XRAYR"
  <2>1. ASSUME NEW parts, "bin" \in parts, Save(c, parts, "fetch") PROVE Inv'
    <3> DEFINE saved == [p \in Part |-> IF p \in parts THEN file[p] ELSE job[c].saved[p]]
    <3>1. (\A p \in Part : saved[p] \in {job[c].saved[p], file[p]}) /\ saved["bin"] = file["bin"]
      BY <2>1 DEF Part
    <3>2. Becomes(c, "fetch", "none", saved, << >>) /\ last' = last
      BY <2>1 DEF Save
    <3> HIDE DEF saved
    <3>3. QED BY <1>5, <1>8, <3>1, <3>2
  <2>2. QED BY <1>4, <1>8, <2>1 DEF Backup
<1>9. QED BY <1>2, <1>6, <1>7, <1>8 DEF AllKinds

LEMMA StepBackupConf ==
  ASSUME Inv, TypeInv', NEW c \in Cmd, BackupConf(c)
  PROVE  Inv'
<1>1. Working(c) /\ job[c].at = "backupConf"
  BY AtIsWorking DEF BackupConf, Steps
<1>2. JobOK(c) /\ job[c].kind \in AllKinds
  BY <1>1 DEF Inv, TypeInv, JobRecord
<1>3. Put(c) = {} /\ UNCHANGED << file, run, before, harm >>
  BY <1>1 DEF Put, BackupConf
<1>4. job[c].kind = "UPGRADE_XRAYR"
  BY <1>1, <1>2 DEF JobOK, KindOK, AllKinds
<1>5. ASSUME NEW saved, Becomes(c, "bin", "none", saved, << >>), last' = last,
             \A p \in Part : saved[p] \in {job[c].saved[p], file[p]},
             saved["bin"] = job[c].saved["bin"]
      PROVE  Inv'
  <2>1. /\ job'[c].kind = job[c].kind /\ job'[c].withConf = job[c].withConf
        /\ job'[c].at = "bin" /\ job'[c].saved = saved
    BY <1>5, BecomesFields DEF Inv
  <2>2. \A p \in Part : file[p] = before[c].files[p]
    BY <1>1, <1>2, <1>3 DEF JobOK, Placed
  <2>3. Copies(c)'
    BY <1>2, <1>3, <1>5, <2>1, <2>2 DEF JobOK, Copies
  <2>4. KindOK(c)'
    BY <1>1, <1>2, <1>3, <1>4, <1>5, <2>1 DEF JobOK, KindOK
  <2>5. Put(c)' = {}
    BY <2>1 DEF Put
  <2>6. QED BY <1>1, <1>3, <1>5, <2>3, <2>4, <2>5, GoesOn DEF Steps
<1>6. CASE Goto(c, "bin")
  BY <1>5, <1>6 DEF Goto
<1>7. CASE Save(c, {"conf"}, "bin")
  <2> DEFINE saved == [p \in Part |-> IF p \in {"conf"} THEN file[p] ELSE job[c].saved[p]]
  <2>1. (\A p \in Part : saved[p] \in {job[c].saved[p], file[p]}) /\ saved["bin"] = job[c].saved["bin"]
    BY DEF Part
  <2>2. Becomes(c, "bin", "none", saved, << >>) /\ last' = last
    BY <1>7 DEF Save
  <2> HIDE DEF saved
  <2>3. QED BY <1>5, <2>1, <2>2
<1>8. QED BY <1>6, <1>7 DEF BackupConf

\* The files a step puts in place: nothing else on the node changes.
LEMMA Puts ==
  ASSUME Inv, TypeInv', NEW c \in Cmd, Working(c), job[c].at \notin {"undo", "verify", "backup"},
         NEW p \in Part, file' = [file EXCEPT ![p] = IF p = "unit" THEN "rendered" ELSE c],
         NEW at \in {"conf", "unit", "reload", "restart"}, Goto(c, at), UNCHANGED << run, before, harm >>,
         KindOK(c)', Put(c)' = Put(c) \cup {p}
  PROVE  Inv'
<1>1. JobOK(c) /\ file \in [Part -> Content]
  BY DEF Inv, TypeInv
<1>2. Becomes(c, at, "none", job[c].saved, << >>) /\ last' = last
  BY DEF Goto
<1>3. job'[c].at = at /\ job'[c].saved = job[c].saved
  BY <1>2, BecomesFields DEF Inv
<1>4. Copies(c)'
  BY <1>1, <1>3 DEF JobOK, Copies
<1>5. Undoing(c)' /\ Clean(c)' /\ Service(c)'
  BY <1>1, <1>3 DEF JobOK, Undoing, Clean, Service
<1>6. \A q \in Part : file'[q] = IF q # p THEN file[q] ELSE IF p = "unit" THEN "rendered" ELSE c
  BY <1>1
<1>7. Placed(c)'
  <2>1. \A q \in Part :
          file[q] = IF q \notin Put(c) THEN before[c].files[q] ELSE IF q = "unit" THEN "rendered" ELSE c
    BY <1>1 DEF JobOK, Placed
  <2>2. \A q \in Part :
          file'[q] = IF q \notin Put(c)' THEN before[c].files[q] ELSE IF q = "unit" THEN "rendered" ELSE c
    BY <1>6, <2>1
  <2>3. QED BY <2>2 DEF Placed
<1>8. \A q \in Part : file'[q] \in Possible(c, q)
  BY <1>6 DEF Possible
<1>9. at \in Steps
  BY DEF Steps
<1>10. QED BY <1>2, <1>4, <1>5, <1>7, <1>8, <1>9, Continues

LEMMA StepPutBinary ==
  ASSUME Inv, TypeInv', NEW c \in Cmd, PutBinary(c)
  PROVE  Inv'
<1>1. Working(c) /\ job[c].at = "bin"
  BY AtIsWorking DEF PutBinary, Steps
<1>2. JobOK(c) /\ job[c].kind \in AllKinds /\ job[c].withConf \in BOOLEAN
  BY <1>1 DEF Inv, TypeInv, JobRecord
<1>3. Put(c) = {}
  BY <1>1 DEF Put
<1>4. CASE Fail(c) /\ Mangled(c, "bin", c) /\ Harm(c, "bin", {"bin"})
  <2>1. /\ harm'[c].parts = {"bin"}
        /\ \A d \in Cmd \ {c} : harm'[d] = harm[d]
    BY <1>4, Harms DEF Inv
  <2>2. /\ file'["bin"] \in {file["bin"], "damaged", "none", c}
        /\ \A q \in Part \ {"bin"} : file'[q] = file[q]
    BY <1>4, Mangles DEF Inv, Part
  <2>3. \A p \in Part : file[p] = before[c].files[p]
    BY <1>1, <1>2, <1>3 DEF JobOK, Placed
  <2>4. run' = before'[c].run /\ UNCHANGED << run, before >>
    BY <1>1, <1>2 DEF JobOK, Service, PutBinary
  <2>5. FilesBack(c)'
    BY <2>1, <2>2, <2>3, <2>4 DEF FilesBack
  <2>6. ServiceBack(c)'
    BY <2>4 DEF ServiceBack
  <2>7. \A p \in Part : file'[p] \in Possible(c, p)
    BY <2>2 DEF Possible
  <2>8. QED BY <1>1, <1>4, <2>1, <2>4, <2>5, <2>6, <2>7, Reports DEF Fail, FailureOK
<1>5. CASE /\ file' = [file EXCEPT !.bin = c]
           /\ Goto(c, IF job[c].withConf THEN "conf" ELSE "unit")
           /\ UNCHANGED harm
  <2> DEFINE at == IF job[c].withConf THEN "conf" ELSE "unit"
  <2>1. Becomes(c, at, "none", job[c].saved, << >>) /\ UNCHANGED << run, before, harm >>
    BY <1>5 DEF Goto, PutBinary
  <2>2. /\ job'[c].kind = job[c].kind /\ job'[c].withConf = job[c].withConf
        /\ job'[c].at = at /\ job'[c].saved = job[c].saved
    BY <2>1, BecomesFields DEF Inv
  <2>3. job[c].kind # "APPLY_CONFIG"
    BY <1>1, <1>2 DEF JobOK, KindOK
  <2>4. KindOK(c)'
    BY <1>1, <1>2, <2>1, <2>2, <2>3 DEF JobOK, KindOK
  <2>5. Brought(c)' = {"bin", "unit"} \cup (IF job[c].withConf THEN {"conf"} ELSE {})
    BY <2>2, <2>3 DEF Brought
  <2>6. Put(c)' = {"bin"}
    BY <2>2, <2>5 DEF Put
  <2>7. "bin" \in Part /\ file' = [file EXCEPT !["bin"] = IF "bin" = "unit" THEN "rendered" ELSE c]
    BY <1>5 DEF Part
  <2>8. at \in {"conf", "unit", "reload", "restart"}
    OBVIOUS
  <2> HIDE DEF at
  <2>9. Goto(c, at)
    BY <1>5 DEF at
  <2>10. Put(c)' = Put(c) \cup {"bin"}
    BY <1>3, <2>6
  <2>11. QED BY <1>1, <2>1, <2>4, <2>7, <2>8, <2>9, <2>10, Puts
<1>6. QED BY <1>4, <1>5 DEF PutBinary

LEMMA StepPutConf ==
  ASSUME Inv, TypeInv', NEW c \in Cmd, PutConf(c)
  PROVE  Inv'
<1>1. Working(c) /\ job[c].at = "conf"
  BY AtIsWorking DEF PutConf, Steps
<1>2. JobOK(c) /\ job[c].kind \in AllKinds /\ job[c].withConf
  BY <1>1 DEF Inv, TypeInv, JobRecord, JobOK, KindOK
<1>3. Put(c) = Brought(c) \ {"unit", "conf"}
  BY <1>1 DEF Put
<1>4. CASE /\ file' = [file EXCEPT !.conf = c]
           /\ Goto(c, IF job[c].kind = "APPLY_CONFIG" THEN "restart" ELSE "unit")
           /\ UNCHANGED harm
  <2> DEFINE at == IF job[c].kind = "APPLY_CONFIG" THEN "restart" ELSE "unit"
  <2>1. Becomes(c, at, "none", job[c].saved, << >>) /\ UNCHANGED << run, before, harm >>
    BY <1>4 DEF Goto, PutConf
  <2>2. /\ job'[c].kind = job[c].kind /\ job'[c].withConf = job[c].withConf
        /\ job'[c].at = at /\ job'[c].saved = job[c].saved
    BY <2>1, BecomesFields DEF Inv
  <2>3. KindOK(c)'
    BY <1>1, <1>2, <2>1, <2>2 DEF JobOK, KindOK
  <2>4. Brought(c)' = Brought(c)
    BY <2>2 DEF Brought
  <2>5. Put(c)' = Put(c) \cup {"conf"}
    <3>1. CASE job[c].kind = "APPLY_CONFIG"
      BY <1>3, <2>2, <2>4, <3>1 DEF Put, Brought
    <3>2. CASE job[c].kind # "APPLY_CONFIG"
      BY <1>2, <1>3, <2>2, <2>4, <3>2 DEF Put, Brought
    <3>3. QED BY <3>1, <3>2
  <2>6. "conf" \in Part /\ file' = [file EXCEPT !["conf"] = IF "conf" = "unit" THEN "rendered" ELSE c]
    BY <1>4 DEF Part
  <2>7. at \in {"conf", "unit", "reload", "restart"}
    OBVIOUS
  <2> HIDE DEF at
  <2>8. Goto(c, at)
    BY <1>4 DEF at
  <2>9. QED BY <1>1, <2>1, <2>3, <2>5, <2>6, <2>7, <2>8, Puts
<1>5. CASE job[c].kind = "APPLY_CONFIG" /\ Fail(c) /\ UNCHANGED << file, harm >>
  <2>1. Put(c) = {}
    BY <1>3, <1>5 DEF Brought
  <2>2. QED BY <1>1, <1>5, <2>1, FailsEarly DEF PutConf
<1>6. ASSUME NEW tasks \in RollbackList, OnList(tasks, "bin"), Undo(c, tasks),
             Mangled(c, "conf", c), Harm(c, "conf", {"conf"}), job[c].kind # "APPLY_CONFIG",
             job[c].kind = "INSTALL_XRAYR" => tasks = << "bin" >>
      PROVE  Inv'
  <2>1. Put(c) = {"bin"}
    BY <1>3, <1>6 DEF Brought
  <2>2. \A p \in Part : file'[p] = file[p] \/ (p \in {"conf"} /\ file'[p] \in Possible(c, p))
    BY <1>6, Mangles DEF Inv, Part, Possible
  <2>3. harm'[c].at = "conf"
    BY <1>6, Harms DEF Inv
  <2>4. job[c].kind = "INSTALL_XRAYR" => \A p \in Part : OnList(tasks, p) => p \in Tried(c)'
    BY <1>6, <2>3, ListBounds DEF Tried
  <2>5. Harm(c, job[c].at, {"conf"}) /\ {"conf"} \in SUBSET Part /\ UNCHANGED << run, before >>
    BY <1>1, <1>6 DEF Part, PutConf
  <2>6. QED BY <1>1, <1>6, <2>1, <2>2, <2>4, <2>5, RollsBack
<1>7. CASE /\ job[c].kind = "INSTALL_XRAYR" /\ Undo(c, << "bin" >>)
           /\ Mangled(c, "conf", c) /\ Harm(c, "conf", {"conf"})
  BY <1>6, <1>7, ListContents DEF RollbackList
<1>8. CASE /\ job[c].kind = "UPGRADE_XRAYR" /\ Undo(c, << "bin", "unit", "restart" >>)
           /\ Mangled(c, "conf", c) /\ Harm(c, "conf", {"conf"})
  <2>1. << "bin", "unit", "restart" >> \in RollbackList
    BY DEF RollbackList
  <2>2. QED BY <1>6, <1>8, <2>1, ListContents
<1>9. QED BY <1>2, <1>4, <1>5, <1>7, <1>8 DEF PutConf, AllKinds

LEMMA StepPutUnit ==
  ASSUME Inv, TypeInv', NEW c \in Cmd, PutUnit(c)
  PROVE  Inv'
<1>1. Working(c) /\ job[c].at = "unit"
  BY AtIsWorking DEF PutUnit, Steps
<1>2. JobOK(c) /\ job[c].kind # "APPLY_CONFIG"
  BY <1>1 DEF Inv, JobOK, KindOK
<1>3. Put(c) = Brought(c) \ {"unit"}
  BY <1>1 DEF Put
<1>4. CASE file' = [file EXCEPT !.unit = "rendered"] /\ Goto(c, "reload") /\ UNCHANGED harm
  <2>1. Becomes(c, "reload", "none", job[c].saved, << >>) /\ UNCHANGED << run, before, harm >>
    BY <1>4 DEF Goto, PutUnit
  <2>2. /\ job'[c].kind = job[c].kind /\ job'[c].withConf = job[c].withConf
        /\ job'[c].at = "reload" /\ job'[c].saved = job[c].saved
    BY <2>1, BecomesFields DEF Inv
  <2>3. KindOK(c)'
    BY <1>1, <1>2, <2>1, <2>2 DEF JobOK, KindOK
  <2>4. Put(c)' = Put(c) \cup {"unit"}
    BY <1>2, <1>3, <2>2 DEF Put, Brought
  <2>5. "unit" \in Part /\ file' = [file EXCEPT !["unit"] = IF "unit" = "unit" THEN "rendered" ELSE c]
    BY <1>4 DEF Part
  <2>6. QED BY <1>1, <1>4, <2>1, <2>3, <2>4, <2>5, Puts
<1>5. CASE /\ Undo(c, << "bin", "unit", "restart" >>)
           /\ Mangled(c, "unit", "rendered") /\ Harm(c, "unit", {"unit"})
  <2> DEFINE tasks == << "bin", "unit", "restart" >>
  <2>1. tasks \in RollbackList /\ tasks # << "bin" >>
    <3>1. tasks # << "bin" >>
      OBVIOUS
    <3>2. QED BY <3>1 DEF RollbackList
  <2>2. OnList(tasks, "bin") /\ \A t : OnList(tasks, t) => t \in {"bin", "unit", "restart"}
    BY ListContents, ListBounds
  <2>3. harm'[c].at = "unit"
    BY <1>5, Harms DEF Inv
  <2>4. /\ job'[c].kind = job[c].kind /\ job'[c].withConf = job[c].withConf
    BY <1>5, BecomesFields DEF Inv, Undo
  <2>5. Tried(c)' = Brought(c) /\ {"bin", "unit"} \subseteq Brought(c) /\ Brought(c) \subseteq Part
    BY <1>2, <2>3, <2>4 DEF Tried, Brought, Part
  <2>6. "conf" \in Brought(c) => "conf" \in NotUndone(c)'
    BY <2>3, <2>5 DEF NotUndone
  <2> HIDE DEF tasks
  <2>7. \A p \in Put(c) \ {"unit"} : p \in NotUndone(c)' \/ OnList(tasks, p)
    BY <1>3, <2>2, <2>5, <2>6 DEF Part
  <2>8. \A p \in Part : OnList(tasks, p) => p \in Tried(c)'
    BY <2>2, <2>5 DEF Part
  <2>9. \A p \in Part : file'[p] = file[p] \/ (p \in {"unit"} /\ file'[p] \in Possible(c, p))
    BY <1>5, Mangles DEF Inv, Part, Possible
  <2>10. Harm(c, job[c].at, {"unit"}) /\ {"unit"} \in SUBSET Part /\ UNCHANGED << run, before >> /\ Undo(c, tasks)
    BY <1>1, <1>5 DEF Part, PutUnit, tasks
  <2>11. QED BY <1>1, <2>1, <2>7, <2>8, <2>9, <2>10, RollsBack
<1>6. QED BY <1>4, <1>5 DEF PutUnit

\* The full rollback names every file the command brought.
LEMMA RollsBackFully ==
  ASSUME Inv, TypeInv', NEW c \in Cmd, Working(c), job[c].at \in {"reload", "restart", "verify"},
         rollbackFull(c), Harm(c, job[c].at, {}), UNCHANGED << file, before >>,
         run' \in {run, NoFiles} \/ (run' = file /\ MayStart(file))
  PROVE  Inv'
<1>1. JobOK(c) /\ job[c].kind \in AllKinds
  BY DEF Inv, TypeInv, JobRecord
<1>2. Put(c) = Brought(c)
  BY DEF Put
<1>3. harm'[c].at = job[c].at
  BY Harms DEF Inv
<1>4. job'[c].kind = job[c].kind /\ job'[c].withConf = job[c].withConf /\ job'[c].saved = job[c].saved
  BY BecomesFields DEF Inv, rollbackFull, Undo
<1>5. Tried(c)' = Brought(c)
  BY <1>3, <1>4 DEF Tried, Brought
<1>6. ASSUME NEW tasks \in RollbackList, tasks # << "bin" >>, Undo(c, tasks),
             \A p \in Brought(c) : p \in NotUndone(c)' \/ OnList(tasks, p),
             job[c].kind = "INSTALL_XRAYR" => \A p \in Part : OnList(tasks, p) => p \in Brought(c)
      PROVE  Inv'
  <2>1. {} \in SUBSET Part /\ \A p \in Part : file'[p] = file[p]
    OBVIOUS
  <2>2. job[c].at \in {"conf", "unit", "reload", "restart", "verify"}
    OBVIOUS
  <2>3. QED BY <1>2, <1>5, <1>6, <2>1, <2>2, RollsBack
<1>7. CASE job[c].kind = "APPLY_CONFIG"
  <2> DEFINE tasks == << "conf", "restart" >>
  <2>1. tasks \in RollbackList /\ tasks # << "bin" >> /\ OnList(tasks, "conf")
    <3>1. tasks # << "bin" >>
      OBVIOUS
    <3>2. QED BY <3>1, ListContents DEF RollbackList
  <2>2. Undo(c, tasks)
    BY <1>7 DEF rollbackFull
  <2>3. Brought(c) = {"conf"}
    BY <1>7 DEF Brought
  <2> HIDE DEF tasks
  <2>4. QED BY <1>6, <1>7, <2>1, <2>2, <2>3
<1>8. CASE job[c].kind = "INSTALL_XRAYR"
  <2> DEFINE tasks == << "bin", "unit", "restart" >>
  <2>1. /\ tasks \in RollbackList /\ tasks # << "bin" >> /\ OnList(tasks, "bin") /\ OnList(tasks, "unit")
        /\ \A t : OnList(tasks, t) => t \in {"bin", "unit", "restart"}
    <3>1. tasks # << "bin" >>
      OBVIOUS
    <3>2. QED BY <3>1, ListContents, ListBounds DEF RollbackList
  <2>2. Undo(c, tasks)
    BY <1>8 DEF rollbackFull
  <2>3. Brought(c) \subseteq Part /\ {"bin", "unit"} \subseteq Brought(c)
    BY <1>8 DEF Brought, Part
  <2>4. "conf" \in Brought(c) => "conf" \in NotUndone(c)'
    <3>1. job'[c].saved["conf"] = "none"
      BY <1>1, <1>4, <1>8 DEF JobOK, KindOK, Part
    <3>2. QED BY <1>5, <3>1 DEF NotUndone
  <2> HIDE DEF tasks
  <2>5. \A p \in Brought(c) : p \in NotUndone(c)' \/ OnList(tasks, p)
    BY <2>1, <2>3, <2>4 DEF Part
  <2>6. \A p \in Part : OnList(tasks, p) => p \in Brought(c)
    BY <2>1, <2>3 DEF Part
  <2>7. QED BY <1>6, <2>1, <2>2, <2>5, <2>6
<1>9. CASE job[c].kind = "UPGRADE_XRAYR"
  <2> DEFINE tasks == << "bin", "unit", "conf", "restart" >>
  <2>1. /\ tasks \in RollbackList /\ tasks # << "bin" >>
        /\ OnList(tasks, "bin") /\ OnList(tasks, "unit") /\ OnList(tasks, "conf")
    <3>1. tasks # << "bin" >>
      OBVIOUS
    <3>2. QED BY <3>1, ListContents DEF RollbackList
  <2>2. Undo(c, tasks)
    BY <1>9 DEF rollbackFull
  <2>3. Brought(c) \subseteq {"bin", "unit", "conf"}
    BY DEF Brought
  <2> HIDE DEF tasks
  <2>4. QED BY <1>6, <1>9, <2>1, <2>2, <2>3
<1>10. QED BY <1>1, <1>7, <1>8, <1>9 DEF AllKinds

LEMMA StepReload ==
  ASSUME Inv, TypeInv', NEW c \in Cmd, Reload(c)
  PROVE  Inv'
<1>1. Working(c) /\ job[c].at = "reload"
  BY AtIsWorking DEF Reload, Steps
<1>2. JobOK(c)
  BY <1>1 DEF Inv
<1>3. CASE rollbackFull(c) /\ Harm(c, "reload", {})
  BY <1>1, <1>3, RollsBackFully DEF Reload
<1>4. CASE Goto(c, "restart") /\ UNCHANGED harm
  <2>1. Becomes(c, "restart", "none", job[c].saved, << >>) /\ last' = last /\ UNCHANGED << file, run, before >>
    BY <1>4 DEF Goto, Reload
  <2>2. /\ job'[c].kind = job[c].kind /\ job'[c].withConf = job[c].withConf
        /\ job'[c].at = "restart" /\ job'[c].saved = job[c].saved
    BY <2>1, BecomesFields DEF Inv
  <2>3. KindOK(c)' /\ Copies(c)'
    BY <1>1, <1>2, <2>1, <2>2 DEF JobOK, KindOK, Copies
  <2>4. Undoing(c)' /\ Clean(c)' /\ Service(c)'
    BY <1>1, <1>2, <1>4, <2>1, <2>2 DEF JobOK, Undoing, Clean, Service
  <2>5. Put(c)' = Put(c)
    BY <1>1, <2>2 DEF Put, Brought
  <2>6. Placed(c)'
    BY <1>1, <1>2, <2>1, <2>2, <2>5 DEF JobOK, Placed
  <2>7. QED BY <1>1, <1>4, <2>1, <2>3, <2>4, <2>6, Continues DEF Steps, Possible
<1>5. QED BY <1>3, <1>4 DEF Reload

LEMMA StepRestartService ==
  ASSUME Inv, TypeInv', NEW c \in Cmd, RestartService(c)
  PROVE  Inv'
<1>1. Working(c) /\ job[c].at = "restart"
  BY AtIsWorking DEF RestartService, Steps
<1>2. JobOK(c)
  BY <1>1 DEF Inv
<1>3. CASE rollbackFull(c) /\ Harm(c, "restart", {}) /\ RestartFails
  BY <1>1, <1>3, RollsBackFully DEF RestartService, RestartFails
<1>4. CASE Goto(c, "verify") /\ UNCHANGED harm /\ (Restart \/ (job[c].kind = "APPLY_CONFIG" /\ RestartFails))
  <2>1. Becomes(c, "verify", "none", job[c].saved, << >>) /\ last' = last /\ UNCHANGED << file, before >>
    BY <1>4 DEF Goto, RestartService
  <2>2. /\ job'[c].kind = job[c].kind /\ job'[c].withConf = job[c].withConf
        /\ job'[c].at = "verify" /\ job'[c].saved = job[c].saved
    BY <2>1, BecomesFields DEF Inv
  <2>3. KindOK(c)' /\ Copies(c)'
    BY <1>1, <1>2, <2>1, <2>2 DEF JobOK, KindOK, Copies
  <2>4. Undoing(c)' /\ Clean(c)'
    BY <1>1, <1>2, <1>4, <2>2 DEF JobOK, Undoing, Clean
  <2>5. Service(c)'
    <3>1. run = before[c].run
      BY <1>1, <1>2 DEF JobOK, Service
    <3>2. run' \in {NoFiles, file} \/ (job[c].kind = "APPLY_CONFIG" /\ run' = before[c].run)
      BY <1>4, <3>1 DEF Restart, RestartFails
    <3>3. QED BY <2>1, <2>2, <3>2 DEF Service
  <2>6. Put(c)' = Put(c)
    BY <1>1, <2>2 DEF Put, Brought
  <2>7. Placed(c)'
    BY <1>1, <1>2, <2>1, <2>2, <2>6 DEF JobOK, Placed
  <2>8. run' \in {run, NoFiles} \/ (run' = file /\ MayStart(file))
    BY <1>4 DEF Restart, RestartFails
  <2>9. QED BY <1>1, <1>4, <2>1, <2>3, <2>4, <2>5, <2>7, <2>8, Continues DEF Steps, Possible
<1>5. QED BY <1>3, <1>4 DEF RestartService

LEMMA StepVerify ==
  ASSUME Inv, TypeInv', NEW c \in Cmd, Verify(c)
  PROVE  Inv'
<1>1. Working(c) /\ job[c].at = "verify"
  BY AtIsWorking DEF Verify, Steps
<1>2. JobOK(c)
  BY <1>1 DEF Inv
<1>3. CASE rollbackFull(c) /\ Harm(c, "verify", {})
  BY <1>1, <1>3, RollsBackFully DEF Verify
<1>4. CASE run # NoFiles /\ Conclude(c, "SUCCESS") /\ UNCHANGED harm
  <2>1. Put(c) = Brought(c)
    BY <1>1 DEF Put
  <2>2. \A p \in Part :
          file[p] = IF p \notin Brought(c) THEN before[c].files[p] ELSE IF p = "unit" THEN "rendered" ELSE c
    BY <1>1, <1>2, <2>1 DEF JobOK, Placed
  <2>3. job[c].kind = "APPLY_CONFIG" => job[c].withConf
    BY <1>2 DEF JobOK, KindOK
  <2>4. run = file \/ (job[c].kind = "APPLY_CONFIG" /\ run = before[c].run)
    BY <1>1, <1>2, <1>4 DEF JobOK, Service
  <2>5. SuccessOK(c)
    BY <1>4, <2>2, <2>3, <2>4 DEF SuccessOK, Brought, Part
  <2>6. job'[c].kind = job[c].kind /\ job'[c].withConf = job[c].withConf /\ UNCHANGED << file, run, before >>
    BY <1>4, BecomesFields DEF Inv, Conclude, Verify
  <2>7. SuccessOK(c)'
    BY <2>5, <2>6 DEF SuccessOK
  <2>8. QED BY <1>1, <1>4, <2>6, <2>7, Reports DEF Possible
<1>5. QED BY <1>3, <1>4 DEF Verify, active

LEMMA ListTail ==
  ASSUME NEW T, NEW tasks \in Seq(T), tasks # << >>
  PROVE  /\ \A t : OnList(tasks, t) => t = Head(tasks) \/ OnList(Tail(tasks), t)
         /\ \A t : OnList(Tail(tasks), t) => OnList(tasks, t)
         /\ OnList(tasks, Head(tasks))
         /\ Tail(tasks) = << >> => tasks[Len(tasks)] = Head(tasks)
         /\ Tail(tasks) # << >> => Tail(tasks)[Len(Tail(tasks))] = tasks[Len(tasks)]
<1>1. /\ Len(tasks) \in Nat \ {0} /\ Head(tasks) = tasks[1]
      /\ Tail(tasks) \in Seq(T) /\ Len(Tail(tasks)) = Len(tasks) - 1
      /\ \A i \in 1 .. Len(tasks) - 1 : Tail(tasks)[i] = tasks[i + 1]
  OBVIOUS
<1>2. ASSUME NEW t, OnList(tasks, t) PROVE t = Head(tasks) \/ OnList(Tail(tasks), t)
  <2>1. PICK i \in 1 .. Len(tasks) : tasks[i] = t
    BY <1>2 DEF OnList
  <2>2. CASE i = 1
    BY <1>1, <2>1, <2>2
  <2>3. CASE i # 1
    <3>1. i - 1 \in 1 .. Len(Tail(tasks)) /\ Tail(tasks)[i - 1] = t
      BY <1>1, <2>1, <2>3
    <3>2. QED BY <3>1 DEF OnList
  <2>4. QED BY <2>2, <2>3
<1>3. ASSUME NEW t, OnList(Tail(tasks), t) PROVE OnList(tasks, t)
  <2>1. PICK i \in 1 .. Len(Tail(tasks)) : Tail(tasks)[i] = t
    BY <1>3 DEF OnList
  <2>2. i + 1 \in 1 .. Len(tasks) /\ tasks[i + 1] = t
    BY <1>1, <2>1
  <2>3. QED BY <2>2 DEF OnList
<1>4. OnList(tasks, Head(tasks))
  <2>1. 1 \in 1 .. Len(tasks)
    BY <1>1
  <2>2. QED BY <1>1, <2>1 DEF OnList
<1>5. Tail(tasks) = << >> => Len(tasks) = 1
  <2>1. Len(<< >>) = 0
    OBVIOUS
  <2>2. Len(tasks) \in Nat /\ Len(Tail(tasks)) = Len(tasks) - 1
    BY <1>1
  <2>3. ASSUME NEW n \in Nat, n - 1 = 0 PROVE n = 1
    BY <2>3
  <2>4. QED BY <2>1, <2>2, <2>3
<1>6. Tail(tasks) # << >> => Len(tasks) - 1 \in 1 .. Len(tasks) - 1
  BY <1>1
<1>7. QED BY <1>1, <1>2, <1>3, <1>4, <1>5, <1>6

LEMMA StepUndoStep ==
  ASSUME Inv, TypeInv', NEW c \in Cmd, UndoStep(c)
  PROVE  Inv'
<1> DEFINE head == Head(job[c].undo)
           rest == Tail(job[c].undo)
<1>1. Working(c) /\ job[c].at = "undo" /\ job[c].undo # << >>
  BY AtIsWorking DEF UndoStep, Steps
<1>2. JobOK(c) /\ job[c].kind \in AllKinds /\ job[c].undo \in Seq(Part \cup {"restart"})
  BY <1>1 DEF Inv, TypeInv, JobRecord
<1>3. Becomes(c, "undo", "none", job[c].saved, rest) /\ last' = last /\ before' = before
  BY DEF UndoStep, Undo
<1>4. /\ job'[c].kind = job[c].kind /\ job'[c].withConf = job[c].withConf
      /\ job'[c].at = "undo" /\ job'[c].saved = job[c].saved /\ job'[c].undo = rest
      /\ \A d \in Cmd : job'[d].works = job[d].works
  BY <1>3, BecomesFields DEF Inv
<1>5. /\ head \in Part \cup {"restart"}
      /\ \A t : OnList(job[c].undo, t) => t = head \/ OnList(rest, t)
      /\ \A t : OnList(rest, t) => OnList(job[c].undo, t)
      /\ OnList(job[c].undo, head)
      /\ rest = << >> => job[c].undo[Len(job[c].undo)] = head
      /\ rest # << >> => rest[Len(rest)] = job[c].undo[Len(job[c].undo)]
  BY <1>1, <1>2, ListTail
<1>6. KindOK(c)' /\ Copies(c)' /\ Placed(c)' /\ Clean(c)' /\ Service(c)'
  BY <1>1, <1>2, <1>3, <1>4 DEF JobOK, KindOK, Copies, Placed, Clean, Service
<1>7. /\ \A p \in Part \ (NotUndone(c) \cup harm[c].parts) :
           file[p] = before[c].files[p] \/ (p \in Tried(c) /\ OnList(job[c].undo, p))
      /\ job[c].kind = "INSTALL_XRAYR" => \A p \in Part : OnList(job[c].undo, p) => p \in Tried(c)
      /\ \/ run = before[c].run /\ ~OnList(job[c].undo, "restart")
         \/ job[c].undo[Len(job[c].undo)] = "restart"
  BY <1>1, <1>2 DEF JobOK, Undoing, Left
<1> HIDE DEF head, rest
\* Whatever the task, and whether it fails, harm keeps its step.
<1>8. /\ harm' = harm \/ Spoil(c, head) \/ Repair(c, head)
      /\ head = "restart" => UndoRestart(c)
      /\ head # "restart" => UndoFile(c, head)
  BY DEF UndoStep, UndoRestart, UndoFile, head
<1>9. /\ harm'[c].at = harm[c].at
      /\ harm'[c].parts \in {harm[c].parts, harm[c].parts \cup {head}, harm[c].parts \ {head}}
      /\ Spoil(c, head) => head \in harm'[c].parts
      /\ \A d \in Cmd \ {c} : harm'[d] = harm[d]
  <2>1. ASSUME NEW parts, Harm(c, harm[c].at, parts)
        PROVE  harm'[c].at = harm[c].at /\ harm'[c].parts = parts /\ \A d \in Cmd \ {c} : harm'[d] = harm[d]
    BY <2>1, Harms DEF Inv
  <2>2. QED BY <1>8, <2>1 DEF Spoil, Repair
<1>10. NotUndone(c)' = NotUndone(c) /\ Tried(c)' = Tried(c)
  BY <1>4, <1>9 DEF NotUndone, Tried, Brought
<1>11. job[c].kind = "INSTALL_XRAYR" => \A p \in Part : OnList(rest, p) => p \in Tried(c)
  BY <1>5, <1>7
<1>12. CASE head = "restart"
  <2>1. UNCHANGED file /\ head \notin Part
    BY <1>8, <1>12 DEF UndoRestart, Part
  <2>2. \A p \in Part \ (NotUndone(c) \cup harm'[c].parts) :
          file[p] = before[c].files[p] \/ (p \in Tried(c) /\ OnList(rest, p))
    BY <1>5, <1>7, <1>9, <2>1
  <2>3. head \in harm'[c].parts \/ RestartedOn(file, run)'
    <3>1. CASE Spoil(c, head)
      BY <1>9, <3>1
    <3>2. CASE Restart
      <4>1. RestartedOn(file, run')
        BY <3>2 DEF Restart, RestartedOn
      <4>2. QED BY <1>4, <2>1, <4>1 DEF RestartedOn, MayStart, Whole
    <3>3. QED BY <1>8, <1>12, <3>1, <3>2 DEF UndoRestart
  <2>4. job[c].undo[Len(job[c].undo)] = "restart"
    BY <1>5, <1>7, <1>12
  <2>5. \/ rest = << >> /\ ("restart" \in harm'[c].parts \/ RestartedOn(file, run)')
        \/ rest # << >> /\ rest[Len(rest)] = "restart"
    BY <1>5, <1>12, <2>3, <2>4
  <2>6. Undoing(c)'
    BY <1>3, <1>4, <1>10, <1>11, <2>1, <2>2, <2>5 DEF Undoing, Left
  <2>7. run' \in {run, NoFiles} \/ (run' = file /\ MayStart(file))
    BY <1>8, <1>12 DEF UndoRestart, Restart, RestartFails
  <2>8. QED BY <1>1, <1>3, <1>6, <1>9, <2>1, <2>6, <2>7, Continues DEF Steps, Possible
<1>13. CASE head \in Part
  <2>1. UndoFile(c, head) /\ UNCHANGED run
    BY <1>8, <1>13 DEF Part, UndoFile
  <2>2. job[c].saved[head] \in {"none", before[c].files[head]}
    BY <1>2, <1>13 DEF JobOK, Copies
  <2>3. /\ \A q \in Part \ {head} : file'[q] = file[q]
        /\ file'[head] \in {file[head], "damaged", "none", before[c].files[head]}
        /\ \/ job[c].kind # "INSTALL_XRAYR" /\ job[c].saved[head] = "none" /\ file' = file /\ harm' = harm
           \/ head \in harm'[c].parts
           \/ job[c].kind # "INSTALL_XRAYR" /\ file'[head] = before[c].files[head]
           \/ job[c].kind = "INSTALL_XRAYR" /\ file'[head] = "none"
    <3>1. file \in [Part -> Content]
      BY DEF Inv, TypeInv
    <3>2. CASE job[c].kind # "INSTALL_XRAYR" /\ job[c].saved[head] = "none" /\ UNCHANGED << file, harm >>
      BY <3>2
    <3>3. CASE Mangled(c, head, job[c].saved[head]) /\ Spoil(c, head)
      BY <1>9, <1>13, <2>2, <3>3, Mangles DEF Inv
    <3>4. CASE /\ job[c].kind # "INSTALL_XRAYR" /\ job[c].saved[head] # "none"
               /\ file' = [file EXCEPT ![head] = job[c].saved[head]]
      BY <1>13, <2>2, <3>1, <3>4
    <3>5. CASE UNCHANGED file /\ Spoil(c, head)
      BY <1>9, <3>5
    <3>6. CASE job[c].kind = "INSTALL_XRAYR" /\ file' = [file EXCEPT ![head] = "none"]
      BY <1>13, <3>1, <3>6
    <3>7. QED BY <2>1, <3>2, <3>3, <3>4, <3>5, <3>6 DEF UndoFile
  <2>4. ASSUME NEW p \in Part, p \notin NotUndone(c), p \notin harm'[c].parts
        PROVE  file'[p] = before[c].files[p] \/ (p \in Tried(c) /\ OnList(rest, p))
    <3>1. CASE p # head
      BY <1>5, <1>7, <1>9, <2>3, <2>4, <3>1
    <3>2. CASE p = head
      <4>1. CASE job[c].kind # "INSTALL_XRAYR" /\ job[c].saved[head] = "none" /\ file' = file /\ harm' = harm
        <5>1. p \notin Tried(c)
          BY <2>4, <3>2, <4>1 DEF NotUndone
        <5>2. QED BY <1>7, <2>4, <4>1, <5>1
      <4>2. CASE job[c].kind = "INSTALL_XRAYR" /\ file'[head] = "none"
        <5>1. p \in Tried(c)
          BY <1>5, <1>7, <3>2, <4>2
        <5>2. job[c].saved[p] = "none" /\ before[c].files["bin"] = "none"
          BY <1>2, <4>2 DEF JobOK, KindOK
        <5>3. p = "bin"
          BY <2>4, <5>1, <5>2 DEF NotUndone
        <5>4. QED BY <3>2, <4>2, <5>2, <5>3
      <4>3. QED BY <2>3, <2>4, <3>2, <4>1, <4>2
    <3>3. QED BY <3>1, <3>2
  <2>5. \/ run' = before[c].run /\ ~OnList(rest, "restart")
        \/ rest # << >> /\ rest[Len(rest)] = "restart"
    BY <1>5, <1>7, <1>13, <2>1 DEF Part
  <2>6. Undoing(c)'
    BY <1>3, <1>4, <1>10, <1>11, <2>4, <2>5 DEF Undoing, Left
  <2>7. \A p \in Part : file'[p] \in Possible(c, p)
    BY <2>3 DEF Possible
  <2>8. QED BY <1>1, <1>3, <1>6, <1>9, <2>1, <2>6, <2>7, Continues DEF Steps
<1>14. QED BY <1>5, <1>12, <1>13

LEMMA StepUndoEnds ==
  ASSUME Inv, TypeInv', NEW c \in Cmd, UndoEnds(c)
  PROVE  Inv'
<1>1. Working(c) /\ job[c].at = "undo" /\ job[c].undo = << >>
  BY AtIsWorking DEF UndoEnds, Steps
<1>2. JobOK(c)
  BY <1>1 DEF Inv
<1>3. \A t : ~Left(c, t)
  BY <1>1 DEF Left, OnList
<1>4. FilesBack(c)
  BY <1>1, <1>2, <1>3 DEF JobOK, Undoing, FilesBack
<1>5. ServiceBack(c)
  <2>1. \/ run = before[c].run
        \/ "restart" \in harm[c].parts
        \/ RestartedOn(file, run)
    BY <1>1, <1>2 DEF JobOK, Undoing
  <2>2. ASSUME before[c].run = before[c].files, Whole(file), file = before[c].files PROVE MayStart(file)
    <3>1. file # NoFiles
      BY <2>2 DEF Whole, NoFiles, Part
    <3>2. QED BY <1>2, <2>2, <3>1 DEF JobOK, Startable
  <2>3. QED BY <2>1, <2>2 DEF ServiceBack, RestartedOn
<1>6. /\ job'[c].kind = job[c].kind /\ job'[c].withConf = job[c].withConf /\ job'[c].saved = job[c].saved
      /\ UNCHANGED << file, run, before, harm >>
  BY BecomesFields DEF Inv, UndoEnds, Fail, Conclude
<1>7. NotUndone(c)' = NotUndone(c)
  BY <1>6 DEF NotUndone, Tried, Brought
<1>8. FailureOK(c)'
  BY <1>4, <1>5, <1>6, <1>7 DEF FailureOK, FilesBack, ServiceBack, Whole
<1>9. QED BY <1>1, <1>6, <1>8, Reports DEF UndoEnds, Fail, Possible

-----------------------------------------------------------------------------
(* The start of a command, the end of the agent, and the theorems.         *)

LEMMA InvInit == Init => Inv
<1> SUFFICES ASSUME Init PROVE Inv
  OBVIOUS
<1>1. TypeInv
  BY TypeInit
<1>2. \A c \in Cmd : job[c].at = "idle" /\ ~Working(c)
  BY DEF Init, Working, Ended
<1>3. \A p \in Part : file[p] \in {"none", "old"} /\ run[p] \in {"none", "old"}
  BY DEF Init, NoFiles, Part
<1>4. Fresh
  BY <1>3 DEF Fresh, Init, Others
<1>5. Startable(run)
  <2>1. run # NoFiles => run = file /\ Whole(file)
    BY DEF Init, active
  <2>2. \A c \in Cmd : job[c].works
    BY DEF Init
  <2>3. QED BY <2>1, <2>2 DEF Startable, MayStart, Whole, Part
<1>6. last = NoCmd /\ Unharmed
  BY DEF Init, Unharmed, NoHarm
<1>7. QED BY <1>1, <1>2, <1>4, <1>5, <1>6 DEF Inv, Serial, Quiet, Reported, JustEnded

\* Until it puts something, a command does not touch the node: in particular
\* one that is refused.
LEMMA StepBegin ==
  ASSUME Inv, TypeInv', ~Overlap, NEW c \in Cmd, NEW k \in Kinds,
         NEW withConf \in BOOLEAN, NEW works \in BOOLEAN, Begin(c, k, withConf, works)
  PROVE  Inv'
<1> DEFINE accepted == \/ k = "APPLY_CONFIG"
                       \/ k = "INSTALL_XRAYR" /\ file["bin"] = "none"
                       \/ k = "UPGRADE_XRAYR" /\ file["bin"] # "none"
           at       == IF ~accepted THEN "done" ELSE IF k = "UPGRADE_XRAYR" THEN "backup" ELSE "fetch"
           verdict  == IF accepted THEN "none" ELSE "FAILED"
<1>1. /\ job[c].at = "idle" /\ \A d \in Cmd : ~Working(d)
      /\ UNCHANGED << file, run, harm >> /\ (k = "APPLY_CONFIG" => withConf)
  BY DEF Begin, At, Working
<1>2. /\ job' = [job EXCEPT ![c] = [kind |-> k, withConf |-> withConf, works |-> works, saved |-> NoFiles,
                                    undo |-> << >>, at |-> at, verdict |-> verdict]]
      /\ last' = IF accepted THEN NoCmd ELSE c
  BY DEF Begin
<1>3. before' = [before EXCEPT ![c] = [files |-> file, run |-> run]]
  BY DEF Begin
<1>4. /\ job'[c].kind = k /\ job'[c].withConf = withConf /\ job'[c].at = at
      /\ job'[c].verdict = verdict /\ job'[c].saved = NoFiles /\ job'[c].undo = << >>
      /\ \A d \in Cmd \ {c} : job'[d] = job[d]
  BY <1>2 DEF Inv, TypeInv
<1>5. /\ before'[c].files = file /\ before'[c].run = run
      /\ \A d \in Cmd \ {c} : before'[d] = before[d]
  BY <1>3 DEF Inv, TypeInv
<1>6. at \in {"done", "backup", "fetch"}
  OBVIOUS
<1>7. \A d \in Cmd \ {c} : ~Working(d)'
  BY <1>1, <1>4 DEF Working
<1>8. Serial' /\ Quiet'
  <2>1. last' # NoCmd => ~Working(c)'
    BY <1>2, <1>4 DEF Working, Ended
  <2>2. QED BY <1>7, <2>1 DEF Serial, Quiet
<1>9. Fresh' /\ Unharmed'
  <2>1. job'[c].at # "idle"
    BY <1>4, <1>6
  <2>2. Fresh'
    BY <1>1, <1>4, <1>5, <2>1 DEF Inv, Fresh
  <2>3. QED BY <1>1, <1>4, <2>1, <2>2 DEF Inv, Unharmed
<1>10. Startable(run)'
  <2>1. run # NoFiles => MayStart(run)
    BY DEF Inv, Startable
  <2>2. run["bin"] # c /\ run["conf"] # c
    BY <1>1 DEF Inv, Fresh, Part
  <2>3. \A d \in Cmd \ {c} : job'[d].works = job[d].works
    BY <1>4
  <2>4. QED BY <1>1, <2>1, <2>2, <2>3 DEF Startable, MayStart
<1>11. \A p \in Part : NoFiles[p] = "none"
  BY DEF NoFiles, Part
<1>12. Working(c)' => JobOK(c)'
  <2> SUFFICES ASSUME Working(c)' PROVE JobOK(c)'
    OBVIOUS
  <2>1. accepted /\ at = IF k = "UPGRADE_XRAYR" THEN "backup" ELSE "fetch"
    BY <1>4 DEF Working, Ended
  <2>2. KindOK(c)'
    BY <1>1, <1>4, <1>5, <1>11, <2>1 DEF KindOK
  <2>3. Copies(c)'
    BY <1>4, <1>11 DEF Copies
  <2>4. Put(c)' = {}
    BY <1>4, <2>1 DEF Put
  <2>5. Placed(c)' /\ Undoing(c)' /\ Service(c)'
    BY <1>1, <1>4, <1>5, <2>1, <2>4 DEF Placed, Undoing, Service
  <2>6. Clean(c)'
    BY <1>1 DEF Inv, Unharmed, Clean
  <2>7. Startable(before[c].run)'
    BY <1>1, <1>5, <1>10 DEF Startable, MayStart
  <2>8. QED BY <2>2, <2>3, <2>5, <2>6, <2>7 DEF JobOK
<1>13. Reported'
  <2>1. JustEnded(c, "FAILED")' => FailureOK(c)'
    BY <1>1, <1>5 DEF FailureOK, FilesBack, ServiceBack
  <2>2. ~JustEnded(c, "SUCCESS")'
    BY <1>4 DEF JustEnded
  <2>3. \A d \in Cmd \ {c} : last' # d
    BY <1>2
  <2>4. QED BY <2>1, <2>2, <2>3 DEF Reported, JustEnded
<1>14. QED BY <1>7, <1>8, <1>9, <1>10, <1>12, <1>13 DEF Inv

LEMMA StepExit ==
  ASSUME Inv, TypeInv', AgentExit
  PROVE  Inv'
<1>1. UNCHANGED << file, run, before, harm, last >>
  BY DEF AgentExit
<1>2. ASSUME NEW c \in Cmd
      PROVE  /\ ~Working(c)'
             /\ ~Working(c) => job'[c] = job[c]
             /\ job'[c].works = job[c].works
             /\ job'[c].at = "idle" => job[c].at = "idle"
  <2>1. job' = [d \in Cmd |-> IF job[d].at \in Ended THEN job[d] ELSE [job[d] EXCEPT !.at = "dead"]]
    BY DEF AgentExit
  <2>2. CASE job[c].at \in Ended
    BY <2>1, <2>2 DEF Working
  <2>3. CASE job[c].at \notin Ended
    <3>1. job'[c] = [job[c] EXCEPT !.at = "dead"] /\ job[c] \in JobRecord
      BY <2>1, <2>3 DEF Inv, TypeInv
    <3>2. job'[c].at = "dead" /\ job'[c].works = job[c].works
      BY <3>1 DEF JobRecord
    <3>3. QED BY <2>3, <3>2 DEF Working, Ended
  <2>4. QED BY <2>2, <2>3
<1>3. Serial' /\ Quiet'
  BY <1>2 DEF Serial, Quiet
<1>4. Fresh' /\ Unharmed'
  BY <1>1, <1>2 DEF Inv, Fresh, Unharmed
<1>5. Startable(run)'
  BY <1>1, <1>2 DEF Inv, Startable, MayStart
<1>6. Reported'
  <2>1. SUFFICES ASSUME NEW c \in Cmd, last = c
                 PROVE  /\ JustEnded(c, "FAILED")' => FailureOK(c)'
                        /\ JustEnded(c, "SUCCESS")' => SuccessOK(c)'
    BY <1>1 DEF Reported, JustEnded
  <2>2. ~Working(c)
    BY <2>1 DEF Inv, Quiet
  <2>3. job'[c] = job[c]
    BY <1>2, <2>2
  <2>4. NotUndone(c)' = NotUndone(c)
    BY <1>1, <2>3 DEF NotUndone, Tried, Brought
  <2>5. FailureOK(c) => FailureOK(c)'
    BY <1>1, <2>4 DEF FailureOK, FilesBack, ServiceBack, Whole
  <2>6. SuccessOK(c) => SuccessOK(c)'
    BY <1>1, <2>3 DEF SuccessOK
  <2>7. QED BY <1>1, <2>3, <2>5, <2>6 DEF Inv, Reported, JustEnded
<1>7. QED BY <1>2, <1>3, <1>4, <1>5, <1>6 DEF Inv

LEMMA InvNext ==
  ASSUME ~Overlap, Inv, [Next]_vars
  PROVE  Inv'
<1>1. TypeInv'
  BY TypeNext DEF Inv
<1>2. ASSUME NEW c \in Cmd, NEW k \in Kinds, NEW withConf \in BOOLEAN, NEW works \in BOOLEAN,
             Begin(c, k, withConf, works)
      PROVE  Inv'
  BY <1>1, <1>2, StepBegin
<1>3. ASSUME NEW c \in Cmd, CommandStep(c) PROVE Inv'
  <2>1. CASE Fetch(c) BY <1>1, <2>1, StepFetch
  <2>2. CASE Backup(c) BY <1>1, <2>2, StepBackup
  <2>3. CASE BackupConf(c) BY <1>1, <2>3, StepBackupConf
  <2>4. CASE PutBinary(c) BY <1>1, <2>4, StepPutBinary
  <2>5. CASE PutConf(c) BY <1>1, <2>5, StepPutConf
  <2>6. CASE PutUnit(c) BY <1>1, <2>6, StepPutUnit
  <2>7. CASE Reload(c) BY <1>1, <2>7, StepReload
  <2>8. CASE RestartService(c) BY <1>1, <2>8, StepRestartService
  <2>9. CASE Verify(c) BY <1>1, <2>9, StepVerify
  <2>10. CASE UndoStep(c) BY <1>1, <2>10, StepUndoStep
  <2>11. CASE UndoEnds(c) BY <1>1, <2>11, StepUndoEnds
  <2>12. QED BY <1>3, <2>1, <2>2, <2>3, <2>4, <2>5, <2>6, <2>7, <2>8, <2>9, <2>10, <2>11 DEF CommandStep
<1>4. CASE AgentExit
  BY <1>1, <1>4, StepExit
<1>5. CASE UNCHANGED vars
  <2>1. file' = file /\ run' = run /\ job' = job /\ before' = before /\ harm' = harm /\ last' = last
    BY <1>5 DEF vars
  <2>2. Serial' /\ Quiet' /\ Fresh' /\ Unharmed' /\ Startable(run)'
    BY <2>1 DEF Inv, Serial, Quiet, Working, Fresh, Unharmed, Startable, MayStart
  <2>3. \A c \in Cmd : (Working(c) => JobOK(c)) => (Working(c)' => JobOK(c)')
    BY <2>1 DEF Working, JobOK, KindOK, Copies, Placed, Put, Brought, Clean, Undoing, NotUndone, Tried,
                Left, RestartedOn, Service, Startable, MayStart, Whole
  <2>4. Reported'
    BY <2>1 DEF Inv, Reported, JustEnded, FailureOK, FilesBack, ServiceBack, SuccessOK, Whole, NotUndone, Tried,
                Brought
  <2>5. QED BY <1>1, <2>2, <2>3, <2>4 DEF Inv
<1>6. QED BY <1>2, <1>3, <1>4, <1>5 DEF Next

LEMMA InvImplies == Inv => FailedIsUndone /\ FailedRunsAgain /\ SuccessIsInPlace
<1> SUFFICES ASSUME Inv PROVE FailedIsUndone /\ FailedRunsAgain /\ SuccessIsInPlace
  OBVIOUS
<1>1. \A c \in Cmd : JustEnded(c, "FAILED") => FailureOK(c)
  BY DEF Inv, Reported
<1>2. \A c \in Cmd : JustEnded(c, "SUCCESS") => SuccessOK(c)
  BY DEF Inv, Reported
<1>3. FailedIsUndone /\ FailedRunsAgain
  BY <1>1 DEF FailedIsUndone, FailedRunsAgain, FailureOK, FilesBack, ServiceBack
<1>4. SuccessIsInPlace
  BY <1>2 DEF SuccessIsInPlace, SuccessOK, active
<1>5. QED BY <1>3, <1>4

\* When commands do not overlap, a command that reports FAILED has left every file
\* as it was, whichever of its steps failed, but those a write or removal of its
\* own was the last to fail on and those its rollback leaves out.
THEOREM FailureIsUndone ==
  ASSUME ~Overlap
  PROVE  Spec => []FailedIsUndone
<1>1. Inv /\ [Next]_vars => Inv'
  BY InvNext
<1>2. QED BY <1>1, InvInit, InvImplies, PTL DEF Spec

\* Unless the restart of its rollback failed, a failed command leaves a service
\* that runs what is there, what ran before, or nothing; and if complete files
\* it ran are back, the service runs them again.
THEOREM FailureRunsAgain ==
  ASSUME ~Overlap
  PROVE  Spec => []FailedRunsAgain
<1>1. Inv /\ [Next]_vars => Inv'
  BY InvNext
<1>2. QED BY <1>1, InvInit, InvImplies, PTL DEF Spec

\* A command that reports SUCCESS has put in place what it brought, and the
\* service runs it (or, after APPLY_CONFIG, goes on with what it ran).
THEOREM SuccessIsReal ==
  ASSUME ~Overlap
  PROVE  Spec => []SuccessIsInPlace
<1>1. Inv /\ [Next]_vars => Inv'
  BY InvNext
<1>2. QED BY <1>1, InvInit, InvImplies, PTL DEF Spec

=============================================================================
