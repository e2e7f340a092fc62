----------------------------- MODULE NodeFiles -----------------------------
(***************************************************************************)
(* What APPLY_CONFIG, INSTALL_XRAYR and UPGRADE_XRAYR do to the node: the  *)
(* binary, the systemd unit, the configuration and the service             *)
(* (cmdexec.RunApplyConfig, runXrayrInstallUpgrade).  Every operation on a *)
(* file or on systemd is a step, and the steps named in Faults may fail,   *)
(* "undo" for those of a rollback.  The agent runs each command in a       *)
(* goroutine of its own.                                                   *)
(***************************************************************************)
EXTENDS Sequences

CONSTANTS
  Cmd,       \* command ids; each brings its own binary and configuration
  NoCmd,     \* no command
  Kinds,     \* command types in use
  Faults,    \* steps that may fail, and "exit" for the agent's process
  Overlap    \* whether a command may start while another is executed

AllKinds == {"APPLY_CONFIG", "INSTALL_XRAYR", "UPGRADE_XRAYR"}

\* What a file holds that no command brought; "damaged" is incomplete.
Others == {"none", "damaged", "old", "rendered"}

ASSUME KindsAssumption == Kinds \subseteq AllKinds
ASSUME OverlapAssumption == Overlap \in BOOLEAN
ASSUME NoCmdAssumption == NoCmd \notin Cmd /\ Others \cap Cmd = {}

VARIABLES
  file,      \* contents of the binary, the unit and the configuration
  run,       \* the files the service was started with; NoFiles if it is not active
  job,       \* the goroutine of each command
  before,    \* history: the node when the command started
  harm,      \* history: the step a command failed at, and what it left spoiled
  last       \* history: the command that ended last, until another starts

vars == << file, run, job, before, harm, last >>

Part    == {"bin", "unit", "conf"}
Content == Cmd \cup Others
NoFiles == [bin |-> "none", unit |-> "none", conf |-> "none"]

Ended == {"idle", "done", "dead"}

May(fault) == fault \in Faults

(***************************************************************************)
(* systemd.  A service is active after a restart when all it needs is      *)
(* there, complete, and comes from commands whose files work.  A damaged   *)
(* file may do, and so may a unit that is gone but still loaded.           *)
(***************************************************************************)

MayStart(f) ==
  /\ f.bin # "none" /\ f.conf # "none"
  /\ \A c \in Cmd : c \in {f.bin, f.conf} => job[c].works

Whole(f) == \A p \in Part : f[p] \notin {"none", "damaged"}

active == run # NoFiles

Restart ==
  \/ MayStart(file) /\ run' = file
  \/ ~(Whole(file) /\ MayStart(file)) /\ run' = NoFiles

\* systemctl reports an error: the old service runs, none, or the new one.
RestartFails == run' \in {run, NoFiles} \/ (MayStart(file) /\ run' = file)

(***************************************************************************)
(* Steps of a command.  at is the next step, saved what it backed up (for  *)
(* APPLY_CONFIG, the bytes it read), undo the rest of its rollback.        *)
(* harm[c].parts are the files whose last write by c returned an error,    *)
(* and "restart" if the one of the rollback did.                           *)
(***************************************************************************)

At(c, step) == job[c].at = step

\* The goroutine of c goes on; kind, withConf and works stay.
Becomes(c, at, verdict, saved, undo) ==
  job' = [job EXCEPT ![c] =
    [kind |-> job[c].kind, withConf |-> job[c].withConf, works |-> job[c].works,
     at |-> at, verdict |-> verdict, saved |-> saved, undo |-> undo]]

Goto(c, step) == Becomes(c, step, "none", job[c].saved, << >>) /\ last' = last

Save(c, parts, step) ==
  /\ Becomes(c, step, "none", [p \in Part |-> IF p \in parts THEN file[p] ELSE job[c].saved[p]], << >>)
  /\ last' = last

Undo(c, tasks) == Becomes(c, "undo", "none", job[c].saved, tasks) /\ last' = last

Harm(c, step, parts) == harm' = [harm EXCEPT ![c] = [at |-> step, parts |-> parts]]

Spoil(c, task)  == Harm(c, harm[c].at, harm[c].parts \cup {task})
Repair(c, task) == Harm(c, harm[c].at, harm[c].parts \ {task})

Conclude(c, verdict) == Becomes(c, "done", verdict, job[c].saved, << >>) /\ last' = c

\* Faulty: a status the Center does not know.
Fail_unknown(c) == Conclude(c, "ERROR")

Fail(c) == Conclude(c, "FAILED")

\* Faulty: an upgrade does not write the old unit back.
rollbackFull_forgetsUnit(c) ==
  Undo(c, CASE job[c].kind = "APPLY_CONFIG"  -> << "conf", "restart" >>
            [] job[c].kind = "INSTALL_XRAYR" -> << "bin", "unit", "restart" >>
            [] job[c].kind = "UPGRADE_XRAYR" -> << "bin", "conf", "restart" >>)

\* Faulty: the service is left as the failed command left it.
rollbackFull_withoutRestart(c) ==
  Undo(c, CASE job[c].kind = "APPLY_CONFIG"  -> << "conf" >>
            [] job[c].kind = "INSTALL_XRAYR" -> << "bin", "unit" >>
            [] job[c].kind = "UPGRADE_XRAYR" -> << "bin", "unit", "conf" >>)

\* rollbackFull, and for APPLY_CONFIG the end of RunApplyConfig.
rollbackFull(c) ==
  Undo(c, CASE job[c].kind = "APPLY_CONFIG"  -> << "conf", "restart" >>
            [] job[c].kind = "INSTALL_XRAYR" -> << "bin", "unit", "restart" >>
            [] job[c].kind = "UPGRADE_XRAYR" -> << "bin", "unit", "conf", "restart" >>)

\* INSTALL is for a node without a binary, UPGRADE for one with.
Begin(c, k, withConf, works) ==
  /\ At(c, "idle")
  /\ Overlap \/ \A d \in Cmd : job[d].at \in Ended
  /\ k = "APPLY_CONFIG" => withConf
  /\ before' = [before EXCEPT ![c] = [files |-> file, run |-> run]]
  /\ LET accepted == \/ k = "APPLY_CONFIG"
                     \/ k = "INSTALL_XRAYR" /\ file.bin = "none"
                     \/ k = "UPGRADE_XRAYR" /\ file.bin # "none"
     IN  job' = [job EXCEPT ![c] =
           [kind |-> k, withConf |-> withConf, works |-> works, saved |-> NoFiles,
            undo |-> << >>,
            at      |-> IF ~accepted THEN "done" ELSE IF k = "UPGRADE_XRAYR" THEN "backup" ELSE "fetch",
            verdict |-> IF accepted THEN "none" ELSE "FAILED"]]
         /\ last' = IF accepted THEN NoCmd ELSE c
  /\ UNCHANGED << file, run, harm >>

\* Download and comparison of the hash.
Fetch(c) ==
  /\ At(c, "fetch")
  /\ \/ May("fetch") /\ Fail(c)
     \/ Goto(c, CASE job[c].kind = "APPLY_CONFIG"  -> "backup"
                  [] job[c].kind = "INSTALL_XRAYR" -> "bin"
                  [] job[c].kind = "UPGRADE_XRAYR" -> IF job[c].withConf THEN "backupConf" ELSE "bin")
  /\ UNCHANGED << file, run, before, harm >>

\* APPLY_CONFIG keeps the old configuration, UPGRADE the binary and the unit.
\* A configuration or a unit that is empty or cannot be read is not kept.
Backup(c) ==
  /\ At(c, "backup")
  /\ IF job[c].kind = "APPLY_CONFIG"
     THEN \/ May("backup") /\ file.conf # "none" /\ Fail(c)
          \/ (May("read") \/ file.conf = "damaged") /\ Goto(c, "conf")
          \/ Save(c, {"conf"}, "conf")
     ELSE \/ May("backup") /\ Fail(c)
          \/ (May("read") \/ file.unit = "damaged") /\ Save(c, {"bin"}, "fetch")
          \/ Save(c, {"bin", "unit"}, "fetch")
  /\ UNCHANGED << file, run, before, harm >>

\* The error of this backup is ignored.
BackupConf(c) ==
  /\ At(c, "backupConf")
  /\ \/ (May("backupConf") \/ file.conf = "damaged") /\ Goto(c, "bin")
     \/ Save(c, {"conf"}, "bin")
  /\ UNCHANGED << file, run, before, harm >>

\* What a write of new by c that fails makes of a file.  "sudo install" removes
\* the target before it copies and sets mode and owner after, WriteFile truncates.
Mangled(c, p, new) ==
  \E left \in {file[p], "damaged", new} \cup (IF job[c].kind = "APPLY_CONFIG" THEN {} ELSE {"none"}) :
    file' = [file EXCEPT ![p] = left]

\* A binary that could not be installed is not taken back.
PutBinary(c) ==
  /\ At(c, "bin")
  /\ \/ May("bin") /\ Fail(c) /\ Mangled(c, "bin", c) /\ Harm(c, "bin", {"bin"})
     \/ /\ file' = [file EXCEPT !.bin = c]
        /\ Goto(c, IF job[c].withConf THEN "conf" ELSE "unit")
        /\ UNCHANGED harm
  /\ UNCHANGED << run, before >>

\* A failure takes back what was put but the configuration, in INSTALL without
\* a restart.  APPLY_CONFIG renames a complete file over the old one.
PutConf(c) ==
  /\ At(c, "conf")
  /\ \/ /\ May("conf")
        /\ IF job[c].kind = "APPLY_CONFIG"
           THEN Fail(c) /\ UNCHANGED << file, harm >>
           ELSE /\ Undo(c, IF job[c].kind = "INSTALL_XRAYR" THEN << "bin" >>
                           ELSE << "bin", "unit", "restart" >>)
                /\ Mangled(c, "conf", c)
                /\ Harm(c, "conf", {"conf"})
     \/ /\ file' = [file EXCEPT !.conf = c]
        /\ Goto(c, IF job[c].kind = "APPLY_CONFIG" THEN "restart" ELSE "unit")
        /\ UNCHANGED harm
  /\ UNCHANGED << run, before >>

\* rollbackInstall, after a failure, leaves the configuration alone.
PutUnit(c) ==
  /\ At(c, "unit")
  /\ \/ /\ May("unit")
        /\ Undo(c, << "bin", "unit", "restart" >>)
        /\ Mangled(c, "unit", "rendered")
        /\ Harm(c, "unit", {"unit"})
     \/ file' = [file EXCEPT !.unit = "rendered"] /\ Goto(c, "reload") /\ UNCHANGED harm
  /\ UNCHANGED << run, before >>

Reload(c) ==
  /\ At(c, "reload")
  /\ \/ May("reload") /\ rollbackFull(c) /\ Harm(c, "reload", {})
     \/ Goto(c, "restart") /\ UNCHANGED harm
  /\ UNCHANGED << file, run, before >>

\* RunApplyConfig ignores the error.
RestartService(c) ==
  /\ At(c, "restart")
  /\ \/ /\ May("restart")
        /\ RestartFails
        /\ IF job[c].kind = "APPLY_CONFIG"
           THEN Goto(c, "verify") /\ UNCHANGED harm
           ELSE rollbackFull(c) /\ Harm(c, "restart", {})
     \/ Restart /\ Goto(c, "verify") /\ UNCHANGED harm
  /\ UNCHANGED << file, before >>

\* Faulty: a restart that returned is taken for a service that runs.
Verify_unchecked(c) ==
  /\ At(c, "verify")
  /\ Conclude(c, "SUCCESS")
  /\ UNCHANGED << file, run, before, harm >>

Verify(c) ==
  /\ At(c, "verify")
  /\ IF active THEN Conclude(c, "SUCCESS") /\ UNCHANGED harm
     ELSE rollbackFull(c) /\ Harm(c, "verify", {})
  /\ UNCHANGED << file, run, before >>

\* INSTALL removes what it put, the others write back what they saved, if
\* anything.  Every error of a rollback is ignored.
UndoFile(c, p) ==
  /\ \/ /\ job[c].kind # "INSTALL_XRAYR" /\ job[c].saved[p] = "none"
        /\ UNCHANGED << file, harm >>
     \/ /\ job[c].kind # "INSTALL_XRAYR" /\ job[c].saved[p] # "none"
        /\ \/ May("undo") /\ Mangled(c, p, job[c].saved[p]) /\ Spoil(c, p)
           \/ file' = [file EXCEPT ![p] = job[c].saved[p]] /\ Repair(c, p)
     \/ /\ job[c].kind = "INSTALL_XRAYR"
        /\ \/ May("undo") /\ UNCHANGED file /\ Spoil(c, p)
           \/ file' = [file EXCEPT ![p] = "none"] /\ Repair(c, p)
  /\ UNCHANGED run

UndoRestart(c) ==
  /\ \/ May("undo") /\ RestartFails /\ Spoil(c, "restart")
     \/ Restart /\ Repair(c, "restart")
  /\ UNCHANGED file

UndoStep(c) ==
  /\ At(c, "undo")
  /\ job[c].undo # << >>
  /\ LET task == Head(job[c].undo) IN
       \/ task = "restart" /\ UndoRestart(c)
       \/ task # "restart" /\ UndoFile(c, task)
  /\ Undo(c, Tail(job[c].undo))
  /\ UNCHANGED before

UndoEnds(c) ==
  /\ At(c, "undo")
  /\ job[c].undo = << >>
  /\ Fail(c)
  /\ UNCHANGED << file, run, before, harm >>

\* The agent's process ends; nothing is rolled back when it starts again.
AgentExit ==
  /\ May("exit")
  /\ job' = [c \in Cmd |-> IF job[c].at \in Ended THEN job[c] ELSE [job[c] EXCEPT !.at = "dead"]]
  /\ UNCHANGED << file, run, before, harm, last >>

Init ==
  /\ file \in [Part -> {"none", "old"}]
  /\ job = [c \in Cmd |-> [kind |-> "APPLY_CONFIG", withConf |-> TRUE, works |-> TRUE, at |-> "idle",
                           verdict |-> "none", saved |-> NoFiles, undo |-> << >>]]
  /\ run \in {NoFiles, file} /\ (active => Whole(file))
  /\ before = [c \in Cmd |-> [files |-> file, run |-> run]]
  /\ harm = [c \in Cmd |-> [at |-> "none", parts |-> {}]]
  /\ last = NoCmd

CommandStep(c) ==
  \/ Fetch(c)
  \/ Backup(c)
  \/ BackupConf(c)
  \/ PutBinary(c)
  \/ PutConf(c)
  \/ PutUnit(c)
  \/ Reload(c)
  \/ RestartService(c)
  \/ Verify(c)
  \/ UndoStep(c)
  \/ UndoEnds(c)

Next ==
  \/ \E c \in Cmd :
       \/ \E k \in Kinds, withConf, works \in BOOLEAN : Begin(c, k, withConf, works)
       \/ CommandStep(c)
  \/ AgentExit

Spec == Init /\ [][Next]_vars

(***************************************************************************)
(* Properties.                                                             *)
(***************************************************************************)

\* Every variable has the type the code gives it.
FilesTypeOK ==
  /\ file \in [Part -> Content]
  /\ run \in [Part -> Content]
  /\ job \in [Cmd -> [kind     : AllKinds,
                      withConf : BOOLEAN,
                      works    : BOOLEAN,
                      saved    : [Part -> Content],
                      undo     : Seq(Part \cup {"restart"}),
                      at       : Ended \cup {"fetch", "backup", "backupConf", "bin", "conf", "unit",
                                             "reload", "restart", "verify", "undo"},
                      verdict  : {"none", "SUCCESS", "FAILED"}]]
  /\ before \in [Cmd -> [files : [Part -> Content], run : [Part -> Content]]]
  /\ harm \in [Cmd -> [at : {"none", "bin", "conf", "unit", "reload", "restart", "verify"},
                       parts : SUBSET (Part \cup {"restart"})]]
  /\ last \in Cmd \cup {NoCmd}

JustEnded(c, verdict) == last = c /\ job[c].verdict = verdict

Brought(c) ==
  CASE job[c].kind = "APPLY_CONFIG" -> {"conf"}
    [] job[c].kind # "APPLY_CONFIG" -> {"bin", "unit"} \cup (IF job[c].withConf THEN {"conf"} ELSE {})

\* What c had written, or tried to, when it failed.
Tried(c) ==
  CASE harm[c].at = "none" -> {}
    [] harm[c].at = "bin"  -> {"bin"}
    [] harm[c].at = "conf" -> {"bin", "conf"}
    [] OTHER               -> Brought(c)

\* What the rollback of c does not put back: a file it has no copy of, but the
\* binary an INSTALL removes, and the configuration if that or the unit could
\* not be written.
NotUndone(c) ==
  {p \in Tried(c) : \/ job[c].saved[p] = "none" /\ ~(job[c].kind = "INSTALL_XRAYR" /\ p = "bin")
                    \/ p = "conf" /\ harm[c].at \in {"conf", "unit"}}

\* After a command that reports FAILED, whatever step failed and however far the
\* command had come, every file is as it was before, but those whose last write
\* or removal by the command itself failed and those the rollback leaves out.
FailedIsUndone ==
  \A c \in Cmd :
    JustEnded(c, "FAILED") =>
      \A p \in Part \ (NotUndone(c) \cup harm[c].parts) : file[p] = before[c].files[p]

\* A FAILED command leaves no service that runs anything but what is there now
\* or what ran before it, unless the restart of its rollback failed; and if the
\* files are again the complete ones the service ran, it runs them again.
FailedRunsAgain ==
  \A c \in Cmd :
    JustEnded(c, "FAILED") /\ "restart" \notin harm[c].parts =>
      /\ run \in {before[c].run, file, NoFiles}
      /\ before[c].run = before[c].files /\ Whole(file) /\ file = before[c].files => run = file

\* SUCCESS means that what the command brought is in place, the rest of the
\* node is as it was and the service runs it.  APPLY_CONFIG, which ignores the
\* error of the restart, may also report a service that went on as before.
SuccessIsInPlace ==
  \A c \in Cmd :
    JustEnded(c, "SUCCESS") =>
      /\ active
      /\ run = file \/ (job[c].kind = "APPLY_CONFIG" /\ run = before[c].run)
      /\ file.conf = IF job[c].withConf THEN c ELSE before[c].files.conf
      /\ file.bin  = IF job[c].kind = "APPLY_CONFIG" THEN before[c].files.bin ELSE c
      /\ file.unit = IF job[c].kind = "APPLY_CONFIG" THEN before[c].files.unit ELSE "rendered"

=============================================================================
