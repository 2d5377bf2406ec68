----------------------------- MODULE NodeUpdater ----------------------------
(***************************************************************************)
(* The upgrade helper on a node's host (internal/updater): a durable       *)
(* journal per task, the switch, verification and rollback of the node's   *)
(* files and service, the recovery of unfinished jobs after a crash, and   *)
(* the reports to the Controller, which is TaskLedger here.                *)
(*                                                                         *)
(* The daemon and the local installer exclude each other by a file lock,   *)
(* so there is at most one process; `pc' is the place in it that follows   *)
(* its last durable or visible step, and it may stop before any next one.  *)
(* A version stands for the content of a file, an image or a process.      *)
(***************************************************************************)
EXTENDS TaskLedger, Sequences

CONSTANTS
  Host,       \* the node of this host
  ManualID,   \* task identifiers that local installers draw
  Install,    \* the kinds of installation, each the set of its components
  MaxFaults,  \* bound: crashes, failed writes, commands and requests
  MaxNet      \* bound: requests whose sender no longer waits

ASSUME HostAssumption == Node = {Host} /\ ManualID \subseteq TaskID
ASSUME InstallAssumption ==
  Install \subseteq {{"xmesh"}, {"xmesh", "xray"}, {"xmesh", "xray", "compose"}}
ASSUME ProgressAssumption ==
  Progress = {"downloading", "prepared", "switching", "verifying", "uncertain", "rolling_back"}
ASSUME BoundAssumption == MaxFaults \in Nat /\ MaxNet \in Nat

VARIABLES
  proc,     \* which process runs: "none", "daemon" or "local"
  pc,       \* its next step
  cur,      \* the task it works on
  step,     \* its next command in a switch, restore or finish
  mem,      \* its journal of cur in memory
  via,      \* how cur was entered: by a poll or the installer ("run"), or by
            \* recoverJobs ("verify", "rollback", "report")
  jobs,     \* tasks recoverJobs has still to look at
  journal,  \* [TaskID -> Journal]: journal.json of each task
  files,    \* [Comp -> Version]: the installed files
  backup,   \* [TaskID -> Backup or None]: what prepare saved
  unit,     \* version of the last started node process
  up,       \* is it running
  status,   \* the node's NodeStatus in the Controller
  net,      \* requests still on their way
  faults    \* faults so far

pvars == <<proc, pc, cur, step, mem, via, jobs>>
dvars == <<journal, files, backup>>
nvars == <<unit, up, status>>
vars  == <<ledger, proc, pc, cur, step, mem, via, jobs, journal, files, backup,
           unit, up, status, net, faults>>

\* A Gateway under systemd also has the archive's xray; only Docker has a
\* compose file.
Comp == DOMAIN files
Mode == IF "compose" \in Comp THEN "docker" ELSE "systemd"

\* Docker also keeps the image of the running container.
Backup == [Comp \cup {"image"} -> Version]

\* `long': the error text has more bytes than updaterReport takes (1024).
Phases == {"none", "reserving", "downloading", "prepared", "switching",
           "verifying", "rolling_back", "done"}
Journal ==
  [phase: Phases, result: Outcomes \cup {""}, reported: BOOLEAN, long: BOOLEAN,
   from: Version \cup {None}, target: Version \cup {None}]
NoJournal ==
  [phase |-> "none", result |-> "", reported |-> FALSE, long |-> FALSE,
   from |-> None, target |-> None]

Fault == faults < MaxFaults /\ faults' = faults + 1
NoFault == UNCHANGED faults

-----------------------------------------------------------------------------
(* Requests to the Controller                                              *)

\* A request that nobody waits for any more may still arrive; with MaxNet of
\* them on their way it is lost.
send(m) == net' = IF Cardinality(net) < MaxNet THEN net \cup {m} ELSE net

\* report(): best effort, its error is ignored.  A request that updaterReport
\* finds invalid (400) has no effect whenever it arrives.
report(t, s, long) ==
  IF long THEN UNCHANGED net
  ELSE send([task |-> t, stage |-> s, from |-> None, target |-> None])

\* updaterReport's answer: accepted, the same stage again, or refused; an error
\* text that is too long is refused whatever the stage.
acceptsReport(t, s, long) == ~long /\ ledger[t].stage \in InFlight \cup {s}
takeReport(t, s) == IF ledger[t].stage = s THEN UNCHANGED ledger ELSE Report(t, s)

\* startManualUpgrade's answer: the task as registered now or before, invalid
\* (400) or refused (409); a status that is not fresh is a refusal too.
manualRequest(t, j) ==
  [task |-> t, stage |-> "manual", from |-> j.from, target |-> j.target]
manualEntry(m) ==
  [stage |-> "running", node |-> Host, from |-> m.from, target |-> m.target]
acceptsManual(m) ==
  \/ ledger[m.task].stage # "none"
  \/ Openable(manualEntry(m)) /\ status.version = m.from
invalidManual(m) == m.from = m.target
takeManual(m) ==
  IF ledger[m.task].stage = "none" THEN Register(m.task, manualEntry(m))
                                   ELSE UNCHANGED ledger

\* A late request reaches the Controller.
deliver(m) ==
  /\ m \in net
  /\ net' = net \ {m}
  /\ \/ m.stage = "manual" /\ acceptsManual(m) /\ takeManual(m)
     \/ m.stage = "manual" /\ ledger[m.task].stage = "none" /\ UNCHANGED ledger
     \/ m.stage # "manual" /\ acceptsReport(m.task, m.stage, FALSE) /\ takeReport(m.task, m.stage)
     \/ m.stage # "manual" /\ ~acceptsReport(m.task, m.stage, FALSE) /\ UNCHANGED ledger
  /\ UNCHANGED <<pvars, dvars, nvars, faults>>

-----------------------------------------------------------------------------
(* The process: where a function returns to, and the journal               *)

stopped ==
  /\ proc' = "none" /\ pc' = "off" /\ cur' = None /\ step' = 1
  /\ mem' = NoJournal /\ via' = "run" /\ jobs' = {}

goto(label, j) ==
  /\ pc' = label /\ step' = 1 /\ mem' = j
  /\ UNCHANGED <<proc, cur, via, jobs>>

\* execute and resumeVerification return err, j is the journal in memory:
\* the installer ends, the daemon polls again; recoverJobs gives up (and the
\* process ends) on an error, except the one its branch expects.
leave(err, j) ==
  LET ends == \/ via = "run" /\ proc = "local"
              \/ via = "verify" /\ err \notin {"", "unavailable"}
              \/ via = "rollback" /\ err # "rolled_back"
              \/ via = "job" /\ err # ""
  IN \/ ends /\ stopped
     \/ /\ ~ends
        /\ via = "rollback" /\ ~j.reported
        /\ pc' = "report" /\ via' = "report" /\ mem' = j
        /\ UNCHANGED <<proc, cur, step, jobs>>
     \/ /\ ~ends
        /\ ~(via = "rollback" /\ ~j.reported)
        /\ pc' = IF via = "run" THEN "idle" ELSE "jobs"
        /\ cur' = None /\ step' = 1 /\ mem' = NoJournal /\ via' = "run"
        /\ UNCHANGED <<proc, jobs>>

\* saveJournal: atomic and durable, or an error before or after the rename.
saved(j) == journal' = [journal EXCEPT ![cur] = j] /\ NoFault
saveFailed(j) ==
  /\ Fault
  /\ journal' \in {journal, [journal EXCEPT ![cur] = j]}

inPhase(p) == [mem EXCEPT !.phase = p]
finished(r) == [mem EXCEPT !.phase = "done", !.result = r]

\* Error holds the whole output of a command that failed; the other errors are
\* short, and what fits is taken to fit with them added.
outputOf(j) == {j, [j EXCEPT !.long = TRUE]}

\* The process is killed, or its host loses power and boots again: systemd
\* starts the node from the installed files, Docker the same container.
crash ==
  /\ proc # "none"
  /\ Fault
  /\ stopped
  /\ \/ UNCHANGED nvars
     \/ /\ up' = TRUE
        /\ unit' = IF Mode = "systemd" THEN files["xmesh"] ELSE unit
        /\ UNCHANGED status
  /\ UNCHANGED <<ledger, dvars, net>>

\* Run and localUpgrade take the lock and recover unfinished jobs first.
start(kind) ==
  /\ proc = "none"
  /\ kind = "local" => \E t \in ManualID : journal[t].phase = "none"
  /\ proc' = kind /\ pc' = "jobs"
  /\ jobs' = {t \in TaskID : journal[t].phase # "none"}
  /\ UNCHANGED <<ledger, cur, step, mem, via, dvars, nvars, net, faults>>

-----------------------------------------------------------------------------
(* recoverJobs                                                             *)

\* The branch for a job in each phase; a job that is done is reported again
\* unless that was acknowledged.
recoverJob(t) ==
  LET j == journal[t]
      branch(label, how, mine) ==
        /\ pc' = label /\ via' = how /\ mem' = mine /\ cur' = t
        /\ UNCHANGED <<proc, step>>
  IN
  /\ pc = "jobs" /\ t \in jobs
  /\ jobs' = jobs \ {t}
  /\ \/ j.phase = "reserving" /\ branch("retry", "job", j)
     \/ j.phase = "verifying" /\ branch("verify", "verify", j)
     \/ j.phase \in {"switching", "rolling_back"} /\ branch("rollback", "rollback", j)
     \/ /\ j.phase \in {"downloading", "prepared"}
        /\ branch("save", "job", [j EXCEPT !.phase = "done", !.result = "failed"])
     \/ j.phase = "done" /\ ~j.reported /\ branch("report", "report", j)
     \/ j.phase = "done" /\ j.reported /\ UNCHANGED <<proc, pc, cur, step, mem, via>>
  /\ UNCHANGED <<ledger, dvars, nvars, net, faults>>

\* The reservation is registered again so that it can be closed as failed.
retryManual ==
  LET m == manualRequest(cur, mem) IN
  /\ pc = "retry"
  /\ \/ /\ acceptsManual(m) /\ takeManual(m)
        /\ goto("save", finished("failed"))
        /\ NoFault /\ UNCHANGED net
     \/ /\ ledger[cur].stage = "none" /\ ~invalidManual(m)
        /\ goto("save", [finished("failed") EXCEPT !.reported = TRUE])
        /\ NoFault /\ UNCHANGED <<ledger, net>>
     \/ /\ ledger[cur].stage = "none" /\ invalidManual(m)
        /\ leave("error", mem)
        /\ NoFault /\ UNCHANGED <<ledger, net>>
     \/ /\ Fault
        /\ leave("error", mem)
        /\ send(m) /\ UNCHANGED ledger
  /\ UNCHANGED <<dvars, nvars>>

jobsDone ==
  /\ pc = "jobs" /\ jobs = {}
  /\ pc' = IF proc = "daemon" THEN "idle" ELSE "reserve"
  /\ UNCHANGED <<ledger, proc, cur, step, mem, via, jobs, dvars, nvars, net, faults>>

-----------------------------------------------------------------------------
(* Getting a task                                                          *)

\* tick: the Controller answers the open task of this node, claiming it if
\* need be; the answer may be lost.
poll(t) ==
  /\ pc = "idle" /\ t \notin ManualID
  /\ \/ Claim(t)
     \/ ledger[t].stage \in InFlight /\ UNCHANGED ledger
  /\ \/ /\ pc' = "execute" /\ cur' = t
        /\ mem' = [NoJournal EXCEPT !.from = ledger[t].from, !.target = ledger[t].target]
        /\ NoFault
     \/ Fault /\ UNCHANGED <<pc, cur, mem>>
  /\ UNCHANGED <<proc, step, via, jobs, dvars, nvars, net>>

\* localUpgrade saves its reservation before it asks the Controller.
reserve(t, v) ==
  LET j == [NoJournal EXCEPT !.phase = "reserving", !.from = status.version, !.target = v] IN
  /\ pc = "reserve" /\ t \in ManualID
  /\ journal[t].phase = "none" /\ ledger[t].stage = "none"
  /\ \/ /\ NoFault
        /\ journal' = [journal EXCEPT ![t] = j]
        /\ pc' = "manual" /\ cur' = t /\ mem' = j
        /\ UNCHANGED <<proc, step, via, jobs>>
     \/ /\ Fault
        /\ journal' \in {journal, [journal EXCEPT ![t] = j]}
        /\ stopped
  /\ UNCHANGED <<ledger, files, backup, nvars, net>>

\* localUpgrade gives up before it reserves: no fresh version status.
giveUp ==
  /\ pc = "reserve"
  /\ stopped
  /\ UNCHANGED <<ledger, dvars, nvars, net, faults>>

\* Mutant: the installer goes on when the Controller refused its task.
startManual_ignoresRefusal ==
  LET m == manualRequest(cur, mem) IN
  /\ pc = "manual"
  /\ IF acceptsManual(m) THEN takeManual(m) ELSE UNCHANGED ledger
  /\ goto("execute", mem)
  /\ UNCHANGED <<dvars, nvars, net, faults>>

startManual ==
  LET m == manualRequest(cur, mem) IN
  /\ pc = "manual"
  /\ \/ /\ acceptsManual(m) /\ takeManual(m)
        /\ goto("execute", mem)
        /\ NoFault /\ UNCHANGED net
     \/ /\ ledger[cur].stage = "none"
        /\ stopped
        /\ NoFault /\ UNCHANGED <<ledger, net>>
     \/ /\ Fault
        /\ stopped
        /\ send(m) /\ UNCHANGED ledger
  /\ UNCHANGED <<dvars, nvars>>

\* Mutant: a finished job is not reported again when its task comes back.
execute_forgetsOutcome ==
  LET j == journal[cur] IN
  /\ pc = "execute"
  /\ \/ /\ j.phase \in {"none", "reserving"}
        /\ goto("download", [mem EXCEPT !.phase = "downloading"])
     \/ j.phase = "verifying" /\ goto("verify", j)
     \/ /\ j.phase \in {"downloading", "prepared", "switching", "rolling_back", "done"}
        /\ leave("error", j)
  /\ UNCHANGED <<ledger, dvars, nvars, net, faults>>

\* execute looks for a journal of the task first.
execute ==
  LET j == journal[cur] IN
  /\ pc = "execute"
  /\ \/ /\ j.phase \in {"none", "reserving"}
        /\ goto("download", [mem EXCEPT !.phase = "downloading"])
     \/ j.phase = "done" /\ goto("report", j)
     \/ j.phase = "verifying" /\ goto("verify", j)
     \/ /\ j.phase \in {"downloading", "prepared", "switching", "rolling_back"}
        /\ leave("error", j)
  /\ UNCHANGED <<ledger, dvars, nvars, net, faults>>

-----------------------------------------------------------------------------
(* Before the switch                                                       *)

saveDownloading ==
  /\ pc = "download"
  /\ \/ saved(mem) /\ goto("prepare", mem)
     \/ saveFailed(mem) /\ leave("error", mem)
  /\ UNCHANGED <<ledger, files, backup, nvars, net>>

\* The node must report the version the task starts from; prepare copies
\* what is installed.  failBeforeSwitch on any error.
prepare ==
  /\ pc = "prepare"
  /\ \/ /\ status.version = mem.from
        /\ backup' = [backup EXCEPT ![cur] = [c \in Comp \cup {"image"} |->
                                                IF c = "image" THEN unit ELSE files[c]]]
        /\ report(cur, "downloading", FALSE)
        /\ goto("prepared", inPhase("prepared"))
        /\ NoFault /\ UNCHANGED journal
     \/ /\ \E j \in outputOf(finished("failed")) : goto("save", j)
        /\ NoFault /\ UNCHANGED <<journal, backup, net>>
     \/ /\ saveFailed(mem) /\ leave("error", mem)
        /\ UNCHANGED <<backup, net>>
  /\ UNCHANGED <<ledger, files, nvars>>

savePrepared ==
  /\ pc = "prepared"
  /\ \/ saved(mem) /\ report(cur, "prepared", FALSE) /\ goto("switching", inPhase("switching"))
     \/ saveFailed(mem) /\ leave("error", mem) /\ UNCHANGED net
  /\ UNCHANGED <<ledger, files, backup, nvars>>

\* Mutant: the switch begins before the journal says so.
saveSwitching_notDurable ==
  /\ pc = "switching"
  /\ status' = [status EXCEPT !.after = FALSE]
  /\ report(cur, "switching", FALSE) /\ goto("switch", mem)
  /\ UNCHANGED <<ledger, dvars, unit, up, faults>>

\* SwitchAt: no status is newer than it yet.
saveSwitching ==
  /\ pc = "switching"
  /\ status' = [status EXCEPT !.after = FALSE]
  /\ \/ saved(mem) /\ report(cur, "switching", FALSE) /\ goto("switch", mem)
     \/ saveFailed(mem) /\ leave("error", mem) /\ UNCHANGED net
  /\ UNCHANGED <<ledger, files, backup, unit, up>>

-----------------------------------------------------------------------------
(* Switch, verification and rollback                                       *)

SwitchSteps ==
  IF Mode = "docker" THEN <<"compose", "up">>
  ELSE IF "xray" \in Comp THEN <<"stop", "xmesh", "xray", "start">>
  ELSE <<"stop", "xmesh", "start">>

\* Mutant: a rollback forgets xray.
RestoreSteps_noXray ==
  IF Mode = "docker" THEN <<"image", "xmesh", "up", "compose">>
                     ELSE <<"stop", "xmesh", "start">>

RestoreSteps ==
  IF Mode = "docker" THEN <<"image", "xmesh", "xray", "up", "compose">>
                     ELSE SwitchSteps

FinishSteps == IF Mode = "docker" THEN <<"xmesh", "xray">> ELSE <<>>

\* One command: copyFile of the component's content ("image": a compose.yaml that
\* names the old image), or a service command; a running service is not
\* started again.
perform(s, content) ==
  IF s \in Comp \cup {"image"}
  THEN /\ files' = [files EXCEPT ![IF s = "image" THEN "compose" ELSE s] = content[s]]
       /\ UNCHANGED <<unit, up>>
  ELSE /\ up' = (s # "stop")
       /\ unit' = CASE s = "stop" -> unit
                    [] s = "start" -> IF up THEN unit ELSE files["xmesh"]
                    [] s = "up" -> files["compose"]
       /\ UNCHANGED files

\* It may fail with or without its effect, or leave the service down.
fail(s, content) ==
  \/ perform(s, content)
  \/ UNCHANGED <<files, unit, up>>
  \/ s \in {"stop", "start", "up"} /\ up' = FALSE /\ UNCHANGED <<files, unit>>

errorOf(s, j) == IF s \in {"stop", "start", "up"} THEN outputOf(j) ELSE {j}

newFiles == [c \in Comp |-> mem.target]

switchVersion ==
  LET s == SwitchSteps[step] IN
  /\ pc = "switch" /\ step <= Len(SwitchSteps)
  /\ \/ perform(s, newFiles) /\ step' = step + 1 /\ NoFault
        /\ UNCHANGED <<proc, pc, cur, mem, via, jobs>>
     \/ fail(s, newFiles) /\ Fault /\ \E j \in errorOf(s, mem) : goto("rollback", j)
  /\ UNCHANGED <<ledger, journal, backup, status, net>>

saveVerifying ==
  LET j == inPhase("verifying") IN
  /\ pc = "switch" /\ step > Len(SwitchSteps)
  /\ \/ saved(j) /\ report(cur, "verifying", FALSE) /\ goto("verify", j)
     \/ saveFailed(j) /\ goto("rollback", j) /\ UNCHANGED net
  /\ UNCHANGED <<ledger, files, backup, nvars>>

\* Healthy for 30 seconds: the service runs and reports, since SwitchAt, the
\* target version and no error.
verified == up /\ status.after /\ status.version = mem.target

\* verify and resumeVerification: healthy, no answer about the status before the
\* deadline (whatever the Controller has by then), or any other outcome, which
\* rolls back.
verify ==
  /\ pc = "verify"
  /\ \/ verified /\ goto("finish", mem) /\ NoFault /\ UNCHANGED net
     \/ /\ up
        /\ report(cur, "uncertain", FALSE) /\ leave("unavailable", mem) /\ Fault
     \/ goto("rollback", mem) /\ NoFault /\ UNCHANGED net
  /\ UNCHANGED <<ledger, dvars, nvars>>

finishDocker ==
  /\ pc = "finish"
  /\ \/ /\ step <= Len(FinishSteps)
        /\ \/ perform(FinishSteps[step], newFiles) /\ step' = step + 1 /\ NoFault
              /\ UNCHANGED <<proc, pc, cur, mem, via, jobs>>
           \/ fail(FinishSteps[step], newFiles) /\ Fault /\ goto("rollback", mem)
     \/ /\ step > Len(FinishSteps)
        /\ goto("save", finished("succeeded"))
        /\ NoFault /\ UNCHANGED <<files, unit, up>>
  /\ UNCHANGED <<ledger, journal, backup, status, net>>

saveRollingBack ==
  LET j == inPhase("rolling_back") IN
  /\ pc = "rollback"
  /\ \/ saved(j) /\ report(cur, "rolling_back", j.long) /\ goto("restore", j)
     \/ saveFailed(j) /\ leave("error", j) /\ UNCHANGED net
  /\ UNCHANGED <<ledger, files, backup, nvars>>

\* Mutant: an error of restore counts as a rollback.
restore_ignoresError ==
  LET s == RestoreSteps[step] IN
  /\ pc = "restore" /\ step <= Len(RestoreSteps)
  /\ \/ /\ perform(s, backup[cur]) /\ NoFault
        /\ step' = step + 1 /\ UNCHANGED <<proc, pc, cur, mem, via, jobs>>
     \/ fail(s, backup[cur]) /\ Fault /\ goto("save", finished("rolled_back"))
  /\ UNCHANGED <<ledger, journal, backup, status, net>>

\* restore, which ignores an error of "stop".
restore ==
  LET s == RestoreSteps[step] IN
  /\ pc = "restore" /\ step <= Len(RestoreSteps)
  /\ \/ /\ perform(s, backup[cur]) /\ NoFault
        /\ step' = step + 1 /\ UNCHANGED <<proc, pc, cur, mem, via, jobs>>
     \/ /\ fail(s, backup[cur]) /\ Fault
        /\ IF s = "stop"
             THEN step' = step + 1 /\ UNCHANGED <<proc, pc, cur, mem, via, jobs>>
             ELSE \E j \in errorOf(s, finished("manual_intervention")) : goto("save", j)
  /\ UNCHANGED <<ledger, journal, backup, status, net>>

localVersion == IF Mode = "systemd" THEN files["xmesh"] ELSE unit

\* By the node's status or, without an answer, by the installed version.
rollbackVerified ==
  /\ up
  /\ \/ status.after /\ status.version = mem.from
     \/ localVersion = mem.from

verifyRollback ==
  /\ pc = "restore" /\ step > Len(RestoreSteps)
  /\ \/ rollbackVerified /\ goto("save", finished("rolled_back"))
     \/ goto("save", finished("manual_intervention"))
  /\ UNCHANGED <<ledger, dvars, nvars, net, faults>>

-----------------------------------------------------------------------------
(* The outcome                                                             *)

\* What a finished job returns: only a success waits for the acknowledgement.
returned(j, acked) ==
  CASE j.result = "rolled_back" -> "rolled_back"
    [] j.result = "succeeded" /\ acked -> ""
    [] OTHER -> "error"

\* Mutant: the outcome is reported before it is durable.
saveDone_afterReport ==
  /\ pc = "save"
  /\ NoFault
  /\ pc' = "report" /\ via' = IF via = "job" THEN "report" ELSE via
  /\ UNCHANGED <<ledger, proc, cur, step, mem, jobs, dvars, nvars, net>>

saveDone ==
  /\ pc = "save"
  /\ \/ /\ saved(mem)
        /\ IF mem.reported THEN leave("", mem)
           ELSE /\ pc' = "report" /\ via' = IF via = "job" THEN "report" ELSE via
                /\ UNCHANGED <<proc, cur, step, mem, jobs>>
     \/ saveFailed(mem) /\ leave("error", mem)
  /\ UNCHANGED <<ledger, files, backup, nvars, net>>

\* Only an outcome that the journal holds is reported; Reported is saved when
\* the Controller acknowledged it.
reportTerminal ==
  LET acked == [mem EXCEPT !.reported = TRUE] IN
  /\ pc = "report"
  /\ \/ /\ acceptsReport(cur, mem.result, mem.long) /\ takeReport(cur, mem.result)
        /\ \/ saved(acked) /\ leave(returned(mem, TRUE), acked)
           \/ saveFailed(acked) /\ leave(returned(mem, FALSE), acked)
        /\ UNCHANGED net
     \/ /\ ~acceptsReport(cur, mem.result, mem.long) /\ leave(returned(mem, FALSE), mem)
        /\ NoFault /\ UNCHANGED <<ledger, journal, net>>
     \/ /\ Fault /\ report(cur, mem.result, mem.long) /\ leave(returned(mem, FALSE), mem)
        /\ UNCHANGED <<ledger, journal>>
  /\ UNCHANGED <<files, backup, nvars>>

-----------------------------------------------------------------------------
(* The node's own process, the Controller and its administrator            *)

nodeReports ==
  /\ up
  /\ status' = [version |-> unit, after |-> TRUE]
  /\ UNCHANGED <<ledger, pvars, dvars, unit, up, net, faults>>

\* A report that the old process sent arrives after SwitchAt.
lateReport ==
  /\ ~status.after
  /\ status' = [status EXCEPT !.after = TRUE]
  /\ UNCHANGED <<ledger, pvars, dvars, unit, up, net, faults>>

\* The node's process dies and is started again by its supervisor.
nodeRestarts ==
  /\ up /\ Fault
  /\ unit' = IF Mode = "systemd" THEN files["xmesh"] ELSE unit
  /\ UNCHANGED <<ledger, pvars, dvars, up, status, net>>

announce(t, v) ==
  /\ t \notin ManualID
  /\ Announce([x \in {t} |-> [stage |-> "waiting", node |-> Host,
                              from |-> status.version, target |-> v]])
  /\ UNCHANGED <<pvars, dvars, nvars, net, faults>>

\* cancelUpgrade, a preparation that fails, a task that expires unclaimed.
withdraw(t) ==
  /\ ledger[t].stage = "waiting"
  /\ \E s \in Withdrawn : Withdraw({t}, s)
  /\ UNCHANGED <<pvars, dvars, nvars, net, faults>>

-----------------------------------------------------------------------------

Init ==
  /\ LedgerInit
  /\ proc = "none" /\ pc = "off" /\ cur = None /\ step = 1
  /\ mem = NoJournal /\ via = "run" /\ jobs = {}
  /\ journal = [t \in TaskID |-> NoJournal]
  /\ \E C \in Install, v \in Version :
       /\ files = [c \in C |-> v]
       /\ unit = v
       /\ status = [version |-> v, after |-> TRUE]
  /\ backup = [t \in TaskID |-> None]
  /\ up = TRUE
  /\ net = {} /\ faults = 0

Process ==
  \/ \E t \in TaskID : recoverJob(t) \/ poll(t)
  \/ \E t \in TaskID, v \in Version : reserve(t, v)
  \/ jobsDone \/ retryManual \/ giveUp \/ startManual \/ execute
  \/ saveDownloading \/ prepare \/ savePrepared \/ saveSwitching
  \/ switchVersion \/ saveVerifying \/ verify \/ finishDocker
  \/ saveRollingBack \/ restore \/ verifyRollback \/ saveDone \/ reportTerminal

Environment ==
  \/ \E m \in net : deliver(m)
  \/ nodeReports \/ lateReport \/ nodeRestarts
  \/ \E t \in TaskID : withdraw(t) \/ \E v \in Version : announce(t, v)
  \/ start("local") \/ crash

Next == Process \/ Environment \/ start("daemon")

Spec == Init /\ [][Next]_vars

\* The process runs; systemd restarts the daemon whenever it ends (Restart=always)
\* and the installer does after every run of its own, however often it runs; a
\* running node reports its status every few seconds.
FairSpec == Spec /\ WF_vars(Process) /\ SF_vars(start("daemon")) /\ WF_vars(nodeReports)

-----------------------------------------------------------------------------
(* Properties                                                              *)

Unsettled == {"switching", "verifying", "rolling_back"}
Working == {"downloading", "prepared"} \cup Unsettled
Uniform(f) == \A c, d \in Comp : f[c] = f[d]
NeedsHelp == \E t \in TaskID : journal[t].result = "manual_intervention"

\* Half installed files or a stopped node are always accounted for by a journal
\* from which recovery continues: whatever step the helper dies at, a journal in
\* phase switching, verifying or rolling_back exists, unless a human was asked
\* to help (saveJournal before switchVersion, recoverJobs).
TornAccounted ==
  \/ Uniform(files) /\ up
  \/ NeedsHelp
  \/ \E t \in TaskID : journal[t].phase \in Unsettled

\* What the journal records as the outcome is what the host has.  Only a job
\* whose journal says so changes files.  After a success the target is installed
\* everywhere and runs; a job that failed before the switch left every file it
\* saved as it was; after a rollback what was saved is back and the node runs:
\* under Docker the old image, under systemd the version restored or, because
\* restore ignores an error of "stop" and the check may be met by a status from
\* before the switch, still the process that was running: the target's or the one
\* from before (resumeVerification, failBeforeSwitch, rollback).
Restored(t) == \A c \in Comp : files[c] = backup[t][c]
OutcomeTrue ==
  [][/\ files' # files => cur \in TaskID /\ journal[cur].phase \in Unsettled
     /\ \A t \in TaskID : journal[t].phase # "done" /\ journal'[t].phase = "done" =>
          CASE journal'[t].result = "succeeded" ->
                 up /\ unit = journal[t].target /\ \A c \in Comp : files[c] = journal[t].target
            [] journal'[t].result = "rolled_back" ->
                 /\ up /\ Restored(t)
                 /\ IF Mode = "docker" THEN unit = backup[t]["image"]
                                       ELSE unit \in {files["xmesh"], backup[t]["image"], journal[t].target}
            [] journal'[t].result = "failed" ->
                 journal[t].phase \notin Unsettled /\ (backup[t] # None => Restored(t))
            [] OTHER -> TRUE]_vars

\* The Controller and the host never disagree about an outcome: the journal
\* holds it, durably, before the Controller may learn it, late and repeated
\* reports included (reportTerminal, updaterReport).  The one outcome without a
\* journal is a batch task whose preparation failed in the Controller, which no
\* helper ever starts.
Agreement ==
  \A t \in TaskID : ledger[t].stage \in Outcomes =>
    \/ journal[t].phase = "done" /\ journal[t].result = ledger[t].stage
    \/ journal[t].phase = "none" /\ ledger[t].stage = "failed" /\ t \notin ManualID

\* While a job may change the host the Controller has its task in flight, so
\* it starts nothing else on the node; hence two jobs never overlap, daemon or
\* installer, before or after a crash.
WorkKnown ==
  \A t \in TaskID : journal[t].phase \in Working =>
    /\ ledger[t].stage \in InFlight
    /\ \A u \in TaskID : journal[u].phase \in Working => u = t

\* The daemon was told off by a failed journal write and does not look at the
\* job again before it is restarted ("unfinished job requires recovery").
Abandoned(t) == pc = "idle" /\ journal[t].phase \in Working \ {"verifying"}

\* The installer reserved an upgrade to the version that is installed; every
\* start of the helper ends at the Controller's refusal (400).
Refused == \E t \in ManualID : journal[t].phase = "reserving" /\ journal[t].from = journal[t].target

\* The outcome cannot be reported: the Controller finds its error text too long.
Unreportable(t) == journal[t].phase = "done" /\ journal[t].long

\* A claimed task gets an outcome, across failed journal writes and crashes: a
\* job that a failed write left behind is settled by the next start of the helper
\* (recoverJobs).  The exceptions: that start never comes, the outcome's error
\* text is too long, or a reservation that the Controller refuses keeps the
\* helper from running.
ClaimedSettles ==
  \A t \in TaskID \ ManualID :
    ledger[t].stage \in InFlight ~>
      \/ ledger[t].stage \in Outcomes \/ Unreportable(t) \/ Refused
      \/ [](proc = "daemon" /\ journal[t].phase \in Working \ {"verifying"})

\* The Controller learns of every failure, so that the batch pauses ("Batch tasks
\* run one node at a time and pause on failure", docs/automation.md): it does not,
\* when the error text is longer than updaterReport takes.
FailureReported ==
  \A t \in TaskID \ ManualID :
    journal[t].result \in Failures ~> (ledger[t].stage \in Failures \/ Refused)

\* A node that the helper stopped runs again, unless a human was asked to help
\* or the job was abandoned, across crashes of the helper and of the host.
ServiceReturns ==
  []<>(up \/ NeedsHelp \/ \E t \in TaskID : Abandoned(t))

=============================================================================
