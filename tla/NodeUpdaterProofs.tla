------------------------- MODULE NodeUpdaterProofs --------------------------
(***************************************************************************)
(* Proofs about the upgrade helper, for any tasks, installations, versions, *)
(* crashes, failures and bounds: the Controller and the host agree on every *)
(* outcome; a job that may change the host is one the Controller has in    *)
(* flight; half installed files are always accounted for; and an outcome in *)
(* a journal is what the host has.                                         *)
(***************************************************************************)
EXTENDS NodeUpdater, TLAPS

\* The provers for a step, in turn: most need no more than Zenon.
USE ZenonT(4), SMTT(30), ZenonT(30)
-----------------------------------------------------------------------------
\* The Controller, the helper and the journal.

\* The fields of a journal and of an entry of the ledger.
JournalShape(j) ==
  j = [phase |-> j.phase, result |-> j.result, reported |-> j.reported,
       long |-> j.long, from |-> j.from, target |-> j.target]
EntryShape(e) ==
  e = [stage |-> e.stage, node |-> e.node, from |-> e.from, target |-> e.target]

\* A request tells the Controller an outcome only if the journal holds it.
Truthful(m) ==
  /\ m.task \in TaskID
  /\ m.stage \in Progress \cup Outcomes \cup {"manual"}
  /\ m.stage \in Outcomes => journal[m.task].phase = "done" /\ journal[m.task].result = m.stage

\* What holds of ledger, journals and requests wherever the process is.
World ==
  /\ journal = [t \in TaskID |-> journal[t]] /\ \A t \in TaskID : JournalShape(journal[t])
  /\ ledger = [t \in TaskID |-> ledger[t]] /\ \A t \in TaskID : EntryShape(ledger[t])
  /\ Agreement
  /\ \A t \in TaskID : journal[t].phase = "done" => journal[t].result \in Outcomes
  /\ \A m \in net : Truthful(m)
  /\ \A t \in TaskID : ledger[t].stage \in Opened => ledger[t].node = Host
  /\ \A t, u \in TaskID : ledger[t].stage \in Opened /\ ledger[u].stage \in Opened => t = u
  /\ \A t \in TaskID : journal[t].phase \in Working => ledger[t].stage \in InFlight
  /\ \A t \in TaskID \ ManualID : journal[t].phase # "none" => ledger[t].stage \in InFlight \cup Outcomes
  /\ \A t \in TaskID : /\ ledger[t].stage = "waiting" => t \notin ManualID
                       /\ journal[t].phase = "reserving" => t \in ManualID

\* The steps of a job that has no outcome, and those that may change the host.
Acting == {"download", "prepare", "prepared", "switching", "switch", "verify", "finish",
           "rollback", "restore"}
Undecided == Acting \cup {"retry", "save", "manual"}

\* What the process relies on at each of its steps.
Place ==
  /\ JournalShape(mem)
  /\ pc \in Undecided \cup {"execute", "report"} => cur \in TaskID
  /\ pc \in Undecided => /\ journal[cur].phase # "done"
                         /\ cur \in ManualID \/ ledger[cur].stage \in InFlight
  /\ pc \in Acting => ledger[cur].stage \in InFlight
  /\ pc = "execute" => ledger[cur].stage \in InFlight \/ journal[cur].phase = "done"
  /\ pc = "retry" => cur \in ManualID
  /\ pc = "manual" => cur \in ManualID /\ ledger[cur].stage \in {"none"} \cup InFlight
  /\ pc \in {"download", "prepare"} => mem.phase = "downloading"
  /\ pc = "prepared" => mem.phase = "prepared"
  /\ pc = "switching" => mem.phase = "switching"
  /\ pc = "save" => mem.phase = "done" /\ mem.result \in Outcomes
  /\ pc = "report" => /\ mem.phase = "done" /\ mem.result \in Outcomes
                      /\ journal[cur].phase = "done" /\ journal[cur].result = mem.result

IInv == World /\ Place

\* The stages of the ledger and the phases of a journal are apart.
LEMMA StageFacts ==
  /\ Outcomes \cap Opened = {} /\ "none" \notin Opened /\ "manual" \notin Opened \cup Outcomes
  /\ "waiting" \notin InFlight /\ Withdrawn \cap Opened = {} /\ Withdrawn \cap Outcomes = {"failed"}
  /\ "none" \notin InFlight /\ "waiting" \notin Withdrawn
  /\ "running" \in InFlight /\ InFlight \subseteq Opened /\ Progress \subseteq InFlight
  /\ "none" \notin Outcomes /\ "waiting" \notin Outcomes /\ "waiting" \in Opened
  /\ "done" \notin Working /\ "reserving" \notin Working /\ "none" \notin Working
BY ProgressAssumption DEF Outcomes, Failures, InFlight, Opened, Working, Unsettled, Withdrawn

\* Nobody waits for a request any more: at most it is added to those on their way.
LEMMA SendFacts ==
  ASSUME NEW m, send(m) PROVE net' = net \/ net' = net \cup {m}
BY DEF send

\* Where leave goes.
LEMMA LeaveFacts ==
  ASSUME NEW err, NEW j, leave(err, j), JournalShape(j)
  PROVE  /\ JournalShape(mem')
         /\ \/ pc' \in {"off", "idle", "jobs"}
            \/ pc' = "report" /\ mem' = j /\ cur' = cur /\ err = "rolled_back"
<1>1. JournalShape(NoJournal)
  BY DEF JournalShape, NoJournal
<1>2. CASE stopped
  BY <1>1, <1>2 DEF stopped
<1> QED
  BY <1>1, <1>2 DEF leave

\* Between jobs the process relies on nothing.
LEMMA Rests ==
  ASSUME JournalShape(mem'), pc' \in {"off", "idle", "jobs", "reserve"}
  PROVE  Place'
BY DEF Place, Undecided, Acting

\* A step that changes neither ledger nor journals and sends truthful requests.
LEMMA WorldKept ==
  ASSUME World, UNCHANGED <<ledger, journal>>, \A m \in net' : m \in net \/ Truthful(m)
  PROVE  World'
BY DEF World, Agreement, Truthful

\* saveJournal of job c: an outcome is never replaced, and a job that may change
\* the host is in flight.
Replaces(c, j) ==
  /\ journal' \in {journal, [journal EXCEPT ![c] = j]}
  /\ JournalShape(j)
  /\ journal[c].phase = "done" => j.phase = "done" /\ j.result = journal[c].result
  /\ j.phase = "done" => j.result \in Outcomes
  /\ j.phase \in Working => ledger[c].stage \in InFlight
  /\ c \in ManualID \/ ledger[c].stage \in InFlight
  /\ j.phase = "reserving" => c \in ManualID

\* A journal is replaced, or its write fails: nothing the ledger or a report says
\* becomes false.
LEMMA WorldWritten ==
  ASSUME World, NEW c \in TaskID, NEW j, Replaces(c, j), UNCHANGED ledger,
         \A m \in net' : m \in net \/ (Truthful(m) /\ m.stage \notin Outcomes)
  PROVE  World'
<1>1. CASE journal' = journal
  BY <1>1, WorldKept
<1>2. CASE journal' = [journal EXCEPT ![c] = j]
  <2>1. /\ journal' = [t \in TaskID |-> journal'[t]]
        /\ journal'[c] = j
        /\ \A t \in TaskID : t # c => journal'[t] = journal[t]
    BY <1>2 DEF World
  <2>2. \A t \in TaskID : journal[t].phase = "done" =>
           journal'[t].phase = "done" /\ journal'[t].result = journal[t].result
    BY <2>1 DEF Replaces
  <2>3. Agreement'
    <3>1. SUFFICES ASSUME NEW t \in TaskID, ledger[t].stage \in Outcomes
                   PROVE  \/ journal'[t].phase = "done" /\ journal'[t].result = ledger[t].stage
                          \/ journal'[t].phase = "none" /\ ledger[t].stage = "failed" /\ t \notin ManualID
      BY DEF Agreement
    <3>2. CASE t = c
      BY <2>2, <3>1, <3>2, StageFacts DEF World, Agreement, Replaces
    <3>3. CASE t # c
      BY <2>1, <3>1, <3>3 DEF World, Agreement
    <3> QED
      BY <3>2, <3>3
  <2>4. \A m \in net' : Truthful(m)'
    BY <2>2 DEF World, Truthful
  <2>5. /\ \A t \in TaskID : JournalShape(journal'[t])
        /\ \A t \in TaskID : journal'[t].phase = "done" => journal'[t].result \in Outcomes
        /\ \A t \in TaskID : journal'[t].phase \in Working => ledger'[t].stage \in InFlight
    BY <2>1 DEF World, Replaces
  <2>6. /\ \A t \in TaskID \ ManualID : journal'[t].phase # "none" => ledger'[t].stage \in InFlight \cup Outcomes
        /\ \A t \in TaskID : /\ ledger'[t].stage = "waiting" => t \notin ManualID
                             /\ journal'[t].phase = "reserving" => t \in ManualID
    BY <2>1 DEF World, Replaces
  <2> QED
    BY <2>1, <2>3, <2>4, <2>5, <2>6 DEF World
<1> QED
  BY <1>1, <1>2 DEF Replaces

\* The journals keep their phases and results.
SameOutcomes ==
  /\ journal' = [t \in TaskID |-> journal'[t]]
  /\ \A t \in TaskID : /\ JournalShape(journal'[t])
                       /\ journal'[t].phase = journal[t].phase
                       /\ journal'[t].result = journal[t].result

\* Journals that do not change keep their outcomes.
LEMMA SameJournal ==
  ASSUME World, UNCHANGED journal PROVE SameOutcomes
BY DEF World, SameOutcomes

\* The entry of task t becomes e: an outcome only if the journal holds it or the
\* task is given up before any helper starts it, open
\* only if no other is, and in flight while the job may change the host.
Becomes(t, e) ==
  /\ ledger' = [ledger EXCEPT ![t] = e]
  /\ EntryShape(e)
  /\ e.stage \in Outcomes =>
       \/ journal[t].phase = "done" /\ journal[t].result = e.stage
       \/ journal[t].phase = "none" /\ e.stage = "failed" /\ t \notin ManualID
  /\ t \notin ManualID /\ journal[t].phase # "none" => e.stage \in InFlight \cup Outcomes
  /\ e.stage = "waiting" => t \notin ManualID
  /\ e.stage \in Opened => /\ e.node = Host
                           /\ \A u \in TaskID : ledger[u].stage \in Opened => u = t
  /\ journal[t].phase \in Working => e.stage \in InFlight

\* One entry of the ledger changes and no outcome in a journal does.
LEMMA WorldMoved ==
  ASSUME World, NEW t \in TaskID, NEW e, Becomes(t, e), SameOutcomes, net' \subseteq net
  PROVE  World'
<1>1. /\ ledger' = [u \in TaskID |-> ledger'[u]]
      /\ ledger'[t] = e
      /\ \A u \in TaskID : u # t => ledger'[u] = ledger[u]
  BY DEF World, Becomes
<1>2. Agreement'
  BY <1>1 DEF World, Agreement, Becomes, SameOutcomes
<1>3. \A m \in net' : Truthful(m)'
  BY DEF World, Truthful, SameOutcomes
<1>4. /\ \A u \in TaskID : EntryShape(ledger'[u])
      /\ \A u \in TaskID : ledger'[u].stage \in Opened => ledger'[u].node = Host
      /\ \A u \in TaskID : journal'[u].phase \in Working => ledger'[u].stage \in InFlight
      /\ \A u \in TaskID : journal'[u].phase = "done" => journal'[u].result \in Outcomes
  BY <1>1 DEF World, Becomes, SameOutcomes
<1>5. \A u, w \in TaskID : ledger'[u].stage \in Opened /\ ledger'[w].stage \in Opened => u = w
  BY <1>1 DEF World, Becomes
<1>6. /\ \A u \in TaskID \ ManualID : journal'[u].phase # "none" => ledger'[u].stage \in InFlight \cup Outcomes
      /\ \A u \in TaskID : /\ ledger'[u].stage = "waiting" => u \notin ManualID
                           /\ journal'[u].phase = "reserving" => u \in ManualID
  BY <1>1 DEF World, Becomes, SameOutcomes
<1> QED
  BY <1>1, <1>2, <1>3, <1>4, <1>5, <1>6 DEF World, SameOutcomes

\* A move of the ledger that no step of the process needs to fear.
Keeps ==
  \A u \in TaskID : journal[u].phase # "done" =>
    /\ ledger[u].stage \in InFlight => ledger'[u].stage \in InFlight
    /\ u \in ManualID /\ ledger[u].stage \in {"none"} \cup InFlight
         => ledger'[u].stage \in {"none"} \cup InFlight

\* The ledger moves under a process that takes no step itself.
LEMMA PlaceKept ==
  ASSUME Place, Keeps, UNCHANGED <<pvars, journal>>
  PROVE  Place'
BY DEF Place, Keeps, pvars, Acting, Undecided

\* A truthful report, prompt or late.
LEMMA ReportTaken ==
  ASSUME World, NEW t \in TaskID, NEW s \in Progress \cup Outcomes,
         s \in Outcomes => journal[t].phase = "done" /\ journal[t].result = s,
         ledger[t].stage \in InFlight \cup {s}, takeReport(t, s), SameOutcomes, net' \subseteq net
  PROVE  World' /\ Keeps
<1> DEFINE e == [ledger[t] EXCEPT !.stage = s]
<1>1. CASE ledger' = ledger
  <2>1. World'
    BY <1>1 DEF World, Agreement, Truthful, SameOutcomes
  <2> QED
    BY <1>1, <2>1 DEF Keeps
<1>2. CASE ledger[t].stage # s /\ Report(t, s)
  <2>1. EntryShape(ledger[t]) /\ ledger[t].stage \in InFlight
    BY <1>2 DEF World, Report
  <2>2. /\ EntryShape(e) /\ e.stage = s /\ e.node = ledger[t].node
        /\ ledger' = [ledger EXCEPT ![t] = e]
    BY <1>2, <2>1 DEF EntryShape, Report
  <2> HIDE DEF e
  <2>3. /\ ledger[t].stage \in Opened /\ e.node = Host
        /\ \A u \in TaskID : ledger[u].stage \in Opened => u = t
    BY <2>1, <2>2, StageFacts DEF World
  <2>4. journal[t].phase \in Working => e.stage \in InFlight
    BY <2>2, StageFacts
  <2>5. Becomes(t, e)
    BY <2>2, <2>3, <2>4, StageFacts DEF Becomes
  <2>6. Keeps
    BY <2>2, StageFacts DEF Keeps, World
  <2> QED
    BY <2>5, <2>6, WorldMoved
<1> QED
  BY <1>1, <1>2 DEF takeReport

\* startManualUpgrade, prompt or late: the task is registered now or was before.
LEMMA ManualTaken ==
  ASSUME World, NEW m, m.task \in TaskID, acceptsManual(m), takeManual(m), UNCHANGED journal,
         net' \subseteq net
  PROVE  /\ World' /\ Keeps
         /\ ledger[m.task].stage \in {"none"} \cup InFlight => ledger'[m.task].stage \in InFlight
<1> DEFINE e == manualEntry(m)
<1>1. SameOutcomes
  BY SameJournal
<1>2. CASE ledger[m.task].stage # "none"
  <2>1. ledger' = ledger
    BY <1>2 DEF takeManual
  <2>2. World'
    BY <2>1 DEF World, Agreement, Truthful
  <2> QED
    BY <1>2, <2>1, <2>2 DEF Keeps
<1>3. CASE ledger[m.task].stage = "none"
  <2>1. EntryShape(e) /\ e.stage = "running" /\ e.node = Host
    BY DEF manualEntry, EntryShape
  <2>2. ledger' = [ledger EXCEPT ![m.task] = e] /\ ~Busy(Host)
    BY <1>3, <2>1 DEF takeManual, Register, acceptsManual, Openable
  <2> HIDE DEF e
  <2>3. \A u \in TaskID : ledger[u].stage \notin Opened
    BY <2>2 DEF World, Busy
  <2>4. Becomes(m.task, e)
    BY <2>1, <2>2, <2>3, StageFacts DEF Becomes
  <2>5. World'
    BY <1>1, <2>4, WorldMoved
  <2>6. Keeps /\ ledger'[m.task].stage = "running"
    BY <2>1, <2>2, StageFacts DEF Keeps, World
  <2> QED
    BY <2>5, <2>6, StageFacts
<1> QED
  BY <1>2, <1>3

\* A progress report is truthful.
LEMMA ProgressSent ==
  ASSUME NEW t \in TaskID, NEW s \in Progress, NEW long, report(t, s, long)
  PROVE  \A m \in net' : m \in net \/ (Truthful(m) /\ m.stage \notin Outcomes)
<1> DEFINE m == [task |-> t, stage |-> s, from |-> None, target |-> None]
<1>1. net' = net \/ net' = net \cup {m}
  BY SendFacts DEF report
<1>2. Truthful(m) /\ m.stage \notin Outcomes
  BY StageFacts DEF Truthful
<1> QED
  BY <1>1, <1>2

\* Changing a phase, a result or the acknowledgement keeps the shape of a journal.
LEMMA ShapePhase ==
  ASSUME NEW j, JournalShape(j), NEW p
  PROVE  /\ JournalShape([j EXCEPT !.phase = p])
         /\ [j EXCEPT !.phase = p].phase = p
         /\ [j EXCEPT !.phase = p].result = j.result
BY DEF JournalShape

\* Writing a result into a journal.
LEMMA ShapeResult ==
  ASSUME NEW j, JournalShape(j), NEW r
  PROVE  /\ JournalShape([j EXCEPT !.result = r])
         /\ [j EXCEPT !.result = r].phase = j.phase
         /\ [j EXCEPT !.result = r].result = r
BY DEF JournalShape

\* Finishing a journal with a result.
LEMMA ShapeDone ==
  ASSUME NEW j, JournalShape(j), NEW r
  PROVE  /\ JournalShape([j EXCEPT !.phase = "done", !.result = r])
         /\ [j EXCEPT !.phase = "done", !.result = r].phase = "done"
         /\ [j EXCEPT !.phase = "done", !.result = r].result = r
<1> DEFINE k == [j EXCEPT !.phase = "done"]
<1>1. JournalShape(k) /\ k.phase = "done"
  BY ShapePhase
<1>2. [j EXCEPT !.phase = "done", !.result = r] = [k EXCEPT !.result = r]
  BY DEF JournalShape
<1> HIDE DEF k
<1> QED
  BY <1>1, <1>2, ShapeResult

\* The journal of the current job with its outcome.
LEMMA FinishedOf ==
  ASSUME JournalShape(mem), NEW r
  PROVE  /\ JournalShape(finished(r)) /\ finished(r).phase = "done" /\ finished(r).result = r
         /\ finished(r).target = mem.target
<1>1. JournalShape(finished(r)) /\ finished(r).phase = "done" /\ finished(r).result = r
  BY ShapeDone DEF finished
<1>2. finished(r).target = mem.target
  BY DEF finished, JournalShape
<1> QED
  BY <1>1, <1>2

\* Marking a journal as reported or not.
LEMMA ShapeReported ==
  ASSUME NEW j, JournalShape(j), NEW b
  PROVE  /\ JournalShape([j EXCEPT !.reported = b])
         /\ [j EXCEPT !.reported = b].phase = j.phase
         /\ [j EXCEPT !.reported = b].result = j.result
BY DEF JournalShape

\* The error text of a journal may be too long for the Controller.
LEMMA ShapeOutput ==
  ASSUME NEW j, JournalShape(j), NEW k \in outputOf(j)
  PROVE  JournalShape(k) /\ k.phase = j.phase /\ k.result = j.result /\ k.target = j.target
BY DEF JournalShape, outputOf

\* The errors of a command are among its outputs.
LEMMA ErrorOutput ==
  ASSUME NEW s, NEW j PROVE errorOf(s, j) \subseteq outputOf(j) /\ j \in outputOf(j)
BY DEF errorOf, outputOf

\* The journal of a task never seen.
LEMMA ShapeNone == JournalShape(NoJournal)
BY DEF JournalShape, NoJournal

\* Starting, stopping and the node's own process.
LEMMA StepOutside ==
  ASSUME IInv, \/ crash \/ jobsDone \/ giveUp \/ nodeReports \/ lateReport \/ nodeRestarts
               \/ start("daemon") \/ start("local")
  PROVE  IInv'
<1>1. UNCHANGED <<ledger, journal, net>>
  BY DEF crash, jobsDone, giveUp, nodeReports, lateReport, nodeRestarts, start, dvars
<1>2. World'
  BY <1>1, WorldKept DEF IInv
<1>3. CASE UNCHANGED pvars
  BY <1>1, <1>2, <1>3, PlaceKept DEF IInv, Keeps
<1>4. CASE crash \/ jobsDone \/ giveUp \/ start("daemon") \/ start("local")
  <2>1. JournalShape(mem') /\ pc' \in {"off", "idle", "jobs", "reserve"}
    BY <1>4, ShapeNone DEF crash, jobsDone, giveUp, start, stopped, IInv, Place
  <2> QED
    BY <1>2, <2>1, Rests DEF IInv
<1> QED
  BY <1>2, <1>3, <1>4 DEF IInv, nodeReports, lateReport, nodeRestarts

\* recoverJobs enters a job where its journal left it.
LEMMA StepRecover ==
  ASSUME IInv, NEW t \in TaskID, recoverJob(t)
  PROVE  IInv'
<1> DEFINE j == journal[t]
<1>1. UNCHANGED <<ledger, journal, net>> /\ JournalShape(j) /\ pc = "jobs"
  BY DEF recoverJob, dvars, IInv, World
<1>2. World'
  BY <1>1, WorldKept DEF IInv
<1>3. /\ j.phase \in Working => ledger[t].stage \in InFlight
      /\ j.phase = "reserving" => t \in ManualID
  BY DEF IInv, World
<1>4. Place'
  <2>1. CASE j.phase = "reserving" /\ pc' = "retry" /\ mem' = j /\ cur' = t
    BY <1>1, <1>3, <2>1 DEF Place, Undecided, Acting
  <2>2. CASE j.phase = "verifying" /\ pc' = "verify" /\ mem' = j /\ cur' = t
    BY <1>1, <1>3, <2>2 DEF Place, Undecided, Acting, Working, Unsettled
  <2>3. CASE j.phase \in {"switching", "rolling_back"} /\ pc' = "rollback" /\ mem' = j /\ cur' = t
    BY <1>1, <1>3, <2>3 DEF Place, Undecided, Acting, Working, Unsettled
  <2>4. CASE /\ j.phase \in {"downloading", "prepared"} /\ pc' = "save" /\ cur' = t
             /\ mem' = [j EXCEPT !.phase = "done", !.result = "failed"]
    <3> DEFINE k == [j EXCEPT !.phase = "done", !.result = "failed"]
    <3>1. JournalShape(k) /\ k.phase = "done" /\ k.result = "failed"
      BY <1>1, ShapeDone, ZenonT(30)
    <3>2. mem' = k
      BY <2>4
    <3> HIDE DEF k
    <3> QED
      BY <1>1, <1>3, <2>4, <3>1, <3>2 DEF Place, Undecided, Acting, Working, Outcomes, Failures
  <2>5. CASE j.phase = "done" /\ pc' = "report" /\ mem' = j /\ cur' = t
    BY <1>1, <2>5 DEF Place, Undecided, Acting, IInv, World
  <2>6. CASE UNCHANGED <<pc, mem>>
    BY <1>1, <2>6, Rests DEF IInv, Place
  <2> QED
    BY <2>1, <2>2, <2>3, <2>4, <2>5, <2>6 DEF recoverJob
<1> QED
  BY <1>2, <1>4 DEF IInv

\* The Controller answers a reservation that is registered again.
LEMMA StepRetry ==
  ASSUME IInv, retryManual
  PROVE  IInv'
<1> DEFINE m == manualRequest(cur, mem)
<1>1. /\ cur \in TaskID /\ JournalShape(mem) /\ journal[cur].phase # "done"
      /\ World /\ UNCHANGED journal /\ pc = "retry" /\ cur \in ManualID
  BY DEF retryManual, IInv, Place, Undecided, dvars
<1>2. m.task = cur /\ m.stage = "manual"
  BY DEF manualRequest
<1>3. Truthful(m)
  BY <1>1, <1>2, StageFacts DEF Truthful
<1> HIDE DEF m
<1>4. ASSUME NEW j, goto("save", j), JournalShape(j), j.phase = "done", j.result = "failed"
      PROVE  Place'
  BY <1>1, <1>4 DEF goto, Place, Undecided, Acting, Outcomes, Failures
<1>5. /\ JournalShape(finished("failed")) /\ finished("failed").phase = "done"
      /\ finished("failed").result = "failed"
  BY <1>1, ShapeDone, ZenonT(30) DEF finished
<1>6. CASE acceptsManual(m) /\ takeManual(m) /\ goto("save", finished("failed")) /\ UNCHANGED net
  <2>1. World'
    BY <1>1, <1>2, <1>6, ManualTaken
  <2> QED
    BY <1>4, <1>5, <1>6, <2>1 DEF IInv
<1>7. CASE goto("save", [finished("failed") EXCEPT !.reported = TRUE]) /\ UNCHANGED <<ledger, net>>
  <2>1. World'
    BY <1>1, <1>7, WorldKept
  <2> DEFINE j == [finished("failed") EXCEPT !.reported = TRUE]
  <2>2. JournalShape(j) /\ j.phase = "done" /\ j.result = "failed"
    BY <1>5, ShapeReported
  <2> HIDE DEF j
  <2>3. goto("save", j)
    BY <1>7 DEF j
  <2> QED
    BY <1>4, <2>1, <2>2, <2>3 DEF IInv
<1>8. CASE leave("error", mem) /\ UNCHANGED ledger /\ (UNCHANGED net \/ send(m))
  <2>1. \A x \in net' : x \in net \/ Truthful(x)
    BY <1>3, <1>8, SendFacts
  <2>2. World'
    BY <1>1, <1>8, <2>1, WorldKept
  <2>3. Place'
    BY <1>1, <1>8, LeaveFacts, Rests
  <2> QED
    BY <2>2, <2>3 DEF IInv
<1> QED
  BY <1>6, <1>7, <1>8 DEF retryManual, m

\* tick takes the open task of the node.
LEMMA StepPoll ==
  ASSUME IInv, NEW t \in TaskID, poll(t)
  PROVE  IInv'
<1>1. World /\ UNCHANGED <<journal, net>> /\ JournalShape(mem)
  BY DEF poll, dvars, IInv, Place
<1>2. World' /\ ledger'[t].stage \in InFlight
  <2>1. CASE UNCHANGED ledger /\ ledger[t].stage \in InFlight
    BY <1>1, <2>1, WorldKept
  <2>2. CASE Claim(t)
    <3> DEFINE e == [ledger[t] EXCEPT !.stage = "running"]
    <3>1. /\ EntryShape(ledger[t]) /\ ledger[t].stage = "waiting"
          /\ ledger[t].stage \in Opened
      BY <2>2, StageFacts DEF IInv, World, Claim
    <3>2. /\ EntryShape(e) /\ e.stage = "running" /\ e.node = ledger[t].node
          /\ ledger' = [ledger EXCEPT ![t] = e]
      BY <2>2, <3>1 DEF EntryShape, Claim
    <3> HIDE DEF e
    <3>3. Becomes(t, e)
      BY <1>1, <3>1, <3>2, StageFacts DEF Becomes, World
    <3>4. World'
      BY <1>1, <3>3, SameJournal, WorldMoved
    <3> QED
      BY <1>1, <3>2, <3>4, StageFacts DEF World
  <2> QED
    BY <2>1, <2>2 DEF poll
<1>3. CASE pc' = "execute" /\ cur' = t
  <2>1. JournalShape(mem')
    BY <1>3 DEF poll, NoJournal, JournalShape
  <2> QED
    BY <1>2, <1>3, <2>1 DEF IInv, Place, Undecided, Acting
<1>4. CASE UNCHANGED <<pc, cur, mem>>
  BY <1>1, <1>2, <1>4, Rests DEF IInv, poll
<1> QED
  BY <1>3, <1>4 DEF poll

\* localUpgrade saves a reservation.
LEMMA StepReserve ==
  ASSUME IInv, NEW t \in TaskID, NEW v, reserve(t, v)
  PROVE  IInv'
<1> DEFINE j == [NoJournal EXCEPT !.phase = "reserving", !.from = status.version, !.target = v]
<1>1. /\ World /\ UNCHANGED <<ledger, net>> /\ journal[t].phase = "none" /\ ledger[t].stage = "none"
      /\ t \in ManualID
  BY DEF reserve, IInv
<1>2. JournalShape(j) /\ j.phase = "reserving"
  <2> DEFINE k == [NoJournal EXCEPT !.phase = "reserving"]
             l == [k EXCEPT !.from = status.version]
  <2>1. j = [l EXCEPT !.target = v]
    BY DEF NoJournal
  <2>2. JournalShape(k) /\ k.phase = "reserving"
    BY ShapeNone, ShapePhase
  <2> HIDE DEF k
  <2>3. JournalShape(l) /\ l.phase = "reserving"
    BY <2>2 DEF JournalShape
  <2> HIDE DEF l, j
  <2>4. JournalShape([l EXCEPT !.target = v]) /\ [l EXCEPT !.target = v].phase = "reserving"
    BY <2>3 DEF JournalShape
  <2> QED
    BY <2>1, <2>4
<1>3. journal' \in {journal, [journal EXCEPT ![t] = j]}
  BY DEF reserve
<1>4. CASE journal' = [journal EXCEPT ![t] = j] /\ pc' = "manual" /\ cur' = t /\ mem' = j
           /\ t \in ManualID
  <2> HIDE DEF j
  <2>1. World'
    BY <1>1, <1>2, <1>3, StageFacts, WorldWritten DEF Replaces
  <2>2. journal'[t] = j
    BY <1>1, <1>4 DEF World
  <2> QED
    BY <1>1, <1>2, <1>4, <2>1, <2>2 DEF IInv, Place, Undecided, Acting
<1>5. CASE stopped
  <2> HIDE DEF j
  <2>1. World'
    BY <1>1, <1>2, <1>3, StageFacts, WorldWritten DEF Replaces
  <2> QED
    BY <1>5, <2>1, Rests, ShapeNone DEF IInv, stopped
<1> QED
  BY <1>4, <1>5 DEF reserve

\* The Controller answers the installer.
LEMMA StepManual ==
  ASSUME IInv, startManual
  PROVE  IInv'
<1> DEFINE m == manualRequest(cur, mem)
<1>1. /\ cur \in TaskID /\ JournalShape(mem) /\ World /\ UNCHANGED journal /\ pc = "manual"
      /\ ledger[cur].stage \in {"none"} \cup InFlight
  BY DEF startManual, IInv, Place, Undecided, dvars
<1>2. m.task = cur /\ m.stage = "manual"
  BY DEF manualRequest
<1>3. Truthful(m)
  BY <1>1, <1>2, StageFacts DEF Truthful
<1> HIDE DEF m
<1>4. CASE acceptsManual(m) /\ takeManual(m) /\ goto("execute", mem) /\ UNCHANGED net
  <2>1. World' /\ ledger'[cur].stage \in InFlight
    BY <1>1, <1>2, <1>4, ManualTaken
  <2> QED
    BY <1>1, <1>4, <2>1 DEF IInv, Place, goto, Undecided, Acting
<1>5. CASE stopped /\ UNCHANGED ledger /\ (UNCHANGED net \/ send(m))
  <2>1. \A x \in net' : x \in net \/ Truthful(x)
    BY <1>3, <1>5, SendFacts
  <2>2. World'
    BY <1>1, <1>5, <2>1, WorldKept
  <2> QED
    BY <1>5, <2>2, Rests, ShapeNone DEF IInv, stopped
<1> QED
  BY <1>4, <1>5 DEF startManual, m

\* execute looks at the journal of its task.
LEMMA StepExecute ==
  ASSUME IInv, execute
  PROVE  IInv'
<1> DEFINE j == journal[cur]
<1>1. /\ cur \in TaskID /\ JournalShape(mem) /\ JournalShape(j) /\ pc = "execute"
      /\ UNCHANGED <<ledger, journal, net>>
      /\ ledger[cur].stage \in InFlight \/ j.phase = "done"
  BY DEF execute, IInv, Place, World, Undecided, dvars
<1>2. World'
  BY <1>1, WorldKept DEF IInv
<1>3. CASE /\ j.phase \in {"none", "reserving"}
           /\ goto("download", [mem EXCEPT !.phase = "downloading"])
  <2> DEFINE k == [mem EXCEPT !.phase = "downloading"]
  <2>1. JournalShape(k) /\ k.phase = "downloading"
    BY <1>1, ShapePhase
  <2>2. pc' = "download" /\ mem' = k /\ cur' = cur
    BY <1>3 DEF goto
  <2> HIDE DEF k
  <2> QED
    BY <1>1, <1>2, <1>3, <2>1, <2>2 DEF IInv, Place, Undecided, Acting
<1>4. CASE j.phase = "done" /\ goto("report", j)
  BY <1>1, <1>2, <1>4 DEF IInv, Place, World, goto, Undecided, Acting
<1>5. CASE j.phase = "verifying" /\ goto("verify", j)
  BY <1>1, <1>2, <1>5 DEF IInv, Place, goto, Undecided, Acting
<1>6. CASE leave("error", j)
  BY <1>1, <1>2, <1>6, LeaveFacts, Rests DEF IInv
<1> QED
  BY <1>3, <1>4, <1>5, <1>6 DEF execute

-----------------------------------------------------------------------------
(* The steps of a job                                                      *)

\* saveJournal in a job without an outcome, with or without its effect.
LEMMA Saves ==
  ASSUME IInv, pc \in Undecided, NEW j, JournalShape(j), saved(j) \/ saveFailed(j),
         j.phase = "done" => j.result \in Outcomes,
         j.phase \in Working => pc \in Acting, j.phase # "reserving",
         UNCHANGED ledger,
         \A m \in net' : m \in net \/ (Truthful(m) /\ m.stage \notin Outcomes)
  PROVE  /\ World'
         /\ saved(j) => journal'[cur] = j
         /\ j.phase # "done" => journal'[cur].phase # "done"
<1>1. World /\ cur \in TaskID /\ journal[cur].phase # "done"
      /\ (pc \in Acting => ledger[cur].stage \in InFlight)
      /\ (cur \in ManualID \/ ledger[cur].stage \in InFlight)
  BY DEF IInv, Place
<1>2. Replaces(cur, j)
  BY <1>1 DEF Replaces, saved, saveFailed
<1>3. World'
  BY <1>1, <1>2, WorldWritten
<1> QED
  BY <1>1, <1>2, <1>3 DEF World, Replaces, saved

\* The job goes on with a step that may change the host.
LEMMA GoesOn ==
  ASSUME cur \in TaskID, NEW l \in Acting, NEW j, goto(l, j), JournalShape(j),
         ledger'[cur].stage \in InFlight, journal'[cur].phase # "done",
         l \in {"download", "prepare"} => j.phase = "downloading",
         l = "prepared" => j.phase = "prepared", l = "switching" => j.phase = "switching"
  PROVE  Place'
BY DEF Place, goto, Undecided, Acting

\* The job has an outcome to save.
LEMMA GoesToSave ==
  ASSUME cur \in TaskID, JournalShape(mem), NEW r \in Outcomes,
         NEW k \in outputOf(finished(r)), goto("save", k), journal'[cur].phase # "done",
         cur \in ManualID \/ ledger'[cur].stage \in InFlight
  PROVE  Place'
<1>1. JournalShape(k) /\ k.phase = "done" /\ k.result = r
  BY FinishedOf, ShapeOutput
<1>2. pc' = "save" /\ mem' = k /\ cur' = cur
  BY DEF goto
<1> QED
  BY <1>1, <1>2 DEF Place, Undecided, Acting

\* The job ends with an error: its outcome is open.
LEMMA Gives ==
  ASSUME NEW j, JournalShape(j), leave("error", j) \/ leave("unavailable", j) \/ leave("", j)
  PROVE  Place'
<1>1. ASSUME NEW err, err # "rolled_back", leave(err, j)
      PROVE  Place'
  <2>1. JournalShape(mem') /\ pc' \in {"off", "idle", "jobs"}
    BY <1>1, LeaveFacts
  <2> QED
    BY <2>1, Rests
<1>2. "error" # "rolled_back" /\ "unavailable" # "rolled_back" /\ "" # "rolled_back"
  OBVIOUS
<1> QED
  BY <1>1, <1>2

\* While a job may change the host its task is in flight and has no outcome.
LEMMA InJob ==
  ASSUME IInv, pc \in Acting
  PROVE  /\ World /\ JournalShape(mem) /\ cur \in TaskID /\ pc \in Undecided
         /\ journal[cur].phase # "done" /\ ledger[cur].stage \in InFlight
BY DEF IInv, Place, Undecided

\* The job's journal in its next phase.
LEMMA PhaseOf ==
  ASSUME JournalShape(mem), NEW p
  PROVE  JournalShape(inPhase(p)) /\ inPhase(p).phase = p
BY ShapePhase DEF inPhase

\* executeTask begins: the journal is saved in phase downloading.
LEMMA StepDownloading ==
  ASSUME IInv, saveDownloading
  PROVE  IInv'
<1>1. pc = "download" /\ pc \in Acting /\ mem.phase = "downloading" /\ UNCHANGED <<ledger, net>>
  BY DEF saveDownloading, IInv, Place, Acting
<1>2. World' /\ journal'[cur].phase # "done"
  BY <1>1, InJob, Saves DEF saveDownloading
<1>3. CASE goto("prepare", mem)
  BY <1>1, <1>2, <1>3, InJob, GoesOn DEF IInv, Acting
<1>4. CASE leave("error", mem)
  BY <1>1, <1>2, <1>4, InJob, Gives DEF IInv
<1> QED
  BY <1>3, <1>4 DEF saveDownloading

\* Download and backup, with the report that goes with them.
LEMMA StepPrepare ==
  ASSUME IInv, prepare
  PROVE  IInv'
<1>1. pc = "prepare" /\ pc \in Acting /\ mem.phase = "downloading" /\ UNCHANGED ledger
  BY DEF prepare, IInv, Place, Acting
<1>2. CASE report(cur, "downloading", FALSE) /\ goto("prepared", inPhase("prepared")) /\ UNCHANGED journal
  <2>1. World'
    BY <1>1, <1>2, InJob, ProgressSent, ProgressAssumption, WorldKept
  <2>2. Place'
    BY <1>1, <1>2, InJob, PhaseOf, GoesOn DEF Acting
  <2> QED
    BY <2>1, <2>2 DEF IInv
<1>3. CASE (\E j \in outputOf(finished("failed")) : goto("save", j)) /\ UNCHANGED <<journal, net>>
  <2>1. World'
    BY <1>1, <1>3, InJob, WorldKept
  <2>2. Place'
    BY <1>1, <1>3, InJob, GoesToSave DEF Outcomes, Failures
  <2> QED
    BY <2>1, <2>2 DEF IInv
<1>4. CASE saveFailed(mem) /\ leave("error", mem) /\ UNCHANGED net
  <2>1. World'
    BY <1>1, <1>4, InJob, Saves
  <2> QED
    BY <1>1, <1>4, <2>1, InJob, Gives DEF IInv
<1> QED
  BY <1>2, <1>3, <1>4 DEF prepare

\* The journal is saved in phase prepared.
LEMMA StepPrepared ==
  ASSUME IInv, savePrepared
  PROVE  IInv'
<1>1. pc = "prepared" /\ pc \in Acting /\ mem.phase = "prepared" /\ UNCHANGED ledger
  BY DEF savePrepared, IInv, Place, Acting
<1>2. CASE saved(mem) /\ report(cur, "prepared", FALSE) /\ goto("switching", inPhase("switching"))
  <2>1. World' /\ journal'[cur].phase # "done"
    BY <1>1, <1>2, InJob, ProgressSent, ProgressAssumption, Saves
  <2>2. Place'
    BY <1>1, <1>2, <2>1, InJob, PhaseOf, GoesOn DEF Acting
  <2> QED
    BY <2>1, <2>2 DEF IInv
<1>3. CASE saveFailed(mem) /\ leave("error", mem) /\ UNCHANGED net
  <2>1. World'
    BY <1>1, <1>3, InJob, Saves
  <2> QED
    BY <1>1, <1>3, <2>1, InJob, Gives DEF IInv
<1> QED
  BY <1>2, <1>3 DEF savePrepared

\* The journal is saved in phase switching, before the first command.
LEMMA StepSwitching ==
  ASSUME IInv, saveSwitching
  PROVE  IInv'
<1>1. pc = "switching" /\ pc \in Acting /\ mem.phase = "switching" /\ UNCHANGED ledger
  BY DEF saveSwitching, IInv, Place, Acting
<1>2. CASE saved(mem) /\ report(cur, "switching", FALSE) /\ goto("switch", mem)
  <2>1. World' /\ journal'[cur].phase # "done"
    BY <1>1, <1>2, InJob, ProgressSent, ProgressAssumption, Saves
  <2>2. Place'
    BY <1>1, <1>2, <2>1, InJob, GoesOn DEF Acting
  <2> QED
    BY <2>1, <2>2 DEF IInv
<1>3. CASE saveFailed(mem) /\ leave("error", mem) /\ UNCHANGED net
  <2>1. World'
    BY <1>1, <1>3, InJob, Saves
  <2> QED
    BY <1>1, <1>3, <2>1, InJob, Gives DEF IInv
<1> QED
  BY <1>2, <1>3 DEF saveSwitching

\* A command of the switch, of the restoration or of finishDocker.
LEMMA StepCommand ==
  ASSUME IInv, switchVersion \/ restore \/ finishDocker
  PROVE  IInv'
<1>1. /\ pc \in {"switch", "restore", "finish"} /\ pc \in Acting
      /\ UNCHANGED <<ledger, journal, net>>
  BY DEF switchVersion, restore, finishDocker, Acting
<1>2. World'
  BY <1>1, WorldKept DEF IInv
<1>3. CASE UNCHANGED <<pc, cur, mem>>
  BY <1>1, <1>2, <1>3 DEF IInv, Place, Acting, Undecided
<1>4. ASSUME NEW j \in outputOf(mem), goto("rollback", j)
      PROVE  IInv'
  <2>1. JournalShape(j)
    BY <1>1, <1>4, InJob, ShapeOutput
  <2> QED
    BY <1>1, <1>2, <1>4, <2>1, InJob, GoesOn DEF IInv, Acting
<1>5. ASSUME NEW r \in {"succeeded", "manual_intervention"}, NEW j \in outputOf(finished(r)), goto("save", j)
      PROVE  IInv'
  <2>1. r \in Outcomes
    BY DEF Outcomes, Failures
  <2> QED
    BY <1>1, <1>2, <1>5, <2>1, InJob, GoesToSave DEF IInv
<1>6. CASE switchVersion
  BY <1>3, <1>4, <1>6, ErrorOutput DEF switchVersion
<1>7. CASE restore
  <2>1. \/ UNCHANGED <<pc, cur, mem>>
        \/ \E j \in errorOf(RestoreSteps[step], finished("manual_intervention")) : goto("save", j)
    BY <1>7 DEF restore
  <2> QED
    BY <1>3, <1>5, <2>1, ErrorOutput
<1>8. CASE finishDocker
  <2>1. UNCHANGED <<pc, cur, mem>> \/ goto("rollback", mem) \/ goto("save", finished("succeeded"))
    BY <1>8 DEF finishDocker
  <2> QED
    BY <1>3, <1>4, <1>5, <2>1, ErrorOutput
<1> QED
  BY <1>6, <1>7, <1>8

\* The journal is saved in phase verifying, after the last command.
LEMMA StepVerifying ==
  ASSUME IInv, saveVerifying
  PROVE  IInv'
<1> DEFINE j == inPhase("verifying")
<1>1. pc = "switch" /\ pc \in Acting /\ UNCHANGED ledger
  BY DEF saveVerifying, Acting
<1>2. JournalShape(j) /\ j.phase = "verifying"
  BY <1>1, InJob, PhaseOf
<1> HIDE DEF j
<1>3. CASE saved(j) /\ report(cur, "verifying", FALSE) /\ goto("verify", j)
  <2>1. World' /\ journal'[cur].phase # "done"
    BY <1>1, <1>2, <1>3, InJob, ProgressSent, ProgressAssumption, Saves
  <2>2. Place'
    BY <1>1, <1>2, <1>3, <2>1, InJob, GoesOn DEF Acting
  <2> QED
    BY <2>1, <2>2 DEF IInv
<1>4. CASE saveFailed(j) /\ goto("rollback", j) /\ UNCHANGED net
  <2>1. World' /\ journal'[cur].phase # "done"
    BY <1>1, <1>2, <1>4, InJob, Saves
  <2>2. Place'
    BY <1>1, <1>2, <1>4, <2>1, InJob, GoesOn DEF Acting
  <2> QED
    BY <2>1, <2>2 DEF IInv
<1> QED
  BY <1>3, <1>4 DEF saveVerifying, j

\* Waiting for the node to report the target version.
LEMMA StepVerify ==
  ASSUME IInv, verify
  PROVE  IInv'
<1>1. pc = "verify" /\ pc \in Acting /\ UNCHANGED <<ledger, journal>>
  BY DEF verify, Acting, dvars
<1>2. CASE (goto("finish", mem) \/ goto("rollback", mem)) /\ UNCHANGED net
  <2>1. World'
    BY <1>1, <1>2, InJob, WorldKept
  <2> QED
    BY <1>1, <1>2, <2>1, InJob, GoesOn DEF IInv, Acting
<1>3. CASE report(cur, "uncertain", FALSE) /\ leave("unavailable", mem)
  <2>1. World'
    BY <1>1, <1>3, InJob, ProgressSent, ProgressAssumption, WorldKept
  <2> QED
    BY <1>1, <1>3, <2>1, InJob, Gives DEF IInv
<1> QED
  BY <1>2, <1>3 DEF verify

\* The journal is saved in phase rolling_back, before the first command.
LEMMA StepRollingBack ==
  ASSUME IInv, saveRollingBack
  PROVE  IInv'
<1> DEFINE j == inPhase("rolling_back")
<1>1. pc = "rollback" /\ pc \in Acting /\ UNCHANGED ledger
  BY DEF saveRollingBack, Acting
<1>2. JournalShape(j) /\ j.phase = "rolling_back"
  BY <1>1, InJob, PhaseOf
<1> HIDE DEF j
<1>3. CASE saved(j) /\ report(cur, "rolling_back", j.long) /\ goto("restore", j)
  <2>1. World' /\ journal'[cur].phase # "done"
    BY <1>1, <1>2, <1>3, InJob, ProgressSent, ProgressAssumption, Saves
  <2>2. Place'
    BY <1>1, <1>2, <1>3, <2>1, InJob, GoesOn DEF Acting
  <2> QED
    BY <2>1, <2>2 DEF IInv
<1>4. CASE saveFailed(j) /\ leave("error", j) /\ UNCHANGED net
  <2>1. World'
    BY <1>1, <1>2, <1>4, InJob, Saves
  <2> QED
    BY <1>2, <1>4, <2>1, Gives DEF IInv
<1> QED
  BY <1>3, <1>4 DEF saveRollingBack, j

\* Waiting for the node to report the version restored.
LEMMA StepVerifyRollback ==
  ASSUME IInv, verifyRollback
  PROVE  IInv'
<1>1. pc = "restore" /\ pc \in Acting /\ UNCHANGED <<ledger, journal, net>>
  BY DEF verifyRollback, Acting, dvars
<1>2. World'
  BY <1>1, WorldKept DEF IInv
<1>3. {"rolled_back", "manual_intervention"} \subseteq Outcomes
  BY DEF Outcomes, Failures
<1> QED
  BY <1>1, <1>2, <1>3, InJob, GoesToSave, ErrorOutput DEF IInv, verifyRollback

\* The outcome is durable before anybody hears of it.
LEMMA StepDone ==
  ASSUME IInv, saveDone
  PROVE  IInv'
<1>1. /\ pc = "save" /\ pc \in Undecided /\ UNCHANGED <<ledger, net>> /\ cur \in TaskID
      /\ JournalShape(mem) /\ mem.phase = "done" /\ mem.result \in Outcomes
  BY ZenonT(30) DEF saveDone, IInv, Place, Undecided
<1>2. World' /\ (saved(mem) => journal'[cur] = mem)
  BY <1>1, StageFacts, Saves DEF saveDone
<1>3. CASE leave("", mem) \/ leave("error", mem)
  BY <1>1, <1>2, <1>3, Gives DEF IInv
<1>4. CASE saved(mem) /\ pc' = "report" /\ UNCHANGED <<cur, mem>>
  BY <1>1, <1>2, <1>4 DEF IInv, Place, Undecided, Acting
<1> QED
  BY <1>3, <1>4 DEF saveDone

\* The outcome is reported, with or without an answer.
LEMMA StepReport ==
  ASSUME IInv, reportTerminal
  PROVE  IInv'
<1> DEFINE r == mem.result
           k == [mem EXCEPT !.reported = TRUE]
           m == [task |-> cur, stage |-> r, from |-> None, target |-> None]
<1>1. /\ World /\ cur \in TaskID /\ JournalShape(mem) /\ mem.phase = "done" /\ r \in Outcomes
      /\ journal[cur].phase = "done" /\ journal[cur].result = r
  BY DEF reportTerminal, IInv, Place
<1>2. JournalShape(k) /\ k.phase = "done" /\ k.result = r
  <2>1. \A b : LET x == [mem EXCEPT !.reported = b]
               IN  JournalShape(x) /\ x.phase = mem.phase /\ x.result = mem.result
    BY <1>1, ShapeReported
  <2> QED
    BY <1>1, <2>1
<1>3. Truthful(m)
  BY <1>1 DEF Truthful
<1> HIDE DEF r, k, m
<1>4. ASSUME NEW err, NEW j \in {mem, k}, leave(err, j),
             journal'[cur].phase = "done", journal'[cur].result = r
      PROVE  Place'
  <2>1. JournalShape(j) /\ j.phase = "done" /\ j.result = r
    BY <1>1, <1>2, <1>4 DEF r
  <2>2. CASE pc' \in {"off", "idle", "jobs"}
    BY <1>4, <2>1, <2>2, LeaveFacts, Rests
  <2>3. CASE pc' = "report" /\ mem' = j /\ cur' = cur
    BY <1>1, <1>4, <2>1, <2>3 DEF Place, Undecided, Acting
  <2> QED
    BY <1>4, <2>1, <2>2, <2>3, LeaveFacts
<1>5. CASE /\ ledger[cur].stage \in InFlight \cup {r} /\ takeReport(cur, r) /\ UNCHANGED net
           /\ journal' \in {journal, [journal EXCEPT ![cur] = k]}
           /\ \E err : leave(err, k)
  <2>1. SameOutcomes /\ journal'[cur].phase = "done" /\ journal'[cur].result = r
    BY <1>1, <1>2, <1>5 DEF World, SameOutcomes
  <2>2. World'
    BY <1>1, <1>5, <2>1, ReportTaken
  <2> QED
    BY <1>4, <1>5, <2>1, <2>2 DEF IInv
<1>6. CASE UNCHANGED <<ledger, journal>> /\ (UNCHANGED net \/ send(m)) /\ \E err : leave(err, mem)
  <2>1. World'
    BY <1>1, <1>3, <1>6, SendFacts, WorldKept
  <2> QED
    BY <1>1, <1>4, <1>6, <2>1 DEF IInv
<1> QED
  BY <1>5, <1>6 DEF reportTerminal, saved, saveFailed, report, acceptsReport, r, k, m

-----------------------------------------------------------------------------
(* The Controller, and the whole                                           *)

\* A request that nobody waits for arrives.
LEMMA StepDeliver ==
  ASSUME IInv, NEW m \in net, deliver(m)
  PROVE  IInv'
<1>1. /\ World /\ Place /\ Truthful(m) /\ net' \subseteq net
      /\ UNCHANGED <<pvars, journal>> /\ SameOutcomes
  BY SameJournal DEF IInv, World, deliver, dvars
<1>2. m.task \in TaskID /\ m.stage \in Progress \cup Outcomes \cup {"manual"}
  BY <1>1 DEF Truthful
<1>3. World' /\ Keeps
  <2>1. CASE m.stage = "manual" /\ acceptsManual(m) /\ takeManual(m)
    BY <1>1, <1>2, <2>1, ManualTaken
  <2>2. CASE /\ m.stage # "manual" /\ acceptsReport(m.task, m.stage, FALSE)
             /\ takeReport(m.task, m.stage)
    BY <1>1, <1>2, <2>2, ReportTaken DEF Truthful, acceptsReport
  <2>3. CASE UNCHANGED ledger
    <3>1. World'
      BY <1>1, <2>3, WorldKept
    <3> QED
      BY <2>3, <3>1 DEF Keeps
  <2> QED
    BY <2>1, <2>2, <2>3 DEF deliver
<1> QED
  BY <1>1, <1>3, PlaceKept DEF IInv

\* A job of the node is announced, or withdrawn before the helper claims it.
LEMMA StepAnnounce ==
  ASSUME IInv, NEW t \in TaskID, NEW v, announce(t, v)
  PROVE  IInv'
<1> DEFINE e == [stage |-> "waiting", node |-> Host, from |-> status.version, target |-> v]
<1>1. World /\ Place /\ UNCHANGED <<pvars, journal, net>> /\ SameOutcomes
  BY SameJournal DEF IInv, announce, dvars
<1>2. /\ ledger' = [ledger EXCEPT ![t] = e] /\ ledger[t].stage = "none" /\ ~Busy(Host)
      /\ t \notin ManualID
  <2> DEFINE news == [x \in {t} |-> e]
  <2>1. Announce(news) /\ DOMAIN news = {t} /\ news[t] = e /\ t \notin ManualID
    BY DEF announce
  <2>2. e.node = Host
    OBVIOUS
  <2> HIDE DEF news, e
  <2>3. ledger' = [u \in TaskID |-> IF u \in {t} THEN news[u] ELSE ledger[u]]
    BY <2>1 DEF Announce
  <2>4. ledger' = [ledger EXCEPT ![t] = e]
    BY <1>1, <2>1, <2>3 DEF World
  <2> QED
    BY <2>1, <2>2, <2>4 DEF Announce, Openable
<1>3. EntryShape(e) /\ e.stage = "waiting" /\ e.node = Host
  BY DEF EntryShape
<1> HIDE DEF e
<1>4. Becomes(t, e)
  BY <1>1, <1>2, <1>3, StageFacts DEF Becomes, World, Busy
<1>5. World'
  BY <1>1, <1>4, WorldMoved
<1>6. Keeps
  BY <1>1, <1>2, StageFacts DEF Keeps, World
<1> QED
  BY <1>1, <1>5, <1>6, PlaceKept DEF IInv

\* The Controller withdraws a task nobody has claimed: no helper has a journal of it.
LEMMA StepWithdraw ==
  ASSUME IInv, NEW t \in TaskID, withdraw(t)
  PROVE  IInv'
<1>1. PICK s \in Withdrawn : Withdraw({t}, s)
  BY DEF withdraw
<1> DEFINE e == [ledger[t] EXCEPT !.stage = s]
<1>2. /\ World /\ Place /\ UNCHANGED <<pvars, journal, net>> /\ SameOutcomes
      /\ ledger[t].stage = "waiting" /\ EntryShape(ledger[t])
  BY SameJournal DEF IInv, World, withdraw, dvars
<1>3. EntryShape(e) /\ e.stage = s
  BY <1>2 DEF EntryShape
<1> HIDE DEF e
<1>4. ledger' = [ledger EXCEPT ![t] = e]
  BY <1>1, <1>2 DEF Withdraw, World, e
<1>5. t \notin ManualID /\ journal[t].phase = "none"
  BY <1>2, StageFacts DEF World
<1>6. s \in Outcomes => s = "failed"
  BY StageFacts
<1>7. Becomes(t, e)
  BY <1>3, <1>4, <1>5, <1>6, StageFacts DEF Becomes
<1>8. World'
  BY <1>2, <1>7, WorldMoved
<1>9. Keeps
  BY <1>2, <1>4, StageFacts DEF Keeps, World
<1> QED
  BY <1>2, <1>8, <1>9, PlaceKept DEF IInv

\* The invariant holds of a fresh host.
LEMMA InitInv == Init => IInv
<1> SUFFICES ASSUME Init PROVE IInv
  OBVIOUS
<1> DEFINE e == [stage |-> "none", node |-> None, from |-> None, target |-> None]
<1>1. /\ journal = [t \in TaskID |-> NoJournal] /\ mem = NoJournal /\ pc = "off" /\ net = {}
      /\ NoJournal.phase = "none" /\ JournalShape(NoJournal)
  BY ShapeNone DEF Init, NoJournal
<1>2. ledger = [t \in TaskID |-> e] /\ e.stage = "none" /\ EntryShape(e)
  BY DEF Init, LedgerInit, NoEntry, EntryShape
<1> HIDE DEF e
<1>3. World
  BY <1>1, <1>2, StageFacts DEF World, Agreement
<1>4. Place
  BY <1>1 DEF Place, Undecided, Acting
<1> QED
  BY <1>3, <1>4 DEF IInv

\* Every step preserves the invariant.
LEMMA NextInv == IInv /\ [Next]_vars => IInv'
<1> SUFFICES ASSUME IInv, [Next]_vars PROVE IInv'
  OBVIOUS
<1>1. CASE UNCHANGED vars
  <2>1. UNCHANGED <<ledger, journal, net, pvars>>
    BY <1>1 DEF vars, pvars
  <2>2. World'
    BY <2>1, WorldKept DEF IInv
  <2>3. Place'
    BY <2>1, PlaceKept DEF Keeps, IInv
  <2> QED
    BY <2>2, <2>3 DEF IInv
<1>2. CASE Process
  BY <1>2, StepRecover, StepPoll, StepReserve, StepOutside, StepRetry, StepManual, StepExecute,
     StepDownloading, StepPrepare, StepPrepared, StepSwitching, StepCommand, StepVerifying,
     StepVerify, StepRollingBack, StepVerifyRollback, StepDone, StepReport DEF Process
<1>3. CASE Environment
  BY <1>3, StepDeliver, StepOutside, StepWithdraw, StepAnnounce DEF Environment
<1>4. CASE start("daemon")
  BY <1>4, StepOutside
<1> QED
  BY <1>1, <1>2, <1>3, <1>4 DEF Next

\* The invariant implies the two properties.
LEMMA InvImplies == IInv => Agreement /\ WorkKnown
<1> SUFFICES ASSUME World PROVE Agreement /\ WorkKnown
  BY DEF IInv
<1>1. \A t \in TaskID : journal[t].phase \in Working =>
        ledger[t].stage \in InFlight /\ ledger[t].stage \in Opened
  BY StageFacts DEF World
<1> QED
  BY <1>1 DEF World, WorkKnown

\* IInv is inductive.
LEMMA Inductive == Spec => []IInv
BY InitInv, NextInv, PTL DEF Spec

\* The Controller and the host never disagree about an outcome (Agreement): the
\* journal holds it before reportTerminal sends it, and nothing replaces it.
THEOREM AgreementTheorem == Spec => []Agreement
BY Inductive, InvImplies, PTL

\* A job that may change the host is in flight at the Controller, and it is the
\* only such job (WorkKnown), whatever crashes, restarts and late requests do.
THEOREM WorkKnownTheorem == Spec => []WorkKnown
BY Inductive, InvImplies, PTL

-----------------------------------------------------------------------------
\* The host under the helper.

-----------------------------------------------------------------------------
(* The inductive invariant, on top of the one of NodeUpdaterProofs.        *)

\* A human was asked to help, durably.
Asked == \E t \in TaskID : journal[t].phase = "done" /\ journal[t].result = "manual_intervention"

\* Version v runs, and what the switch has to install before is v.
installed(v) == up /\ unit = v /\ \A c \in Comp : Mode = "systemd" \/ c = "compose" => files[c] = v

\* Under systemd only the saved version, the one that ran then and the target can
\* be installed or run while job t has its backup.
Ran(t) ==
  Mode = "systemd" =>
    /\ unit \in {backup[t]["image"], backup[t]["xmesh"], journal[t].target}
    /\ files["xmesh"] \in {backup[t]["xmesh"], journal[t].target}

\* The phases before a job has a backup, and before it changes the host.
Fresh == {"none", "reserving"}
Early == {"downloading", "prepared"}

\* Files and backups are what the journals say, wherever the process is.
Machine ==
  /\ DOMAIN files \in Install /\ files = [c \in DOMAIN files |-> files[c]]
  /\ backup = [t \in TaskID |-> backup[t]]
  /\ up \in BOOLEAN
  /\ \A t \in TaskID : journal[t].phase = "verifying" => installed(journal[t].target)
  /\ Asked \/ (Uniform(files) /\ up) \/ \E t \in TaskID : journal[t].phase \in Unsettled
  /\ Asked \/ \A t \in TaskID : journal[t].phase \in {"prepared"} \cup Unsettled => Uniform(backup[t])
  /\ \A t \in TaskID : journal[t].phase \in {"prepared"} \cup Unsettled => Ran(t)
  /\ \A t \in TaskID : journal[t].phase \in Fresh => backup[t] = None
  /\ \A t \in TaskID : journal[t].phase \in Early /\ backup[t] # None => Restored(t)

\* The commands before `step' have copied their files.
copied(steps, content) ==
  \A k \in 1..(step - 1) : steps[k] \in Comp => files[steps[k]] = content[steps[k]]

Switched ==
  /\ step \in 1..(Len(SwitchSteps) + 1) /\ copied(SwitchSteps, newFiles)
  /\ Mode = "systemd" /\ step \in 2..Len(SwitchSteps) => ~up
  /\ step > Len(SwitchSteps) => installed(mem.target)

\* What an outcome that is about to be saved says of the host.
Justified(r) ==
  /\ r = "failed" => journal[cur].phase \notin Unsettled /\ (backup[cur] # None => Restored(cur))
  /\ r = "succeeded" => /\ journal[cur].phase = "verifying" /\ journal[cur].target = mem.target
                        /\ \A c \in Comp : files[c] = mem.target
  /\ r = "rolled_back" => /\ journal[cur].phase = "rolling_back" /\ up /\ Restored(cur)
                          /\ Mode = "docker" => unit = backup[cur]["image"]

\* Where the old image is: in compose.yaml until Docker runs it.
Imaged ==
  Mode = "docker" => /\ step \in 2..4 => files["compose"] = backup[cur]["image"]
                     /\ step > 4 => unit = backup[cur]["image"]

\* The journal and the host at each step of the process.
Spot ==
  /\ pc \in {"retry", "manual"} => journal[cur].phase = "reserving"
  /\ pc = "download" => journal[cur].phase \in {"none", "reserving"}
  /\ pc \in {"prepare", "prepared"} => journal[cur].phase = "downloading"
  /\ pc = "prepared" => (Asked \/ Uniform(backup[cur])) /\ Ran(cur)
  /\ pc = "switching" => journal[cur].phase = "prepared"
  /\ pc = "switch" => journal[cur].phase = "switching" /\ Switched
  /\ pc \in {"verify", "finish"} => journal[cur].phase = "verifying"
  /\ pc = "finish" => step \in 1..(Len(FinishSteps) + 1) /\ copied(FinishSteps, newFiles)
  /\ pc = "rollback" => journal[cur].phase \in Unsettled
  /\ pc = "restore" => /\ journal[cur].phase = "rolling_back"
                       /\ step \in 1..(Len(RestoreSteps) + 1) /\ copied(RestoreSteps, backup[cur]) /\ Imaged
  /\ pc \in Acting \ {"download"} => journal[cur].target = mem.target
  /\ pc = "save" => Justified(mem.result)

HInv == Machine /\ Spot

-----------------------------------------------------------------------------
(* Installations and their commands.                                       *)

\* The three kinds of installation and the commands of each.
LEMMA Kinds ==
  ASSUME DOMAIN files \in Install
  PROVE  /\ "xmesh" \in Comp /\ Comp \subseteq {"xmesh", "xray", "compose"}
         /\ \/ /\ Comp = {"xmesh"} /\ Mode = "systemd" /\ FinishSteps = <<>>
               /\ SwitchSteps = <<"stop", "xmesh", "start">> /\ RestoreSteps = <<"stop", "xmesh", "start">>
            \/ /\ Comp = {"xmesh", "xray"} /\ Mode = "systemd" /\ FinishSteps = <<>>
               /\ SwitchSteps = <<"stop", "xmesh", "xray", "start">>
               /\ RestoreSteps = <<"stop", "xmesh", "xray", "start">>
            \/ /\ Comp = {"xmesh", "xray", "compose"} /\ Mode = "docker"
               /\ FinishSteps = <<"xmesh", "xray">> /\ SwitchSteps = <<"compose", "up">>
               /\ RestoreSteps = <<"image", "xmesh", "xray", "up", "compose">>
<1>1. Comp \in {{"xmesh"}, {"xmesh", "xray"}, {"xmesh", "xray", "compose"}}
  BY InstallAssumption DEF Comp
<1>2. CASE Comp = {"xmesh"}
  BY <1>2 DEF Mode, SwitchSteps, RestoreSteps, FinishSteps
<1>3. CASE Comp = {"xmesh", "xray"}
  BY <1>3 DEF Mode, SwitchSteps, RestoreSteps, FinishSteps
<1>4. CASE Comp = {"xmesh", "xray", "compose"}
  BY <1>4 DEF Mode, SwitchSteps, RestoreSteps, FinishSteps
<1> QED
  BY <1>1, <1>2, <1>3, <1>4

\* What depends on the kind of installation stays as long as it does.
LEMMA SameKind ==
  ASSUME DOMAIN files' = DOMAIN files
  PROVE  /\ Comp' = Comp /\ Mode' = Mode /\ SwitchSteps' = SwitchSteps
         /\ RestoreSteps' = RestoreSteps /\ FinishSteps' = FinishSteps
BY DEF Comp, Mode, SwitchSteps, RestoreSteps, FinishSteps

\* A command copies one file or tells the service something, but not both.
LEMMA Performs ==
  ASSUME Machine, NEW s, NEW content, perform(s, content),
         s \in Comp \cup {"stop", "start", "up"} \/ (s = "image" /\ "compose" \in Comp)
  PROVE  /\ DOMAIN files' = DOMAIN files /\ files' = [c \in DOMAIN files' |-> files'[c]] /\ up' \in BOOLEAN
         /\ s \in Comp => files'[s] = content[s]
         /\ \A c \in Comp : c # s /\ ~(s = "image" /\ c = "compose") => files'[c] = files[c]
         /\ s \in {"xmesh", "xray", "compose", "image"} => UNCHANGED <<unit, up>>
<1>1. s \in {"stop", "start", "up"} => s \notin Comp \cup {"image"}
  BY Kinds DEF Machine
<1>2. CASE s \in Comp
  <2>1. files' = [files EXCEPT ![s] = content[s]] /\ UNCHANGED <<unit, up>> /\ s # "image"
    BY <1>2, Kinds DEF perform, Machine
  <2> QED
    BY <1>2, <2>1 DEF Machine, Comp
<1>3. CASE s = "image" /\ "compose" \in Comp
  <2>1. files' = [files EXCEPT !["compose"] = content[s]] /\ UNCHANGED <<unit, up>> /\ s \notin Comp
    BY <1>3, Kinds DEF perform, Machine
  <2> QED
    BY <1>3, <2>1 DEF Machine, Comp
<1>4. CASE s \in {"stop", "start", "up"}
  <2>1. files' = files /\ up' \in BOOLEAN
    BY <1>1, <1>4 DEF perform
  <2> QED
    BY <1>1, <1>4, <2>1 DEF Machine
<1> QED
  BY <1>2, <1>3, <1>4

\* A command that fails leaves an installation of the same kind.
LEMMA Fails ==
  ASSUME Machine, NEW s, NEW content, fail(s, content),
         s \in Comp \cup {"stop", "start", "up"} \/ (s = "image" /\ "compose" \in Comp)
  PROVE  DOMAIN files' = DOMAIN files /\ files' = [c \in DOMAIN files' |-> files'[c]] /\ up' \in BOOLEAN
<1>1. CASE perform(s, content)
  BY <1>1, Performs
<1>2. CASE UNCHANGED files /\ up' \in {up, FALSE}
  BY <1>2 DEF Machine
<1> QED
  BY <1>1, <1>2 DEF fail

-----------------------------------------------------------------------------
(* The host wherever the process is.                                       *)

\* Neither journals nor host change.
LEMMA MachineKept ==
  ASSUME Machine, UNCHANGED <<journal, files, backup, up, unit>>
  PROVE  Machine'
BY DEF Machine, installed, Asked, Uniform, Comp, Mode, Ran, Restored

\* saveJournal of job c, with or without its effect.
LEMMA MachineWritten ==
  ASSUME Machine, World, NEW c \in TaskID, NEW j, journal' \in {journal, [journal EXCEPT ![c] = j]},
         UNCHANGED <<files, backup, up, unit>>,
         j.phase = "verifying" => installed(j.target),
         journal[c].phase = "done" => j.phase = "done" /\ j.result = journal[c].result,
         j.phase \in {"prepared"} \cup Unsettled => Asked \/ Uniform(backup[c]),
         j.phase \in {"prepared"} \cup Unsettled => Ran(c) /\ j.target = journal[c].target,
         j.phase \in Fresh => journal[c].phase \in Fresh,
         j.phase \in Early => journal[c].phase \in Fresh \cup Early,
         journal[c].phase \in Unsettled => \/ j.phase \in Unsettled \/ Asked \/ (Uniform(files) /\ up)
                                           \/ j.phase = "done" /\ j.result = "manual_intervention"
  PROVE  Machine' /\ (Asked => Asked')
<1>1. CASE journal' = journal
  BY <1>1, MachineKept DEF Asked
<1>2. CASE journal' = [journal EXCEPT ![c] = j]
  <2>1. journal'[c] = j /\ \A t \in TaskID : t # c => journal'[t] = journal[t]
    BY <1>2 DEF World
  <2>2. Asked => Asked'
    <3>1. SUFFICES ASSUME NEW t \in TaskID, journal[t].phase = "done", journal[t].result = "manual_intervention"
                   PROVE  journal'[t].phase = "done" /\ journal'[t].result = "manual_intervention"
      BY DEF Asked
    <3> QED
      BY <2>1, <3>1
  <2>3. \A t \in TaskID : journal'[t].phase = "verifying" => installed(journal'[t].target)
    BY <2>1 DEF Machine
  <2>4. \A v : installed(v) => installed(v)'
    BY DEF installed, Comp, Mode
  <2>5. \A f : Uniform(f)' <=> Uniform(f)
    BY DEF Uniform, Comp
  <2>6. Asked' \/ (Uniform(files) /\ up) \/ \E t \in TaskID : journal'[t].phase \in Unsettled
    <3>1. CASE journal[c].phase \in Unsettled
      BY <2>1, <2>2, <3>1 DEF Asked
    <3>2. CASE journal[c].phase \notin Unsettled
      <4>1. Asked \/ (Uniform(files) /\ up) \/ \E t \in TaskID : t # c /\ journal[t].phase \in Unsettled
        BY <3>2 DEF Machine
      <4> QED
        BY <2>1, <2>2, <4>1
    <3> QED
      BY <3>1, <3>2
  <2>7. Asked' \/ \A t \in TaskID : journal'[t].phase \in {"prepared"} \cup Unsettled => Uniform(backup[t])
    <3>1. Asked \/ \A t \in TaskID : journal[t].phase \in {"prepared"} \cup Unsettled => Uniform(backup[t])
      BY DEF Machine
    <3> QED
      BY <2>1, <2>2, <3>1
  <2>8. Uniform(files)' <=> Uniform(files)
    BY DEF Uniform, Comp
  <2>9. \A t \in TaskID : Uniform(backup[t])' <=> Uniform(backup[t])
    BY DEF Uniform, Comp
  <2>10. \A t \in TaskID : journal'[t].phase = "verifying" => installed(journal[t].target)'
    BY <2>3 DEF installed, Comp, Mode
  <2>11. \A t \in TaskID : journal'[t].phase \in {"prepared"} \cup Unsettled => Ran(t)'
    <3> SUFFICES ASSUME NEW t \in TaskID, journal'[t].phase \in {"prepared"} \cup Unsettled
                 PROVE  Ran(t)'
      OBVIOUS
    <3>1. Ran(t) /\ journal'[t].target = journal[t].target
      BY <2>1 DEF Machine
    <3> QED
      BY <3>1 DEF Ran, Mode, Comp
  <2>12. \A t \in TaskID : journal'[t].phase \in Fresh => backup'[t] = None
    BY <2>1 DEF Machine
  <2>13. \A t \in TaskID : journal'[t].phase \in Early /\ backup'[t] # None => Restored(t)'
    <3>1. \A t \in TaskID : Restored(t)' <=> Restored(t)
      BY DEF Restored, Comp
    <3> QED
      BY <2>1, <3>1 DEF Machine
  <2> QED
    BY <2>2, <2>6, <2>7, <2>8, <2>9, <2>10, <2>11, <2>12, <2>13 DEF Machine
<1> QED
  BY <1>1, <1>2

\* A command changes the host under a journal from which recovery continues.
LEMMA MachineMoved ==
  ASSUME Machine, UNCHANGED <<journal, backup>>,
         DOMAIN files' = DOMAIN files, files' = [c \in DOMAIN files' |-> files'[c]], up' \in BOOLEAN,
         NEW u \in TaskID, journal[u].phase \in Unsettled,
         \A t \in TaskID : journal[t].phase \in Working => t = u, Ran(u)',
         \A t \in TaskID : journal[t].phase = "verifying" => installed(journal[t].target)'
  PROVE  Machine'
<1>1. \A t \in TaskID : Uniform(backup[t])' <=> Uniform(backup[t])
  BY DEF Uniform, Comp
<1>2. Asked' <=> Asked
  BY DEF Asked
<1>3. \A t \in TaskID : journal[t].phase \in {"prepared"} \cup Unsettled => Ran(t)'
  BY DEF Working
<1>4. \A t \in TaskID : journal[t].phase \notin Early
  BY DEF Working, Early, Unsettled
<1> QED
  BY <1>1, <1>2, <1>3, <1>4 DEF Machine

\* The node or its host starts again: systemd from the installed files, Docker
\* the container it has.
LEMMA MachineRestarted ==
  ASSUME Machine, UNCHANGED <<journal, files, backup>>, up' \in {up, TRUE},
         unit' \in {unit, IF Mode = "systemd" THEN files["xmesh"] ELSE unit}
  PROVE  Machine'
<1>1. Comp' = Comp /\ Mode' = Mode /\ "xmesh" \in Comp
  BY Kinds, SameKind DEF Machine
<1>2. ASSUME NEW t \in TaskID, journal[t].phase = "verifying"
      PROVE  installed(journal[t].target)'
  <2>1. installed(journal[t].target) /\ journal'[t] = journal[t]
    BY <1>2 DEF Machine
  <2>2. files["xmesh"] = journal[t].target \/ Mode # "systemd"
    BY <1>1, <2>1 DEF installed
  <2>3. up' /\ unit' = journal[t].target
    BY <2>1, <2>2 DEF installed
  <2> QED
    BY <1>1, <2>1, <2>3 DEF installed
<1>3. (up => up') /\ (Uniform(files)' <=> Uniform(files)) /\ (Asked' <=> Asked)
  <2>1. up => up'
    OBVIOUS
  <2>2. Uniform(files)' <=> Uniform(files)
    BY DEF Uniform, Comp
  <2>3. Asked' <=> Asked
    BY DEF Asked
  <2> QED
    BY <2>1, <2>2, <2>3
<1>4. \A t \in TaskID : Uniform(backup[t])' <=> Uniform(backup[t])
  BY DEF Uniform, Comp
<1>5. \A t \in TaskID : Ran(t) => Ran(t)'
  BY <1>1 DEF Ran
<1>6. \A t \in TaskID : Restored(t)' <=> Restored(t)
  BY DEF Restored, Comp
<1> QED
  BY <1>2, <1>3, <1>4, <1>5, <1>6 DEF Machine

-----------------------------------------------------------------------------
(* Steps between jobs, and those of the node and the Controller.           *)

\* Outside a job the process relies on nothing.
LEMMA SpotRests ==
  ASSUME pc' \in {"off", "idle", "jobs", "reserve", "execute", "report"}
  PROVE  Spot'
BY DEF Spot, Acting

\* A job that was left, with or without its report.
LEMMA SpotLeft ==
  ASSUME NEW err, NEW j, leave(err, j), JournalShape(j)
  PROVE  Spot'
BY LeaveFacts, SpotRests

\* What the process relies on stays as long as journals, host and process do.
LEMMA HostKept ==
  ASSUME HInv, UNCHANGED <<journal, files, backup, up, unit, pc, cur, step, mem>>
  PROVE  HInv'
<1>1. /\ Comp' = Comp /\ Mode' = Mode /\ SwitchSteps' = SwitchSteps
      /\ RestoreSteps' = RestoreSteps /\ FinishSteps' = FinishSteps
  BY SameKind
<1>2. newFiles' = newFiles
  BY <1>1 DEF newFiles
<1>3. (\A r : Justified(r)' <=> Justified(r)) /\ (Ran(cur)' <=> Ran(cur)) /\ (Imaged' <=> Imaged)
  BY <1>1 DEF Justified, Ran, Restored, Imaged
<1>4. Switched' <=> Switched
  BY <1>1, <1>2 DEF Switched, copied, installed
<1>5. /\ copied(FinishSteps, newFiles)' <=> copied(FinishSteps, newFiles)
      /\ copied(RestoreSteps, backup[cur])' <=> copied(RestoreSteps, backup[cur])
  BY <1>1, <1>2 DEF copied
<1>6. Uniform(backup[cur])' <=> Uniform(backup[cur])
  BY <1>1 DEF Uniform
<1>7. Asked' <=> Asked
  BY DEF Asked
<1>8. Spot'
  BY <1>1, <1>3, <1>4, <1>5, <1>6, <1>7 DEF HInv, Spot
<1> QED
  BY <1>8, MachineKept DEF HInv

\* The Controller, its administrator and the reports of the node.
LEMMA HostOutside ==
  ASSUME HInv, \/ nodeReports \/ lateReport \/ (\E m \in net : deliver(m))
               \/ \E t \in TaskID : withdraw(t) \/ \E v \in Version : announce(t, v)
  PROVE  HInv'
<1>1. UNCHANGED <<journal, files, backup, up, unit, pc, cur, step, mem>>
  BY DEF nodeReports, lateReport, deliver, withdraw, announce, dvars, nvars, pvars
<1> QED
  BY <1>1, HostKept

\* The node's process is started again by its supervisor.
LEMMA HostRestarts ==
  ASSUME HInv, nodeRestarts
  PROVE  HInv'
<1>1. /\ UNCHANGED <<journal, files, backup, up, pc, cur, step, mem>> /\ up
      /\ unit' = IF Mode = "systemd" THEN files["xmesh"] ELSE unit
  BY DEF nodeRestarts, dvars, pvars
<1>2. Machine'
  BY <1>1, MachineRestarted DEF HInv, Machine
<1>3. /\ Comp' = Comp /\ Mode' = Mode /\ SwitchSteps' = SwitchSteps
      /\ RestoreSteps' = RestoreSteps /\ FinishSteps' = FinishSteps /\ "xmesh" \in Comp
  BY <1>1, SameKind, Kinds DEF HInv, Machine
<1>4. newFiles' = newFiles
  BY <1>1, <1>3 DEF newFiles
<1>5. (\A r : Justified(r) => Justified(r)') /\ (Ran(cur) => Ran(cur)') /\ (Imaged => Imaged')
  BY <1>1, <1>3 DEF Justified, Ran, Restored, Imaged
<1>6. installed(mem.target) => installed(mem.target)'
  <2>1. SUFFICES ASSUME installed(mem.target) PROVE unit' = mem.target
    BY <1>1, <1>3 DEF installed
  <2> QED
    BY <1>1, <1>3, <2>1 DEF installed
<1>7. Switched => Switched'
  BY <1>1, <1>3, <1>4, <1>6 DEF Switched, copied
<1>8. /\ copied(FinishSteps, newFiles)' <=> copied(FinishSteps, newFiles)
      /\ copied(RestoreSteps, backup[cur])' <=> copied(RestoreSteps, backup[cur])
  BY <1>1, <1>3, <1>4 DEF copied
<1>9. (Uniform(backup[cur])' <=> Uniform(backup[cur])) /\ (Asked' <=> Asked)
  BY <1>1, <1>3 DEF Uniform, Asked
<1>10. Spot'
  BY <1>1, <1>3, <1>5, <1>7, <1>8, <1>9 DEF HInv, Spot
<1> QED
  BY <1>2, <1>10 DEF HInv

\* The process is killed, alone or with its host.
LEMMA HostCrash ==
  ASSUME HInv, crash
  PROVE  HInv'
<1>1. UNCHANGED <<journal, files, backup>> /\ pc' = "off"
  BY DEF crash, dvars, stopped
<1>2. /\ up' \in {up, TRUE}
      /\ unit' \in {unit, IF Mode = "systemd" THEN files["xmesh"] ELSE unit}
  <2>1. CASE UNCHANGED nvars
    BY <2>1 DEF nvars
  <2>2. CASE up' = TRUE /\ unit' = IF Mode = "systemd" THEN files["xmesh"] ELSE unit
    BY <2>2
  <2> QED
    BY <2>1, <2>2, ZenonT(30) DEF crash
<1> QED
  BY <1>1, <1>2, MachineRestarted, SpotRests DEF HInv

\* The process starts, has recovered all jobs, gives up, polls.
LEMMA HostIdle ==
  ASSUME HInv, \/ start("daemon") \/ start("local") \/ jobsDone \/ giveUp
               \/ \E t \in TaskID : poll(t)
  PROVE  HInv'
<1>1. UNCHANGED <<journal, files, backup, up, unit>>
  BY ZenonT(30) DEF start, jobsDone, giveUp, poll, dvars, nvars
<1>2. pc' \in {"off", "idle", "jobs", "reserve", "execute", "report"}
  BY DEF start, jobsDone, giveUp, poll, stopped
<1> QED
  BY <1>1, <1>2, MachineKept, SpotRests DEF HInv

\* recoverJobs enters a job where its journal left it.
LEMMA HostRecover ==
  ASSUME HInv, IInv, NEW t \in TaskID, recoverJob(t)
  PROVE  HInv'
<1> DEFINE j == journal[t]
<1>1. UNCHANGED <<journal, files, backup, up, unit>> /\ pc = "jobs" /\ JournalShape(j)
  BY DEF recoverJob, dvars, nvars, IInv, World
<1>2. Machine'
  BY <1>1, MachineKept DEF HInv
<1>3. CASE pc' \in {"jobs", "report"}
  BY <1>2, <1>3, SpotRests DEF HInv
<1>4. CASE j.phase = "reserving" /\ pc' = "retry" /\ cur' = t
  BY <1>1, <1>2, <1>4 DEF HInv, Spot, Acting
<1>5. CASE j.phase = "verifying" /\ pc' = "verify" /\ cur' = t /\ mem' = j
  BY <1>1, <1>2, <1>5 DEF HInv, Spot
<1>6. CASE j.phase \in {"switching", "rolling_back"} /\ pc' = "rollback" /\ cur' = t /\ mem' = j
  BY <1>1, <1>2, <1>6 DEF HInv, Spot, Unsettled
<1>7. CASE /\ j.phase \in {"downloading", "prepared"} /\ pc' = "save" /\ cur' = t
           /\ mem' = [j EXCEPT !.phase = "done", !.result = "failed"]
  <2>1. mem'.result = "failed"
    BY <1>1, <1>7, ShapeDone
  <2>2. backup'[t] # None => Restored(t)'
    BY <1>1, <1>2, <1>7 DEF Machine, Early
  <2>3. Justified(mem.result)'
    BY <1>1, <1>7, <2>1, <2>2 DEF Justified, Restored, Unsettled
  <2> QED
    BY <1>2, <1>7, <2>3 DEF HInv, Spot, Acting
<1> QED
  BY <1>1, <1>3, <1>4, <1>5, <1>6, <1>7 DEF recoverJob

-----------------------------------------------------------------------------
(* A job before the switch.                                                *)

\* The job has an outcome to save.
LEMMA SpotSave ==
  ASSUME JournalShape(mem), NEW r, NEW k \in outputOf(finished(r)), goto("save", k),
         r = "failed" => /\ journal'[cur].phase \notin Unsettled
                         /\ backup'[cur] # None => \A c \in Comp' : files'[c] = backup'[cur][c],
         r = "succeeded" => /\ journal'[cur].phase = "verifying" /\ journal'[cur].target = mem.target
                            /\ \A c \in Comp' : files'[c] = mem.target,
         r = "rolled_back" => /\ journal'[cur].phase = "rolling_back" /\ up'
                              /\ \A c \in Comp' : files'[c] = backup'[cur][c]
                              /\ Mode' = "docker" => unit' = backup'[cur]["image"]
  PROVE  Spot'
<1>1. k.result = r /\ k.target = mem.target
  BY FinishedOf, ShapeOutput
<1>2. pc' = "save" /\ mem' = k /\ cur' = cur
  BY DEF goto
<1>3. Justified(mem.result)'
  BY <1>1, <1>2 DEF Justified, Restored
<1> QED
  BY <1>2, <1>3 DEF Spot, Acting

\* The Controller answers a reservation, the first time or again.
LEMMA HostManual ==
  ASSUME HInv, IInv, retryManual \/ startManual
  PROVE  HInv'
<1>1. /\ UNCHANGED <<journal, files, backup, up, unit>> /\ JournalShape(mem)
      /\ pc \in {"retry", "manual"} /\ journal[cur].phase = "reserving"
  BY DEF retryManual, startManual, dvars, nvars, HInv, IInv, Place, Spot
<1>2. Machine'
  BY <1>1, MachineKept DEF HInv
<1>3. cur \in TaskID /\ backup'[cur] = None
  BY <1>1 DEF HInv, Machine, Fresh, IInv, Place, Undecided
<1>4. CASE goto("save", finished("failed"))
  <2>1. finished("failed") \in outputOf(finished("failed"))
    BY ErrorOutput
  <2> QED
    BY <1>1, <1>2, <1>3, <1>4, <2>1, SpotSave DEF HInv, Unsettled
<1>5. CASE goto("save", [finished("failed") EXCEPT !.reported = TRUE])
  <2> DEFINE k == finished("failed")
  <2>1. JournalShape(k) /\ k.result = "failed"
    BY <1>1, FinishedOf
  <2> HIDE DEF k
  <2>2. mem' = [k EXCEPT !.reported = TRUE] /\ pc' = "save" /\ cur' = cur
    BY <1>5 DEF goto, k
  <2>3. mem'.result = "failed"
    BY <2>1, <2>2, ShapeReported
  <2>4. Justified(mem.result)'
    BY <1>1, <1>3, <2>2, <2>3 DEF Justified, Unsettled
  <2> QED
    BY <1>2, <2>2, <2>4 DEF HInv, Spot, Acting
<1>6. CASE leave("error", mem)
  BY <1>1, <1>2, <1>6, SpotLeft DEF HInv
<1>7. CASE goto("execute", mem) \/ stopped
  BY <1>2, <1>7, SpotRests DEF HInv, goto, stopped
<1>8. CASE retryManual
  BY <1>4, <1>5, <1>6, <1>8 DEF retryManual
<1>9. CASE startManual
  BY <1>7, <1>9 DEF startManual
<1> QED
  BY <1>8, <1>9

\* localUpgrade saves a reservation.
LEMMA HostReserve ==
  ASSUME HInv, IInv, NEW t \in TaskID, NEW v, reserve(t, v)
  PROVE  HInv'
<1> DEFINE j == [NoJournal EXCEPT !.phase = "reserving", !.from = status.version, !.target = v]
<1>1. /\ UNCHANGED <<files, backup, up, unit>> /\ World /\ journal[t].phase = "none"
      /\ journal' \in {journal, [journal EXCEPT ![t] = j]}
  BY DEF reserve, nvars, IInv
<1>2. j.phase = "reserving"
  BY DEF NoJournal
<1> HIDE DEF j
<1>3. Machine'
  BY <1>1, <1>2, MachineWritten DEF HInv, Unsettled, Fresh, Early
<1>4. CASE stopped
  BY <1>3, <1>4, SpotRests DEF HInv, stopped
<1>5. CASE journal' = [journal EXCEPT ![t] = j] /\ pc' = "manual" /\ cur' = t
  <2>1. journal'[t] = j
    BY <1>1, <1>5 DEF World
  <2> QED
    BY <1>2, <1>3, <1>5, <2>1 DEF HInv, Spot, Acting
<1> QED
  BY <1>4, <1>5 DEF reserve, j

\* execute looks at the journal of its task.
LEMMA HostExecute ==
  ASSUME HInv, IInv, execute
  PROVE  HInv'
<1> DEFINE j == journal[cur]
<1>1. UNCHANGED <<journal, files, backup, up, unit>> /\ JournalShape(j)
  BY DEF execute, dvars, nvars, IInv, Place, World, Undecided
<1>2. Machine'
  BY <1>1, MachineKept DEF HInv
<1>3. CASE j.phase \in {"none", "reserving"} /\ goto("download", [mem EXCEPT !.phase = "downloading"])
  BY <1>1, <1>2, <1>3 DEF HInv, Spot, goto
<1>4. CASE goto("report", j)
  BY <1>2, <1>4, SpotRests DEF HInv, goto
<1>5. CASE j.phase = "verifying" /\ goto("verify", j)
  BY <1>1, <1>2, <1>5 DEF HInv, Spot, goto
<1>6. CASE leave("error", j)
  BY <1>1, <1>2, <1>6, SpotLeft DEF HInv
<1> QED
  BY <1>3, <1>4, <1>5, <1>6 DEF execute

\* saveDownloading.
LEMMA HostDownloading ==
  ASSUME HInv, IInv, saveDownloading
  PROVE  HInv'
<1>1. /\ pc = "download" /\ pc \in Acting /\ mem.phase = "downloading"
      /\ journal[cur].phase \in {"none", "reserving"} /\ UNCHANGED <<files, backup, up, unit>>
      /\ journal' \in {journal, [journal EXCEPT ![cur] = mem]}
  BY DEF saveDownloading, saved, saveFailed, nvars, HInv, Spot, IInv, Place, Acting
<1>2. World /\ JournalShape(mem) /\ cur \in TaskID
  BY <1>1, InJob
<1>3. Machine'
  BY <1>1, <1>2, MachineWritten DEF HInv, Unsettled, Fresh, Early
<1>4. CASE saved(mem) /\ goto("prepare", mem)
  <2>1. journal'[cur] = mem
    BY <1>2, <1>4 DEF saved, World
  <2> QED
    BY <1>1, <1>3, <1>4, <2>1 DEF HInv, Spot, goto
<1>5. CASE leave("error", mem)
  BY <1>2, <1>3, <1>5, SpotLeft DEF HInv
<1> QED
  BY <1>4, <1>5 DEF saveDownloading

\* A job that acts is the only one that may have changed the host.
LEMMA Alone ==
  ASSUME IInv, pc \in Acting, NEW t \in TaskID, journal[t].phase \in Working
  PROVE  t = cur
<1>1. ledger[t].stage \in Opened /\ ledger[cur].stage \in Opened /\ cur \in TaskID
  BY InJob, StageFacts DEF World
<1> QED
  BY <1>1 DEF IInv, World

\* prepare copies what is installed: a whole installation, unless a human was
\* asked to help.
LEMMA HostPrepare ==
  ASSUME HInv, IInv, prepare
  PROVE  HInv'
<1>1. /\ pc = "prepare" /\ pc \in Acting /\ mem.phase = "downloading"
      /\ journal[cur].phase = "downloading" /\ UNCHANGED <<files, up, unit>>
  BY DEF prepare, nvars, HInv, Spot, IInv, Place, Acting
<1>2. World /\ JournalShape(mem) /\ cur \in TaskID /\ journal[cur].target = mem.target
  BY <1>1, InJob DEF HInv, Spot
<1>3. CASE /\ backup' = [backup EXCEPT ![cur] = [c \in Comp \cup {"image"} |->
                                                   IF c = "image" THEN unit ELSE files[c]]]
           /\ goto("prepared", inPhase("prepared")) /\ UNCHANGED journal
  <2> DEFINE b == [c \in Comp \cup {"image"} |-> IF c = "image" THEN unit ELSE files[c]]
  <2>1. \A c \in Comp : b[c] = files[c]
    BY Kinds DEF HInv, Machine
  <2>2. backup' = [backup EXCEPT ![cur] = b]
    BY <1>3
  <2> HIDE DEF b
  <2>3. /\ backup'[cur] = b /\ backup' = [t \in TaskID |-> backup'[t]]
        /\ \A t \in TaskID : t # cur => backup'[t] = backup[t]
    BY <1>2, <2>2 DEF HInv, Machine
  <2>4. Comp' = Comp /\ Mode' = Mode /\ (Asked' <=> Asked) /\ (Uniform(files)' <=> Uniform(files))
    BY <1>1, <1>3 DEF Comp, Mode, Asked, Uniform
  <2>5. Asked \/ Uniform(backup[cur])'
    <3>1. \A t \in TaskID : journal[t].phase \notin Unsettled
      BY <1>1, Alone DEF Working, Unsettled
    <3>2. Asked \/ Uniform(files)
      BY <3>1 DEF HInv, Machine
    <3>3. cur' = cur
      BY <1>3 DEF goto
    <3> QED
      BY <2>1, <2>3, <2>4, <3>2, <3>3 DEF Uniform
  <2>6. \A t \in TaskID : journal[t].phase \in {"prepared"} \cup Unsettled =>
          (Uniform(backup[t])' <=> Uniform(backup[t]))
    BY <1>1, <2>3, <2>4 DEF Uniform, Unsettled
  <2>7. \A t \in TaskID : installed(journal[t].target)' <=> installed(journal[t].target)
    BY <1>1, <1>3, <2>4 DEF installed
  <2>8. \A t \in TaskID : journal[t].phase \in {"prepared"} \cup Unsettled => Ran(t)'
    BY <1>1, <1>3, <2>3, <2>4, ZenonT(30) DEF HInv, Machine, Ran, Unsettled
  <2>9. /\ \A t \in TaskID : journal[t].phase \in Fresh => backup'[t] = None
        /\ \A t \in TaskID : journal[t].phase \in Early /\ backup'[t] # None => Restored(t)'
    <3>1. \A t \in TaskID : journal[t].phase \in Fresh => backup'[t] = None
      BY <1>1, <2>3 DEF HInv, Machine, Fresh
    <3>2. ASSUME NEW t \in TaskID, journal[t].phase \in Early, backup'[t] # None PROVE Restored(t)'
      <4>1. CASE t = cur
        BY <1>1, <2>1, <2>3, <2>4, <4>1 DEF Restored
      <4>2. CASE t # cur
        BY <1>1, <2>3, <2>4, <3>2, <4>2 DEF HInv, Machine, Restored
      <4> QED
        BY <4>1, <4>2
    <3> QED
      BY <3>1, <3>2
  <2>10. Machine'
    BY <1>1, <1>3, <2>3, <2>4, <2>6, <2>7, <2>8, <2>9, ZenonT(30) DEF HInv, Machine
  <2>11. Ran(cur)'
    <3>1. b["image"] = unit /\ b["xmesh"] = files["xmesh"] /\ cur' = cur
      BY <1>3, <2>1, Kinds DEF b, HInv, Machine, goto
    <3> QED
      BY <1>1, <2>3, <3>1 DEF Ran
  <2>12. journal'[cur].target = mem'.target
    <3>1. inPhase("prepared").target = mem.target
      BY <1>2 DEF inPhase, JournalShape
    <3> QED
      BY <1>2, <1>3, <3>1 DEF goto
  <2> QED
    BY <1>1, <1>3, <2>4, <2>5, <2>10, <2>11, <2>12 DEF HInv, Spot, goto
<1>4. CASE (\E j \in outputOf(finished("failed")) : goto("save", j)) /\ UNCHANGED <<journal, backup>>
  <2>1. Machine' /\ Comp' = Comp
    BY <1>1, <1>4, MachineKept, SameKind DEF HInv
  <2>2. backup[cur] # None => \A c \in Comp : files[c] = backup[cur][c]
    BY <1>1, <1>2 DEF HInv, Machine, Early, Restored
  <2> QED
    BY <1>1, <1>2, <1>4, <2>1, <2>2, SpotSave DEF HInv, Unsettled
<1>5. CASE saveFailed(mem) /\ leave("error", mem) /\ UNCHANGED backup
  <2>1. Machine'
    BY <1>1, <1>2, <1>5, MachineWritten DEF HInv, Unsettled, saveFailed, Fresh, Early
  <2> QED
    BY <1>2, <1>5, <2>1, SpotLeft DEF HInv
<1> QED
  BY <1>3, <1>4, <1>5 DEF prepare

\* savePrepared and saveSwitching: the backup is known to the journal before the
\* first file is replaced.
LEMMA HostPrepared ==
  ASSUME HInv, IInv, savePrepared
  PROVE  HInv'
<1>1. /\ pc = "prepared" /\ pc \in Acting /\ mem.phase = "prepared"
      /\ journal[cur].phase = "downloading" /\ UNCHANGED <<files, backup, up, unit>>
      /\ journal' \in {journal, [journal EXCEPT ![cur] = mem]} /\ (Asked \/ Uniform(backup[cur]))
      /\ Ran(cur) /\ journal[cur].target = mem.target
  BY DEF savePrepared, saved, saveFailed, nvars, HInv, Spot, IInv, Place, Acting
<1>2. World /\ JournalShape(mem) /\ cur \in TaskID
  BY <1>1, InJob
<1>3. Machine'
  BY <1>1, <1>2, MachineWritten DEF HInv, Unsettled, Fresh, Early
<1>4. CASE saved(mem) /\ goto("switching", inPhase("switching"))
  <2>1. journal'[cur] = mem
    BY <1>2, <1>4 DEF saved, World
  <2>2. inPhase("switching").target = mem.target
    BY <1>2 DEF inPhase, JournalShape
  <2> QED
    BY <1>1, <1>3, <1>4, <2>1, <2>2 DEF HInv, Spot, goto
<1>5. CASE leave("error", mem)
  BY <1>2, <1>3, <1>5, SpotLeft DEF HInv
<1> QED
  BY <1>4, <1>5 DEF savePrepared

\* The switch begins when the journal says so.
LEMMA HostSwitching ==
  ASSUME HInv, IInv, saveSwitching
  PROVE  HInv'
<1>1. /\ pc = "switching" /\ pc \in Acting /\ mem.phase = "switching"
      /\ journal[cur].phase = "prepared" /\ UNCHANGED <<files, backup, up, unit>>
      /\ journal' \in {journal, [journal EXCEPT ![cur] = mem]}
  BY DEF saveSwitching, saved, saveFailed, HInv, Spot, IInv, Place, Acting
<1>2. World /\ JournalShape(mem) /\ cur \in TaskID
  BY <1>1, InJob
<1>3. (Asked \/ Uniform(backup[cur])) /\ Ran(cur) /\ journal[cur].target = mem.target
  BY <1>1, <1>2 DEF HInv, Machine, Spot
<1>4. Machine'
  BY <1>1, <1>2, <1>3, MachineWritten DEF HInv, Unsettled, Fresh, Early
<1>5. CASE saved(mem) /\ goto("switch", mem)
  <2>1. journal'[cur] = mem /\ cur' = cur /\ pc' = "switch" /\ step' = 1 /\ mem' = mem
    BY <1>2, <1>5 DEF saved, World, goto
  <2>2. /\ SwitchSteps' = SwitchSteps
        /\ Len(SwitchSteps) \in {2, 3, 4}
    BY <1>1, Kinds, SameKind DEF HInv, Machine
  <2>3. Switched'
    <3>1. 1..(step' - 1) = {} /\ step' \in 1..(Len(SwitchSteps) + 1)
      BY <2>1, <2>2
    <3>2. ~(step' \in 2..Len(SwitchSteps)) /\ ~(step' > Len(SwitchSteps))
      BY <2>1, <2>2
    <3> QED
      BY <2>2, <3>1, <3>2 DEF Switched, copied
  <2> QED
    BY <1>1, <1>4, <2>1, <2>3 DEF HInv, Spot
<1>6. CASE leave("error", mem)
  BY <1>2, <1>4, <1>6, SpotLeft DEF HInv
<1> QED
  BY <1>5, <1>6 DEF saveSwitching

-----------------------------------------------------------------------------
(* The commands.                                                           *)

\* A command that is performed adds its file to those that were copied.
LEMMA Copies ==
  ASSUME Machine, NEW steps, NEW content, step \in Nat, step >= 1, copied(steps, content),
         perform(steps[step], content), steps[step] = "image" => step = 1,
         steps[step] \in Comp \cup {"stop", "start", "up"} \/ (steps[step] = "image" /\ "compose" \in Comp)
  PROVE  \A k \in 1..step : steps[k] \in Comp => files'[steps[k]] = content[steps[k]]
<1> SUFFICES ASSUME NEW k \in 1..step, steps[k] \in Comp
             PROVE  files'[steps[k]] = content[steps[k]]
  OBVIOUS
<1>1. CASE steps[k] = steps[step]
  BY <1>1, Performs
<1>2. CASE steps[k] # steps[step]
  <2>1. k \in 1..(step - 1) /\ steps[step] # "image"
    BY <1>2
  <2>2. files'[steps[k]] = files[steps[k]]
    BY <1>2, <2>1, Performs
  <2> QED
    BY <2>1, <2>2 DEF copied
<1> QED
  BY <1>1, <1>2

\* A command installs or runs nothing but what the job knows.
LEMMA RanMoved ==
  ASSUME Machine, NEW t, NEW s, NEW content, Ran(t), perform(s, content) \/ fail(s, content),
         UNCHANGED <<journal, backup>>, DOMAIN files' = DOMAIN files,
         s \in Comp \cup {"stop", "start", "up"} \/ (s = "image" /\ "compose" \in Comp),
         s = "up" => Mode = "docker",
         content["xmesh"] \in {backup[t]["xmesh"], journal[t].target}
  PROVE  Ran(t)'
<1> SUFFICES ASSUME Mode = "systemd"
             PROVE  /\ unit' \in {backup[t]["image"], backup[t]["xmesh"], journal[t].target}
                    /\ files'["xmesh"] \in {backup[t]["xmesh"], journal[t].target}
  BY SameKind DEF Ran
<1>1. /\ unit \in {backup[t]["image"], backup[t]["xmesh"], journal[t].target}
      /\ files["xmesh"] \in {backup[t]["xmesh"], journal[t].target}
  BY DEF Ran
<1>2. "xmesh" \in Comp /\ "compose" \notin Comp /\ s \in Comp \cup {"stop", "start"}
      /\ s \in {"xmesh", "xray", "stop", "start"} /\ Comp \subseteq {"xmesh", "xray"}
  BY Kinds DEF Machine
<1>3. CASE perform(s, content)
  <2>1. CASE s \in Comp
    <3>1. files'["xmesh"] \in {files["xmesh"], content["xmesh"]} /\ unit' = unit
      BY <1>2, <1>3, <2>1, Performs
    <3> QED
      BY <1>1, <3>1
  <2>2. CASE s \in {"stop", "start"}
    <3>1. s \notin Comp \cup {"image"}
      BY <1>2, <2>2
    <3>2. files' = files /\ unit' \in {unit, files["xmesh"]}
      BY <1>3, <2>2, <3>1 DEF perform
    <3> QED
      BY <1>1, <3>2
  <2> QED
    BY <1>2, <2>1, <2>2
<1>4. CASE UNCHANGED <<files, unit>>
  BY <1>1, <1>4
<1> QED
  BY <1>3, <1>4 DEF fail

\* Where the commands of the switch may be.
LEMMA SwitchCommand ==
  ASSUME Machine, step \in 1..Len(SwitchSteps)
  PROVE  LET s == SwitchSteps[step] IN
         /\ s \in Comp \cup {"stop", "start", "up"} /\ s # "image"
         /\ s = "stop" <=> Mode = "systemd" /\ step = 1
         /\ s = "start" <=> Mode = "systemd" /\ step = Len(SwitchSteps)
         /\ s = "up" <=> Mode = "docker" /\ step = 2
         /\ Mode = "docker" => Len(SwitchSteps) = 2
         /\ Mode = "systemd" => Len(SwitchSteps) >= 3
         /\ Len(SwitchSteps) \in Nat
         /\ \A c \in Comp : Mode = "systemd" \/ c = "compose" => \E k \in 1..(Len(SwitchSteps) - 1) : SwitchSteps[k] = c
<1>1. CASE /\ Comp = {"xmesh"} /\ Mode = "systemd"
           /\ SwitchSteps = <<"stop", "xmesh", "start">>
  <2>1. step \in {1, 2, 3} /\ Len(SwitchSteps) = 3 /\ SwitchSteps[2] = "xmesh" /\ 2 \in 1..2
    BY <1>1
  <2> QED
    BY <1>1, <2>1
<1>2. CASE /\ Comp = {"xmesh", "xray"} /\ Mode = "systemd"
           /\ SwitchSteps = <<"stop", "xmesh", "xray", "start">>
  <2>1. /\ step \in {1, 2, 3, 4} /\ Len(SwitchSteps) = 4 /\ SwitchSteps[2] = "xmesh" /\ SwitchSteps[3] = "xray"
        /\ 2 \in 1..3 /\ 3 \in 1..3
    BY <1>2
  <2> QED
    BY <1>2, <2>1
<1>3. CASE /\ Comp = {"xmesh", "xray", "compose"} /\ Mode = "docker"
           /\ SwitchSteps = <<"compose", "up">>
  <2>1. step \in {1, 2} /\ Len(SwitchSteps) = 2 /\ SwitchSteps[1] = "compose" /\ 1 \in 1..1
    BY <1>3
  <2> QED
    BY <1>3, <2>1
<1> QED
  BY <1>1, <1>2, <1>3, Kinds DEF Machine

\* switchVersion, a command that succeeds or fails.
LEMMA HostSwitch ==
  ASSUME HInv, IInv, switchVersion
  PROVE  HInv'
<1> DEFINE s == SwitchSteps[step]
           n == Len(SwitchSteps)
<1>1. /\ pc = "switch" /\ pc \in Acting /\ step \in 1..(n + 1) /\ step <= n /\ UNCHANGED <<journal, backup>>
      /\ journal[cur].phase = "switching" /\ Switched /\ Machine /\ journal[cur].target = mem.target
  BY DEF switchVersion, HInv, Spot, Acting, Switched
<1>2. JournalShape(mem) /\ cur \in TaskID
  BY <1>1, InJob
<1>3. step \in 1..n /\ step \in Nat /\ step >= 1 /\ n \in Nat
  BY <1>1, Kinds DEF Machine
<1>4. /\ s \in Comp \cup {"stop", "start", "up"} /\ s # "image"
      /\ s = "stop" <=> Mode = "systemd" /\ step = 1
      /\ s = "start" <=> Mode = "systemd" /\ step = n
      /\ s = "up" <=> Mode = "docker" /\ step = 2
      /\ Mode = "docker" => n = 2
      /\ Mode = "systemd" => n >= 3
      /\ \A c \in Comp : Mode = "systemd" \/ c = "compose" => \E k \in 1..(n - 1) : SwitchSteps[k] = c
  BY <1>1, <1>3, SwitchCommand
<1>5. \A t \in TaskID : journal[t].phase # "verifying"
  BY <1>1, Alone DEF Working, Unsettled
<1>6. perform(s, newFiles) \/ fail(s, newFiles)
  BY DEF switchVersion
<1>7. DOMAIN files' = DOMAIN files /\ files' = [c \in DOMAIN files' |-> files'[c]] /\ up' \in BOOLEAN
  <2>1. CASE perform(s, newFiles)
    BY <1>1, <1>4, <2>1, Performs
  <2>2. CASE fail(s, newFiles)
    BY <1>1, <1>4, <2>2, Fails
  <2> QED
    BY <1>6, <2>1, <2>2
<1>8. Machine'
  <2>1. Ran(cur) /\ "xmesh" \in Comp
    BY <1>1, <1>2, Kinds DEF Machine, Unsettled
  <2>2. newFiles["xmesh"] \in {backup[cur]["xmesh"], journal[cur].target}
    BY <1>1, <2>1 DEF newFiles
  <2>3. PICK u \in TaskID : u = cur
    BY <1>2
  <2>4. Ran(u)'
    BY <1>1, <1>2, <1>4, <1>6, <1>7, <2>1, <2>2, <2>3, RanMoved
  <2>5. journal[u].phase \in Unsettled /\ \A t \in TaskID : journal[t].phase \in Working => t = u
    BY <1>1, <2>3, Alone DEF Unsettled
  <2> QED
    BY <1>1, <1>5, <1>7, <2>4, <2>5, MachineMoved
<1>9. ASSUME NEW j \in outputOf(mem), goto("rollback", j) PROVE HInv'
  <2>1. j.target = mem.target
    BY <1>2, <1>9, ShapeOutput
  <2> QED
    BY <1>1, <1>8, <1>9, <2>1 DEF HInv, Spot, goto, Unsettled
<1>10. CASE perform(s, newFiles) /\ step' = step + 1 /\ UNCHANGED <<pc, cur, mem>>
  <2>1. Comp' = Comp /\ Mode' = Mode /\ SwitchSteps' = SwitchSteps
    BY <1>7, SameKind
  <2>2. newFiles' = newFiles /\ \A c \in Comp : newFiles[c] = mem.target
    BY <1>10, <2>1 DEF newFiles
  <2>3. \A k \in 1..step : SwitchSteps[k] \in Comp => files'[SwitchSteps[k]] = newFiles[SwitchSteps[k]]
    <3>1. copied(SwitchSteps, newFiles) /\ Machine
      BY <1>1 DEF Switched
    <3>2. /\ SwitchSteps[step] \in Comp \cup {"stop", "start", "up"} /\ SwitchSteps[step] # "image"
          /\ perform(SwitchSteps[step], newFiles) /\ step \in Nat /\ step >= 1
      BY <1>3, <1>4, <1>10
    <3> QED
      BY <3>1, <3>2, Copies
  <2>4. copied(SwitchSteps, newFiles)' /\ step' \in 1..(n + 1)
    <3>1. 1..(step' - 1) = 1..step /\ step' \in 1..(n + 1)
      BY <1>3, <1>10
    <3> QED
      BY <2>1, <2>2, <2>3, <3>1 DEF copied
  <2>5. Mode = "systemd" /\ step' \in 2..n => ~up'
    <3>1. CASE s = "stop"
      <4>1. s \notin Comp \cup {"image"}
        BY <1>1, <3>1, Kinds DEF Machine
      <4> QED
        BY <1>10, <3>1, <4>1 DEF perform
    <3>2. CASE Mode = "systemd" /\ s \notin {"stop", "start", "up"}
      <4>1. up' = up /\ step \in 2..n
        BY <1>1, <1>3, <1>4, <1>10, <3>2 DEF perform
      <4> QED
        BY <1>1, <4>1 DEF Switched
    <3>3. CASE s = "start"
      BY <1>3, <1>4, <1>10, <3>3
    <3> QED
      BY <1>4, <3>1, <3>2, <3>3
  <2>6. step' > n => installed(mem.target)'
    <3> SUFFICES ASSUME step' > n PROVE installed(mem.target)'
      OBVIOUS
    <3>1. step = n /\ s \in {"start", "up"} /\ s \notin Comp \cup {"image"}
      BY <1>3, <1>4, <1>10, Kinds DEF HInv, Machine
    <3>2. files' = files /\ up'
      BY <1>10, <3>1, ZenonT(30) DEF perform
    <3>3. \A c \in Comp : Mode = "systemd" \/ c = "compose" => files[c] = mem.target
      BY <1>1, <1>4, <2>2, <3>1 DEF Switched, copied
    <3>4. unit' = mem.target
      <4>1. CASE s = "start"
        <5>1. ~up /\ "xmesh" \in Comp
          BY <1>1, <1>3, <1>4, <3>1, <4>1, Kinds DEF Switched, Machine
        <5> QED
          BY <1>4, <1>10, <3>1, <3>3, <4>1, <5>1 DEF perform
      <4>2. CASE s = "up"
        <5>1. "compose" \in Comp
          BY <1>1, <1>4, <4>2, Kinds DEF Machine
        <5> QED
          BY <1>10, <3>1, <3>3, <4>2, <5>1 DEF perform
      <4> QED
        BY <3>1, <4>1, <4>2
    <3> QED
      BY <1>10, <2>1, <3>2, <3>3, <3>4 DEF installed
  <2>7. Switched'
    BY <2>1, <2>4, <2>5, <2>6 DEF Switched
  <2> QED
    BY <1>1, <1>8, <1>10, <2>7 DEF HInv, Spot
<1> QED
  BY <1>9, <1>10, ErrorOutput DEF switchVersion

\* saveVerifying: the journal says verifying when everything is switched.
LEMMA HostVerifying ==
  ASSUME HInv, IInv, saveVerifying
  PROVE  HInv'
<1> DEFINE j == inPhase("verifying")
<1>1. /\ pc = "switch" /\ pc \in Acting /\ step > Len(SwitchSteps) /\ journal[cur].phase = "switching" /\ Switched
      /\ UNCHANGED <<files, backup, up, unit>> /\ journal' \in {journal, [journal EXCEPT ![cur] = j]}
  BY DEF saveVerifying, saved, saveFailed, nvars, HInv, Spot, Acting
<1>2. World /\ JournalShape(mem) /\ cur \in TaskID
  BY <1>1, InJob
<1>3. j.phase = "verifying" /\ j.target = mem.target
  <2>1. JournalShape(j) /\ j.phase = "verifying"
    BY <1>2, PhaseOf
  <2>2. j.target = mem.target
    BY <1>2 DEF inPhase, JournalShape
  <2> QED
    BY <2>1, <2>2
<1> HIDE DEF j
<1>4. installed(j.target)
  BY <1>1, <1>3 DEF Switched
<1>5. (Asked \/ Uniform(backup[cur])) /\ Ran(cur) /\ journal[cur].target = mem.target
  BY <1>1, <1>2 DEF HInv, Machine, Unsettled, Spot
<1>6. Machine'
  BY <1>1, <1>2, <1>3, <1>4, <1>5, MachineWritten DEF HInv, Unsettled, Fresh, Early
<1>7. CASE saved(j) /\ goto("verify", j)
  <2>1. journal'[cur] = j
    BY <1>2, <1>7 DEF saved, World
  <2> QED
    BY <1>3, <1>6, <1>7, <2>1 DEF HInv, Spot, goto
<1>8. CASE goto("rollback", j)
  <2>1. journal'[cur].phase \in {"switching", "verifying"} /\ journal'[cur].target = j.target
    BY <1>1, <1>2, <1>3, <1>5 DEF World
  <2> QED
    BY <1>6, <1>8, <2>1 DEF HInv, Spot, goto, Unsettled
<1> QED
  BY <1>7, <1>8 DEF saveVerifying, j

\* verify goes on, gives up or rolls back.
LEMMA HostVerify ==
  ASSUME HInv, IInv, verify
  PROVE  HInv'
<1>1. /\ pc = "verify" /\ pc \in Acting /\ journal[cur].phase = "verifying" /\ journal[cur].target = mem.target
      /\ UNCHANGED <<journal, files, backup, up, unit>>
  BY DEF verify, dvars, nvars, HInv, Spot, Acting
<1>2. Machine' /\ JournalShape(mem)
  BY <1>1, InJob, MachineKept DEF HInv
<1>3. CASE goto("finish", mem)
  <2>1. /\ pc' = "finish" /\ cur' = cur /\ mem' = mem /\ step' = 1 /\ FinishSteps' = FinishSteps
        /\ Len(FinishSteps) \in {0, 2}
    BY <1>1, <1>3, Kinds, SameKind DEF goto, HInv, Machine
  <2>2. 1..(step' - 1) = {} /\ step' \in 1..(Len(FinishSteps) + 1)
    BY <2>1
  <2>3. copied(FinishSteps, newFiles)'
    BY <2>2 DEF copied
  <2> QED
    BY <1>1, <1>2, <2>1, <2>2, <2>3 DEF HInv, Spot
<1>4. CASE goto("rollback", mem)
  BY <1>1, <1>2, <1>4 DEF HInv, Spot, goto, Unsettled
<1>5. CASE leave("unavailable", mem)
  BY <1>2, <1>5, SpotLeft DEF HInv
<1> QED
  BY <1>3, <1>4, <1>5, ZenonT(30) DEF verify

\* finishDocker installs the files that a Docker installation only keeps.
LEMMA HostFinish ==
  ASSUME HInv, IInv, finishDocker
  PROVE  HInv'
<1> DEFINE s == FinishSteps[step]
           n == Len(FinishSteps)
<1>1. /\ pc = "finish" /\ pc \in Acting /\ step \in 1..(n + 1) /\ UNCHANGED <<journal, backup>> /\ Machine
      /\ journal[cur].phase = "verifying" /\ journal[cur].target = mem.target /\ copied(FinishSteps, newFiles)
  BY DEF finishDocker, HInv, Spot, Acting
<1>2. JournalShape(mem) /\ cur \in TaskID
  BY <1>1, InJob
<1>3. installed(mem.target) /\ \A t \in TaskID : journal[t].phase = "verifying" => t = cur
  BY <1>1, <1>2, Alone DEF Machine, Working, Unsettled
<1>4. \/ n = 0 /\ Mode = "systemd"
      \/ /\ n = 2 /\ Mode = "docker" /\ Comp = {"xmesh", "xray", "compose"}
         /\ FinishSteps[1] = "xmesh" /\ FinishSteps[2] = "xray"
  BY <1>1, Kinds DEF Machine
<1>5. step \in Nat /\ step >= 1 /\ n \in Nat
  BY <1>1, <1>4
<1>6. CASE step <= n
  <2>1. /\ s \in {"xmesh", "xray"} /\ s \in Comp /\ s # "image" /\ s \notin {"stop", "start", "up", "compose"}
        /\ Mode = "docker"
    BY <1>4, <1>5, <1>6
  <2>2. perform(s, newFiles) \/ fail(s, newFiles)
    BY <1>6, <1>5 DEF finishDocker
  <2>3. perform(s, newFiles) \/ UNCHANGED <<files, unit, up>>
    BY <2>1, <2>2 DEF fail
  <2>4. /\ DOMAIN files' = DOMAIN files /\ files' = [c \in DOMAIN files' |-> files'[c]] /\ up' \in BOOLEAN
        /\ UNCHANGED <<unit, up>> /\ ("compose" \in Comp => files'["compose"] = files["compose"])
    <3>1. CASE perform(s, newFiles)
      BY <1>1, <2>1, <3>1, Performs
    <3>2. CASE UNCHANGED <<files, unit, up>>
      BY <1>1, <3>2 DEF Machine
    <3> QED
      BY <2>3, <3>1, <3>2
  <2>5. Comp' = Comp /\ Mode' = Mode /\ FinishSteps' = FinishSteps
    BY <2>4, SameKind
  <2>6. \A t \in TaskID : journal[t].phase = "verifying" => installed(journal[t].target)'
    BY <1>1, <1>3, <2>1, <2>4, <2>5 DEF installed
  <2>7. Machine'
    <3>1. cur' = cur /\ \A t \in TaskID : journal[t].phase \in Working => t = cur
      BY <1>1, Alone DEF finishDocker, goto
    <3>2. Ran(cur)'
      BY <2>1, <2>5 DEF Ran
    <3> QED
      BY <1>1, <1>2, <2>4, <2>6, <3>1, <3>2, MachineMoved DEF Unsettled
  <2>8. CASE goto("rollback", mem)
    BY <1>1, <2>7, <2>8 DEF HInv, Spot, goto, Unsettled
  <2>9. CASE perform(s, newFiles) /\ step' = step + 1 /\ UNCHANGED <<pc, cur, mem>>
    <3>1. newFiles' = newFiles
      BY <2>5, <2>9 DEF newFiles
    <3>2. \A k \in 1..step : FinishSteps[k] \in Comp => files'[FinishSteps[k]] = newFiles[FinishSteps[k]]
      BY <1>1, <1>5, <2>1, <2>9, Copies
    <3>3. 1..(step' - 1) = 1..step /\ step' \in 1..(n + 1)
      BY <1>5, <1>6, <2>9
    <3>4. copied(FinishSteps, newFiles)'
      BY <2>5, <3>1, <3>2, <3>3, ZenonT(30) DEF copied
    <3> QED
      BY <1>1, <2>5, <2>7, <2>9, <3>3, <3>4, ZenonT(30) DEF HInv, Spot
  <2> QED
    BY <1>5, <1>6, <2>8, <2>9 DEF finishDocker
<1>7. CASE goto("save", finished("succeeded")) /\ step > n /\ UNCHANGED <<files, unit, up>>
  <2>1. Machine' /\ Comp' = Comp
    BY <1>1, <1>7, MachineKept, SameKind
  <2>2. \A c \in Comp : newFiles[c] = mem.target
    BY DEF newFiles
  <2>3. \A c \in Comp : files[c] = mem.target
    <3>1. CASE Mode = "systemd"
      BY <1>3, <3>1 DEF installed
    <3>2. CASE Mode = "docker"
      <4>1. n = 2
        BY <1>4, <3>2
      <4>2. step = 3
        BY <1>1, <1>7, <4>1
      <4>3. 1 \in 1..(step - 1) /\ 2 \in 1..(step - 1)
        BY <4>2
      <4>4. files["xmesh"] = mem.target /\ files["xray"] = mem.target /\ files["compose"] = mem.target
        BY <1>1, <1>3, <1>4, <2>2, <3>2, <4>3 DEF copied, installed
      <4> QED
        BY <1>4, <3>2, <4>4
    <3> QED
      BY <1>4, <3>1, <3>2
  <2>4. finished("succeeded") \in outputOf(finished("succeeded"))
    BY ErrorOutput
  <2> QED
    BY <1>1, <1>2, <1>7, <2>1, <2>3, <2>4, SpotSave DEF HInv
<1> QED
  BY <1>5, <1>6, <1>7 DEF finishDocker

\* saveRollingBack.
LEMMA HostRollingBack ==
  ASSUME HInv, IInv, saveRollingBack
  PROVE  HInv'
<1> DEFINE j == inPhase("rolling_back")
<1>1. /\ pc = "rollback" /\ pc \in Acting /\ journal[cur].phase \in Unsettled
      /\ UNCHANGED <<files, backup, up, unit>> /\ journal' \in {journal, [journal EXCEPT ![cur] = j]}
  BY DEF saveRollingBack, saved, saveFailed, nvars, HInv, Spot, Acting
<1>2. World /\ JournalShape(mem) /\ cur \in TaskID /\ journal[cur].phase # "done"
  BY <1>1, InJob
<1>3. JournalShape(j) /\ j.phase = "rolling_back" /\ j.target = mem.target
  <2>1. j.target = mem.target
    BY <1>2 DEF inPhase, JournalShape
  <2> QED
    BY <1>2, <2>1, PhaseOf
<1> HIDE DEF j
<1>4. (Asked \/ Uniform(backup[cur])) /\ Ran(cur) /\ journal[cur].target = mem.target
  BY <1>1, <1>2 DEF HInv, Machine, Spot
<1>5. Machine'
  BY <1>1, <1>2, <1>3, <1>4, MachineWritten DEF HInv, Unsettled, Fresh, Early
<1>6. CASE saved(j) /\ goto("restore", j)
  <2>1. journal'[cur] = j /\ pc' = "restore" /\ cur' = cur /\ step' = 1 /\ mem' = j
    BY <1>2, <1>6 DEF saved, World, goto
  <2>2. RestoreSteps' = RestoreSteps /\ Len(RestoreSteps) \in {3, 4, 5}
    BY <1>1, Kinds, SameKind DEF HInv, Machine
  <2>3. 1..(step' - 1) = {} /\ step' \in 1..(Len(RestoreSteps) + 1)
    BY <2>1, <2>2
  <2>4. copied(RestoreSteps, backup[cur])' /\ Imaged'
    BY <2>1, <2>3 DEF copied, Imaged
  <2> QED
    BY <1>3, <1>5, <2>1, <2>2, <2>3, <2>4 DEF HInv, Spot
<1>7. CASE leave("error", j)
  BY <1>3, <1>5, <1>7, SpotLeft DEF HInv
<1> QED
  BY <1>6, <1>7 DEF saveRollingBack, j

\* Where the commands of the restoration may be: every file has its command.
LEMMA RestoreCommand ==
  ASSUME Machine
  PROVE  /\ Len(RestoreSteps) \in Nat
         /\ \A k \in 1..Len(RestoreSteps) : LET s == RestoreSteps[k] IN
              /\ s \in Comp \cup {"stop", "start", "up"} \/ (s = "image" /\ "compose" \in Comp)
              /\ s = "image" => k = 1
              /\ s = "stop" => s \notin Comp /\ Mode # "docker"
              /\ s = "up" => Mode = "docker"
         /\ \A c \in Comp : \E k \in 1..Len(RestoreSteps) : RestoreSteps[k] = c
<1>1. CASE Comp = {"xmesh"} /\ Mode = "systemd" /\ RestoreSteps = <<"stop", "xmesh", "start">>
  <2>1. 1..Len(RestoreSteps) = {1, 2, 3} /\ RestoreSteps[2] = "xmesh" /\ Len(RestoreSteps) = 3
    BY <1>1
  <2> QED
    BY <1>1, <2>1
<1>2. CASE Comp = {"xmesh", "xray"} /\ Mode = "systemd" /\ RestoreSteps = <<"stop", "xmesh", "xray", "start">>
  <2>1. /\ 1..Len(RestoreSteps) = {1, 2, 3, 4} /\ RestoreSteps[2] = "xmesh" /\ RestoreSteps[3] = "xray"
        /\ Len(RestoreSteps) = 4
    BY <1>2
  <2> QED
    BY <1>2, <2>1
<1>3. CASE /\ Comp = {"xmesh", "xray", "compose"} /\ Mode = "docker"
           /\ RestoreSteps = <<"image", "xmesh", "xray", "up", "compose">>
  <2>1. /\ 1..Len(RestoreSteps) = {1, 2, 3, 4, 5} /\ RestoreSteps[2] = "xmesh" /\ RestoreSteps[3] = "xray"
        /\ RestoreSteps[5] = "compose" /\ Len(RestoreSteps) = 5
    BY <1>3
  <2> QED
    BY <1>3, <2>1
<1> QED
  BY <1>1, <1>2, <1>3, Kinds DEF Machine

\* The old image goes into compose.yaml first, is run, and compose.yaml is restored.
LEMMA ImageRestored ==
  ASSUME Machine, Imaged, step \in 1..Len(RestoreSteps), perform(RestoreSteps[step], backup[cur]),
         step' = step + 1, UNCHANGED <<cur, backup>>, Mode' = Mode
  PROVE  Imaged'
<1> SUFFICES ASSUME Mode = "docker"
             PROVE  /\ step' \in 2..4 => files'["compose"] = backup[cur]["image"]
                    /\ step' > 4 => unit' = backup[cur]["image"]
  BY DEF Imaged
<1>1. /\ RestoreSteps = <<"image", "xmesh", "xray", "up", "compose">> /\ Len(RestoreSteps) = 5
      /\ Comp = {"xmesh", "xray", "compose"}
  BY Kinds DEF Machine
<1>2. /\ step \in 2..4 => files["compose"] = backup[cur]["image"]
      /\ step > 4 => unit = backup[cur]["image"]
  BY DEF Imaged
<1>3. CASE step = 1
  <2>1. perform("image", backup[cur])
    BY <1>1, <1>3
  <2>2. files' = [files EXCEPT !["compose"] = backup[cur]["image"]]
    BY <2>1 DEF perform
  <2>3. files'["compose"] = backup[cur]["image"] /\ ~(step' > 4)
    BY <1>1, <1>3, <2>2 DEF Comp
  <2> QED
    BY <2>3
<1>4. CASE step \in {2, 3}
  <2>1. PICK c \in {"xmesh", "xray"} : perform(c, backup[cur])
    BY <1>1, <1>4
  <2>2. files'["compose"] = files["compose"]
    BY <1>1, <2>1, Performs
  <2>3. step \in 2..4 /\ ~(step' > 4)
    BY <1>4
  <2> QED
    BY <1>2, <2>2, <2>3
<1>5. CASE step = 4
  <2>1. perform("up", backup[cur]) /\ "up" \notin Comp \cup {"image"}
    BY <1>1, <1>5
  <2>2. unit' = files["compose"]
    BY <2>1 DEF perform
  <2>3. step \in 2..4 /\ ~(step' \in 2..4)
    BY <1>5
  <2> QED
    BY <1>2, <2>2, <2>3
<1>6. CASE step = 5
  <2>1. perform("compose", backup[cur]) /\ "compose" \in Comp
    BY <1>1, <1>6
  <2>2. unit' = unit
    BY <2>1 DEF perform
  <2>3. step > 4 /\ ~(step' \in 2..4)
    BY <1>6
  <2> QED
    BY <1>2, <2>2, <2>3
<1> QED
  BY <1>1, <1>3, <1>4, <1>5, <1>6

\* restore, a command that succeeds or fails.
LEMMA HostRestore ==
  ASSUME HInv, IInv, restore
  PROVE  HInv'
<1> DEFINE s == RestoreSteps[step]
           n == Len(RestoreSteps)
           b == backup[cur]
<1>1. /\ pc = "restore" /\ pc \in Acting /\ step \in 1..(n + 1) /\ step <= n /\ UNCHANGED <<journal, backup>>
      /\ journal[cur].phase = "rolling_back" /\ copied(RestoreSteps, b) /\ Machine /\ Imaged
      /\ journal[cur].target = mem.target
  BY DEF restore, HInv, Spot, Acting
<1>2. JournalShape(mem) /\ cur \in TaskID
  BY <1>1, InJob
<1>3. n \in Nat /\ step \in 1..n /\ step \in Nat /\ step >= 1
  <2>1. n \in Nat
    BY <1>1, RestoreCommand
  <2> QED
    BY <1>1, <2>1
<1>4. /\ s \in Comp \cup {"stop", "start", "up"} \/ (s = "image" /\ "compose" \in Comp)
      /\ s = "image" => step = 1
      /\ s = "stop" => s \notin Comp /\ Mode # "docker"
      /\ s = "up" => Mode = "docker"
  BY <1>1, <1>3, RestoreCommand
<1>5. \A t \in TaskID : journal[t].phase # "verifying"
  BY <1>1, Alone DEF Working, Unsettled
<1>6. perform(s, b) \/ fail(s, b)
  BY DEF restore
<1>7. DOMAIN files' = DOMAIN files /\ files' = [c \in DOMAIN files' |-> files'[c]] /\ up' \in BOOLEAN
  <2>1. CASE perform(s, b)
    BY <1>1, <1>4, <2>1, Performs
  <2>2. CASE fail(s, b)
    BY <1>1, <1>4, <2>2, Fails
  <2> QED
    BY <1>6, <2>1, <2>2
<1>8. Machine'
  <2>1. PICK u \in TaskID : u = cur
    BY <1>2
  <2>2. Ran(u)
    BY <1>1, <2>1 DEF Machine, Unsettled
  <2>3. Ran(u)'
    BY <1>1, <1>2, <1>4, <1>6, <1>7, <2>1, <2>2, RanMoved
  <2>4. journal[u].phase \in Unsettled /\ \A t \in TaskID : journal[t].phase \in Working => t = u
    BY <1>1, <2>1, Alone DEF Unsettled
  <2> QED
    BY <1>1, <1>5, <1>7, <2>3, <2>4, MachineMoved
<1>9. Comp' = Comp /\ RestoreSteps' = RestoreSteps /\ Mode' = Mode
  BY <1>7, SameKind
<1>10. ASSUME NEW k \in outputOf(finished("manual_intervention")), goto("save", k) PROVE HInv'
  BY <1>2, <1>8, <1>10, SpotSave DEF HInv
<1>11. ASSUME step' = step + 1, UNCHANGED <<pc, cur, mem>>, Imaged',
              \A k \in 1..step : RestoreSteps[k] \in Comp => files'[RestoreSteps[k]] = b[RestoreSteps[k]]
       PROVE  HInv'
  <2>1. 1..(step' - 1) = 1..step /\ step' \in 1..(n + 1)
    BY <1>3, <1>11
  <2>2. copied(RestoreSteps, backup[cur])'
    BY <1>1, <1>9, <1>11, <2>1 DEF copied
  <2> QED
    BY <1>1, <1>8, <1>9, <1>11, <2>1, <2>2, ZenonT(30) DEF HInv, Spot
<1>12. CASE perform(s, b) /\ step' = step + 1 /\ UNCHANGED <<pc, cur, mem>>
  <2>1. \A k \in 1..step : RestoreSteps[k] \in Comp => files'[RestoreSteps[k]] = b[RestoreSteps[k]]
    BY <1>1, <1>3, <1>4, <1>12, Copies
  <2>2. Imaged'
    BY <1>1, <1>3, <1>9, <1>12, ImageRestored
  <2> QED
    BY <1>11, <1>12, <2>1, <2>2
<1>13. CASE fail(s, b) /\ s = "stop" /\ step' = step + 1 /\ UNCHANGED <<pc, cur, mem>>
  <2>1. files' = files
    BY <1>4, <1>13 DEF fail, perform
  <2>2. \A k \in 1..step : RestoreSteps[k] \in Comp => k \in 1..(step - 1)
    BY <1>3, <1>4, <1>13
  <2>3. \A k \in 1..step : RestoreSteps[k] \in Comp => files'[RestoreSteps[k]] = b[RestoreSteps[k]]
    BY <1>1, <2>1, <2>2 DEF copied
  <2>4. Imaged'
    BY <1>4, <1>9, <1>13 DEF Imaged
  <2> QED
    BY <1>11, <1>13, <2>3, <2>4
<1> QED
  BY <1>10, <1>12, <1>13, ErrorOutput DEF restore

\* The rollback is verified when every file has been restored.
LEMMA HostVerifyRollback ==
  ASSUME HInv, IInv, verifyRollback
  PROVE  HInv'
<1> DEFINE n == Len(RestoreSteps)
<1>1. /\ pc = "restore" /\ pc \in Acting /\ step \in 1..(n + 1) /\ step > n
      /\ UNCHANGED <<journal, files, backup, up, unit>>
      /\ journal[cur].phase = "rolling_back" /\ copied(RestoreSteps, backup[cur]) /\ Machine /\ Imaged
  BY DEF verifyRollback, dvars, nvars, HInv, Spot, Acting
<1>2. JournalShape(mem) /\ cur \in TaskID
  BY <1>1, InJob
<1>3. Machine' /\ Comp' = Comp /\ Mode' = Mode
  BY <1>1, MachineKept, SameKind
<1>4. CASE goto("save", finished("manual_intervention"))
  <2>1. finished("manual_intervention") \in outputOf(finished("manual_intervention"))
    BY ErrorOutput
  <2> QED
    BY <1>2, <1>3, <1>4, <2>1, SpotSave DEF HInv
<1>5. CASE rollbackVerified /\ goto("save", finished("rolled_back"))
  <2>1. n \in Nat /\ \A c \in Comp : \E k \in 1..n : RestoreSteps[k] = c
    BY <1>1, RestoreCommand
  <2>2. 1..n = 1..(step - 1)
    BY <1>1, <2>1
  <2>3. \A c \in Comp : files[c] = backup[cur][c]
    BY <1>1, <2>1, <2>2 DEF copied
  <2>4. Mode = "docker" => unit = backup[cur]["image"]
    <3> SUFFICES ASSUME Mode = "docker" PROVE unit = backup[cur]["image"]
      OBVIOUS
    <3>1. n = 5 /\ step \in 1..(n + 1) /\ step > n
      BY <1>1, Kinds DEF Machine
    <3>2. step > 4
      <4> HIDE DEF n
      <4> QED
        BY <3>1
    <3> QED
      BY <1>1, <3>2 DEF Imaged
  <2>5. finished("rolled_back") \in outputOf(finished("rolled_back"))
    BY ErrorOutput
  <2> QED
    BY <1>1, <1>2, <1>3, <1>5, <2>3, <2>4, <2>5, SpotSave DEF HInv, rollbackVerified
<1> QED
  BY <1>4, <1>5 DEF verifyRollback

-----------------------------------------------------------------------------
(* The outcome, and the whole.                                             *)

\* The outcome is saved: the host is whole, or a human is asked to help.
LEMMA HostDone ==
  ASSUME HInv, IInv, saveDone
  PROVE  HInv'
<1>1. /\ pc = "save" /\ pc \in Undecided /\ UNCHANGED <<files, backup, up, unit>> /\ Justified(mem.result)
      /\ journal' \in {journal, [journal EXCEPT ![cur] = mem]} /\ Machine
  BY ZenonT(30) DEF saveDone, saved, saveFailed, nvars, HInv, Spot, Undecided
<1>2. /\ World /\ JournalShape(mem) /\ cur \in TaskID /\ journal[cur].phase # "done"
      /\ mem.phase = "done" /\ mem.result \in Outcomes
  BY <1>1 DEF IInv, Place
<1>3. journal[cur].phase \in Unsettled => \/ Asked \/ (Uniform(files) /\ up)
                                          \/ mem.result = "manual_intervention"
  <2> SUFFICES ASSUME journal[cur].phase \in Unsettled, mem.result # "manual_intervention"
               PROVE  Asked \/ (Uniform(files) /\ up)
    OBVIOUS
  <2>1. CASE mem.result = "succeeded"
    <3>1. journal[cur].phase = "verifying" /\ \A c \in Comp : files[c] = mem.target
      BY <1>1, <2>1 DEF Justified
    <3>2. installed(journal[cur].target)
      BY <1>1, <1>2, <3>1 DEF Machine
    <3> QED
      BY <3>1, <3>2 DEF installed, Uniform
  <2>2. CASE mem.result = "rolled_back"
    <3>1. up /\ \A c \in Comp : files[c] = backup[cur][c]
      BY <1>1, <2>2 DEF Justified, Restored
    <3>2. Asked \/ Uniform(backup[cur])
      BY <1>1, <1>2 DEF Machine
    <3> QED
      BY <3>1, <3>2 DEF Uniform
  <2> QED
    BY <1>1, <1>2, <2>1, <2>2 DEF Justified, Outcomes, Failures
<1>4. Machine'
  BY <1>1, <1>2, <1>3, MachineWritten DEF Unsettled, Fresh, Early
<1>5. CASE pc' = "report"
  BY <1>4, <1>5, SpotRests DEF HInv
<1>6. CASE leave("", mem) \/ leave("error", mem)
  BY <1>2, <1>4, <1>6, SpotLeft DEF HInv
<1> QED
  BY <1>5, <1>6, ZenonT(30) DEF saveDone

\* The outcome is reported: the journal keeps it.
LEMMA HostReport ==
  ASSUME HInv, IInv, reportTerminal
  PROVE  HInv'
<1> DEFINE k == [mem EXCEPT !.reported = TRUE]
<1>1. /\ UNCHANGED <<files, backup, up, unit>> /\ journal' \in {journal, [journal EXCEPT ![cur] = k]}
      /\ World /\ JournalShape(mem) /\ cur \in TaskID /\ mem.phase = "done"
      /\ journal[cur].phase = "done" /\ journal[cur].result = mem.result
  BY DEF reportTerminal, saved, saveFailed, nvars, IInv, Place
<1>2. JournalShape(k) /\ k.phase = "done" /\ k.result = mem.result
  <2>1. \A b : LET x == [mem EXCEPT !.reported = b]
               IN  JournalShape(x) /\ x.phase = mem.phase /\ x.result = mem.result
    BY <1>1, ShapeReported
  <2> QED
    BY <1>1, <2>1
<1>3. \E err : leave(err, k) \/ leave(err, mem)
  BY ZenonT(30) DEF reportTerminal
<1> HIDE DEF k
<1>4. Machine'
  BY <1>1, <1>2, MachineWritten DEF HInv, Unsettled, Fresh, Early
<1> QED
  BY <1>1, <1>2, <1>3, <1>4, SpotLeft DEF HInv

\* A new host has one version everywhere and no jobs.
LEMMA HostInit == Init => HInv
<1> SUFFICES ASSUME Init PROVE HInv
  OBVIOUS
<1>1. PICK C \in Install, v \in Version : files = [c \in C |-> v]
  BY DEF Init
<1>2. /\ journal = [t \in TaskID |-> NoJournal] /\ NoJournal.phase = "none" /\ pc = "off" /\ up = TRUE
      /\ backup = [t \in TaskID |-> None]
  BY DEF Init, NoJournal
<1>3. Uniform(files)
  BY <1>1 DEF Uniform, Comp
<1>4. Machine
  BY <1>1, <1>2, <1>3 DEF Machine, Unsettled, Early
<1>5. Spot
  BY <1>2 DEF Spot, Acting
<1> QED
  BY <1>4, <1>5 DEF HInv

\* Every step keeps journals and host together.
LEMMA HostNext == HInv /\ IInv /\ [Next]_vars => HInv'
<1> SUFFICES ASSUME HInv, IInv, [Next]_vars PROVE HInv'
  OBVIOUS
<1>1. CASE UNCHANGED vars
  BY <1>1, HostKept DEF vars
<1>2. CASE Process
  BY <1>2, HostRecover, HostIdle, HostReserve, HostManual, HostExecute, HostDownloading, HostPrepare,
     HostPrepared, HostSwitching, HostSwitch, HostVerifying, HostVerify, HostFinish, HostRollingBack,
     HostRestore, HostVerifyRollback, HostDone, HostReport DEF Process
<1>3. CASE Environment
  BY <1>3, HostOutside, HostRestarts, HostCrash, HostIdle DEF Environment
<1>4. CASE start("daemon")
  BY <1>4, HostIdle
<1> QED
  BY <1>1, <1>2, <1>3, <1>4 DEF Next

\* The two invariants hold together in every reachable state.
LEMMA HostInductive == Spec => [](HInv /\ IInv)
BY HostInit, InitInv, HostNext, NextInv, PTL DEF Spec

\* Half installed files or a stopped node are always accounted for by a journal from
\* which recoverJobs continues, or by an outcome that asks for help (TornAccounted):
\* saveSwitching makes the journal durable before switchVersion touches the host.
THEOREM TornTheorem == Spec => []TornAccounted
<1>1. HInv => TornAccounted
  BY DEF HInv, Machine, TornAccounted, NeedsHelp, Asked
<1> QED
  BY <1>1, HostInductive, PTL

\* A journal gets an outcome by a write of the job's own only.
LEMMA Wrote ==
  ASSUME World, NEW c \in TaskID, NEW j, journal' \in {journal, [journal EXCEPT ![c] = j]},
         NEW t \in TaskID, journal[t].phase # "done", journal'[t].phase = "done"
  PROVE  t = c /\ j.phase = "done" /\ journal'[t] = j
BY DEF World

\* Only saveDone gives a journal its outcome.
LEMMA OutcomeSaved ==
  ASSUME IInv, Next, NEW t \in TaskID, journal[t].phase # "done", journal'[t].phase = "done"
  PROVE  saveDone /\ t = cur /\ journal'[t] = mem
<1>1. journal' # journal
  OBVIOUS
<1>2. ASSUME NEW u \in TaskID, NEW v \in Version, reserve(u, v) PROVE FALSE
  <2> DEFINE j == [NoJournal EXCEPT !.phase = "reserving", !.from = status.version, !.target = v]
  <2>1. journal' \in {journal, [journal EXCEPT ![u] = j]} /\ World
    BY <1>2 DEF reserve, IInv
  <2>2. j.phase = "reserving"
    BY DEF NoJournal
  <2> HIDE DEF j
  <2> QED
    BY <2>1, <2>2, Wrote
<1>3. ASSUME saveDownloading \/ prepare \/ savePrepared \/ saveSwitching PROVE FALSE
  <2>1. /\ pc \in {"download", "prepare", "prepared", "switching"} /\ pc \in Acting
        /\ journal' \in {journal, [journal EXCEPT ![cur] = mem]}
    BY <1>3 DEF saveDownloading, prepare, savePrepared, saveSwitching, saved, saveFailed, Acting
  <2>2. mem.phase \in {"downloading", "prepared", "switching"} /\ World /\ cur \in TaskID
    BY <2>1, InJob DEF IInv, Place
  <2> QED
    BY <2>1, <2>2, Wrote
<1>4. ASSUME saveVerifying \/ saveRollingBack PROVE FALSE
  <2>1. PICK p \in {"verifying", "rolling_back"} : journal' \in {journal, [journal EXCEPT ![cur] = inPhase(p)]}
    BY <1>4 DEF saveVerifying, saveRollingBack, saved, saveFailed
  <2>2. pc \in Acting
    BY <1>4 DEF saveVerifying, saveRollingBack, Acting
  <2>3. inPhase(p).phase = p /\ World /\ cur \in TaskID
    BY <2>2, InJob, PhaseOf
  <2> QED
    BY <2>1, <2>3, Wrote
<1>5. ASSUME reportTerminal PROVE FALSE
  <2>1. /\ cur \in TaskID /\ World /\ journal[cur].phase = "done"
        /\ journal' \in {journal, [journal EXCEPT ![cur] = [mem EXCEPT !.reported = TRUE]]}
    BY <1>5 DEF reportTerminal, saved, saveFailed, IInv, Place
  <2> QED
    BY <2>1, Wrote
<1>6. CASE saveDone
  <2>1. cur \in TaskID /\ World /\ journal' \in {journal, [journal EXCEPT ![cur] = mem]}
    BY <1>6 DEF saveDone, saved, saveFailed, IInv, Place, Undecided
  <2> QED
    BY <1>6, <2>1, Wrote
<1>7. CASE Environment \/ start("daemon")
  <2>1. UNCHANGED journal
    BY <1>7, ZenonT(30)
    DEF Environment, start, crash, deliver, nodeReports, lateReport, nodeRestarts, withdraw, announce, dvars
  <2> QED
    BY <1>1, <2>1
<1>8. CASE Process
  <2>1. CASE \/ (\E u \in TaskID : recoverJob(u) \/ poll(u)) \/ jobsDone \/ retryManual \/ giveUp \/ startManual
             \/ execute \/ switchVersion \/ verify \/ finishDocker \/ restore \/ verifyRollback
    BY <1>1, <2>1 DEF recoverJob, poll, jobsDone, retryManual, giveUp, startManual, execute, switchVersion,
       verify, finishDocker, restore, verifyRollback, dvars
  <2> QED
    BY <1>2, <1>3, <1>4, <1>5, <1>6, <1>8, <2>1 DEF Process
<1> QED
  BY <1>7, <1>8 DEF Next

\* Only the switch, the end of a Docker switch and the rollback change files, and
\* the journal says so before they do.
LEMMA FilesChanged ==
  ASSUME HInv, IInv, Next, files' # files
  PROVE  cur \in TaskID /\ journal[cur].phase \in Unsettled
<1>1. CASE Environment \/ start("daemon")
  BY <1>1, ZenonT(30)
  DEF Environment, start, crash, deliver, nodeReports, lateReport, nodeRestarts, withdraw, announce, dvars
<1>2. CASE switchVersion \/ finishDocker \/ restore
  <2>1. pc \in {"switch", "finish", "restore"} /\ pc \in Acting
    BY <1>2 DEF switchVersion, finishDocker, restore, Acting
  <2> QED
    BY <2>1, InJob DEF HInv, Spot, Unsettled
<1>3. CASE Process /\ ~(switchVersion \/ finishDocker \/ restore)
  BY <1>3, ZenonT(60)
  DEF Process, reserve, recoverJob, poll, jobsDone, retryManual, giveUp, startManual, execute, saveDownloading,
      prepare, savePrepared, saveSwitching, saveVerifying, verify, saveRollingBack, verifyRollback, saveDone,
      reportTerminal, dvars, nvars
<1> QED
  BY <1>1, <1>2, <1>3 DEF Next

\* The outcome a journal gets is true of the host (OutcomeTrue): after a success the
\* target is installed everywhere and runs; after a rollback the saved files are back
\* and the node runs, under Docker from the old image; a job that failed had not begun
\* to switch and left what it saved as it was.  No file changes outside the phases in
\* which a restarted helper rolls back.
THEOREM OutcomeTheorem == Spec => OutcomeTrue
<1> DEFINE Told(t) ==
             CASE journal'[t].result = "succeeded" ->
                    up /\ unit = journal[t].target /\ \A c \in Comp : files[c] = journal[t].target
               [] journal'[t].result = "rolled_back" ->
                    /\ up /\ Restored(t)
                    /\ IF Mode = "docker" THEN unit = backup[t]["image"]
                                          ELSE unit \in {files["xmesh"], backup[t]["image"], journal[t].target}
               [] journal'[t].result = "failed" ->
                    journal[t].phase \notin Unsettled /\ (backup[t] # None => Restored(t))
               [] OTHER -> TRUE
           A == /\ files' # files => cur \in TaskID /\ journal[cur].phase \in Unsettled
                /\ \A t \in TaskID : journal[t].phase # "done" /\ journal'[t].phase = "done" => Told(t)
<1>1. HInv /\ IInv /\ [Next]_vars => [A]_vars
  <2> SUFFICES ASSUME HInv, IInv, Next PROVE A
    OBVIOUS
  <2> SUFFICES ASSUME NEW t \in TaskID, journal[t].phase # "done", journal'[t].phase = "done"
               PROVE  Told(t)
    BY FilesChanged
  <2>1. pc = "save" /\ t = cur /\ journal'[t].result = mem.result
    BY OutcomeSaved, ZenonT(30) DEF saveDone
  <2>2. Justified(mem.result) /\ Machine
    BY <2>1 DEF HInv, Spot
  <2>3. CASE mem.result = "succeeded"
    <3>1. /\ journal[t].phase = "verifying" /\ journal[t].target = mem.target
          /\ \A c \in Comp : files[c] = journal[t].target
      BY <2>1, <2>2, <2>3 DEF Justified
    <3>2. up /\ unit = journal[t].target
      BY <2>2, <3>1 DEF Machine, installed
    <3> QED
      BY <2>1, <2>3, <3>1, <3>2
  <2>4. CASE mem.result = "rolled_back"
    <3>1. /\ journal[t].phase = "rolling_back" /\ up /\ Restored(t)
          /\ Mode = "docker" => unit = backup[t]["image"]
      BY <2>1, <2>2, <2>4 DEF Justified
    <3>2. Mode # "docker" => unit \in {files["xmesh"], backup[t]["image"], journal[t].target}
      <4>1. Mode \in {"systemd", "docker"} /\ "xmesh" \in Comp
        BY <2>2, Kinds DEF Machine
      <4>2. Ran(t)
        BY <2>2, <3>1 DEF Machine, Unsettled
      <4>3. files["xmesh"] = backup[t]["xmesh"]
        BY <3>1, <4>1 DEF Restored
      <4> QED
        BY <4>1, <4>2, <4>3 DEF Ran
    <3> QED
      BY <2>1, <2>4, <3>1, <3>2
  <2>5. CASE mem.result = "failed"
    <3>1. journal[t].phase \notin Unsettled /\ (backup[t] # None => Restored(t))
      BY <2>1, <2>2, <2>5 DEF Justified
    <3> QED
      BY <2>1, <2>5, <3>1
  <2>6. CASE mem.result \notin {"succeeded", "rolled_back", "failed"}
    BY <2>1, <2>6
  <2> QED
    BY <2>3, <2>4, <2>5, <2>6
<1> QED
  BY <1>1, HostInductive, PTL DEF Spec, OutcomeTrue

=============================================================================
