---- MODULE GatewayXray ----
(***************************************************************************)
(* How a Gateway process applies its configuration: the control loop that  *)
(* fetches and accepts configurations and reports status, the loop that    *)
(* runs Xray, the watch over the authorization lease, and the Xray child   *)
(* process itself.                                                         *)
(*                                                                         *)
(* The Controller serves one configuration per revision (module            *)
(* DesiredState, RevisionIdentifiesConfig); here a configuration is        *)
(* switched on or off and has a set of users, and the users are what the   *)
(* Xray payload is rendered from.  Payloads are compared, a payload that   *)
(* extends the running one is added through Xray's API, any other change   *)
(* needs a restart.                                                        *)
(*                                                                         *)
(* authorizationEpoch and configGeneration are only compared with a copy   *)
(* taken earlier.  The model keeps the outcome of the comparison:          *)
(* sameEpoch says that no invalidation and sameGen that no accepted        *)
(* configuration came after the copy was taken.                            *)
(***************************************************************************)
EXTENDS Naturals

CONSTANTS
  User, None,
  MaxRev,    \* bound: revisions of the desired configuration
  MaxFaults, \* bound: failing commands, calls, requests and crashes of Xray
  MaxLapses  \* bound: expiries of the authorization lease

VARIABLES
  desired, authorized,         \* the Controller: configuration, node known
  config, leased, lastError,   \* Runtime.config, authorizationUntil, lastError
  ready, applied, running,     \* xrayReady, xrayAppliedRevision, xrayRunningPayload
  handle, cancelled,           \* xrayCancel # nil; the child's context is cancelled
  apply,                       \* a signal is waiting in the channel xrayApply
  child, childUsers,           \* the Xray process and the users it knows
  pc,                          \* of the control loop and the Xray loop
  c, x,                        \* their locals
  msg,                         \* the report each of them is composing
  acked,                       \* history: the users Xray had when the desired revision was acknowledged
  told,                        \* history: the Gateway learned that it was removed
  faults, lapses

vars == <<desired, authorized, config, leased, lastError, ready, applied, running, handle, cancelled, apply,
          child, childUsers, pc, c, x, msg, acked, told, faults, lapses>>
controller == <<desired, authorized>>
history == <<acked, told>>
process == <<handle, cancelled, child, childUsers>>
bounds == <<faults, lapses>>

Thread == {"control", "xray"}
Config == [rev : 0..MaxRev, on : BOOLEAN, users : SUBSET User]

ASSUME ConstantsAssumption == MaxRev \in Nat /\ None \notin Config /\ \A s \in SUBSET User : s # None

noConfig == [rev |-> 0, on |-> FALSE, users |-> {}]
\* The locals outside a refresh, a report and a round of the Xray loop.
noRefresh == [resp |-> None, reload |-> FALSE, sameEpoch |-> FALSE]
noMsg == [ok |-> FALSE, rev |-> 0]
noRound == [config |-> noConfig, snap |-> noConfig, users |-> {}, sameEpoch |-> FALSE, sameGen |-> FALSE]

goto(t, l) == pc' = [pc EXCEPT ![t] = l]
fault == faults < MaxFaults /\ faults' = faults + 1

\* The lock is held between setting ready and storing the revision (settle).
unlocked == pc["xray"] # "settled"

-----------------------------------------------------------------------------
(* Environment.                                                            *)

\* The Controller makes a new revision.
newRevision(on, users) ==
  /\ authorized /\ desired.rev < MaxRev
  /\ desired' = [rev |-> desired.rev + 1, on |-> on, users |-> IF on THEN users ELSE {}]
  /\ acked' = None
  /\ UNCHANGED <<authorized, config, leased, lastError, ready, applied, running, process, apply, pc, c, x, msg, told, bounds>>

\* The Gateway is deleted or its credential withdrawn.
revoke ==
  /\ authorized /\ authorized' = FALSE
  /\ UNCHANGED <<desired, config, leased, lastError, ready, applied, running, process, apply, pc, c, x, msg, history, bounds>>

\* ConfigLease has passed since the last accepted configuration.
leaseLapses ==
  /\ config.on /\ leased /\ lapses < MaxLapses /\ lapses' = lapses + 1 /\ leased' = FALSE
  /\ UNCHANGED <<controller, config, lastError, ready, applied, running, process, apply, pc, c, x, msg, history, faults>>

\* A cancelled context kills the child; it may also end by itself.
childExits ==
  /\ child = "up" /\ child' = "exited"
  /\ IF cancelled THEN UNCHANGED faults ELSE fault
  /\ UNCHANGED <<controller, config, leased, lastError, ready, applied, running, handle, cancelled, apply, childUsers,
                 pc, c, x, msg, history, lapses>>

-----------------------------------------------------------------------------
(* Invalidation.                                                           *)

\* The effect on everything but the program counters and the history; locals
\* is what the control loop keeps of its own.
invalidateAuthorizationLocked(locals) ==
  /\ config' = [config EXCEPT !.on = FALSE, !.users = {}]
  /\ cancelled' = (cancelled \/ handle)
  /\ ready' = FALSE /\ apply' = TRUE
  /\ c' = [locals EXCEPT !.sameEpoch = FALSE] /\ x' = [x EXCEPT !.sameEpoch = FALSE]

watchAuthorization ==
  /\ unlocked /\ config.on /\ ~leased
  /\ invalidateAuthorizationLocked(c)
  /\ UNCHANGED <<controller, leased, lastError, applied, running, handle, child, childUsers, pc, msg, history, bounds>>

-----------------------------------------------------------------------------
(* Reports.  The flags are read one after the other, without the lock.     *)

reportReady(t) ==
  /\ pc[t] = "report" /\ goto(t, "reportRevision")
  /\ msg' = [msg EXCEPT ![t].ok = ~lastError /\ ready]
  /\ UNCHANGED <<controller, config, leased, lastError, ready, applied, running, process, apply, c, x, history, bounds>>

reportRevision(t) ==
  /\ pc[t] = "reportRevision" /\ goto(t, "send")
  /\ msg' = [msg EXCEPT ![t].rev = applied]
  /\ UNCHANGED <<controller, config, leased, lastError, ready, applied, running, process, apply, c, x, history, bounds>>

\* Where a thread goes on after its report: the control loop to the
\* configuration it is about to apply, the Xray loop to the restart.
afterReport(t) == IF t = "xray" THEN "cancel" ELSE IF c.resp # None THEN "apply" ELSE "idle"

\* A status tick without a configuration to apply remembers the failure.
reportFails(t) ==
  /\ pc[t] = "send" /\ fault /\ goto(t, afterReport(t))
  /\ lastError' = (lastError \/ (t = "control" /\ c.resp = None))
  /\ msg' = [msg EXCEPT ![t] = noMsg]
  /\ UNCHANGED <<controller, config, leased, ready, applied, running, process, apply, c, x, history, lapses>>

\* nodeStatus publishes on a report that acknowledges the desired revision.
send(t) ==
  /\ pc[t] = "send" /\ authorized /\ desired.on /\ goto(t, afterReport(t))
  /\ acked' = IF msg[t].ok /\ ready /\ msg[t].rev >= desired.rev
              THEN childUsers ELSE acked
  /\ msg' = [msg EXCEPT ![t] = noMsg]
  /\ UNCHANGED <<controller, config, leased, lastError, ready, applied, running, process, apply, c, x, told, bounds>>

\* A disabled or removed node is answered 401.
sendRejected(t) ==
  /\ pc[t] = "send" /\ ~(authorized /\ desired.on) /\ unlocked
  /\ goto(t, IF t = "xray" THEN "cancel" ELSE "idle")
  /\ invalidateAuthorizationLocked(IF t = "control" THEN noRefresh ELSE c)
  /\ lastError' = (lastError \/ t = "control")
  /\ told' = (told \/ ~authorized)
  /\ msg' = [msg EXCEPT ![t] = noMsg]
  /\ UNCHANGED <<controller, leased, applied, running, handle, child, childUsers, acked, bounds>>


-----------------------------------------------------------------------------
(* The control loop: refresh and the status tick.                          *)

payload(conf) == conf.users

refreshEnds(failed) ==
  /\ goto("control", "idle") /\ lastError' = failed
  /\ c' = noRefresh

statusTick ==
  /\ pc["control"] = "idle" /\ config.rev # 0 /\ goto("control", "report")
  /\ UNCHANGED <<controller, config, leased, lastError, ready, applied, running, process, apply, c, x, msg, history, bounds>>

refresh ==
  /\ pc["control"] = "idle" /\ unlocked /\ goto("control", "fetch")
  /\ c' = [c EXCEPT !.sameEpoch = TRUE]
  /\ UNCHANGED <<controller, config, leased, lastError, ready, applied, running, process, apply, x, msg, history, bounds>>

fetch ==
  /\ pc["control"] = "fetch" /\ authorized /\ goto("control", "fetched")
  /\ c' = [c EXCEPT !.resp = desired]
  /\ UNCHANGED <<controller, config, leased, lastError, ready, applied, running, process, apply, x, msg, history, bounds>>

fetchFails ==
  /\ pc["control"] = "fetch" /\ fault /\ refreshEnds(TRUE)
  /\ UNCHANGED <<controller, config, leased, ready, applied, running, process, apply, x, msg, history, lapses>>

fetchRejected ==
  /\ pc["control"] = "fetch" /\ ~authorized /\ goto("control", "rejected")
  /\ UNCHANGED <<controller, config, leased, lastError, ready, applied, running, process, apply, c, x, msg, history, bounds>>

invalidateAuthorization ==
  /\ pc["control"] = "rejected" /\ unlocked /\ goto("control", "idle")
  /\ invalidateAuthorizationLocked(noRefresh) /\ lastError' = TRUE /\ told' = TRUE
  /\ UNCHANGED <<controller, leased, applied, running, handle, child, childUsers, msg, acked, bounds>>

\* The first lock: compare the fetched configuration with the accepted one.
compareConfig ==
  /\ pc["control"] = "fetched" /\ unlocked
  /\ IF c.sameEpoch
     THEN LET next == c.resp
              changed == config.rev # next.rev \/ config.rev = 0 \/ config.on # next.on
              reload == IF next.on /\ config.rev # 0 /\ config.on THEN payload(config) # payload(next) ELSE changed
          IN /\ c' = [c EXCEPT !.reload = reload]
             /\ goto("control", IF reload /\ next.on THEN "validate" ELSE "apply")
             /\ UNCHANGED lastError
     ELSE refreshEnds(TRUE)
  /\ UNCHANGED <<controller, config, leased, ready, applied, running, process, apply, x, msg, history, bounds>>

validateXrayCandidate ==
  /\ pc["control"] = "validate"
  /\ \/ /\ fault /\ refreshEnds(TRUE)
     \/ /\ goto("control", IF ready THEN "report" ELSE "apply") /\ UNCHANGED <<c, lastError, faults>>
  /\ UNCHANGED <<controller, config, leased, ready, applied, running, process, apply, x, msg, history, lapses>>

\* Mutant: a configuration fetched before an invalidation is accepted.
applyConfig_anyEpoch ==
  /\ pc["control"] = "apply" /\ unlocked
  /\ IF TRUE
     THEN LET disable == ~c.resp.on /\ handle
          IN /\ config' = c.resp /\ leased' = TRUE
             /\ x' = [x EXCEPT !.sameGen = FALSE]
             /\ cancelled' = (cancelled \/ disable)
             /\ ready' = (ready /\ ~disable)
             /\ applied' = IF /\ ~c.reload /\ ready'
                              /\ running = IF c.resp.on THEN payload(c.resp) ELSE None
                           THEN c.resp.rev ELSE applied
             /\ goto("control", "signal") /\ UNCHANGED <<c, lastError>>
     ELSE refreshEnds(TRUE) /\ UNCHANGED <<config, leased, x, cancelled, ready, applied>>
  /\ UNCHANGED <<controller, running, handle, child, childUsers, apply, msg, history, bounds>>

\* Mutant: an unchanged payload counts as applied, whatever Xray runs.
applyConfig_anyPayload ==
  /\ pc["control"] = "apply" /\ unlocked
  /\ IF c.sameEpoch
     THEN LET disable == ~c.resp.on /\ handle
          IN /\ config' = c.resp /\ leased' = TRUE
             /\ x' = [x EXCEPT !.sameGen = FALSE]
             /\ cancelled' = (cancelled \/ disable)
             /\ ready' = (ready /\ ~disable)
             /\ applied' = IF ~c.reload /\ ready' THEN c.resp.rev ELSE applied
             /\ goto("control", "signal") /\ UNCHANGED <<c, lastError>>
     ELSE refreshEnds(TRUE) /\ UNCHANGED <<config, leased, x, cancelled, ready, applied>>
  /\ UNCHANGED <<controller, running, handle, child, childUsers, apply, msg, history, bounds>>

\* The second lock: accept it.
applyConfig ==
  /\ pc["control"] = "apply" /\ unlocked
  /\ IF c.sameEpoch
     THEN LET disable == ~c.resp.on /\ handle
          IN /\ config' = c.resp /\ leased' = TRUE
             /\ x' = [x EXCEPT !.sameGen = FALSE]
             /\ cancelled' = (cancelled \/ disable)
             /\ ready' = (ready /\ ~disable)
             /\ applied' = IF /\ ~c.reload /\ ready'
                              /\ running = IF c.resp.on THEN payload(c.resp) ELSE None
                           THEN c.resp.rev ELSE applied
             /\ goto("control", "signal") /\ UNCHANGED <<c, lastError>>
     ELSE refreshEnds(TRUE) /\ UNCHANGED <<config, leased, x, cancelled, ready, applied>>
  /\ UNCHANGED <<controller, running, handle, child, childUsers, apply, msg, history, bounds>>

\* Mutant: the signal is lost unless the Xray loop is waiting for one.
signal_unbuffered ==
  /\ pc["control"] = "signal" /\ refreshEnds(FALSE)
  /\ apply' = (apply \/ (c.reload /\ pc["xray"] \in {"wait", "backoff", "run"}))
  /\ UNCHANGED <<controller, config, leased, ready, applied, running, process, x, msg, history, bounds>>

signal ==
  /\ pc["control"] = "signal" /\ refreshEnds(FALSE)
  /\ apply' = (apply \/ c.reload)
  /\ UNCHANGED <<controller, config, leased, ready, applied, running, process, x, msg, history, bounds>>

-----------------------------------------------------------------------------
(* The Xray loop up to the started child.                                  *)

\* Waiting for the first signal, for a signal while disabled, or, after a
\* failure, for a signal or the retry timer.
wait ==
  /\ \/ pc["xray"] = "wait" /\ apply /\ apply' = FALSE
     \/ pc["xray"] = "backoff" /\ apply' \in {FALSE, apply}
  /\ goto("xray", "top")
  /\ UNCHANGED <<controller, config, leased, lastError, ready, applied, running, process, c, x, msg, history, bounds>>

xrayLoop ==
  /\ pc["xray"] = "top"
  /\ IF config.on /\ ~leased
     THEN invalidateAuthorizationLocked(c) /\ goto("xray", "wait")
     ELSE /\ x' = IF config.on THEN [noRound EXCEPT !.config = config, !.users = payload(config), !.sameEpoch = TRUE] ELSE noRound
          /\ ready' = (ready /\ config.on)
          /\ goto("xray", IF config.on THEN "prepare" ELSE "wait")
          /\ UNCHANGED <<config, cancelled, apply, c>>
  /\ UNCHANGED <<controller, leased, lastError, applied, running, handle, child, childUsers, msg, history, bounds>>

writeXrayConfig ==
  /\ pc["xray"] = "prepare"
  /\ \/ fault /\ ready' = FALSE /\ x' = noRound /\ goto("xray", "backoff")
     \/ goto("xray", "snapshot") /\ UNCHANGED <<ready, x, faults>>
  /\ UNCHANGED <<controller, config, leased, lastError, applied, running, process, apply, c, msg, history, lapses>>

\* xrayConfigSnapshot and what is done with the snapshot under the lock.
snapshot(at, next) ==
  /\ pc["xray"] = at /\ goto("xray", next)
  /\ x' = [x EXCEPT !.snap = config, !.sameGen = TRUE]

beforeStart ==
  /\ snapshot("snapshot", "publish")
  /\ UNCHANGED <<controller, config, leased, lastError, ready, applied, running, process, apply, c, msg, history, bounds>>

publish ==
  /\ pc["xray"] = "publish"
  /\ IF x.sameGen /\ config.on /\ leased /\ x.sameEpoch /\ x.users = payload(x.snap)
     THEN handle' = TRUE /\ cancelled' = FALSE /\ running' = x.users /\ goto("xray", "start")
     ELSE goto("xray", "top") /\ UNCHANGED <<handle, cancelled, running>>
  /\ x' = IF handle' THEN [x EXCEPT !.snap = noConfig, !.sameGen = FALSE] ELSE noRound
  /\ UNCHANGED <<controller, config, leased, lastError, ready, applied, child, childUsers, apply, c, msg, history, bounds>>

\* Start fails at once on a context that is already cancelled.
start ==
  /\ pc["xray"] = "start"
  /\ \/ /\ ~cancelled /\ child' = "up" /\ childUsers' = x.users
        /\ goto("xray", "startup") /\ UNCHANGED faults
     \/ /\ IF cancelled THEN UNCHANGED faults ELSE fault
        /\ goto("xray", "failed") /\ UNCHANGED <<child, childUsers>>
  /\ UNCHANGED <<controller, config, leased, lastError, ready, applied, running, handle, cancelled, apply, c, x, msg, history, lapses>>

-----------------------------------------------------------------------------
(* The Xray loop with a child.                                             *)

\* childCtx.Done or the exit of the child, whichever the select takes.
childEnds ==
  /\ pc["xray"] \in {"startup", "run"}
  /\ \/ cancelled /\ goto("xray", "stop")
     \/ child = "exited" /\ goto("xray", "failed")
  /\ x' = noRound
  /\ UNCHANGED <<controller, config, leased, lastError, ready, applied, running, process, apply, c, msg, history, bounds>>

\* The startup timer fired.
started ==
  /\ snapshot("startup", "settle")
  /\ UNCHANGED <<controller, config, leased, lastError, ready, applied, running, process, apply, c, msg, history, bounds>>

settle ==
  /\ pc["xray"] = "settle"
  /\ IF x.sameGen /\ ~cancelled /\ config.on /\ x.sameEpoch /\ leased
     THEN ready' = TRUE /\ goto("xray", "settled")
     ELSE goto("xray", "cancel") /\ UNCHANGED ready
  /\ UNCHANGED <<controller, config, leased, lastError, applied, running, process, apply, c, x, msg, history, bounds>>

settled ==
  /\ pc["xray"] = "settled" /\ goto("xray", "run")
  /\ applied' = IF payload(x.snap) = x.users THEN config.rev ELSE x.config.rev
  /\ x' = [noRound EXCEPT !.users = x.users, !.sameEpoch = x.sameEpoch]
  /\ UNCHANGED <<controller, config, leased, lastError, ready, running, process, apply, c, msg, history, bounds>>

changed ==
  /\ apply /\ apply' = FALSE
  /\ snapshot("run", "reconcile")
  /\ UNCHANGED <<controller, config, leased, lastError, ready, applied, running, process, c, msg, history, bounds>>

reconcile ==
  /\ pc["xray"] = "reconcile"
  /\ LET unchanged == x.sameGen /\ config.on /\ ~cancelled /\ x.sameEpoch /\ leased /\ payload(x.snap) = x.users
     IN /\ applied' = IF unchanged THEN config.rev ELSE applied
        /\ goto("xray", IF unchanged THEN "run" ELSE IF config.on THEN "hotAdd" ELSE "cancel")
        /\ x' = [x EXCEPT !.sameGen = FALSE, !.snap = IF unchanged THEN noConfig ELSE @]
  /\ UNCHANGED <<controller, config, leased, lastError, ready, running, process, apply, c, msg, history, bounds>>

\* planXrayAddition finds no plan when the running payload is not extended.
\* The additions are separate calls: a failure leaves some of them behind.
hotAddXrayConfig ==
  /\ pc["xray"] = "hotAdd"
  /\ \/ /\ ~(x.users \subseteq payload(x.snap))
        /\ goto("xray", "report") /\ x' = noRound /\ UNCHANGED <<childUsers, faults>>
     \/ /\ x.users \subseteq payload(x.snap) /\ child = "up"
        /\ childUsers' = payload(x.snap) /\ x' = [x EXCEPT !.users = payload(x.snap)]
        /\ goto("xray", "commit") /\ UNCHANGED faults
     \/ /\ x.users \subseteq payload(x.snap)
        /\ IF cancelled \/ child = "exited" THEN UNCHANGED faults ELSE fault
        /\ \E added \in SUBSET (IF child = "up" THEN payload(x.snap) ELSE {}) : childUsers' = childUsers \cup added
        /\ goto("xray", "report") /\ x' = noRound
  /\ UNCHANGED <<controller, config, leased, lastError, ready, applied, running, handle, cancelled, apply, child, c, msg, history, lapses>>

commit ==
  /\ pc["xray"] = "commit" /\ goto("xray", "run")
  /\ IF ~cancelled /\ x.sameEpoch /\ config.on /\ leased
     THEN running' = x.users /\ applied' = x.snap.rev
     ELSE UNCHANGED <<running, applied>>
  /\ x' = [x EXCEPT !.snap = noConfig]
  /\ UNCHANGED <<controller, config, leased, lastError, ready, process, apply, c, msg, history, bounds>>

cancel ==
  /\ pc["xray"] = "cancel" /\ cancelled' = TRUE /\ x' = noRound /\ goto("xray", "stop")
  /\ UNCHANGED <<controller, config, leased, lastError, ready, applied, running, handle, child, childUsers, apply, c, msg, history, bounds>>

\* The child is gone: the deferred function, first under the lock.
retire ==
  /\ \/ pc["xray"] = "stop" /\ child = "exited" /\ goto("xray", "retired")
     \/ pc["xray"] = "failed" /\ goto("xray", "retiredFailed")
  /\ handle' = FALSE /\ running' = None /\ child' = "none" /\ cancelled' = FALSE
  /\ UNCHANGED <<controller, config, leased, lastError, ready, applied, childUsers, apply, c, x, msg, history, bounds>>

retired ==
  /\ \/ pc["xray"] = "retired" /\ goto("xray", "top")
     \/ pc["xray"] = "retiredFailed" /\ goto("xray", "backoff")
  /\ ready' = FALSE /\ childUsers' = {} /\ x' = noRound
  /\ UNCHANGED <<controller, config, leased, lastError, applied, running, handle, cancelled, child, apply, c, msg, history, bounds>>

-----------------------------------------------------------------------------

Init ==
  /\ desired \in {d \in Config : d.rev = 1 /\ (d.on \/ d.users = {})}
  /\ authorized = TRUE
  /\ config = noConfig /\ leased = FALSE /\ lastError = FALSE
  /\ ready = FALSE /\ applied = 0 /\ running = None
  /\ handle = FALSE /\ cancelled = FALSE /\ apply = FALSE
  /\ child = "none" /\ childUsers = {}
  /\ pc = [t \in Thread |-> IF t = "control" THEN "idle" ELSE "wait"]
  /\ c = noRefresh /\ x = noRound /\ msg = [t \in Thread |-> noMsg]
  /\ acked = None /\ told = FALSE /\ faults = 0 /\ lapses = 0

environment ==
  \/ \E on \in BOOLEAN, users \in SUBSET User : newRevision(on, users)
  \/ revoke \/ leaseLapses

controlLoop ==
  \/ refresh \/ fetch \/ fetchFails \/ fetchRejected \/ invalidateAuthorization
  \/ compareConfig \/ validateXrayCandidate \/ applyConfig \/ signal

runXray ==
  \/ wait \/ xrayLoop \/ writeXrayConfig \/ beforeStart \/ publish \/ start
  \/ childEnds \/ started \/ settle \/ settled \/ changed \/ reconcile
  \/ hotAddXrayConfig \/ commit \/ cancel \/ retire \/ retired

report(t) == reportReady(t) \/ reportRevision(t) \/ reportFails(t) \/ send(t) \/ sendRejected(t)

Next ==
  \/ environment \/ childExits \/ watchAuthorization
  \/ controlLoop \/ statusTick \/ runXray
  \/ \E t \in Thread : report(t)

Spec == Init /\ [][Next]_vars

\* Every goroutine goes on, both tickers of controlLoop are served, every
\* call ends (each has a timeout) and a killed child exits.  A refresh, once in
\* PollInterval, does not fall every time between a snapshot of the Xray loop
\* and its lock, a rendering of the payload later.
Fairness ==
  /\ WF_vars(runXray) /\ WF_vars(report("xray"))
  /\ WF_vars(controlLoop) /\ WF_vars(report("control"))
  /\ SF_vars(refresh) /\ SF_vars(statusTick)
  /\ SF_vars(x.sameGen /\ publish) /\ SF_vars(x.sameGen /\ settle)
  /\ WF_vars(watchAuthorization) /\ WF_vars(cancelled /\ childExits)

FairSpec == Spec /\ Fairness

-----------------------------------------------------------------------------
(* Properties.                                                             *)

\* When the Controller takes a report as the acknowledgement of the revision it
\* wants, Xray had been given every user of that revision, although the report
\* reads ready and the revision without the lock while a restart, a failing
\* hot addition or another accepted configuration is under way (refresh,
\* runXrayUntilChange, report).
AcknowledgedServed ==
  acked # None => desired.users \subseteq acked

\* Once a request of a removed Gateway was answered 401, no configuration that
\* was fetched before can switch it on again, and Xray is not ready again; a child
\* that runs while the Gateway is off is one whose context has been cancelled, also
\* when it was being started as that happened (authorizationEpoch in refresh and
\* runXrayUntilChange, xrayCancel published before cmd.Start).
RevokedStaysOff ==
  /\ told => ~config.on /\ ~ready
  /\ child = "up" /\ ~config.on => cancelled

\* A user that the accepted configuration no longer has does not stay in the
\* running Xray: signals may be coalesced in xrayApply but not lost.
RemovedUserDropped ==
  \A u \in User : []<>(child = "up" /\ u \in childUsers => u \in config.users)

\* An enabled revision that stays desired is acknowledged in the end, whatever
\* failed on the way, if no lease has lapsed: after a lapse between a hot addition
\* and its commit, a child may be left with a payload no report acknowledges.
DesiredAcknowledged ==
  \A r \in 1..MaxRev :
    []<>(desired.rev = r /\ desired.on /\ authorized /\ lapses = 0 => acked # None)
=============================================================================
