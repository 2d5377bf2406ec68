--------------------------- MODULE UsageReports ---------------------------
(* Accounting of traffic: a Gateway process counts bytes per Grant and Link *)
(* and reports the counters of every configuration it may have served; the  *)
(* Controller turns them into usage, and keeps what it deleted until its    *)
(* last traffic has been reported.  A report that names something unknown   *)
(* is refused as a whole, the acknowledgement of the revision with it.      *)
(* (src/internal/controller/usage.go, retired_usage.go, api_handlers.go,    *)
(* node_management.go; src/internal/gateway/gateway.go, xray.go)            *)
EXTENDS Integers, FiniteSets, FiniteSetsExt

CONSTANTS
  Grant, Link,    \* of one route of one Gateway
  Reality,        \* the Links that use a REALITY tunnel
  MaxInstances,   \* bound: processes of the Gateway
  MaxBytes,       \* bound: units of traffic
  MaxDeletions,   \* bound: deleted Grants and Links
  MaxFaults,      \* bound: lost answers, delayed reports and crashes
  None

ASSUME KindAssumption == Grant \cap Link = {}
ASSUME BoundAssumption == MaxInstances \in Nat \ {0}

Pair == Grant \X Link
Instance == 1 .. MaxInstances
Reporter == {"control", "xray"}
NoConfig == [rev |-> 0, grants |-> {}, links |-> {}]

\* A configuration of the route, and a report of the Gateway: StatusReport
\* with the answer to it.
Config == [rev : Nat, grants : SUBSET Grant, links : SUBSET Link]
Report ==
  [instance : Instance, applied : Nat, ready : BOOLEAN, links : SUBSET Link, pending : SUBSET Config,
   grants : SUBSET Grant, bytes : UNION {[S -> Nat] : S \in SUBSET Pair}, answer : {None, "ok", "refused"}]

ASSUME NoneAssumption == None \notin Report \cup {"ok", "refused"}

\* What Xray's configuration is made from: users and REALITY tunnels.
xrayPayload(c) == <<c.grants, c.links \cap Reality>>

NoBytes == [p \in Pair |-> 0]

VARIABLES
  live,       \* the Controller's Grants and Links, with the Gateway's DesiredVersion
  retired,    \* RetiredGrants and RetiredLinks: what each entry waits for
  counters,   \* UsageCounters: the last value of a pair and the process it came from
  history,    \* UsageHistory, as one sum per pair
  status,     \* NodeStatus of the Gateway: AppliedVersion, XrayReady
  instance, counter,           \* the Gateway process and its counters
  config, stats, pending,      \* config, xrayStatsConfig, pendingStats
  fetched,    \* a configuration that refresh applies after its report
  ready, applied, xray,        \* xrayReady, xrayAppliedRevision, the Xray loop
  report,     \* the report each goroutine has under way
  late,       \* a report given up by its sender that may still arrive
  best, disordered,  \* history: highest value accepted per process; an older value came later
  unreported, \* history: Grants whose last traffic this process may have dropped
  count       \* uses of the bounds

vars == <<live, retired, counters, history, status, instance, counter, config, stats, pending,
          fetched, ready, applied, xray, report, late, best, disordered, unreported, count>>
controller == <<live, retired, counters, history, status, best, disordered>>
gateway == <<instance, counter, config, stats, pending, fetched, ready, applied, xray, unreported>>

spend(what, max) == count[what] < max /\ count' = [count EXCEPT ![what] = @ + 1]
trouble == spend("faults", MaxFaults)

-----------------------------------------------------------------------------
(* The Controller.                                                         *)

retiring(kind, x) == x \in DOMAIN retired /\ retired[x].kind = kind /\ ~retired[x].expired
retires(x, r) == retired' = [y \in DOMAIN retired \cup {x} |-> IF y = x THEN r ELSE retired[y]]

\* removeGrant: the Grant is kept with the Links it may still report.
removeGrant(g) ==
  /\ g \in live.grants /\ spend("deletions", MaxDeletions)
  /\ live' = [live EXCEPT !.grants = @ \ {g}, !.rev = @ + 1]
  /\ retires(g, [kind |-> "grant", rev |-> live.rev + 1, expired |-> FALSE, agent |-> TRUE,
                 links |-> live.links \cup {l \in Link : l \in DOMAIN retired}])
  /\ UNCHANGED <<counters, history, status, best, disordered, gateway, report, late>>

\* removeLink: the Link is kept until Gateway and Agent have left it.
removeLink(l) ==
  /\ l \in live.links /\ spend("deletions", MaxDeletions)
  /\ live' = [live EXCEPT !.links = @ \ {l}, !.rev = @ + 1]
  /\ retires(l, [kind |-> "link", rev |-> live.rev + 1, expired |-> FALSE, agent |-> FALSE, links |-> {}])
  /\ UNCHANGED <<counters, history, status, best, disordered, gateway, report, late>>

\* Whether status s (and the Agent's) leave nothing to wait for.
done(r, s) == s.ready /\ s.applied >= r.rev /\ r.agent

\* pruneRetiredUsage forgets which entries of rs are done or expired, counters included.
pruneRetiredUsage(rs, s, cs) ==
  LET gone == {x \in DOMAIN rs : rs[x].expired \/ done(rs[x], s)} IN
  /\ retired' = [x \in DOMAIN rs \ gone |-> rs[x]]
  /\ counters' = [p \in DOMAIN cs \ {q \in Pair : q[1] \in gone \/ q[2] \in gone} |-> cs[p]]

\* retiredUsageLifetime has passed since a deletion.
expires(x) ==
  /\ x \in DOMAIN retired /\ ~retired[x].expired /\ trouble
  /\ retired' = [retired EXCEPT ![x].expired = TRUE] /\ unreported' = unreported \cup ({x} \cap Grant)
  /\ UNCHANGED <<live, counters, history, status, best, disordered, instance, counter, config, stats, pending,
                 fetched, ready, applied, xray, report, late>>

\* The Agent reports that it has left the Link; nodeStatus prunes then too.
agentReports(l) ==
  /\ l \in DOMAIN retired /\ ~retired[l].agent
  /\ pruneRetiredUsage([retired EXCEPT ![l].agent = TRUE], status, counters)
  /\ UNCHANGED <<live, history, status, best, disordered, gateway, report, late, count>>

\* nodeStatus accepts a report if it knows every Link, Grant and pair in it.
accepts(m) ==
  /\ \A l \in m.links : l \in live.links \/ retiring("link", l)
  /\ \A g \in m.grants : g \in live.grants \/ retiring("grant", g)
  /\ \A p \in DOMAIN m.bytes : p[1] \notin live.grants => p[2] \in retired[p[1]].links

\* Mutant: the process a value comes from is not looked at.
delta_anyProcess(p, m) ==
  IF p \notin DOMAIN counters THEN m.bytes[p] ELSE Max({0, m.bytes[p] - counters[p].bytes})

\* sampleGrantUsageFor: what a reported value adds to the usage.
delta(p, m) ==
  IF p \notin DOMAIN counters \/ counters[p].instance # m.instance THEN m.bytes[p]
  ELSE IF m.bytes[p] < counters[p].bytes THEN 0
  ELSE m.bytes[p] - counters[p].bytes

\* nodeStatus: all of the report is applied, or none of it.
nodeStatus(m) ==
  IF accepts(m)
  THEN /\ status' = [applied |-> m.applied, ready |-> m.ready]
       /\ history' = [p \in Pair |-> history[p] + IF p \in DOMAIN m.bytes THEN delta(p, m) ELSE 0]
       /\ pruneRetiredUsage(retired, status', [p \in DOMAIN counters \cup DOMAIN m.bytes |->
            IF p \in DOMAIN m.bytes THEN [instance |-> m.instance, bytes |-> m.bytes[p]] ELSE counters[p]])
       /\ best' = [best EXCEPT ![m.instance] = [p \in Pair |-> IF p \in DOMAIN m.bytes THEN Max({@[p], m.bytes[p]}) ELSE @[p]]]
       /\ disordered' = (disordered \/ \E p \in DOMAIN m.bytes :
            m.bytes[p] < best[m.instance][p] \/ \E i \in Instance : i > m.instance /\ best[i][p] > 0)
       /\ UNCHANGED live
  ELSE UNCHANGED controller

-----------------------------------------------------------------------------
(* The Gateway.                                                            *)

\* Bytes of a Grant over a Link: Xray lets the user in, the Gateway relays and counts.
traffic(p) ==
  /\ p[1] \in stats.grants \cap config.grants /\ p[2] \in config.links /\ spend("bytes", MaxBytes)
  /\ counter' = [counter EXCEPT ![p] = @ + 1]
  /\ UNCHANGED <<controller, instance, config, stats, pending, fetched, ready, applied, xray, unreported, report, late>>

\* Mutant: every Grant and Link with counters is reported.
reportable_all == {config, stats, [rev |-> 0, grants |-> Grant, links |-> Link]} \cup pending

\* The configurations whose Grants and Links a report names.
reportable == {config, stats} \cup pending

\* report: a snapshot of the counters, limited to what may still be known.
snapshot ==
  LET grants == UNION {c.grants : c \in reportable}
      links  == UNION {c.links : c \in reportable}
  IN [instance |-> instance, applied |-> applied, ready |-> ready, links |-> links, pending |-> pending,
      grants |-> {g \in grants : \E l \in Link : counter[<<g, l>>] > 0},
      bytes |-> [p \in {q \in grants \X links : counter[q] > 0} |-> counter[p]], answer |-> None]

reportStarts ==
  /\ report["control"] = None /\ config # NoConfig
  /\ report' = [report EXCEPT !["control"] = snapshot]
  /\ UNCHANGED <<controller, gateway, late, count>>

\* refresh, its last part: the configuration is in force; if Xray's payload
\* stays the same, it is applied at once.
apply(c) ==
  /\ config' = c
  /\ IF ready /\ xrayPayload(stats) = xrayPayload(c) THEN stats' = c /\ applied' = c.rev ELSE UNCHANGED <<stats, applied>>
  /\ unreported' = IF xray = "running" THEN unreported ELSE unreported \cup (config.grants \ c.grants)

\* refresh: before a change of the payload the traffic is reported.
refresh ==
  /\ report["control"] = None /\ config # live
  /\ IF config # NoConfig /\ xrayPayload(config) # xrayPayload(live) /\ ready
     THEN fetched' = live /\ report' = [report EXCEPT !["control"] = snapshot] /\ UNCHANGED <<config, stats, applied, unreported>>
     ELSE apply(live) /\ UNCHANGED <<fetched, report>>
  /\ UNCHANGED <<controller, instance, counter, pending, ready, xray, late, count>>

handle(r) ==
  /\ report[r] # None /\ report[r].answer = None /\ nodeStatus(report[r])
  /\ report' = [report EXCEPT ![r].answer = IF accepts(report[r]) THEN "ok" ELSE "refused"]
  /\ UNCHANGED <<gateway, late, count>>

handleLate ==
  /\ late # None /\ late' = None /\ nodeStatus(late)
  /\ UNCHANGED <<gateway, report, count>>

\* After a success the configurations the report covered are no longer pending.
covered(m) == IF m.answer = "ok" THEN pending \ m.pending ELSE pending

\* The answer arrives, or the sender gives up; the request may be under way still.
answered(r) ==
  /\ report[r] # None /\ report[r].answer # None
  /\ UNCHANGED <<late, count>>

givesUp(r) ==
  /\ report[r] # None /\ trouble
  /\ late' \in {late} \cup (IF report[r].answer = None THEN {report[r]} ELSE {})

reportEnds ==
  /\ \/ answered("control") /\ pending' = covered(report["control"])
     \/ givesUp("control") /\ UNCHANGED pending
  /\ report' = [report EXCEPT !["control"] = None] /\ fetched' = NoConfig
  /\ IF fetched # NoConfig THEN apply(fetched) ELSE UNCHANGED <<config, stats, applied, unreported>>
  /\ UNCHANGED <<controller, instance, counter, ready, xray>>

\* The Xray loop starts Xray with the configuration in force.
xrayStarts ==
  /\ xray = "down" /\ config # NoConfig
  /\ xray' = "running" /\ stats' = config /\ applied' = config.rev /\ ready' = TRUE
  /\ UNCHANGED <<controller, instance, counter, config, pending, fetched, unreported, report, late, count>>

\* Xray is reloaded without a Grant or a tunnel: the traffic until now is reported first.
reloadStarts ==
  /\ xray = "running" /\ xrayPayload(stats) # xrayPayload(config) /\ xray' = "reloading"
  /\ report' = [report EXCEPT !["xray"] = snapshot]
  /\ UNCHANGED <<controller, instance, counter, config, stats, pending, fetched, ready, applied, unreported, late, count>>

\* Mutant: nothing is remembered when that report fails.
afterReload_forgets(ok) == covered(report["xray"])

\* If that report fails, the configuration stays reportable.
afterReload(ok) == IF ok THEN covered(report["xray"]) ELSE pending \cup {stats}

\* Then Xray is stopped.
reloadEnds ==
  /\ \/ answered("xray") /\ pending' = afterReload(report["xray"].answer = "ok")
     \/ givesUp("xray") /\ pending' = afterReload(FALSE)
  /\ report' = [report EXCEPT !["xray"] = None]
  /\ xray' = "down" /\ ready' = FALSE /\ stats' = NoConfig
  /\ UNCHANGED <<controller, instance, counter, config, fetched, applied, unreported>>

\* pendingStatsLifetime has passed.
pendingExpires ==
  /\ \E c \in pending : pending' = pending \ {c} /\ unreported' = unreported \cup c.grants
  /\ UNCHANGED <<controller, instance, counter, config, stats, fetched, ready, applied, xray, report, late, count>>

\* Xray exits by itself: the loop starts it again.
xrayExits ==
  /\ xray = "running" /\ trouble /\ xray' = "down" /\ ready' = FALSE /\ stats' = NoConfig
  /\ unreported' = unreported \cup (stats.grants \ config.grants)
  /\ UNCHANGED <<controller, instance, counter, config, pending, fetched, applied, report, late>>

\* A new process begins with empty counters.
restarts ==
  /\ instance < MaxInstances /\ instance' = instance + 1 /\ counter' = NoBytes
  /\ config' = NoConfig /\ stats' = NoConfig /\ pending' = {} /\ fetched' = NoConfig
  /\ ready' = FALSE /\ applied' = 0 /\ xray' = "down" /\ unreported' = {}
  /\ report' = [r \in Reporter |-> None]
  /\ late' \in {late} \cup {report[r] : r \in {r \in Reporter : report[r] # None /\ report[r].answer = None}}
  /\ UNCHANGED <<controller, count>>

-----------------------------------------------------------------------------
Init ==
  /\ live = [rev |-> 1, grants |-> Grant, links |-> Link] /\ retired = [x \in {} |-> None]
  /\ counters = [p \in {} |-> None] /\ history = NoBytes /\ status = [applied |-> 0, ready |-> FALSE]
  /\ instance = 1 /\ counter = NoBytes /\ config = NoConfig /\ stats = NoConfig /\ pending = {}
  /\ fetched = NoConfig /\ unreported = {} /\ ready = FALSE /\ applied = 0 /\ xray = "down"
  /\ report = [r \in Reporter |-> None] /\ late = None
  /\ best = [i \in Instance |-> NoBytes] /\ disordered = FALSE
  /\ count = [bytes |-> 0, deletions |-> 0, faults |-> 0]

xrayLoop == xrayStarts \/ reloadStarts \/ reloadEnds
reports == reportStarts \/ reportEnds

Next ==
  \/ \E g \in Grant : removeGrant(g) \/ expires(g)
  \/ \E l \in Link : removeLink(l) \/ expires(l) \/ agentReports(l)
  \/ \E p \in Pair : traffic(p)
  \/ refresh \/ reports \/ (\E r \in Reporter : handle(r)) \/ handleLate
  \/ xrayLoop \/ pendingExpires \/ xrayExits \/ restarts

Spec == Init /\ [][Next]_vars

\* One loop serves both tickers, so a due refresh gets its turn between reports;
\* the Xray loop runs, a request is handled, and seven days pass.
FairSpec ==
  /\ Spec /\ SF_vars(refresh) /\ WF_vars(reports) /\ WF_vars(xrayLoop) /\ WF_vars(pendingExpires)
  /\ \A r \in Reporter : WF_vars(handle(r))

-----------------------------------------------------------------------------
(* Properties.                                                             *)

\* The sum of f over the processes.
total(f) ==
  LET upTo[n \in 0 .. MaxInstances] == IF n = 0 THEN 0 ELSE upTo[n - 1] + f[n]
  IN upTo[MaxInstances]

\* What the reports of all processes have shown of a pair.
shown(p) == total([i \in Instance |-> best[i][p]])

\* "On a new process, count its first report as traffic since startup; repeated
\* reports contribute only their monotonic delta": the usage of a pair is never
\* less than what its reports have shown, also through deletions, restarts and the
\* pruning of counters, and is exactly that unless a report overtook another one.
UsageCounted ==
  \A p \in Pair : history[p] >= shown(p) /\ (disordered \/ history[p] = shown(p))

\* The Controller has accepted the last value this process has of a pair.
counted(p) == best[instance][p] >= counter[p]

\* A deleted Grant is forgotten only when its last traffic has been counted: this
\* is what retired Grants, the report before a reload and pendingStats are for. It
\* holds in every process, for a deletion the Gateway takes up while its Xray is
\* running, if neither of them exits and none of the seven-day lifetimes ends.
DeletedGrantCounted ==
  \A p \in Pair :
    p[1] \notin live.grants \cup DOMAIN retired \cup unreported /\ p[2] \in live.links => counted(p)

\* Reports of the revision in force are accepted again and again: although one
\* deleted Grant or Link refuses whole reports, after every deletion, lost answer
\* and crash the Gateway stops naming what the Controller has forgotten.
ReportsAccepted ==
  []<>(report["control"] # None /\ report["control"].answer = "ok" /\ report["control"].applied = live.rev)

=============================================================================
