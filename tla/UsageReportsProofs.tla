------------------------- MODULE UsageReportsProofs -------------------------
(***************************************************************************)
(* Usage is counted once and a deleted Grant is forgotten only when its    *)
(* last traffic has been counted, for any Grants and Links, any number of  *)
(* processes of the Gateway and any number of faults.                      *)
(***************************************************************************)
EXTENDS UsageReports, WellFoundedInduction, TLAPS

\* The provers for a step, in turn: most need no more than Zenon.
USE ZenonT(4), SMTT(30), ZenonT(30)

-----------------------------------------------------------------------------
\* The inductive invariant.

Retired == [kind : {"grant", "link"}, rev : Nat, expired : BOOLEAN, agent : BOOLEAN, links : SUBSET Link]

\* The reports that the Controller may still handle or has answered.
Messages == ({late} \cup {report[r] : r \in Reporter}) \ {None}

\* The state is of the types of NodeStatus, UsageCounters and the Gateway's fields.
TypeOK ==
  /\ live \in Config /\ config \in Config /\ stats \in Config /\ fetched \in Config
  /\ pending \in SUBSET Config
  /\ DOMAIN retired \subseteq Grant \cup Link
  /\ retired \in [DOMAIN retired -> Retired]
  /\ status \in [applied : Nat, ready : BOOLEAN]
  /\ instance \in Instance /\ counter \in [Pair -> Nat] /\ applied \in Nat
  /\ ready \in BOOLEAN /\ xray \in {"down", "running", "reloading"}
  /\ report \in [Reporter -> Report \cup {None}] /\ late \in Report \cup {None}
  /\ best \in [Instance -> [Pair -> Nat]] /\ unreported \in SUBSET Grant

\* Configuration d is at least as new as c: a route only loses Grants and Links.
Newer(d, c) == c.rev <= d.rev /\ d.grants \subseteq c.grants /\ d.links \subseteq c.links

\* Configurations come to the Gateway in the order of their revisions.
Order ==
  /\ live.rev >= 1
  /\ config = NoConfig => fetched = NoConfig /\ xray = "down" /\ counter = NoBytes
  /\ config # NoConfig => Newer(live, config)
  /\ fetched # NoConfig => Newer(live, fetched) /\ Newer(fetched, config)
  /\ xray = "down" => stats = NoConfig /\ ~ready
  /\ xray # "down" => Newer(config, stats)
  /\ xray # "reloading" => report["xray"] = None
  /\ report["control"] = None => fetched = NoConfig
  /\ applied <= config.rev

\* What is deleted, and that the Controller has not heard of its deletion from the Gateway.
Deleted ==
  /\ \A x \in DOMAIN retired : x \notin live.grants \cup live.links /\ retired[x].rev <= live.rev
  /\ \A g \in DOMAIN retired \cap Grant :
       /\ retired[g].agent
       /\ status.ready => status.applied < retired[g].rev
       /\ config.rev >= retired[g].rev => g \notin config.grants
       /\ fetched.rev >= retired[g].rev => g \notin fetched.grants
  /\ status.applied <= live.rev

\* The last value of p is in report m, or has been accepted already.
carries(m, p) == counted(p) \/ (m.instance = instance /\ p \in DOMAIN m.bytes /\ m.bytes[p] = counter[p])

\* A pair whose last traffic the Controller must hear of: its Grant has left
\* the Gateway's configuration and its Link is in use.
Owed(p) == p[1] \notin config.grants \cup unreported /\ p[2] \in live.links

\* The counters of a Grant that left the configuration stay reportable until they are counted.
Reportable ==
  \A p \in Pair : Owed(p) => counted(p) \/ p[1] \in stats.grants \/ \E c \in pending : p[1] \in c.grants

\* A report that acknowledges a deletion carries the last traffic of the Grant.
Ack(m) ==
  /\ m.applied <= live.rev
  /\ config # NoConfig => m.applied <= config.rev
  /\ \A p \in Pair : Owed(p) /\ p[1] \in DOMAIN retired /\ m.applied >= retired[p[1]].rev => carries(m, p)

Acknowledges == \A m \in Messages : Ack(m)

\* A report covers the configurations it removes from pendingStats, and the
\* report before a reload covers the one Xray runs with.
Cov(r, m) ==
  /\ m.instance = instance
  /\ \A p \in Pair :
       Owed(p) /\ ((\E c \in m.pending : p[1] \in c.grants) \/ (r = "xray" /\ p[1] \in stats.grants)) =>
         carries(m, p) /\ (m.answer = "ok" => counted(p))

Covers == \A r \in Reporter : report[r] # None => Cov(r, report[r])

\* The Controller keeps a deleted Grant while the Gateway may let it in.
Waits ==
  /\ \A g \in config.grants : g \in live.grants \cup DOMAIN retired \cup unreported
  /\ \A g \in DOMAIN retired \cap Grant : retired[g].expired =>
       g \in unreported \/ (g \notin config.grants /\ \A l \in Link : counted(<<g, l>>))

IInv == TypeOK /\ Order /\ Deleted /\ Reportable /\ Acknowledges /\ Covers /\ Waits /\ DeletedGrantCounted

-----------------------------------------------------------------------------
\* Reports.

\* The greater of two numbers.
LEMMA MaxFact ==
  ASSUME NEW a \in Nat, NEW b \in Nat
  PROVE  Max({a, b}) \in Nat /\ Max({a, b}) = IF a >= b THEN a ELSE b
<1>1. \E x \in {a, b} : \A y \in {a, b} : x >= y
  OBVIOUS
<1>2. Max({a, b}) \in {a, b} /\ \A y \in {a, b} : Max({a, b}) >= y
  BY <1>1 DEF Max
<1> QED
  BY <1>2

\* The counters in a report are numbers.
LEMMA ReportFacts ==
  ASSUME NEW m \in Report
  PROVE  /\ DOMAIN m.bytes \subseteq Pair
         /\ \A p \in DOMAIN m.bytes : m.bytes[p] \in Nat
         /\ m # None
<1>1. PICK S \in SUBSET Pair : m.bytes \in [S -> Nat]
  BY DEF Report
<1> QED
  BY <1>1, NoneAssumption

\* What report puts into a report.
LEMMA SnapshotFacts ==
  ASSUME TypeOK
  PROVE  /\ snapshot \in Report
         /\ snapshot.instance = instance /\ snapshot.applied = applied
         /\ snapshot.pending = pending /\ snapshot.answer = None
         /\ \A p \in DOMAIN snapshot.bytes :
              snapshot.bytes[p] > 0 /\ p[1] \in snapshot.grants /\ p[2] \in snapshot.links
         /\ \A p \in Pair :
              /\ \E c \in {config, stats} \cup pending : p[1] \in c.grants
              /\ p[2] \in config.links
              /\ counter[p] > 0
              => p \in DOMAIN snapshot.bytes /\ snapshot.bytes[p] = counter[p]
<1> DEFINE gs == UNION {c.grants : c \in reportable}
           ls == UNION {c.links : c \in reportable}
           D == {q \in gs \X ls : counter[q] > 0}
           B == [p \in D |-> counter[p]]
           G == {g \in gs : \E l \in Link : counter[<<g, l>>] > 0}
<1>1. reportable \subseteq Config
  BY DEF TypeOK, reportable
<1>2. gs \subseteq Grant /\ ls \subseteq Link
  BY <1>1 DEF Config
<1>3. D \in SUBSET Pair /\ B \in [D -> Nat]
  BY <1>2 DEF TypeOK, Pair
<1>4. B \in UNION {[S -> Nat] : S \in SUBSET Pair}
  <2> HIDE DEF D, B
  <2>1. [D -> Nat] \in {[S -> Nat] : S \in SUBSET Pair}
    BY <1>3
  <2> QED
    BY <1>3, <2>1
<1>5. snapshot = [instance |-> instance, applied |-> applied, ready |-> ready, links |-> ls,
                  pending |-> pending, grants |-> G, bytes |-> B, answer |-> None]
  BY DEF snapshot
<1> HIDE DEF B
<1>6. snapshot \in Report
  BY <1>2, <1>4, <1>5 DEF Report, TypeOK
<1>7. DOMAIN snapshot.bytes = D /\ \A p \in D : snapshot.bytes[p] = counter[p]
  BY <1>5 DEF B
<1>8. ASSUME NEW p \in D PROVE counter[p] > 0 /\ p[1] \in G /\ p[2] \in ls
  <2>1. p = <<p[1], p[2]>> /\ p[1] \in gs /\ p[2] \in ls /\ counter[p] > 0
    OBVIOUS
  <2> QED
    BY <2>1, <1>2
<1>9. ASSUME NEW p \in Pair, NEW c \in {config, stats} \cup pending, p[1] \in c.grants,
             p[2] \in config.links, counter[p] > 0
      PROVE  p \in D
  <2>1. c \in reportable /\ config \in reportable
    BY DEF reportable
  <2>2. p = <<p[1], p[2]>>
    BY DEF Pair
  <2>3. p[1] \in gs /\ p[2] \in ls
    BY <2>1, <1>9
  <2> QED
    BY <2>2, <2>3, <1>9
<1> QED
  BY <1>5, <1>6, <1>7, <1>8, <1>9

-----------------------------------------------------------------------------
\* The Controller.

\* A step of the Controller that forgets deleted Grants and accepts counters:
\* a Grant it forgets is one whose last traffic is counted or dropped.
Prunes ==
  /\ live' = live
  /\ UNCHANGED gateway
  /\ best' \in [Instance -> [Pair -> Nat]] /\ \A p \in Pair : best'[instance][p] >= best[instance][p]
  /\ DOMAIN retired' \subseteq DOMAIN retired /\ retired' \in [DOMAIN retired' -> Retired]
  /\ \A x \in DOMAIN retired' : retired'[x].rev = retired[x].rev /\ (x \in Grant => retired'[x] = retired[x])
  /\ status' \in [applied : Nat, ready : BOOLEAN] /\ status'.applied <= live.rev
  /\ \A g \in DOMAIN retired' \cap Grant : status'.ready => status'.applied < retired'[g].rev
  /\ \A g \in Grant \cap (DOMAIN retired \ DOMAIN retired') :
       g \in unreported \/ (g \notin config.grants /\ \A l \in live.links : counted(<<g, l>>)')

\* What such a step leaves true.
LEMMA PrunesKeeps ==
  ASSUME IInv, Prunes,
         report' \in [Reporter -> Report \cup {None}], late' \in Report \cup {None},
         report["xray"] = None => report'["xray"] = None,
         report'["control"] = None => report["control"] = None
  PROVE  /\ TypeOK' /\ Order' /\ Deleted' /\ Reportable' /\ Waits' /\ DeletedGrantCounted'
         /\ \A p \in Pair : (Owed(p)' <=> Owed(p)) /\ (counted(p) => counted(p)')
         /\ \A m : Ack(m) => Ack(m)'
         /\ \A m, r : Cov(r, m) => Cov(r, m)'
<1>1. TypeOK /\ Order /\ Deleted /\ Reportable /\ Waits /\ DeletedGrantCounted
  BY DEF IInv
<1>2. UNCHANGED <<live, instance, counter, config, stats, pending, fetched, ready, applied, xray, unreported>>
  BY DEF Prunes, gateway
<1>3. \A p \in Pair : best[instance][p] \in Nat /\ best'[instance][p] \in Nat /\ counter[p] \in Nat
  BY <1>1 DEF TypeOK, Prunes
<1>4. ASSUME NEW p \in Pair PROVE (Owed(p)' <=> Owed(p)) /\ (counted(p) => counted(p)')
  BY <1>2, <1>3 DEF Prunes, Owed, counted
<1>5. TypeOK'
  BY <1>1, <1>2 DEF Prunes, TypeOK
<1>6. Order'
  BY <1>1, <1>2 DEF Order, Newer
<1>7. Deleted'
  <2>1. \A x \in DOMAIN retired' : x \in DOMAIN retired /\ retired'[x].rev = retired[x].rev
                                   /\ (x \in Grant => retired'[x] = retired[x])
    BY DEF Prunes
  <2> QED
    BY <1>1, <1>2, <2>1 DEF Deleted, Prunes
<1>8. Reportable'
  BY <1>1, <1>2, <1>4 DEF Reportable
<1>9. ASSUME NEW g \in Grant \cap DOMAIN retired, g \notin DOMAIN retired'
      PROVE  g \in unreported \/ (g \notin config.grants /\ \A l \in live.links : counted(<<g, l>>)')
  BY <1>9 DEF Prunes
<1>10. Waits'
  <2>1. ASSUME NEW g \in config.grants PROVE g \in live.grants \cup DOMAIN retired' \cup unreported
    <3>1. g \in Grant
      BY <1>1 DEF TypeOK, Config
    <3> QED
      BY <1>1, <3>1, <1>9 DEF Waits
  <2>2. ASSUME NEW g \in DOMAIN retired' \cap Grant, retired'[g].expired
        PROVE  g \in unreported \/ (g \notin config.grants /\ \A l \in Link : counted(<<g, l>>)')
    <3>1. g \in DOMAIN retired /\ retired[g].expired
      BY <2>2 DEF Prunes
    <3>2. \A l \in Link : <<g, l>> \in Pair
      BY DEF Pair
    <3> QED
      BY <1>1, <1>4, <3>1, <3>2 DEF Waits
  <2> QED
    BY <2>1, <2>2, <1>2 DEF Waits
<1>11. DeletedGrantCounted'
  <2>1. ASSUME NEW p \in Pair, p[1] \notin live.grants \cup DOMAIN retired' \cup unreported, p[2] \in live.links
        PROVE  counted(p)'
    <3>1. CASE p[1] \in DOMAIN retired
      <4>1. p[1] \in Grant /\ p = <<p[1], p[2]>>
        BY DEF Pair
      <4>2. \A l \in live.links : counted(<<p[1], l>>)'
        BY <2>1, <3>1, <4>1, <1>9
      <4> QED
        BY <2>1, <4>1, <4>2
    <3>2. CASE p[1] \notin DOMAIN retired
      BY <1>1, <2>1, <3>2, <1>4 DEF DeletedGrantCounted
    <3> QED
      BY <3>1, <3>2
  <2> QED
    BY <2>1, <1>2 DEF DeletedGrantCounted
<1>12. ASSUME NEW m, NEW p \in Pair, carries(m, p) PROVE carries(m, p)'
  BY <1>2, <1>4, <1>12 DEF carries
<1>13. ASSUME NEW m, Ack(m) PROVE Ack(m)'
  <2>1. ASSUME NEW p \in Pair, Owed(p), p[1] \in DOMAIN retired', m.applied >= retired'[p[1]].rev
        PROVE  carries(m, p)'
    <3>1. p[1] \in DOMAIN retired /\ retired'[p[1]].rev = retired[p[1]].rev
      BY <2>1 DEF Prunes
    <3> QED
      BY <1>13, <2>1, <3>1, <1>12 DEF Ack
  <2> QED
    BY <1>13, <2>1, <1>2, <1>4 DEF Ack
<1>14. ASSUME NEW m, NEW r, Cov(r, m) PROVE Cov(r, m)'
  BY <1>14, <1>2, <1>4, <1>12 DEF Cov
<1> QED
  BY <1>4, <1>5, <1>6, <1>7, <1>8, <1>10, <1>11, <1>13, <1>14

\* nodeStatus prunes, and accepts the counters of the report.
LEMMA NodeStatusPrunes ==
  ASSUME IInv, NEW m \in Messages, nodeStatus(m), UNCHANGED gateway
  PROVE  /\ Prunes
         /\ accepts(m) => \A p \in Pair : carries(m, p) => counted(p)'
<1>1. TypeOK /\ Order /\ Deleted /\ Waits /\ Ack(m)
  BY DEF IInv, Acknowledges
<1>2. UNCHANGED <<instance, counter, config, stats, pending, fetched, ready, applied, xray, unreported>>
  BY DEF gateway
<1>3. m \in Report
  BY <1>1 DEF Messages, TypeOK, Reporter
<1>4. CASE ~accepts(m)
  <2>1. UNCHANGED <<live, retired, status, best>>
    BY <1>4 DEF nodeStatus, controller
  <2> QED
    BY <1>1, <1>2, <2>1, <1>4 DEF Prunes, TypeOK, Deleted, gateway
<1>5. CASE accepts(m)
  <2> DEFINE s == [applied |-> m.applied, ready |-> m.ready]
             gone == {x \in DOMAIN retired : retired[x].expired \/ done(retired[x], s)}
  <2>1. status' = s /\ live' = live
    BY <1>5 DEF nodeStatus
  <2>2. retired' = [x \in DOMAIN retired \ gone |-> retired[x]]
    BY <1>5 DEF nodeStatus, pruneRetiredUsage
  <2>3. best' = [best EXCEPT ![m.instance] =
                   [p \in Pair |-> IF p \in DOMAIN m.bytes THEN Max({@[p], m.bytes[p]}) ELSE @[p]]]
    BY <1>5 DEF nodeStatus
  <2>4. ASSUME NEW i \in Instance, NEW p \in Pair
        PROVE  /\ best'[i][p] \in Nat /\ best'[i][p] >= best[i][p]
               /\ i = m.instance /\ p \in DOMAIN m.bytes => best'[i][p] >= m.bytes[p]
    <3>1. best[i][p] \in Nat /\ (p \in DOMAIN m.bytes => m.bytes[p] \in Nat)
      BY <1>1, <1>3, ReportFacts DEF TypeOK
    <3>2. best'[i][p] = IF i = m.instance /\ p \in DOMAIN m.bytes THEN Max({best[i][p], m.bytes[p]})
                        ELSE best[i][p]
      BY <1>1, <2>3 DEF TypeOK
    <3> QED
      BY <3>1, <3>2, MaxFact
  <2>5. best' \in [Instance -> [Pair -> Nat]]
    <3>1. ASSUME NEW i \in Instance PROVE best'[i] \in [Pair -> Nat]
      <4>1. best'[i] = IF i = m.instance
                       THEN [p \in Pair |-> IF p \in DOMAIN m.bytes THEN Max({best[i][p], m.bytes[p]}) ELSE best[i][p]]
                       ELSE best[i]
        BY <1>1, <2>3 DEF TypeOK
      <4>2. best[i] \in [Pair -> Nat]
        BY <1>1 DEF TypeOK
      <4>3. DOMAIN best'[i] = Pair /\ best'[i] = [p \in Pair |-> best'[i][p]]
        BY <4>1, <4>2
      <4> QED
        BY <4>3, <2>4
    <3>2. best' = [i \in Instance |-> best'[i]]
      BY <1>1, <2>3 DEF TypeOK
    <3> QED
      BY <3>1, <3>2
  <2>6. ASSUME NEW p \in Pair, carries(m, p) PROVE counted(p)'
    <3>1. instance \in Instance /\ counter[p] \in Nat /\ best[instance][p] \in Nat
      BY <1>1 DEF TypeOK
    <3>2. best'[instance][p] \in Nat /\ best'[instance][p] >= best[instance][p]
          /\ (instance = m.instance /\ p \in DOMAIN m.bytes => best'[instance][p] >= m.bytes[p])
      BY <2>4, <3>1
    <3> QED
      BY <1>2, <2>6, <3>1, <3>2 DEF carries, counted
  <2>7. /\ DOMAIN retired' \subseteq DOMAIN retired /\ retired' \in [DOMAIN retired' -> Retired]
        /\ \A x \in DOMAIN retired' : retired'[x] = retired[x]
    BY <1>1, <2>2 DEF TypeOK
  <2>8. s \in [applied : Nat, ready : BOOLEAN] /\ s.applied <= live.rev
    BY <1>1, <1>3 DEF Report, Ack
  <2>9. ASSUME NEW g \in DOMAIN retired' \cap Grant, s.ready PROVE s.applied < retired'[g].rev
    <3>1. g \in DOMAIN retired /\ ~done(retired[g], s) /\ retired'[g] = retired[g]
      BY <2>2, <2>7
    <3>2. retired[g].agent /\ retired[g].rev \in Nat
      BY <1>1, <3>1 DEF Deleted, TypeOK, Retired
    <3> QED
      BY <2>8, <2>9, <3>1, <3>2 DEF done
  <2>10. ASSUME NEW g \in Grant \cap (DOMAIN retired \ DOMAIN retired')
         PROVE  g \in unreported \/ (g \notin config.grants /\ \A l \in live.links : counted(<<g, l>>)')
    <3>1. retired[g].expired \/ done(retired[g], s)
      BY <2>2
    <3>2. live.links \subseteq Link /\ \A l \in Link : <<g, l>> \in Pair
      BY <1>1 DEF Pair, TypeOK, Config
    <3>3. CASE retired[g].expired
      BY <1>1, <3>2, <3>3, <2>6 DEF Waits, carries
    <3>4. CASE done(retired[g], s) /\ g \notin unreported
      <4>1. m.applied >= retired[g].rev
        BY <3>4 DEF done
      <4>2. g \notin config.grants
        <5>1. CASE config = NoConfig
          BY <5>1 DEF NoConfig
        <5>2. CASE config # NoConfig
          <6>1. m.applied <= config.rev /\ config.rev \in Nat /\ retired[g].rev \in Nat /\ m.applied \in Nat
            BY <1>1, <1>3, <5>2 DEF Ack, TypeOK, Config, Report, Retired
          <6> QED
            BY <1>1, <4>1, <6>1 DEF Deleted
        <5> QED
          BY <5>1, <5>2
      <4>3. ASSUME NEW l \in live.links PROVE counted(<<g, l>>)'
        <5>1. <<g, l>> \in Pair /\ Owed(<<g, l>>)
          BY <3>2, <3>4, <4>2 DEF Owed
        <5>2. carries(m, <<g, l>>)
          BY <1>1, <4>1, <5>1 DEF Ack
        <5> QED
          BY <5>1, <5>2, <2>6
      <4> QED
        BY <4>2, <4>3
    <3> QED
      BY <3>1, <3>3, <3>4
  <2>11. instance \in Instance
    BY <1>1 DEF TypeOK
  <2> QED
    BY <2>1, <2>4, <2>5, <2>6, <2>7, <2>8, <2>9, <2>10, <2>11 DEF Prunes
<1> QED
  BY <1>4, <1>5

\* The Controller handles a report.
LEMMA StepHandle ==
  ASSUME IInv, NEW r \in Reporter, handle(r)
  PROVE  IInv'
<1>0. PICK m, k : m = report[r] /\ k = report'[r]
  OBVIOUS
<1>1. TypeOK /\ Acknowledges /\ Covers
  BY DEF IInv
<1>2. m \in Report /\ m \in Messages /\ m # None /\ m.answer = None /\ nodeStatus(m) /\ UNCHANGED gateway /\ late' = late
  BY <1>0, <1>1 DEF handle, TypeOK, Messages
<1>3. Prunes /\ (accepts(m) => \A p \in Pair : carries(m, p) => counted(p)')
  BY <1>2, NodeStatusPrunes
<1>4. k = [m EXCEPT !.answer = IF accepts(m) THEN "ok" ELSE "refused"]
      /\ \A q \in Reporter : q # r => report'[q] = report[q]
      /\ DOMAIN report' = Reporter
  BY <1>0, <1>1 DEF handle, TypeOK
<1>5. k \in Report /\ k.instance = m.instance /\ k.applied = m.applied /\ k.pending = m.pending /\ k.bytes = m.bytes
      /\ (k.answer = "ok" => accepts(m))
  BY <1>2, <1>4 DEF Report
<1>6. report' \in [Reporter -> Report \cup {None}] /\ late' \in Report \cup {None}
      /\ (report["xray"] = None => report'["xray"] = None)
      /\ (report'["control"] = None => report["control"] = None)
  <2>1. \A q \in Reporter : report'[q] \in Report \cup {None}
    BY <1>0, <1>1, <1>4, <1>5 DEF TypeOK
  <2>2. report' = [q \in Reporter |-> report'[q]]
    BY <1>1 DEF handle, TypeOK
  <2>3. "xray" \in Reporter /\ "control" \in Reporter /\ k # None
    BY <1>5, ReportFacts DEF Reporter
  <2> QED
    BY <1>0, <1>1, <1>2, <1>4, <2>1, <2>2, <2>3 DEF TypeOK
<1>7. /\ TypeOK' /\ Order' /\ Deleted' /\ Reportable' /\ Waits' /\ DeletedGrantCounted'
      /\ \A p \in Pair : (Owed(p)' <=> Owed(p)) /\ (counted(p) => counted(p)')
      /\ \A n : Ack(n) => Ack(n)'
      /\ \A n, q : Cov(q, n) => Cov(q, n)'
  BY <1>3, <1>6, PrunesKeeps
<1>8. \A p \in Pair : carries(m, p)' => carries(k, p)'
  BY <1>5 DEF carries
<1>9. Ack(m)' /\ Cov(r, m)'
  BY <1>0, <1>1, <1>2, <1>7 DEF Acknowledges, Covers
<1>10. Ack(k)'
  BY <1>5, <1>8, <1>9 DEF Ack
<1>11. Cov(r, k)'
  <2>1. ASSUME NEW p \in Pair, Owed(p)',
               (\E c \in k.pending : p[1] \in c.grants) \/ (r = "xray" /\ p[1] \in stats'.grants)
        PROVE  carries(k, p)' /\ (k.answer = "ok" => counted(p)')
    <3>1. stats' = stats
      BY <1>2 DEF gateway
    <3>2. carries(m, p)' /\ carries(m, p)
      BY <1>0, <1>1, <1>2, <1>5, <1>7, <1>9, <2>1, <3>1 DEF Cov, Covers
    <3> QED
      BY <1>3, <1>5, <1>8, <3>2
  <2>2. k.instance = instance'
    BY <1>5, <1>9 DEF Cov
  <2> QED
    BY <2>1, <2>2 DEF Cov
<1>12. Acknowledges'
  <2>1. ASSUME NEW n \in Messages' PROVE n = k \/ n \in Messages
    <3>1. n # None /\ (n = late' \/ \E q \in Reporter : n = report'[q])
      BY DEF Messages
    <3>2. n = late \/ n = k \/ \E q \in Reporter : n = report[q]
      BY <1>0, <1>2, <1>4, <3>1
    <3> QED
      BY <3>1, <3>2 DEF Messages
  <2> QED
    BY <1>1, <1>7, <1>10, <2>1 DEF Acknowledges
<1>13. Covers'
  <2>1. ASSUME NEW q \in Reporter, NEW n, n = report'[q], n # None PROVE Cov(q, n)'
    <3>1. CASE q = r
      BY <1>0, <1>11, <2>1, <3>1
    <3>2. CASE q # r
      BY <1>1, <1>4, <1>7, <2>1, <3>2 DEF Covers
    <3> QED
      BY <3>1, <3>2
  <2> QED
    BY <2>1 DEF Covers
<1> QED
  BY <1>7, <1>12, <1>13 DEF IInv

\* The Controller handles a report its sender has given up.
LEMMA StepHandleLate ==
  ASSUME IInv, handleLate
  PROVE  IInv'
<1>1. TypeOK /\ Acknowledges /\ Covers
  BY DEF IInv
<1>2. PICK m : m = late
  OBVIOUS
<1>3. m \in Messages /\ nodeStatus(m) /\ UNCHANGED gateway /\ report' = report /\ late' = None
  BY <1>2 DEF handleLate, Messages
<1>4. Prunes
  BY <1>3, NodeStatusPrunes
<1>5. /\ TypeOK' /\ Order' /\ Deleted' /\ Reportable' /\ Waits' /\ DeletedGrantCounted'
      /\ \A n : Ack(n) => Ack(n)'
      /\ \A n, q : Cov(q, n) => Cov(q, n)'
  BY <1>1, <1>3, <1>4, PrunesKeeps DEF TypeOK
<1>6. Messages' \subseteq Messages
  BY <1>3 DEF Messages
<1>7. Acknowledges'
  BY <1>1, <1>5, <1>6 DEF Acknowledges
<1>8. Covers'
  BY <1>1, <1>3, <1>5 DEF Covers
<1> QED
  BY <1>5, <1>7, <1>8 DEF IInv

\* The Agent reports that it has left a Link.
LEMMA StepAgentReports ==
  ASSUME IInv, NEW l \in Link, agentReports(l)
  PROVE  IInv'
<1> DEFINE rs == [retired EXCEPT ![l].agent = TRUE]
           gone == {x \in DOMAIN rs : rs[x].expired \/ done(rs[x], status)}
<1>1. TypeOK /\ Deleted /\ Waits /\ Acknowledges /\ Covers
  BY DEF IInv
<1>2. /\ UNCHANGED <<live, status, best, report, late>> /\ UNCHANGED gateway
      /\ l \in DOMAIN retired /\ retired' = [x \in DOMAIN rs \ gone |-> rs[x]]
  BY DEF agentReports, pruneRetiredUsage
<1>3. l \notin Grant
  BY KindAssumption
<1>4. DOMAIN rs = DOMAIN retired /\ (\A x \in DOMAIN retired : rs[x] \in Retired /\ rs[x].rev = retired[x].rev)
      /\ \A x \in DOMAIN retired : x \in Grant => rs[x] = retired[x]
  <2>1. DOMAIN rs = DOMAIN retired /\ rs[l] = [retired[l] EXCEPT !.agent = TRUE]
        /\ \A x \in DOMAIN retired : x # l => rs[x] = retired[x]
    BY <1>2
  <2>2. \A x \in DOMAIN retired : retired[x] \in Retired
    BY <1>1 DEF TypeOK
  <2>3. rs[l] \in Retired /\ rs[l].rev = retired[l].rev
    BY <1>2, <2>1, <2>2 DEF Retired
  <2> QED
    BY <1>3, <2>1, <2>2, <2>3
<1>5. ASSUME NEW g \in DOMAIN retired \cap Grant, g \in gone
      PROVE  g \in unreported \/ (g \notin config.grants /\ \A k \in live.links : counted(<<g, k>>)')
  <2>1. rs[g] = retired[g] /\ retired[g].agent /\ retired[g].rev \in Nat /\ status.applied \in Nat
        /\ (status.ready => status.applied < retired[g].rev)
    BY <1>1, <1>4 DEF Deleted, TypeOK, Retired
  <2>2. retired[g].expired
    BY <1>5, <2>1 DEF done
  <2>3. \A p : counted(p)' <=> counted(p)
    BY <1>2 DEF counted, gateway
  <2> QED
    BY <1>1, <2>2, <2>3 DEF Waits, TypeOK, Config
<1>6. Prunes
  <2>1. DOMAIN retired' = DOMAIN retired \ gone /\ \A x \in DOMAIN retired' : retired'[x] = rs[x]
    BY <1>2, <1>4
  <2>2. DOMAIN retired' \subseteq DOMAIN retired /\ retired' \in [DOMAIN retired' -> Retired]
    BY <1>2, <1>4
  <2>3. \A x \in DOMAIN retired' : retired'[x].rev = retired[x].rev /\ (x \in Grant => retired'[x] = retired[x])
    BY <1>4, <2>1
  <2>4. \A p \in Pair : best'[instance][p] >= best[instance][p]
    BY <1>1, <1>2 DEF TypeOK
  <2>5. \A g \in DOMAIN retired' \cap Grant : status'.ready => status'.applied < retired'[g].rev
    BY <1>1, <1>2, <2>1, <2>3 DEF Deleted
  <2> QED
    BY <1>1, <1>2, <1>5, <2>1, <2>2, <2>3, <2>4, <2>5 DEF Prunes, TypeOK, Deleted
<1>7. /\ TypeOK' /\ Order' /\ Deleted' /\ Reportable' /\ Waits' /\ DeletedGrantCounted'
      /\ \A n : Ack(n) => Ack(n)'
      /\ \A n, q : Cov(q, n) => Cov(q, n)'
  BY <1>1, <1>2, <1>6, PrunesKeeps DEF TypeOK
<1>8. Messages' = Messages
  BY <1>2 DEF Messages
<1>9. Acknowledges' /\ Covers'
  BY <1>1, <1>2, <1>7, <1>8 DEF Acknowledges, Covers
<1> QED
  BY <1>7, <1>9 DEF IInv

\* A Grant or a Link is deleted: the Controller waits for a revision that no
\* report acknowledges yet.
LEMMA StepRemove ==
  ASSUME IInv, NEW x \in Grant \cup Link, NEW e \in Retired,
         x \in live.grants \cup live.links,
         e.rev = live.rev + 1, ~e.expired, x \in Grant => e.agent,
         live' = [rev |-> live.rev + 1, grants |-> live.grants \ {x}, links |-> live.links \ {x}],
         retires(x, e), UNCHANGED <<status, best, gateway, report, late>>
  PROVE  IInv'
<1>1. TypeOK /\ Order /\ Deleted /\ Reportable /\ Acknowledges /\ Covers /\ Waits /\ DeletedGrantCounted
  BY DEF IInv
<1>2. UNCHANGED <<status, best, report, late, instance, counter, config, stats, pending, fetched, ready,
                  applied, xray, unreported>>
  BY DEF gateway
<1>3. live'.rev = live.rev + 1 /\ live'.grants = live.grants \ {x} /\ live'.links = live.links \ {x}
      /\ live.rev \in Nat /\ live' \in Config
  BY <1>1 DEF TypeOK, Config
<1>4. /\ DOMAIN retired' = DOMAIN retired \cup {x}
      /\ \A y \in DOMAIN retired' : retired'[y] = IF y = x THEN e ELSE retired[y]
      /\ retired' \in [DOMAIN retired' -> Retired]
  BY <1>1 DEF retires, TypeOK
<1>5. x \notin DOMAIN retired
  BY <1>1 DEF Deleted
<1>6. TypeOK'
  BY <1>1, <1>2, <1>3, <1>4 DEF TypeOK
<1>7. Order'
  <2>1. \A c \in Config : Newer(live, c) => Newer(live', c)
    BY <1>3 DEF Newer, Config
  <2> QED
    BY <1>1, <1>2, <1>3, <2>1 DEF Order, Newer, TypeOK
<1>8. Deleted'
  <2>1. config.rev <= live.rev /\ fetched.rev <= live.rev /\ config.rev \in Nat /\ fetched.rev \in Nat
    BY <1>1, <1>3 DEF Order, Newer, NoConfig, TypeOK, Config
  <2>2. ASSUME NEW y \in DOMAIN retired'
        PROVE  y \notin live'.grants \cup live'.links /\ retired'[y].rev <= live'.rev
    <3>1. y # x => y \in DOMAIN retired /\ retired[y].rev \in Nat /\ retired'[y] = retired[y]
      BY <1>1, <1>4 DEF TypeOK, Retired
    <3> QED
      BY <1>1, <1>3, <1>4, <3>1 DEF Deleted
  <2>3. ASSUME NEW g \in DOMAIN retired' \cap Grant
        PROVE  /\ retired'[g].agent /\ (status.ready => status.applied < retired'[g].rev)
               /\ (config.rev >= retired'[g].rev => g \notin config.grants)
               /\ (fetched.rev >= retired'[g].rev => g \notin fetched.grants)
    <3>1. CASE g = x
      <4>1. retired'[g] = e
        BY <1>4, <3>1
      <4> QED
        BY <1>1, <1>3, <2>1, <3>1, <4>1 DEF Deleted, TypeOK
    <3>2. CASE g # x
      BY <1>1, <1>4, <3>2 DEF Deleted
    <3> QED
      BY <3>1, <3>2
  <2> QED
    BY <1>1, <1>2, <1>3, <2>2, <2>3 DEF Deleted, TypeOK
<1>9. \A p \in Pair : (Owed(p)' => Owed(p)) /\ (counted(p)' <=> counted(p))
  BY <1>2, <1>3 DEF Owed, counted
<1>10. \A m, p : carries(m, p)' <=> carries(m, p)
  BY <1>2 DEF carries, counted
<1>11. Reportable'
  BY <1>1, <1>2, <1>9 DEF Reportable
<1>12. Acknowledges'
  <2>1. ASSUME NEW m \in Messages PROVE Ack(m)'
    <3>1. m \in Report /\ m.applied \in Nat /\ Ack(m)
      BY <1>1 DEF Messages, TypeOK, Report, Acknowledges
    <3>2. ASSUME NEW p \in Pair, Owed(p)', p[1] \in DOMAIN retired', m.applied >= retired'[p[1]].rev
          PROVE  carries(m, p)'
      <4>1. p[1] # x
        BY <1>3, <1>4, <3>1, <3>2 DEF Ack
      <4> QED
        BY <1>4, <1>9, <1>10, <3>1, <3>2, <4>1 DEF Ack
    <3> QED
      BY <1>2, <1>3, <3>1, <3>2 DEF Ack
  <2>2. Messages' = Messages
    BY <1>2 DEF Messages
  <2> QED
    BY <2>1, <2>2 DEF Acknowledges
<1>13. Covers'
  <2>1. \A m, q : Cov(q, m) => Cov(q, m)'
    BY <1>2, <1>9, <1>10 DEF Cov
  <2> QED
    BY <1>1, <1>2, <2>1 DEF Covers
<1>14. Waits'
  <2>1. ASSUME NEW g \in DOMAIN retired' \cap Grant, retired'[g].expired
        PROVE  g \in unreported \/ (g \notin config.grants /\ \A k \in Link : counted(<<g, k>>)')
    <3>1. g # x
      BY <1>4, <2>1
    <3>2. \A k \in Link : <<g, k>> \in Pair
      BY DEF Pair
    <3> QED
      BY <1>1, <1>4, <1>9, <2>1, <3>1, <3>2 DEF Waits
  <2> QED
    BY <1>1, <1>2, <1>3, <1>4, <2>1 DEF Waits
<1>15. DeletedGrantCounted'
  BY <1>1, <1>2, <1>3, <1>4, <1>9 DEF DeletedGrantCounted
<1> QED
  BY <1>6, <1>7, <1>8, <1>11, <1>12, <1>13, <1>14, <1>15 DEF IInv

\* The administrator deletes a Grant.
LEMMA StepRemoveGrant ==
  ASSUME IInv, NEW g \in Grant, removeGrant(g)
  PROVE  IInv'
<1> DEFINE e == [kind |-> "grant", rev |-> live.rev + 1, expired |-> FALSE, agent |-> TRUE,
                 links |-> live.links \cup {l \in Link : l \in DOMAIN retired}]
<1>1. TypeOK
  BY DEF IInv
<1>2. /\ g \in live.grants /\ live' = [live EXCEPT !.grants = @ \ {g}, !.rev = @ + 1]
      /\ retires(g, e) /\ UNCHANGED <<status, best, gateway, report, late>>
  BY DEF removeGrant
<1>3. e \in Retired /\ e.rev = live.rev + 1 /\ ~e.expired /\ e.agent
  BY <1>1 DEF TypeOK, Config, Retired
<1>4. live' = [rev |-> live.rev + 1, grants |-> live.grants \ {g}, links |-> live.links \ {g}]
  <2>1. g \notin live.links
    BY <1>1, KindAssumption DEF TypeOK, Config
  <2> QED
    BY <1>1, <1>2, <2>1 DEF TypeOK, Config
<1> HIDE DEF e
<1> QED
  BY <1>2, <1>3, <1>4, StepRemove

\* The administrator deletes a Link.
LEMMA StepRemoveLink ==
  ASSUME IInv, NEW l \in Link, removeLink(l)
  PROVE  IInv'
<1> DEFINE e == [kind |-> "link", rev |-> live.rev + 1, expired |-> FALSE, agent |-> FALSE, links |-> {}]
<1>1. TypeOK
  BY DEF IInv
<1>2. /\ l \in live.links /\ live' = [live EXCEPT !.links = @ \ {l}, !.rev = @ + 1]
      /\ retires(l, e) /\ UNCHANGED <<status, best, gateway, report, late>>
  BY DEF removeLink
<1>3. e \in Retired /\ e.rev = live.rev + 1 /\ ~e.expired /\ l \notin Grant
  BY <1>1, KindAssumption DEF TypeOK, Config, Retired
<1>4. live' = [rev |-> live.rev + 1, grants |-> live.grants \ {l}, links |-> live.links \ {l}]
  BY <1>1, <1>2, <1>3 DEF TypeOK, Config
<1> HIDE DEF e
<1> QED
  BY <1>2, <1>3, <1>4, StepRemove

\* retiredUsageLifetime ends for a deleted Grant or Link.
LEMMA StepExpires ==
  ASSUME IInv, NEW x \in Grant \cup Link, expires(x)
  PROVE  IInv'
<1>1. TypeOK /\ Order /\ Deleted /\ Reportable /\ Acknowledges /\ Covers /\ Waits /\ DeletedGrantCounted
  BY DEF IInv
<1>2. /\ UNCHANGED <<live, status, best, report, late, instance, counter, config, stats, pending, fetched,
                     ready, applied, xray>>
      /\ unreported' = unreported \cup ({x} \cap Grant) /\ x \in DOMAIN retired
      /\ retired' = [retired EXCEPT ![x].expired = TRUE]
  BY DEF expires
<1>3. /\ DOMAIN retired' = DOMAIN retired /\ retired' \in [DOMAIN retired' -> Retired]
      /\ \A y \in DOMAIN retired : /\ retired'[y].rev = retired[y].rev /\ retired'[y].agent = retired[y].agent
                                   /\ y # x => retired'[y] = retired[y]
  <2>1. \A y \in DOMAIN retired : retired[y] \in Retired
    BY <1>1 DEF TypeOK
  <2>2. DOMAIN retired' = DOMAIN retired /\ retired'[x] = [retired[x] EXCEPT !.expired = TRUE]
        /\ \A y \in DOMAIN retired : y # x => retired'[y] = retired[y]
    BY <1>2
  <2>3. retired'[x] \in Retired /\ retired'[x].rev = retired[x].rev /\ retired'[x].agent = retired[x].agent
    BY <1>2, <2>1, <2>2 DEF Retired
  <2>4. \A y \in DOMAIN retired : retired'[y] \in Retired
    BY <2>1, <2>2, <2>3
  <2>5. retired' = [y \in DOMAIN retired |-> retired'[y]]
    BY <1>2
  <2> QED
    BY <2>2, <2>3, <2>4, <2>5
<1>4. TypeOK'
  BY <1>1, <1>2, <1>3 DEF TypeOK
<1>5. Order'
  BY <1>1, <1>2 DEF Order, Newer
<1>6. Deleted'
  BY <1>1, <1>2, <1>3 DEF Deleted
<1>7. \A p \in Pair : (Owed(p)' => Owed(p)) /\ (counted(p)' <=> counted(p))
  BY <1>2 DEF Owed, counted
<1>8. \A m, p : carries(m, p)' <=> carries(m, p)
  BY <1>2 DEF carries, counted
<1>9. Reportable'
  BY <1>1, <1>2, <1>7 DEF Reportable
<1>10. Acknowledges'
  <2>1. Messages' = Messages /\ \A m \in Messages : Ack(m) => Ack(m)'
    BY <1>2, <1>3, <1>7, <1>8 DEF Messages, Ack
  <2> QED
    BY <1>1, <2>1 DEF Acknowledges
<1>11. Covers'
  <2>1. \A m, q : Cov(q, m) => Cov(q, m)'
    BY <1>2, <1>7, <1>8 DEF Cov
  <2> QED
    BY <1>1, <1>2, <2>1 DEF Covers
<1>12. Waits'
  <2>1. ASSUME NEW g \in DOMAIN retired \cap Grant, retired'[g].expired
        PROVE  g \in unreported' \/ (g \notin config.grants /\ \A k \in Link : counted(<<g, k>>)')
    <3>1. CASE g = x
      BY <1>2, <3>1
    <3>2. CASE g # x
      <4>1. \A k \in Link : <<g, k>> \in Pair
        BY DEF Pair
      <4> QED
        BY <1>1, <1>2, <1>3, <1>7, <2>1, <3>2, <4>1 DEF Waits
    <3> QED
      BY <3>1, <3>2
  <2> QED
    BY <1>1, <1>2, <1>3, <2>1 DEF Waits
<1>13. DeletedGrantCounted'
  BY <1>1, <1>2, <1>3, <1>7 DEF DeletedGrantCounted
<1> QED
  BY <1>4, <1>5, <1>6, <1>9, <1>10, <1>11, <1>12, <1>13 DEF IInv

-----------------------------------------------------------------------------
\* The Gateway.

\* A Grant in force is used: no pair whose last traffic is owed counts any more.
LEMMA StepTraffic ==
  ASSUME IInv, NEW p \in Pair, traffic(p)
  PROVE  IInv'
<1>1. TypeOK /\ Order /\ Deleted /\ Reportable /\ Acknowledges /\ Covers /\ Waits /\ DeletedGrantCounted
  BY DEF IInv
<1>2. UNCHANGED <<live, retired, status, best, report, late, instance, config, stats, pending, fetched,
                  ready, applied, xray, unreported>>
  BY DEF traffic, controller
<1>3. p[1] \in config.grants /\ counter' = [counter EXCEPT ![p] = @ + 1]
  BY DEF traffic
<1>4. TypeOK'
  BY <1>1, <1>2, <1>3 DEF TypeOK
<1>5. Order'
  <2>1. config # NoConfig
    BY <1>3 DEF NoConfig
  <2> QED
    BY <1>1, <1>2, <2>1 DEF Order, Newer
<1>6. Deleted'
  BY <1>1, <1>2 DEF Deleted
<1>7. ASSUME NEW q \in Pair, q[1] \notin config.grants PROVE counter'[q] = counter[q] /\ (counted(q)' <=> counted(q))
  <2>1. q # p
    BY <1>3, <1>7
  <2> QED
    BY <1>1, <1>2, <1>3, <2>1 DEF TypeOK, counted
<1>8. ASSUME NEW q \in Pair, Owed(q)' PROVE Owed(q) /\ q[1] \notin config.grants
  BY <1>2, <1>8 DEF Owed
<1>9. \A m : \A q \in Pair : q[1] \notin config.grants => (carries(m, q)' <=> carries(m, q))
  BY <1>2, <1>7 DEF carries
<1>10. Reportable'
  BY <1>1, <1>2, <1>7, <1>8 DEF Reportable
<1>11. Acknowledges'
  <2>1. Messages' = Messages /\ \A m \in Messages : Ack(m) => Ack(m)'
    BY <1>2, <1>8, <1>9 DEF Messages, Ack
  <2> QED
    BY <1>1, <2>1 DEF Acknowledges
<1>12. Covers'
  <2>1. \A m, q : Cov(q, m) => Cov(q, m)'
    BY <1>2, <1>7, <1>8, <1>9 DEF Cov
  <2> QED
    BY <1>1, <1>2, <2>1 DEF Covers
<1>13. Waits'
  <2>1. \A g \in Grant, l \in Link : <<g, l>> \in Pair /\ <<g, l>>[1] = g
    BY DEF Pair
  <2> QED
    BY <1>1, <1>2, <1>7, <2>1 DEF Waits
<1>14. DeletedGrantCounted'
  BY <1>1, <1>2, <1>7 DEF DeletedGrantCounted, Waits
<1> QED
  BY <1>4, <1>5, <1>6, <1>10, <1>11, <1>12, <1>13, <1>14 DEF IInv

\* A report is taken: it carries the last value of every pair that is owed, and
\* covers the configurations that are reportable.
LEMMA TakesReport ==
  ASSUME IInv, NEW r \in Reporter, config # NoConfig,
         report' = [report EXCEPT ![r] = snapshot],
         UNCHANGED <<live, retired, status, best, late, instance, counter, config, stats, pending,
                     ready, applied, unreported>>,
         fetched' = fetched \/ fetched' = live,
         xray' = xray \/ (xray = "running" /\ xray' = "reloading"),
         r = "xray" => xray' = "reloading" /\ fetched' = fetched
  PROVE  IInv'
<1>1. TypeOK /\ Order /\ Deleted /\ Reportable /\ Acknowledges /\ Covers /\ Waits /\ DeletedGrantCounted
  BY DEF IInv
<1>2. PICK m : m = snapshot
  OBVIOUS
<1>3. /\ m \in Report /\ m.instance = instance /\ m.applied = applied /\ m.pending = pending /\ m.answer = None
      /\ \A p \in Pair :
           /\ \E c \in {config, stats} \cup pending : p[1] \in c.grants
           /\ p[2] \in config.links
           /\ counter[p] > 0
           => p \in DOMAIN m.bytes /\ m.bytes[p] = counter[p]
  BY <1>1, <1>2, SnapshotFacts
<1>4. /\ \A q \in Reporter : report'[q] = IF q = r THEN m ELSE report[q]
      /\ report' \in [Reporter -> Report \cup {None}]
  BY <1>1, <1>2, <1>3 DEF TypeOK
<1>5. TypeOK'
  BY <1>1, <1>4 DEF TypeOK
<1>6. Newer(live, config) /\ Newer(live, live)
  BY <1>1 DEF Order, Newer, TypeOK, Config
<1>7. Order'
  <2>1. "xray" \in Reporter /\ "control" \in Reporter /\ m # None /\ (r = "control" \/ r = "xray")
    BY <1>3, ReportFacts DEF Reporter
  <2>2. /\ xray' # "reloading" => report'["xray"] = None
        /\ report'["control"] = None => fetched' = NoConfig
    BY <1>1, <1>4, <2>1 DEF Order
  <2>3. fetched' # NoConfig => Newer(live, fetched') /\ Newer(fetched', config)
    BY <1>1, <1>6 DEF Order
  <2>4. (xray' = "down" <=> xray = "down")
    OBVIOUS
  <2> QED
    BY <1>1, <2>2, <2>3, <2>4 DEF Order, Newer
<1>8. Deleted'
  <2>1. \A g \in DOMAIN retired \cap Grant : fetched'.rev >= retired[g].rev => g \notin fetched'.grants
    BY <1>1 DEF Deleted
  <2> QED
    BY <1>1, <2>1 DEF Deleted
<1>9. \A p : (Owed(p)' <=> Owed(p)) /\ (counted(p)' <=> counted(p))
  BY DEF Owed, counted
<1>10. \A n, p : carries(n, p)' <=> carries(n, p)
  BY <1>9 DEF carries
<1>11. ASSUME NEW p \in Pair, Owed(p), \E c \in {stats} \cup pending : p[1] \in c.grants
       PROVE  carries(m, p)
  <2>1. p[2] \in config.links
    BY <1>6, <1>11 DEF Owed, Newer
  <2>2. counter[p] \in Nat /\ best[instance][p] \in Nat
    BY <1>1 DEF TypeOK
  <2>3. CASE counter[p] > 0
    BY <1>3, <1>11, <2>1, <2>3 DEF carries
  <2>4. CASE counter[p] = 0
    BY <2>2, <2>4 DEF carries, counted
  <2> QED
    BY <2>2, <2>3, <2>4
<1>12. Ack(m)
  <2>1. applied <= config.rev /\ config.rev <= live.rev
    BY <1>1, <1>6 DEF Order, Newer
  <2>2. \A p \in Pair : Owed(p) => carries(m, p)
    BY <1>1, <1>11 DEF Reportable, carries
  <2> QED
    BY <1>1, <1>3, <2>1, <2>2 DEF Ack, TypeOK, Config, Instance
<1>13. Cov(r, m)
  <2>1. m.answer # "ok"
    BY <1>3, NoneAssumption
  <2> QED
    BY <1>3, <1>11, <2>1 DEF Cov
<1>14. Acknowledges'
  <2>1. \A n : Ack(n) => Ack(n)'
    BY <1>9, <1>10 DEF Ack
  <2>2. ASSUME NEW n \in Messages' PROVE n = m \/ n \in Messages
    <3>1. n # None /\ (n = late \/ \E q \in Reporter : n = report'[q])
      BY DEF Messages
    <3>2. n = late \/ n = m \/ \E q \in Reporter : n = report[q]
      BY <1>4, <3>1
    <3> QED
      BY <3>1, <3>2 DEF Messages
  <2> QED
    BY <1>1, <1>12, <2>1, <2>2 DEF Acknowledges
<1>15. Covers'
  <2>1. \A n, q : Cov(q, n) => Cov(q, n)'
    BY <1>9, <1>10 DEF Cov
  <2>2. ASSUME NEW q \in Reporter, NEW n, n = report'[q], n # None PROVE Cov(q, n)
    BY <1>1, <1>4, <1>13, <2>2 DEF Covers
  <2> QED
    BY <2>1, <2>2 DEF Covers
<1>16. Reportable' /\ Waits' /\ DeletedGrantCounted'
  BY <1>1, <1>9 DEF Reportable, Waits, DeletedGrantCounted
<1> QED
  BY <1>5, <1>7, <1>8, <1>14, <1>15, <1>16 DEF IInv

\* A configuration comes into force: what leaves it stays reportable through the
\* configuration Xray runs with, or may be dropped.  The report before it has
\* ended; the configurations it covered are no longer pending.
LEMMA Applies ==
  ASSUME IInv, NEW c \in Config, c # NoConfig, apply(c),
         Newer(live, c), config # NoConfig => Newer(c, config), config = NoConfig => c = live,
         \A g \in DOMAIN retired \cap Grant : c.rev >= retired[g].rev => g \notin c.grants,
         UNCHANGED <<live, retired, status, best, instance, counter, ready, xray>>,
         fetched' = NoConfig, report' = [report EXCEPT !["control"] = None],
         late' = late \/ late' = report["control"],
         pending' \subseteq pending,
         \A d \in pending \ pending' : \A p \in Pair : Owed(p) /\ p[1] \in d.grants => counted(p)
  PROVE  IInv'
<1>1. TypeOK /\ Order /\ Deleted /\ Reportable /\ Acknowledges /\ Covers /\ Waits /\ DeletedGrantCounted
  BY DEF IInv
<1>2. /\ config' = c
      /\ unreported' = IF xray = "running" THEN unreported ELSE unreported \cup (config.grants \ c.grants)
      /\ \/ stats' = stats /\ applied' = applied
         \/ ready /\ xrayPayload(stats) = xrayPayload(c) /\ stats' = c /\ applied' = c.rev
  BY DEF apply
<1>3. /\ report'["control"] = None /\ report'["xray"] = report["xray"]
      /\ report' \in [Reporter -> Report \cup {None}] /\ late' \in Report \cup {None}
  BY <1>1 DEF TypeOK, Reporter
<1>4. unreported \subseteq unreported' /\ unreported' \subseteq Grant
  BY <1>1, <1>2 DEF TypeOK, Config
<1>5. TypeOK'
  <2>1. pending' \in SUBSET Config /\ NoConfig \in Config
    BY <1>1 DEF TypeOK, NoConfig, Config
  <2>2. stats' \in Config /\ applied' \in Nat
    BY <1>1, <1>2 DEF TypeOK, Config
  <2> QED
    BY <1>1, <1>2, <1>3, <1>4, <2>1, <2>2 DEF TypeOK
<1>6. config.grants # {} => c.grants \subseteq config.grants
  BY DEF Newer, NoConfig
<1>7. config.rev <= c.rev /\ config.rev \in Nat /\ c.rev \in Nat
  BY <1>1 DEF Newer, NoConfig, TypeOK, Config
<1>8. Order'
  <2>1. xray # "down" => config # NoConfig
    BY <1>1 DEF Order
  <2>2. xray = "down" => stats' = NoConfig
    BY <1>1, <1>2 DEF Order
  <2> QED
    BY <1>1, <1>2, <1>3, <1>7, <2>1, <2>2 DEF Order, Newer, TypeOK, Config
<1>9. Deleted'
  <2>1. \A g : g \notin NoConfig.grants
    BY DEF NoConfig
  <2> QED
    BY <1>1, <1>2, <2>1 DEF Deleted
<1>10. \A p \in Pair : counted(p)' <=> counted(p)
  BY DEF counted
<1>11. \A m, p : carries(m, p)' <=> carries(m, p)
  BY DEF carries, counted
<1>12. ASSUME NEW p \in Pair, config = NoConfig PROVE counted(p)
  <2>1. counter[p] = 0 /\ best[instance][p] \in Nat
    BY <1>1, <1>12 DEF Order, NoBytes, TypeOK
  <2> QED
    BY <2>1 DEF counted
<1>13. ASSUME NEW p \in Pair, Owed(p)'
       PROVE  Owed(p) \/ (p[1] \in config.grants \ c.grants /\ xray = "running" /\ p[1] \in stats.grants)
  <2>1. CASE p[1] \notin config.grants
    BY <1>2, <1>4, <1>13, <2>1 DEF Owed
  <2>2. CASE p[1] \in config.grants
    <3>1. p[1] \notin c.grants /\ xray = "running"
      BY <1>2, <1>13, <2>2 DEF Owed
    <3> QED
      BY <1>1, <2>2, <3>1 DEF Order, Newer
  <2> QED
    BY <2>1, <2>2
<1>14. ASSUME NEW g \in stats.grants, g \notin c.grants PROVE stats' = stats
  BY <1>2, <1>14 DEF xrayPayload
<1>15. Reportable'
  <2>1. ASSUME NEW p \in Pair, Owed(p)', ~counted(p)
        PROVE  p[1] \in stats'.grants \/ \E d \in pending' : p[1] \in d.grants
    <3>0. p[1] \notin c.grants
      BY <1>2, <2>1 DEF Owed
    <3>1. CASE p[1] \in stats.grants
      BY <1>14, <3>0, <3>1
    <3>2. CASE p[1] \notin stats.grants
      <4>1. Owed(p)
        BY <1>13, <2>1, <3>2
      <4>2. PICK d \in pending : p[1] \in d.grants
        BY <1>1, <2>1, <3>2, <4>1 DEF Reportable
      <4> QED
        BY <2>1, <4>1, <4>2
    <3> QED
      BY <3>1, <3>2
  <2> QED
    BY <1>10, <2>1 DEF Reportable
<1>16. Acknowledges'
  <2>1. ASSUME NEW m \in Messages PROVE Ack(m)'
    <3>1. Ack(m) /\ m.applied \in Nat
      BY <1>1 DEF Acknowledges, Messages, TypeOK, Report
    <3>2. m.applied <= c.rev
      <4>1. CASE config # NoConfig
        BY <1>7, <3>1, <4>1 DEF Ack
      <4>2. CASE config = NoConfig
        BY <3>1, <4>2 DEF Ack
      <4> QED
        BY <4>1, <4>2
    <3>3. ASSUME NEW p \in Pair, Owed(p)', p[1] \in DOMAIN retired, m.applied >= retired[p[1]].rev
          PROVE  carries(m, p)'
      <4>1. CASE Owed(p)
        BY <1>11, <3>1, <3>3, <4>1 DEF Ack
      <4>2. CASE ~Owed(p)
        <5>1. p[1] \in config.grants /\ p[1] \in Grant
          BY <1>1, <1>13, <3>3, <4>2 DEF TypeOK, Config
        <5>2. m.applied <= config.rev /\ config.rev \in Nat /\ retired[p[1]].rev \in Nat
          BY <1>1, <3>1, <3>3, <5>1 DEF Ack, NoConfig, TypeOK, Config, Retired
        <5> QED
          BY <1>1, <3>1, <3>3, <5>1, <5>2 DEF Deleted
      <4> QED
        BY <4>1, <4>2
    <3> QED
      BY <1>2, <3>1, <3>2, <3>3 DEF Ack
  <2>2. Messages' \subseteq Messages
    <3>1. ASSUME NEW m \in Messages' PROVE m # None /\ (m = late \/ \E q \in Reporter : m = report[q])
      BY <1>3 DEF Messages, Reporter
    <3> QED
      BY <3>1 DEF Messages
  <2> QED
    BY <2>1, <2>2 DEF Acknowledges
<1>17. Covers'
  <2>1. ASSUME NEW m, m = report'["xray"], m # None PROVE Cov("xray", m)'
    <3>1. xray = "reloading" /\ m = report["xray"] /\ Cov("xray", m)
      BY <1>1, <1>3, <2>1 DEF Order, Covers, Reporter
    <3>2. ASSUME NEW p \in Pair, Owed(p)',
                 (\E d \in m.pending : p[1] \in d.grants) \/ p[1] \in stats'.grants
          PROVE  carries(m, p)' /\ (m.answer = "ok" => counted(p)')
      <4>1. Owed(p) /\ p[1] \notin c.grants
        BY <1>2, <1>13, <3>1, <3>2 DEF Owed
      <4>2. p[1] \in stats'.grants => p[1] \in stats.grants
        BY <1>2, <4>1
      <4> QED
        BY <1>10, <1>11, <3>1, <3>2, <4>1, <4>2 DEF Cov
    <3> QED
      BY <3>1, <3>2 DEF Cov
  <2>2. ASSUME NEW q \in Reporter, NEW m, m = report'[q], m # None PROVE Cov(q, m)'
    BY <1>3, <2>1, <2>2 DEF Reporter
  <2> QED
    BY <2>2 DEF Covers
<1>18. Waits'
  <2>1. ASSUME NEW g \in c.grants PROVE g \in live.grants \cup DOMAIN retired \cup unreported'
    <3>1. CASE config # NoConfig
      BY <1>1, <1>4, <3>1 DEF Waits, Newer
    <3>2. CASE config = NoConfig
      BY <2>1, <3>2
    <3> QED
      BY <3>1, <3>2
  <2>2. ASSUME NEW g \in DOMAIN retired \cap Grant, retired[g].expired
        PROVE  g \in unreported' \/ (g \notin c.grants /\ \A l \in Link : counted(<<g, l>>)')
    <3>1. g \in unreported \/ (g \notin config.grants /\ \A l \in Link : counted(<<g, l>>))
      BY <1>1, <2>2 DEF Waits
    <3>2. \A l \in Link : counted(<<g, l>>)' <=> counted(<<g, l>>)
      BY DEF counted
    <3>3. g \notin config.grants => g \notin c.grants
      BY <1>1 DEF Newer, Deleted
    <3> QED
      BY <1>4, <3>1, <3>2, <3>3
  <2> QED
    BY <1>2, <2>1, <2>2 DEF Waits
<1>19. DeletedGrantCounted'
  BY <1>1, <1>4, <1>10 DEF DeletedGrantCounted
<1> QED
  BY <1>5, <1>8, <1>9, <1>15, <1>16, <1>17, <1>18, <1>19 DEF IInv

\* A report is due.
LEMMA StepReportStarts ==
  ASSUME IInv, reportStarts
  PROVE  IInv'
<1>1. /\ config # NoConfig /\ report' = [report EXCEPT !["control"] = snapshot] /\ "control" \in Reporter
      /\ "control" # "xray"
      /\ UNCHANGED <<live, retired, status, best, late, instance, counter, config, stats, pending,
                     ready, applied, unreported, fetched, xray>>
  BY DEF reportStarts, controller, gateway, Reporter
<1> QED
  BY <1>1, TakesReport

\* Xray is to be reloaded.
LEMMA StepReloadStarts ==
  ASSUME IInv, reloadStarts
  PROVE  IInv'
<1>1. /\ report' = [report EXCEPT !["xray"] = snapshot] /\ "xray" \in Reporter
      /\ xray = "running" /\ xray' = "reloading"
      /\ UNCHANGED <<live, retired, status, best, late, instance, counter, config, stats, pending,
                     ready, applied, unreported, fetched>>
  BY DEF reloadStarts, controller, Reporter
<1>2. config # NoConfig
  BY <1>1 DEF IInv, Order
<1> QED
  BY <1>1, <1>2, TakesReport

\* A new configuration is fetched.
LEMMA StepRefresh ==
  ASSUME IInv, refresh
  PROVE  IInv'
<1>1. TypeOK /\ Order /\ Deleted
  BY DEF IInv
<1>2. /\ report["control"] = None
      /\ UNCHANGED <<live, retired, status, best, late, instance, counter, pending, ready, xray>>
  BY DEF refresh, controller
<1>3. CASE config # NoConfig /\ xrayPayload(config) # xrayPayload(live) /\ ready
  <2>1. /\ report' = [report EXCEPT !["control"] = snapshot] /\ "control" \in Reporter /\ "control" # "xray"
        /\ fetched' = live /\ UNCHANGED <<config, stats, applied, unreported>>
    BY <1>3 DEF refresh, Reporter
  <2> QED
    BY <1>2, <1>3, <2>1, TakesReport
<1>4. CASE ~(config # NoConfig /\ xrayPayload(config) # xrayPayload(live) /\ ready)
  <2>1. apply(live) /\ UNCHANGED <<fetched, report>>
    BY <1>4 DEF refresh
  <2>2. PICK c : c = live
    OBVIOUS
  <2>3. c \in Config /\ c # NoConfig /\ Newer(live, c) /\ (config # NoConfig => Newer(c, config))
    BY <1>1, <2>2 DEF TypeOK, Order, Newer, NoConfig, Config
  <2>4. \A g \in DOMAIN retired \cap Grant : c.rev >= retired[g].rev => g \notin c.grants
    BY <1>1, <2>2 DEF Deleted
  <2>5. fetched' = NoConfig
    BY <1>1, <1>2, <2>1 DEF Order
  <2>6. report' = [report EXCEPT !["control"] = None]
    BY <1>1, <1>2, <2>1 DEF TypeOK, Reporter
  <2>7. apply(c)
    BY <2>1, <2>2 DEF apply
  <2> QED
    BY <1>2, <2>1, <2>2, <2>3, <2>4, <2>5, <2>6, <2>7, Applies
<1> QED
  BY <1>3, <1>4

\* A report covers what it removes from pendingStats.
LEMMA CoveredFacts ==
  ASSUME IInv, NEW r \in Reporter, report[r] # None
  PROVE  /\ covered(report[r]) \subseteq pending
         /\ \A d \in pending \ covered(report[r]) : \A p \in Pair : Owed(p) /\ p[1] \in d.grants => counted(p)
<1>1. Cov(r, report[r])
  BY DEF IInv, Covers
<1> QED
  BY <1>1 DEF Cov, covered

\* A report ends, and a configuration that waited for it comes into force.
LEMMA StepReportEnds ==
  ASSUME IInv, reportEnds
  PROVE  IInv'
<1>1. TypeOK /\ Order /\ Deleted /\ Reportable /\ Acknowledges /\ Covers /\ Waits /\ DeletedGrantCounted
  BY DEF IInv
<1>2. /\ report["control"] # None
      /\ UNCHANGED <<live, retired, status, best, instance, counter, ready, xray>>
      /\ report' = [report EXCEPT !["control"] = None] /\ fetched' = NoConfig
      /\ late' = late \/ late' = report["control"]
      /\ pending' = pending \/ pending' = covered(report["control"])
  BY DEF reportEnds, answered, givesUp, controller
<1>3. /\ pending' \subseteq pending
      /\ \A d \in pending \ pending' : \A p \in Pair : Owed(p) /\ p[1] \in d.grants => counted(p)
  <2>1. "control" \in Reporter
    BY DEF Reporter
  <2>2. /\ covered(report["control"]) \subseteq pending
        /\ \A d \in pending \ covered(report["control"]) : \A p \in Pair : Owed(p) /\ p[1] \in d.grants => counted(p)
    BY <1>2, <2>1, CoveredFacts
  <2> QED
    BY <1>2, <2>2
<1>4. CASE fetched # NoConfig
  <2>1. PICK c : c = fetched
    OBVIOUS
  <2>2. apply(c)
    BY <1>4, <2>1 DEF reportEnds, apply
  <2>3. c \in Config /\ c # NoConfig /\ Newer(live, c) /\ Newer(c, config) /\ config # NoConfig
    BY <1>1, <1>4, <2>1 DEF TypeOK, Order
  <2>4. \A g \in DOMAIN retired \cap Grant : c.rev >= retired[g].rev => g \notin c.grants
    BY <1>1, <2>1 DEF Deleted
  <2> QED
    BY <1>2, <1>3, <2>2, <2>3, <2>4, Applies
<1>5. CASE fetched = NoConfig
  <2>1. UNCHANGED <<config, stats, applied, unreported, fetched>>
    BY <1>2, <1>5 DEF reportEnds
  <2>2. /\ report'["control"] = None /\ report'["xray"] = report["xray"]
        /\ report' \in [Reporter -> Report \cup {None}] /\ late' \in Report \cup {None}
    BY <1>1, <1>2 DEF TypeOK, Reporter
  <2>3. TypeOK'
    BY <1>1, <1>2, <1>3, <2>1, <2>2 DEF TypeOK
  <2>4. Order' /\ Deleted'
    BY <1>1, <1>2, <2>1, <2>2 DEF Order, Newer, Deleted
  <2>5. \A p : (Owed(p)' <=> Owed(p)) /\ (counted(p)' <=> counted(p))
    BY <1>2, <2>1 DEF Owed, counted
  <2>6. \A m, p : carries(m, p)' <=> carries(m, p)
    BY <1>2, <2>5 DEF carries
  <2>7. Reportable'
    <3>1. ASSUME NEW p \in Pair, Owed(p), ~counted(p), p[1] \notin stats.grants
          PROVE  \E d \in pending' : p[1] \in d.grants
      BY <1>1, <1>3, <3>1 DEF Reportable
    <3> QED
      BY <2>1, <2>5, <3>1 DEF Reportable
  <2>8. Acknowledges'
    <3>1. ASSUME NEW m \in Messages' PROVE m \in Messages
      <4>1. m # None /\ (m = late \/ \E q \in Reporter : m = report[q])
        BY <1>2, <2>2 DEF Messages, Reporter
      <4> QED
        BY <4>1 DEF Messages
    <3>2. \A m : Ack(m) => Ack(m)'
      BY <1>2, <2>1, <2>5, <2>6 DEF Ack
    <3> QED
      BY <1>1, <3>1, <3>2 DEF Acknowledges
  <2>9. Covers'
    <3>1. \A m, q : Cov(q, m) => Cov(q, m)'
      BY <1>2, <2>1, <2>5, <2>6 DEF Cov
    <3>2. ASSUME NEW q \in Reporter, NEW m, m = report'[q], m # None PROVE Cov(q, m)
      BY <1>1, <2>2, <3>2 DEF Covers, Reporter
    <3> QED
      BY <3>1, <3>2 DEF Covers
  <2>10. Waits' /\ DeletedGrantCounted'
    BY <1>1, <1>2, <2>1, <2>5 DEF Waits, DeletedGrantCounted
  <2> QED
    BY <2>3, <2>4, <2>7, <2>8, <2>9, <2>10 DEF IInv
<1> QED
  BY <1>4, <1>5

\* Xray is started with the configuration in force.
LEMMA StepXrayStarts ==
  ASSUME IInv, xrayStarts
  PROVE  IInv'
<1>1. TypeOK /\ Order /\ Deleted /\ Reportable /\ Acknowledges /\ Covers /\ Waits /\ DeletedGrantCounted
  BY DEF IInv
<1>2. /\ UNCHANGED <<live, retired, status, best, report, late, instance, counter, config, pending, fetched,
                     unreported>>
      /\ xray = "down" /\ config # NoConfig /\ xray' = "running" /\ stats' = config
      /\ applied' = config.rev /\ ready' = TRUE
  BY DEF xrayStarts, controller
<1>3. stats = NoConfig /\ report["xray"] = None
  BY <1>1, <1>2 DEF Order
<1>4. TypeOK'
  BY <1>1, <1>2 DEF TypeOK, Config
<1>5. Order'
  BY <1>1, <1>2, <1>3 DEF Order, Newer, TypeOK, Config
<1>6. Deleted'
  BY <1>1, <1>2 DEF Deleted
<1>7. \A p : (Owed(p)' <=> Owed(p)) /\ (counted(p)' <=> counted(p))
  BY <1>2 DEF Owed, counted
<1>8. \A m, p : carries(m, p)' <=> carries(m, p)
  BY <1>2, <1>7 DEF carries
<1>9. Reportable'
  BY <1>1, <1>2, <1>3, <1>7 DEF Reportable, NoConfig
<1>10. Acknowledges'
  <2>1. Messages' = Messages /\ \A m \in Messages : Ack(m) => Ack(m)'
    BY <1>2, <1>7, <1>8 DEF Messages, Ack
  <2> QED
    BY <1>1, <2>1 DEF Acknowledges
<1>11. Covers'
  <2>1. \A m, q : q # "xray" /\ Cov(q, m) => Cov(q, m)'
    BY <1>2, <1>7, <1>8 DEF Cov
  <2> QED
    BY <1>1, <1>2, <1>3, <2>1 DEF Covers
<1>12. Waits' /\ DeletedGrantCounted'
  BY <1>1, <1>2, <1>7 DEF Waits, DeletedGrantCounted
<1> QED
  BY <1>4, <1>5, <1>6, <1>9, <1>10, <1>11, <1>12 DEF IInv

\* Xray has stopped: what only it could name has been reported, stays pending or
\* may be dropped.
LEMMA XrayStops ==
  ASSUME IInv,
         UNCHANGED <<live, retired, status, best, instance, counter, config, fetched, applied>>,
         xray' = "down", ready' = FALSE, stats' = NoConfig,
         report' = [report EXCEPT !["xray"] = None],
         late' = late \/ late' = report["xray"],
         pending' \in SUBSET Config, unreported' \in SUBSET Grant, unreported \subseteq unreported',
         \A p \in Pair : Owed(p)' => counted(p) \/ \E d \in pending' : p[1] \in d.grants
  PROVE  IInv'
<1>1. TypeOK /\ Order /\ Deleted /\ Reportable /\ Acknowledges /\ Covers /\ Waits /\ DeletedGrantCounted
  BY DEF IInv
<1>2. /\ report'["control"] = report["control"] /\ report'["xray"] = None
      /\ report' \in [Reporter -> Report \cup {None}] /\ late' \in Report \cup {None}
  BY <1>1 DEF TypeOK, Reporter
<1>3. NoConfig \in Config /\ \A g : g \notin NoConfig.grants
  BY DEF NoConfig, Config
<1>4. TypeOK'
  BY <1>1, <1>2, <1>3 DEF TypeOK
<1>5. Order'
  BY <1>1, <1>2 DEF Order, Newer
<1>6. Deleted'
  BY <1>1 DEF Deleted
<1>7. \A p \in Pair : (Owed(p)' => Owed(p)) /\ (counted(p)' <=> counted(p))
  BY DEF Owed, counted
<1>8. \A m, p : carries(m, p)' <=> carries(m, p)
  BY DEF carries, counted
<1>9. Reportable'
  BY <1>7 DEF Reportable
<1>10. Acknowledges'
  <2>1. ASSUME NEW m \in Messages' PROVE m \in Messages
    <3>1. m # None /\ (m = late \/ \E q \in Reporter : m = report[q])
      BY <1>2 DEF Messages, Reporter
    <3> QED
      BY <3>1 DEF Messages
  <2>2. \A m : Ack(m) => Ack(m)'
    BY <1>7, <1>8 DEF Ack
  <2> QED
    BY <1>1, <2>1, <2>2 DEF Acknowledges
<1>11. Covers'
  <2>1. \A m, q : q # "xray" /\ Cov(q, m) => Cov(q, m)'
    BY <1>7, <1>8 DEF Cov
  <2>2. ASSUME NEW q \in Reporter, NEW m, m = report'[q], m # None PROVE q # "xray" /\ Cov(q, m)
    BY <1>1, <1>2, <2>2 DEF Covers, Reporter
  <2> QED
    BY <2>1, <2>2 DEF Covers
<1>12. Waits'
  <2>1. \A g \in Grant, l \in Link : <<g, l>> \in Pair
    BY DEF Pair
  <2> QED
    BY <1>1, <1>7, <2>1 DEF Waits
<1>13. DeletedGrantCounted'
  BY <1>1, <1>7 DEF DeletedGrantCounted
<1> QED
  BY <1>4, <1>5, <1>6, <1>9, <1>10, <1>11, <1>12, <1>13 DEF IInv

\* The report before a reload has ended, and Xray is stopped.
LEMMA StepReloadEnds ==
  ASSUME IInv, reloadEnds
  PROVE  IInv'
<1>1. TypeOK /\ Reportable /\ Covers
  BY DEF IInv
<1>2. PICK m : m = report["xray"]
  OBVIOUS
<1>3. /\ UNCHANGED <<live, retired, status, best, instance, counter, config, fetched, applied, unreported>>
      /\ xray' = "down" /\ ready' = FALSE /\ stats' = NoConfig
      /\ report' = [report EXCEPT !["xray"] = None] /\ m # None
      /\ late' = late \/ late' = m
      /\ \/ m.answer = "ok" /\ pending' = pending \ m.pending
         \/ pending' = pending \cup {stats}
  BY <1>2 DEF reloadEnds, answered, givesUp, afterReload, covered, controller
<1>4. Cov("xray", m)
  BY <1>1, <1>2, <1>3 DEF Covers, Reporter
<1>5. ASSUME NEW p \in Pair, Owed(p)' PROVE counted(p) \/ \E d \in pending' : p[1] \in d.grants
  <2>1. Owed(p)
    BY <1>3, <1>5 DEF Owed
  <2>2. counted(p) \/ p[1] \in stats.grants \/ \E c \in pending : p[1] \in c.grants
    BY <1>1, <2>1 DEF Reportable
  <2>3. CASE pending' = pending \cup {stats}
    BY <2>2, <2>3
  <2>4. CASE m.answer = "ok" /\ pending' = pending \ m.pending
    <3>1. (\E c \in m.pending : p[1] \in c.grants) \/ p[1] \in stats.grants => counted(p)
      BY <1>4, <2>1, <2>4 DEF Cov
    <3> QED
      BY <2>2, <2>4, <3>1
  <2> QED
    BY <1>3, <2>3, <2>4
<1>6. pending' \in SUBSET Config /\ unreported' \in SUBSET Grant
  BY <1>1, <1>3 DEF TypeOK
<1> QED
  BY <1>2, <1>3, <1>5, <1>6, XrayStops

\* Xray exits by itself.
LEMMA StepXrayExits ==
  ASSUME IInv, xrayExits
  PROVE  IInv'
<1>1. TypeOK /\ Order /\ Reportable
  BY DEF IInv
<1>2. /\ UNCHANGED <<live, retired, status, best, instance, counter, config, pending, fetched, applied, report, late>>
      /\ xray = "running" /\ xray' = "down" /\ ready' = FALSE /\ stats' = NoConfig
      /\ unreported' = unreported \cup (stats.grants \ config.grants)
  BY DEF xrayExits, controller
<1>3. report' = [report EXCEPT !["xray"] = None]
  BY <1>1, <1>2 DEF Order, TypeOK, Reporter
<1>4. ASSUME NEW p \in Pair, Owed(p)' PROVE counted(p) \/ \E d \in pending' : p[1] \in d.grants
  <2>1. Owed(p) /\ p[1] \notin stats.grants
    BY <1>2, <1>4 DEF Owed
  <2> QED
    BY <1>1, <1>2, <2>1 DEF Reportable
<1>5. pending' \in SUBSET Config /\ unreported' \in SUBSET Grant
  BY <1>1, <1>2 DEF TypeOK, Config
<1> QED
  BY <1>2, <1>3, <1>4, <1>5, XrayStops

\* pendingStatsLifetime ends for a configuration.
LEMMA StepPendingExpires ==
  ASSUME IInv, pendingExpires
  PROVE  IInv'
<1>1. TypeOK /\ Order /\ Deleted /\ Reportable /\ Acknowledges /\ Covers /\ Waits /\ DeletedGrantCounted
  BY DEF IInv
<1>2. PICK c \in pending : pending' = pending \ {c} /\ unreported' = unreported \cup c.grants
  BY DEF pendingExpires
<1>3. UNCHANGED <<live, retired, status, best, report, late, instance, counter, config, stats, fetched,
                  ready, applied, xray>>
  BY DEF pendingExpires, controller
<1>4. TypeOK'
  BY <1>1, <1>2, <1>3 DEF TypeOK, Config
<1>5. Order' /\ Deleted'
  BY <1>1, <1>3 DEF Order, Newer, Deleted
<1>6. \A p \in Pair : (Owed(p)' => Owed(p) /\ p[1] \notin c.grants) /\ (counted(p)' <=> counted(p))
  BY <1>2, <1>3 DEF Owed, counted
<1>7. \A m, p : carries(m, p)' <=> carries(m, p)
  BY <1>3 DEF carries, counted
<1>8. Reportable'
  BY <1>1, <1>2, <1>3, <1>6 DEF Reportable
<1>9. Acknowledges'
  <2>1. Messages' = Messages /\ \A m \in Messages : Ack(m) => Ack(m)'
    BY <1>3, <1>6, <1>7 DEF Messages, Ack
  <2> QED
    BY <1>1, <2>1 DEF Acknowledges
<1>10. Covers'
  <2>1. \A m, q : Cov(q, m) => Cov(q, m)'
    BY <1>3, <1>6, <1>7 DEF Cov
  <2> QED
    BY <1>1, <1>3, <2>1 DEF Covers
<1>11. Waits'
  <2>1. \A g \in Grant, l \in Link : <<g, l>> \in Pair
    BY DEF Pair
  <2> QED
    BY <1>1, <1>2, <1>3, <1>6, <2>1 DEF Waits
<1>12. DeletedGrantCounted'
  BY <1>1, <1>2, <1>3, <1>6 DEF DeletedGrantCounted
<1> QED
  BY <1>4, <1>5, <1>8, <1>9, <1>10, <1>11, <1>12 DEF IInv

\* A new process: nothing of its traffic is owed, and an older report
\* acknowledges only what the new process never learns of.
LEMMA StepRestarts ==
  ASSUME IInv, restarts
  PROVE  IInv'
<1>1. TypeOK /\ Order /\ Deleted /\ Acknowledges /\ Waits
  BY DEF IInv
<1>2. /\ UNCHANGED <<live, retired, status, best>>
      /\ instance < MaxInstances /\ instance' = instance + 1 /\ counter' = NoBytes
      /\ config' = NoConfig /\ stats' = NoConfig /\ pending' = {} /\ fetched' = NoConfig
      /\ ready' = FALSE /\ applied' = 0 /\ xray' = "down" /\ unreported' = {}
      /\ report' = [r \in Reporter |-> None]
      /\ late' = late \/ \E r \in Reporter : late' = report[r]
  BY DEF restarts, controller
<1>3. NoConfig \in Config /\ NoConfig.grants = {} /\ NoConfig.rev = 0
  BY DEF NoConfig, Config
<1>4. TypeOK'
  <2>1. counter' \in [Pair -> Nat] /\ instance' \in Instance
    BY <1>1, <1>2, BoundAssumption DEF TypeOK, NoBytes, Instance
  <2>2. late' \in Report \cup {None} /\ report' \in [Reporter -> Report \cup {None}]
    BY <1>1, <1>2 DEF TypeOK
  <2> QED
    BY <1>1, <1>2, <1>3, <2>1, <2>2 DEF TypeOK
<1>5. Order'
  BY <1>1, <1>2, <1>3 DEF Order, Reporter
<1>6. Deleted'
  BY <1>1, <1>2, <1>3 DEF Deleted
<1>7. \A p \in Pair : counted(p)'
  BY <1>2, <1>4 DEF TypeOK, counted, NoBytes
<1>8. Reportable' /\ DeletedGrantCounted'
  BY <1>7 DEF Reportable, DeletedGrantCounted
<1>9. Covers'
  BY <1>2 DEF Covers
<1>10. Waits'
  <2>1. \A g \in Grant, l \in Link : <<g, l>> \in Pair
    BY DEF Pair
  <2> QED
    BY <1>2, <1>3, <1>7, <2>1 DEF Waits
<1>11. Acknowledges'
  <2>1. ASSUME NEW m \in Messages' PROVE Ack(m)'
    <3>1. m # None /\ (m = late \/ \E q \in Reporter : m = report[q])
      BY <1>2 DEF Messages
    <3>2. m \in Messages
      BY <3>1 DEF Messages
    <3>3. Ack(m)
      BY <1>1, <3>2 DEF Acknowledges
    <3> QED
      BY <1>2, <1>7, <3>3 DEF Ack, carries
  <2> QED
    BY <2>1 DEF Acknowledges
<1> QED
  BY <1>4, <1>5, <1>6, <1>8, <1>9, <1>10, <1>11 DEF IInv

-----------------------------------------------------------------------------
\* The invariant holds at the start and is preserved by every step.
LEMMA InvInit ==
  ASSUME Init
  PROVE  IInv
<1>1. NoConfig \in Config /\ NoConfig.grants = {} /\ NoConfig.rev = 0
  BY DEF NoConfig, Config
<1>2. TypeOK
  <2>1. live \in Config
    BY DEF Init, Config
  <2>2. retired \in [DOMAIN retired -> Retired] /\ DOMAIN retired = {}
    BY DEF Init
  <2>3. instance \in Instance /\ counter \in [Pair -> Nat] /\ best \in [Instance -> [Pair -> Nat]]
    BY BoundAssumption DEF Init, NoBytes, Instance
  <2> QED
    BY <1>1, <2>1, <2>2, <2>3 DEF Init, TypeOK
<1>3. Order
  BY <1>1 DEF Init, Order, Reporter
<1>4. Deleted
  BY <1>1 DEF Init, Deleted
<1>5. \A p \in Pair : counted(p)
  BY <1>2 DEF Init, counted, NoBytes, TypeOK
<1>6. Acknowledges /\ Covers
  BY DEF Init, Acknowledges, Messages, Covers
<1>7. Waits
  BY <1>1 DEF Init, Waits
<1> QED
  BY <1>2, <1>3, <1>4, <1>5, <1>6, <1>7 DEF IInv, Reportable, DeletedGrantCounted

\* Every step of the Gateway, the Controller or the network keeps the invariant.
LEMMA InvNext ==
  ASSUME IInv, [Next]_vars
  PROVE  IInv'
<1>1. CASE UNCHANGED vars
  <2>1. UNCHANGED <<live, retired, status, best, report, late>> /\ UNCHANGED gateway
    BY <1>1 DEF vars, gateway
  <2>2. Prunes
    BY <2>1 DEF IInv, TypeOK, Deleted, Prunes
  <2>3. /\ TypeOK' /\ Order' /\ Deleted' /\ Reportable' /\ Waits' /\ DeletedGrantCounted'
        /\ \A n : Ack(n) => Ack(n)'
        /\ \A n, q : Cov(q, n) => Cov(q, n)'
    BY <2>1, <2>2, PrunesKeeps DEF IInv, TypeOK
  <2>4. Acknowledges' /\ Covers'
    BY <2>1, <2>3 DEF IInv, Acknowledges, Covers, Messages
  <2> QED
    BY <2>3, <2>4 DEF IInv
<1>2. CASE \E g \in Grant : removeGrant(g) \/ expires(g)
  BY <1>2, StepRemoveGrant, StepExpires
<1>3. CASE \E l \in Link : removeLink(l) \/ expires(l) \/ agentReports(l)
  BY <1>3, StepRemoveLink, StepExpires, StepAgentReports
<1>4. CASE \E p \in Pair : traffic(p)
  BY <1>4, StepTraffic
<1>5. CASE refresh \/ reports
  BY <1>5, StepRefresh, StepReportStarts, StepReportEnds DEF reports
<1>6. CASE (\E r \in Reporter : handle(r)) \/ handleLate
  BY <1>6, StepHandle, StepHandleLate
<1>7. CASE xrayLoop \/ pendingExpires \/ xrayExits \/ restarts
  BY <1>7, StepXrayStarts, StepReloadStarts, StepReloadEnds, StepPendingExpires, StepXrayExits, StepRestarts DEF xrayLoop
<1> QED
  BY <1>1, <1>2, <1>3, <1>4, <1>5, <1>6, <1>7 DEF Next

\* A deleted Grant is forgotten only when its last traffic has been counted, for
\* any Grants and Links, processes and faults: pruneRetiredUsage waits for a
\* revision whose acknowledgement carries it.
THEOREM DeletedGrantTheorem == Spec => []DeletedGrantCounted
<1>1. Init => IInv
  BY InvInit
<1>2. IInv /\ [Next]_vars => IInv'
  BY InvNext
<1>3. IInv => DeletedGrantCounted
  BY DEF IInv
<1> QED
  BY <1>1, <1>2, <1>3, PTL DEF Spec

-----------------------------------------------------------------------------
\* Sums.

\* Induction over the natural numbers, from the well-foundedness of their order.
LEMMA SetInduction ==
  ASSUME NEW S, 0 \in S, \A n \in Nat : n \in S => n + 1 \in S
  PROVE  Nat \subseteq S
<1> DEFINE T == Nat \ S
<1>1. SUFFICES ASSUME T # {} PROVE FALSE
  OBVIOUS
<1>2. PICK x \in T : \A y \in T : <<y, x>> \notin OpToRel(<, Nat)
  BY <1>1, NatLessThanWellFounded, WFMin, ZenonT(30)
<1>3. \A y \in T : ~(y < x)
  BY <1>2 DEF OpToRel
<1>4. x # 0 /\ x - 1 \in Nat
  OBVIOUS
<1>5. x - 1 \in T
  BY <1>4
<1> QED
  BY <1>3, <1>5

\* u[n] is the sum of f over the first n processes, up to m.
Sums(u, f, m) ==
  /\ u \in [0 .. m -> Nat] /\ u[0] = 0
  /\ \A n \in 1 .. m : u[n] = u[n - 1] + f[n]

\* There are such sums.
LEMMA SumsExist ==
  ASSUME NEW f \in [Instance -> Nat]
  PROVE  \E u : Sums(u, f, MaxInstances)
<1> DEFINE S == {m \in Nat : m <= MaxInstances => \E u : Sums(u, f, m)}
<1>0. MaxInstances \in Nat \ {0}
  BY BoundAssumption
<1>1. 0 \in S
  <2>1. Sums([n \in 0 .. 0 |-> 0], f, 0)
    BY DEF Sums
  <2> QED
    BY <2>1
<1>2. ASSUME NEW m \in Nat, m \in S PROVE m + 1 \in S
  <2>1. SUFFICES ASSUME m + 1 <= MaxInstances PROVE \E u : Sums(u, f, m + 1)
    OBVIOUS
  <2>2. PICK u : Sums(u, f, m)
    BY <1>0, <1>2, <2>1
  <2> DEFINE v == [n \in 0 .. m + 1 |-> IF n = m + 1 THEN u[m] + f[m + 1] ELSE u[n]]
  <2>3. f[m + 1] \in Nat /\ u[m] \in Nat /\ u \in [0 .. m -> Nat]
    BY <1>0, <2>1, <2>2 DEF Instance, Sums
  <2>4. v \in [0 .. m + 1 -> Nat] /\ v[0] = 0
    BY <2>2, <2>3 DEF Sums
  <2>5. ASSUME NEW n \in 1 .. m + 1 PROVE v[n] = v[n - 1] + f[n]
    BY <2>2 DEF Sums
  <2>6. Sums(v, f, m + 1)
    BY <2>4, <2>5 DEF Sums
  <2> QED
    BY <2>6
<1>3. Nat \subseteq S
  <2> HIDE DEF S
  <2> QED
    BY <1>1, <1>2, SetInduction
<1> QED
  BY <1>0, <1>3

\* total is the sum it says.
LEMMA TotalFacts ==
  ASSUME NEW f \in [Instance -> Nat]
  PROVE  \E u : Sums(u, f, MaxInstances) /\ total(f) = u[MaxInstances]
<1> DEFINE Rec(w) == w = [n \in 0 .. MaxInstances |-> IF n = 0 THEN 0 ELSE w[n - 1] + f[n]]
           w == CHOOSE w : Rec(w)
<1>0. MaxInstances \in Nat \ {0}
  BY BoundAssumption
<1>1. PICK u : Sums(u, f, MaxInstances)
  BY SumsExist
<1>2. Rec(u)
  <2>1. \A n \in 0 .. MaxInstances : u[n] = IF n = 0 THEN 0 ELSE u[n - 1] + f[n]
    BY <1>0, <1>1 DEF Sums
  <2>2. u = [n \in 0 .. MaxInstances |-> u[n]]
    BY <1>1 DEF Sums
  <2> QED
    BY <2>1, <2>2
<1>3. Rec(w)
  BY <1>2
<1>4. total(f) = w[MaxInstances]
  BY DEF total
<1> DEFINE S == {n \in Nat : n <= MaxInstances => w[n] = u[n]}
<1> HIDE DEF w
<1>5. \A n \in 0 .. MaxInstances : w[n] = IF n = 0 THEN 0 ELSE w[n - 1] + f[n]
  BY <1>3
<1>6. 0 \in S
  BY <1>0, <1>1, <1>5 DEF Sums
<1>7. ASSUME NEW n \in Nat, n \in S PROVE n + 1 \in S
  <2>1. SUFFICES ASSUME n + 1 <= MaxInstances PROVE w[n + 1] = u[n + 1]
    OBVIOUS
  <2>2. n + 1 \in 0 .. MaxInstances /\ n + 1 \in 1 .. MaxInstances /\ n + 1 # 0 /\ (n + 1) - 1 = n /\ w[n] = u[n]
    BY <1>0, <1>7, <2>1
  <2>3. u[n + 1] = u[n] + f[n + 1]
    BY <1>1, <2>2 DEF Sums
  <2>4. w[n + 1] = w[n] + f[n + 1]
    BY <1>5, <2>2
  <2> QED
    BY <2>2, <2>3, <2>4
<1>8. Nat \subseteq S
  <2> HIDE DEF S
  <2> QED
    BY <1>6, <1>7, SetInduction
<1>9. w[MaxInstances] = u[MaxInstances]
  BY <1>0, <1>8
<1> QED
  BY <1>1, <1>4, <1>9

\* A sum changes by what one of its terms changes.
LEMMA TotalUpdate ==
  ASSUME NEW f \in [Instance -> Nat], NEW g \in [Instance -> Nat], NEW i \in Instance,
         \A j \in Instance : j # i => g[j] = f[j]
  PROVE  total(f) \in Nat /\ total(g) \in Nat /\ total(g) + f[i] = total(f) + g[i]
<1>0. MaxInstances \in Nat \ {0} /\ i \in Nat /\ i >= 1 /\ i <= MaxInstances /\ f[i] \in Nat /\ g[i] \in Nat
  BY BoundAssumption DEF Instance
<1>1. PICK u : Sums(u, f, MaxInstances) /\ total(f) = u[MaxInstances]
  BY TotalFacts
<1>2. PICK v : Sums(v, g, MaxInstances) /\ total(g) = v[MaxInstances]
  BY TotalFacts
<1> DEFINE S == {n \in Nat : n <= MaxInstances => IF n < i THEN v[n] = u[n] ELSE v[n] + f[i] = u[n] + g[i]}
<1>3. 0 \in S
  BY <1>0, <1>1, <1>2 DEF Sums
<1>4. ASSUME NEW n \in Nat, n \in S PROVE n + 1 \in S
  <2>1. SUFFICES ASSUME n + 1 <= MaxInstances
                 PROVE  IF n + 1 < i THEN v[n + 1] = u[n + 1] ELSE v[n + 1] + f[i] = u[n + 1] + g[i]
    OBVIOUS
  <2>2. n + 1 \in 1 .. MaxInstances /\ n \in 0 .. MaxInstances /\ n + 1 \in Instance /\ (n + 1) - 1 = n
    BY <1>0, <2>1 DEF Instance
  <2>3. /\ u[n + 1] = u[n] + f[n + 1] /\ v[n + 1] = v[n] + g[n + 1]
        /\ u[n] \in Nat /\ v[n] \in Nat
    BY <1>1, <1>2, <2>2 DEF Sums
  <2>4. f[n + 1] \in Nat /\ g[n + 1] \in Nat /\ (n + 1 # i => g[n + 1] = f[n + 1])
    BY <2>2
  <2>5. IF n < i THEN v[n] = u[n] ELSE v[n] + f[i] = u[n] + g[i]
    BY <1>0, <1>4, <2>1
  <2>6. CASE n + 1 = i
    BY <1>0, <2>3, <2>5, <2>6
  <2>7. CASE n + 1 # i
    BY <1>0, <2>3, <2>4, <2>5, <2>7
  <2> QED
    BY <2>6, <2>7
<1>5. Nat \subseteq S
  <2> HIDE DEF S
  <2> QED
    BY <1>3, <1>4, SetInduction
<1>6. v[MaxInstances] + f[i] = u[MaxInstances] + g[i]
  BY <1>0, <1>5
<1>7. v[MaxInstances] \in Nat /\ u[MaxInstances] \in Nat
  BY <1>0, <1>1, <1>2 DEF Sums
<1> QED
  BY <1>1, <1>2, <1>6, <1>7

\* The sum of zeros.
LEMMA TotalZero ==
  total([i \in Instance |-> 0]) = 0
<1>0. MaxInstances \in Nat \ {0}
  BY BoundAssumption
<1>1. PICK f : f = [i \in Instance |-> 0]
  OBVIOUS
<1>2. f \in [Instance -> Nat]
  BY <1>1
<1>3. PICK u : Sums(u, f, MaxInstances) /\ total(f) = u[MaxInstances]
  BY <1>2, TotalFacts
<1> DEFINE S == {n \in Nat : n <= MaxInstances => u[n] = 0}
<1>4. 0 \in S
  BY <1>3 DEF Sums
<1>5. ASSUME NEW n \in Nat, n \in S PROVE n + 1 \in S
  <2>1. SUFFICES ASSUME n + 1 <= MaxInstances PROVE u[n + 1] = 0
    OBVIOUS
  <2>2. n + 1 \in 1 .. MaxInstances /\ n + 1 \in Instance /\ (n + 1) - 1 = n /\ u[n] = 0
    BY <1>0, <1>5, <2>1 DEF Instance
  <2>3. f[n + 1] = 0
    BY <1>1, <2>2
  <2> QED
    BY <1>3, <2>2, <2>3 DEF Sums
<1>6. Nat \subseteq S
  <2> HIDE DEF S
  <2> QED
    BY <1>4, <1>5, SetInduction
<1> QED
  BY <1>0, <1>1, <1>3, <1>6

-----------------------------------------------------------------------------
\* What the reports have shown.

\* The Controller may accept a counter of the pair.
Known(p) == p[1] \in live.grants \cup DOMAIN retired /\ p[2] \in live.links \cup DOMAIN retired

\* A report names the Grant and the Link of every counter in it.
Named(m) == \A p \in DOMAIN m.bytes : m.bytes[p] > 0 /\ p[1] \in m.grants /\ p[2] \in m.links

\* The last sample of a pair is below the best value of its process, and equal to
\* it while reports come in order; a pair without a sample has not been reported,
\* or is forgotten for good.
Sampled ==
  /\ history \in [Pair -> Nat] /\ disordered \in BOOLEAN
  /\ DOMAIN counters \subseteq Pair
  /\ counters \in [DOMAIN counters -> [instance : Instance, bytes : Nat]]
  /\ \A p \in DOMAIN counters :
       /\ counters[p].bytes > 0
       /\ counters[p].bytes <= best[counters[p].instance][p]
       /\ ~disordered => /\ counters[p].bytes = best[counters[p].instance][p]
                         /\ \A j \in Instance : j > counters[p].instance => best[j][p] = 0
  /\ \A p \in Pair \ DOMAIN counters : Known(p) => \A j \in Instance : best[j][p] = 0

SInv == (\A m \in Messages : Named(m)) /\ Sampled /\ UsageCounted

\* The pairs that are pruned are not known any more.
LEMMA SampledPruned ==
  ASSUME NEW cs, NEW gone, gone \subseteq DOMAIN retired, IInv,
         DOMAIN cs \subseteq Pair, cs \in [DOMAIN cs -> [instance : Instance, bytes : Nat]],
         history' \in [Pair -> Nat], disordered' \in BOOLEAN, live' = live,
         DOMAIN retired' = DOMAIN retired \ gone,
         counters' = [p \in DOMAIN cs \ {q \in Pair : q[1] \in gone \/ q[2] \in gone} |-> cs[p]],
         \A p \in DOMAIN cs :
           /\ cs[p].bytes > 0
           /\ cs[p].bytes <= best'[cs[p].instance][p]
           /\ ~disordered' => /\ cs[p].bytes = best'[cs[p].instance][p]
                              /\ \A j \in Instance : j > cs[p].instance => best'[j][p] = 0,
         \A p \in Pair \ DOMAIN cs : Known(p) => \A j \in Instance : best'[j][p] = 0
  PROVE  Sampled'
<1>1. DOMAIN counters' = DOMAIN cs \ {q \in Pair : q[1] \in gone \/ q[2] \in gone}
      /\ \A p \in DOMAIN counters' : counters'[p] = cs[p]
  OBVIOUS
<1>2. counters' \in [DOMAIN counters' -> [instance : Instance, bytes : Nat]]
  OBVIOUS
<1>3. ASSUME NEW p \in Pair \ DOMAIN counters', Known(p)' PROVE \A j \in Instance : best'[j][p] = 0
  <2>1. \A x \in gone : x \notin live.grants \cup live.links \cup DOMAIN retired'
    BY DEF IInv, Deleted
  <2>2. p[1] \notin gone /\ p[2] \notin gone
    BY <1>3, <2>1 DEF Known
  <2>3. Known(p)
    BY <1>3 DEF Known
  <2> QED
    BY <1>1, <2>2, <2>3
<1> QED
  BY <1>1, <1>2, <1>3 DEF Sampled

\* An accepted report adds to the usage what it shows beyond earlier reports.
LEMMA SampledByReport ==
  ASSUME IInv, SInv, NEW m \in Messages, nodeStatus(m)
  PROVE  Sampled' /\ UsageCounted'
<1>1. TypeOK /\ Sampled /\ UsageCounted /\ Named(m)
  BY DEF IInv, SInv
<1>2. m \in Report
  BY <1>1 DEF Messages, TypeOK, Reporter
<1>3. CASE ~accepts(m)
  <2>1. UNCHANGED <<live, retired, counters, history, best, disordered>>
    BY <1>3 DEF nodeStatus, controller
  <2>2. Sampled'
    BY <1>1, <2>1 DEF Sampled, Known
  <2>3. UsageCounted'
    BY <1>1, <2>1 DEF UsageCounted, shown
  <2> QED
    BY <2>2, <2>3
<1>4. CASE accepts(m)
  <2> DEFINE i == m.instance
             D == DOMAIN m.bytes
             cs == [p \in DOMAIN counters \cup D |-> IF p \in D THEN [instance |-> i, bytes |-> m.bytes[p]] ELSE counters[p]]
             gone == {x \in DOMAIN retired : retired[x].expired \/ done(retired[x], status')}
  <2>1. /\ live' = live
        /\ history' = [p \in Pair |-> history[p] + IF p \in D THEN delta(p, m) ELSE 0]
        /\ disordered' = (disordered \/ \E p \in D : m.bytes[p] < best[i][p] \/ \E j \in Instance : j > i /\ best[j][p] > 0)
    BY <1>4 DEF nodeStatus
  <2>2. retired' = [x \in DOMAIN retired \ gone |-> retired[x]]
        /\ counters' = [p \in DOMAIN cs \ {q \in Pair : q[1] \in gone \/ q[2] \in gone} |-> cs[p]]
    BY <1>4 DEF nodeStatus, pruneRetiredUsage
  <2>3. best' = [best EXCEPT ![i] = [p \in Pair |-> IF p \in D THEN Max({@[p], m.bytes[p]}) ELSE @[p]]]
    BY <1>4 DEF nodeStatus
  <2>4. D \subseteq Pair /\ (\A p \in D : m.bytes[p] \in Nat /\ m.bytes[p] > 0) /\ i \in Instance
    BY <1>1, <1>2, ReportFacts DEF Report, Named
  <2>5. \A p \in D : Known(p)
    BY <1>1, <1>4 DEF Named, accepts, retiring, Known
  <2>6. \A j \in Instance, p \in Pair : best[j][p] \in Nat
    BY <1>1 DEF TypeOK
  <2>7. ASSUME NEW j \in Instance, NEW p \in Pair
        PROVE  best'[j][p] = IF j = i /\ p \in D /\ m.bytes[p] > best[j][p] THEN m.bytes[p] ELSE best[j][p]
    <3>1. best'[j][p] = IF j = i /\ p \in D THEN Max({best[j][p], m.bytes[p]}) ELSE best[j][p]
      BY <1>1, <2>3 DEF TypeOK
    <3>2. best[j][p] \in Nat /\ (p \in D => m.bytes[p] \in Nat)
      BY <2>4, <2>6
    <3> QED
      BY <3>1, <3>2, MaxFact
  <2>8. Instance \subseteq Int
    BY BoundAssumption DEF Instance
  <2> HIDE DEF i, D, cs, gone
  <2>9. ASSUME NEW p \in D
        PROVE  /\ delta(p, m) \in Nat
               /\ delta(p, m) + best[i][p] >= best'[i][p]
               /\ ~disordered' => delta(p, m) + best[i][p] = best'[i][p] /\ best'[i][p] = m.bytes[p]
                                  /\ \A j \in Instance : j > i => best[j][p] = 0
    <3> DEFINE b == m.bytes[p]
               x == best[i][p]
               y == best'[i][p]
    <3>1. p \in Pair /\ b \in Nat /\ b > 0 /\ x \in Nat /\ y = IF b > x THEN b ELSE x
      BY <2>4, <2>6, <2>7, <2>9
    <3>2. ~disordered' => ~disordered /\ b >= x /\ \A j \in Instance : j > i => best[j][p] = 0
      <4>1. ASSUME ~disordered'
            PROVE  ~disordered /\ ~(m.bytes[p] < best[i][p]) /\ \A j \in Instance : ~(j > i /\ best[j][p] > 0)
        BY <2>1, <2>9, <4>1, ZenonT(30)
      <4>2. \A j \in Instance : best[j][p] \in Nat
        BY <2>6, <3>1
      <4> QED
        BY <3>1, <4>1, <4>2
    <3>3. CASE p \notin DOMAIN counters
      <4>1. x = 0
        BY <1>1, <2>4, <2>5, <3>1, <3>3 DEF Sampled
      <4>2. delta(p, m) = b
        BY <3>3 DEF delta
      <4> QED
        BY <3>1, <3>2, <4>1, <4>2
    <3>4. CASE p \in DOMAIN counters /\ counters[p].instance # i
      <4>1. delta(p, m) = b
        BY <3>4 DEF delta, i
      <4>2. PICK k \in Instance : k = counters[p].instance
        BY <1>1, <3>4 DEF Sampled
      <4>3. counters[p].bytes \in Nat /\ counters[p].bytes > 0 /\ counters[p].bytes <= best[k][p]
            /\ best[k][p] \in Nat /\ (~disordered => \A j \in Instance : j > k => best[j][p] = 0)
        BY <1>1, <2>6, <3>1, <3>4, <4>2 DEF Sampled
      <4>4. ~disordered' => ~(k > i)
        BY <3>2, <4>3
      <4>5. ~disordered' => x = 0
        BY <2>4, <2>8, <3>2, <3>4, <4>2, <4>3, <4>4
      <4> QED
        BY <3>1, <3>2, <4>1, <4>5
    <3>5. CASE p \in DOMAIN counters /\ counters[p].instance = i
      <4> DEFINE c == counters[p].bytes
      <4>1. c \in Nat /\ c <= x /\ (~disordered => c = x)
        BY <1>1, <3>5 DEF Sampled
      <4>2. delta(p, m) = IF b < c THEN 0 ELSE b - c
        BY <3>5 DEF delta, i
      <4>3. delta(p, m) \in Nat /\ delta(p, m) + x >= y
        BY <3>1, <4>1, <4>2
      <4>4. ~disordered' => delta(p, m) + x = y /\ y = b
        BY <3>1, <3>2, <4>1, <4>2
      <4> QED
        BY <3>2, <4>3, <4>4
    <3> QED
      BY <3>3, <3>4, <3>5
  <2>10. ASSUME NEW p \in Pair, p \notin D PROVE \A j \in Instance : best'[j][p] = best[j][p]
    BY <2>7, <2>10
  <2>11. ~disordered' => ~disordered
    BY <2>1
  <2>12. /\ DOMAIN cs = DOMAIN counters \cup D
         /\ \A p \in D : cs[p].instance = i /\ cs[p].bytes = m.bytes[p] /\ cs[p] = [instance |-> i, bytes |-> m.bytes[p]]
         /\ \A p \in DOMAIN counters \ D : cs[p] = counters[p]
    BY DEF cs
  <2>13. DOMAIN cs \subseteq Pair /\ cs \in [DOMAIN cs -> [instance : Instance, bytes : Nat]]
    <3>1. \A p \in DOMAIN cs : cs[p] \in [instance : Instance, bytes : Nat]
      <4>1. \A p \in D : cs[p] \in [instance : Instance, bytes : Nat]
        BY <2>4, <2>12
      <4>2. \A p \in DOMAIN counters : counters[p] \in [instance : Instance, bytes : Nat]
        BY <1>1 DEF Sampled
      <4> QED
        BY <2>12, <4>1, <4>2
    <3>2. cs = [p \in DOMAIN cs |-> cs[p]]
      BY DEF cs
    <3> QED
      BY <1>1, <2>4, <2>12, <3>1, <3>2 DEF Sampled
  <2>14. ASSUME NEW p \in DOMAIN cs
         PROVE  /\ cs[p].bytes > 0
                /\ cs[p].bytes <= best'[cs[p].instance][p]
                /\ ~disordered' => /\ cs[p].bytes = best'[cs[p].instance][p]
                                   /\ \A j \in Instance : j > cs[p].instance => best'[j][p] = 0
    <3>1. CASE p \in D
      <4>1. cs[p].instance = i /\ cs[p].bytes = m.bytes[p] /\ p \in Pair
        BY <2>4, <2>12, <3>1
      <4>2. m.bytes[p] > 0 /\ m.bytes[p] <= best'[i][p]
        BY <2>4, <2>6, <2>7, <3>1, <4>1
      <4>3. ~disordered' => best'[i][p] = m.bytes[p] /\ \A j \in Instance : j > i => best'[j][p] = 0
        <5>1. ~disordered' => best'[i][p] = m.bytes[p] /\ \A j \in Instance : j > i => best[j][p] = 0
          BY <2>9, <3>1
        <5>2. \A j \in Instance : j > i => best'[j][p] = best[j][p]
          BY <2>4, <2>7, <2>8, <4>1
        <5> QED
          BY <5>1, <5>2
      <4> QED
        BY <4>1, <4>2, <4>3
    <3>2. CASE p \notin D
      <4>1. p \in DOMAIN counters /\ cs[p] = counters[p] /\ counters[p].instance \in Instance /\ p \in Pair
        BY <1>1, <2>12, <3>2 DEF Sampled
      <4> QED
        BY <1>1, <2>10, <2>11, <3>2, <4>1 DEF Sampled
    <3> QED
      BY <3>1, <3>2
  <2>15. ASSUME NEW p \in Pair \ DOMAIN cs, Known(p) PROVE \A j \in Instance : best'[j][p] = 0
    <3>1. p \notin DOMAIN counters /\ p \notin D
      BY <2>12, <2>15
    <3> QED
      BY <1>1, <2>10, <2>15, <3>1 DEF Sampled
  <2>16. history' \in [Pair -> Nat] /\ disordered' \in BOOLEAN
    BY <1>1, <2>1, <2>9 DEF Sampled
  <2>17. gone \subseteq DOMAIN retired /\ DOMAIN retired' = DOMAIN retired \ gone
    BY <2>2 DEF gone
  <2>18. Sampled'
    BY <2>1, <2>2, <2>13, <2>14, <2>15, <2>16, <2>17, SampledPruned
  <2>19. ASSUME NEW p \in Pair
         PROVE  history'[p] >= shown(p)' /\ (disordered' \/ history'[p] = shown(p)')
    <3>1. PICK f, g : f = [j \in Instance |-> best[j][p]] /\ g = [j \in Instance |-> best'[j][p]]
      OBVIOUS
    <3>2. f \in [Instance -> Nat] /\ g \in [Instance -> Nat]
      <4>1. \A j \in Instance : best[j][p] \in Nat /\ best'[j][p] \in Nat
        BY <2>4, <2>6, <2>7
      <4> QED
        BY <3>1, <4>1
    <3>3. f[i] = best[i][p] /\ g[i] = best'[i][p] /\ \A j \in Instance : j # i => g[j] = f[j]
      BY <2>4, <2>7, <3>1
    <3>4. total(f) \in Nat /\ total(g) \in Nat /\ total(g) + f[i] = total(f) + g[i]
      BY <2>4, <3>2, <3>3, TotalUpdate
    <3>5. shown(p) = total(f) /\ shown(p)' = total(g)
      BY <3>1 DEF shown, total
    <3>6. history[p] \in Nat /\ history[p] >= total(f) /\ (disordered \/ history[p] = total(f))
      BY <1>1, <3>5 DEF UsageCounted, Sampled
    <3>7. f[i] \in Nat /\ g[i] \in Nat
      BY <2>4, <3>2
    <3>8. CASE p \in D
      <4>1. history'[p] = history[p] + delta(p, m)
        BY <2>1, <3>8
      <4>2. /\ delta(p, m) \in Nat /\ delta(p, m) + f[i] >= g[i]
            /\ ~disordered' => delta(p, m) + f[i] = g[i]
        BY <2>9, <3>3, <3>8
      <4>3. history'[p] >= total(g) /\ (~disordered' => history'[p] = total(g))
        BY <2>11, <3>4, <3>6, <3>7, <4>1, <4>2
      <4> QED
        BY <3>5, <4>3
    <3>9. CASE p \notin D
      <4>1. history'[p] = history[p]
        BY <2>1, <3>6, <3>9
      <4>2. g[i] = f[i]
        BY <2>4, <2>10, <3>3, <3>9
      <4> QED
        BY <2>11, <3>4, <3>5, <3>6, <3>7, <4>1, <4>2
    <3> QED
      BY <3>8, <3>9
  <2>20. UsageCounted'
    BY <2>19 DEF UsageCounted
  <2> QED
    BY <2>18, <2>20
<1> QED
  BY <1>3, <1>4

\* A step that takes no sample.
LEMMA SampledKept ==
  ASSUME SInv, UNCHANGED <<counters, history, best, disordered>>, \A p \in Pair : Known(p)' => Known(p)
  PROVE  Sampled' /\ UsageCounted'
<1>1. Sampled'
  BY DEF SInv, Sampled
<1>2. UsageCounted'
  BY DEF SInv, UsageCounted, shown
<1> QED
  BY <1>1, <1>2

\* Reports that are only moved or dropped keep the names they have.
LEMMA NamesKept ==
  ASSUME SInv,
         \A r \in Reporter : report'[r] = None \/ report'[r] = report[r],
         late' = late \/ late' = None \/ \E r \in Reporter : late' = report[r]
  PROVE  \A m \in Messages' : Named(m)
<1>1. ASSUME NEW m \in Messages' PROVE m \in Messages
  <2>1. m # None /\ (m = late' \/ \E q \in Reporter : m = report'[q])
    BY DEF Messages
  <2>2. m = late \/ \E q \in Reporter : m = report[q]
    BY <2>1
  <2> QED
    BY <2>1, <2>2 DEF Messages
<1> QED
  BY <1>1 DEF SInv

\* A new report names what it counts.
LEMMA NamesTaken ==
  ASSUME IInv, SInv, NEW r \in Reporter, report' = [report EXCEPT ![r] = snapshot], late' = late
  PROVE  \A m \in Messages' : Named(m)
<1>1. PICK s : s = snapshot
  OBVIOUS
<1>2. Named(s)
  BY <1>1, SnapshotFacts DEF IInv, Named
<1>3. ASSUME NEW m \in Messages' PROVE m = s \/ m \in Messages
  <2>1. m # None /\ (m = late \/ \E q \in Reporter : m = report'[q])
    BY DEF Messages
  <2>2. \A q \in Reporter : report'[q] = IF q = r THEN s ELSE report[q]
    BY <1>1 DEF IInv, TypeOK
  <2>3. m = late \/ m = s \/ \E q \in Reporter : m = report[q]
    BY <2>1, <2>2
  <2> QED
    BY <2>1, <2>3 DEF Messages
<1> QED
  BY <1>2, <1>3 DEF SInv

\* An answer leaves the counters of its report as they are.
LEMMA NamesAnswered ==
  ASSUME IInv, SInv, NEW r \in Reporter, handle(r)
  PROVE  \A m \in Messages' : Named(m)
<1>1. PICK k, n : k = report'[r] /\ n = report[r]
  OBVIOUS
<1>2. n \in Report /\ n \in Messages /\ late' = late
  BY <1>1 DEF handle, IInv, TypeOK, Messages
<1>3. k = [n EXCEPT !.answer = IF accepts(n) THEN "ok" ELSE "refused"]
      /\ \A q \in Reporter : q # r => report'[q] = report[q]
  BY <1>1 DEF handle, IInv, TypeOK
<1>4. k.bytes = n.bytes /\ k.grants = n.grants /\ k.links = n.links
  BY <1>2, <1>3 DEF Report
<1>5. Named(k)
  BY <1>2, <1>4 DEF SInv, Named
<1>6. ASSUME NEW m \in Messages' PROVE m = k \/ m \in Messages
  <2>1. m # None /\ (m = late \/ \E q \in Reporter : m = report'[q])
    BY <1>2 DEF Messages
  <2>2. m = late \/ m = k \/ \E q \in Reporter : m = report[q]
    BY <1>1, <1>3, <2>1
  <2> QED
    BY <2>1, <2>2 DEF Messages
<1> QED
  BY <1>5, <1>6 DEF SInv

\* The samples at the start, and after every step.
LEMMA SampledInit ==
  ASSUME Init
  PROVE  SInv
<1>1. \A m \in Messages : Named(m)
  BY DEF Init, Messages
<1>2. Sampled
  <2>1. DOMAIN counters = {} /\ counters \in [DOMAIN counters -> [instance : Instance, bytes : Nat]]
    BY DEF Init
  <2>2. history \in [Pair -> Nat] /\ \A j \in Instance, p \in Pair : best[j][p] = 0
    BY DEF Init, NoBytes
  <2> QED
    BY <2>1, <2>2 DEF Init, Sampled
<1>3. ASSUME NEW p \in Pair PROVE history[p] = 0 /\ shown(p) = 0
  <2>1. [i \in Instance |-> best[i][p]] = [i \in Instance |-> 0] /\ history[p] = 0
    BY DEF Init, NoBytes
  <2> QED
    BY <2>1, TotalZero DEF shown
<1>4. UsageCounted
  BY <1>3 DEF UsageCounted
<1> QED
  BY <1>1, <1>2, <1>4 DEF SInv

\* Every step keeps what is known of samples and of what the panel shows.
LEMMA SampledNext ==
  ASSUME IInv, SInv, [Next]_vars
  PROVE  SInv'
<1>0. (\A m \in Messages' : Named(m)) /\ Sampled' /\ UsageCounted' => SInv'
  BY DEF SInv, Named
<1>a. ASSUME UNCHANGED <<counters, history, best, disordered>>, \A p \in Pair : Known(p)' => Known(p)
      PROVE  Sampled' /\ UsageCounted'
  BY <1>a, SampledKept
<1>b. ASSUME \A r \in Reporter : report'[r] = None \/ report'[r] = report[r],
             late' = late \/ late' = None \/ \E r \in Reporter : late' = report[r]
      PROVE  \A m \in Messages' : Named(m)
  BY <1>b, NamesKept
<1>c. UNCHANGED <<live, retired>> => \A p \in Pair : Known(p)' => Known(p)
  BY DEF Known
<1>1. CASE UNCHANGED vars
  <2>1. UNCHANGED <<live, retired, counters, history, best, disordered, report, late>>
    BY <1>1 DEF vars
  <2> QED
    BY <1>0, <2>1, <1>a, <1>b, <1>c
<1>2. ASSUME NEW g \in Grant, removeGrant(g) PROVE SInv'
  <2>1. UNCHANGED <<counters, history, best, disordered, report, late>>
    BY <1>2 DEF removeGrant
  <2>2. live'.grants = live.grants \ {g} /\ live'.links = live.links
        /\ DOMAIN retired' = DOMAIN retired \cup {g} /\ g \in live.grants
    BY <1>2 DEF removeGrant, retires, IInv, TypeOK, Config
  <2>3. ASSUME NEW p \in Pair, Known(p)' PROVE Known(p)
    <3>1. p[2] # g
      BY KindAssumption DEF Pair
    <3> QED
      BY <2>2, <2>3, <3>1 DEF Known
  <2> QED
    BY <1>0, <2>1, <2>3, <1>a, <1>b
<1>3. ASSUME NEW l \in Link, removeLink(l) PROVE SInv'
  <2>1. UNCHANGED <<counters, history, best, disordered, report, late>>
    BY <1>3 DEF removeLink
  <2>2. live'.links = live.links \ {l} /\ live'.grants = live.grants
        /\ DOMAIN retired' = DOMAIN retired \cup {l} /\ l \in live.links
    BY <1>3 DEF removeLink, retires, IInv, TypeOK, Config
  <2>3. ASSUME NEW p \in Pair, Known(p)' PROVE Known(p)
    <3>1. p[1] # l
      BY KindAssumption DEF Pair
    <3> QED
      BY <2>2, <2>3, <3>1 DEF Known
  <2> QED
    BY <1>0, <2>1, <2>3, <1>a, <1>b
<1>4. ASSUME NEW x \in Grant \cup Link, expires(x) PROVE SInv'
  <2>1. UNCHANGED <<live, counters, history, best, disordered, report, late>> /\ DOMAIN retired' = DOMAIN retired
    BY <1>4 DEF expires
  <2>2. \A p \in Pair : Known(p)' => Known(p)
    BY <2>1 DEF Known
  <2> QED
    BY <1>0, <2>1, <2>2, <1>a, <1>b
<1>5. ASSUME NEW l \in Link, agentReports(l) PROVE SInv'
  <2> DEFINE rs == [retired EXCEPT ![l].agent = TRUE]
             gone == {x \in DOMAIN rs : rs[x].expired \/ done(rs[x], status)}
  <2>1. UNCHANGED <<live, history, best, disordered, report, late>>
    BY <1>5 DEF agentReports
  <2>2. /\ retired' = [x \in DOMAIN rs \ gone |-> rs[x]]
        /\ counters' = [p \in DOMAIN counters \ {q \in Pair : q[1] \in gone \/ q[2] \in gone} |-> counters[p]]
    BY <1>5 DEF agentReports, pruneRetiredUsage
  <2>3. gone \subseteq DOMAIN retired /\ DOMAIN retired' = DOMAIN retired \ gone
    BY <2>2
  <2> HIDE DEF rs, gone
  <2>4. PICK cs : cs = counters
    OBVIOUS
  <2>5. Sampled'
    <3>1. /\ DOMAIN cs \subseteq Pair /\ cs \in [DOMAIN cs -> [instance : Instance, bytes : Nat]]
          /\ history' \in [Pair -> Nat] /\ disordered' \in BOOLEAN
      BY <2>1, <2>4 DEF SInv, Sampled
    <3>2. \A p \in DOMAIN cs :
            /\ cs[p].bytes > 0
            /\ cs[p].bytes <= best'[cs[p].instance][p]
            /\ ~disordered' => /\ cs[p].bytes = best'[cs[p].instance][p]
                               /\ \A j \in Instance : j > cs[p].instance => best'[j][p] = 0
      BY <2>1, <2>4 DEF SInv, Sampled
    <3>3. \A p \in Pair \ DOMAIN cs : Known(p) => \A j \in Instance : best'[j][p] = 0
      BY <2>1, <2>4 DEF SInv, Sampled
    <3> QED
      BY <2>1, <2>2, <2>3, <2>4, <3>1, <3>2, <3>3, SampledPruned
  <2>6. UsageCounted'
    BY <2>1 DEF SInv, UsageCounted, shown
  <2> QED
    BY <1>0, <2>1, <2>5, <2>6, <1>b
<1>6. ASSUME NEW r \in Reporter, handle(r) PROVE SInv'
  <2>1. PICK m : m = report[r]
    OBVIOUS
  <2>2. m \in Messages /\ nodeStatus(m)
    BY <1>6, <2>1 DEF handle, Messages
  <2> QED
    BY <1>0, <1>6, <2>2, SampledByReport, NamesAnswered
<1>7. ASSUME handleLate PROVE SInv'
  <2>1. PICK m : m = late
    OBVIOUS
  <2>2. m \in Messages /\ nodeStatus(m) /\ report' = report /\ late' = None
    BY <1>7, <2>1 DEF handleLate, Messages
  <2> QED
    BY <1>0, <2>2, SampledByReport, <1>b
<1>8. ASSUME reportStarts \/ reloadStarts \/ refresh PROVE SInv'
  <2>1. UNCHANGED <<live, retired, counters, history, best, disordered, late>>
    BY <1>8 DEF reportStarts, reloadStarts, refresh, controller
  <2>2. report' = report \/ \E r \in Reporter : report' = [report EXCEPT ![r] = snapshot]
    BY <1>8 DEF reportStarts, reloadStarts, refresh, Reporter
  <2>3. \A m \in Messages' : Named(m)
    BY <2>1, <2>2, <1>b, NamesTaken
  <2> QED
    BY <1>0, <2>1, <2>3, <1>a, <1>c
<1>9. ASSUME (\E p \in Pair : traffic(p)) \/ xrayStarts \/ pendingExpires \/ xrayExits PROVE SInv'
  <2>1. UNCHANGED <<live, retired, counters, history, best, disordered, report, late>>
    BY <1>9 DEF traffic, xrayStarts, pendingExpires, xrayExits, controller
  <2> QED
    BY <1>0, <2>1, <1>a, <1>b, <1>c
<1>10. ASSUME reportEnds \/ reloadEnds \/ restarts PROVE SInv'
  <2>1. UNCHANGED <<live, retired, counters, history, best, disordered>>
    BY <1>10 DEF reportEnds, reloadEnds, restarts, controller
  <2>2. \A r \in Reporter : report'[r] = None \/ report'[r] = report[r]
    BY <1>10 DEF reportEnds, reloadEnds, restarts, IInv, TypeOK
  <2>3. late' = late \/ \E r \in Reporter : late' = report[r]
    BY <1>10 DEF reportEnds, reloadEnds, restarts, answered, givesUp, Reporter
  <2> QED
    BY <1>0, <2>1, <2>2, <2>3, <1>a, <1>b, <1>c
<1> QED
  BY <1>1, <1>2, <1>3, <1>4, <1>5, <1>6, <1>7, <1>8, <1>9, <1>10 DEF Next, xrayLoop, reports

\* The usage of a pair is never less than what its reports have shown, and exactly
\* that unless a report overtook another one, for any number of processes:
\* sampleGrantUsageFor counts every byte once.
THEOREM UsageTheorem == Spec => []UsageCounted
<1>1. Init => IInv /\ SInv
  BY InvInit, SampledInit
<1>2. IInv /\ SInv /\ [Next]_vars => IInv' /\ SInv'
  BY InvNext, SampledNext
<1>3. SInv => UsageCounted
  BY DEF SInv
<1> QED
  BY <1>1, <1>2, <1>3, PTL DEF Spec

=============================================================================
