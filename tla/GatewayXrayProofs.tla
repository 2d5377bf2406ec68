------------------------- MODULE GatewayXrayProofs -------------------------
(***************************************************************************)
(* What a Gateway acknowledges is served, and a Gateway that was told of   *)
(* its removal stays off, for any set of users, any number of revisions    *)
(* and any number of faults and lapses.                                    *)
(***************************************************************************)
EXTENDS GatewayXray, TLAPS

\* The provers for a step, in turn: most need no more than Zenon.
USE ZenonT(4), SMTT(30), ZenonT(30)

-----------------------------------------------------------------------------
(* The inductive invariant.                                                *)

Refresh == [resp : Config \cup {None}, reload : BOOLEAN, sameEpoch : BOOLEAN]
Message == [ok : BOOLEAN, rev : Nat]
Round == [config : Config, snap : Config, users : SUBSET User, sameEpoch : BOOLEAN, sameGen : BOOLEAN]
Label ==
  {"idle", "fetch", "fetched", "rejected", "validate", "report", "reportRevision", "send", "apply", "signal",
   "wait", "backoff", "top", "prepare", "snapshot", "publish", "start", "startup", "settle", "settled", "run",
   "reconcile", "hotAdd", "commit", "cancel", "stop", "failed", "retired", "retiredFailed"}

Types ==
  /\ desired \in Config /\ config \in Config /\ authorized \in BOOLEAN /\ told \in BOOLEAN
  /\ leased \in BOOLEAN /\ lastError \in BOOLEAN /\ ready \in BOOLEAN /\ handle \in BOOLEAN /\ cancelled \in BOOLEAN
  /\ applied \in Nat /\ running \in (SUBSET User) \cup {None} /\ childUsers \in SUBSET User
  /\ pc \in [Thread -> Label] /\ msg \in [Thread -> Message]
  /\ c \in Refresh /\ x \in Round

\* A Gateway that was told has nothing in hand that could switch it on, and while
\* Xray has a context and the Gateway is off, the context is cancelled.
StaysOff ==
  /\ pc["control"] \in {"idle", "fetch", "rejected"} => c.resp = None
  /\ pc["control"] \in {"fetched", "validate", "apply", "signal"} => c.resp # None
  /\ pc["control"] = "rejected" => ~authorized
  /\ told => ~authorized /\ ~config.on /\ ~ready /\ (c.sameEpoch => c.resp = None)
  /\ child = "up" \/ pc["xray"] = "start" => handle
  /\ handle /\ ~config.on => cancelled

\* A configuration that is on comes from the Controller: it is an earlier one than
\* the desired one or has its users.
genuine(d) ==
  /\ d.rev <= desired.rev
  /\ d.on /\ d.rev = desired.rev => d.users = desired.users

\* Revisions in hand: nothing is newer than what it was taken from.
Revisions ==
  /\ desired.rev >= 1 /\ (desired.on \/ desired.users = {})
  /\ genuine(config) /\ genuine(x.config) /\ genuine(x.snap)
  /\ x.config.rev <= config.rev /\ x.snap.rev <= config.rev
  /\ c.resp # None => /\ config.rev <= c.resp.rev /\ c.resp.rev <= desired.rev
                      /\ c.resp.rev = desired.rev => c.resp = desired
  /\ x.sameGen /\ config.on => x.snap = config

starting == pc["xray"] \in {"prepare", "snapshot", "publish", "start", "startup", "settle"}
serving == pc["xray"] \in {"startup", "settle", "settled", "run", "reconcile", "hotAdd", "commit"}

\* The child has the users of the round; a round that starts began with the newest
\* configuration that was accepted then.
Child ==
  /\ starting \/ pc["xray"] \in {"wait", "backoff", "top"} => ~ready
  /\ starting \/ pc["xray"] = "settled" => x.config.on /\ x.users = x.config.users
  /\ serving => childUsers = x.users
  /\ pc["xray"] = "start" => running = x.users
  /\ ready \/ pc["xray"] \in {"startup", "settle"} => running = None \/ running \subseteq childUsers
  /\ pc["xray"] = "settled" => x.sameGen /\ config.on
  /\ pc["xray"] \in {"startup", "settle", "settled", "run", "reconcile", "hotAdd", "commit"} => handle
  /\ pc["xray"] \in {"reconcile", "hotAdd", "commit"} /\ ~cancelled => x.snap.on
  /\ pc["xray"] \in {"hotAdd", "commit"} => ~x.sameGen
  /\ pc["xray"] = "commit" => x.users = x.snap.users

\* A revision that is stored as applied, or was read for a report: it was accepted,
\* and when it is the desired one and Xray is ready, Xray has its users.
sound(m) ==
  /\ m <= config.rev
  /\ starting \/ pc["xray"] = "settled" => m <= x.config.rev
  /\ ready /\ m >= desired.rev => desired.users \subseteq childUsers

Served == sound(applied) /\ (\A t \in Thread : sound(msg[t].rev)) /\ AcknowledgedServed

IInv == Types /\ StaysOff /\ Revisions /\ Child /\ Served

-----------------------------------------------------------------------------
(* Facts about the records the two loops keep.                             *)

USE DEF controller, history, process, bounds, goto, fault, unlocked, Thread, payload

\* The records outside a refresh, a report and a round.
LEMMA EmptyRecords ==
  /\ noConfig \in Config /\ noConfig.rev = 0 /\ noConfig.on = FALSE /\ noConfig.users = {}
  /\ noRefresh \in Refresh /\ noRefresh.resp = None /\ noRefresh.sameEpoch = FALSE
  /\ noMsg \in Message /\ noMsg.rev = 0
  /\ noRound \in Round /\ noRound.config = noConfig /\ noRound.snap = noConfig /\ noRound.sameGen = FALSE
<1>1. noConfig \in Config /\ noConfig.rev = 0 /\ noConfig.on = FALSE /\ noConfig.users = {}
  BY ConstantsAssumption DEF noConfig, Config
<1>2. noRefresh \in Refresh /\ noRefresh.resp = None /\ noRefresh.sameEpoch = FALSE
  BY DEF noRefresh, Refresh
<1>3. noMsg \in Message /\ noMsg.rev = 0
  BY DEF noMsg, Message
<1>4. noRound \in Round /\ noRound.config = noConfig /\ noRound.snap = noConfig /\ noRound.sameGen = FALSE
  BY <1>1 DEF noRound, Round
<1> QED
  BY <1>1, <1>2, <1>3, <1>4

\* The updates of a refresh.
LEMMA SetRefresh ==
  ASSUME NEW r \in Refresh, NEW b \in BOOLEAN, NEW d \in Config
  PROVE  /\ LET q == [r EXCEPT !.sameEpoch = b]
            IN  q \in Refresh /\ q.sameEpoch = b /\ q.resp = r.resp
         /\ LET q == [r EXCEPT !.resp = d]
            IN  q \in Refresh /\ q.sameEpoch = r.sameEpoch /\ q.resp = d
         /\ LET q == [r EXCEPT !.reload = b]
            IN  q \in Refresh /\ q.sameEpoch = r.sameEpoch /\ q.resp = r.resp
BY DEF Refresh

\* The updates of a round.
LEMMA SetRound ==
  ASSUME NEW r \in Round, NEW b \in BOOLEAN
  PROVE  /\ LET q == [r EXCEPT !.sameEpoch = b]
            IN  /\ q \in Round /\ q.sameEpoch = b /\ q.sameGen = r.sameGen
                /\ q.config = r.config /\ q.snap = r.snap /\ q.users = r.users
         /\ LET q == [r EXCEPT !.sameGen = b]
            IN  /\ q \in Round /\ q.sameEpoch = r.sameEpoch /\ q.sameGen = b
                /\ q.config = r.config /\ q.snap = r.snap /\ q.users = r.users
BY DEF Round

\* A configuration is on or off, and its revision is a number.
LEMMA ConfigFacts ==
  ASSUME NEW d \in Config
  PROVE  d.rev \in Nat /\ d.on \in BOOLEAN /\ d.users \in SUBSET User /\ d # None
BY ConstantsAssumption DEF Config

\* What a lost authorization leaves.
LEMMA Invalidated ==
  ASSUME Types, NEW r \in Refresh, invalidateAuthorizationLocked(r)
  PROVE  /\ config' \in Config /\ config'.rev = config.rev /\ config'.on = FALSE /\ config'.users = {}
         /\ c' \in Refresh /\ c'.sameEpoch = FALSE /\ c'.resp = r.resp
         /\ x' \in Round /\ x'.sameGen = x.sameGen /\ x'.config = x.config /\ x'.snap = x.snap /\ x'.users = x.users
         /\ cancelled' \in BOOLEAN /\ (handle \/ cancelled => cancelled') /\ ready' = FALSE
<1>1. config' \in Config /\ config'.rev = config.rev /\ config'.on = FALSE /\ config'.users = {}
  BY DEF invalidateAuthorizationLocked, Types, Config
<1>2. c' \in Refresh /\ c'.sameEpoch = FALSE /\ c'.resp = r.resp
  BY DEF invalidateAuthorizationLocked, Refresh
<1>3. /\ x' \in Round /\ x'.sameGen = x.sameGen /\ x'.config = x.config /\ x'.snap = x.snap /\ x'.users = x.users
  BY SetRound, ZenonT(30) DEF invalidateAuthorizationLocked, Types
<1>4. cancelled' \in BOOLEAN /\ (handle \/ cancelled => cancelled') /\ ready' = FALSE
  BY DEF invalidateAuthorizationLocked, Types
<1> QED
  BY <1>1, <1>2, <1>3, <1>4

-----------------------------------------------------------------------------
(* Steps that leave the configuration in force and Xray alone.             *)

\* Where the Xray loop is between two rounds.
Between == {"report", "reportRevision", "send", "cancel", "stop", "failed", "retired", "retiredFailed"}

\* A step that touches neither, and reads at most the applied revision.
LEMMA Frame ==
  ASSUME IInv, UNCHANGED <<desired, config, ready, applied, running, handle, cancelled, childUsers, x>>,
         pc'["xray"] = pc["xray"] \/ {pc["xray"], pc'["xray"]} \subseteq Between,
         acked' = acked \/ AcknowledgedServed', \A t \in Thread : msg'[t].rev \in {msg[t].rev, applied, 0}
  PROVE  Child' /\ Served'
<1>1. Child'
  BY DEF IInv, Child, starting, serving, Between
<1>2. \A m \in Nat : sound(m)' = sound(m)
  BY DEF sound, starting, Between
<1>3. sound(0)
  BY ConfigFacts DEF IInv, Types, sound, Revisions, Round
<1>4. applied \in Nat /\ \A t \in Thread : msg[t].rev \in Nat
  BY DEF IInv, Types, Message
<1>5. sound(applied)' /\ \A t \in Thread : sound(msg[t].rev)'
  BY <1>2, <1>3, <1>4 DEF IInv, Served, sound, starting
<1>6. AcknowledgedServed'
  BY DEF IInv, Served, AcknowledgedServed
<1> QED
  BY <1>1, <1>5, <1>6 DEF Served

\* The Controller changes its mind, removes the Gateway, or time passes.
LEMMA StepEnvironment ==
  ASSUME IInv, environment \/ childExits
  PROVE  IInv'
<1>1. ASSUME NEW on \in BOOLEAN, NEW users \in SUBSET User, newRevision(on, users)
      PROVE  IInv'
  <2>1. desired' \in Config /\ desired'.rev = desired.rev + 1 /\ (desired'.on \/ desired'.users = {})
    BY <1>1, ConstantsAssumption DEF newRevision, IInv, Types, Config
  <2>2. /\ UNCHANGED <<authorized, config, leased, lastError, ready, applied, running, process, pc, c, x, msg, told>>
        /\ acked' = None
    BY <1>1 DEF newRevision
  <2>3. Types' /\ StaysOff' /\ Child'
    BY <2>1, <2>2 DEF IInv, Types, StaysOff, Child, starting, serving
  <2>4. ASSUME NEW d \in Config, d.rev <= desired.rev PROVE d.rev < desired'.rev
    BY <2>1, <2>4, ConfigFacts DEF IInv, Types
  <2>5. Revisions'
    BY <2>1, <2>2, <2>4, ConfigFacts DEF IInv, Revisions, genuine, Types, Round, Refresh
  <2>6. ASSUME NEW m \in Nat, sound(m) PROVE sound(m)'
    BY <2>1, <2>2, <2>6, ConfigFacts DEF IInv, Types, Revisions, genuine, sound, starting
  <2>7. applied \in Nat /\ \A t \in Thread : msg[t].rev \in Nat
    BY DEF IInv, Types, Message
  <2>8. Served'
    BY <2>2, <2>6, <2>7 DEF IInv, Served, AcknowledgedServed, sound, starting
  <2> QED
    BY <2>3, <2>5, <2>8 DEF IInv
<1>2. CASE revoke \/ leaseLapses \/ childExits
  <2>1. /\ UNCHANGED <<desired, config, lastError, ready, applied, running, handle, cancelled, childUsers, pc, c, x,
                       msg, acked, told>>
        /\ authorized' \in BOOLEAN /\ (authorized' => authorized) /\ leased' \in BOOLEAN
        /\ child' = "up" => child = "up"
    <3>1. authorized \in BOOLEAN /\ leased \in BOOLEAN
      BY DEF IInv, Types
    <3>2. CASE revoke
      BY <3>1, <3>2 DEF revoke
    <3>3. CASE leaseLapses
      BY <3>1, <3>3 DEF leaseLapses
    <3>4. CASE childExits
      BY <3>1, <3>4 DEF childExits
    <3> QED
      BY <1>2, <3>2, <3>3, <3>4
  <2>2. Types' /\ StaysOff' /\ Revisions'
    BY <2>1 DEF IInv, Types, StaysOff, Revisions, genuine
  <2>3. Child' /\ Served'
    BY <2>1, Frame DEF IInv, Types
  <2> QED
    BY <2>2, <2>3 DEF IInv
<1> QED
  BY <1>1, <1>2 DEF environment

\* The steps of a report, of either loop.
LEMMA StepReport ==
  ASSUME IInv, NEW t \in Thread, reportReady(t) \/ reportRevision(t) \/ reportFails(t) \/ send(t)
  PROVE  IInv'
<1>0. Types /\ pc[t] \in {"report", "reportRevision", "send"}
  BY DEF IInv, reportReady, reportRevision, reportFails, send
<1>1. /\ UNCHANGED <<desired, authorized, config, leased, ready, applied, running, handle, cancelled, child, childUsers,
                     c, x, told>>
      /\ pc' = [pc EXCEPT ![t] = pc'[t]] /\ lastError' \in BOOLEAN
      /\ pc'[t] \in {"reportRevision", "send", afterReport(t)}
  BY <1>0 DEF Types, reportReady, reportRevision, reportFails, send
<1>2. \A u \in Thread : u # t => pc'[u] = pc[u]
  BY <1>0, <1>1 DEF Types
<1>3. /\ afterReport("xray") = "cancel"
      /\ afterReport("control") = IF c.resp # None THEN "apply" ELSE "idle"
  BY DEF afterReport
<1>4. msg' \in [Thread -> Message] /\ \A u \in Thread : msg'[u].rev \in {msg[u].rev, applied, 0}
  <2>1. CASE reportReady(t)
    BY <1>0, <2>1, ZenonT(30) DEF reportReady, Types, Message
  <2>2. CASE reportRevision(t)
    BY <1>0, <2>2 DEF reportRevision, Types, Message
  <2>3. CASE reportFails(t) \/ send(t)
    BY <1>0, <2>3, EmptyRecords DEF reportFails, send, Types
  <2> QED
    BY <2>1, <2>2, <2>3
<1>5. acked' = acked \/ AcknowledgedServed'
  <2>1. CASE send(t) /\ ready /\ msg[t].rev >= desired.rev
    BY <1>1, <2>1 DEF IInv, Served, sound, send, AcknowledgedServed
  <2>2. CASE ~(send(t) /\ ready /\ msg[t].rev >= desired.rev)
    BY <2>2 DEF reportReady, reportRevision, reportFails, send
  <2> QED
    BY <2>1, <2>2
<1>6. pc'["xray"] = pc["xray"] \/ {pc["xray"], pc'["xray"]} \subseteq Between
  BY <1>0, <1>1, <1>2, <1>3 DEF Between
<1>7. Types'
  <2>1. pc' \in [Thread -> Label]
    BY <1>0, <1>1, <1>3 DEF Types, Label
  <2> QED
    BY <1>0, <1>1, <1>4, <2>1 DEF Types
<1>8. StaysOff'
  BY <1>0, <1>1, <1>2, <1>3 DEF IInv, StaysOff
<1>9. Revisions'
  BY <1>1 DEF IInv, Revisions, genuine
<1> QED
  BY <1>1, <1>4, <1>5, <1>6, <1>7, <1>8, <1>9, Frame DEF IInv

\* The steps of a refresh that decide nothing yet, and its end.
LEMMA StepRefresh ==
  ASSUME IInv, \/ refresh \/ fetch \/ fetchFails \/ fetchRejected \/ compareConfig
               \/ validateXrayCandidate \/ signal \/ statusTick
  PROVE  IInv'
<1>0. Types /\ StaysOff /\ Revisions
  BY DEF IInv
<1>1. /\ UNCHANGED <<desired, authorized, config, leased, ready, applied, running, handle, cancelled, child, childUsers,
                     x, msg, told, acked>>
      /\ pc' = [pc EXCEPT !["control"] = pc'["control"]] /\ lastError' \in BOOLEAN
  BY <1>0 DEF Types, refresh, fetch, fetchFails, fetchRejected, compareConfig, validateXrayCandidate, signal,
              statusTick, refreshEnds
<1>2. pc'["xray"] = pc["xray"]
  BY <1>0, <1>1 DEF Types
<1>3. Child' /\ Served'
  BY <1>1, <1>2, Frame
<1>4. SUFFICES /\ c' \in Refresh /\ pc'["control"] \in Label
               /\ pc'["control"] \in {"idle", "fetch", "rejected"} => c'.resp = None
               /\ pc'["control"] \in {"fetched", "validate", "apply", "signal"} => c'.resp # None
               /\ pc'["control"] = "rejected" => ~authorized
               /\ ~authorized /\ c.resp = None => c'.resp = None
               /\ c'.sameEpoch => c.sameEpoch \/ c'.resp = None
               /\ c'.resp \in {None, c.resp, desired}
  <2>1. Types'
    BY <1>0, <1>1, <1>4 DEF Types
  <2>2. StaysOff'
    BY <1>0, <1>1, <1>2, <1>4 DEF StaysOff
  <2>3. Revisions'
    BY <1>0, <1>1, <1>4, ConfigFacts DEF Types, Revisions, genuine
  <2> QED
    BY <1>3, <2>1, <2>2, <2>3 DEF IInv
<1>5. CASE refresh
  <2>1. c' \in Refresh /\ c'.resp = c.resp
    BY <1>0, <1>5, SetRefresh DEF refresh, Types
  <2>2. pc["control"] = "idle" /\ pc'["control"] = "fetch"
    BY <1>0, <1>5 DEF refresh, Types
  <2> QED
    BY <1>0, <2>1, <2>2 DEF StaysOff, Label
<1>6. CASE fetch
  <2>1. c' \in Refresh /\ c'.resp = desired /\ c'.sameEpoch = c.sameEpoch /\ desired # None
    <3>1. c \in Refresh /\ desired \in Config /\ c' = [c EXCEPT !.resp = desired]
      BY <1>0, <1>6 DEF fetch, Types
    <3> QED
      BY <3>1, ConfigFacts DEF Refresh
  <2>2. pc'["control"] = "fetched" /\ authorized
    BY <1>0, <1>6 DEF fetch, Types
  <2> QED
    BY <1>0, <2>1, <2>2 DEF Label
<1>7. CASE fetchFails \/ signal
  BY <1>0, <1>7, EmptyRecords DEF fetchFails, signal, refreshEnds, Types, Label
<1>8. CASE fetchRejected
  BY <1>0, <1>8 DEF fetchRejected, Types, StaysOff, Label
<1>9. CASE compareConfig
  <2>1. CASE c.sameEpoch
    <3>1. PICK b \in BOOLEAN : c' = [c EXCEPT !.reload = b]
      BY <1>9, <2>1, ZenonT(30) DEF compareConfig
    <3>2. pc'["control"] \in {"validate", "apply"}
      BY <1>0, <1>9, <2>1 DEF compareConfig, Types
    <3>3. c' \in Refresh /\ c'.resp = c.resp /\ c'.sameEpoch = c.sameEpoch
      <4>1. c \in Refresh
        BY <1>0 DEF Types
      <4> QED
        BY <3>1, <4>1 DEF Refresh
    <3>4. c.resp # None
      BY <1>0, <1>9 DEF compareConfig, StaysOff
    <3> QED
      BY <3>2, <3>3, <3>4 DEF Label
  <2>2. CASE ~c.sameEpoch
    BY <1>0, <1>9, <2>2, EmptyRecords DEF compareConfig, refreshEnds, Types, Label
  <2> QED
    BY <2>1, <2>2
<1>10. CASE validateXrayCandidate
  BY <1>0, <1>10, EmptyRecords DEF validateXrayCandidate, refreshEnds, Types, StaysOff, Label
<1>11. CASE statusTick
  BY <1>0, <1>11 DEF statusTick, Types, StaysOff, Label
<1> QED
  BY <1>5, <1>6, <1>7, <1>8, <1>9, <1>10, <1>11

-----------------------------------------------------------------------------
(* Steps that change the configuration in force.                           *)

\* The authorization is lost: nothing is on, nothing is ready, what Xray runs in is
\* cancelled and no refresh in progress can be accepted.
LEMMA StepInvalidate ==
  ASSUME IInv, pc["xray"] # "settled", NEW r \in Refresh, invalidateAuthorizationLocked(r),
         UNCHANGED <<desired, authorized, leased, applied, running, handle, child, childUsers, acked>>,
         pc' \in [Thread -> Label], msg' \in [Thread -> Message], lastError' \in BOOLEAN, told' \in BOOLEAN,
         \/ pc'["xray"] = pc["xray"] \/ {pc["xray"], pc'["xray"]} \subseteq Between
         \/ pc["xray"] = "top" /\ pc'["xray"] = "wait",
         \/ pc'["control"] = pc["control"] /\ r = c
         \/ pc'["control"] = "idle" /\ r.resp = None,
         \A t \in Thread : msg'[t].rev \in {msg[t].rev, 0},
         told' => told \/ ~authorized
  PROVE  IInv'
<1>0. Types /\ StaysOff /\ Revisions /\ Child /\ Served
  BY DEF IInv
<1>1. /\ config' \in Config /\ config'.rev = config.rev /\ config'.on = FALSE /\ config'.users = {}
      /\ c' \in Refresh /\ c'.sameEpoch = FALSE /\ c'.resp = r.resp
      /\ x' \in Round /\ x'.sameGen = x.sameGen /\ x'.config = x.config /\ x'.snap = x.snap /\ x'.users = x.users
      /\ cancelled' \in BOOLEAN /\ (handle \/ cancelled => cancelled') /\ ready' = FALSE
  BY <1>0, Invalidated
<1>2. Types'
  BY <1>0, <1>1, ZenonT(30) DEF Types
<1>3. StaysOff'
  BY <1>0, <1>1 DEF StaysOff, Between
<1>4. Revisions'
  BY <1>0, <1>1 DEF Revisions, genuine
<1>5. Child'
  BY <1>0, <1>1 DEF Child, starting, serving, Between
<1>6. ASSUME NEW m \in Nat, sound(m) PROVE sound(m)'
  BY <1>1, <1>6 DEF sound, starting, Between
<1>7. sound(0) /\ applied \in Nat /\ \A t \in Thread : msg[t].rev \in Nat
  BY <1>0, ConfigFacts DEF Types, sound, Revisions, Round, Message
<1>8. Served'
  BY <1>0, <1>1, <1>6, <1>7 DEF Served, AcknowledgedServed, sound, starting
<1> QED
  BY <1>2, <1>3, <1>4, <1>5, <1>8 DEF IInv

\* A watch, a refused report and a refused refresh invalidate.
LEMMA StepRefused ==
  ASSUME IInv, watchAuthorization \/ invalidateAuthorization \/ \E t \in Thread : sendRejected(t)
  PROVE  IInv'
<1>0. Types /\ StaysOff
  BY DEF IInv
<1>1. CASE watchAuthorization
  <2>1. c \in Refresh /\ invalidateAuthorizationLocked(c)
    BY <1>0, <1>1 DEF watchAuthorization, Types
  <2> QED
    BY <1>0, <1>1, <2>1, StepInvalidate DEF watchAuthorization, Types
<1>2. CASE invalidateAuthorization
  <2>1. noRefresh \in Refresh /\ noRefresh.resp = None /\ invalidateAuthorizationLocked(noRefresh)
    BY <1>2, EmptyRecords DEF invalidateAuthorization
  <2>2. ~authorized /\ pc'["control"] = "idle" /\ pc' \in [Thread -> Label] /\ pc'["xray"] = pc["xray"]
    BY <1>0, <1>2 DEF invalidateAuthorization, Types, StaysOff, Label
  <2> QED
    BY <1>0, <1>2, <2>1, <2>2, StepInvalidate DEF invalidateAuthorization, Types
<1>3. ASSUME NEW t \in Thread, sendRejected(t)
      PROVE  IInv'
  <2>1. PICK r : r = IF t = "control" THEN noRefresh ELSE c
    OBVIOUS
  <2>2. r \in Refresh /\ invalidateAuthorizationLocked(r)
    BY <1>0, <1>3, <2>1, EmptyRecords DEF sendRejected, Types
  <2>3. /\ pc' \in [Thread -> Label]
        /\ pc'["xray"] = pc["xray"] \/ {pc["xray"], pc'["xray"]} \subseteq Between
        /\ (pc'["control"] = pc["control"] /\ r = c) \/ (pc'["control"] = "idle" /\ r.resp = None)
    BY <1>0, <1>3, <2>1, EmptyRecords DEF sendRejected, Types, Label, Between
  <2>4. msg' \in [Thread -> Message] /\ \A u \in Thread : msg'[u].rev \in {msg[u].rev, 0}
    BY <1>0, <1>3, EmptyRecords DEF sendRejected, Types
  <2>5. lastError' \in BOOLEAN /\ told' \in BOOLEAN /\ (told' => told \/ ~authorized)
    BY <1>0, <1>3 DEF sendRejected, Types
  <2> QED
    BY <1>3, <2>2, <2>3, <2>4, <2>5, StepInvalidate DEF sendRejected
<1> QED
  BY <1>1, <1>2, <1>3

\* The second lock of a refresh: the configuration is accepted, unless an
\* invalidation came after it was requested.
LEMMA StepApplyConfig ==
  ASSUME IInv, applyConfig
  PROVE  IInv'
<1>0. /\ Types /\ StaysOff /\ Revisions /\ Child /\ Served /\ pc["control"] = "apply" /\ pc["xray"] # "settled"
      /\ c.resp # None
  BY DEF IInv, applyConfig, StaysOff
<1>1. /\ UNCHANGED <<desired, authorized, running, handle, child, childUsers, msg, told, acked>>
      /\ pc' = [pc EXCEPT !["control"] = pc'["control"]] /\ pc'["control"] \in {"idle", "signal"}
      /\ pc' \in [Thread -> Label] /\ pc'["xray"] = pc["xray"]
  BY <1>0 DEF applyConfig, refreshEnds, Types, Label
<1>2. CASE ~c.sameEpoch
  <2>1. /\ UNCHANGED <<config, leased, x, cancelled, ready, applied>> /\ lastError' = TRUE
        /\ c' = noRefresh /\ pc'["control"] = "idle"
    BY <1>0, <1>2 DEF applyConfig, refreshEnds, Types
  <2>2. Child' /\ Served'
    BY <1>0, <1>1, <2>1, Frame
  <2>3. Types' /\ StaysOff' /\ Revisions'
    BY <1>0, <1>1, <2>1, EmptyRecords DEF Types, StaysOff, Revisions, genuine
  <2> QED
    BY <2>2, <2>3 DEF IInv
<1>3. CASE c.sameEpoch
  <2>1. PICK d \in Config : d = c.resp
    BY <1>0 DEF Types, Refresh
  <2>2. /\ config' = d /\ leased' = TRUE /\ UNCHANGED <<c, lastError>> /\ pc'["control"] = "signal"
        /\ cancelled' = (cancelled \/ (~d.on /\ handle)) /\ ready' = (ready /\ ~(~d.on /\ handle))
        /\ applied' = applied \/ (applied' = d.rev /\ ready' /\ running = IF d.on THEN d.users ELSE None)
    BY <1>0, <1>3, <2>1 DEF applyConfig, Types
  <2>3. /\ x' \in Round /\ x'.sameGen = FALSE /\ x'.config = x.config /\ x'.snap = x.snap /\ x'.users = x.users
    <3>1. x \in Round /\ x' = [x EXCEPT !.sameGen = FALSE]
      BY <1>0, <1>3 DEF applyConfig, Types
    <3> QED
      BY <3>1, SetRound, ZenonT(30)
  <2>4. ~told /\ config.rev <= d.rev /\ d.rev <= desired.rev /\ (d.rev = desired.rev => d = desired) /\ d # None
    BY <1>0, <1>3, <2>1 DEF StaysOff, Revisions
  <2>5. /\ d.rev \in Nat /\ d.on \in BOOLEAN /\ config.rev \in Nat /\ desired.rev \in Nat /\ x.config.rev \in Nat
        /\ x.snap.rev \in Nat
    BY <1>0, ConfigFacts DEF Types, Round
  <2>6. Types'
    BY <1>0, <1>1, <2>2, <2>3, <2>5 DEF Types
  <2>7. StaysOff'
    BY <1>0, <1>1, <2>1, <2>2, <2>4, <2>5 DEF StaysOff
  <2>8. Revisions'
    <3>1. config' = d /\ c' = c /\ desired' = desired /\ ~x'.sameGen
      BY <1>1, <2>2, <2>3
    <3>2. genuine(d) /\ d.rev <= c.resp.rev
      BY <2>1, <2>4, <2>5 DEF genuine
    <3>3. x.config.rev <= d.rev /\ x.snap.rev <= d.rev
      BY <1>0, <2>4, <2>5 DEF Revisions
    <3>4. genuine(config)' /\ genuine(x.config)' /\ genuine(x.snap)'
      BY <1>0, <2>3, <3>1, <3>2 DEF Revisions, genuine
    <3> QED
      BY <1>0, <2>3, <3>1, <3>2, <3>3, <3>4 DEF Revisions
  <2>9. Child'
    BY <1>0, <1>1, <2>2, <2>3, <2>5 DEF Child, starting, serving
  <2>10. ASSUME NEW m \in Nat, sound(m) PROVE sound(m)'
    <3>1. (ready' => ready) /\ config' = d
      BY <2>2, ZenonT(30)
    <3>2. m <= d.rev
      BY <2>4, <2>5, <2>10 DEF sound
    <3> QED
      BY <1>1, <2>3, <2>10, <3>1, <3>2 DEF sound, starting
  <2>11. applied \in Nat /\ \A t \in Thread : msg[t].rev \in Nat
    BY <1>0 DEF Types, Message
  <2>12. applied' # applied => sound(applied)'
    <3> SUFFICES ASSUME applied' # applied PROVE sound(applied)'
      OBVIOUS
    <3>1. applied' = d.rev /\ ready' /\ ready /\ running = IF d.on THEN d.users ELSE None
      BY <2>2, ZenonT(30)
    <3>2. ~starting
      BY <1>0, <3>1 DEF Child
    <3>3. d.rev = desired.rev => desired.users \subseteq childUsers
      <4>1. CASE d.on
        <5>1. running = d.users /\ running # None
          BY <3>1, <4>1, ConfigFacts, ConstantsAssumption
        <5> QED
          BY <1>0, <2>4, <3>1, <5>1 DEF Child
      <4>2. CASE ~d.on
        BY <1>0, <2>4, <4>2 DEF Revisions
      <4> QED
        BY <4>1, <4>2
    <3> QED
      BY <1>0, <1>1, <2>2, <2>4, <2>5, <3>1, <3>2, <3>3 DEF sound, starting
  <2>13. Served'
    BY <1>0, <1>1, <2>10, <2>11, <2>12 DEF Served, AcknowledgedServed, sound, starting
  <2> QED
    BY <2>6, <2>7, <2>8, <2>9, <2>13 DEF IInv
<1> QED
  BY <1>2, <1>3

-----------------------------------------------------------------------------
(* Steps of the Xray loop.                                                 *)

\* What a step of the Xray loop leaves alone.
onlyXray == UNCHANGED <<desired, authorized, config, leased, lastError, c, msg, acked, told>>

\* Steps of the Xray loop keep what the control loop relies on: they only begin with
\* a configuration that is in force, and make Xray ready only under one.
LEMMA XrayStep ==
  ASSUME IInv, onlyXray, pc' = [pc EXCEPT !["xray"] = pc'["xray"]], pc'["xray"] \in Label,
         ready' \in BOOLEAN, handle' \in BOOLEAN, cancelled' \in BOOLEAN, applied' \in Nat,
         running' \in (SUBSET User) \cup {None}, childUsers' \in SUBSET User, x' \in Round,
         ready' => ready \/ config.on, child' = "up" \/ pc'["xray"] = "start" => handle',
         handle' /\ ~config.on => cancelled',
         x'.config \in {x.config, config, noConfig}, x'.snap \in {x.snap, config, noConfig},
         x'.sameGen => (x.sameGen /\ x'.snap = x.snap) \/ x'.snap = config
  PROVE  Types' /\ StaysOff' /\ Revisions'
<1>0. Types /\ StaysOff /\ Revisions
  BY DEF IInv
<1>1. pc' \in [Thread -> Label] /\ pc'["control"] = pc["control"]
  BY <1>0 DEF Types
<1>2. Types'
  BY <1>0, <1>1 DEF Types, onlyXray
<1>3. StaysOff'
  BY <1>0, <1>1 DEF StaysOff, onlyXray
<1>4. genuine(noConfig)
  BY <1>0, EmptyRecords, ConfigFacts DEF genuine, Types
<1>5. x'.config.rev <= config.rev /\ x'.snap.rev <= config.rev
  BY <1>0, EmptyRecords, ConfigFacts DEF Revisions, Types, Round
<1>6. genuine(config) /\ genuine(x'.config) /\ genuine(x'.snap)
  BY <1>0, <1>4 DEF Revisions
<1>7. desired' = desired /\ config' = config /\ c' = c
  BY DEF onlyXray
<1>8. genuine(config)' /\ genuine(x.config)' /\ genuine(x.snap)'
  BY <1>6, <1>7 DEF genuine
<1>9. x'.sameGen /\ config.on => x'.snap = config
  BY <1>0 DEF Revisions
<1>10. Revisions'
  BY <1>0, <1>5, <1>7, <1>8, <1>9 DEF Revisions
<1> QED
  BY <1>2, <1>3, <1>10

\* The revisions in hand stay sound, with the one that the Xray loop may store.
LEMMA KnownRevisions ==
  ASSUME IInv, onlyXray, applied' = applied \/ sound(applied)',
         \A m \in Nat : sound(m) => sound(m)'
  PROVE  Served'
<1>1. applied \in Nat /\ \A t \in Thread : msg[t].rev \in Nat
  BY DEF IInv, Types, Message
<1>2. sound(applied)' /\ \A t \in Thread : sound(msg[t].rev)'
  BY <1>1 DEF IInv, Served, sound, starting, onlyXray
<1>3. AcknowledgedServed'
  BY DEF IInv, Served, AcknowledgedServed, onlyXray
<1> QED
  BY <1>2, <1>3 DEF Served

\* A round begins: with the configuration in force, or not at all.
LEMMA StepTop ==
  ASSUME IInv, wait \/ xrayLoop
  PROVE  IInv'
<1>0. Types /\ StaysOff /\ Revisions /\ Child
  BY DEF IInv
<1>1. CASE wait
  <2>1. /\ onlyXray /\ UNCHANGED <<ready, applied, running, handle, cancelled, child, childUsers, x>>
        /\ pc["xray"] \in {"wait", "backoff"} /\ pc' = [pc EXCEPT !["xray"] = "top"] /\ pc'["xray"] = "top"
    BY <1>0, <1>1, ZenonT(30) DEF wait, onlyXray, Types
  <2>2. Types' /\ StaysOff' /\ Revisions'
    BY <1>0, <2>1, XrayStep DEF Types, StaysOff, Label
  <2>3. Child'
    BY <1>0, <2>1 DEF Child, starting, serving, onlyXray
  <2>4. ASSUME NEW m \in Nat, sound(m) PROVE sound(m)'
    BY <2>1, <2>4 DEF sound, starting, onlyXray
  <2> QED
    BY <2>1, <2>2, <2>3, <2>4, KnownRevisions DEF IInv
<1>2. CASE xrayLoop /\ config.on /\ ~leased
  <2>1. /\ invalidateAuthorizationLocked(c) /\ c \in Refresh /\ pc["xray"] = "top" /\ pc' = [pc EXCEPT !["xray"] = "wait"]
        /\ UNCHANGED <<desired, authorized, leased, lastError, applied, running, handle, child, childUsers, msg, acked, told>>
    BY <1>0, <1>2 DEF xrayLoop, Types
  <2>2. pc' \in [Thread -> Label] /\ pc'["xray"] = "wait" /\ pc'["control"] = pc["control"]
    BY <1>0, <2>1 DEF Types, Label
  <2> QED
    BY <1>0, <2>1, <2>2, StepInvalidate DEF Types
<1>3. CASE xrayLoop /\ ~(config.on /\ ~leased)
  <2>1. /\ onlyXray /\ UNCHANGED <<applied, running, handle, cancelled, child, childUsers>>
        /\ pc["xray"] = "top" /\ pc' = [pc EXCEPT !["xray"] = pc'["xray"]]
        /\ pc'["xray"] = IF config.on THEN "prepare" ELSE "wait"
        /\ ~ready /\ ready' = FALSE
    BY <1>0, <1>3 DEF xrayLoop, onlyXray, Types, Child
  <2>2. /\ x' \in Round /\ x'.sameGen = FALSE /\ x'.snap = noConfig
        /\ config.on => x'.config = config /\ x'.users = config.users
        /\ ~config.on => x'.config = noConfig
    <3>1. CASE config.on
      <4>1. x' = [noRound EXCEPT !.config = config, !.users = config.users, !.sameEpoch = TRUE]
        BY <1>3, <3>1 DEF xrayLoop
      <4> QED
        BY <1>0, <3>1, <4>1, EmptyRecords, ConfigFacts DEF Types, Round
    <3>2. CASE ~config.on
      BY <1>3, <3>2, EmptyRecords DEF xrayLoop
    <3> QED
      BY <3>1, <3>2
  <2>3. Types' /\ StaysOff' /\ Revisions'
    BY <1>0, <2>1, <2>2, XrayStep DEF Types, StaysOff, Label
  <2>4. Child'
    BY <1>0, <2>1, <2>2 DEF Child, starting, serving, onlyXray
  <2>5. ASSUME NEW m \in Nat, sound(m) PROVE sound(m)'
    BY <2>1, <2>2, <2>5 DEF sound, starting, onlyXray
  <2> QED
    BY <2>1, <2>3, <2>4, <2>5, KnownRevisions DEF IInv
<1> QED
  BY <1>1, <1>2, <1>3

\* The configuration file is written, and the configuration in force read again.
LEMMA StepPrepare ==
  ASSUME IInv, writeXrayConfig \/ beforeStart
  PROVE  IInv'
<1>0. Types /\ StaysOff /\ Revisions /\ Child
  BY DEF IInv
<1>1. /\ onlyXray /\ UNCHANGED <<applied, running, handle, cancelled, child, childUsers>>
      /\ pc["xray"] \in {"prepare", "snapshot"} /\ pc' = [pc EXCEPT !["xray"] = pc'["xray"]]
      /\ pc'["xray"] \in {"backoff", "snapshot", "publish"}
      /\ ~ready /\ ready' = FALSE
  BY <1>0 DEF writeXrayConfig, beforeStart, snapshot, onlyXray, Types, Child, starting
<1>2. /\ x' \in Round
      /\ \/ pc'["xray"] = "backoff" /\ x' = noRound
         \/ pc'["xray"] # "backoff" /\ x' = x
         \/ /\ pc'["xray"] # "backoff" /\ x'.config = x.config /\ x'.users = x.users /\ x'.snap = config
  <2>1. CASE writeXrayConfig
    BY <1>0, <2>1, EmptyRecords DEF writeXrayConfig, Types
  <2>2. CASE beforeStart
    BY <1>0, <2>2 DEF beforeStart, snapshot, Types, Round
  <2> QED
    BY <2>1, <2>2
<1>3. Types' /\ StaysOff' /\ Revisions'
  BY <1>0, <1>1, <1>2, EmptyRecords, XrayStep, ZenonT(30) DEF Types, StaysOff, Label
<1>4. Child'
  BY <1>0, <1>1, <1>2 DEF Child, starting, serving, onlyXray
<1>5. ASSUME NEW m \in Nat, sound(m) PROVE sound(m)'
  BY <1>1, <1>2, <1>5 DEF sound, starting, onlyXray
<1> QED
  BY <1>1, <1>3, <1>4, <1>5, KnownRevisions DEF IInv

\* The context is published, unless another configuration came in between.
LEMMA StepPublish ==
  ASSUME IInv, publish
  PROVE  IInv'
<1>0. Types /\ StaysOff /\ Revisions /\ Child
  BY DEF IInv
<1>1. /\ onlyXray /\ UNCHANGED <<applied, ready, child, childUsers>> /\ pc["xray"] = "publish" /\ ~ready
      /\ pc' = [pc EXCEPT !["xray"] = pc'["xray"]] /\ pc'["xray"] \in {"start", "top"}
  BY <1>0 DEF publish, onlyXray, Types, Child, starting
<1>2. \/ pc'["xray"] = "start" /\ handle' = TRUE /\ cancelled' = FALSE /\ running' = x.users /\ config.on
      \/ pc'["xray"] = "top" /\ UNCHANGED <<handle, cancelled, running>>
  BY <1>0 DEF publish, Types
<1>3. /\ x' \in Round /\ x'.sameGen = FALSE /\ x'.snap = noConfig /\ x'.config \in {x.config, noConfig}
      /\ pc'["xray"] = "start" => x'.config = x.config /\ x'.users = x.users
  <2>1. CASE handle'
    <3>1. x' = [x EXCEPT !.snap = noConfig, !.sameGen = FALSE]
      BY <2>1 DEF publish
    <3> QED
      BY <1>0, <3>1, EmptyRecords, ZenonT(30) DEF Types, Round
  <2>2. CASE ~handle'
    <3>1. x' = noRound
      BY <2>2 DEF publish
    <3> QED
      BY <1>1, <1>2, <2>2, <3>1, EmptyRecords
  <2> QED
    BY <2>1, <2>2
<1>4. Types' /\ StaysOff' /\ Revisions'
  <2>1. x.users \in SUBSET User
    BY <1>0 DEF Types, Round
  <2>2. /\ handle' \in BOOLEAN /\ cancelled' \in BOOLEAN /\ running' \in (SUBSET User) \cup {None}
        /\ ready' \in BOOLEAN /\ applied' \in Nat /\ childUsers' \in SUBSET User /\ pc'["xray"] \in Label
    BY <1>0, <1>1, <1>2, <2>1, ZenonT(30) DEF Types, Label
  <2>3. /\ child' = "up" \/ pc'["xray"] = "start" => handle'
        /\ handle' /\ ~config.on => cancelled'
    BY <1>0, <1>1, <1>2 DEF StaysOff
  <2> QED
    BY <1>1, <1>3, <2>2, <2>3, XrayStep
<1>5. Child'
  BY <1>0, <1>1, <1>2, <1>3 DEF Child, starting, serving, onlyXray
<1>6. ASSUME NEW m \in Nat, sound(m) PROVE sound(m)'
  BY <1>1, <1>3, <1>6 DEF sound, starting, onlyXray
<1> QED
  BY <1>1, <1>4, <1>5, <1>6, KnownRevisions DEF IInv

\* The child starts with the users of the round, or does not start.
LEMMA StepStart ==
  ASSUME IInv, start
  PROVE  IInv'
<1>0. Types /\ StaysOff /\ Revisions /\ Child
  BY DEF IInv
<1>1. /\ onlyXray /\ UNCHANGED <<applied, ready, running, handle, cancelled, x>> /\ pc["xray"] = "start" /\ ~ready
      /\ pc' = [pc EXCEPT !["xray"] = pc'["xray"]]
      /\ \/ pc'["xray"] = "startup" /\ childUsers' = x.users
         \/ pc'["xray"] = "failed" /\ childUsers' = childUsers
  BY <1>0 DEF start, onlyXray, Types, Child, starting
<1>2. Types' /\ StaysOff' /\ Revisions'
  <2>1. x.users \in SUBSET User /\ handle
    BY <1>0, <1>1 DEF Types, Round, StaysOff
  <2> QED
    BY <1>0, <1>1, <2>1, XrayStep, ZenonT(30) DEF Types, StaysOff, Label
<1>3. Child'
  BY <1>0, <1>1 DEF Child, StaysOff, starting, serving, onlyXray
<1>4. ASSUME NEW m \in Nat, sound(m) PROVE sound(m)'
  BY <1>1, <1>4 DEF sound, starting, onlyXray
<1> QED
  BY <1>1, <1>2, <1>3, <1>4, KnownRevisions DEF IInv

\* The loop reads the configuration in force with a child running, or stops.
LEMMA StepSnapshot ==
  ASSUME IInv, childEnds \/ started \/ changed
  PROVE  IInv'
<1>0. Types /\ StaysOff /\ Revisions /\ Child
  BY DEF IInv
<1>1. /\ onlyXray /\ UNCHANGED <<applied, ready, running, handle, cancelled, child, childUsers>>
      /\ pc["xray"] \in {"startup", "run"} /\ pc' = [pc EXCEPT !["xray"] = pc'["xray"]]
      /\ \/ pc'["xray"] \in {"stop", "failed"} /\ x' = noRound
         \/ /\ x' = [x EXCEPT !.snap = config, !.sameGen = TRUE]
            /\ <<pc["xray"], pc'["xray"]>> \in {<<"startup", "settle">>, <<"run", "reconcile">>}
  BY <1>0 DEF childEnds, started, changed, snapshot, onlyXray, Types
<1>2. /\ x' \in Round
      /\ \/ x' = noRound
         \/ x'.config = x.config /\ x'.users = x.users /\ x'.snap = config
  BY <1>0, <1>1, EmptyRecords DEF Types, Round
<1>3. Types' /\ StaysOff' /\ Revisions'
  BY <1>0, <1>1, <1>2, EmptyRecords, XrayStep DEF Types, StaysOff, Label
<1>4. pc'["xray"] \in {"settle", "reconcile"} => /\ x'.config = x.config /\ x'.users = x.users /\ x'.snap = config
  BY <1>0, <1>1 DEF Types, Round
<1>5. Child'
  BY <1>0, <1>1, <1>4 DEF Child, StaysOff, starting, serving, onlyXray
<1>6. ASSUME NEW m \in Nat, sound(m) PROVE sound(m)'
  BY <1>1, <1>4, <1>6 DEF sound, starting, onlyXray
<1> QED
  BY <1>1, <1>3, <1>5, <1>6, KnownRevisions DEF IInv

\* Xray is ready: the round began with the newest revision that was known to be
\* applied or reported, so if that is the desired one the child has its users.
LEMMA StepSettle ==
  ASSUME IInv, settle
  PROVE  IInv'
<1>0. Types /\ StaysOff /\ Revisions /\ Child /\ Served
  BY DEF IInv
<1>1. /\ onlyXray /\ UNCHANGED <<applied, running, handle, cancelled, child, childUsers, x>> /\ pc["xray"] = "settle"
      /\ pc' = [pc EXCEPT !["xray"] = pc'["xray"]] /\ ~ready
      /\ \/ pc'["xray"] = "settled" /\ ready' = TRUE /\ x.sameGen /\ config.on
         \/ pc'["xray"] = "cancel" /\ ready' = FALSE
  <2>1. ready = FALSE /\ pc["xray"] = "settle"
    BY <1>0 DEF settle, Types, Child, starting
  <2> QED
    BY <1>0, <2>1 DEF settle, onlyXray, Types
<1>2. Types' /\ StaysOff' /\ Revisions'
  <2>1. ready' \in BOOLEAN /\ (ready' => config.on)
    BY <1>1, Zenon
  <2> QED
    BY <1>0, <1>1, <2>1, XrayStep, ZenonT(30) DEF Types, StaysOff, Label
<1>3. Child'
  BY <1>0, <1>1 DEF Child, starting, serving, onlyXray
<1>4. x.config.on /\ x.users = x.config.users /\ childUsers = x.users /\ genuine(x.config) /\ starting
  BY <1>0, <1>1 DEF Child, starting, serving, Revisions
<1>5. x.config.rev \in Nat /\ desired.rev \in Nat
  BY <1>0, ConfigFacts DEF Types, Round
<1>6. ASSUME NEW m \in Nat, sound(m) PROVE sound(m)'
  <2>1. m <= config.rev /\ m <= x.config.rev
    BY <1>4, <1>6 DEF sound
  <2>2. m >= desired.rev => desired.users \subseteq childUsers
    BY <1>4, <1>5, <2>1 DEF genuine
  <2> QED
    BY <1>1, <2>1, <2>2 DEF sound, starting, onlyXray
<1> QED
  BY <1>1, <1>2, <1>3, <1>6, KnownRevisions DEF IInv

\* The revision that is stored when Xray is ready is the one whose users it has.
LEMMA StepSettled ==
  ASSUME IInv, settled
  PROVE  IInv'
<1>0. Types /\ StaysOff /\ Revisions /\ Child /\ Served
  BY DEF IInv
<1>1. /\ onlyXray /\ UNCHANGED <<ready, running, handle, cancelled, child, childUsers>> /\ pc["xray"] = "settled"
      /\ pc' = [pc EXCEPT !["xray"] = "run"] /\ pc'["xray"] = "run"
      /\ applied' = IF x.snap.users = x.users THEN config.rev ELSE x.config.rev
  BY <1>0 DEF settled, onlyXray, Types
<1>2. /\ x' \in Round /\ x'.users = x.users /\ x'.config = noConfig /\ x'.snap = noConfig /\ x'.sameGen = FALSE
  <2>1. x' = [noRound EXCEPT !.users = x.users, !.sameEpoch = x.sameEpoch]
    BY DEF settled
  <2> QED
    BY <1>0, <2>1, EmptyRecords, ZenonT(30) DEF Types, Round
<1>3. config.rev \in Nat /\ x.config.rev \in Nat /\ desired.rev \in Nat
  BY <1>0, ConfigFacts DEF Types, Round
<1>4. Types' /\ StaysOff' /\ Revisions'
  BY <1>0, <1>1, <1>2, <1>3, XrayStep DEF Types, StaysOff, Label
<1>5. Child'
  BY <1>0, <1>1, <1>2 DEF Child, starting, serving, onlyXray
<1>6. ASSUME NEW m \in Nat, sound(m) PROVE sound(m)'
  BY <1>1, <1>6 DEF sound, starting, onlyXray
<1>7. sound(applied)'
  <2>1. /\ x.snap = config /\ config.on /\ childUsers = x.users /\ x.config.on /\ x.users = x.config.users
        /\ genuine(config) /\ genuine(x.config)
    BY <1>0, <1>1 DEF Child, serving, Revisions
  <2>2. applied' <= config.rev
    BY <1>0, <1>1, <1>3 DEF Revisions
  <2>3. applied' >= desired.rev => desired.users \subseteq childUsers
    <3>1. CASE x.snap.users = x.users
      <4>1. applied' = config.rev /\ config.users = x.users
        BY <1>1, <2>1, <3>1
      <4> QED
        BY <1>3, <2>1, <4>1 DEF genuine
    <3>2. CASE x.snap.users # x.users
      <4>1. applied' = x.config.rev
        BY <1>1, <3>2
      <4> QED
        BY <1>3, <2>1, <4>1 DEF genuine
    <3> QED
      BY <3>1, <3>2
  <2> QED
    BY <1>1, <2>2, <2>3 DEF sound, starting, onlyXray
<1> QED
  BY <1>1, <1>4, <1>5, <1>6, <1>7, KnownRevisions DEF IInv

\* A signal is served without a restart: the revision in force has the users that
\* the child has, or they are going to be added.
LEMMA StepReconcile ==
  ASSUME IInv, reconcile
  PROVE  IInv'
<1>0. Types /\ StaysOff /\ Revisions /\ Child /\ Served
  BY DEF IInv
<1> DEFINE same == x.sameGen /\ config.on /\ ~cancelled /\ x.sameEpoch /\ leased /\ x.snap.users = x.users
<1>1. /\ onlyXray /\ UNCHANGED <<ready, running, handle, cancelled, child, childUsers>> /\ pc["xray"] = "reconcile"
      /\ pc' = [pc EXCEPT !["xray"] = pc'["xray"]]
      /\ \/ same /\ pc'["xray"] = "run" /\ applied' = config.rev
         \/ ~same /\ pc'["xray"] \in {"hotAdd", "cancel"} /\ applied' = applied
  BY <1>0 DEF reconcile, onlyXray, Types
<1>2. /\ x' \in Round /\ x'.users = x.users /\ x'.config = x.config /\ x'.sameGen = FALSE
      /\ x'.snap \in {noConfig, x.snap} /\ (~same => x'.snap = x.snap)
  <2>1. x' = [x EXCEPT !.sameGen = FALSE, !.snap = IF same THEN noConfig ELSE x.snap]
    BY DEF reconcile
  <2>2. PICK d \in {noConfig, x.snap} : d = IF same THEN noConfig ELSE x.snap
    OBVIOUS
  <2>3. d \in Config
    BY <1>0, <2>2, EmptyRecords DEF Types, Round
  <2>4. x \in Round /\ x' = [x EXCEPT !.sameGen = FALSE, !.snap = d] /\ (~same => d = x.snap)
    BY <1>0, <2>1, <2>2 DEF Types
  <2> HIDE DEF same
  <2>5. x' \in Round /\ x'.users = x.users /\ x'.config = x.config /\ x'.sameGen = FALSE /\ x'.snap = d
    BY <2>3, <2>4 DEF Round
  <2> QED
    BY <2>2, <2>4, <2>5
<1>3. config.rev \in Nat /\ desired.rev \in Nat
  BY <1>0, ConfigFacts DEF Types
<1>4. Types' /\ StaysOff' /\ Revisions'
  BY <1>0, <1>1, <1>2, <1>3, XrayStep, ZenonT(30) DEF Types, StaysOff, Label
<1>5. Child'
  BY <1>0, <1>1, <1>2, ZenonT(30) DEF Child, starting, serving, onlyXray
<1>6. ASSUME NEW m \in Nat, sound(m) PROVE sound(m)'
  BY <1>1, <1>6 DEF sound, starting, onlyXray
<1>7. applied' = applied \/ sound(applied)'
  <2> SUFFICES ASSUME same, applied' = config.rev, pc'["xray"] = "run" PROVE sound(applied)'
    BY <1>1
  <2>1. /\ x.snap = config /\ config.on /\ childUsers = x.users /\ x.snap.users = x.users /\ genuine(config)
    BY <1>0, <1>1 DEF Child, serving, Revisions
  <2>2. applied' >= desired.rev => desired.users \subseteq childUsers
    BY <1>3, <2>1 DEF genuine
  <2> QED
    BY <1>1, <1>3, <2>2 DEF sound, starting, onlyXray
<1> QED
  BY <1>1, <1>4, <1>5, <1>6, <1>7, KnownRevisions DEF IInv

\* Users are added to the running child, all of them or, when a call fails, some.
LEMMA StepHotAdd ==
  ASSUME IInv, hotAddXrayConfig
  PROVE  IInv'
<1>0. Types /\ StaysOff /\ Revisions /\ Child /\ Served
  BY DEF IInv
<1>1. /\ onlyXray /\ UNCHANGED <<ready, applied, running, handle, cancelled, child>> /\ pc["xray"] = "hotAdd"
      /\ pc' = [pc EXCEPT !["xray"] = pc'["xray"]] /\ childUsers = x.users /\ x.snap.users \in SUBSET User
  BY <1>0, ConfigFacts DEF hotAddXrayConfig, onlyXray, Types, Child, serving, Round
<1>2. /\ childUsers \subseteq childUsers' /\ childUsers' \in SUBSET User
      /\ \/ pc'["xray"] = "report" /\ x' = noRound
         \/ /\ pc'["xray"] = "commit" /\ childUsers' = x.snap.users
            /\ x' = [x EXCEPT !.users = x.snap.users]
  BY <1>0, <1>1 DEF hotAddXrayConfig, Types
<1>3. /\ x' \in Round
      /\ \/ x' = noRound
         \/ x'.config = x.config /\ x'.snap = x.snap /\ ~x'.sameGen
      /\ pc'["xray"] = "commit" => x'.snap = x.snap /\ x'.users = x.snap.users
  <2>1. CASE pc'["xray"] = "report"
    BY <1>2, <2>1, EmptyRecords
  <2>2. CASE pc'["xray"] = "commit"
    BY <1>0, <1>1, <1>2, <2>2 DEF Types, Round, Child
  <2> QED
    BY <1>2, <2>1, <2>2
<1>4. Types' /\ StaysOff' /\ Revisions'
  BY <1>0, <1>1, <1>2, <1>3, EmptyRecords, XrayStep DEF Types, StaysOff, Label
<1>5. Child'
  <2>1. ready => running = None \/ running \subseteq childUsers'
    BY <1>0, <1>2 DEF Child
  <2>2. CASE pc'["xray"] = "report"
    BY <1>0, <1>1, <2>1, <2>2 DEF Child, starting, serving, onlyXray
  <2>3. CASE pc'["xray"] = "commit"
    <3>1. ~x'.sameGen /\ x'.users = x'.snap.users /\ childUsers' = x'.users
      BY <1>0, <1>1, <1>2, <1>3, <2>3, EmptyRecords DEF Types, Round, Child
    <3>2. handle /\ (~cancelled => x'.snap.on)
      BY <1>0, <1>1, <1>3, <2>3 DEF Child
    <3> QED
      BY <1>1, <2>1, <2>3, <3>1, <3>2 DEF Child, starting, serving, onlyXray
  <2> QED
    BY <1>2, <2>2, <2>3
<1>6. ASSUME NEW m \in Nat, sound(m) PROVE sound(m)'
  BY <1>1, <1>2, <1>6 DEF sound, starting, onlyXray
<1> QED
  BY <1>1, <1>4, <1>5, <1>6, KnownRevisions DEF IInv

\* The revision whose users were added is stored, unless the context was cancelled.
LEMMA StepCommit ==
  ASSUME IInv, commit
  PROVE  IInv'
<1>0. Types /\ StaysOff /\ Revisions /\ Child /\ Served
  BY DEF IInv
<1>1. /\ onlyXray /\ UNCHANGED <<ready, handle, cancelled, child, childUsers>> /\ pc["xray"] = "commit"
      /\ pc' = [pc EXCEPT !["xray"] = "run"] /\ pc'["xray"] = "run"
      /\ \/ ~cancelled /\ config.on /\ running' = x.users /\ applied' = x.snap.rev
         \/ running' = running /\ applied' = applied
  BY <1>0 DEF commit, onlyXray, Types
<1>2. /\ x' \in Round /\ x'.users = x.users /\ x'.config = x.config /\ x'.snap = noConfig /\ x'.sameGen = x.sameGen
  <2>1. x' = [x EXCEPT !.snap = noConfig]
    BY DEF commit
  <2> QED
    BY <1>0, <2>1, EmptyRecords DEF Types, Round
<1>3. x.snap.rev \in Nat /\ x.users \in SUBSET User /\ desired.rev \in Nat /\ ~x.sameGen
  BY <1>0, <1>1, ConfigFacts DEF Types, Round, Child
<1>4. Types' /\ StaysOff' /\ Revisions'
  BY <1>0, <1>1, <1>2, <1>3, XrayStep, ZenonT(30) DEF Types, StaysOff, Label
<1>5. Child'
  BY <1>0, <1>1, <1>2, ZenonT(30) DEF Child, starting, serving, onlyXray
<1>6. ASSUME NEW m \in Nat, sound(m) PROVE sound(m)'
  BY <1>1, <1>6 DEF sound, starting, onlyXray
<1>7. applied' = applied \/ sound(applied)'
  <2> SUFFICES ASSUME ~cancelled, applied' = x.snap.rev PROVE sound(applied)'
    BY <1>1
  <2>1. x.snap.on /\ childUsers = x.users /\ x.users = x.snap.users /\ genuine(x.snap)
    BY <1>0, <1>1 DEF Child, serving, Revisions
  <2>2. applied' >= desired.rev => desired.users \subseteq childUsers
    BY <1>3, <2>1 DEF genuine
  <2>3. applied' <= config.rev
    BY <1>0, <1>3 DEF Revisions
  <2> QED
    BY <1>1, <2>2, <2>3 DEF sound, starting, onlyXray
<1> QED
  BY <1>1, <1>4, <1>5, <1>6, <1>7, KnownRevisions DEF IInv

\* The child is stopped and the loop starts over.
LEMMA StepStop ==
  ASSUME IInv, cancel \/ retire \/ retired
  PROVE  IInv'
<1>0. Types /\ StaysOff /\ Revisions /\ Child /\ Served
  BY DEF IInv
<1>1. CASE cancel
  <2>1. /\ onlyXray /\ UNCHANGED <<ready, applied, running, handle, child, childUsers>> /\ pc["xray"] = "cancel"
        /\ pc' = [pc EXCEPT !["xray"] = "stop"] /\ pc'["xray"] = "stop" /\ cancelled' = TRUE /\ x' = noRound
    BY <1>0, <1>1 DEF cancel, onlyXray, Types
  <2>2. Types' /\ StaysOff' /\ Revisions'
    BY <1>0, <2>1, EmptyRecords, XrayStep, ZenonT(30) DEF Types, StaysOff, Label
  <2>3. Child'
    BY <1>0, <2>1, ZenonT(30) DEF Child, starting, serving, onlyXray
  <2>4. ASSUME NEW m \in Nat, sound(m) PROVE sound(m)'
    BY <2>1, <2>4 DEF sound, starting, onlyXray
  <2> QED
    BY <2>1, <2>2, <2>3, <2>4, KnownRevisions DEF IInv
<1>2. CASE retire
  <2>1. /\ onlyXray /\ UNCHANGED <<ready, applied, childUsers, x>> /\ pc["xray"] \in {"stop", "failed"}
        /\ pc' = [pc EXCEPT !["xray"] = pc'["xray"]] /\ pc'["xray"] \in {"retired", "retiredFailed"}
        /\ handle' = FALSE /\ running' = None /\ child' = "none" /\ cancelled' = FALSE
    BY <1>0, <1>2 DEF retire, onlyXray, Types
  <2>2. Types' /\ StaysOff' /\ Revisions'
    <3>1. handle' \in BOOLEAN /\ cancelled' \in BOOLEAN /\ ~handle' /\ child' # "up" /\ pc'["xray"] # "start"
      BY <2>1, ZenonT(30)
    <3>2. pc'["xray"] \in Label
      BY <2>1 DEF Label
    <3> QED
      BY <1>0, <2>1, <3>1, <3>2, XrayStep DEF Types
  <2>3. Child'
    BY <1>0, <2>1 DEF Child, starting, serving, onlyXray
  <2>4. ASSUME NEW m \in Nat, sound(m) PROVE sound(m)'
    BY <2>1, <2>4 DEF sound, starting, onlyXray
  <2> QED
    BY <2>1, <2>2, <2>3, <2>4, KnownRevisions DEF IInv
<1>3. CASE retired
  <2>1. /\ onlyXray /\ UNCHANGED <<applied, running, handle, cancelled, child>>
        /\ pc["xray"] \in {"retired", "retiredFailed"} /\ pc'["xray"] \in {"top", "backoff"}
        /\ pc' = [pc EXCEPT !["xray"] = pc'["xray"]] /\ ready' = FALSE /\ childUsers' = {} /\ x' = noRound
    BY <1>0, <1>3 DEF retired, onlyXray, Types
  <2>2. Types' /\ StaysOff' /\ Revisions'
    BY <1>0, <2>1, EmptyRecords, XrayStep, ZenonT(30) DEF Types, StaysOff, Label
  <2>3. Child'
    BY <1>0, <2>1, ZenonT(30) DEF Child, starting, serving, onlyXray
  <2>4. ASSUME NEW m \in Nat, sound(m) PROVE sound(m)'
    BY <2>1, <2>4 DEF sound, starting, onlyXray
  <2> QED
    BY <2>1, <2>2, <2>3, <2>4, KnownRevisions DEF IInv
<1> QED
  BY <1>1, <1>2, <1>3

-----------------------------------------------------------------------------
(* The specification.                                                      *)

\* A Gateway begins without a configuration and without a child.
LEMMA InitInvariant == Init => IInv
<1> SUFFICES ASSUME Init PROVE IInv
  OBVIOUS
<1>1. pc \in [Thread -> Label] /\ pc["control"] = "idle" /\ pc["xray"] = "wait"
  BY DEF Init, Label
<1>2. desired \in Config /\ desired.rev = 1 /\ (desired.on \/ desired.users = {})
  BY DEF Init
<1>3. msg \in [Thread -> Message] /\ \A t \in Thread : msg[t].rev = 0
  BY EmptyRecords DEF Init
<1>4. Types
  <2>1. /\ authorized \in BOOLEAN /\ told \in BOOLEAN /\ leased \in BOOLEAN /\ lastError \in BOOLEAN
        /\ ready \in BOOLEAN /\ handle \in BOOLEAN /\ cancelled \in BOOLEAN
    BY Zenon DEF Init
  <2>2. applied \in Nat /\ running \in (SUBSET User) \cup {None} /\ childUsers \in SUBSET User
    BY DEF Init
  <2>3. config \in Config /\ c \in Refresh /\ x \in Round
    BY EmptyRecords DEF Init
  <2> QED
    BY <1>1, <1>2, <1>3, <2>1, <2>2, <2>3 DEF Types
<1>5. StaysOff
  BY <1>1, EmptyRecords DEF Init, StaysOff
<1>6. Revisions
  <2>1. config = noConfig /\ x.config = noConfig /\ x.snap = noConfig /\ ~x.sameGen /\ c.resp = None
    BY EmptyRecords DEF Init
  <2>2. genuine(noConfig)
    BY <1>2, EmptyRecords DEF genuine
  <2> QED
    BY <1>2, <2>1, <2>2, EmptyRecords DEF Revisions
<1>7. Child
  BY <1>1 DEF Init, Child, starting, serving
<1>8. sound(0)
  BY <1>1, <1>2, EmptyRecords DEF Init, sound, starting
<1>9. Served
  BY <1>3, <1>8 DEF Init, Served, AcknowledgedServed
<1> QED
  BY <1>4, <1>5, <1>6, <1>7, <1>9 DEF IInv

\* Every step preserves the invariant.
LEMMA Inductive == IInv /\ [Next]_vars => IInv'
<1> SUFFICES ASSUME IInv, [Next]_vars PROVE IInv'
  OBVIOUS
<1>1. CASE UNCHANGED vars
  <2>1. UNCHANGED <<desired, authorized, config, leased, lastError, ready, applied, running, handle, cancelled,
                    child, childUsers, pc, c, x, msg, acked, told>>
    BY <1>1 DEF vars
  <2>2. Types'
    BY <2>1 DEF IInv, Types
  <2>3. StaysOff'
    BY <2>1 DEF IInv, StaysOff
  <2>4. Revisions'
    BY <2>1 DEF IInv, Revisions, genuine
  <2>5. Child' /\ Served'
    BY <2>1, Frame
  <2> QED
    BY <2>2, <2>3, <2>4, <2>5 DEF IInv
<1>2. CASE environment \/ childExits
  BY <1>2, StepEnvironment
<1>3. CASE watchAuthorization \/ invalidateAuthorization \/ \E t \in Thread : sendRejected(t)
  BY <1>3, StepRefused
<1>4. CASE controlLoop \/ statusTick
  BY <1>4, StepRefresh, StepRefused, StepApplyConfig DEF controlLoop
<1>5. CASE runXray
  BY <1>5, StepTop, StepPrepare, StepPublish, StepStart, StepSnapshot, StepSettle, StepSettled,
     StepReconcile, StepHotAdd, StepCommit, StepStop DEF runXray
<1>6. ASSUME NEW t \in Thread, report(t)
      PROVE  IInv'
  BY <1>6, StepReport, StepRefused DEF report
<1> QED
  BY <1>1, <1>2, <1>3, <1>4, <1>5, <1>6 DEF Next

\* The invariant implies both properties.
LEMMA InvariantSafe == IInv => AcknowledgedServed /\ RevokedStaysOff
BY DEF IInv, Served, StaysOff, RevokedStaysOff

-----------------------------------------------------------------------------
(* What holds in every reachable state.                                    *)

\* The invariant of the two loops and of the Xray child always holds.
THEOREM Invariant == Spec => []IInv
<1> QED
  BY InitInvariant, Inductive, PTL DEF Spec

\* A revision that the Controller takes as acknowledged is served: Xray had been
\* given all its users.
THEOREM AcknowledgedTheorem == Spec => []AcknowledgedServed
<1>1. Spec => []IInv
  BY Invariant
<1> QED
  BY <1>1, InvariantSafe, PTL

\* A Gateway that learned of its removal stays off, and no child runs on while it is
\* off unless its context is cancelled.
THEOREM RevokedTheorem == Spec => []RevokedStaysOff
<1>1. Spec => []IInv
  BY Invariant
<1> QED
  BY <1>1, InvariantSafe, PTL

=============================================================================
