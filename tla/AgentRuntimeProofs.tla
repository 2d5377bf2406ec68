------------------------- MODULE AgentRuntimeProofs -------------------------
(***************************************************************************)
(* The safety of an Agent's goroutines, for any number of Links, grants,   *)
(* connections, goroutines and stream slots, and for any configurations    *)
(* the Controller may answer with.                                         *)
(***************************************************************************)
EXTENDS AgentRuntime, FiniteSetTheorems, TLAPS

\* The provers for a step, in turn: most need no more than Zenon.
USE ZenonT(4), SMTT(30), ZenonT(30)

-----------------------------------------------------------------------------
(* The inductive invariant.                                                *)

\* What is needed to know of a configuration.
Shaped(c) ==
  /\ c = [on |-> c.on, policy |-> c.policy, links |-> c.links]
  /\ c.on \in BOOLEAN /\ c.policy \subseteq Target
  /\ \A l \in DOMAIN c.links : c.links[l].tunnel \in Tunnel

WorkerRecord ==
  [pc : {"none", "loop", "session", "dial", "up", "ended", "failed", "backoff"},
   key : Key \cup {None}, tunnel : Tunnel \cup {None}, cancelled : BOOLEAN]

StreamRecord ==
  [pc : {"none", "request", "registered", "dial", "relay"}, w : Worker \cup {None}, link : Link \cup {None},
   grant : Grant \cup {None}, policy : SUBSET Target, target : Target \cup {None}, cancelled : BOOLEAN]

Loop ==
  /\ Shaped(desired) /\ Shaped(config)
  /\ pc \in {"fetch", "apply"} => got = [epoch |-> got.epoch, config |-> got.config]
  /\ pc = "apply" => Shaped(got.config)

\* The goroutine registered for a key runs it; one that runs and has not been
\* cancelled is registered, for a connection that the configuration in force asks
\* for with these settings.
Workers ==
  /\ workers \in [Key -> Worker \cup {None}]
  /\ worker \in [Worker -> WorkerRecord]
  /\ \A k \in Key : workers[k] # None =>
       worker[workers[k]].pc # "none" /\ ~worker[workers[k]].cancelled /\ worker[workers[k]].key = k
  /\ \A w \in Worker : worker[w].pc # "none" => worker[w].key \in Key
  /\ \A w \in Worker : worker[w].pc # "none" /\ ~worker[w].cancelled =>
       /\ workers[worker[w].key] = w /\ worker[w].key \in desiredKeys(config)
       /\ worker[w].tunnel = config.links[worker[w].key[1]].tunnel

Cores == core \in [Link -> Tunnel \cup {None}] /\ CoresCurrent

up(l) == {w \in Worker : at(w, "up") /\ linkOf(w) = l}

\* A Link's entry counts no more sessions than are open, and at least one when
\* it says ready.
Statuses ==
  /\ status = [l \in Link |-> status[l]]
  /\ \A l \in Link : status[l] # None =>
       /\ status[l] \in [conns : Nat, ready : BOOLEAN]
       /\ status[l].conns <= Cardinality(up(l)) /\ (status[l].ready => status[l].conns > 0)

\* A registered stream that has not been cancelled is allowed, and filters with the
\* policy in force until it is connected to an address of it.
streamOK(r) ==
  /\ r.pc # "relay" => r.target = None
  /\ r.pc \in {"registered", "dial", "relay"} /\ ~r.cancelled =>
       /\ grantAllowedLocked(config, TRUE, r.link, r.grant)
       /\ r.pc \in {"dial", "relay"} => IF r.target = None THEN r.policy = config.policy ELSE r.target \in config.policy

Streams == stream \in [Slot -> StreamRecord] /\ \A s \in Slot : streamOK(stream[s])

IInv == Loop /\ Workers /\ Cores /\ Statuses /\ Streams

-----------------------------------------------------------------------------
(* Operators of the model.                                                 *)

\* A configuration of the Controller has the fields that the Agent reads.
LEMMA SnapshotShaped ==
  ASSUME NEW d \in Snapshot
  PROVE  Shaped(d)
<1>1. d \in Config
  BY ConfigAssumption
<1>2. PICK D \in SUBSET Link : d.links \in [D -> LinkConfig]
  BY <1>1 DEF Config
<1>3. \A l \in DOMAIN d.links : d.links[l].tunnel \in Tunnel
  BY <1>2 DEF LinkConfig
<1> QED
  BY <1>1, <1>3 DEF Config, Shaped

\* The records outside a connection and outside a stream have their types.
LEMMA EmptyRecords ==
  NoWorker \in WorkerRecord /\ NoStream \in StreamRecord /\ streamOK(NoStream)
<1>1. NoWorker \in WorkerRecord
  BY DEF NoWorker, WorkerRecord
<1>2. NoStream \in StreamRecord
  BY DEF NoStream, StreamRecord
<1>3. streamOK(NoStream)
  BY DEF NoStream, streamOK
<1> QED
  BY <1>1, <1>2, <1>3

\* cancel only sets flags: it changes no other field of a goroutine or stream.
LEMMA CancelFacts ==
  ASSUME worker \in [Worker -> WorkerRecord], stream \in [Slot -> StreamRecord],
         NEW ws, NEW ss, cancel(ws, ss)
  PROVE  /\ worker' \in [Worker -> WorkerRecord]
         /\ \A w \in Worker : /\ worker'[w].pc = worker[w].pc /\ worker'[w].key = worker[w].key
                              /\ worker'[w].tunnel = worker[w].tunnel
                              /\ worker'[w].cancelled = (worker[w].cancelled \/ w \in ws)
         /\ stream' \in [Slot -> StreamRecord]
         /\ \A s \in Slot : /\ stream'[s].pc = stream[s].pc /\ stream'[s].link = stream[s].link
                            /\ stream'[s].grant = stream[s].grant /\ stream'[s].policy = stream[s].policy
                            /\ stream'[s].target = stream[s].target
                            /\ stream[s].cancelled \/ s \in ss => stream'[s].cancelled
<1>1. ASSUME NEW w \in Worker
      PROVE  /\ worker'[w] \in WorkerRecord
             /\ worker'[w].pc = worker[w].pc /\ worker'[w].key = worker[w].key
             /\ worker'[w].tunnel = worker[w].tunnel
             /\ worker'[w].cancelled = (worker[w].cancelled \/ w \in ws)
  <2>1. worker[w] \in WorkerRecord
    OBVIOUS
  <2>2. CASE w \in ws
    <3>1. worker'[w] = [worker[w] EXCEPT !.cancelled = TRUE]
      BY <2>2 DEF cancel
    <3> QED
      BY <2>1, <2>2, <3>1 DEF WorkerRecord
  <2>3. CASE w \notin ws
    <3>1. worker'[w] = worker[w]
      BY <2>3 DEF cancel
    <3> QED
      BY <2>1, <2>3, <3>1 DEF WorkerRecord
  <2> QED
    BY <2>2, <2>3
<1>2. ASSUME NEW s \in Slot
      PROVE  /\ stream'[s] \in StreamRecord
             /\ stream'[s].pc = stream[s].pc /\ stream'[s].link = stream[s].link
             /\ stream'[s].grant = stream[s].grant /\ stream'[s].policy = stream[s].policy
             /\ stream'[s].target = stream[s].target
             /\ stream[s].cancelled \/ s \in ss => stream'[s].cancelled
  <2>1. stream[s] \in StreamRecord
    OBVIOUS
  <2>2. CASE s \in ss \/ stream[s].w \in ws
    <3>1. stream'[s] = [stream[s] EXCEPT !.cancelled = TRUE]
      BY <2>2 DEF cancel
    <3> QED
      BY <2>1, <2>2, <3>1 DEF StreamRecord
  <2>3. CASE ~(s \in ss \/ stream[s].w \in ws)
    <3>1. stream'[s] = stream[s]
      BY <2>3 DEF cancel
    <3> QED
      BY <2>1, <2>3, <3>1
  <2> QED
    BY <2>2, <2>3
<1>3. worker' = [w \in Worker |-> worker'[w]] /\ stream' = [s \in Slot |-> stream'[s]]
  BY DEF cancel
<1> QED
  BY <1>1, <1>2, <1>3

\* The open sessions of a Link are finitely many.
LEMMA UpFinite ==
  ASSUME NEW l
  PROVE  IsFiniteSet(up(l)) /\ Cardinality(up(l)) \in Nat
BY SetAssumption, FS_Subset, FS_CardinalityType DEF up

\* Steps that neither open nor close a session and change no entry.
LEMMA SameSessions ==
  ASSUME Statuses, status' = status,
         \A w \in Worker : (worker'[w].pc = "up") = (worker[w].pc = "up"),
         \A w \in Worker : worker[w].pc = "up" => worker'[w].key = worker[w].key
  PROVE  Statuses'
<1>1. \A l : up(l)' = up(l)
  BY DEF up, at, linkOf
<1> QED
  BY <1>1 DEF Statuses

\* A stream's step changes nothing else, and leaves a record that is in order.
LEMMA StreamStep ==
  ASSUME IInv, NEW s \in Slot, NEW r \in StreamRecord, streamOK(r), becomes(s, r), onlyStream
  PROVE  IInv'
<1>1. Loop' /\ Workers' /\ Cores'
  BY DEF IInv, onlyStream, loop, authorization, Loop, Workers, Cores, CoresCurrent, desiredKeys
<1>2. Statuses'
  BY SameSessions DEF IInv, onlyStream
<1>3. config' = config
  BY DEF onlyStream, authorization
<1>4. \A x : streamOK(x)' = streamOK(x)
  BY <1>3 DEF streamOK, grantAllowedLocked
<1>5. Streams'
  BY <1>4 DEF IInv, Streams, becomes
<1> QED
  BY <1>1, <1>2, <1>5 DEF IInv

-----------------------------------------------------------------------------
(* Streams.                                                                *)

\* A stream gets a slot.
LEMMA StepAcquire ==
  ASSUME IInv, NEW s \in Slot, NEW w \in Worker, acquireStreamSlot(s, w)
  PROVE  IInv'
<1> DEFINE r == [NoStream EXCEPT !.pc = "request", !.w = w, !.link = linkOf(w), !.cancelled = worker[w].cancelled]
<1>1. becomes(s, r) /\ onlyStream /\ at(w, "up")
  BY DEF acquireStreamSlot
<1>2. worker[w] \in WorkerRecord /\ worker[w].key \in Key
  BY <1>1 DEF IInv, Workers, at
<1>3. linkOf(w) \in Link /\ worker[w].cancelled \in BOOLEAN
  BY <1>2 DEF linkOf, Key, WorkerRecord
<1>4. NoStream \in StreamRecord /\ NoStream.target = None
  BY EmptyRecords DEF NoStream
<1>5. r \in StreamRecord /\ r.pc = "request" /\ r.target = None
  BY <1>3, <1>4 DEF StreamRecord
<1> HIDE DEF r
<1>6. streamOK(r)
  BY <1>5 DEF streamOK
<1> QED
  BY <1>1, <1>5, <1>6, StreamStep

\* handleStream registers a stream that is allowed.
LEMMA StepHandleStream ==
  ASSUME IInv, NEW s \in Slot, NEW g \in Grant, handleStream(s, g)
  PROVE  IInv'
<1>0. stream[s] \in StreamRecord /\ streamOK(stream[s]) /\ onlyStream /\ stream[s].pc = "request"
  BY DEF IInv, Streams, handleStream
<1>1. CASE grantAllowedLocked(config, leased, stream[s].link, g) /\ ~stream[s].cancelled
  <2> DEFINE r == [stream[s] EXCEPT !.pc = "registered", !.grant = g]
  <2>1. r \in StreamRecord
    BY <1>0 DEF StreamRecord
  <2>2. /\ r.pc = "registered" /\ r.grant = g /\ r.link = stream[s].link /\ r.target = stream[s].target
    BY <1>0 DEF StreamRecord
  <2>3. becomes(s, r)
    BY <1>1 DEF handleStream
  <2> HIDE DEF r
  <2>4. streamOK(r)
    BY <1>0, <1>1, <2>2 DEF streamOK, grantAllowedLocked
  <2> QED
    BY <1>0, <2>1, <2>3, <2>4, StreamStep
<1>2. CASE ~(grantAllowedLocked(config, leased, stream[s].link, g) /\ ~stream[s].cancelled)
  <2>1. becomes(s, NoStream)
    BY <1>2 DEF handleStream
  <2> QED
    BY <1>0, <2>1, StreamStep, EmptyRecords
<1> QED
  BY <1>1, <1>2

\* Both kinds of stream read the policy.
LEMMA StepPolicy ==
  ASSUME IInv, NEW s \in Slot, policy(s) \/ handleUDP(s)
  PROVE  IInv'
<1>0. stream[s] \in StreamRecord /\ streamOK(stream[s]) /\ stream[s].pc = "registered" /\ onlyStream
  BY DEF IInv, Streams, policy, handleUDP
<1>1. config.policy \subseteq Target
  BY DEF IInv, Loop, Shaped
<1>2. ASSUME NEW l \in {"dial", "relay"}, becomes(s, [stream[s] EXCEPT !.pc = l, !.policy = config.policy])
      PROVE  IInv'
  <2> DEFINE r == [stream[s] EXCEPT !.pc = l, !.policy = config.policy]
  <2>1. r \in StreamRecord
    BY <1>0, <1>1 DEF StreamRecord
  <2>2. /\ r.pc = l /\ r.policy = config.policy /\ r.grant = stream[s].grant /\ r.link = stream[s].link
        /\ r.target = stream[s].target /\ r.cancelled = stream[s].cancelled
    BY <1>0 DEF StreamRecord
  <2>3. becomes(s, r)
    BY <1>2
  <2> HIDE DEF r
  <2>4. streamOK(r)
    BY <1>0, <2>2 DEF streamOK
  <2> QED
    BY <1>0, <2>1, <2>3, <2>4, StreamStep
<1> QED
  BY <1>2 DEF policy, handleUDP

\* A TCP stream is connected and everything is checked again.
LEMMA StepHandleTCP ==
  ASSUME IInv, NEW s \in Slot, NEW t \in Target, handleTCP(s, t)
  PROVE  IInv'
<1>0. stream[s] \in StreamRecord /\ streamOK(stream[s]) /\ stream[s].pc = "dial" /\ onlyStream
  BY DEF IInv, Streams, handleTCP
<1> DEFINE again == /\ ~stream[s].cancelled /\ t \in config.policy
                    /\ grantAllowedLocked(config, leased, stream[s].link, stream[s].grant)
<1>1. CASE again
  <2> DEFINE r == [stream[s] EXCEPT !.pc = "relay", !.target = t, !.policy = {}]
  <2>1. r \in StreamRecord
    BY <1>0 DEF StreamRecord
  <2>2. r.pc = "relay" /\ r.target = t /\ r.grant = stream[s].grant /\ r.link = stream[s].link
    BY <1>0 DEF StreamRecord
  <2>3. becomes(s, r)
    BY <1>1 DEF handleTCP
  <2> HIDE DEF r
  <2>4. streamOK(r)
    BY <1>0, <1>1, <2>2, SetAssumption DEF streamOK, grantAllowedLocked
  <2> QED
    BY <1>0, <2>1, <2>3, <2>4, StreamStep
<1>2. CASE ~again
  <2>1. becomes(s, NoStream)
    BY <1>2 DEF handleTCP
  <2> QED
    BY <1>0, <2>1, StreamStep, EmptyRecords
<1> QED
  BY <1>1, <1>2

\* A step of a stream.
LEMMA StepRunStream ==
  ASSUME IInv, NEW s \in Slot, runStream(s)
  PROVE  IInv'
<1>1. CASE streamEnds(s)
  BY <1>1, StreamStep, EmptyRecords DEF streamEnds
<1> QED
  BY <1>1, StepAcquire, StepHandleStream, StepPolicy, StepHandleTCP DEF runStream

-----------------------------------------------------------------------------
(* Goroutines of a Link.                                                   *)

\* A goroutine moves on; it is not cancelled and keeps its connection.
LEMMA WorkerGoes ==
  ASSUME IInv, NEW w \in Worker, worker[w].pc # "none",
         NEW l \in {"loop", "session", "dial", "up", "ended", "failed", "backoff"}, goes(w, l),
         UNCHANGED <<config, workers>>
  PROVE  /\ Workers'
         /\ worker'[w].pc = l /\ worker'[w].key = worker[w].key
         /\ \A v \in Worker \ {w} : worker'[v] = worker[v]
<1> DEFINE r == [worker[w] EXCEPT !.pc = l]
<1>0. worker \in [Worker -> WorkerRecord] /\ worker[w] \in WorkerRecord
  BY DEF IInv, Workers
<1>1. r \in WorkerRecord
  BY <1>0 DEF WorkerRecord
<1>2. r.pc = l /\ r.key = worker[w].key /\ r.tunnel = worker[w].tunnel /\ r.cancelled = worker[w].cancelled
  BY <1>0 DEF WorkerRecord
<1>3. worker' = [worker EXCEPT ![w] = r]
  BY <1>0 DEF goes
<1> HIDE DEF r
<1>4. /\ worker' \in [Worker -> WorkerRecord] /\ worker'[w] = r
      /\ \A v \in Worker \ {w} : worker'[v] = worker[v]
  BY <1>0, <1>1, <1>3
<1>5. desiredKeys(config)' = desiredKeys(config)
  BY DEF desiredKeys
<1>6. \A v \in Worker : /\ (worker'[v].pc = "none") = (worker[v].pc = "none")
                        /\ worker'[v].key = worker[v].key /\ worker'[v].tunnel = worker[v].tunnel
                        /\ worker'[v].cancelled = worker[v].cancelled
  BY <1>2, <1>4
<1>7. Workers'
  BY <1>4, <1>5, <1>6 DEF IInv, Workers
<1> QED
  BY <1>2, <1>4, <1>7

\* A cancelled goroutine returns; nothing is registered for it any more.
LEMMA WorkerExits ==
  ASSUME IInv, NEW w \in Worker, worker[w].cancelled, exits(w), UNCHANGED <<config, workers>>
  PROVE  /\ Workers' /\ worker'[w].pc = "none"
         /\ \A v \in Worker \ {w} : worker'[v] = worker[v]
<1>1. /\ worker' \in [Worker -> WorkerRecord] /\ worker'[w] = NoWorker
      /\ \A v \in Worker \ {w} : worker'[v] = worker[v]
  BY EmptyRecords DEF IInv, Workers, exits
<1>2. desiredKeys(config)' = desiredKeys(config)
  BY DEF desiredKeys
<1>3. \A k \in Key : workers[k] # w
  BY SetAssumption DEF IInv, Workers
<1>4. NoWorker.pc = "none"
  BY DEF NoWorker
<1>5. Workers'
  BY <1>1, <1>2, <1>3, <1>4 DEF IInv, Workers
<1> QED
  BY <1>1, <1>4, <1>5

\* linkLoop, dialReality, dialFails and sessionEnded open and close no session.
LEMMA StepQuiet ==
  ASSUME IInv, NEW w \in Worker, linkLoop(w) \/ dialFails(w) \/ sessionEnded(w)
  PROVE  IInv'
<1>1. /\ UNCHANGED <<loop, authorization, workers, core, status, stream>>
      /\ worker[w].pc \in {"loop", "backoff", "dial", "ended"}
  BY DEF linkLoop, dialFails, sessionEnded, at
<1>2. UNCHANGED <<desired, config, pc, got, workers, core, status, stream>>
  BY <1>1 DEF loop, authorization
<1>3. \/ worker[w].cancelled /\ exits(w)
      \/ \E l \in {"loop", "session", "ended", "failed"} : goes(w, l)
  BY DEF linkLoop, dialFails, sessionEnded
<1>4. /\ Workers'
      /\ worker'[w].pc \in {"none", "loop", "session", "ended", "failed"}
      /\ \A v \in Worker \ {w} : worker'[v] = worker[v]
  <2>1. CASE worker[w].cancelled /\ exits(w)
    BY <1>2, <2>1, WorkerExits
  <2>2. ASSUME NEW l \in {"loop", "session", "ended", "failed"}, goes(w, l)
        PROVE  <1>4!1 /\ <1>4!2 /\ <1>4!3
    BY <1>1, <1>2, <2>2, WorkerGoes
  <2> QED
    BY <1>3, <2>1, <2>2
<1>5. Statuses'
  <2>1. \A v \in Worker : /\ (worker'[v].pc = "up") = (worker[v].pc = "up")
                          /\ worker[v].pc = "up" => worker'[v].key = worker[v].key
    BY <1>1, <1>4
  <2> QED
    BY <1>2, <2>1, SameSessions DEF IInv
<1>6. Loop' /\ Cores' /\ Streams'
  BY <1>2 DEF IInv, Loop, Cores, CoresCurrent, Streams, streamOK, grantAllowedLocked, Shaped
<1> QED
  BY <1>4, <1>5, <1>6 DEF IInv

\* dialReality makes a core for the settings in force only.
LEMMA StepDialReality ==
  ASSUME IInv, NEW w \in Worker, dialReality(w)
  PROVE  IInv'
<1>1. /\ UNCHANGED <<desired, config, pc, got, workers, status, stream>>
      /\ worker[w].pc = "session"
  BY DEF dialReality, at, loop, authorization
<1>2. \E l \in {"dial", "ended"} : goes(w, l)
  BY DEF dialReality
<1>3. /\ Workers' /\ worker'[w].pc \in {"dial", "ended"}
      /\ \A v \in Worker \ {w} : worker'[v] = worker[v]
  BY <1>1, <1>2, WorkerGoes
<1>4. Statuses'
  <2>1. \A v \in Worker : /\ (worker'[v].pc = "up") = (worker[v].pc = "up")
                          /\ worker[v].pc = "up" => worker'[v].key = worker[v].key
    BY <1>1, <1>3
  <2> QED
    BY <1>1, <2>1, SameSessions DEF IInv
<1>5. Cores'
  <2>1. CASE UNCHANGED core
    BY <1>1, <2>1 DEF IInv, Cores, CoresCurrent
  <2>2. CASE /\ worker[w].tunnel \in Reality /\ ~worker[w].cancelled
             /\ core' = [core EXCEPT ![linkOf(w)] = worker[w].tunnel]
    <3>1. /\ worker[w].key \in desiredKeys(config)
          /\ worker[w].tunnel = config.links[linkOf(w)].tunnel
      BY <1>1, <2>2 DEF IInv, Workers, linkOf
    <3>2. linkOf(w) \in Link /\ config.on /\ linkOf(w) \in DOMAIN config.links
      BY <3>1 DEF desiredKeys, Key, linkOf
    <3>3. worker[w].tunnel \in Tunnel
      BY <2>2, ConfigAssumption
    <3> QED
      BY <1>1, <2>2, <3>1, <3>2, <3>3 DEF IInv, Cores, CoresCurrent
  <2> QED
    BY <2>1, <2>2 DEF dialReality
<1>6. Loop' /\ Streams'
  BY <1>1 DEF IInv, Loop, Streams, streamOK, grantAllowedLocked, Shaped
<1> QED
  BY <1>3, <1>4, <1>5, <1>6 DEF IInv

\* updateStatus leaves the entries of the other Links alone.
LEMMA UpdateFacts ==
  ASSUME Statuses, NEW l \in Link, NEW e, updateStatus(l, e)
  PROVE  /\ status' = [x \in Link |-> status'[x]]
         /\ \A x \in Link \ {l} : status'[x] = status[x]
         /\ status[l] = None => status'[l] = None
         /\ status[l] # None => status'[l] = e
<1>1. status = [x \in Link |-> status[x]]
  BY DEF Statuses
<1> DEFINE v == IF status[l] = None THEN None ELSE e
<1>2. status' = [status EXCEPT ![l] = v]
  BY DEF updateStatus
<1>3. v = (IF status[l] = None THEN None ELSE e)
  OBVIOUS
<1> HIDE DEF v
<1> QED
  BY <1>1, <1>2, <1>3

\* A session opens, and its Link's entry counts it.
LEMMA StepReady ==
  ASSUME IInv, NEW w \in Worker, ready(w)
  PROVE  IInv'
<1>0. PICK l \in Link : l = linkOf(w)
  BY DEF ready, sessionEnds, offline, IInv, Workers, linkOf, Key, at
<1> DEFINE e == [conns |-> status[l].conns + 1, ready |-> TRUE]
<1>1. /\ UNCHANGED <<desired, config, pc, got, workers, core, stream>>
      /\ worker[w].pc = "dial" /\ goes(w, "up") /\ updateStatus(l, e)
  BY <1>0 DEF ready, at, loop, authorization
<1>2. /\ Workers' /\ worker'[w].pc = "up" /\ worker'[w].key = worker[w].key
      /\ \A v \in Worker \ {w} : worker'[v] = worker[v]
  BY <1>1, WorkerGoes
<1>4. up(l)' = up(l) \cup {w} /\ w \notin up(l) /\ \A x \in Link \ {l} : up(x)' = up(x)
  BY <1>0, <1>1, <1>2 DEF up, at, linkOf
<1>5. Cardinality(up(l)') = Cardinality(up(l)) + 1
  BY <1>4, UpFinite, FS_AddElement
<1>6. /\ status' = [x \in Link |-> status'[x]]
      /\ \A x \in Link \ {l} : status'[x] = status[x]
      /\ status[l] = None => status'[l] = None
      /\ status[l] # None => status'[l] = e
  <2> HIDE DEF e
  <2> QED
    BY <1>1, UpdateFacts DEF IInv
<1>7. status[l] # None => status[l].conns \in Nat /\ status[l].conns <= Cardinality(up(l))
  BY DEF IInv, Statuses
<1>8. status[l] # None => /\ e \in [conns : Nat, ready : BOOLEAN]
                          /\ e.conns <= Cardinality(up(l)') /\ e.conns > 0
  BY <1>5, <1>7, UpFinite
<1> HIDE DEF e
<1>9. Statuses'
  BY <1>4, <1>6, <1>8 DEF IInv, Statuses
<1>10. Loop' /\ Cores' /\ Streams'
  BY <1>1 DEF IInv, Loop, Cores, CoresCurrent, Streams, streamOK, grantAllowedLocked, Shaped
<1> QED
  BY <1>2, <1>9, <1>10 DEF IInv

\* A session closes: the entry that is left counts one session less, and is ready
\* only if it counts another.
LEMMA StepSessionEnds ==
  ASSUME IInv, NEW w \in Worker, sessionEnds(w)
  PROVE  IInv'
<1>0. PICK l \in Link : l = linkOf(w)
  BY DEF ready, sessionEnds, offline, IInv, Workers, linkOf, Key, at
<1> DEFINE e == disconnected(status[l])
<1>1. /\ UNCHANGED <<desired, config, pc, got, workers, core, stream>>
      /\ worker[w].pc = "up" /\ goes(w, "ended") /\ updateStatus(l, e)
  BY <1>0 DEF sessionEnds, at, loop, authorization
<1>2. /\ Workers' /\ worker'[w].pc = "ended"
      /\ \A v \in Worker \ {w} : worker'[v] = worker[v]
  BY <1>1, WorkerGoes
<1>4. up(l)' = up(l) \ {w} /\ w \in up(l) /\ \A x \in Link \ {l} : up(x)' = up(x)
  BY <1>0, <1>1, <1>2 DEF up, at, linkOf
<1>5. Cardinality(up(l)') = Cardinality(up(l)) - 1 /\ Cardinality(up(l)) \in Nat
  BY <1>4, UpFinite, FS_RemoveElement
<1>6. /\ status' = [x \in Link |-> status'[x]]
      /\ \A x \in Link \ {l} : status'[x] = status[x]
      /\ status[l] = None => status'[l] = None
      /\ status[l] # None => status'[l] = e
  <2> HIDE DEF e
  <2> QED
    BY <1>1, UpdateFacts DEF IInv
<1>7. status[l] # None => /\ status[l] \in [conns : Nat, ready : BOOLEAN]
                          /\ status[l].conns <= Cardinality(up(l))
  BY DEF IInv, Statuses
<1>8. Cardinality(up(l)') \in Nat
  <2>1. IsFiniteSet(up(l)')
    BY <1>4, UpFinite, FS_Subset
  <2> QED
    BY <2>1, FS_CardinalityType
<1>9. status[l] # None => /\ e \in [conns : Nat, ready : BOOLEAN]
                          /\ e.conns <= Cardinality(up(l)') /\ (e.ready => e.conns > 0)
  <2> SUFFICES ASSUME status[l] # None
               PROVE  /\ e \in [conns : Nat, ready : BOOLEAN]
                      /\ e.conns <= Cardinality(up(l)') /\ (e.ready => e.conns > 0)
    OBVIOUS
  <2> DEFINE n == IF status[l].conns > 0 THEN status[l].conns - 1 ELSE 0
             b == status[l].ready /\ n > 0
  <2>1. n \in Nat /\ n <= Cardinality(up(l)')
    BY <1>5, <1>7, <1>8
  <2>2. b \in BOOLEAN /\ (b => n > 0)
    OBVIOUS
  <2>3. e = [conns |-> n, ready |-> b]
    BY DEF disconnected
  <2> HIDE DEF n, b, e
  <2> QED
    BY <2>1, <2>2, <2>3
<1> HIDE DEF e
<1>10. Statuses'
  BY <1>4, <1>6, <1>9 DEF IInv, Statuses
<1>11. Loop' /\ Cores' /\ Streams'
  BY <1>1 DEF IInv, Loop, Cores, CoresCurrent, Streams, streamOK, grantAllowedLocked, Shaped
<1> QED
  BY <1>2, <1>10, <1>11 DEF IInv

\* The Link is reported offline until a session says otherwise.
LEMMA StepOffline ==
  ASSUME IInv, NEW w \in Worker, offline(w)
  PROVE  IInv'
<1>0. PICK l \in Link : l = linkOf(w)
  BY DEF ready, sessionEnds, offline, IInv, Workers, linkOf, Key, at
<1> DEFINE e == [status[l] EXCEPT !.ready = FALSE]
<1>1. /\ UNCHANGED <<desired, config, pc, got, workers, core, stream>>
      /\ worker[w].pc = "failed" /\ goes(w, "backoff") /\ updateStatus(l, e)
  BY <1>0 DEF offline, at, loop, authorization
<1>2. /\ Workers' /\ worker'[w].pc = "backoff"
      /\ \A v \in Worker \ {w} : worker'[v] = worker[v]
  BY <1>1, WorkerGoes
<1>4. \A x : up(x)' = up(x)
  BY <1>0, <1>1, <1>2 DEF up, at, linkOf
<1>5. /\ status' = [x \in Link |-> status'[x]]
      /\ \A x \in Link \ {l} : status'[x] = status[x]
      /\ status[l] = None => status'[l] = None
      /\ status[l] # None => status'[l] = e
  <2> HIDE DEF e
  <2> QED
    BY <1>1, UpdateFacts DEF IInv
<1>6. status[l] # None => /\ status[l] \in [conns : Nat, ready : BOOLEAN]
                          /\ status[l].conns <= Cardinality(up(l))
  BY DEF IInv, Statuses
<1>7. status[l] # None => e \in [conns : Nat, ready : BOOLEAN] /\ e.conns = status[l].conns /\ ~e.ready
  <2>1. ASSUME NEW r \in [conns : Nat, ready : BOOLEAN], NEW b \in BOOLEAN
        PROVE  /\ [r EXCEPT !.ready = b] \in [conns : Nat, ready : BOOLEAN]
               /\ [r EXCEPT !.ready = b].conns = r.conns /\ [r EXCEPT !.ready = b].ready = b
    OBVIOUS
  <2>2. ASSUME status[l] # None
        PROVE  e \in [conns : Nat, ready : BOOLEAN] /\ e.conns = status[l].conns /\ e.ready = FALSE
    BY <1>6, <2>1, <2>2, Zenon
  <2> HIDE DEF e
  <2> QED
    BY <2>2
<1> HIDE DEF e
<1>8. Statuses'
  BY <1>4, <1>5, <1>6, <1>7 DEF IInv, Statuses
<1>9. Loop' /\ Cores' /\ Streams'
  BY <1>1 DEF IInv, Loop, Cores, CoresCurrent, Streams, streamOK, grantAllowedLocked, Shaped
<1> QED
  BY <1>2, <1>8, <1>9 DEF IInv

\* A step of a goroutine.
LEMMA StepRunLink ==
  ASSUME IInv, NEW w \in Worker, runLink(w)
  PROVE  IInv'
BY StepQuiet, StepDialReality, StepReady, StepSessionEnds, StepOffline DEF runLink

-----------------------------------------------------------------------------
(* Configurations.                                                         *)

\* What a new configuration d must cancel: every goroutine and every core whose
\* connection it does not keep, and every stream it does not allow.
LEMMA NewConfig ==
  ASSUME Workers, Cores, Streams, Shaped(config),
         NEW ws, NEW ss, cancel(ws, ss),
         workers' \in [Key -> Worker \cup {None}],
         \A k \in Key : workers'[k] = workers[k] \/ (workers'[k] = None /\ workers[k] \in ws),
         \A k \in Key : workers'[k] # None =>
           /\ workers[k] \notin ws /\ k \in desiredKeys(config') /\ k[1] \in DOMAIN config.links
           /\ config'.links[k[1]].tunnel = config.links[k[1]].tunnel,
         core' \in [Link -> Tunnel \cup {None}],
         \A l \in Link : core'[l] # None =>
           core'[l] = core[l] /\ config'.on /\ l \in DOMAIN config'.links /\ config'.links[l].tunnel = config.links[l].tunnel,
         \A s \in Slot : active(s) /\ s \notin ss =>
           /\ grantAllowedLocked(config', TRUE, stream[s].link, stream[s].grant)
           /\ config'.policy # config.policy => stream[s].target # None /\ stream[s].target \in config'.policy
  PROVE  Workers' /\ Cores' /\ Streams'
<1>0. /\ worker \in [Worker -> WorkerRecord] /\ stream \in [Slot -> StreamRecord]
      /\ workers \in [Key -> Worker \cup {None}]
  BY ZenonT(30) DEF Workers, Streams
<1>1. /\ worker' \in [Worker -> WorkerRecord]
      /\ \A w \in Worker : /\ worker'[w].pc = worker[w].pc /\ worker'[w].key = worker[w].key
                           /\ worker'[w].tunnel = worker[w].tunnel
                           /\ worker'[w].cancelled = (worker[w].cancelled \/ w \in ws)
      /\ stream' \in [Slot -> StreamRecord]
      /\ \A s \in Slot : /\ stream'[s].pc = stream[s].pc /\ stream'[s].link = stream[s].link
                         /\ stream'[s].grant = stream[s].grant /\ stream'[s].policy = stream[s].policy
                         /\ stream'[s].target = stream[s].target
                         /\ stream[s].cancelled \/ s \in ss => stream'[s].cancelled
  BY <1>0, CancelFacts
<1>3. Workers'
  <2>1. ASSUME NEW k \in Key, workers'[k] # None
        PROVE  /\ worker'[workers'[k]].pc # "none" /\ ~worker'[workers'[k]].cancelled
               /\ worker'[workers'[k]].key = k
    <3>1. workers'[k] = workers[k] /\ workers[k] \in Worker /\ workers[k] \notin ws
      BY <1>0, <2>1
    <3>2. /\ worker[workers[k]].pc # "none" /\ ~worker[workers[k]].cancelled /\ worker[workers[k]].key = k
      BY <2>1, <3>1 DEF Workers
    <3>3. PICK w \in Worker : w = workers[k]
      BY <3>1
    <3>4. worker'[w].pc # "none" /\ worker'[w].key = k
      BY <1>1, <3>2, <3>3
    <3>5. worker'[w].cancelled = (worker[w].cancelled \/ w \in ws)
      BY <1>1
    <3>6. ~worker'[w].cancelled
      BY <3>1, <3>2, <3>3, <3>5, ZenonT(30)
    <3> QED
      BY <3>1, <3>3, <3>4, <3>6
  <2>2. ASSUME NEW w \in Worker, worker'[w].pc # "none"
        PROVE  worker'[w].key \in Key
    <3>1. worker[w].pc # "none" /\ worker'[w].key = worker[w].key
      BY <1>1, <2>2
    <3>2. worker[w].key \in Key
      BY <3>1 DEF Workers
    <3> QED
      BY <3>1, <3>2
  <2>3. ASSUME NEW w \in Worker, worker'[w].pc # "none", ~worker'[w].cancelled
        PROVE  /\ workers'[worker'[w].key] = w /\ worker'[w].key \in desiredKeys(config')
               /\ worker'[w].tunnel = config'.links[worker'[w].key[1]].tunnel
    <3>1. /\ worker'[w].pc = worker[w].pc /\ worker'[w].key = worker[w].key
          /\ worker'[w].tunnel = worker[w].tunnel
          /\ worker'[w].cancelled = (worker[w].cancelled \/ w \in ws)
      BY <1>1
    <3>2. worker[w].pc # "none" /\ ~worker[w].cancelled /\ w \notin ws
      BY <2>3, <3>1, ZenonT(30)
    <3>3. /\ worker[w].key \in Key /\ workers[worker[w].key] = w
          /\ worker[w].tunnel = config.links[worker[w].key[1]].tunnel
      BY <3>2 DEF Workers
    <3>4. PICK k \in Key : k = worker[w].key
      BY <3>3
    <3>5. workers'[k] = w /\ w # None
      BY <3>2, <3>3, <3>4, SetAssumption
    <3>6. k \in desiredKeys(config') /\ config'.links[k[1]].tunnel = config.links[k[1]].tunnel
      BY <3>5
    <3> QED
      BY <3>1, <3>3, <3>4, <3>5, <3>6, ZenonT(30)
  <2> QED
    BY <1>1, <2>1, <2>2, <2>3, ZenonT(30) DEF Workers
<1>4. Cores'
  BY DEF Cores, CoresCurrent
<1>5. Streams'
  <2>1. ASSUME NEW s \in Slot
        PROVE  streamOK(stream[s])'
    <3> DEFINE r == stream[s]
               q == stream'[s]
    <3>1. /\ q.pc = r.pc /\ q.link = r.link /\ q.grant = r.grant /\ q.policy = r.policy /\ q.target = r.target
          /\ r.cancelled \/ s \in ss => q.cancelled
      BY <1>1
    <3>2. streamOK(r)
      BY DEF Streams
    <3>3. active(s) = (r.pc \in {"registered", "dial", "relay"})
      BY DEF active
    <3>4. active(s) /\ s \notin ss =>
            /\ grantAllowedLocked(config', TRUE, r.link, r.grant)
            /\ config'.policy # config.policy => r.target # None /\ r.target \in config'.policy
      OBVIOUS
    <3> HIDE DEF r
    <3>5. q.pc # "relay" => q.target = None
      BY <3>1, <3>2 DEF streamOK
    <3>6. ASSUME q.pc \in {"registered", "dial", "relay"}, ~q.cancelled
          PROVE  /\ grantAllowedLocked(config', TRUE, q.link, q.grant)
                 /\ q.pc \in {"dial", "relay"} =>
                      IF q.target = None THEN q.policy = config'.policy ELSE q.target \in config'.policy
      BY <3>1, <3>2, <3>3, <3>4, <3>6 DEF streamOK
    <3>7. grantAllowedLocked(config', TRUE, q.link, q.grant) = grantAllowedLocked(config, TRUE, stream[s].link, stream[s].grant)'
      BY DEF grantAllowedLocked
    <3> QED
      BY <3>5, <3>6, <3>7, ZenonT(30) DEF streamOK
  <2> QED
    BY <1>1, <2>1, ZenonT(30) DEF Streams
<1> QED
  BY <1>3, <1>4, <1>5, ZenonT(30)

\* On an invalidation everything that runs is cancelled.
LEMMA StepInvalidate ==
  ASSUME IInv, invalidateAuthorizationLocked, desired' = desired,
         (pc' = pc /\ got' = got) \/ pc' = "idle"
  PROVE  IInv'
<1> DEFINE d == [on |-> FALSE, policy |-> config.policy, links |-> NoLinks]
           ws == {workers[k] : k \in Key} \ {None}
           ss == retiredStreams(d, leased, FALSE)
<1>0. Loop /\ Workers /\ Cores /\ Statuses /\ Streams /\ Shaped(config)
  BY DEF IInv, Loop
<1>1. config' = d
  BY <1>0 DEF invalidateAuthorizationLocked, Shaped
<1>2. d.policy = config.policy /\ Shaped(d) /\ ~d.on
  <2>1. DOMAIN NoLinks = {}
    BY DEF NoLinks
  <2> QED
    BY <1>0, <2>1 DEF Shaped
<1>3. cancel(ws, ss) /\ workers' = [k \in Key |-> None] /\ core' = [l \in Link |-> None] /\ status' = status
  BY <1>1 DEF invalidateAuthorizationLocked
<1>4. \A k \in Key : workers'[k] = None /\ (workers[k] = None \/ workers[k] \in ws)
  BY <1>3
<1>5. \A s \in Slot : active(s) => s \in ss
  BY <1>2 DEF retiredStreams, grantAllowedLocked
<1>6. workers' \in [Key -> Worker \cup {None}] /\ core' \in [Link -> Tunnel \cup {None}]
      /\ \A l \in Link : core'[l] = None
  BY <1>3
<1>7. Statuses'
  <2>1. \A w \in Worker : worker'[w].pc = worker[w].pc /\ worker'[w].key = worker[w].key
    <3> HIDE DEF ws, ss
    <3> QED
      BY <1>0, <1>3, CancelFacts DEF Workers, Streams
  <2> QED
    BY <1>0, <1>3, <2>1, SameSessions
<1>8. Loop'
  <2>1. Shaped(desired)' /\ Shaped(config)'
    BY <1>0, <1>1, <1>2 DEF Loop, Shaped
  <2> QED
    BY <1>0, <2>1 DEF Loop, Shaped
<1> HIDE DEF d, ws, ss
<1>9. Workers' /\ Cores' /\ Streams'
  BY <1>0, <1>1, <1>2, <1>3, <1>4, <1>5, <1>6, NewConfig
<1> QED
  BY <1>7, <1>8, <1>9 DEF IInv

\* A configuration fetched in this epoch is applied, one of an earlier epoch is not.
LEMMA StepApplyConfig ==
  ASSUME IInv, applyConfig
  PROVE  IInv'
<1> DEFINE d == IF got.config.on THEN got.config ELSE [got.config EXCEPT !.links = NoLinks]
<1>0. /\ Loop /\ Workers /\ Cores /\ Statuses /\ Streams /\ Shaped(config)
      /\ pc = "apply" /\ Shaped(got.config)
  BY DEF IInv, Loop, applyConfig
<1>1. Shaped(d)
  <2>1. DOMAIN NoLinks = {}
    BY DEF NoLinks
  <2> QED
    BY <1>0, <2>1 DEF Shaped
<1>2. CASE got.epoch # epoch
  <2>1. UNCHANGED <<desired, config, workers, worker, core, status, stream>> /\ pc' = "idle"
    BY <1>2 DEF applyConfig
  <2>2. Loop' /\ Workers' /\ Cores' /\ Streams'
    BY <1>0, <2>1 DEF Loop, Workers, Cores, CoresCurrent, Streams, streamOK, grantAllowedLocked, Shaped, desiredKeys
  <2>3. Statuses'
    BY <1>0, <2>1, SameSessions
  <2> QED
    BY <2>2, <2>3 DEF IInv
<1>3. CASE got.epoch = epoch
  <2> DEFINE ss == retiredStreams(d, TRUE, d.policy # config.policy)
             gone == {k \in Key : workers[k] # None /\ ~keepsWorker(d, k)}
             ws == {workers[k] : k \in gone}
  <2>1. /\ desired' = desired /\ config' = d /\ pc' = "reconcile"
        /\ retireWorkersLocked(d, ss)
        /\ status' = [l \in Link |-> IF l \in DOMAIN d.links THEN status[l] ELSE None]
    BY <1>3, ZenonT(30) DEF applyConfig
  <2> HIDE DEF d
  <2>2. /\ cancel(ws, ss)
        /\ workers' = [k \in Key |-> IF k \in gone THEN None ELSE workers[k]]
        /\ core' = [l \in Link |-> IF l \in DOMAIN config.links /\ ~keepsCore(d, l) THEN None ELSE core[l]]
    BY <2>1 DEF retireWorkersLocked
  <2>3. workers' \in [Key -> Worker \cup {None}] /\ core' \in [Link -> Tunnel \cup {None}]
    BY <1>0, <2>2, ZenonT(30) DEF Workers, Cores
  <2>4. \A k \in Key : workers'[k] = workers[k] \/ (workers'[k] = None /\ workers[k] \in ws)
    BY <2>2, ZenonT(30)
  <2>5. ASSUME NEW k \in Key, workers'[k] # None
        PROVE  /\ workers[k] \notin ws /\ k \in desiredKeys(d) /\ k[1] \in DOMAIN config.links
               /\ d.links[k[1]].tunnel = config.links[k[1]].tunnel
    <3>1. workers[k] # None /\ keepsWorker(d, k)
      BY <2>2, <2>5
    <3>2. \A j \in Key : workers[j] = workers[k] => j = k
      BY <1>0, <3>1 DEF Workers
    <3>3. workers[k] \notin ws
      BY <3>1, <3>2
    <3> QED
      BY <3>1, <3>3 DEF keepsWorker, desiredKeys
  <2>6. ASSUME NEW l \in Link, core'[l] # None
        PROVE  core'[l] = core[l] /\ d.on /\ l \in DOMAIN d.links /\ d.links[l].tunnel = config.links[l].tunnel
    <3>1. core'[l] = core[l] /\ (l \notin DOMAIN config.links \/ keepsCore(d, l))
      BY <2>2, <2>6
    <3>2. l \in DOMAIN config.links
      BY <1>0, <2>6, <3>1 DEF Cores, CoresCurrent
    <3> QED
      BY <3>1, <3>2 DEF keepsCore
  <2>7. ASSUME NEW s \in Slot, active(s), s \notin ss
        PROVE  /\ grantAllowedLocked(d, TRUE, stream[s].link, stream[s].grant)
               /\ d.policy # config.policy => stream[s].target # None /\ stream[s].target \in d.policy
    BY <2>7 DEF retiredStreams
  <2> HIDE DEF ws, ss
  <2>8. Workers' /\ Cores' /\ Streams'
    <3>1. \A k \in Key : workers'[k] # None =>
            /\ workers[k] \notin ws /\ k \in desiredKeys(config') /\ k[1] \in DOMAIN config.links
            /\ config'.links[k[1]].tunnel = config.links[k[1]].tunnel
      BY <2>1, <2>5
    <3>2. \A l \in Link : core'[l] # None =>
            core'[l] = core[l] /\ config'.on /\ l \in DOMAIN config'.links /\ config'.links[l].tunnel = config.links[l].tunnel
      BY <2>1, <2>6
    <3>3. \A s \in Slot : active(s) /\ s \notin ss =>
            /\ grantAllowedLocked(config', TRUE, stream[s].link, stream[s].grant)
            /\ config'.policy # config.policy => stream[s].target # None /\ stream[s].target \in config'.policy
      BY <2>1, <2>7
    <3>4. cancel(ws, ss)
      BY <2>2
    <3> QED
      BY <1>0, <1>1, <2>3, <2>4, <3>1, <3>2, <3>3, <3>4, NewConfig, ZenonT(30)
  <2>9. Statuses'
    <3>1. \A w \in Worker : worker'[w].pc = worker[w].pc /\ worker'[w].key = worker[w].key
      BY <1>0, <2>2, CancelFacts, ZenonT(30) DEF Workers, Streams
    <3>2. \A l : up(l)' = up(l)
      BY <3>1 DEF up, at, linkOf
    <3> QED
      BY <1>0, <2>1, <3>2 DEF Statuses
  <2>10. Loop'
    BY <1>0, <1>1, <2>1 DEF Loop, Shaped
  <2> QED
    BY <2>8, <2>9, <2>10 DEF IInv
<1> QED
  BY <1>2, <1>3

\* reconcile starts a goroutine for each connection that has none; nothing is
\* registered for a connection that is not asked for.
LEMMA StepReconcile ==
  ASSUME IInv, reconcile
  PROVE  IInv'
<1> DEFINE missing == {k \in desiredKeys(config) : workers[k] = None}
           gone    == {k \in Key \ desiredKeys(config) : workers[k] # None}
           idle    == {w \in Worker : worker[w].pc = "none"}
           fresh   == Injection(missing, idle)
           f       == CHOOSE f \in fresh : TRUE
           begin(k) == [pc |-> "loop", key |-> k, tunnel |-> config.links[k[1]].tunnel, cancelled |-> FALSE]
<1>0. /\ Loop /\ Workers /\ Cores /\ Statuses /\ Streams
      /\ worker \in [Worker -> WorkerRecord] /\ workers \in [Key -> Worker \cup {None}]
  BY DEF IInv, Workers
<1>1. gone = {}
  BY <1>0 DEF Workers
<1>2. UNCHANGED <<desired, got, config, core>> /\ pc' = "idle"
  BY DEF reconcile, authorization
<1>3. desiredKeys(config) \subseteq Key /\ missing \subseteq Key
  BY DEF desiredKeys
<1>4. f \in Injection(missing, idle)
  BY DEF reconcile
<1>5. /\ f \in [missing -> idle]
      /\ \A j, k \in missing : f[j] = f[k] => j = k
  BY <1>4 DEF Injection, IsInjective
<1>6. /\ workers' = [k \in Key |-> IF k \in missing THEN f[k] ELSE IF k \in gone THEN None ELSE workers[k]]
      /\ worker' = [w \in Worker |->
           IF w \in Range(f) THEN LET k == CHOOSE k \in missing : f[k] = w IN begin(k)
           ELSE IF \E k \in gone : workers[k] = w THEN [worker[w] EXCEPT !.cancelled = TRUE]
           ELSE worker[w]]
      /\ stream' = [s \in Slot |->
           IF \E k \in gone : workers[k] = stream[s].w THEN [stream[s] EXCEPT !.cancelled = TRUE] ELSE stream[s]]
      /\ status' = [l \in Link |->
           IF status[l] = None /\ (\E k \in missing : k[1] = l) THEN [conns |-> 0, ready |-> FALSE] ELSE status[l]]
  BY DEF reconcile
<1> HIDE DEF f, missing, gone, idle, begin
<1>7. Range(f) = {f[k] : k \in missing}
  BY <1>5 DEF Range
<1>8. ASSUME NEW k \in missing
      PROVE  worker'[f[k]] = begin(k) /\ f[k] \in Worker /\ worker[f[k]].pc = "none"
  <2>1. f[k] \in Worker /\ worker[f[k]].pc = "none"
    BY <1>5 DEF idle
  <2>2. (CHOOSE j \in missing : f[j] = f[k]) = k
    <3> DEFINE P(j) == f[j] = f[k]
    <3>1. \E j \in missing : P(j)
      OBVIOUS
    <3>2. \A j \in missing : P(j) => j = k
      BY <1>5
    <3>3. P(CHOOSE j \in missing : P(j)) /\ (CHOOSE j \in missing : P(j)) \in missing
      BY <3>1
    <3> QED
      BY <3>2, <3>3
  <2> QED
    BY <1>6, <1>7, <2>1, <2>2
<1>9. \A w \in Worker : (\A k \in missing : f[k] # w) => worker'[w] = worker[w]
  BY <1>1, <1>6, <1>7
<1>10. \A k \in missing :
         /\ begin(k) \in WorkerRecord /\ begin(k).pc = "loop" /\ begin(k).key = k
         /\ begin(k).tunnel = config.links[k[1]].tunnel /\ ~begin(k).cancelled
  <2> SUFFICES ASSUME NEW k \in missing
               PROVE  /\ begin(k) \in WorkerRecord /\ begin(k).pc = "loop" /\ begin(k).key = k
                      /\ begin(k).tunnel = config.links[k[1]].tunnel /\ ~begin(k).cancelled
    OBVIOUS
  <2>1. k \in Key /\ k[1] \in DOMAIN config.links
    BY <1>3 DEF missing, desiredKeys
  <2>2. config.links[k[1]].tunnel \in Tunnel
    BY <1>0, <2>1 DEF Loop, Shaped
  <2> QED
    BY <2>1, <2>2 DEF begin, WorkerRecord
<1>11. \A k \in Key : workers'[k] = IF k \in missing THEN f[k] ELSE workers[k]
  BY <1>1, <1>6
<1>12. worker' \in [Worker -> WorkerRecord]
  <2>1. \A w \in Worker : worker'[w] \in WorkerRecord
    BY <1>0, <1>8, <1>9, <1>10
  <2>2. worker' = [w \in Worker |-> worker'[w]]
    BY <1>6
  <2> QED
    BY <2>1, <2>2
<1>13. workers' \in [Key -> Worker \cup {None}]
  <2>1. \A k \in Key : workers'[k] \in Worker \cup {None}
    BY <1>0, <1>8, <1>11
  <2>2. workers' = [k \in Key |-> workers'[k]]
    BY <1>6
  <2> QED
    BY <2>1, <2>2
<1>14. ASSUME NEW k \in Key, workers'[k] # None
       PROVE  /\ worker'[workers'[k]].pc # "none" /\ ~worker'[workers'[k]].cancelled
              /\ worker'[workers'[k]].key = k
  <2>1. CASE k \in missing
    BY <1>8, <1>10, <1>11, <2>1
  <2>2. CASE k \notin missing
    <3>1. /\ workers'[k] = workers[k] /\ workers[k] \in Worker
          /\ worker[workers[k]].pc # "none" /\ ~worker[workers[k]].cancelled /\ worker[workers[k]].key = k
      BY <1>0, <1>11, <1>14, <2>2 DEF Workers
    <3>2. \A j \in missing : f[j] # workers[k]
      BY <1>8, <3>1
    <3> QED
      BY <1>9, <3>1, <3>2
  <2> QED
    BY <2>1, <2>2
<1>15. ASSUME NEW w \in Worker, worker'[w].pc # "none"
       PROVE  /\ worker'[w].key \in Key
              /\ ~worker'[w].cancelled =>
                   /\ workers'[worker'[w].key] = w /\ worker'[w].key \in desiredKeys(config)
                   /\ worker'[w].tunnel = config.links[worker'[w].key[1]].tunnel
  <2>1. CASE \E k \in missing : f[k] = w
    <3>1. PICK k \in missing : f[k] = w
      BY <2>1
    <3>2. worker'[w] = begin(k) /\ k \in Key /\ k \in desiredKeys(config) /\ workers'[k] = w
      BY <1>3, <1>8, <1>11, <3>1 DEF missing
    <3> QED
      BY <1>10, <3>2
  <2>2. CASE \A k \in missing : f[k] # w
    <3>1. worker'[w] = worker[w]
      BY <1>9, <2>2
    <3>2. worker[w].key \in Key
      BY <1>0, <1>15, <3>1 DEF Workers
    <3>3. ~worker[w].cancelled =>
            /\ workers[worker[w].key] = w /\ worker[w].key \in desiredKeys(config)
            /\ worker[w].tunnel = config.links[worker[w].key[1]].tunnel
      BY <1>0, <1>15, <3>1 DEF Workers
    <3>4. ~worker[w].cancelled => worker[w].key \notin missing
      BY <3>3, SetAssumption DEF missing
    <3> QED
      BY <1>11, <3>1, <3>2, <3>3, <3>4
  <2> QED
    BY <2>1, <2>2
<1>16. Workers'
  <2>1. desiredKeys(config)' = desiredKeys(config)
    BY <1>2 DEF desiredKeys
  <2> QED
    BY <1>2, <1>12, <1>13, <1>14, <1>15, <2>1 DEF Workers
<1>17. Statuses'
  <2>1. \A w \in Worker : /\ (worker'[w].pc = "up") = (worker[w].pc = "up")
                          /\ worker[w].pc = "up" => worker'[w].key = worker[w].key
    BY <1>8, <1>9, <1>10
  <2>2. \A l : up(l)' = up(l)
    BY <2>1 DEF up, at, linkOf
  <2>3. \A l : Cardinality(up(l)) \in Nat
    BY UpFinite
  <2> QED
    BY <1>0, <1>6, <2>2, <2>3 DEF Statuses
<1>18. stream' = stream
  <2>1. stream' = [s \in Slot |-> stream[s]]
    BY <1>1, <1>6
  <2> QED
    BY <1>0, <2>1 DEF Streams
<1>19. Loop' /\ Cores' /\ Streams'
  BY <1>0, <1>2, <1>18 DEF Loop, Cores, CoresCurrent, Streams, streamOK, grantAllowedLocked, Shaped
<1> QED
  BY <1>16, <1>17, <1>19 DEF IInv

\* The rest of the control loop, and what happens around the Agent.
LEMMA StepLoop ==
  ASSUME IInv, (\E d \in Snapshot : change(d)) \/ leaseLapses \/ refresh \/ fetch \/ fetchFails
  PROVE  IInv'
<1>0. Loop /\ Workers /\ Cores /\ Statuses /\ Streams
  BY DEF IInv
<1>1. UNCHANGED <<config, workers, worker, core, status, stream>>
  BY DEF change, leaseLapses, refresh, fetch, fetchFails, authorization
<1>2. Workers' /\ Cores' /\ Streams'
  BY <1>0, <1>1 DEF Workers, Cores, CoresCurrent, Streams, streamOK, grantAllowedLocked, desiredKeys
<1>3. Statuses'
  BY <1>0, <1>1, SameSessions
<1>4. Loop'
  <2>1. ASSUME NEW d \in Snapshot, change(d) PROVE Loop'
    <3>1. Shaped(d)
      BY SnapshotShaped
    <3> QED
      BY <1>0, <2>1, <3>1 DEF change, authorization, Loop
  <2>2. CASE leaseLapses
    BY <1>0, <2>2 DEF leaseLapses, loop, Loop
  <2>3. CASE refresh
    BY <1>0, <2>3 DEF refresh, authorization, Loop
  <2>4. CASE fetch
    BY <1>0, <2>4 DEF fetch, authorization, Loop
  <2>5. CASE fetchFails
    BY <1>0, <2>5 DEF fetchFails, authorization, Loop
  <2> QED
    BY <2>1, <2>2, <2>3, <2>4, <2>5
<1> QED
  BY <1>2, <1>3, <1>4 DEF IInv

-----------------------------------------------------------------------------
(* The theorems.                                                           *)

\* Nothing runs when the process starts.
LEMMA InitInvariant == Init => IInv
<1> SUFFICES ASSUME Init PROVE IInv
  OBVIOUS
<1>1. Shaped(desired)
  BY SnapshotShaped, ConfigAssumption DEF Init
<1>2. Shaped(config)
  <2>1. DOMAIN NoLinks = {}
    BY DEF NoLinks
  <2> QED
    BY <2>1 DEF Init, Shaped
<1>3. Loop
  BY <1>1, <1>2 DEF Init, Loop
<1>4. Workers
  <2>1. NoWorker.pc = "none"
    BY DEF NoWorker
  <2> QED
    BY <2>1, EmptyRecords DEF Init, Workers
<1>5. Cores
  BY DEF Init, Cores, CoresCurrent
<1>6. Statuses
  BY DEF Init, Statuses
<1>7. Streams
  BY EmptyRecords DEF Init, Streams
<1> QED
  BY <1>3, <1>4, <1>5, <1>6, <1>7 DEF IInv

\* Every step of the Agent and of its surroundings preserves the invariant.
LEMMA Inductive == IInv /\ [Next]_vars => IInv'
<1> SUFFICES ASSUME IInv, [Next]_vars PROVE IInv'
  OBVIOUS
<1>1. CASE watchAuthorization
  BY <1>1, StepInvalidate DEF watchAuthorization, loop
<1>2. CASE rejected
  BY <1>2, StepInvalidate DEF rejected
<1>3. CASE controlLoop
  BY <1>3, StepLoop, StepApplyConfig, StepReconcile DEF controlLoop
<1>4. CASE UNCHANGED vars
  <2>1. UNCHANGED <<desired, config, pc, got, workers, worker, core, status, stream>>
    BY <1>4 DEF vars
  <2>2. Loop' /\ Workers' /\ Cores' /\ Streams'
    BY <2>1 DEF IInv, Loop, Workers, Cores, CoresCurrent, Streams, streamOK, grantAllowedLocked, desiredKeys
  <2>3. Statuses'
    BY <2>1, SameSessions DEF IInv
  <2> QED
    BY <2>2, <2>3 DEF IInv
<1> QED
  BY <1>1, <1>2, <1>3, <1>4, StepLoop, StepRunLink, StepRunStream DEF Next

\* The invariant implies the three safety properties.
LEMMA InvariantSafe == IInv => StreamsAuthorized /\ CoresCurrent /\ ReadyHasSession
<1> SUFFICES ASSUME IInv PROVE StreamsAuthorized /\ CoresCurrent /\ ReadyHasSession
  OBVIOUS
<1>1. StreamsAuthorized
  BY DEF IInv, Streams, streamOK, StreamsAuthorized
<1>2. CoresCurrent
  BY DEF IInv, Cores
<1>3. ReadyHasSession
  <2> SUFFICES ASSUME NEW l \in Link, status[l] # None, status[l].ready
               PROVE  \E w \in Worker : at(w, "up") /\ linkOf(w) = l
    BY DEF ReadyHasSession
  <2>1. Cardinality(up(l)) > 0
    BY UpFinite DEF IInv, Statuses
  <2>2. up(l) # {}
    BY <2>1, FS_EmptySet
  <2> QED
    BY <2>2 DEF up
<1> QED
  BY <1>1, <1>2, <1>3

\* What the goroutines of linkLoop, the streams they accepted and the control loop
\* know of each other, in every reachable state: see IInv.
THEOREM Invariant == Spec => []IInv
BY InitInvariant, Inductive, PTL DEF Spec

\* retireStreamsLocked, invalidateAuthorizationLocked and the checks of
\* handleStream and handleTCP: a stream that relays is allowed now, or cancelled.
THEOREM StreamsTheorem == Spec => []StreamsAuthorized
BY Invariant, InvariantSafe, PTL

\* dialReality and retireWorkersLocked: a core runs for a Link in force only.
THEOREM CoresTheorem == Spec => []CoresCurrent
BY Invariant, InvariantSafe, PTL

\* runSession and linkLoop: a Link that is reported ready has an open session.
THEOREM ReadyTheorem == Spec => []ReadyHasSession
BY Invariant, InvariantSafe, PTL

=============================================================================
