---------------------------- MODULE AuditTrail ----------------------------
(* The connection audit: an Agent collects the events of users whose audit  *)
(* is on, reports them in batches and counts what it loses; the Controller  *)
(* checks a batch and appends it to the users' logs, which rotate and are   *)
(* pruned to a quota; administrators switch, limit and clear the audit.     *)
(* (src/internal/agent/audit.go, controller/audit.go, audit/store.go)       *)
EXTENDS Integers, SequencesExt

CONSTANTS
  User,           \* users with one Grant each on this Agent
  Conn,           \* connections that may still emit events
  Limit,          \* quotas an administrator may set, in lines
  Default,        \* DefaultLimitMB
  Segment,        \* segmentBytes, in lines
  MaxArchives,    \* maxArchives
  Packed(_),      \* size of a compressed segment
  QueueSize,      \* events of the Agent's queue
  MaxKeys,        \* keys of auditDrops: audit.QueueSize too
  MaxBatch,       \* events of a batch
  MaxDropped,     \* loss counts of a batch: audit.MaxBatch too
  MaxGen,         \* bound: audit generations of a user
  MaxEvents,      \* bound: events emitted
  MaxChanges,     \* bound: requests of administrators
  MaxFaults,      \* bound: failed reports, failed writes and lost authorizations
  None

Gen == 0 .. MaxGen

VARIABLES
  user,       \* the Controller's record: Grant, AuditEnabled, AuditGeneration, AuditLimitMB
  log,        \* Store: archives, oldest first, and current.jsonl, as sequences of generations
  lost,       \* window.dropped: what it has gained in the present generation
  auditing,   \* the Agent's config.AuditGrants: the generation of a Grant's audit
  allowed,    \* whether its config holds the Grants: Agent.Enabled and Links
  trace,      \* auditTrace of a connection
  queue,      \* auditQueue
  drops,      \* auditDrops
  batch,      \* the report under way: events, dropped, and whether it was handled
  late,       \* a report the Agent has given up and that may still arrive
  past,       \* history: what happened in a user's present generation
  cleared,    \* history: generation that the last completed clearing began
  broken,     \* history: users whose last write or pruning failed
  count       \* uses of the bounds

vars == <<user, log, lost, auditing, allowed, trace, queue, drops, batch, late, past, cleared, broken, count>>
agent == <<auditing, allowed, trace, queue, drops, batch, late>>

\* Events emitted and not written, those that met a full queue, and whether the Agent
\* lost its authorization, the user was disabled, or a loss found auditDrops full.
Nothing == [unwritten |-> 0, overflows |-> 0, lapsed |-> FALSE, excused |-> FALSE]

spend(what, max) == count[what] < max /\ count' = [count EXCEPT ![what] = @ + 1]
trouble == spend("faults", MaxFaults)

plus(f, u, g, n) == [f EXCEPT ![u][g] = @ + n]

\* What x belongs to user u's present generation, and how many of the events do.
present(u, x) == x.user = u /\ x.gen = user[u].gen
tally(events, u) == Len(SelectSeq(events, LAMBDA e : present(u, e)))

-----------------------------------------------------------------------------
(* The Agent.                                                              *)

\* The configuration the Controller serves: generations of active audits.
served == [u \in User |-> IF user[u].granted /\ user[u].enabled /\ user[u].on THEN user[u].gen ELSE None]

\* A new configuration is applied.
applyConfig ==
  /\ auditing' = served /\ allowed' = TRUE
  /\ UNCHANGED <<user, log, lost, trace, queue, drops, batch, late, past, cleared, broken, count>>

\* The Agent's authorization is rejected or lapses: its Grants are forgotten, the
\* audits are not.  A later refresh restores it.
invalidateAuthorization ==
  /\ allowed /\ trouble /\ allowed' = FALSE
  /\ past' = [u \in User |-> [past[u] EXCEPT !.lapsed = @ \/ auditing[u] = user[u].gen]]
  /\ UNCHANGED <<user, log, lost, auditing, trace, queue, drops, batch, late, cleared, broken>>

\* A stream starts, in the place of one that emits no more; its trace keeps the
\* generation.
newAuditTrace(c, u) ==
  /\ allowed /\ auditing[u] # None
  /\ trace' = [trace EXCEPT ![c] = [user |-> u, gen |-> auditing[u]]]
  /\ UNCHANGED <<user, log, lost, auditing, allowed, queue, drops, batch, late, past, cleared, broken, count>>

authorized(e) == allowed /\ auditing[e.user] = e.gen

keys(d) == {k \in User \X Gen : d[k[1]][k[2]] # 0}

\* n losses are added to d, unless they need a new key and all keys are taken.
recordAuditDrop(d, u, g, n) ==
  IF Cardinality(keys(d)) < MaxKeys \/ d[u][g] # 0 THEN plus(d, u, g, n) ELSE d

\* Whether a loss of xs, of u's present generation, found auditDrops full.
crowded(u, d, xs) ==
  Cardinality(keys(d)) >= MaxKeys /\ d[u][user[u].gen] = 0 /\ \E x \in xs : present(u, x)

\* An event of a traced connection is queued or, with the queue full, counted.
emit(c) ==
  LET e    == trace[c]
      u    == e.user
      full == Len(queue) >= QueueSize
  IN
  /\ e # None
  /\ IF authorized(e)
     THEN /\ spend("events", MaxEvents)
          /\ queue' = IF full THEN queue ELSE Append(queue, e)
          /\ drops' = IF full THEN recordAuditDrop(drops, u, e.gen, 1) ELSE drops
          /\ past' = IF ~present(u, e) THEN past
                     ELSE [past EXCEPT ![u].unwritten = @ + 1,
                                       ![u].overflows = IF full THEN @ + 1 ELSE @,
                                       ![u].excused   = @ \/ (full /\ crowded(u, drops', {e}))]
     ELSE UNCHANGED <<queue, drops, past, count>>
  /\ UNCHANGED <<user, log, lost, auditing, allowed, trace, batch, late, cleared, broken>>

\* flushAudit drains the queue up to MaxBatch and keeps what is still authorized.
\* It takes the counts of audits in the configuration, in any order, and deletes
\* those of others; with MaxDropped counts taken it stops at the next.
flushAudit ==
  LET n       == Min({MaxBatch, Len(queue)})
      events  == SelectSeq(SubSeq(queue, 1, n), authorized)
      current == {k \in keys(drops) : auditing[k[1]] = k[2]}
      stale   == keys(drops) \ current
      loss(k) == [user |-> k[1], gen |-> k[2], count |-> drops[k[1]][k[2]]]
  IN
  /\ batch = None /\ (n > 0 \/ keys(drops) # {})
  /\ queue' = SubSeq(queue, n + 1, Len(queue))
  /\ \E taken \in kSubset(Min({MaxDropped, Cardinality(current)}), current) :
     \E deleted \in IF taken = current THEN {stale} ELSE SUBSET stale :
     \E order \in SetToSeqs(taken) :
       /\ drops' = [u \in User |-> [g \in Gen |-> IF <<u, g>> \in taken \cup deleted THEN 0 ELSE drops[u][g]]]
       /\ batch' = IF events = <<>> /\ taken = {} THEN None
                   ELSE [events |-> events, dropped |-> [i \in DOMAIN order |-> loss(order[i])], answer |-> None]
  /\ UNCHANGED <<user, log, lost, auditing, allowed, trace, late, past, cleared, broken, count>>

contents(b) == Range(b.events) \cup Range(b.dropped)

\* Mutant: a failed report forgets the losses it carried.
restored_eventsOnly(b) ==
  FoldLeft(LAMBDA d, e : recordAuditDrop(d, e.user, e.gen, 1), drops, b.events)

\* After a failed report its events and the losses it carried are counted.
restored(b) ==
  LET counted == FoldLeft(LAMBDA d, e : recordAuditDrop(d, e.user, e.gen, 1), drops, b.events) IN
  FoldLeft(LAMBDA d, x : recordAuditDrop(d, x.user, x.gen, x.count), counted, b.dropped)

\* The report has failed.
lose(b) ==
  /\ drops' = restored(b)
  /\ past' = [u \in User |-> [past[u] EXCEPT !.excused = @ \/ crowded(u, drops', contents(b))]]

\* The report succeeds or fails.
reported ==
  /\ batch # None /\ batch.answer # None /\ batch' = None
  /\ IF batch.answer = "ok" THEN UNCHANGED <<drops, past>> ELSE lose(batch)
  /\ UNCHANGED <<user, log, lost, auditing, allowed, trace, queue, late, cleared, broken, count>>

\* No answer arrives: the request is lost, still under way, or its answer is.
unanswered ==
  /\ batch # None /\ trouble /\ batch' = None /\ lose(batch)
  /\ late' \in {late} \cup (IF batch.answer = None THEN {batch} ELSE {})
  /\ UNCHANGED <<user, log, lost, auditing, allowed, trace, queue, cleared, broken>>

-----------------------------------------------------------------------------
(* The log of a user: [archives, current], lines that hold a generation.   *)

stored(l) == FoldSeq(LAMBDA a, n : n + Packed(Len(a)), 0, l.archives) + Len(l.current)

rotate(l) == [archives |-> Append(l.archives, l.current), current |-> <<>>]

\* The fewest oldest archives are removed that bring the log within the limits,
\* or all of them when current.jsonl alone exceeds the quota.
prune(l, limit) ==
  LET without(n) == [l EXCEPT !.archives = SubSeq(@, n + 1, Len(@))]
      enough     == {n \in 0 .. Len(l.archives) : stored(without(n)) <= limit /\ Len(l.archives) - n <= MaxArchives}
  IN without(IF enough = {} THEN Len(l.archives) ELSE Min(enough))

\* One line is appended, to a new segment when the old one is full.
written(l, limit, e) ==
  LET full == l.current # <<>> /\ Len(l.current) + 1 > Min({Segment, limit})
      r    == IF full THEN rotate(l) ELSE l
  IN [r EXCEPT !.current = Append(@, e)]

\* The outcomes of Append for user u: the log it leaves, the lines it has written
\* and whether it succeeds.  It refuses new lines while old ones exceed the quota,
\* and may fail between two lines.
Append_(u, lines) ==
  LET limit == user[u].limit
      first == prune(log[u], limit)
      after(n) == FoldSeq(LAMBDA e, l : written(l, limit, e), first, SubSeq(lines, 1, n))
      outcome(l, n, ok, fault) == [log |-> l, n |-> n, ok |-> ok, fault |-> fault]
      final == prune(after(Len(lines)), limit)
  IN
  IF lines = <<>> THEN {outcome(log[u], 0, TRUE, FALSE)}
  ELSE IF stored(first) > limit THEN {outcome(first, 0, FALSE, FALSE)}
  ELSE {outcome(final, Len(lines), stored(final) <= limit, FALSE)}
       \cup {outcome(after(n), n, FALSE, TRUE) : n \in 0 .. Len(lines) - 1}

-----------------------------------------------------------------------------
(* The Controller.                                                         *)

\* Mutant: the generation of an event is not compared.
active_anyGeneration(e) == user[e.user].enabled /\ user[e.user].on

\* resolve: the audit is on and the event is of its generation.
active(e) == user[e.user].enabled /\ user[e.user].on /\ user[e.user].gen = e.gen

\* The users of batch b, the lines of u's active events, and the losses counted.
mentioned(b) == {x.user : x \in contents(b)}
linesOf(b, u) == LET es == SelectSeq(b.events, LAMBDA e : e.user = u /\ active(e)) IN [i \in DOMAIN es |-> es[i].gen]
lossesOf(b, u) == FoldSeq(LAMBDA x, n : IF x.user = u /\ active(x) THEN n + x.count ELSE n, 0, b.dropped)

\* receiveAudit handles batch b; ok tells whether it succeeds.  One Grant that is
\* not known refuses all of it; the users are written one after the other, in any
\* order, until one fails; events and losses that are not active are skipped.
receiveAudit(b, ok) ==
  LET users == {x.user : x \in {y \in contents(b) : active(y)}} IN
  IF \E u \in mentioned(b) : ~user[u].granted
  THEN ~ok /\ UNCHANGED <<log, lost, past, broken, count>>
  ELSE \E W \in SUBSET users : \E o \in [W -> UNION {Append_(u, linesOf(b, u)) : u \in W}] :
    LET failing == {u \in W : ~o[u].ok} IN
    /\ \A u \in W : o[u] \in Append_(u, linesOf(b, u))
    /\ IF failing = {} THEN W = users ELSE Cardinality(failing) = 1
    /\ ok = (failing = {})
    /\ IF \E u \in W : o[u].fault THEN trouble ELSE UNCHANGED count
    /\ log' = [u \in User |-> IF u \in W THEN o[u].log ELSE log[u]]
    /\ lost' = [u \in User |-> IF u \in W THEN lost[u] + lossesOf(b, u) ELSE lost[u]]
    /\ past' = [u \in User |-> IF u \in W THEN [past[u] EXCEPT !.unwritten = @ - o[u].n] ELSE past[u]]
    /\ broken' = (broken \ {u \in W : linesOf(b, u) # <<>>}) \cup failing

\* The Controller handles the report under way, or one the Agent has given up.
handle ==
  /\ batch # None /\ batch.answer = None
  /\ \E ok \in BOOLEAN : /\ receiveAudit(batch, ok)
                         /\ batch' = [batch EXCEPT !.answer = IF ok THEN "ok" ELSE "failed"]
  /\ UNCHANGED <<user, cleared, auditing, allowed, trace, queue, drops, late>>

handleLate ==
  /\ late # None /\ late' = None
  /\ \E ok \in BOOLEAN : receiveAudit(late, ok)
  /\ UNCHANGED <<user, cleared, auditing, allowed, trace, queue, drops, batch>>

\* A generation begins: there is nothing of it yet.
begins(u) == lost' = [lost EXCEPT ![u] = 0] /\ past' = [past EXCEPT ![u] = Nothing]

\* Mutant: a reduced quota closes the segment and removes nothing.
enforced_keepsArchives(l, limit) == IF Len(l.current) > limit THEN rotate(l) ELSE l

\* Enforce, when it does not fail.
enforced(l, limit) == prune(IF Len(l.current) > limit THEN rotate(l) ELSE l, limit)

\* Switching the audit begins a generation; the quota is applied to the log.
saveUserAudit(u, on, limit) ==
  LET gen == IF user[u].on # on THEN user[u].gen + 1 ELSE user[u].gen IN
  /\ gen \in Gen /\ user' = [user EXCEPT ![u] = [@ EXCEPT !.on = on, !.limit = limit, !.gen = gen]]
  /\ user' # user
  /\ \/ log' = [log EXCEPT ![u] = enforced(@, limit)] /\ broken' = broken \ {u} /\ spend("changes", MaxChanges)
     \/ UNCHANGED log /\ broken' = broken \cup {u} /\ trouble
  /\ IF user[u].on # on THEN begins(u) ELSE UNCHANGED <<lost, past>>
  /\ UNCHANGED <<cleared, agent>>

\* Clear removes the files, archives first, and the counts; it may fail on one.
Clear(u) ==
  \/ /\ spend("changes", MaxChanges)
     /\ log' = [log EXCEPT ![u] = [archives |-> <<>>, current |-> <<>>]]
     /\ cleared' = [cleared EXCEPT ![u] = user[u].gen + 1] /\ broken' = broken \ {u}
  \/ /\ trouble
     /\ \E n \in 0 .. Len(log[u].archives) : log' = [log EXCEPT ![u].archives = SubSeq(@, n + 1, Len(@))]
     /\ UNCHANGED <<cleared, broken>>

\* Clearing begins a generation, so that events still on their way are stale, then
\* removes the files.
clearUserAudit(u) ==
  /\ user[u].gen < MaxGen /\ user' = [user EXCEPT ![u].gen = @ + 1]
  /\ begins(u) /\ Clear(u) /\ UNCHANGED agent

change(u, record) ==
  /\ user' = [user EXCEPT ![u] = record] /\ spend("changes", MaxChanges)
  /\ UNCHANGED <<log, lost, cleared, broken, agent>>

\* A user is disabled or enabled again; the generation stays.
toggleUser(u) ==
  change(u, [user[u] EXCEPT !.enabled = ~@]) /\ past' = [past EXCEPT ![u].excused = TRUE]

\* The user loses the Grant: batches that name it are refused from now on.
deleteGrant(u) == user[u].granted /\ change(u, [user[u] EXCEPT !.granted = FALSE]) /\ UNCHANGED past

-----------------------------------------------------------------------------
\* The Agent starts; or it is at work, each user has had an event in a report that
\* failed, and one more event is queued.
Init ==
  /\ user = [u \in User |-> [granted |-> TRUE, enabled |-> TRUE, on |-> TRUE, gen |-> 0, limit |-> Default]]
  /\ log = [u \in User |-> [archives |-> <<>>, current |-> <<>>]]
  /\ lost = [u \in User |-> 0]
  /\ allowed \in BOOLEAN /\ auditing = [u \in User |-> IF allowed THEN 0 ELSE None]
  /\ drops = [u \in User |-> [g \in Gen |-> IF allowed /\ g = 0 THEN 1 ELSE 0]]
  /\ queue \in IF allowed THEN {<<[user |-> u, gen |-> 0]>> : u \in User} ELSE {<<>>}
  /\ past = [u \in User |-> [Nothing EXCEPT !.unwritten = drops[u][0] + tally(queue, u)]]
  /\ trace = [c \in Conn |-> None]
  /\ batch = None /\ late = None
  /\ cleared = [u \in User |-> 0] /\ broken = {}
  /\ count = [events |-> 0, changes |-> 0, faults |-> 0]

Next ==
  \/ applyConfig \/ invalidateAuthorization
  \/ \E c \in Conn : emit(c) \/ \E u \in User : newAuditTrace(c, u)
  \/ flushAudit \/ reported \/ unanswered \/ handle \/ handleLate
  \/ \E u \in User :
       \/ \E on \in BOOLEAN, limit \in Limit : saveUserAudit(u, on, limit)
       \/ clearUserAudit(u) \/ toggleUser(u) \/ deleteGrant(u)

Spec == Init /\ [][Next]_vars

-----------------------------------------------------------------------------
(* Properties.                                                             *)

onDisk(u) == UNION {Range(a) : a \in Range(Append(log[u].archives, log[u].current))}

\* clearUserAudit: "a slow node must not resurrect cleared logs".  Whatever was
\* queued, under way or given up when a log was cleared, no line of an earlier
\* generation is in it afterwards.
ClearedStays == \A u \in User : \A g \in onDisk(u) : g >= cleared[u]

\* docs/panel.md: "Overflow and failed reports are counted as lost events".  While
\* an audit is on, each overflow of its generation is counted at least once, in the
\* Agent, in the report under way or in the Controller, and each event is waiting,
\* written or counted so, through full queues, more losses than a batch takes, lost
\* answers, refused batches, late arrivals and batches written for some users only.
\* Excepted are a generation during which the user was disabled, one that found no
\* room in a full auditDrops and, for events still queued, a loss of authorization.
LossAccounted ==
  \A u \in User : LET g == user[u].gen IN
    user[u].granted /\ active([user |-> u, gen |-> g]) /\ ~past[u].excused =>
      LET counted == drops[u][g] + lost[u] + IF batch = None THEN 0 ELSE lossesOf(batch, u)
          waiting == tally(queue, u) + IF batch = None THEN 0 ELSE tally(batch.events, u)
      IN /\ past[u].overflows <= counted
         /\ past[u].lapsed \/ past[u].unwritten <= waiting + counted

\* Segments, archives and the current file of a user together stay within the
\* quota, and after a failure within one batch of the largest quota: Append prunes
\* first, and refuses to write rather than keep growing.
QuotaKept ==
  \A u \in User : stored(log[u]) <= IF u \in broken THEN Max(Limit) + MaxBatch ELSE user[u].limit

=============================================================================
