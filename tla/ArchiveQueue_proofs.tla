------------------------- MODULE ArchiveQueue_proofs ------------------------
(***************************************************************************)
(* The outbox for any number of requests, bodies, events and faults: what  *)
(* Redis holds fits together, the archive is written once and in order,    *)
(* and the outbox with its receipts implements RequestLog.                 *)
(***************************************************************************)
EXTENDS ArchiveQueue, SequenceTheorems, FiniteSetTheorems, TLAPS

Ends == {"complete", "fail"}

\* The end of the request is in the archive, or on its way in front of position i.
Over(t) == rec[t] \in TERMINAL_STATES
EndsBefore(t, i) == Over(t) \/ \E j \in 1..Len(queue[t]) : j < i /\ queue[t][j].op \in Ends
Finished(t) == EndsBefore(t, Len(queue[t]) + 1)

\* The list holds what was accepted and not yet removed, under ids used once.
LogInv(t) ==
    /\ Len(accepted[t]) = popped[t] + Len(queue[t])
    /\ \A i \in 1..Len(queue[t]) : /\ queue[t][i].pos = popped[t] + i
                                   /\ queue[t][i].n = accepted[t][popped[t] + i]
    /\ \A i, j \in 1..Len(accepted[t]) : accepted[t][i] = accepted[t][j] => i = j
    /\ \A i \in 1..Len(accepted[t]) : accepted[t][i] <= api[t].n
    /\ eventIds[t] \subseteq Range(accepted[t])
    /\ receipts[t] \subseteq Range(accepted[t])

\* An event that may still reach Redis is recognised there if it was accepted.
Known(t, n) == n \in Range(accepted[t]) => n \in eventIds[t]
InFlight(t) == api[t].pc \in {"calling", "unconfirmed"}

ApiInv(t) ==
    /\ api[t].pc = "new" => api[t].n = 0
    /\ InFlight(t) =>
         /\ api[t].ev \in Event /\ api[t].ev.n = api[t].n /\ Known(t, api[t].n)
         /\ api[t].ev.op = "history" => Finished(t)
         /\ api[t].ev.op \in Ends /\ api[t].n \in Range(accepted[t]) => Finished(t)
    /\ api[t].last \in Ends => Finished(t)

LateInv(c) ==
    /\ c.script = "ENQUEUE" =>
         /\ c.ev.n <= api[c.tok].n
         /\ c.ev.n = api[c.tok].n => c.ev = api[c.tok].ev
         /\ Known(c.tok, c.ev.n)
         /\ c.ev.op = "history" => Finished(c.tok)
    /\ c.script = "ACK" => c.ent.pos \in Archived[c.tok]

\* What was removed has taken effect, and at most the head beside it; the receipt
\* of a head that has is still there.
HeadInv(t) ==
    queue[t] # <<>> /\ popped[t] + 1 \in Archived[t] =>
       /\ Head(queue[t]).op # "history" => Head(queue[t]).n \in receipts[t]
       /\ Head(queue[t]).op \in Ends => Over(t)

ArchiveInv(t) ==
    /\ \/ Archived[t] = 1..popped[t]
       \/ queue[t] # <<>> /\ Archived[t] = 1..(popped[t] + 1)
    /\ \A i, j \in 1..Len(committed[t]) : i < j => committed[t][i] < committed[t][j]
    /\ \A i \in 1..Len(accepted[t]) :
          accepted[t][i] \in receipts[t] => i \in Range(committed[t])
    /\ HeadInv(t)
    /\ \A i \in 1..Len(queue[t]) : queue[t][i].op = "history" => EndsBefore(t, i)
    /\ published[t] # <<>> => Over(t)

\* The entry the worker holds is the head, or was and has taken effect.
Holding == worker.pc \in {"decode", "apply", "ack", "forget", "failed"}
HoldInv(t, ent, pc) ==
    /\ ent.pos \in 1..(popped[t] + 1) /\ ent.pos <= Len(accepted[t])
    /\ accepted[t][ent.pos] = ent.n
    /\ ent.pos = popped[t] + 1 => queue[t] # <<>> /\ Head(queue[t]) = ent
    /\ ent.pos <= popped[t] /\ ent.op = "history" => Over(t)
    /\ ent.pos <= popped[t] /\ ent.op # "history" /\ pc \in {"decode", "apply"} =>
          ent.n \in receipts[t]
    /\ pc = "ack" => ent.pos \in Archived[t]
    /\ pc = "forget" => ent.pos <= popped[t]
WorkerInv == Holding => HoldInv(worker.tok, worker.ent, worker.pc)
-----------------------------------------------------------------------------
(***************************************************************************)
(* What the scripts do to the keys of Redis.                               *)
(***************************************************************************)
RedisTypes ==
    /\ queue \in [Tokens -> Seq(Entry)]
    /\ bodies \in [Tokens -> SUBSET Bodies]
    /\ eventIds \in [Tokens -> SUBSET (1..MaxEvents)]
    /\ used \in Int
    /\ ready \in [Tokens -> {"no", "due", "later"}]
    /\ oldest \in SUBSET Tokens
    /\ quarantine \in SUBSET Tokens
    /\ retries \in [Tokens -> 0..QuarantineAt]
    /\ errors \in SUBSET Tokens
    /\ accepted \in [Tokens -> Seq(1..MaxEvents)]
    /\ popped \in [Tokens -> Nat]

RedisInv ==
    /\ NoStrandedEvents
    /\ BytesAreAccounted
    /\ WithinLimit
    /\ BodiesOutliveTheirEvents
    /\ NoPayloadlessRetry
    /\ IsFiniteSet(StoredEvents)

\* Only the list of one token changes.
LEMMA StoredEventsChange ==
    ASSUME queue \in [Tokens -> Seq(Entry)], NEW t \in Tokens, NEW s \in Seq(Entry),
           queue' = [queue EXCEPT ![t] = s]
    PROVE  /\ Len(s) = Len(queue[t]) + 1 =>
                /\ StoredEvents' = StoredEvents \cup {<<t, Len(queue[t]) + 1>>}
                /\ <<t, Len(queue[t]) + 1>> \notin StoredEvents
           /\ Len(s) = Len(queue[t]) - 1 =>
                /\ StoredEvents' = StoredEvents \ {<<t, Len(queue[t])>>}
                /\ <<t, Len(queue[t])>> \in StoredEvents
<1>1. Len(s) \in Nat /\ \A u \in Tokens : Len(queue[u]) \in Nat OBVIOUS
<1>2. ASSUME NEW u, NEW i
      PROVE  <<u, i>> \in StoredEvents <=> u \in Tokens /\ i \in 1..Len(queue[u])
  BY DEF StoredEvents
<1>3. ASSUME NEW u, NEW i
      PROVE  <<u, i>> \in StoredEvents' <=> u \in Tokens /\ i \in 1..Len(queue'[u])
  BY DEF StoredEvents
<1>4. ASSUME NEW p \in StoredEvents PROVE \E u, i : p = <<u, i>> BY DEF StoredEvents
<1>5. ASSUME NEW p \in StoredEvents' PROVE \E u, i : p = <<u, i>> BY DEF StoredEvents
<1>6. Len(queue'[t]) = Len(s) /\ \A u \in Tokens \ {t} : queue'[u] = queue[u] OBVIOUS
<1>7. ASSUME Len(s) = Len(queue[t]) + 1
      PROVE  /\ StoredEvents' = StoredEvents \cup {<<t, Len(queue[t]) + 1>>}
             /\ <<t, Len(queue[t]) + 1>> \notin StoredEvents
  <2>1. <<t, Len(queue[t]) + 1>> \notin StoredEvents BY <1>1, <1>2
  <2>2. ASSUME NEW u, NEW i
        PROVE  <<u, i>> \in StoredEvents' <=>
                 <<u, i>> \in StoredEvents \/ (u = t /\ i = Len(queue[t]) + 1)
    BY <1>1, <1>2, <1>3, <1>6, <1>7
  <2> QED BY <1>4, <1>5, <2>1, <2>2
<1>8. ASSUME Len(s) = Len(queue[t]) - 1
      PROVE  /\ StoredEvents' = StoredEvents \ {<<t, Len(queue[t])>>}
             /\ <<t, Len(queue[t])>> \in StoredEvents
  <2>1. <<t, Len(queue[t])>> \in StoredEvents BY <1>1, <1>2, <1>8
  <2>2. ASSUME NEW u, NEW i
        PROVE  <<u, i>> \in StoredEvents' <=>
                 <<u, i>> \in StoredEvents /\ ~ (u = t /\ i = Len(queue[t]))
    BY <1>1, <1>2, <1>3, <1>6, <1>8
  <2> QED BY <1>4, <1>5, <2>1, <2>2
<1> QED BY <1>7, <1>8

\* Only the bodies of one token change.
LEMMA StoredBodiesChange ==
    ASSUME bodies \in [Tokens -> SUBSET Bodies], NEW t \in Tokens, NEW B \in SUBSET Bodies,
           bodies' = [bodies EXCEPT ![t] = B]
    PROVE  /\ Cardinality(StoredBodies') = Cardinality(StoredBodies)
                + Cardinality(B \ bodies[t]) - Cardinality(bodies[t] \ B)
           /\ Cardinality(StoredBodies) \in Nat
           /\ Cardinality(B \ bodies[t]) \in Nat /\ Cardinality(bodies[t] \ B) \in Nat
<1> DEFINE In == {t} \X (B \ bodies[t])
           Out == {t} \X (bodies[t] \ B)
<1>1. IsFiniteSet(Tokens) /\ IsFiniteSet(Bodies) BY ConstantsAssumption
<1>2. StoredBodies \subseteq Tokens \X Bodies BY DEF StoredBodies
<1>3. IsFiniteSet(StoredBodies) BY <1>1, <1>2, FS_Product, FS_Subset
<1>4. IsFiniteSet(B \ bodies[t]) /\ IsFiniteSet(bodies[t] \ B)
  <2>1. (B \ bodies[t]) \in SUBSET Bodies /\ (bodies[t] \ B) \in SUBSET Bodies OBVIOUS
  <2> QED BY <1>1, <2>1, FS_Subset
<1>5. /\ IsFiniteSet(In) /\ Cardinality(In) = Cardinality(B \ bodies[t])
      /\ IsFiniteSet(Out) /\ Cardinality(Out) = Cardinality(bodies[t] \ B)
  <2>1. IsFiniteSet({t}) /\ Cardinality({t}) = 1 BY FS_Singleton
  <2>2. /\ Cardinality(B \ bodies[t]) \in Nat /\ Cardinality(bodies[t] \ B) \in Nat
    BY <1>4, FS_CardinalityType
  <2>3. IsFiniteSet(In) /\ Cardinality(In) = 1 * Cardinality(B \ bodies[t])
    BY <1>4, <2>1, FS_Product
  <2>4. IsFiniteSet(Out) /\ Cardinality(Out) = 1 * Cardinality(bodies[t] \ B)
    BY <1>4, <2>1, FS_Product
  <2> QED BY <2>2, <2>3, <2>4
<1>6. /\ StoredBodies' = (StoredBodies \ Out) \cup In
      /\ StoredBodies \cap Out = Out /\ (StoredBodies \ Out) \cap In = {}
  <2>1. ASSUME NEW u, NEW b
        PROVE  <<u, b>> \in StoredBodies <=> u \in Tokens /\ b \in bodies[u]
    BY DEF StoredBodies
  <2>2. ASSUME NEW u, NEW b
        PROVE  <<u, b>> \in StoredBodies' <=> u \in Tokens /\ b \in bodies'[u]
    BY DEF StoredBodies
  <2>3. bodies'[t] = B /\ \A u \in Tokens \ {t} : bodies'[u] = bodies[u] OBVIOUS
  <2>4. /\ \A p \in StoredBodies : \E u, b : p = <<u, b>>
        /\ \A p \in StoredBodies' : \E u, b : p = <<u, b>>
    BY DEF StoredBodies
  <2>5. /\ \A p \in In : \E b \in B \ bodies[t] : p = <<t, b>>
        /\ \A p \in Out : \E b \in bodies[t] \ B : p = <<t, b>>
    OBVIOUS
  <2>6. ASSUME NEW u, NEW b
        PROVE  /\ <<u, b>> \in In <=> u = t /\ b \in B \ bodies[t]
               /\ <<u, b>> \in Out <=> u = t /\ b \in bodies[t] \ B
    OBVIOUS
  <2> HIDE DEF In, Out
  <2>7. ASSUME NEW u, NEW b
        PROVE  <<u, b>> \in StoredBodies' <=> <<u, b>> \in (StoredBodies \ Out) \cup In
    BY <2>1, <2>2, <2>3, <2>6
  <2>8. ASSUME NEW u, NEW b
        PROVE  /\ <<u, b>> \in Out => <<u, b>> \in StoredBodies
               /\ <<u, b>> \in In => <<u, b>> \notin StoredBodies
    BY <2>1, <2>6
  <2> QED BY <2>4, <2>5, <2>7, <2>8
<1> HIDE DEF In, Out
<1>7. /\ IsFiniteSet(StoredBodies \ Out)
      /\ Cardinality(StoredBodies \ Out) = Cardinality(StoredBodies) - Cardinality(Out)
  BY <1>3, <1>6, FS_Difference
<1>8. Cardinality((StoredBodies \ Out) \cup In) =
        Cardinality(StoredBodies \ Out) + Cardinality(In) - Cardinality({})
  BY <1>5, <1>6, <1>7, FS_Union
<1>9. /\ Cardinality(StoredBodies) \in Nat /\ Cardinality(B \ bodies[t]) \in Nat
      /\ Cardinality(bodies[t] \ B) \in Nat
  BY <1>3, <1>4, FS_CardinalityType
<1> QED BY <1>5, <1>6, <1>7, <1>8, <1>9, FS_EmptySet

\* What changes neither list nor body nor counter keeps the accounts.
LEMMA AccountsKept ==
    ASSUME RedisInv, UNCHANGED <<queue, bodies, used>>
    PROVE  /\ BytesAreAccounted' /\ WithinLimit' /\ IsFiniteSet(StoredEvents')
           /\ BodiesOutliveTheirEvents'
BY DEF RedisInv, BytesAreAccounted, WithinLimit, StoredEvents, StoredBodies,
       BodiesOutliveTheirEvents

\* What a script leaves alone that only edits the indexes.
IndexOnly == UNCHANGED <<queue, bodies, eventIds, used, accepted, popped>>

\* A step that runs no script.
LEMMA RedisIdle ==
    ASSUME RedisTypes, RedisInv, UNCHANGED <<redisVars, logVars>>
    PROVE  RedisTypes' /\ RedisInv' /\ IndexOnly
<1>1. RedisTypes' /\ IndexOnly BY DEF RedisTypes, redisVars, logVars, IndexOnly
<1>2. NoStrandedEvents' /\ NoPayloadlessRetry'
  BY DEF RedisInv, NoStrandedEvents, NoPayloadlessRetry, redisVars
<1> QED BY <1>1, <1>2, AccountsKept DEF RedisInv, redisVars

\* The counter follows one event and some bodies.
LEMMA Bytes ==
    ASSUME NEW m \in Int, NEW x \in Int, NEW b \in Int, NEW y \in Int, NEW d \in Int
    PROVE  /\ (m * x + b * y) + (m + b * d) = m * (x + 1) + b * (y + d)
           /\ (m * x + b * y) - (m + b * d) = m * (x - 1) + b * (y - d)
OBVIOUS

\* The entry that ENQUEUE appends.
NewEntry(t, e) == [n |-> e.n, op |-> e.op, body |-> e.body, pos |-> Len(accepted[t]) + 1]

\* An accepted event is at the end of its list and of the log of its token.
Accepts(t, e) ==
    /\ queue' = [queue EXCEPT ![t] = Append(queue[t], NewEntry(t, e))]
    /\ accepted' = [accepted EXCEPT ![t] = Append(accepted[t], e.n)]
    /\ eventIds' = [eventIds EXCEPT ![t] = eventIds[t] \cup {e.n}]
    /\ e.n \notin eventIds[t]
    /\ popped' = popped

\* The effect of ENQUEUE on lists and logs.
LEMMA EnqueueEffect ==
    ASSUME NEW t, NEW e, ENQUEUE(t, e)
    PROVE  IF EnqueueResult(t, e) = 1 THEN Accepts(t, e) ELSE UNCHANGED <<redisVars, logVars>>
<1>1. ASSUME EnqueueResult(t, e) = 1 PROVE e.n \notin eventIds[t] BY <1>1 DEF EnqueueResult
<1> QED BY <1>1 DEF ENQUEUE, Accepts, NewEntry

\* ENQUEUE keeps the keys of Redis together.
LEMMA EnqueueKeeps ==
    ASSUME RedisTypes, RedisInv, NEW t \in Tokens, NEW e \in Event, ENQUEUE(t, e)
    PROVE  RedisTypes' /\ RedisInv'
<1>1. CASE EnqueueResult(t, e) # 1
  <2>1. UNCHANGED <<redisVars, logVars>> BY <1>1 DEF ENQUEUE
  <2> QED BY <2>1, RedisIdle
<1>2. CASE EnqueueResult(t, e) = 1
  <2> DEFINE x == NewEntry(t, e)
             B == bodies[t] \cup e.body
  <2>1. /\ queue' = [queue EXCEPT ![t] = Append(queue[t], x)]
        /\ bodies' = [bodies EXCEPT ![t] = B]
        /\ eventIds' = [eventIds EXCEPT ![t] = @ \cup {e.n}]
        /\ used' = used + EnqueueSize(t, e)
        /\ oldest' = oldest \cup {t}
        /\ ready' = IF t \in quarantine \/ ready[t] # "no"
                    THEN ready ELSE [ready EXCEPT ![t] = "due"]
        /\ accepted' = [accepted EXCEPT ![t] = Append(@, e.n)]
        /\ UNCHANGED <<quarantine, retries, errors, popped>>
    BY <1>2 DEF ENQUEUE, NewEntry
  <2>2. /\ e.n \in 1..MaxEvents /\ e.op \in Ops /\ e.body \in SUBSET Bodies BY DEF Event
  <2>3. x \in Entry /\ x.body = e.body
    <3>1. Len(accepted[t]) + 1 \in Nat \ {0} BY DEF RedisTypes
    <3> QED BY <2>2, <3>1 DEF Entry, NewEntry
  <2> HIDE DEF x
  <2>4. queue[t] \in Seq(Entry) /\ accepted[t] \in Seq(1..MaxEvents) BY DEF RedisTypes
  <2>5. /\ Append(queue[t], x) \in Seq(Entry) /\ Append(queue[t], x) # <<>>
        /\ Len(Append(queue[t], x)) = Len(queue[t]) + 1
        /\ \A i \in 1..Len(queue[t]) : Append(queue[t], x)[i] = queue[t][i]
        /\ Append(queue[t], x)[Len(queue[t]) + 1] = x
    BY <2>3, <2>4, AppendProperties
  <2>6. Append(accepted[t], e.n) \in Seq(1..MaxEvents) BY <2>2, <2>4, AppendProperties
  <2>7. B \in SUBSET Bodies BY <2>2 DEF RedisTypes
  <2>8. EnqueueSize(t, e) = EventBytes + BodyBytes * Cardinality(e.body \ bodies[t])
    BY DEF EnqueueSize
  <2>9. /\ Cardinality(StoredBodies') = Cardinality(StoredBodies) + Cardinality(e.body \ bodies[t])
        /\ Cardinality(StoredBodies) \in Nat /\ Cardinality(e.body \ bodies[t]) \in Nat
    <3>1. B \ bodies[t] = e.body \ bodies[t] /\ bodies[t] \ B = {} OBVIOUS
    <3>2. bodies \in [Tokens -> SUBSET Bodies] BY DEF RedisTypes
    <3> HIDE DEF B
    <3>3. /\ Cardinality(StoredBodies') = Cardinality(StoredBodies)
                + Cardinality(B \ bodies[t]) - Cardinality(bodies[t] \ B)
          /\ Cardinality(StoredBodies) \in Nat
          /\ Cardinality(B \ bodies[t]) \in Nat
      BY <2>1, <2>7, <3>2, StoredBodiesChange
    <3>4. Cardinality({}) = 0 BY FS_EmptySet
    <3>5. Cardinality(B \ bodies[t]) = Cardinality(e.body \ bodies[t])
          /\ Cardinality(bodies[t] \ B) = 0
      BY <3>1, <3>4
    <3> QED BY <3>3, <3>5
  <2>10. /\ Cardinality(StoredEvents') = Cardinality(StoredEvents) + 1
         /\ IsFiniteSet(StoredEvents') /\ Cardinality(StoredEvents) \in Nat
    <3>1. queue \in [Tokens -> Seq(Entry)] BY DEF RedisTypes
    <3>2. /\ StoredEvents' = StoredEvents \cup {<<t, Len(queue[t]) + 1>>}
          /\ <<t, Len(queue[t]) + 1>> \notin StoredEvents
      BY <2>1, <2>5, <3>1, StoredEventsChange
    <3>3. IsFiniteSet(StoredEvents) BY DEF RedisInv
    <3> QED BY <3>2, <3>3, FS_AddElement, FS_CardinalityType
  <2>11. EventBytes \in Nat /\ BodyBytes \in Nat /\ MaxBytes \in Nat BY ConstantsAssumption
  <2>12. BytesAreAccounted'
    BY <2>1, <2>8, <2>9, <2>10, <2>11, Bytes DEF RedisInv, BytesAreAccounted
  <2>13. WithinLimit'
    <3>1. ~ (used + EnqueueSize(t, e) > MaxBytes) BY <1>2 DEF EnqueueResult
    <3>2. EnqueueSize(t, e) \in Int BY <2>8, <2>9, <2>11
    <3> QED BY <2>1, <2>11, <3>1, <3>2 DEF WithinLimit, RedisTypes
  <2>14. RedisTypes'
    <3>1. used' \in Int BY <2>1, <2>8, <2>9, <2>11 DEF RedisTypes
    <3>2. queue' \in [Tokens -> Seq(Entry)] BY <2>1, <2>5 DEF RedisTypes
    <3>3. bodies' \in [Tokens -> SUBSET Bodies] BY <2>1, <2>7 DEF RedisTypes
    <3>4. eventIds' \in [Tokens -> SUBSET (1..MaxEvents)] BY <2>1, <2>2 DEF RedisTypes
    <3>5. ready' \in [Tokens -> {"no", "due", "later"}] BY <2>1 DEF RedisTypes
    <3>6. accepted' \in [Tokens -> Seq(1..MaxEvents)] BY <2>1, <2>6 DEF RedisTypes
    <3> QED BY <2>1, <3>1, <3>2, <3>3, <3>4, <3>5, <3>6 DEF RedisTypes
  <2>15. NoStrandedEvents' BY <2>1 DEF RedisInv, NoStrandedEvents, RedisTypes
  <2>16. NoPayloadlessRetry' BY <2>1, <2>5 DEF RedisInv, NoPayloadlessRetry, RedisTypes
  <2>17. BodiesOutliveTheirEvents'
    <3> SUFFICES ASSUME NEW u \in Tokens, NEW i \in 1..Len(queue'[u])
                 PROVE  queue'[u][i].body \subseteq bodies'[u]
      BY DEF BodiesOutliveTheirEvents
    <3>1. CASE u # t BY <2>1, <3>1 DEF RedisInv, BodiesOutliveTheirEvents, RedisTypes
    <3>2. CASE u = t
      <4>1. queue'[t] = Append(queue[t], x) /\ bodies'[t] = B BY <2>1 DEF RedisTypes
      <4>2. Len(queue[t]) \in Nat BY <2>4
      <4>3. CASE i \in 1..Len(queue[t])
        BY <2>5, <3>2, <4>1, <4>3 DEF RedisInv, BodiesOutliveTheirEvents
      <4>4. CASE i = Len(queue[t]) + 1 BY <2>3, <2>5, <3>2, <4>1, <4>4
      <4> QED BY <2>5, <3>2, <4>1, <4>2, <4>3, <4>4
    <3> QED BY <3>1, <3>2
  <2> QED BY <2>10, <2>12, <2>13, <2>14, <2>15, <2>16, <2>17 DEF RedisInv
<1> QED BY <1>1, <1>2

\* A removed event was the head of its list.
Removes(t, ent) ==
    /\ queue[t] # <<>> /\ Head(queue[t]) = ent
    /\ queue' = [queue EXCEPT ![t] = Tail(queue[t])]
    /\ popped' = [popped EXCEPT ![t] = popped[t] + 1]
    /\ UNCHANGED <<accepted, eventIds>>

\* The effect of ACK on lists and logs.
LEMMA AckEffect ==
    ASSUME NEW t, NEW ent, ACK(t, ent)
    PROVE  IF AckResult(t, ent) THEN Removes(t, ent) ELSE UNCHANGED <<redisVars, logVars>>
BY DEF ACK, Removes, AckResult

\* ACK keeps the keys of Redis together.
LEMMA AckKeeps ==
    ASSUME RedisTypes, RedisInv, NEW t \in Tokens, NEW ent, ACK(t, ent)
    PROVE  RedisTypes' /\ RedisInv'
<1>1. CASE ~ AckResult(t, ent)
  <2>1. UNCHANGED <<redisVars, logVars>> BY <1>1 DEF ACK
  <2> QED BY <2>1, RedisIdle
<1>2. CASE AckResult(t, ent)
  <2> DEFINE s == Tail(queue[t])
             B == BodiesAfterAck(t)
  <2>1. /\ queue' = [queue EXCEPT ![t] = s]
        /\ retries' = [retries EXCEPT ![t] = 0]
        /\ errors' = errors \ {t}
        /\ bodies' = [bodies EXCEPT ![t] = B]
        /\ used' = used - AckBytes(t)
        /\ IF Len(queue[t]) = 1
           THEN ready' = [ready EXCEPT ![t] = "no"] /\ oldest' = oldest \ {t}
           ELSE ready' = [ready EXCEPT ![t] = "due"] /\ UNCHANGED oldest
        /\ popped' = [popped EXCEPT ![t] = @ + 1]
        /\ UNCHANGED <<eventIds, quarantine, accepted>>
    BY <1>2 DEF ACK
  <2>2. queue[t] \in Seq(Entry) /\ queue[t] # <<>> BY <1>2 DEF RedisTypes, AckResult
  <2>3. /\ s \in Seq(Entry) /\ Len(s) = Len(queue[t]) - 1 /\ Len(queue[t]) \in Nat
        /\ \A i \in 1..Len(s) : s[i] = queue[t][i + 1]
    BY <2>2, HeadTailProperties
  <2> HIDE DEF s
  <2>4. B \in SUBSET bodies[t] /\ B \in SUBSET Bodies BY DEF BodiesAfterAck, RedisTypes
  <2>5. (Len(queue[t]) = 1 => B = {}) /\ (Len(queue[t]) # 1 => B = bodies[t])
    BY DEF BodiesAfterAck
  <2>6. AckBytes(t) = EventBytes + BodyBytes * Cardinality(bodies[t] \ B) BY DEF AckBytes
  <2> HIDE DEF B
  <2>7. /\ Cardinality(StoredBodies') = Cardinality(StoredBodies) - Cardinality(bodies[t] \ B)
        /\ Cardinality(StoredBodies) \in Nat /\ Cardinality(bodies[t] \ B) \in Nat
    <3>1. bodies \in [Tokens -> SUBSET Bodies] BY DEF RedisTypes
    <3>2. /\ Cardinality(StoredBodies') = Cardinality(StoredBodies)
                + Cardinality(B \ bodies[t]) - Cardinality(bodies[t] \ B)
          /\ Cardinality(StoredBodies) \in Nat
          /\ Cardinality(bodies[t] \ B) \in Nat
      BY <2>1, <2>4, <3>1, StoredBodiesChange
    <3>3. B \ bodies[t] = {} BY <2>4
    <3>4. Cardinality({}) = 0 BY FS_EmptySet
    <3>5. Cardinality(B \ bodies[t]) = 0 BY <3>3, <3>4
    <3> QED BY <3>2, <3>5
  <2>8. /\ Cardinality(StoredEvents') = Cardinality(StoredEvents) - 1
        /\ IsFiniteSet(StoredEvents') /\ Cardinality(StoredEvents) \in Nat
    <3>1. queue \in [Tokens -> Seq(Entry)] BY DEF RedisTypes
    <3>2. /\ StoredEvents' = StoredEvents \ {<<t, Len(queue[t])>>}
          /\ <<t, Len(queue[t])>> \in StoredEvents
      BY <2>1, <2>3, <3>1, StoredEventsChange
    <3>3. IsFiniteSet(StoredEvents) BY DEF RedisInv
    <3> QED BY <3>2, <3>3, FS_RemoveElement, FS_CardinalityType
  <2>9. EventBytes \in Nat /\ BodyBytes \in Nat /\ MaxBytes \in Nat BY ConstantsAssumption
  <2>10. BytesAreAccounted'
    BY <2>1, <2>6, <2>7, <2>8, <2>9, Bytes DEF RedisInv, BytesAreAccounted
  <2>11. AckBytes(t) \in Nat
    <3>1. BodyBytes * Cardinality(bodies[t] \ B) \in Nat BY <2>7, <2>9
    <3> QED BY <2>6, <2>9, <3>1
  <2>12. WithinLimit'
    <3>1. used' <= used BY <2>1, <2>11 DEF RedisTypes
    <3> QED BY <2>1, <2>9, <2>11, <3>1 DEF RedisInv, WithinLimit, RedisTypes
  <2>13. RedisTypes'
    <3>1. used' \in Int BY <2>1, <2>11 DEF RedisTypes
    <3>2. queue' \in [Tokens -> Seq(Entry)] BY <2>1, <2>3 DEF RedisTypes
    <3>3. bodies' \in [Tokens -> SUBSET Bodies] BY <2>1, <2>4 DEF RedisTypes
    <3>4. ready' \in [Tokens -> {"no", "due", "later"}] BY <2>1 DEF RedisTypes
    <3>5. popped' \in [Tokens -> Nat] BY <2>1 DEF RedisTypes
    <3>6. retries' \in [Tokens -> 0..QuarantineAt]
      BY <2>1, ConstantsAssumption DEF RedisTypes
    <3>7. oldest' \in SUBSET Tokens BY <2>1 DEF RedisTypes
    <3> QED BY <2>1, <3>1, <3>2, <3>3, <3>4, <3>5, <3>6, <3>7 DEF RedisTypes
  <2>14. ASSUME s # <<>> PROVE Len(queue[t]) # 1 BY <2>3, <2>14, EmptySeq
  <2>15. NoStrandedEvents'
    <3> SUFFICES ASSUME NEW u \in Tokens, queue'[u] # <<>>
                 PROVE  ready'[u] # "no" \/ u \in quarantine'
      BY DEF NoStrandedEvents
    <3>1. CASE u # t BY <2>1, <3>1 DEF RedisInv, NoStrandedEvents, RedisTypes
    <3>2. CASE u = t
      <4>1. queue'[t] = s BY <2>1 DEF RedisTypes
      <4> QED BY <2>1, <2>14, <3>2, <4>1 DEF RedisTypes
    <3> QED BY <3>1, <3>2
  <2>16. NoPayloadlessRetry' BY <2>1 DEF RedisInv, NoPayloadlessRetry, RedisTypes
  <2>17. BodiesOutliveTheirEvents'
    <3> SUFFICES ASSUME NEW u \in Tokens, NEW i \in 1..Len(queue'[u])
                 PROVE  queue'[u][i].body \subseteq bodies'[u]
      BY DEF BodiesOutliveTheirEvents
    <3>1. CASE u # t BY <2>1, <3>1 DEF RedisInv, BodiesOutliveTheirEvents, RedisTypes
    <3>2. CASE u = t
      <4>1. queue'[t] = s /\ bodies'[t] = B BY <2>1 DEF RedisTypes
      <4>2. i \in 1..Len(s) /\ i + 1 \in 1..Len(queue[t]) BY <2>3, <3>2, <4>1
      <4>3. B = bodies[t] BY <2>3, <2>5, <4>2
      <4> QED BY <2>3, <3>2, <4>1, <4>2, <4>3 DEF RedisInv, BodiesOutliveTheirEvents
    <3> QED BY <3>1, <3>2
  <2> QED BY <2>8, <2>10, <2>12, <2>13, <2>15, <2>16, <2>17 DEF RedisInv
<1> QED BY <1>1, <1>2

\* RETRY_FAILED keeps the keys of Redis together.
LEMMA FailedKeeps ==
    ASSUME RedisTypes, RedisInv, NEW t \in Tokens, NEW ent, NEW poison,
           RETRY_FAILED(t, ent, poison)
    PROVE  RedisTypes' /\ RedisInv' /\ IndexOnly
<1>0. IndexOnly BY DEF RETRY_FAILED, IndexOnly, redisVars, logVars
<1>1. CASE ~ RetryApplies(t, ent)
  <2>1. UNCHANGED <<redisVars, logVars>> BY <1>1 DEF RETRY_FAILED
  <2> QED BY <2>1, RedisIdle
<1>2. CASE RetryApplies(t, ent)
  <2> DEFINE k == RetryCount(t, poison)
  <2>1. /\ retries' = [retries EXCEPT ![t] = k]
        /\ errors' = errors \cup {t}
        /\ \/ quarantine' = quarantine \cup {t} /\ ready' = [ready EXCEPT ![t] = "no"]
           \/ ready' = [ready EXCEPT ![t] = "later"] /\ UNCHANGED quarantine
        /\ oldest' = oldest
    BY <1>2 DEF RETRY_FAILED
  <2>2. queue[t] # <<>> BY <1>2 DEF RetryApplies
  <2>3. k \in 0..QuarantineAt
    BY ConstantsAssumption DEF RetryCount, Saturated, RedisTypes
  <2> HIDE DEF k
  <2>4. RedisTypes' BY <1>0, <2>1, <2>3 DEF RedisTypes, IndexOnly
  <2>5. NoStrandedEvents' BY <1>0, <2>1 DEF RedisInv, NoStrandedEvents, RedisTypes, IndexOnly
  <2>6. NoPayloadlessRetry'
    BY <1>0, <2>1, <2>2 DEF RedisInv, NoPayloadlessRetry, RedisTypes, IndexOnly
  <2> QED BY <1>0, <2>4, <2>5, <2>6, AccountsKept DEF RedisInv, IndexOnly
<1> QED BY <1>1, <1>2

\* CLEAN_EMPTY_INDEX keeps the keys of Redis together.
LEMMA CleanKeeps ==
    ASSUME RedisTypes, RedisInv, NEW t \in Tokens, CLEAN_EMPTY_INDEX(t)
    PROVE  RedisTypes' /\ RedisInv' /\ IndexOnly
<1>0. IndexOnly BY DEF CLEAN_EMPTY_INDEX, IndexOnly, redisVars, logVars
<1>1. CASE ~ CleanApplies(t)
  <2>1. UNCHANGED <<redisVars, logVars>> BY <1>1 DEF CLEAN_EMPTY_INDEX
  <2> QED BY <2>1, RedisIdle
<1>2. CASE CleanApplies(t)
  <2>1. /\ ready' = [ready EXCEPT ![t] = "no"]
        /\ oldest' = oldest \ {t}
        /\ retries' = [retries EXCEPT ![t] = 0]
        /\ errors' = errors \ {t}
        /\ quarantine' = quarantine
        /\ queue[t] = <<>>
    BY <1>2 DEF CLEAN_EMPTY_INDEX, CleanApplies
  <2>2. RedisTypes' BY <1>0, <2>1, ConstantsAssumption DEF RedisTypes, IndexOnly
  <2>3. NoStrandedEvents' BY <1>0, <2>1 DEF RedisInv, NoStrandedEvents, RedisTypes, IndexOnly
  <2>4. NoPayloadlessRetry' BY <1>0, <2>1 DEF RedisInv, NoPayloadlessRetry, RedisTypes, IndexOnly
  <2> QED BY <1>0, <2>2, <2>3, <2>4, AccountsKept DEF RedisInv, IndexOnly
<1> QED BY <1>1, <1>2

\* So do the end of a backoff and the operator.
LEMMA DueKeeps ==
    ASSUME RedisTypes, RedisInv, NEW t \in Tokens, BackoffElapses(t) \/ Retry(t)
    PROVE  RedisTypes' /\ RedisInv' /\ IndexOnly
<1>0. IndexOnly BY DEF BackoffElapses, Retry, IndexOnly, logVars
<1>1. /\ ready' = [ready EXCEPT ![t] = "due"]
      /\ oldest' = oldest
      /\ quarantine' \in {quarantine, quarantine \ {t}}
      /\ retries' \in {retries, [retries EXCEPT ![t] = 0]}
      /\ errors' \in {errors, errors \ {t}}
  BY DEF BackoffElapses, Retry
<1>2. RedisTypes'
  <2>1. retries' \in [Tokens -> 0..QuarantineAt]
    <3>1. retries \in [Tokens -> 0..QuarantineAt] BY DEF RedisTypes
    <3>2. 0 \in 0..QuarantineAt BY ConstantsAssumption
    <3>3. [retries EXCEPT ![t] = 0] \in [Tokens -> 0..QuarantineAt] BY <3>1, <3>2
    <3> QED BY <1>1, <3>1, <3>3
  <2>2. ready' \in [Tokens -> {"no", "due", "later"}] BY <1>1 DEF RedisTypes
  <2>3. quarantine' \in SUBSET Tokens /\ errors' \in SUBSET Tokens BY <1>1 DEF RedisTypes
  <2> QED BY <1>0, <1>1, <2>1, <2>2, <2>3 DEF RedisTypes, IndexOnly
<1>3. NoStrandedEvents' BY <1>0, <1>1 DEF RedisInv, NoStrandedEvents, RedisTypes, IndexOnly
<1>4. NoPayloadlessRetry' BY <1>0, <1>1 DEF RedisInv, NoPayloadlessRetry, RedisTypes, IndexOnly
<1> QED BY <1>0, <1>2, <1>3, <1>4, AccountsKept DEF RedisInv, IndexOnly
-----------------------------------------------------------------------------
(***************************************************************************)
(* What the steps do to the log, the archive and those who look at them.   *)
(***************************************************************************)
ArchiveTypes ==
    /\ rec \in [Tokens -> RecordStates]
    /\ receipts \in [Tokens -> SUBSET (1..MaxEvents)]
    /\ committed \in [Tokens -> Seq(Nat)]
    /\ published \in [Tokens -> Seq(Nat)]

ApiState ==
    [pc : {"new", "idle", "calling", "unconfirmed", "failing", "closed"},
     n : 0..MaxEvents, ev : Event \cup {NoEvent}, last : Ops \cup {"none"}]

ProcessTypes ==
    /\ admission \in {"none", "ready", "blocked"}
    /\ late \in SUBSET Command
    /\ api \in [Tokens -> ApiState]
    /\ worker \in WorkerState
    /\ operators \in SUBSET Tokens
    /\ diskLow \in BOOLEAN
    /\ broken \in SUBSET Tokens
    /\ faults \in 0..MaxFaults

\* The type invariant in its parts.
LEMMA TypeParts == TypeOK <=> RedisTypes /\ ArchiveTypes /\ ProcessTypes
BY DEF TypeOK, RedisTypes, ArchiveTypes, ProcessTypes, ApiState

\* The elements of a list.
LEMMA RangeFacts ==
    ASSUME NEW S, NEW s \in Seq(S)
    PROVE  \A v : v \in Range(s) <=> \E i \in 1..Len(s) : s[i] = v
BY LenProperties DEF Range

\* One more element at the end of a list.
LEMMA RangeAppend ==
    ASSUME NEW S, NEW s \in Seq(S), NEW x \in S
    PROVE  Range(Append(s, x)) = Range(s) \cup {x}
<1>1. /\ Append(s, x) \in Seq(S) /\ Len(Append(s, x)) = Len(s) + 1
      /\ \A i \in 1..Len(s) : Append(s, x)[i] = s[i]
      /\ Append(s, x)[Len(s) + 1] = x
  BY AppendProperties
<1>2. DOMAIN Append(s, x) = 1..(Len(s) + 1) /\ DOMAIN s = 1..Len(s) /\ Len(s) \in Nat
  BY <1>1, LenProperties
<1>3. ASSUME NEW v \in Range(Append(s, x)) PROVE v \in Range(s) \cup {x}
  <2>1. PICK i \in 1..(Len(s) + 1) : v = Append(s, x)[i] BY <1>2 DEF Range
  <2>2. CASE i = Len(s) + 1 BY <1>1, <2>1, <2>2
  <2>3. CASE i \in 1..Len(s)
    <3>1. v = s[i] BY <1>1, <2>1, <2>3
    <3> QED BY <1>2, <2>3, <3>1 DEF Range
  <2> QED BY <1>2, <2>2, <2>3
<1>4. ASSUME NEW v \in Range(s) PROVE v \in Range(Append(s, x))
  <2>1. PICK i \in 1..Len(s) : v = s[i] BY <1>2 DEF Range
  <2>2. i \in 1..(Len(s) + 1) /\ Append(s, x)[i] = v BY <1>1, <1>2, <2>1
  <2> QED BY <1>2, <2>2 DEF Range
<1>5. x \in Range(Append(s, x))
  <2>1. Len(s) + 1 \in 1..(Len(s) + 1) BY <1>2
  <2> QED BY <1>1, <1>2, <2>1 DEF Range
<1> QED BY <1>3, <1>4, <1>5

\* What nobody forgets: who is known stays known, an end stays in sight, and what
\* has taken effect stays so.
Remembers ==
    /\ \A t \in Tokens : Finished(t) => Finished(t)'
    /\ \A t \in Tokens : \A n : Known(t, n) => Known(t, n)'
    /\ \A t \in Tokens : Archived[t] \subseteq Archived'[t]

LogsOK == \A t \in Tokens : LogInv(t)
ArchivesOK == \A t \in Tokens : ArchiveInv(t)

\* Neither lists nor archive change.
LEMMA QuietKeeps ==
    ASSUME ArchivesOK, IndexOnly, UNCHANGED archiveVars
    PROVE  Remembers /\ ArchivesOK' /\ Archived' = Archived
<1>1. UNCHANGED <<queue, accepted, popped, eventIds, rec, receipts, committed, published>>
  BY DEF IndexOnly, archiveVars
<1>2. Archived' = Archived BY <1>1 DEF Archived
<1>3. \A t \in Tokens : Finished(t) => Finished(t)' BY <1>1 DEF Finished, EndsBefore, Over
<1>4. \A t \in Tokens : \A n : Known(t, n) => Known(t, n)' BY <1>1 DEF Known
<1>5. ArchivesOK' BY <1>1, <1>2 DEF ArchivesOK, ArchiveInv, HeadInv, EndsBefore, Over
<1> QED BY <1>2, <1>3, <1>4, <1>5 DEF Remembers

\* The log of a token under another list of calls.
LEMMA QuietLogs ==
    ASSUME LogsOK, IndexOnly, receipts' = receipts,
           \A t \in Tokens : api[t].n \in Nat /\ api'[t].n \in Nat /\ api[t].n <= api'[t].n,
           RedisTypes
    PROVE  LogsOK'
<1>1. UNCHANGED <<queue, accepted, popped, eventIds>> BY DEF IndexOnly
<1> SUFFICES ASSUME NEW t \in Tokens PROVE LogInv(t)' BY DEF LogsOK
<1>2. LogInv(t) BY DEF LogsOK
<1>3. \A i \in 1..Len(accepted[t]) : accepted[t][i] <= api'[t].n
  <2> SUFFICES ASSUME NEW i \in 1..Len(accepted[t]) PROVE accepted[t][i] <= api'[t].n OBVIOUS
  <2>1. accepted[t][i] \in 1..MaxEvents BY ElementOfSeq DEF RedisTypes
  <2>2. accepted[t][i] <= api[t].n BY <1>2 DEF LogInv
  <2> QED BY <2>1, <2>2
<1> QED BY <1>1, <1>2, <1>3 DEF LogInv

\* A new entry at the end of a list.
LEMMA AcceptKeeps ==
    ASSUME RedisTypes, LogsOK, ArchivesOK, NEW t \in Tokens, NEW e \in Event,
           Accepts(t, e), UNCHANGED archiveVars, Known(t, e.n),
           e.n <= api[t].n, \A u \in Tokens : api'[u].n = api[u].n,
           e.op = "history" => Finished(t)
    PROVE  /\ LogsOK' /\ ArchivesOK' /\ Remembers /\ Archived' = Archived
           /\ e.op \in Ends => Finished(t)'
           /\ Range(accepted'[t]) = Range(accepted[t]) \cup {e.n}
           /\ \A u \in Tokens : u # t => accepted'[u] = accepted[u]
<1> DEFINE x == NewEntry(t, e)
           l == Len(queue[t])
           m == Len(accepted[t])
<1>1. /\ queue' = [queue EXCEPT ![t] = Append(queue[t], x)]
      /\ accepted' = [accepted EXCEPT ![t] = Append(accepted[t], e.n)]
      /\ eventIds' = [eventIds EXCEPT ![t] = eventIds[t] \cup {e.n}]
      /\ e.n \notin eventIds[t] /\ popped' = popped
      /\ UNCHANGED <<rec, receipts, committed, published>>
  BY DEF Accepts, archiveVars
<1>2. e.n \in 1..MaxEvents /\ e.op \in Ops /\ e.body \in SUBSET Bodies BY DEF Event
<1>3. /\ queue[t] \in Seq(Entry) /\ accepted[t] \in Seq(1..MaxEvents)
      /\ l \in Nat /\ m \in Nat /\ popped[t] \in Nat
  BY DEF RedisTypes
<1>4. x \in Entry /\ x.n = e.n /\ x.op = e.op /\ x.pos = m + 1
  BY <1>2, <1>3 DEF NewEntry, Entry
<1> HIDE DEF x
<1>5. /\ Len(queue'[t]) = l + 1 /\ queue'[t] # <<>> /\ queue'[t][l + 1] = x
      /\ \A i \in 1..l : queue'[t][i] = queue[t][i]
      /\ queue[t] # <<>> => Head(queue'[t]) = Head(queue[t])
      /\ queue[t] = <<>> => Head(queue'[t]) = x
  <2>1. queue'[t] = Append(queue[t], x) BY <1>1 DEF RedisTypes
  <2>2. /\ Len(Append(queue[t], x)) = l + 1 /\ Append(queue[t], x) # <<>>
        /\ \A i \in 1..l : Append(queue[t], x)[i] = queue[t][i]
        /\ Append(queue[t], x)[l + 1] = x
    BY <1>3, <1>4, AppendProperties
  <2>3. Head(Append(queue[t], x)) = IF queue[t] = <<>> THEN x ELSE Head(queue[t])
    BY <1>3, <1>4, HeadTailAppend
  <2> QED BY <2>1, <2>2, <2>3
<1>6. /\ Len(accepted'[t]) = m + 1 /\ accepted'[t][m + 1] = e.n
      /\ \A i \in 1..m : accepted'[t][i] = accepted[t][i]
      /\ Range(accepted'[t]) = Range(accepted[t]) \cup {e.n}
  <2>1. accepted'[t] = Append(accepted[t], e.n) BY <1>1 DEF RedisTypes
  <2>2. /\ Len(Append(accepted[t], e.n)) = m + 1 /\ Append(accepted[t], e.n)[m + 1] = e.n
        /\ \A i \in 1..m : Append(accepted[t], e.n)[i] = accepted[t][i]
    BY <1>2, <1>3, AppendProperties
  <2>3. Range(Append(accepted[t], e.n)) = Range(accepted[t]) \cup {e.n}
    <3>1. PICK S : accepted[t] \in Seq(S) /\ e.n \in S BY <1>2, <1>3
    <3> QED BY <3>1, RangeAppend
  <2> QED BY <2>1, <2>2, <2>3
<1>7. \A u \in Tokens \ {t} : /\ queue'[u] = queue[u] /\ accepted'[u] = accepted[u]
                              /\ eventIds'[u] = eventIds[u]
  BY <1>1 DEF RedisTypes
<1>8. eventIds'[t] = eventIds[t] \cup {e.n} BY <1>1 DEF RedisTypes
<1>9. e.n \notin Range(accepted[t]) BY <1>1 DEF Known
<1>10. \A i \in 1..m : accepted[t][i] # e.n BY <1>3, <1>9, RangeFacts
<1>11. LogInv(t) BY DEF LogsOK
<1>12. LogInv(t)'
  <2>1. Len(accepted'[t]) = popped'[t] + Len(queue'[t])
    BY <1>1, <1>3, <1>5, <1>6, <1>11 DEF LogInv
  <2>2. ASSUME NEW i \in 1..Len(queue'[t])
        PROVE  queue'[t][i].pos = popped'[t] + i /\ queue'[t][i].n = accepted'[t][popped'[t] + i]
    <3>1. CASE i \in 1..l
      <4>1. popped[t] + i \in 1..m BY <1>3, <1>11, <3>1 DEF LogInv
      <4> QED BY <1>1, <1>5, <1>6, <1>11, <3>1, <4>1 DEF LogInv
    <3>2. CASE i = l + 1
      <4>1. popped[t] + i = m + 1 BY <1>3, <1>11, <3>2 DEF LogInv
      <4> QED BY <1>1, <1>4, <1>5, <1>6, <3>2, <4>1
    <3> QED BY <1>3, <1>5, <3>1, <3>2
  <2>3. ASSUME NEW i \in 1..Len(accepted'[t]), NEW j \in 1..Len(accepted'[t]),
               accepted'[t][i] = accepted'[t][j]
        PROVE  i = j
    <3>1. (i \in 1..m \/ i = m + 1) /\ (j \in 1..m \/ j = m + 1) BY <1>3, <1>6
    <3> QED BY <1>6, <1>10, <1>11, <2>3, <3>1 DEF LogInv
  <2>4. ASSUME NEW i \in 1..Len(accepted'[t]) PROVE accepted'[t][i] <= api'[t].n
    <3>1. i \in 1..m \/ i = m + 1 BY <1>3, <1>6
    <3> QED BY <1>6, <1>11, <3>1 DEF LogInv
  <2>5. eventIds'[t] \subseteq Range(accepted'[t]) /\ receipts'[t] \subseteq Range(accepted'[t])
    BY <1>1, <1>6, <1>8, <1>11 DEF LogInv
  <2> QED BY <2>1, <2>2, <2>3, <2>4, <2>5 DEF LogInv
<1>13. LogsOK'
  <2>1. ASSUME NEW u \in Tokens, u # t PROVE LogInv(u)'
    <3>1. LogInv(u) BY DEF LogsOK
    <3>2. /\ queue'[u] = queue[u] /\ accepted'[u] = accepted[u] /\ eventIds'[u] = eventIds[u]
          /\ popped'[u] = popped[u] /\ receipts'[u] = receipts[u] /\ api'[u].n = api[u].n
      BY <1>1, <1>7, <2>1
    <3> QED BY <3>1, <3>2 DEF LogInv
  <2> QED BY <1>12, <2>1 DEF LogsOK
<1>14. Archived' = Archived BY <1>1 DEF Archived
<1>15. ASSUME NEW u \in Tokens, NEW i \in Nat, EndsBefore(u, i) PROVE EndsBefore(u, i)'
  <2>1. CASE Over(u) BY <1>1, <2>1 DEF Over, EndsBefore
  <2>2. CASE u = t /\ ~ Over(u)
    <3>1. PICK j \in 1..Len(queue[t]) : j < i /\ queue[t][j].op \in Ends
      BY <1>15, <2>2 DEF EndsBefore
    <3>2. j \in 1..Len(queue'[t]) /\ queue'[t][j] = queue[t][j] BY <1>3, <1>5, <3>1
    <3> QED BY <2>2, <3>1, <3>2 DEF EndsBefore
  <2>3. CASE u # t BY <1>1, <1>7, <1>15, <2>3 DEF Over, EndsBefore
  <2> QED BY <2>1, <2>2, <2>3
<1>16. ASSUME NEW u \in Tokens, Finished(u) PROVE Finished(u)'
  <2>1. CASE u # t BY <1>1, <1>7, <1>16, <2>1 DEF Finished, EndsBefore, Over
  <2>2. CASE u = t
    <3>0. PICK k \in Nat : k = l + 1 BY <1>3
    <3>1. EndsBefore(t, k)' BY <1>15, <1>16, <2>2, <3>0 DEF Finished
    <3>2. CASE Over(t)' BY <2>2, <3>2 DEF Finished, EndsBefore
    <3>3. CASE ~ Over(t)'
      <4>1. PICK j \in 1..Len(queue'[t]) : j < k /\ queue'[t][j].op \in Ends
        BY <3>1, <3>3 DEF EndsBefore
      <4>2. j < Len(queue'[t]) + 1 BY <1>3, <1>5, <3>0
      <4> QED BY <2>2, <4>1, <4>2 DEF Finished, EndsBefore
    <3> QED BY <3>2, <3>3
  <2> QED BY <2>1, <2>2
<1>17. ASSUME e.op \in Ends PROVE Finished(t)'
  <2>1. l + 1 \in 1..Len(queue'[t]) /\ l + 1 < Len(queue'[t]) + 1 BY <1>3, <1>5
  <2>2. queue'[t][l + 1].op \in Ends BY <1>4, <1>5, <1>17
  <2> QED BY <2>1, <2>2 DEF Finished, EndsBefore
<1>18. ASSUME NEW u \in Tokens, NEW n, Known(u, n) PROVE Known(u, n)'
  BY <1>6, <1>7, <1>8, <1>18 DEF Known
<1>19. Remembers BY <1>14, <1>16, <1>18 DEF Remembers
<1>20. ArchiveInv(t)'
  <2>0. ArchiveInv(t) BY DEF ArchivesOK
  <2>1. \/ Archived'[t] = 1..popped'[t]
        \/ queue'[t] # <<>> /\ Archived'[t] = 1..(popped'[t] + 1)
    BY <1>1, <1>5, <1>14, <2>0 DEF ArchiveInv
  <2>2. ASSUME NEW i \in 1..Len(accepted'[t]), accepted'[t][i] \in receipts'[t]
        PROVE  i \in Range(committed'[t])
    <3>1. receipts[t] \subseteq Range(accepted[t]) BY <1>11 DEF LogInv
    <3>2. i \in 1..m \/ i = m + 1 BY <1>3, <1>6
    <3> QED BY <1>1, <1>6, <1>9, <2>0, <2>2, <3>1, <3>2 DEF ArchiveInv
  <2>3. HeadInv(t)'
    <3>1. CASE queue[t] # <<>>
      <4>1. Head(queue'[t]) = Head(queue[t]) BY <1>5, <3>1
      <4>2. HeadInv(t) BY <2>0 DEF ArchiveInv
      <4> QED BY <1>1, <1>14, <3>1, <4>1, <4>2 DEF HeadInv, Over
    <3>2. CASE queue[t] = <<>>
      <4>1. popped[t] + 1 \notin Archived[t] BY <1>3, <2>0, <3>2 DEF ArchiveInv
      <4> QED BY <1>1, <1>14, <4>1 DEF HeadInv
    <3> QED BY <3>1, <3>2
  <2>4. ASSUME NEW i \in 1..Len(queue'[t]), queue'[t][i].op = "history"
        PROVE  EndsBefore(t, i)'
    <3>1. CASE i \in 1..l
      <4>1. EndsBefore(t, i) BY <1>5, <2>0, <2>4, <3>1 DEF ArchiveInv
      <4> QED BY <1>15, <3>1, <4>1
    <3>2. CASE i = l + 1
      <4>1. EndsBefore(t, i) BY <1>4, <1>5, <2>4, <3>2 DEF Finished
      <4> QED BY <1>15, <3>2, <4>1, <1>3
    <3> QED BY <1>3, <1>5, <3>1, <3>2
  <2>5. /\ \A i, j \in 1..Len(committed'[t]) : i < j => committed'[t][i] < committed'[t][j]
        /\ published'[t] # <<>> => Over(t)'
    BY <1>1, <2>0 DEF ArchiveInv, Over
  <2> QED BY <2>1, <2>2, <2>3, <2>4, <2>5 DEF ArchiveInv
<1>21. ASSUME NEW u \in Tokens, u # t PROVE ArchiveInv(u)'
  <2>0. ArchiveInv(u) BY DEF ArchivesOK
  <2>1. /\ queue'[u] = queue[u] /\ accepted'[u] = accepted[u] /\ popped'[u] = popped[u]
        /\ rec'[u] = rec[u] /\ receipts'[u] = receipts[u] /\ committed'[u] = committed[u]
        /\ published'[u] = published[u] /\ Archived'[u] = Archived[u]
    BY <1>1, <1>7, <1>14, <1>21
  <2> QED BY <2>0, <2>1 DEF ArchiveInv, HeadInv, EndsBefore, Over
<1> QED BY <1>6, <1>7, <1>13, <1>14, <1>17, <1>19, <1>20, <1>21 DEF ArchivesOK

\* An entry that is held stays the head, or is still the next but one to none.
LEMMA AcceptHolds ==
    ASSUME RedisTypes, LogsOK, NEW t \in Tokens, NEW e \in Event, Accepts(t, e),
           UNCHANGED archiveVars, NEW u \in Tokens, NEW y \in Entry, NEW pc, HoldInv(u, y, pc)
    PROVE  HoldInv(u, y, pc)'
<1>1. /\ queue' = [queue EXCEPT ![t] = Append(queue[t], NewEntry(t, e))]
      /\ accepted' = [accepted EXCEPT ![t] = Append(accepted[t], e.n)]
      /\ popped' = popped
      /\ UNCHANGED <<rec, receipts, committed, published>>
  BY DEF Accepts, archiveVars
<1>2. Archived' = Archived BY <1>1 DEF Archived
<1>3. CASE u # t
  <2>1. queue'[u] = queue[u] /\ accepted'[u] = accepted[u] BY <1>1, <1>3 DEF RedisTypes
  <2> QED BY <1>1, <1>2, <2>1 DEF HoldInv, Over
<1>4. CASE u = t
  <2>1. /\ queue'[t] = Append(queue[t], NewEntry(t, e))
        /\ accepted'[t] = Append(accepted[t], e.n)
        /\ queue[t] \in Seq(Entry) /\ accepted[t] \in Seq(1..MaxEvents) /\ popped[t] \in Nat
    BY <1>1 DEF RedisTypes
  <2>2. e.n \in 1..MaxEvents BY DEF Event
  <2>3. /\ Len(accepted'[t]) = Len(accepted[t]) + 1 /\ Len(accepted[t]) \in Nat
        /\ \A i \in 1..Len(accepted[t]) : accepted'[t][i] = accepted[t][i]
    BY <2>1, <2>2, AppendProperties
  <2>4. y.pos \in 1..Len(accepted[t]) BY <1>4, <2>1, <2>3 DEF HoldInv
  <2>5. y.pos <= Len(accepted'[t]) /\ accepted'[t][y.pos] = accepted[t][y.pos]
    BY <2>3, <2>4
  <2>6. ASSUME y.pos = popped[t] + 1 PROVE queue'[t] # <<>> /\ Head(queue'[t]) = y
    <3>1. queue[t] # <<>> /\ Head(queue[t]) = y BY <1>4, <2>6 DEF HoldInv
    <3>2. /\ Append(queue[t], NewEntry(t, e)) # <<>>
          /\ Head(Append(queue[t], NewEntry(t, e))) = Head(queue[t])
      BY <2>1, <3>1, HeadTailAppend
    <3> QED BY <2>1, <3>1, <3>2
  <2> QED BY <1>1, <1>2, <1>4, <2>5, <2>6 DEF HoldInv, Over
<1> QED BY <1>3, <1>4

\* The head leaves its list after it has taken effect.
LEMMA RemoveKeeps ==
    ASSUME RedisTypes, LogsOK, ArchivesOK, NEW t \in Tokens, NEW ent,
           Removes(t, ent), UNCHANGED archiveVars, ent.pos \in Archived[t],
           \A u \in Tokens : api'[u].n = api[u].n
    PROVE  /\ LogsOK' /\ ArchivesOK' /\ Remembers /\ Archived' = Archived
           /\ ent.pos = popped[t] + 1
           /\ ent.op = "history" => Over(t)
           /\ ent.op # "history" => ent.n \in receipts[t]
           /\ \A u \in Tokens, y \in Entry : \A pc : HoldInv(u, y, pc) => HoldInv(u, y, pc)'
<1> DEFINE l == Len(queue[t])
<1>1. /\ queue[t] # <<>> /\ Head(queue[t]) = ent
      /\ queue' = [queue EXCEPT ![t] = Tail(queue[t])]
      /\ popped' = [popped EXCEPT ![t] = popped[t] + 1]
      /\ UNCHANGED <<accepted, eventIds, rec, receipts, committed, published>>
  BY DEF Removes, archiveVars
<1>2. queue[t] \in Seq(Entry) /\ popped[t] \in Nat /\ l \in Nat BY DEF RedisTypes
<1>3. /\ Len(queue'[t]) = l - 1 /\ l >= 1 /\ queue[t][1] = ent
      /\ \A i \in 1..(l - 1) : queue'[t][i] = queue[t][i + 1]
      /\ popped'[t] = popped[t] + 1
  <2>1. queue'[t] = Tail(queue[t]) /\ popped'[t] = popped[t] + 1 BY <1>1 DEF RedisTypes
  <2>2. /\ Len(Tail(queue[t])) = l - 1
        /\ \A i \in 1..Len(Tail(queue[t])) : Tail(queue[t])[i] = queue[t][i + 1]
    BY <1>1, <1>2, HeadTailProperties
  <2>3. l >= 1 BY <1>1, <1>2, EmptySeq
  <2>4. queue[t][1] = ent BY <1>1, <1>2
  <2>5. Len(queue'[t]) = l - 1 BY <2>1, <2>2
  <2>6. \A i \in 1..(l - 1) : queue'[t][i] = queue[t][i + 1] BY <2>1, <2>2
  <2> QED BY <2>1, <2>3, <2>4, <2>5, <2>6
<1>4. \A u \in Tokens \ {t} : queue'[u] = queue[u] /\ popped'[u] = popped[u]
  BY <1>1 DEF RedisTypes
<1>5. LogInv(t) /\ ArchiveInv(t) BY DEF LogsOK, ArchivesOK
<1>6. 1 \in 1..l BY <1>2, <1>3
<1>7. ent.pos = popped[t] + 1 BY <1>3, <1>5, <1>6 DEF LogInv
<1>8. Archived[t] = 1..(popped[t] + 1) BY <1>2, <1>5, <1>7 DEF ArchiveInv
<1>9. /\ ent.op # "history" => ent.n \in receipts[t]
      /\ ent.op \in Ends => Over(t)
  <2>1. HeadInv(t) BY <1>5 DEF ArchiveInv
  <2> QED BY <1>1, <1>7, <2>1 DEF HeadInv
<1>10. ent.op = "history" => Over(t)
  <2>1. ASSUME ent.op = "history" PROVE Over(t)
    <3>1. EndsBefore(t, 1) BY <1>3, <1>5, <1>6, <2>1 DEF ArchiveInv
    <3> QED BY <1>2, <3>1 DEF EndsBefore
  <2> QED BY <2>1
<1>11. Archived' = Archived BY <1>1 DEF Archived
<1>12. Over(t)' <=> Over(t) BY <1>1 DEF Over
<1>13. ASSUME NEW i \in Nat, EndsBefore(t, i + 1) PROVE EndsBefore(t, i)'
  <2>1. CASE Over(t) BY <1>12, <2>1 DEF EndsBefore
  <2>2. CASE ~ Over(t)
    <3>1. PICK j \in 1..l : j < i + 1 /\ queue[t][j].op \in Ends BY <1>13, <2>2 DEF EndsBefore
    <3>2. j # 1 BY <1>3, <1>9, <2>2, <3>1
    <3>3. j - 1 \in 1..(l - 1) /\ j - 1 < i BY <1>2, <3>1, <3>2
    <3>4. queue'[t][j - 1] = queue[t][j] BY <1>2, <1>3, <3>3
    <3> QED BY <1>3, <3>1, <3>3, <3>4 DEF EndsBefore
  <2> QED BY <2>1, <2>2
<1>14. ASSUME NEW u \in Tokens, Finished(u) PROVE Finished(u)'
  <2>1. CASE u # t BY <1>1, <1>4, <1>14, <2>1 DEF Finished, EndsBefore, Over
  <2>2. CASE u = t
    <3>1. PICK k \in Nat : k = l BY <1>2
    <3>2. EndsBefore(t, k)' BY <1>13, <1>14, <2>2, <3>1 DEF Finished
    <3>3. k = Len(queue'[t]) + 1 BY <1>2, <1>3, <3>1
    <3> QED BY <2>2, <3>2, <3>3 DEF Finished, EndsBefore
  <2> QED BY <2>1, <2>2
<1>15. ASSUME NEW u \in Tokens, NEW n, Known(u, n) PROVE Known(u, n)' BY <1>1, <1>15 DEF Known
<1>16. Remembers BY <1>11, <1>14, <1>15 DEF Remembers
<1>17. LogsOK'
  <2>1. ASSUME NEW u \in Tokens, u # t PROVE LogInv(u)'
    <3>1. LogInv(u) BY DEF LogsOK
    <3>2. queue'[u] = queue[u] /\ popped'[u] = popped[u] /\ api'[u].n = api[u].n BY <1>4, <2>1
    <3> QED BY <1>1, <3>1, <3>2 DEF LogInv
  <2>2. LogInv(t)'
    <3>0. popped'[t] = popped[t] + 1 /\ Len(queue'[t]) = l - 1 BY <1>3
    <3>1. Len(accepted[t]) = popped'[t] + Len(queue'[t])
      <4>1. Len(accepted[t]) = popped[t] + l BY <1>5 DEF LogInv
      <4>2. PICK p \in Nat, k \in Nat : p = popped[t] /\ k = l BY <1>2
      <4>3. popped'[t] = p + 1 /\ Len(queue'[t]) = k - 1 BY <3>0, <4>2
      <4>4. Len(accepted[t]) = p + k BY <4>1, <4>2
      <4>5. p + k = (p + 1) + (k - 1) OBVIOUS
      <4> QED BY <4>3, <4>4, <4>5
    <3>2. ASSUME NEW i \in 1..Len(queue'[t])
          PROVE  /\ queue'[t][i].pos = popped'[t] + i
                 /\ queue'[t][i].n = accepted[t][popped'[t] + i]
      <4>1. i \in 1..(l - 1) /\ i + 1 \in 1..l BY <1>2, <1>3
      <4>2. popped'[t] + i = popped[t] + (i + 1) BY <1>2, <3>0, <4>1
      <4> QED BY <1>3, <1>5, <4>1, <4>2 DEF LogInv
    <3>3. api'[t].n = api[t].n OBVIOUS
    <3> QED BY <1>1, <1>5, <3>1, <3>2, <3>3 DEF LogInv
  <2> QED BY <2>1, <2>2 DEF LogsOK
<1>18. ASSUME NEW u \in Tokens, u # t PROVE ArchiveInv(u)'
  <2>0. ArchiveInv(u) BY DEF ArchivesOK
  <2>1. /\ queue'[u] = queue[u] /\ accepted'[u] = accepted[u] /\ popped'[u] = popped[u]
        /\ rec'[u] = rec[u] /\ receipts'[u] = receipts[u] /\ committed'[u] = committed[u]
        /\ published'[u] = published[u] /\ Archived'[u] = Archived[u]
    BY <1>1, <1>4, <1>11, <1>18
  <2> QED BY <2>0, <2>1 DEF ArchiveInv, HeadInv, EndsBefore, Over
<1>19. ArchiveInv(t)'
  <2>1. Archived'[t] = 1..popped'[t] BY <1>3, <1>8, <1>11
  <2>2. HeadInv(t)' BY <1>2, <1>3, <2>1 DEF HeadInv
  <2>3. ASSUME NEW i \in 1..Len(queue'[t]), queue'[t][i].op = "history"
        PROVE  EndsBefore(t, i)'
    <3>1. i \in Nat /\ i \in 1..(l - 1) /\ i + 1 \in 1..l BY <1>2, <1>3
    <3>2. EndsBefore(t, i + 1) BY <1>3, <1>5, <2>3, <3>1 DEF ArchiveInv
    <3> QED BY <1>13, <3>1, <3>2
  <2> QED BY <1>1, <1>5, <1>12, <2>1, <2>2, <2>3 DEF ArchiveInv
<1>20. ASSUME NEW u \in Tokens, NEW y \in Entry, NEW pc, HoldInv(u, y, pc)
       PROVE  HoldInv(u, y, pc)'
  <2>1. CASE u # t
    <3>1. queue'[u] = queue[u] /\ popped'[u] = popped[u] BY <1>4, <2>1
    <3> QED BY <1>1, <1>11, <1>20, <3>1 DEF HoldInv, Over
  <2>2. CASE u = t
    <3>1. y.pos \in 1..popped'[t] BY <1>2, <1>3, <1>20, <2>2 DEF HoldInv
    <3>2. y.pos \in Nat BY DEF Entry
    <3>3. CASE y.pos = popped[t] + 1
      <4>1. y = ent BY <1>1, <1>20, <2>2, <3>3 DEF HoldInv
      <4> QED BY <1>1, <1>2, <1>3, <1>9, <1>10, <1>11, <1>12, <1>20, <2>2, <3>1, <3>2, <3>3, <4>1
          DEF HoldInv
    <3>4. CASE y.pos # popped[t] + 1
      <4>1. y.pos <= popped[t] BY <1>2, <1>3, <3>1, <3>2, <3>4
      <4> QED BY <1>1, <1>2, <1>3, <1>11, <1>12, <1>20, <2>2, <3>1, <3>2, <4>1 DEF HoldInv
    <3> QED BY <3>3, <3>4
  <2> QED BY <2>1, <2>2
<1> QED BY <1>7, <1>9, <1>10, <1>11, <1>16, <1>17, <1>18, <1>19, <1>20 DEF ArchivesOK

\* What takes effect for token t is nothing new, or the head.
TakesEffect(t) ==
    \/ Archived' = Archived
    \/ /\ Archived[t] = 1..popped[t] /\ queue[t] # <<>>
       /\ Archived' = [Archived EXCEPT ![t] = 1..(popped[t] + 1)]

\* What changes in the archive for one token only.
OneToken(t) ==
    /\ IndexOnly
    /\ \A u \in Tokens : api'[u].n = api[u].n
    /\ \A u \in Tokens \ {t} : /\ rec'[u] = rec[u] /\ receipts'[u] = receipts[u]
                               /\ committed'[u] = committed[u] /\ published'[u] = published[u]
                               /\ Archived'[u] = Archived[u]
    /\ Over(t) => Over(t)'

\* The other tokens and the lists are as before, and an end stays an end.
LEMMA OneTokenKeeps ==
    ASSUME LogsOK, ArchivesOK, NEW t \in Tokens, OneToken(t)
    PROVE  /\ \A u \in Tokens \ {t} : LogInv(u)' /\ ArchiveInv(u)'
           /\ \A u \in Tokens : Finished(u) => Finished(u)'
           /\ \A u \in Tokens : \A n : Known(u, n) => Known(u, n)'
           /\ \A i : EndsBefore(t, i) => EndsBefore(t, i)'
<1>1. UNCHANGED <<queue, accepted, popped, eventIds>> BY DEF OneToken, IndexOnly
<1>2. ASSUME NEW u \in Tokens, u # t PROVE LogInv(u)' /\ ArchiveInv(u)'
  <2>1. LogInv(u) /\ ArchiveInv(u) BY DEF LogsOK, ArchivesOK
  <2>2. /\ rec'[u] = rec[u] /\ receipts'[u] = receipts[u] /\ committed'[u] = committed[u]
        /\ published'[u] = published[u] /\ Archived'[u] = Archived[u] /\ api'[u].n = api[u].n
    BY <1>2 DEF OneToken
  <2>3. LogInv(u)' BY <1>1, <2>1, <2>2 DEF LogInv
  <2> QED BY <1>1, <2>1, <2>2, <2>3 DEF ArchiveInv, HeadInv, EndsBefore, Over
<1>3. ASSUME NEW i, EndsBefore(t, i) PROVE EndsBefore(t, i)'
  BY <1>1, <1>3 DEF OneToken, EndsBefore
<1>4. ASSUME NEW u \in Tokens, Finished(u) PROVE Finished(u)'
  <2>1. CASE u # t BY <1>1, <1>4, <2>1 DEF OneToken, Finished, EndsBefore, Over
  <2>2. CASE u = t
    <3>1. PICK i : i = Len(queue[t]) + 1 OBVIOUS
    <3>2. EndsBefore(t, i)' BY <1>3, <1>4, <2>2, <3>1 DEF Finished
    <3> QED BY <1>1, <2>2, <3>1, <3>2 DEF Finished, EndsBefore
  <2> QED BY <2>1, <2>2
<1>5. ASSUME NEW u \in Tokens, NEW n, Known(u, n) PROVE Known(u, n)' BY <1>1, <1>5 DEF Known
<1> QED BY <1>2, <1>3, <1>4, <1>5

\* Positions in the archive are those of its two logs.
LEMMA ArchivedIs ==
    ASSUME NEW t \in Tokens
    PROVE  /\ Archived[t] = Range(committed[t]) \cup Range(published[t])
           /\ Archived'[t] = Range(committed'[t]) \cup Range(published'[t])
           /\ DOMAIN Archived = Tokens
BY DEF Archived

\* A merge never reopens a finished record, and an end finishes it.
LEMMA MergedFacts ==
    ASSUME NEW s \in RecordStates, NEW op \in Ops \ {"history"}
    PROVE  /\ Merged(s, op) \in RecordStates
           /\ s \in TERMINAL_STATES => Merged(s, op) = s
           /\ op \in Ends => Merged(s, op) \in TERMINAL_STATES
BY ConstantsAssumption
   DEF Merged, Updated, RecordStates, TERMINAL_STATES, Ends, Ops, OPERATIONS

\* The change of a record and its receipt.
LEMMA CommitKeeps ==
    ASSUME RedisTypes, ArchiveTypes, LogsOK, ArchivesOK, NEW t \in Tokens, NEW ent \in Entry,
           HoldInv(t, ent, "apply"), ent.op # "history", Commit(t, ent), IndexOnly,
           published' = published, \A u \in Tokens : api'[u].n = api[u].n
    PROVE  /\ ArchiveTypes' /\ LogsOK' /\ ArchivesOK' /\ Remembers
           /\ HoldInv(t, ent, "ack")' /\ TakesEffect(t)
<1>0. UNCHANGED <<queue, accepted, popped, eventIds, published>> BY DEF IndexOnly
<1>1. LogInv(t) /\ ArchiveInv(t) BY DEF LogsOK, ArchivesOK
<1>2. /\ popped[t] \in Nat /\ accepted[t] \in Seq(1..MaxEvents) /\ committed[t] \in Seq(Nat)
      /\ ent.n \in 1..MaxEvents /\ ent.pos \in Nat /\ ent.op \in Ops /\ queue[t] \in Seq(Entry)
  BY DEF RedisTypes, ArchiveTypes, Entry
<1>3. ent.pos \in 1..Len(accepted[t]) /\ accepted[t][ent.pos] = ent.n
  BY <1>2 DEF HoldInv
<1>4. CASE EventApplied(t, ent)
  <2>1. UNCHANGED <<rec, receipts, committed, published>> BY <1>4 DEF Commit
  <2>2. UNCHANGED archiveVars BY <2>1 DEF archiveVars
  <2>3. Remembers /\ ArchivesOK' /\ Archived' = Archived BY <2>2, QuietKeeps
  <2>4. ArchiveTypes' BY <2>1 DEF ArchiveTypes
  <2>5. LogsOK' BY <1>0, <2>1 DEF LogsOK, LogInv
  <2>6. ent.pos \in Range(committed[t]) BY <1>1, <1>3, <1>4 DEF ArchiveInv, EventApplied
  <2>7. ent.pos \in Archived'[t] BY <2>3, <2>6, ArchivedIs
  <2>8. HoldInv(t, ent, "ack")' BY <1>0, <2>1, <2>7 DEF HoldInv, Over
  <2> QED BY <2>3, <2>4, <2>5, <2>8 DEF TakesEffect
<1>5. CASE ~ EventApplied(t, ent)
  <2>1. /\ rec' = [rec EXCEPT ![t] = Merged(rec[t], ent.op)]
        /\ receipts' = [receipts EXCEPT ![t] = receipts[t] \cup {ent.n}]
        /\ committed' = [committed EXCEPT ![t] = Append(committed[t], ent.pos)]
    BY <1>5 DEF Commit
  <2>2. ent.pos = popped[t] + 1 /\ queue[t] # <<>> /\ Head(queue[t]) = ent
    BY <1>2, <1>5 DEF HoldInv, EventApplied
  <2>3. popped[t] + 1 \notin Archived[t]
    <3>1. HeadInv(t) BY <1>1 DEF ArchiveInv
    <3> QED BY <1>5, <2>2, <3>1 DEF HeadInv, EventApplied
  <2>4. Archived[t] = 1..popped[t] BY <1>1, <1>2, <2>3 DEF ArchiveInv
  <2>5. /\ committed'[t] = Append(committed[t], ent.pos)
        /\ receipts'[t] = receipts[t] \cup {ent.n}
        /\ rec'[t] = Merged(rec[t], ent.op)
    BY <2>1 DEF ArchiveTypes
  <2>6. /\ rec[t] \in RecordStates /\ ent.op \in Ops \ {"history"} BY <1>2 DEF ArchiveTypes
  <2>7. /\ Merged(rec[t], ent.op) \in RecordStates
        /\ Over(t) => Over(t)'
        /\ ent.op \in Ends => Over(t)'
    BY <2>5, <2>6, MergedFacts DEF Over
  <2>8. Range(committed'[t]) = Range(committed[t]) \cup {ent.pos}
    BY <1>2, <2>5, RangeAppend
  <2>9. Archived'[t] = 1..(popped[t] + 1)
    <3>1. Archived'[t] = Archived[t] \cup {ent.pos} BY <1>0, <2>8, ArchivedIs
    <3> QED BY <1>2, <2>2, <2>4, <3>1
  <2>10. ASSUME NEW u \in Tokens, u # t
         PROVE  /\ rec'[u] = rec[u] /\ receipts'[u] = receipts[u] /\ committed'[u] = committed[u]
                /\ published'[u] = published[u] /\ Archived'[u] = Archived[u]
    <3>1. rec'[u] = rec[u] /\ receipts'[u] = receipts[u] /\ committed'[u] = committed[u]
      BY <2>1, <2>10 DEF ArchiveTypes
    <3> QED BY <1>0, <3>1, ArchivedIs
  <2>11. OneToken(t) BY <2>7, <2>10 DEF OneToken
  <2>12. /\ \A u \in Tokens \ {t} : LogInv(u)' /\ ArchiveInv(u)'
         /\ \A u \in Tokens : Finished(u) => Finished(u)'
         /\ \A u \in Tokens : \A n : Known(u, n) => Known(u, n)'
         /\ \A i : EndsBefore(t, i) => EndsBefore(t, i)'
    BY <2>11, OneTokenKeeps
  <2>13. ArchiveTypes'
    <3>1. rec' \in [Tokens -> RecordStates] BY <2>1, <2>7 DEF ArchiveTypes
    <3>2. receipts' \in [Tokens -> SUBSET (1..MaxEvents)] BY <1>2, <2>1 DEF ArchiveTypes
    <3>3. Append(committed[t], ent.pos) \in Seq(Nat) BY <1>2, AppendProperties
    <3>4. committed' \in [Tokens -> Seq(Nat)] BY <2>1, <3>3 DEF ArchiveTypes
    <3> QED BY <1>0, <3>1, <3>2, <3>4 DEF ArchiveTypes
  <2>14. LogInv(t)'
    <3>1. ent.n \in Range(accepted[t]) BY <1>2, <1>3, RangeFacts
    <3>2. receipts'[t] \subseteq Range(accepted[t]) BY <1>1, <2>5, <3>1 DEF LogInv
    <3> QED BY <1>0, <1>1, <3>2 DEF LogInv
  <2>15. ArchiveInv(t)'
    <3>1. queue'[t] # <<>> /\ Archived'[t] = 1..(popped'[t] + 1) BY <1>0, <2>2, <2>9
    <3>2. ASSUME NEW i \in 1..Len(committed'[t]), NEW j \in 1..Len(committed'[t]), i < j
          PROVE  committed'[t][i] < committed'[t][j]
      <4>1. /\ Len(committed'[t]) = Len(committed[t]) + 1 /\ Len(committed[t]) \in Nat
            /\ \A k \in 1..Len(committed[t]) : committed'[t][k] = committed[t][k]
            /\ committed'[t][Len(committed[t]) + 1] = ent.pos
        BY <1>2, <2>5, AppendProperties
      <4>2. i \in 1..Len(committed[t]) BY <3>2, <4>1
      <4>3. CASE j \in 1..Len(committed[t]) BY <1>1, <3>2, <4>1, <4>2, <4>3 DEF ArchiveInv
      <4>4. CASE j = Len(committed[t]) + 1
        <5>1. committed[t][i] \in Range(committed[t]) BY <1>2, <4>2, RangeFacts
        <5>2. committed[t][i] \in 1..popped[t] BY <2>4, <5>1, ArchivedIs
        <5>3. PICK p \in Nat, k \in {committed[t][i]} : p = popped[t] /\ k = committed[t][i] BY <1>2
        <5>4. committed'[t][i] = k /\ committed'[t][j] = p + 1
          BY <2>2, <4>1, <4>2, <4>4, <5>3
        <5>5. k \in 1..p BY <5>2, <5>3
        <5> QED BY <5>4, <5>5
      <4> QED BY <4>1, <4>3, <4>4
    <3>3. ASSUME NEW i \in 1..Len(accepted[t]), accepted[t][i] \in receipts'[t]
          PROVE  i \in Range(committed'[t])
      <4>1. CASE accepted[t][i] \in receipts[t] BY <1>1, <2>8, <4>1 DEF ArchiveInv
      <4>2. CASE accepted[t][i] = ent.n
        <5>1. i = ent.pos BY <1>1, <1>3, <4>2 DEF LogInv
        <5> QED BY <2>8, <5>1
      <4> QED BY <2>5, <3>3, <4>1, <4>2
    <3>4. HeadInv(t)' BY <1>0, <2>2, <2>5, <2>7 DEF HeadInv
    <3>5. \A i \in 1..Len(queue'[t]) : queue'[t][i].op = "history" => EndsBefore(t, i)'
      BY <1>0, <1>1, <2>12 DEF ArchiveInv
    <3>6. published'[t] # <<>> => Over(t)' BY <1>0, <1>1, <2>7 DEF ArchiveInv
    <3> QED BY <1>0, <3>1, <3>2, <3>3, <3>4, <3>5, <3>6 DEF ArchiveInv
  <2>16. Remembers
    <3>1. ASSUME NEW u \in Tokens PROVE Archived[u] \subseteq Archived'[u]
      <4>1. PICK p \in Nat : p = popped[t] BY <1>2
      <4>2. Archived[t] = 1..p /\ Archived'[t] = 1..(p + 1) BY <2>4, <2>9, <4>1
      <4>3. 1..p \subseteq 1..(p + 1) OBVIOUS
      <4>4. CASE u = t BY <4>2, <4>3, <4>4
      <4>5. CASE u # t BY <2>10, <4>5
      <4> QED BY <4>4, <4>5
    <3> QED BY <2>12, <3>1 DEF Remembers
  <2>17. HoldInv(t, ent, "ack")'
    <3>1. ent.pos \in Archived'[t] BY <1>2, <2>2, <2>9
    <3>2. ~ (ent.pos <= popped[t]) BY <1>2, <2>2
    <3> QED BY <1>0, <1>2, <2>2, <3>1, <3>2 DEF HoldInv
  <2>18. TakesEffect(t)
    <3>1. DOMAIN Archived = Tokens /\ DOMAIN Archived' = Tokens BY DEF Archived
    <3>2. Archived' = [Archived EXCEPT ![t] = 1..(popped[t] + 1)]
      <4>1. Archived \in [Tokens -> SUBSET UNION {Archived[u] : u \in Tokens}]
        BY DEF Archived
      <4> QED BY <2>9, <2>10, <3>1 DEF Archived
    <3> QED BY <2>2, <2>4, <3>2 DEF TakesEffect
  <2>19. LogsOK' /\ ArchivesOK' BY <2>12, <2>14, <2>15 DEF LogsOK, ArchivesOK
  <2> QED BY <2>13, <2>16, <2>17, <2>18, <2>19
<1> QED BY <1>4, <1>5

\* The publication of a history event: its request has ended.
LEMMA PublishKeeps ==
    ASSUME RedisTypes, ArchiveTypes, LogsOK, ArchivesOK, NEW t \in Tokens, NEW ent \in Entry,
           HoldInv(t, ent, "apply"), ent.op = "history", IndexOnly,
           published' = [published EXCEPT ![t] = Append(published[t], ent.pos)],
           UNCHANGED <<rec, receipts, committed>>, \A u \in Tokens : api'[u].n = api[u].n
    PROVE  /\ ArchiveTypes' /\ LogsOK' /\ ArchivesOK' /\ Remembers
           /\ HoldInv(t, ent, "ack")' /\ TakesEffect(t)
<1>0. UNCHANGED <<queue, accepted, popped, eventIds>> BY DEF IndexOnly
<1>1. LogInv(t) /\ ArchiveInv(t) BY DEF LogsOK, ArchivesOK
<1>2. /\ popped[t] \in Nat /\ published[t] \in Seq(Nat) /\ ent.pos \in Nat
      /\ queue[t] \in Seq(Entry)
  BY DEF RedisTypes, ArchiveTypes, Entry
<1>3. Over(t)
  <2>1. CASE ent.pos <= popped[t] BY <2>1 DEF HoldInv
  <2>2. CASE ~ (ent.pos <= popped[t])
    <3>1. queue[t] # <<>> /\ Head(queue[t]) = ent BY <1>2, <2>2 DEF HoldInv
    <3>2. 1 \in 1..Len(queue[t]) /\ queue[t][1] = ent
      <4>1. Len(queue[t]) >= 1 /\ Len(queue[t]) \in Nat BY <1>2, <3>1, EmptySeq
      <4> QED BY <1>2, <3>1, <4>1
    <3>3. EndsBefore(t, 1) BY <1>1, <3>2 DEF ArchiveInv
    <3> QED BY <1>2, <3>3 DEF EndsBefore
  <2> QED BY <2>1, <2>2
<1>4. Over(t)' BY <1>3 DEF Over
<1>5. Range(published'[t]) = Range(published[t]) \cup {ent.pos}
  <2>1. published'[t] = Append(published[t], ent.pos) BY DEF ArchiveTypes
  <2> QED BY <1>2, <2>1, RangeAppend
<1>6. Archived'[t] = Archived[t] \cup {ent.pos} BY <1>5, ArchivedIs
<1>7. ASSUME NEW u \in Tokens, u # t
      PROVE  /\ rec'[u] = rec[u] /\ receipts'[u] = receipts[u] /\ committed'[u] = committed[u]
             /\ published'[u] = published[u] /\ Archived'[u] = Archived[u]
  <2>1. published'[u] = published[u] BY <1>7 DEF ArchiveTypes
  <2> QED BY <2>1, ArchivedIs
<1>8. OneToken(t) BY <1>4, <1>7 DEF OneToken
<1>9. /\ \A u \in Tokens \ {t} : LogInv(u)' /\ ArchiveInv(u)'
      /\ \A u \in Tokens : Finished(u) => Finished(u)'
      /\ \A u \in Tokens : \A n : Known(u, n) => Known(u, n)'
      /\ \A i : EndsBefore(t, i) => EndsBefore(t, i)'
  BY <1>8, OneTokenKeeps
<1>10. PICK p \in Nat, q \in Nat : p = popped[t] /\ q = ent.pos BY <1>2
<1>11. /\ q \in 1..(p + 1) /\ (q = p + 1 => queue[t] # <<>>)
       /\ Archived[t] = 1..p \/ (queue[t] # <<>> /\ Archived[t] = 1..(p + 1))
       /\ Archived'[t] = Archived[t] \cup {q}
  BY <1>1, <1>6, <1>10 DEF HoldInv, ArchiveInv
<1>12. \/ Archived'[t] = Archived[t]
       \/ /\ Archived[t] = 1..p /\ queue[t] # <<>>
          /\ Archived'[t] = 1..(p + 1)
  <2>1. CASE q \in Archived[t] BY <1>11, <2>1
  <2>2. CASE q \notin Archived[t]
    <3>1. q = p + 1 /\ Archived[t] = 1..p BY <1>11, <2>2
    <3>2. 1..p \cup {p + 1} = 1..(p + 1) OBVIOUS
    <3> QED BY <1>11, <3>1, <3>2
  <2> QED BY <2>1, <2>2
<1>13. ArchiveTypes'
  <2>1. Append(published[t], ent.pos) \in Seq(Nat) BY <1>2, AppendProperties
  <2>2. published' \in [Tokens -> Seq(Nat)] BY <2>1 DEF ArchiveTypes
  <2> QED BY <2>2 DEF ArchiveTypes
<1>14. LogInv(t)' BY <1>0, <1>1 DEF LogInv
<1>15. ArchiveInv(t)'
  <2>1. \/ Archived'[t] = 1..popped'[t]
        \/ queue'[t] # <<>> /\ Archived'[t] = 1..(popped'[t] + 1)
    BY <1>0, <1>10, <1>11, <1>12
  <2>2. HeadInv(t)'
    <3> SUFFICES ASSUME queue[t] # <<>>, popped[t] + 1 \in Archived'[t]
                 PROVE  /\ Head(queue[t]).op # "history" => Head(queue[t]).n \in receipts[t]
                        /\ Head(queue[t]).op \in Ends => Over(t)'
      BY <1>0 DEF HeadInv
    <3>1. CASE popped[t] + 1 \in Archived[t]
      <4>1. HeadInv(t) BY <1>1 DEF ArchiveInv
      <4> QED BY <1>4, <3>1, <4>1 DEF HeadInv
    <3>2. CASE popped[t] + 1 \notin Archived[t]
      <4>1. ent.pos = popped[t] + 1 BY <1>6, <3>2
      <4>2. Head(queue[t]) = ent BY <4>1 DEF HoldInv
      <4> QED BY <1>4, <4>2
    <3> QED BY <3>1, <3>2
  <2>3. \A i \in 1..Len(queue'[t]) : queue'[t][i].op = "history" => EndsBefore(t, i)'
    BY <1>0, <1>1, <1>9 DEF ArchiveInv
  <2>4. /\ \A i, j \in 1..Len(committed[t]) : i < j => committed[t][i] < committed[t][j]
        /\ \A i \in 1..Len(accepted[t]) :
             accepted[t][i] \in receipts[t] => i \in Range(committed[t])
    BY <1>1 DEF ArchiveInv
  <2> QED BY <1>0, <1>4, <2>1, <2>2, <2>3, <2>4 DEF ArchiveInv
<1>16. Remembers
  <2>1. \A u \in Tokens : Archived[u] \subseteq Archived'[u] BY <1>6, <1>7
  <2> QED BY <1>9, <2>1 DEF Remembers
<1>17. HoldInv(t, ent, "ack")'
  <2>1. ent.pos \in Archived'[t] BY <1>6
  <2>2. /\ ent.pos \in 1..(popped[t] + 1) /\ ent.pos <= Len(accepted[t])
        /\ accepted[t][ent.pos] = ent.n
        /\ ent.pos = popped[t] + 1 => queue[t] # <<>> /\ Head(queue[t]) = ent
    BY DEF HoldInv
  <2> QED BY <1>0, <1>4, <2>1, <2>2 DEF HoldInv
<1>18. TakesEffect(t)
  <2>1. DOMAIN Archived = Tokens /\ DOMAIN Archived' = Tokens BY DEF Archived
  <2>2. CASE Archived'[t] = Archived[t]
    <3>1. Archived' = Archived BY <1>7, <2>1, <2>2 DEF Archived
    <3> QED BY <3>1 DEF TakesEffect
  <2>3. CASE /\ Archived[t] = 1..p /\ queue[t] # <<>> /\ Archived'[t] = 1..(p + 1)
    <3>1. Archived' = [Archived EXCEPT ![t] = 1..(popped[t] + 1)]
      BY <1>7, <1>10, <2>1, <2>3 DEF Archived
    <3> QED BY <1>10, <2>3, <3>1 DEF TakesEffect
  <2> QED BY <1>12, <2>2, <2>3
<1>19. LogsOK' /\ ArchivesOK' BY <1>9, <1>14, <1>15 DEF LogsOK, ArchivesOK
<1> QED BY <1>13, <1>16, <1>17, <1>18, <1>19

\* A receipt is forgotten after its event has left the list.
LEMMA ForgetKeeps ==
    ASSUME RedisTypes, ArchiveTypes, LogsOK, ArchivesOK, NEW t \in Tokens, NEW ent \in Entry,
           HoldInv(t, ent, "forget"), IndexOnly,
           receipts' = [receipts EXCEPT ![t] = receipts[t] \ {ent.n}],
           UNCHANGED <<rec, committed, published>>, \A u \in Tokens : api'[u].n = api[u].n
    PROVE  ArchiveTypes' /\ LogsOK' /\ ArchivesOK' /\ Remembers /\ Archived' = Archived
<1>0. UNCHANGED <<queue, accepted, popped, eventIds>> BY DEF IndexOnly
<1>1. LogInv(t) /\ ArchiveInv(t) BY DEF LogsOK, ArchivesOK
<1>2. Archived' = Archived BY DEF Archived
<1>3. popped[t] \in Nat /\ queue[t] \in Seq(Entry) /\ ent.pos \in Nat
  BY DEF RedisTypes, Entry
<1>4. receipts'[t] = receipts[t] \ {ent.n} BY DEF ArchiveTypes
<1>5. \A u \in Tokens \ {t} : receipts'[u] = receipts[u] BY DEF ArchiveTypes
<1>6. Over(t)' <=> Over(t) BY DEF Over
<1>7. OneToken(t) BY <1>2, <1>5, <1>6 DEF OneToken
<1>8. /\ \A u \in Tokens \ {t} : LogInv(u)' /\ ArchiveInv(u)'
      /\ \A u \in Tokens : Finished(u) => Finished(u)'
      /\ \A u \in Tokens : \A n : Known(u, n) => Known(u, n)'
      /\ \A i : EndsBefore(t, i) => EndsBefore(t, i)'
  BY <1>7, OneTokenKeeps
<1>9. ArchiveTypes' BY DEF ArchiveTypes
<1>10. LogInv(t)'
  <2>1. receipts'[t] \subseteq Range(accepted[t]) BY <1>1, <1>4 DEF LogInv
  <2> QED BY <1>0, <1>1, <2>1 DEF LogInv
<1>11. HeadInv(t)'
  <2> SUFFICES ASSUME queue[t] # <<>>, popped[t] + 1 \in Archived[t]
               PROVE  /\ Head(queue[t]).op # "history" => Head(queue[t]).n \in receipts'[t]
                      /\ Head(queue[t]).op \in Ends => Over(t)
    BY <1>0, <1>2, <1>6 DEF HeadInv
  <2>1. HeadInv(t) BY <1>1 DEF ArchiveInv
  <2>2. 1 \in 1..Len(queue[t]) /\ queue[t][1] = Head(queue[t]) /\ Len(queue[t]) \in Nat
    <3>1. Len(queue[t]) >= 1 /\ Len(queue[t]) \in Nat BY <1>3, EmptySeq
    <3> QED BY <1>3, <3>1
  <2>3. Head(queue[t]).n = accepted[t][popped[t] + 1] BY <1>1, <2>2 DEF LogInv
  <2>4. popped[t] + 1 \in 1..Len(accepted[t]) BY <1>1, <1>3, <2>2 DEF LogInv
  <2>5. /\ ent.pos \in 1..Len(accepted[t]) /\ accepted[t][ent.pos] = ent.n
        /\ ent.pos # popped[t] + 1
    BY <1>3, <2>4 DEF HoldInv
  <2>6. Head(queue[t]).n # ent.n BY <1>1, <2>3, <2>4, <2>5 DEF LogInv
  <2> QED BY <1>4, <2>1, <2>6 DEF HeadInv
<1>12. ArchiveInv(t)'
  <2>1. \A i \in 1..Len(queue'[t]) : queue'[t][i].op = "history" => EndsBefore(t, i)'
    BY <1>0, <1>1, <1>8 DEF ArchiveInv
  <2>2. \A i \in 1..Len(accepted[t]) :
           accepted[t][i] \in receipts'[t] => i \in Range(committed[t])
    BY <1>1, <1>4 DEF ArchiveInv
  <2>3. /\ \/ Archived[t] = 1..popped[t]
           \/ queue[t] # <<>> /\ Archived[t] = 1..(popped[t] + 1)
        /\ \A i, j \in 1..Len(committed[t]) : i < j => committed[t][i] < committed[t][j]
        /\ published[t] # <<>> => Over(t)
    BY <1>1 DEF ArchiveInv
  <2> QED BY <1>0, <1>2, <1>6, <1>11, <2>1, <2>2, <2>3 DEF ArchiveInv
<1>13. Remembers BY <1>2, <1>8 DEF Remembers
<1> QED BY <1>2, <1>8, <1>9, <1>10, <1>12, <1>13 DEF LogsOK, ArchivesOK

-----------------------------------------------------------------------------
(***************************************************************************)
(* The inductive invariant.                                                *)
(***************************************************************************)
ApiOK == \A t \in Tokens : ApiInv(t)
LateOK == \A c \in late : LateInv(c)

IInv ==
    /\ RedisTypes /\ ArchiveTypes /\ ProcessTypes
    /\ RedisInv
    /\ LogsOK /\ ArchivesOK
    /\ ApiOK /\ LateOK
    /\ WorkerInv

\* What the worker's place says about what it holds.
LEMMA WorkerShape ==
    ASSUME worker \in WorkerState
    PROVE  /\ worker.pc \in {"head", "clean"} => worker.tok \in Tokens
           /\ Holding => worker.tok \in Tokens /\ worker.ent \in Entry
           /\ worker.pc = "failed" => worker.poison \in BOOLEAN
           /\ worker.pc \in {"decode", "apply", "ack"} =>
                worker \in [pc : {"decode", "apply", "ack", "forget"}, tok : Tokens, ent : Entry]
           /\ worker.pc \in {"down", "idle", "head", "clean"} \/ Holding
BY DEF WorkerState, Holding

\* Places the worker may go to.
LEMMA WorkerPlaces ==
    /\ [pc |-> "down"] \in WorkerState /\ [pc |-> "idle"] \in WorkerState
    /\ \A t \in Tokens : /\ [pc |-> "head", tok |-> t] \in WorkerState
                         /\ [pc |-> "clean", tok |-> t] \in WorkerState
    /\ \A t \in Tokens, e \in Entry :
          /\ [pc |-> "decode", tok |-> t, ent |-> e] \in WorkerState
          /\ \A b \in BOOLEAN :
                [pc |-> "failed", tok |-> t, ent |-> e, poison |-> b] \in WorkerState
BY DEF WorkerState

\* A command is one of four.
LEMMA CommandShape ==
    ASSUME NEW c \in Command
    PROVE  /\ c.tok \in Tokens /\ c.script \in {"ENQUEUE", "ACK", "FAILED", "CLEAN"}
           /\ c.script = "ENQUEUE" => c.ev \in Event
           /\ c.script \in {"ACK", "FAILED"} => c.ent \in Entry
BY DEF Command

\* A call is never made under an earlier id.
Grows(t) == api[t].n <= api'[t].n /\ (api'[t].n = api[t].n => api'[t].ev = api[t].ev)

\* Who waits for an answer sees what he saw.
LEMMA ApiFollows ==
    ASSUME Remembers, NEW t \in Tokens, ApiInv(t), api'[t] = api[t],
           api[t].n \in Range(accepted'[t]) =>
              api[t].n \in Range(accepted[t]) \/ (api[t].ev.op \in Ends => Finished(t)')
    PROVE  ApiInv(t)'
<1>1. (Finished(t) => Finished(t)') /\ (Known(t, api[t].n) => Known(t, api[t].n)')
  BY DEF Remembers
<1>2. Known(t, api[t].n)' <=> (api[t].n \in Range(accepted'[t]) => api[t].n \in eventIds'[t])
  BY DEF Known
<1> QED BY <1>1, <1>2 DEF ApiInv, InFlight, Known

\* Neither do the commands on their way.
LEMMA LateFollows ==
    ASSUME ProcessTypes, ProcessTypes', Remembers, NEW c \in late, LateInv(c), Grows(c.tok)
    PROVE  LateInv(c)'
<1>1. c \in Command BY DEF ProcessTypes
<1>2. c.tok \in Tokens /\ (c.script = "ENQUEUE" => c.ev \in Event) BY <1>1, CommandShape
<1>3. api[c.tok].n \in Nat /\ api'[c.tok].n \in Nat
  BY <1>2 DEF ProcessTypes, ApiState
<1>4. /\ Finished(c.tok) => Finished(c.tok)'
      /\ \A n : Known(c.tok, n) => Known(c.tok, n)'
      /\ Archived[c.tok] \subseteq Archived'[c.tok]
  BY <1>2 DEF Remembers
<1>5. ASSUME c.script = "ENQUEUE"
      PROVE  /\ c.ev.n <= api'[c.tok].n
             /\ c.ev.n = api'[c.tok].n => c.ev = api'[c.tok].ev
             /\ Known(c.tok, c.ev.n)'
             /\ c.ev.op = "history" => Finished(c.tok)'
  <2>1. c.ev.n \in Nat BY <1>2, <1>5 DEF Event
  <2>2. /\ c.ev.n <= api[c.tok].n
        /\ c.ev.n = api[c.tok].n => c.ev = api[c.tok].ev
        /\ Known(c.tok, c.ev.n)
        /\ c.ev.op = "history" => Finished(c.tok)
    BY <1>5 DEF LateInv
  <2>3. PICK x, y, z : x = c.ev.n /\ y = api[c.tok].n /\ z = api'[c.tok].n OBVIOUS
  <2>4. x \in Nat /\ y \in Nat /\ z \in Nat /\ x <= y /\ y <= z
    BY <1>3, <2>1, <2>2, <2>3 DEF Grows
  <2>5. x <= z /\ (x = z => x = y /\ z = y) BY <2>4
  <2> QED BY <1>4, <2>2, <2>3, <2>5 DEF Grows
<1>6. c.script = "ACK" => c.ent.pos \in Archived'[c.tok] BY <1>4 DEF LateInv
<1> QED BY <1>5, <1>6 DEF LateInv

\* What the worker holds it still holds.
LEMMA HoldFollows ==
    ASSUME IndexOnly, UNCHANGED archiveVars, NEW t, NEW ent, NEW pc, HoldInv(t, ent, pc)
    PROVE  HoldInv(t, ent, pc)'
<1>1. UNCHANGED <<queue, accepted, popped, rec, receipts, committed, published>>
  BY DEF IndexOnly, archiveVars
<1>2. Archived' = Archived BY <1>1 DEF Archived
<1> QED BY <1>1, <1>2 DEF HoldInv, Over

\* A step that changes neither lists nor archive.
LEMMA QuietStep ==
    ASSUME IInv, IndexOnly, UNCHANGED archiveVars, RedisTypes', RedisInv', ProcessTypes',
           \A t \in Tokens : Grows(t) /\ (api'[t] = api[t] \/ ApiInv(t)'),
           \A c \in late' \ late : LateInv(c)',
           worker' = worker \/ WorkerInv'
    PROVE  IInv' /\ Remembers /\ Archived' = Archived
<1>1. Remembers /\ ArchivesOK' /\ Archived' = Archived BY QuietKeeps DEF IInv
<1>2. ArchiveTypes' BY DEF IInv, ArchiveTypes, archiveVars
<1>3. LogsOK'
  <2>1. \A t \in Tokens : api[t].n \in Nat /\ api'[t].n \in Nat BY DEF IInv, ProcessTypes, ApiState
  <2> QED BY <2>1, QuietLogs DEF IInv, archiveVars, Grows
<1>4. ApiOK'
  <2> SUFFICES ASSUME NEW t \in Tokens PROVE ApiInv(t)' BY DEF ApiOK
  <2>1. CASE api'[t] = api[t]
    <3>1. accepted' = accepted BY DEF IndexOnly
    <3> QED BY <1>1, <2>1, <3>1, ApiFollows DEF IInv, ApiOK
  <2> QED BY <2>1
<1>5. LateOK'
  <2> SUFFICES ASSUME NEW c \in late' PROVE LateInv(c)' BY DEF LateOK
  <2>1. CASE c \in late
    <3>1. c.tok \in Tokens BY <2>1, CommandShape DEF IInv, ProcessTypes
    <3> QED BY <1>1, <2>1, <3>1, LateFollows DEF IInv, LateOK
  <2> QED BY <2>1
<1>6. WorkerInv'
  <2>1. CASE worker' = worker
    <3> SUFFICES ASSUME Holding PROVE HoldInv(worker.tok, worker.ent, worker.pc)'
      BY <2>1 DEF WorkerInv, Holding
    <3>1. HoldInv(worker.tok, worker.ent, worker.pc) BY DEF IInv, WorkerInv
    <3>2. PICK t, e, p : t = worker.tok /\ e = worker.ent /\ p = worker.pc OBVIOUS
    <3>3. HoldInv(t, e, p)' BY <3>1, <3>2, HoldFollows
    <3> QED BY <2>1, <3>2, <3>3
  <2> QED BY <2>1
<1> QED BY <1>1, <1>2, <1>3, <1>4, <1>5, <1>6 DEF IInv

-----------------------------------------------------------------------------
(***************************************************************************)
(* The steps, one lemma for each kind: they keep the invariant, and are    *)
(* steps of the request log or change nothing in it.                       *)
(***************************************************************************)
Stutters == UNCHANGED <<accepted, Archived, popped>>

\* Nobody calls.
LEMMA SameCalls ==
    ASSUME ProcessTypes, api' = api
    PROVE  \A t \in Tokens : Grows(t) /\ (api'[t] = api[t] \/ ApiInv(t)')
<1>1. \A t \in Tokens : api[t].n \in Nat BY DEF ProcessTypes, ApiState
<1> QED BY <1>1 DEF Grows

\* The heartbeat, the disk, the clock and the operator.
LEMMA SurroundingSteps ==
    ASSUME IInv,
           \/ Heartbeat \/ AdmissionExpires \/ DiskFills \/ DiskFreed
           \/ \E t \in Tokens : BackoffElapses(t) \/ RetryCheck(t) \/ Retry(t) \/ Repair(t)
    PROVE  IInv' /\ Stutters
<1>1. UNCHANGED <<late, archiveVars, api, worker>>
  BY DEF Heartbeat, AdmissionExpires, DiskFills, DiskFreed, BackoffElapses, RetryCheck, Retry, Repair
<1>2. RedisTypes' /\ RedisInv' /\ IndexOnly
  <2>0. RedisTypes /\ RedisInv BY DEF IInv
  <2>1. CASE \E t \in Tokens : BackoffElapses(t) \/ Retry(t) BY <2>0, <2>1, DueKeeps
  <2>2. CASE \/ Heartbeat \/ AdmissionExpires \/ DiskFills \/ DiskFreed
             \/ \E t \in Tokens : RetryCheck(t) \/ Repair(t)
    <3>1. UNCHANGED <<redisVars, logVars>>
      BY <2>2 DEF Heartbeat, AdmissionExpires, DiskFills, DiskFreed, RetryCheck, Repair
    <3> QED BY <2>0, <3>1, RedisIdle
  <2> QED BY <2>1, <2>2
<1>3. ProcessTypes'
  <2>0. ProcessTypes BY DEF IInv
  <2>1. admission' \in {"none", "ready", "blocked"}
    BY <2>0 DEF ProcessTypes, Heartbeat, AdmissionExpires, DiskFills, DiskFreed, BackoffElapses,
                RetryCheck, Retry, Repair
  <2>2. operators' \in SUBSET Tokens
    BY <2>0 DEF ProcessTypes, Heartbeat, AdmissionExpires, DiskFills, DiskFreed, BackoffElapses,
                RetryCheck, Retry, Repair
  <2>3. diskLow' \in BOOLEAN /\ broken' \in SUBSET Tokens
    BY <2>0 DEF ProcessTypes, Heartbeat, AdmissionExpires, DiskFills, DiskFreed, BackoffElapses,
                RetryCheck, Retry, Repair, envVars
  <2>4. faults' \in 0..MaxFaults
    BY <2>0, ConstantsAssumption
       DEF ProcessTypes, Heartbeat, AdmissionExpires, DiskFills, DiskFreed, BackoffElapses,
           RetryCheck, Retry, Repair, SpendFault
  <2> QED BY <1>1, <2>0, <2>1, <2>2, <2>3, <2>4 DEF ProcessTypes
<1>4. \A t \in Tokens : Grows(t) /\ (api'[t] = api[t] \/ ApiInv(t)')
  BY <1>1, SameCalls DEF IInv
<1>5. \A c \in late' \ late : LateInv(c)' BY <1>1
<1>6. IInv' /\ Archived' = Archived BY <1>1, <1>2, <1>3, <1>4, <1>5, QuietStep
<1> QED BY <1>2, <1>6 DEF Stutters, IndexOnly

\* The worker goes to a place where its invariant holds.
LEMMA WorkerMoves ==
    ASSUME IInv, IndexOnly, RedisTypes', RedisInv',
           UNCHANGED <<admission, archiveVars, api, operators, envVars>>,
           faults' = faults \/ SpendFault,
           late' \in SUBSET Command, \A c \in late' \ late : LateInv(c)',
           worker' \in WorkerState, WorkerInv'
    PROVE  IInv' /\ Stutters
<1>1. ProcessTypes'
  <2>1. faults' \in 0..MaxFaults BY ConstantsAssumption DEF IInv, ProcessTypes, SpendFault
  <2> QED BY <2>1 DEF IInv, ProcessTypes, envVars
<1>2. \A t \in Tokens : Grows(t) /\ (api'[t] = api[t] \/ ApiInv(t)') BY SameCalls DEF IInv
<1>3. IInv' /\ Archived' = Archived BY <1>1, <1>2, QuietStep
<1> QED BY <1>3 DEF Stutters, IndexOnly

\* A failure may be recorded for whatever is held.
LEMMA FailedPlace ==
    ASSUME IInv, Holding, IndexOnly, UNCHANGED archiveVars, NEW b \in BOOLEAN, ToFailed(b)
    PROVE  worker' \in WorkerState /\ WorkerInv'
<1>1. worker.tok \in Tokens /\ worker.ent \in Entry BY WorkerShape DEF IInv, ProcessTypes
<1>2. PICK t \in Tokens, e \in Entry, p \in {worker.pc} : t = worker.tok /\ e = worker.ent /\ p = worker.pc
  BY <1>1
<1>3. worker' = [pc |-> "failed", tok |-> t, ent |-> e, poison |-> b] BY <1>2 DEF ToFailed
<1>4. worker' \in WorkerState BY <1>3, WorkerPlaces
<1>5. HoldInv(t, e, p) BY <1>2 DEF IInv, WorkerInv
<1>6. HoldInv(t, e, p)' BY <1>5, HoldFollows
<1>7. HoldInv(t, e, "failed")' BY <1>6 DEF HoldInv
<1>8. worker'.tok = t /\ worker'.ent = e /\ worker'.pc = "failed" BY <1>3
<1> QED BY <1>4, <1>7, <1>8 DEF WorkerInv

\* A free worker holds nothing.
LEMMA FreePlace ==
    ASSUME worker'.pc \in {"down", "idle", "head", "clean"}
    PROVE  WorkerInv'
BY DEF WorkerInv, Holding

\* The steps of the worker that change nothing but the worker.
LEMMA WorkerOnlySteps ==
    ASSUME IInv,
           Start \/ ReadHead \/ Decode \/ RefuseHistory \/ \E t \in Tokens : PickToken(t)
    PROVE  IInv' /\ Stutters
<1>1. WorkerOnly BY DEF Start, ReadHead, Decode, RefuseHistory, PickToken
<1>2. /\ UNCHANGED <<redisVars, logVars>>
      /\ UNCHANGED <<admission, archiveVars, api, operators, envVars>>
      /\ faults' = faults /\ late' = late /\ UNCHANGED archiveVars
  BY <1>1 DEF WorkerOnly
<1>3. RedisTypes' /\ RedisInv' /\ IndexOnly BY <1>2, RedisIdle DEF IInv
<1>4. worker \in WorkerState /\ late' \in SUBSET Command BY <1>2 DEF IInv, ProcessTypes
<1>5. worker' \in WorkerState /\ WorkerInv'
  <2>1. CASE Start
    <3>1. worker' = [pc |-> "idle"] BY <2>1 DEF Start
    <3> QED BY <3>1, WorkerPlaces, FreePlace
  <2>2. CASE \E t \in Tokens : PickToken(t)
    <3>1. PICK t \in Tokens : worker' = [pc |-> "head", tok |-> t] BY <2>2 DEF PickToken
    <3> QED BY <3>1, WorkerPlaces, FreePlace
  <2>3. CASE ReadHead
    <3>1. worker.tok \in Tokens BY <1>4, <2>3, WorkerShape DEF ReadHead
    <3>2. PICK t \in Tokens : t = worker.tok BY <3>1
    <3>3. CASE queue[t] = <<>>
      <4>1. worker' = [pc |-> "clean", tok |-> t] BY <2>3, <3>2, <3>3 DEF ReadHead
      <4> QED BY <4>1, WorkerPlaces, FreePlace
    <3>4. CASE queue[t] # <<>>
      <4>1. worker' = [pc |-> "decode", tok |-> t, ent |-> Head(queue[t])]
        BY <2>3, <3>2, <3>4 DEF ReadHead
      <4>2. queue[t] \in Seq(Entry) /\ popped[t] \in Nat BY DEF IInv, RedisTypes
      <4>3. PICK e \in Entry : e = Head(queue[t]) BY <3>4, <4>2, HeadTailProperties
      <4>4. LogInv(t) BY DEF IInv, LogsOK
      <4>5. 1 \in 1..Len(queue[t]) /\ queue[t][1] = e /\ Len(queue[t]) \in Nat
        <5>1. Len(queue[t]) >= 1 /\ Len(queue[t]) \in Nat BY <3>4, <4>2, EmptySeq
        <5> QED BY <4>2, <4>3, <5>1
      <4>6. /\ e.pos = popped[t] + 1 /\ e.n = accepted[t][popped[t] + 1]
            /\ Len(accepted[t]) = popped[t] + Len(queue[t])
        BY <4>4, <4>5 DEF LogInv
      <4>7. /\ e.pos \in 1..(popped[t] + 1) /\ e.pos <= Len(accepted[t])
            /\ ~ (e.pos <= popped[t])
        BY <4>2, <4>5, <4>6
      <4>8. HoldInv(t, e, "decode") BY <3>4, <4>3, <4>6, <4>7 DEF HoldInv
      <4>9. HoldInv(t, e, "decode")' BY <1>2, <1>3, <4>8, HoldFollows
      <4>10. worker'.pc = "decode" /\ worker'.tok = t /\ worker'.ent = e BY <4>1, <4>3
      <4>11. WorkerInv' BY <4>9, <4>10 DEF WorkerInv
      <4> QED BY <4>1, <4>3, <4>11, WorkerPlaces
    <3> QED BY <3>3, <3>4
  <2>4. CASE RefuseHistory
    <3>1. Holding /\ ToFailed(TRUE) BY <2>4 DEF RefuseHistory, Holding
    <3> QED BY <1>2, <1>3, <3>1, FailedPlace
  <2>5. CASE Decode /\ \E b \in BOOLEAN : ToFailed(b)
    <3>1. Holding BY <2>5 DEF Decode, Holding
    <3> QED BY <1>2, <1>3, <2>5, <3>1, FailedPlace
  <2>6. CASE Decode /\ worker' = [worker EXCEPT !.pc = "apply"]
    <3>1. /\ worker.pc = "decode" /\ Holding
          /\ worker \in [pc : {"decode", "apply", "ack", "forget"}, tok : Tokens, ent : Entry]
      BY <1>4, <2>6, WorkerShape DEF Decode, Holding
    <3>2. PICK t \in Tokens, e \in Entry : t = worker.tok /\ e = worker.ent BY <3>1
    <3>3. worker'.pc = "apply" /\ worker'.tok = t /\ worker'.ent = e BY <2>6, <3>1, <3>2
    <3>4. worker' \in WorkerState BY <2>6, <3>1 DEF WorkerState
    <3>5. HoldInv(t, e, "decode") BY <3>1, <3>2 DEF IInv, WorkerInv
    <3>6. HoldInv(t, e, "apply") BY <3>5 DEF HoldInv
    <3>7. HoldInv(t, e, "apply")' BY <1>2, <1>3, <3>6, HoldFollows
    <3> QED BY <3>3, <3>4, <3>7 DEF WorkerInv
  <2>7. Decode => \/ \E b \in BOOLEAN : ToFailed(b)
                  \/ worker' = [worker EXCEPT !.pc = "apply"]
    BY DEF Decode
  <2> QED BY <2>1, <2>2, <2>3, <2>4, <2>5, <2>6, <2>7
<1>6. \A c \in late' \ late : LateInv(c)' BY <1>2
<1> QED BY <1>2, <1>3, <1>4, <1>5, <1>6, WorkerMoves

\* The acknowledgement that is on its way is of an event in effect.
LEMMA SentAck ==
    ASSUME IInv, worker.pc = "ack", IndexOnly, UNCHANGED archiveVars, NEW c,
           c = [script |-> "ACK", tok |-> worker.tok, ent |-> worker.ent]
    PROVE  c \in Command /\ LateInv(c)'
<1>1. worker.tok \in Tokens /\ worker.ent \in Entry /\ Holding
  BY WorkerShape DEF IInv, ProcessTypes, Holding
<1>2. PICK t \in Tokens, e \in Entry : t = worker.tok /\ e = worker.ent BY <1>1
<1>3. HoldInv(t, e, "ack") BY <1>1, <1>2 DEF IInv, WorkerInv
<1>4. HoldInv(t, e, "ack")' BY <1>3, HoldFollows
<1>5. e.pos \in Archived'[t] BY <1>4 DEF HoldInv
<1>6. c = [script |-> "ACK", tok |-> t, ent |-> e] BY <1>2
<1>7. c \in Command BY <1>6 DEF Command
<1>8. c.script = "ACK" /\ c.tok = t /\ c.ent = e BY <1>6
<1> QED BY <1>5, <1>7, <1>8 DEF LateInv

\* The steps of the worker that change neither lists nor archive.
LEMMA WorkerQuietSteps ==
    ASSUME IInv, Clean \/ TransientFailure \/ AcknowledgeTimeout \/ Failed \/ Crash
    PROVE  IInv' /\ Stutters
<1>1. /\ UNCHANGED <<admission, archiveVars, api, operators, envVars>> /\ UNCHANGED archiveVars
      /\ faults' = faults \/ SpendFault
  BY DEF Clean, TransientFailure, AcknowledgeTimeout, Failed, Crash
<1>2. /\ worker \in WorkerState /\ late \in SUBSET Command /\ RedisTypes /\ RedisInv
  BY DEF IInv, ProcessTypes
<1>3. RedisTypes' /\ RedisInv' /\ IndexOnly
  <2>1. CASE Clean
    <3>1. worker.tok \in Tokens BY <1>2, <2>1, WorkerShape DEF Clean
    <3>2. PICK t \in Tokens : t = worker.tok BY <3>1
    <3>3. CLEAN_EMPTY_INDEX(t) BY <2>1, <3>2 DEF Clean
    <3> QED BY <1>2, <3>3, CleanKeeps
  <2>2. CASE Failed
    <3>1. worker.tok \in Tokens BY <1>2, <2>2, WorkerShape DEF Failed, Holding
    <3>2. PICK t \in Tokens, e \in {worker.ent}, b \in {worker.poison} :
                 t = worker.tok /\ e = worker.ent /\ b = worker.poison
      BY <3>1
    <3>3. RETRY_FAILED(t, e, b) BY <2>2, <3>2 DEF Failed
    <3> QED BY <1>2, <3>3, FailedKeeps
  <2>3. CASE TransientFailure \/ AcknowledgeTimeout \/ Crash
    <3>1. UNCHANGED <<redisVars, logVars>> BY <2>3 DEF TransientFailure, AcknowledgeTimeout, Crash
    <3> QED BY <1>2, <3>1, RedisIdle
  <2> QED BY <2>1, <2>2, <2>3
<1>4. worker' \in WorkerState /\ WorkerInv'
  <2>1. CASE TransientFailure \/ AcknowledgeTimeout
    <3>1. Holding /\ ToFailed(FALSE) BY <2>1 DEF TransientFailure, AcknowledgeTimeout, Holding
    <3> QED BY <1>1, <1>3, <3>1, FailedPlace
  <2>2. CASE Clean \/ Failed \/ Crash
    <3>1. worker' = [pc |-> "idle"] \/ worker' = [pc |-> "down"] BY <2>2 DEF Clean, Failed, Crash
    <3> QED BY <3>1, WorkerPlaces, FreePlace
  <2> QED BY <2>1, <2>2
<1>5. late' \in SUBSET Command /\ \A c \in late' \ late : LateInv(c)'
  <2>1. CASE Clean \/ Failed \/ TransientFailure
    <3>1. late' = late BY <2>1 DEF Clean, Failed, TransientFailure
    <3> QED BY <1>2, <3>1
  <2>2. CASE AcknowledgeTimeout
    <3>1. PICK c : c = [script |-> "ACK", tok |-> worker.tok, ent |-> worker.ent] OBVIOUS
    <3>2. late' = late \cup {c} /\ worker.pc = "ack" BY <2>2, <3>1 DEF AcknowledgeTimeout
    <3>3. c \in Command /\ LateInv(c)' BY <1>1, <1>3, <3>1, <3>2, SentAck
    <3> QED BY <1>2, <3>2, <3>3
  <2>3. CASE Crash
    <3>1. late' \in {late, late \cup Sending} BY <2>3 DEF Crash
    <3>2. ASSUME NEW c \in Sending PROVE c \in Command /\ LateInv(c)'
      <4>1. CASE worker.pc = "clean"
        <5>1. PICK t \in Tokens : t = worker.tok BY <1>2, <4>1, WorkerShape
        <5>2. c = [script |-> "CLEAN", tok |-> t] BY <3>2, <4>1, <5>1 DEF Sending
        <5>3. c \in Command /\ c.script = "CLEAN" BY <5>2 DEF Command
        <5> QED BY <5>3 DEF LateInv
      <4>2. CASE worker.pc = "ack"
        <5>1. c = [script |-> "ACK", tok |-> worker.tok, ent |-> worker.ent]
          BY <3>2, <4>2 DEF Sending
        <5> QED BY <1>1, <1>3, <4>2, <5>1, SentAck
      <4>3. CASE worker.pc = "failed"
        <5>1. PICK t \in Tokens, e \in Entry, b \in BOOLEAN :
                 t = worker.tok /\ e = worker.ent /\ b = worker.poison
          BY <1>2, <4>3, WorkerShape DEF Holding
        <5>2. c = [script |-> "FAILED", tok |-> t, ent |-> e, poison |-> b]
          BY <3>2, <4>3, <5>1 DEF Sending
        <5>3. c \in Command /\ c.script = "FAILED" BY <5>2 DEF Command, Poison
        <5> QED BY <5>3 DEF LateInv
      <4> QED BY <3>2, <4>1, <4>2, <4>3 DEF Sending
    <3> QED BY <1>2, <3>1, <3>2
  <2> QED BY <2>1, <2>2, <2>3
<1> QED BY <1>1, <1>3, <1>4, <1>5, WorkerMoves

\* A step of the request log.
LogStep == Log!Next \/ Stutters

\* The next event takes effect.
LEMMA EffectIsStep ==
    ASSUME IInv, NEW t \in Tokens, TakesEffect(t), UNCHANGED <<accepted, popped>>
    PROVE  LogStep
<1>1. CASE Archived' = Archived BY <1>1 DEF LogStep, Stutters
<1>2. CASE /\ Archived[t] = 1..popped[t] /\ queue[t] # <<>>
           /\ Archived' = [Archived EXCEPT ![t] = 1..(popped[t] + 1)]
  <2>1. PICK p \in Nat : p = popped[t] BY DEF IInv, RedisTypes
  <2>2. p + 1 \in 1..Len(accepted[t])
    <3>1. queue[t] \in Seq(Entry) BY DEF IInv, RedisTypes
    <3>2. Len(queue[t]) \in Nat /\ Len(queue[t]) >= 1 BY <1>2, <3>1, EmptySeq
    <3>3. Len(accepted[t]) = p + Len(queue[t]) BY <2>1 DEF IInv, LogsOK, LogInv
    <3> QED BY <3>2, <3>3
  <2>3. 1..(p + 1) = 1..p \cup {p + 1} /\ p + 1 \notin 1..p /\ (p + 1) - 1 = p OBVIOUS
  <2>4. PICK x \in 1..Len(accepted[t]) : x = p + 1 BY <2>2
  <2>5. Archived[t] = 1..p /\ x - 1 = p /\ x \notin Archived[t] BY <1>2, <2>1, <2>3, <2>4
  <2>6. Archived' = [Archived EXCEPT ![t] = Archived[t] \cup {x}]
    BY <1>2, <2>1, <2>3, <2>4, <2>5
  <2>7. 1..(x - 1) \subseteq Archived[t] BY <2>5
  <2>8. Log!Archive(t) BY <2>5, <2>6, <2>7 DEF Log!Archive
  <2> QED BY <2>8 DEF LogStep, Log!Next
<1> QED BY <1>1, <1>2 DEF TakesEffect

\* A step of the worker with its effect on the archive.
LEMMA ArchiveMoves ==
    ASSUME IInv, UNCHANGED <<redisVars, admission, late, api, operators, envVars, faults, logVars>>,
           ArchiveTypes', LogsOK', ArchivesOK', Remembers, worker' \in WorkerState, WorkerInv'
    PROVE  IInv'
<1>1. RedisTypes' /\ RedisInv' /\ IndexOnly BY RedisIdle DEF IInv
<1>2. ProcessTypes' BY DEF IInv, ProcessTypes, envVars
<1>3. \A t \in Tokens : Grows(t) BY SameCalls DEF IInv
<1>4. ApiOK'
  <2> SUFFICES ASSUME NEW t \in Tokens PROVE ApiInv(t)' BY DEF ApiOK
  <2>1. accepted' = accepted /\ api'[t] = api[t] /\ ApiInv(t) BY DEF logVars, IInv, ApiOK
  <2> QED BY <2>1, ApiFollows
<1>5. LateOK'
  <2> SUFFICES ASSUME NEW c \in late PROVE LateInv(c)' BY DEF LateOK
  <2>1. c.tok \in Tokens /\ LateInv(c) BY CommandShape DEF IInv, ProcessTypes, LateOK
  <2> QED BY <1>2, <1>3, <2>1, LateFollows DEF IInv
<1> QED BY <1>1, <1>2, <1>4, <1>5 DEF IInv

\* The steps of the worker that change the archive.
LEMMA ArchiveSteps ==
    ASSUME IInv, ApplyEvent \/ PublishHistory \/ ForgetEvent
    PROVE  IInv' /\ LogStep
<1>1. /\ UNCHANGED <<redisVars, admission, late, api, operators, envVars, faults, logVars>>
      /\ UNCHANGED <<redisVars, logVars>> /\ UNCHANGED <<accepted, popped>>
      /\ \A u \in Tokens : api'[u].n = api[u].n
  BY DEF ApplyEvent, PublishHistory, ForgetEvent, logVars
<1>2. /\ worker \in WorkerState /\ RedisTypes /\ RedisInv /\ ArchiveTypes /\ LogsOK /\ ArchivesOK
  BY DEF IInv, ProcessTypes
<1>3. RedisTypes' /\ RedisInv' /\ IndexOnly BY <1>1, <1>2, RedisIdle
<1>4. Holding BY DEF ApplyEvent, PublishHistory, ForgetEvent, Holding
<1>5. PICK t \in Tokens, e \in Entry : t = worker.tok /\ e = worker.ent
  BY <1>2, <1>4, WorkerShape
<1>6. HoldInv(t, e, worker.pc) BY <1>4, <1>5 DEF IInv, WorkerInv
<1>7. ASSUME worker.pc = "apply", worker' = [worker EXCEPT !.pc = "ack"]
      PROVE  /\ worker' \in WorkerState
             /\ HoldInv(t, e, "ack")' => WorkerInv'
  <2>1. worker \in [pc : {"decode", "apply", "ack", "forget"}, tok : Tokens, ent : Entry]
    BY <1>2, <1>7, WorkerShape
  <2>2. worker'.pc = "ack" /\ worker'.tok = t /\ worker'.ent = e BY <1>5, <1>7, <2>1
  <2>3. worker' \in WorkerState BY <1>7, <2>1 DEF WorkerState
  <2> QED BY <2>2, <2>3 DEF WorkerInv
<1>8. CASE ApplyEvent /\ RecordMissing(t, e)
  <2>1. ToFailed(FALSE) /\ UNCHANGED <<rec, receipts, committed, published>>
    BY <1>5, <1>8 DEF ApplyEvent
  <2>2. UNCHANGED archiveVars BY <2>1 DEF archiveVars
  <2>3. worker' \in WorkerState /\ WorkerInv' BY <1>3, <1>4, <2>1, <2>2, FailedPlace
  <2>4. late' \in SUBSET Command /\ \A c \in late' \ late : LateInv(c)'
    BY <1>1 DEF IInv, ProcessTypes
  <2>5. UNCHANGED <<admission, archiveVars, api, operators, envVars>> /\ faults' = faults
    BY <1>1, <2>2
  <2> QED BY <1>3, <2>3, <2>4, <2>5, WorkerMoves DEF LogStep
<1>9. CASE ApplyEvent /\ ~ RecordMissing(t, e)
  <2>1. /\ worker.pc = "apply" /\ e.op # "history" /\ worker' = [worker EXCEPT !.pc = "ack"]
        /\ Commit(t, e) /\ published' = published
    BY <1>5, <1>9 DEF ApplyEvent
  <2>2. HoldInv(t, e, "apply") BY <1>6, <2>1
  <2>3. /\ ArchiveTypes' /\ LogsOK' /\ ArchivesOK' /\ Remembers
        /\ HoldInv(t, e, "ack")' /\ TakesEffect(t)
    BY <1>1, <1>2, <1>3, <2>1, <2>2, CommitKeeps
  <2>4. IInv' BY <1>1, <1>7, <2>1, <2>3, ArchiveMoves
  <2> QED BY <1>1, <2>3, <2>4, EffectIsStep
<1>10. CASE PublishHistory
  <2>1. /\ worker.pc = "apply" /\ e.op = "history" /\ worker' = [worker EXCEPT !.pc = "ack"]
        /\ published' = [published EXCEPT ![t] = Append(published[t], e.pos)]
        /\ UNCHANGED <<rec, receipts, committed>>
    BY <1>5, <1>10 DEF PublishHistory
  <2>2. HoldInv(t, e, "apply") BY <1>6, <2>1
  <2>3. /\ ArchiveTypes' /\ LogsOK' /\ ArchivesOK' /\ Remembers
        /\ HoldInv(t, e, "ack")' /\ TakesEffect(t)
    BY <1>1, <1>2, <1>3, <2>1, <2>2, PublishKeeps
  <2>4. IInv' BY <1>1, <1>7, <2>1, <2>3, ArchiveMoves
  <2> QED BY <1>1, <2>3, <2>4, EffectIsStep
<1>11. CASE ForgetEvent
  <2>1. /\ worker.pc = "forget" /\ worker' = [pc |-> "idle"]
        /\ receipts' = [receipts EXCEPT ![t] = receipts[t] \ {e.n}]
        /\ UNCHANGED <<rec, committed, published>>
    BY <1>5, <1>11 DEF ForgetEvent
  <2>2. HoldInv(t, e, "forget") BY <1>6, <2>1
  <2>3. ArchiveTypes' /\ LogsOK' /\ ArchivesOK' /\ Remembers /\ Archived' = Archived
    BY <1>1, <1>2, <1>3, <2>1, <2>2, ForgetKeeps
  <2>4. worker' \in WorkerState /\ WorkerInv' BY <2>1, WorkerPlaces, FreePlace
  <2>5. IInv' BY <1>1, <2>3, <2>4, ArchiveMoves
  <2> QED BY <1>1, <2>3, <2>5 DEF LogStep, Stutters
<1> QED BY <1>8, <1>9, <1>10, <1>11

\* A step that changes a list, with those who look at it.
LEMMA ListMoves ==
    ASSUME IInv, UNCHANGED archiveVars, RedisTypes', RedisInv', ProcessTypes', LogsOK',
           ArchivesOK', Remembers, ApiOK', WorkerInv', late' \in SUBSET late,
           \A t \in Tokens : Grows(t)
    PROVE  IInv'
<1>1. ArchiveTypes' BY DEF IInv, ArchiveTypes, archiveVars
<1>2. LateOK'
  <2> SUFFICES ASSUME NEW c \in late' PROVE LateInv(c)' BY DEF LateOK
  <2>1. c \in late /\ c.tok \in Tokens /\ LateInv(c)
    BY CommandShape DEF IInv, ProcessTypes, LateOK
  <2> QED BY <2>1, LateFollows DEF IInv
<1> QED BY <1>1, <1>2 DEF IInv

\* An event is accepted by Redis.
LEMMA AcceptStep ==
    ASSUME IInv, NEW t \in Tokens, NEW e \in Event, ENQUEUE(t, e), EnqueueResult(t, e) = 1,
           Known(t, e.n), e.n <= api[t].n, e.op = "history" => Finished(t),
           UNCHANGED archiveVars, worker' = worker, \A u \in Tokens : api'[u].n = api[u].n
    PROVE  /\ RedisTypes' /\ RedisInv' /\ LogsOK' /\ ArchivesOK' /\ Remembers /\ WorkerInv'
           /\ e.op \in Ends => Finished(t)'
           /\ Range(accepted'[t]) = Range(accepted[t]) \cup {e.n}
           /\ \A u \in Tokens : u # t => accepted'[u] = accepted[u]
           /\ LogStep
<1>0. RedisTypes /\ RedisInv /\ LogsOK /\ ArchivesOK BY DEF IInv
<1>1. RedisTypes' /\ RedisInv' BY <1>0, EnqueueKeeps
<1>2. Accepts(t, e) BY EnqueueEffect
<1>3. /\ LogsOK' /\ ArchivesOK' /\ Remembers /\ Archived' = Archived
      /\ e.op \in Ends => Finished(t)'
      /\ Range(accepted'[t]) = Range(accepted[t]) \cup {e.n}
      /\ \A u \in Tokens : u # t => accepted'[u] = accepted[u]
  BY <1>0, <1>2, AcceptKeeps
<1>4. WorkerInv'
  <2> SUFFICES ASSUME Holding PROVE HoldInv(worker.tok, worker.ent, worker.pc)'
    BY DEF WorkerInv, Holding
  <2>1. PICK u \in Tokens, y \in Entry, p \in {worker.pc} : u = worker.tok /\ y = worker.ent /\ p = worker.pc
    BY WorkerShape DEF IInv, ProcessTypes
  <2>2. HoldInv(u, y, p) BY <2>1 DEF IInv, WorkerInv
  <2>3. HoldInv(u, y, p)' BY <1>0, <1>2, <2>2, AcceptHolds
  <2> QED BY <2>1, <2>3
<1>5. LogStep
  <2>1. e.n \in 1..MaxEvents /\ accepted[t] \in Seq(1..MaxEvents) BY <1>0 DEF Event, RedisTypes
  <2>2. e.n \notin Range(accepted[t]) BY <1>2 DEF Accepts, Known
  <2>3. \A i \in 1..Len(accepted[t]) : accepted[t][i] # e.n BY <2>1, <2>2, RangeFacts
  <2>4. /\ accepted' = [accepted EXCEPT ![t] = Append(accepted[t], e.n)]
        /\ UNCHANGED <<Archived, popped>>
    BY <1>2, <1>3 DEF Accepts
  <2>5. Log!Accept(t, e.n) BY <2>3, <2>4 DEF Log!Accept
  <2> QED BY <2>1, <2>5 DEF LogStep, Log!Next
<1> QED BY <1>1, <1>3, <1>4, <1>5

\* The head leaves its list.
LEMMA RemoveStep ==
    ASSUME IInv, NEW t \in Tokens, NEW ent \in Entry, ACK(t, ent), AckResult(t, ent),
           ent.pos \in Archived[t], UNCHANGED archiveVars, api' = api
    PROVE  /\ RedisTypes' /\ RedisInv' /\ LogsOK' /\ ArchivesOK' /\ Remembers /\ ApiOK'
           /\ \A u \in Tokens, y \in Entry : \A pc : HoldInv(u, y, pc) => HoldInv(u, y, pc)'
           /\ ent.pos <= popped'[t]
           /\ LogStep
<1>0. RedisTypes /\ RedisInv /\ LogsOK /\ ArchivesOK BY DEF IInv
<1>1. RedisTypes' /\ RedisInv' BY <1>0, AckKeeps
<1>2. Removes(t, ent) BY AckEffect
<1>3. /\ LogsOK' /\ ArchivesOK' /\ Remembers /\ Archived' = Archived
      /\ ent.pos = popped[t] + 1
      /\ \A u \in Tokens, y \in Entry : \A pc : HoldInv(u, y, pc) => HoldInv(u, y, pc)'
  BY <1>0, <1>2, RemoveKeeps
<1>4. popped[t] \in Nat /\ popped' = [popped EXCEPT ![t] = popped[t] + 1] /\ accepted' = accepted
  BY <1>0, <1>2 DEF RedisTypes, Removes
<1>5. ApiOK'
  <2> SUFFICES ASSUME NEW u \in Tokens PROVE ApiInv(u)' BY DEF ApiOK
  <2>1. ApiInv(u) /\ api'[u] = api[u] BY DEF IInv, ApiOK
  <2> QED BY <1>3, <1>4, <2>1, ApiFollows
<1>6. ent.pos <= popped'[t]
  <2>1. popped'[t] = popped[t] + 1 BY <1>0, <1>4 DEF RedisTypes
  <2> QED BY <1>3, <1>4, <2>1
<1>7. Log!Remove(t) BY <1>3, <1>4 DEF Log!Remove
<1> QED BY <1>1, <1>3, <1>5, <1>6, <1>7 DEF LogStep, Log!Next

\* The worker acknowledges what it has brought into the archive.
LEMMA AcknowledgeStep ==
    ASSUME IInv, Acknowledge
    PROVE  IInv' /\ LogStep
<1>1. /\ UNCHANGED <<admission, late, archiveVars, api, operators, envVars, faults>>
      /\ UNCHANGED archiveVars /\ api' = api /\ late' = late /\ worker.pc = "ack"
  BY DEF Acknowledge
<1>2. /\ worker \in WorkerState /\ RedisTypes /\ RedisInv /\ late \in SUBSET Command
  BY DEF IInv, ProcessTypes
<1>3. Holding BY <1>1 DEF Holding
<1>4. PICK t \in Tokens, e \in Entry : t = worker.tok /\ e = worker.ent
  BY <1>2, <1>3, WorkerShape
<1>5. ACK(t, e) BY <1>4 DEF Acknowledge
<1>6. HoldInv(t, e, "ack") BY <1>1, <1>3, <1>4 DEF IInv, WorkerInv
<1>7. CASE ~ AckResult(t, e)
  <2>1. UNCHANGED <<redisVars, logVars>> /\ worker' = [pc |-> "idle"]
    BY <1>4, <1>5, <1>7, AckEffect DEF Acknowledge
  <2>2. RedisTypes' /\ RedisInv' /\ IndexOnly BY <1>2, <2>1, RedisIdle
  <2>3. worker' \in WorkerState /\ WorkerInv' BY <2>1, WorkerPlaces, FreePlace
  <2> QED BY <1>1, <1>2, <2>2, <2>3, WorkerMoves DEF LogStep
<1>8. CASE AckResult(t, e)
  <2>1. e.pos \in Archived[t] BY <1>6 DEF HoldInv
  <2>2. /\ RedisTypes' /\ RedisInv' /\ LogsOK' /\ ArchivesOK' /\ Remembers /\ ApiOK'
        /\ HoldInv(t, e, "ack")' /\ e.pos <= popped'[t]
        /\ LogStep
    BY <1>1, <1>5, <1>6, <1>8, <2>1, RemoveStep
  <2>3. HoldInv(t, e, "forget")' BY <2>2 DEF HoldInv
  <2>4. worker \in [pc : {"decode", "apply", "ack", "forget"}, tok : Tokens, ent : Entry]
    BY <1>1, <1>2, WorkerShape
  <2>5. worker' = [worker EXCEPT !.pc = "forget"] BY <1>4, <1>8 DEF Acknowledge
  <2>6. worker'.pc = "forget" /\ worker'.tok = t /\ worker'.ent = e BY <1>4, <2>4, <2>5
  <2>7. worker' \in WorkerState BY <2>4, <2>5 DEF WorkerState
  <2>8. WorkerInv' BY <2>3, <2>6 DEF WorkerInv
  <2>9. ProcessTypes' BY <1>1, <2>7 DEF IInv, ProcessTypes, envVars
  <2>10. \A u \in Tokens : Grows(u) BY <1>1, SameCalls DEF IInv
  <2> QED BY <1>1, <2>2, <2>8, <2>9, <2>10, ListMoves
<1> QED BY <1>7, <1>8

\* A command that was given up is executed after all.
LEMMA LateSteps ==
    ASSUME IInv, NEW c \in late, LateCommand(c)
    PROVE  IInv' /\ LogStep
<1>1. /\ UNCHANGED <<admission, archiveVars, api, worker, operators, envVars, faults>>
      /\ UNCHANGED archiveVars /\ api' = api /\ worker' = worker /\ late' = late \ {c}
  BY DEF LateCommand
<1>2. /\ RedisTypes /\ RedisInv /\ late \in SUBSET Command /\ LateInv(c)
  BY DEF IInv, ProcessTypes, LateOK
<1>3. /\ c.tok \in Tokens /\ c.script \in {"ENQUEUE", "ACK", "FAILED", "CLEAN"}
      /\ c.script = "ENQUEUE" => c.ev \in Event
      /\ c.script \in {"ACK", "FAILED"} => c.ent \in Entry
  BY <1>2, CommandShape
<1>4. PICK t \in Tokens : t = c.tok BY <1>3
<1>5. ProcessTypes' BY <1>1 DEF IInv, ProcessTypes, envVars
<1>6. \A u \in Tokens : Grows(u) /\ (api'[u] = api[u] \/ ApiInv(u)')
  BY <1>1, SameCalls DEF IInv
<1>7. ASSUME RedisTypes', RedisInv', IndexOnly PROVE IInv' /\ LogStep
  <2>1. \A d \in late' \ late : LateInv(d)' BY <1>1
  <2>2. IInv' /\ Archived' = Archived BY <1>1, <1>5, <1>6, <1>7, <2>1, QuietStep
  <2> QED BY <1>7, <2>2 DEF LogStep, Stutters, IndexOnly
<1>8. CASE c.script = "CLEAN"
  <2>1. CLEAN_EMPTY_INDEX(t) BY <1>4, <1>8 DEF LateCommand
  <2> QED BY <1>2, <1>7, <2>1, CleanKeeps
<1>9. CASE c.script = "FAILED"
  <2>1. PICK e, b : e = c.ent /\ b = c.poison OBVIOUS
  <2>2. RETRY_FAILED(t, e, b) BY <1>4, <1>9, <2>1 DEF LateCommand
  <2> QED BY <1>2, <1>7, <2>2, FailedKeeps
<1>10. CASE c.script = "ACK"
  <2>1. PICK e \in Entry : e = c.ent BY <1>3, <1>10
  <2>2. ACK(t, e) /\ e.pos \in Archived[t]
    BY <1>2, <1>4, <1>10, <2>1 DEF LateCommand, LateInv
  <2>3. CASE ~ AckResult(t, e)
    <3>1. UNCHANGED <<redisVars, logVars>> BY <2>2, <2>3, AckEffect
    <3> QED BY <1>2, <1>7, <3>1, RedisIdle
  <2>4. CASE AckResult(t, e)
    <3>1. /\ RedisTypes' /\ RedisInv' /\ LogsOK' /\ ArchivesOK' /\ Remembers /\ ApiOK'
          /\ \A u \in Tokens, y \in Entry : \A pc : HoldInv(u, y, pc) => HoldInv(u, y, pc)'
          /\ LogStep
      BY <1>1, <2>2, <2>4, RemoveStep
    <3>2. WorkerInv'
      <4> SUFFICES ASSUME Holding PROVE HoldInv(worker.tok, worker.ent, worker.pc)'
        BY <1>1 DEF WorkerInv, Holding
      <4>1. PICK u \in Tokens, y \in Entry, p \in {worker.pc} : u = worker.tok /\ y = worker.ent /\ p = worker.pc
        BY WorkerShape DEF IInv, ProcessTypes
      <4>2. HoldInv(u, y, p) BY <4>1 DEF IInv, WorkerInv
      <4>3. HoldInv(u, y, p)' BY <3>1, <4>2
      <4> QED BY <1>1, <4>1, <4>3
    <3> QED BY <1>1, <1>5, <1>6, <3>1, <3>2, ListMoves
  <2> QED BY <2>3, <2>4
<1>11. CASE c.script = "ENQUEUE"
  <2>1. PICK e \in Event : e = c.ev BY <1>3, <1>11
  <2>2. ENQUEUE(t, e) BY <1>4, <1>11, <2>1 DEF LateCommand
  <2>3. /\ e.n <= api[t].n /\ (e.n = api[t].n => e = api[t].ev)
        /\ Known(t, e.n) /\ (e.op = "history" => Finished(t))
    BY <1>2, <1>4, <1>11, <2>1 DEF LateInv
  <2>4. CASE EnqueueResult(t, e) # 1
    <3>1. UNCHANGED <<redisVars, logVars>> BY <2>2, <2>4, EnqueueEffect
    <3> QED BY <1>2, <1>7, <3>1, RedisIdle
  <2>5. CASE EnqueueResult(t, e) = 1
    <3>1. /\ RedisTypes' /\ RedisInv' /\ LogsOK' /\ ArchivesOK' /\ Remembers /\ WorkerInv'
          /\ e.op \in Ends => Finished(t)'
          /\ Range(accepted'[t]) = Range(accepted[t]) \cup {e.n}
          /\ \A u \in Tokens : u # t => accepted'[u] = accepted[u]
          /\ LogStep
      BY <1>1, <2>2, <2>3, <2>5, AcceptStep
    <3>2. ApiOK'
      <4> SUFFICES ASSUME NEW u \in Tokens PROVE ApiInv(u)' BY DEF ApiOK
      <4>1. ApiInv(u) /\ api'[u] = api[u] BY <1>1 DEF IInv, ApiOK
      <4>2. api[u].n \in Range(accepted'[u]) =>
               api[u].n \in Range(accepted[u]) \/ (api[u].ev.op \in Ends => Finished(u)')
        <5>1. CASE u # t BY <3>1, <5>1
        <5>2. CASE u = t
          <6>1. ASSUME api[t].n = e.n PROVE api[t].ev.op \in Ends => Finished(t)'
            BY <2>3, <3>1, <6>1
          <6> QED BY <3>1, <5>2, <6>1
        <5> QED BY <5>1, <5>2
      <4> QED BY <3>1, <4>1, <4>2, ApiFollows
    <3> QED BY <1>1, <1>5, <1>6, <3>1, <3>2, ListMoves
  <2> QED BY <2>4, <2>5
<1> QED BY <1>3, <1>8, <1>9, <1>10, <1>11

\* One request acts; the rest is as before.
LEMMA ApiMoves ==
    ASSUME IInv, NEW t \in Tokens, NEW a \in ApiState, api' = [api EXCEPT ![t] = a],
           api[t].n <= a.n, a.n = api[t].n => a.ev = api[t].ev
    PROVE  /\ api' \in [Tokens -> ApiState] /\ api'[t] = a
           /\ \A u \in Tokens : Grows(u) /\ (u # t => api'[u] = api[u])
<1>1. api \in [Tokens -> ApiState] BY DEF IInv, ProcessTypes
<1>2. \A u \in Tokens : api[u].n \in Nat BY <1>1 DEF ApiState
<1>3. api' \in [Tokens -> ApiState] /\ api'[t] = a /\ \A u \in Tokens : u # t => api'[u] = api[u]
  BY <1>1
<1> QED BY <1>2, <1>3 DEF Grows

\* A step of one request that sends nothing to Redis.
LEMMA ApiQuiet ==
    ASSUME IInv, NEW t \in Tokens, NEW a \in ApiState, api' = [api EXCEPT ![t] = a],
           api[t].n <= a.n, a.n = api[t].n => a.ev = api[t].ev,
           UNCHANGED <<redisVars, admission, archiveVars, worker, operators, envVars, logVars>>,
           faults' = faults \/ SpendFault,
           late' \in SUBSET Command, \A c \in late' \ late : LateInv(c)', ApiInv(t)'
    PROVE  IInv' /\ Stutters
<1>1. UNCHANGED <<redisVars, logVars>> /\ UNCHANGED archiveVars /\ worker' = worker OBVIOUS
<1>2. RedisTypes' /\ RedisInv' /\ IndexOnly BY <1>1, RedisIdle DEF IInv
<1>3. /\ api' \in [Tokens -> ApiState]
      /\ \A u \in Tokens : Grows(u) /\ (u # t => api'[u] = api[u])
  BY ApiMoves
<1>4. ProcessTypes'
  <2>1. faults' \in 0..MaxFaults BY ConstantsAssumption DEF IInv, ProcessTypes, SpendFault
  <2> QED BY <1>3, <2>1 DEF IInv, ProcessTypes, envVars
<1>5. \A u \in Tokens : Grows(u) /\ (api'[u] = api[u] \/ ApiInv(u)') BY <1>3
<1>6. IInv' /\ Archived' = Archived BY <1>1, <1>2, <1>4, <1>5, QuietStep
<1> QED BY <1>2, <1>6 DEF Stutters, IndexOnly

\* What a request may rely on while the lists are at rest.
LEMMA ApiSees ==
    ASSUME IndexOnly, UNCHANGED archiveVars, NEW t \in Tokens
    PROVE  /\ Finished(t)' <=> Finished(t)
           /\ \A n : Known(t, n)' <=> Known(t, n)
           /\ accepted' = accepted
<1>1. UNCHANGED <<queue, accepted, popped, eventIds, rec>> BY DEF IndexOnly, archiveVars
<1> QED BY <1>1 DEF Finished, EndsBefore, Over, Known

\* A new call, under an id that Redis has not seen.
LEMMA CallSteps ==
    ASSUME IInv, NEW t \in Tokens, Begin(t) \/ \E op \in Ops : Record(t, op)
    PROVE  IInv' /\ Stutters
<1>1. /\ UNCHANGED <<redisVars, admission, archiveVars, worker, operators, envVars, logVars>>
      /\ faults' = faults /\ late' = late
  BY DEF Begin, Record
<1>2. api[t] \in ApiState /\ ApiInv(t) /\ LogInv(t) /\ late \in SUBSET Command
  BY DEF IInv, ProcessTypes, ApiOK, LogsOK
<1>3. PICK k \in Nat : k = api[t].n BY <1>2 DEF ApiState
<1>4. /\ k + 1 \in 1..MaxEvents
      /\ \E op \in Ops, body \in SUBSET Bodies :
            Call(t, k + 1, op, body) /\ (op = "history" => Finished(t))
  <2>1. CASE Begin(t)
    <3>1. k = 0 BY <1>2, <1>3, <2>1 DEF Begin, ApiInv
    <3>2. k + 1 \in 1..MaxEvents BY <2>1, <3>1, ConstantsAssumption DEF Begin
    <3>3. \E body \in SUBSET Bodies : Call(t, 1, "begin", body) BY <2>1 DEF Begin
    <3>4. "begin" \in Ops /\ k + 1 = 1 BY <3>1 DEF Ops, OPERATIONS
    <3> QED BY <3>2, <3>3, <3>4
  <2>2. CASE \E op \in Ops : Record(t, op)
    <3>1. PICK op \in Ops : Record(t, op) BY <2>2
    <3>2. MayRecord(t, op) /\ k < MaxEvents /\ \E body \in SUBSET Bodies : Call(t, k + 1, op, body)
      BY <1>3, <3>1 DEF Record
    <3>3. op = "history" => Finished(t)
      <4>1. ASSUME op = "history" PROVE api[t].last \in Ends BY <3>2, <4>1 DEF MayRecord, Ends
      <4> QED BY <1>2, <4>1 DEF ApiInv
    <3>4. k + 1 \in 1..MaxEvents BY <3>2, ConstantsAssumption
    <3> QED BY <3>2, <3>3, <3>4
  <2> QED BY <2>1, <2>2
<1>5. PICK op \in Ops, body \in SUBSET Bodies :
         Call(t, k + 1, op, body) /\ (op = "history" => Finished(t))
  BY <1>4
<1>6. PICK e : e = [n |-> k + 1, op |-> op, body |-> body] OBVIOUS
<1>7. e \in Event /\ e.n = k + 1 /\ e.op = op BY <1>4, <1>6 DEF Event
<1>8. PICK a : a = [pc |-> "calling", n |-> k + 1, last |-> api[t].last, ev |-> e] OBVIOUS
<1>9. /\ a \in ApiState /\ a.pc = "calling" /\ a.n = k + 1 /\ a.ev = e /\ a.last = api[t].last
  <2>1. k + 1 \in 0..MaxEvents /\ api[t].last \in Ops \cup {"none"} BY <1>2, <1>4 DEF ApiState
  <2> QED BY <1>7, <1>8, <2>1 DEF ApiState
<1>10. api' = [api EXCEPT ![t] = a] BY <1>5, <1>6, <1>8 DEF Call
<1>11. api[t].n <= a.n /\ a.n # api[t].n BY <1>3, <1>9
<1>12. /\ api'[t] = a BY <1>9, <1>10, <1>11, ApiMoves
<1>13. /\ IndexOnly BY <1>1, RedisIdle DEF IInv
<1>14. /\ Finished(t)' <=> Finished(t)
       /\ \A n : Known(t, n)' <=> Known(t, n)
       /\ accepted' = accepted
  BY <1>1, <1>13, ApiSees
<1>15. k + 1 \notin Range(accepted[t])
  <2>1. accepted[t] \in Seq(1..MaxEvents) BY DEF IInv, RedisTypes
  <2>2. ASSUME NEW i \in 1..Len(accepted[t]) PROVE accepted[t][i] # k + 1
    <3>1. accepted[t][i] \in 1..MaxEvents BY <2>1, ElementOfSeq
    <3>2. accepted[t][i] <= k BY <1>2, <1>3 DEF LogInv
    <3> QED BY <3>1, <3>2
  <2> QED BY <2>1, <2>2, RangeFacts
<1>16. ApiInv(t)'
  <2>1. Known(t, k + 1)' BY <1>14, <1>15 DEF Known
  <2>2. a.last \in Ends => Finished(t)' BY <1>2, <1>9, <1>14 DEF ApiInv
  <2>3. PICK m : m = k + 1 OBVIOUS
  <2>4. Known(t, m)' BY <2>1, <2>3
  <2> QED BY <1>5, <1>7, <1>9, <1>12, <1>14, <1>15, <2>2, <2>3, <2>4 DEF ApiInv, InFlight, Known
<1>17. late' \in SUBSET Command /\ \A c \in late' \ late : LateInv(c)' BY <1>1, <1>2
<1> QED BY <1>1, <1>9, <1>10, <1>11, <1>16, <1>17, ApiQuiet

\* A call whose outcome is not known is given up, repeated, or becomes late.
LEMMA UnconfirmedSteps ==
    ASSUME IInv, NEW t \in Tokens, EnqueueTimeout(t) \/ RetryEnqueue(t) \/ GiveUp(t)
    PROVE  IInv' /\ Stutters
<1>1. /\ UNCHANGED <<redisVars, admission, archiveVars, worker, operators, envVars, logVars>>
      /\ faults' = faults \/ SpendFault
  BY DEF EnqueueTimeout, RetryEnqueue, GiveUp
<1>2. api[t] \in ApiState /\ ApiInv(t) /\ late \in SUBSET Command
  BY DEF IInv, ProcessTypes, ApiOK
<1>3. InFlight(t) BY DEF EnqueueTimeout, RetryEnqueue, GiveUp, InFlight
<1>4. PICK p \in {"calling", "unconfirmed", "failing", "closed"} :
         api' = [api EXCEPT ![t] = [api[t] EXCEPT !.pc = p]]
  BY DEF EnqueueTimeout, RetryEnqueue, GiveUp
<1>5. PICK a : a = [api[t] EXCEPT !.pc = p] OBVIOUS
<1>6. /\ a \in ApiState /\ a.pc = p /\ a.n = api[t].n /\ a.ev = api[t].ev
      /\ a.last = api[t].last
  BY <1>2, <1>5 DEF ApiState
<1>7. api' = [api EXCEPT ![t] = a] BY <1>4, <1>5
<1>8. api[t].n <= a.n /\ (a.n = api[t].n => a.ev = api[t].ev) BY <1>2, <1>6 DEF ApiState
<1>9. api'[t] = a BY <1>6, <1>7, <1>8, ApiMoves
<1>10. IndexOnly BY <1>1, RedisIdle DEF IInv
<1>11. /\ Finished(t)' <=> Finished(t)
       /\ \A n : Known(t, n)' <=> Known(t, n)
       /\ accepted' = accepted
  BY <1>1, <1>10, ApiSees
<1>12. PICK k : k = api[t].n OBVIOUS
<1>13. Known(t, k)' BY <1>2, <1>3, <1>11, <1>12 DEF ApiInv
<1>14. ApiInv(t)' BY <1>2, <1>3, <1>6, <1>9, <1>11, <1>12, <1>13 DEF ApiInv, InFlight, Known
<1>15. late' \in SUBSET Command /\ \A c \in late' \ late : LateInv(c)'
  <2>1. CASE ~ EnqueueTimeout(t)
    <3>1. late' = late BY <2>1 DEF RetryEnqueue, GiveUp
    <3> QED BY <1>2, <3>1
  <2>2. CASE EnqueueTimeout(t)
    <3>1. PICK e \in Event : e = api[t].ev /\ e.n = k BY <1>2, <1>3, <1>12 DEF ApiInv
    <3>2. PICK c : c = [script |-> "ENQUEUE", tok |-> t, ev |-> e] OBVIOUS
    <3>3. late' = late \cup {c} BY <2>2, <3>1, <3>2 DEF EnqueueTimeout
    <3>4. c \in Command /\ c.script = "ENQUEUE" /\ c.tok = t /\ c.ev = e BY <3>2 DEF Command
    <3>5. k \in Nat BY <3>1 DEF Event
    <3>6. /\ e.n <= api'[t].n /\ e = api'[t].ev
          /\ e.op = "history" => Finished(t)'
      BY <1>2, <1>3, <1>6, <1>9, <1>11, <1>12, <3>1, <3>5 DEF ApiInv
    <3>7. Known(t, e.n)' BY <1>13, <3>1 DEF Known
    <3>8. LateInv(c)' BY <3>4, <3>6, <3>7 DEF LateInv, Known
    <3> QED BY <1>2, <3>3, <3>4, <3>8
  <2> QED BY <2>1, <2>2
<1> QED BY <1>1, <1>6, <1>7, <1>8, <1>14, <1>15, ApiQuiet

\* The call reaches Redis and its answer the request.
LEMMA EnqueueStep ==
    ASSUME IInv, NEW t \in Tokens, EnqueueCall(t)
    PROVE  IInv' /\ LogStep
<1>1. /\ UNCHANGED <<admission, late, archiveVars, worker, operators, envVars, faults>>
      /\ UNCHANGED archiveVars /\ worker' = worker /\ late' = late
  BY DEF EnqueueCall
<1>2. /\ api[t] \in ApiState /\ ApiInv(t) /\ LogInv(t) /\ RedisTypes /\ RedisInv
      /\ late \in SUBSET Command /\ InFlight(t)
  BY DEF IInv, ProcessTypes, ApiOK, LogsOK, EnqueueCall, InFlight
<1>3. PICK e \in Event : e = api[t].ev /\ e.n = api[t].n BY <1>2 DEF ApiInv
<1>4. /\ Known(t, e.n) /\ (e.op = "history" => Finished(t))
      /\ e.op \in Ends /\ e.n \in Range(accepted[t]) => Finished(t)
      /\ api[t].last \in Ends => Finished(t)
  BY <1>2, <1>3 DEF ApiInv
<1>5. ENQUEUE(t, e) BY <1>3 DEF EnqueueCall
<1>6. PICK a : a = IF EnqueueResult(t, e) \in {1, 2}
                   THEN [api[t] EXCEPT !.pc = "idle", !.last = e.op]
                   ELSE [api[t] EXCEPT !.pc = "unconfirmed"]
  OBVIOUS
<1>7. api' = [api EXCEPT ![t] = a] BY <1>3, <1>6 DEF EnqueueCall
<1>8. e.op \in Ops \cup {"none"} /\ e.n \in Nat BY DEF Event
<1>9. /\ a \in ApiState /\ a.n = api[t].n /\ a.ev = api[t].ev
      /\ EnqueueResult(t, e) \in {1, 2} => a.pc = "idle" /\ a.last = e.op
      /\ EnqueueResult(t, e) \notin {1, 2} => a.pc = "unconfirmed" /\ a.last = api[t].last
  BY <1>2, <1>6, <1>8 DEF ApiState
<1>10. api[t].n <= a.n /\ (a.n = api[t].n => a.ev = api[t].ev) BY <1>3, <1>8, <1>9
<1>11. /\ api' \in [Tokens -> ApiState] /\ api'[t] = a
       /\ \A u \in Tokens : Grows(u) /\ (u # t => api'[u] = api[u])
  BY <1>7, <1>9, <1>10, ApiMoves
<1>12. \A u \in Tokens : api'[u].n = api[u].n BY <1>9, <1>11
<1>13. CASE EnqueueResult(t, e) = 1
  <2>1. /\ RedisTypes' /\ RedisInv' /\ LogsOK' /\ ArchivesOK' /\ Remembers /\ WorkerInv'
        /\ e.op \in Ends => Finished(t)'
        /\ \A u \in Tokens : u # t => accepted'[u] = accepted[u]
        /\ LogStep
    BY <1>1, <1>3, <1>4, <1>5, <1>8, <1>12, <1>13, AcceptStep
  <2>2. ApiInv(t)' BY <1>9, <1>11, <1>13, <2>1 DEF ApiInv, InFlight
  <2>3. ASSUME NEW u \in Tokens, u # t PROVE ApiInv(u)'
    <3>1. ApiInv(u) /\ api'[u] = api[u] /\ accepted'[u] = accepted[u]
      BY <1>11, <2>1, <2>3 DEF IInv, ApiOK
    <3> QED BY <2>1, <3>1, ApiFollows
  <2>4. ProcessTypes' BY <1>1, <1>11 DEF IInv, ProcessTypes, envVars
  <2>5. ApiOK' BY <2>2, <2>3 DEF ApiOK
  <2> QED BY <1>1, <1>11, <2>1, <2>4, <2>5, ListMoves
<1>14. CASE EnqueueResult(t, e) # 1
  <2>1. UNCHANGED <<redisVars, logVars>> BY <1>5, <1>14, EnqueueEffect
  <2>2. IndexOnly BY <1>2, <2>1, RedisIdle
  <2>3. /\ Finished(t)' <=> Finished(t)
        /\ \A n : Known(t, n)' <=> Known(t, n)
        /\ accepted' = accepted
    BY <1>1, <2>2, ApiSees
  <2>4. PICK k : k = e.n OBVIOUS
  <2>5. Known(t, k)' BY <1>4, <2>3, <2>4
  <2>6. ApiInv(t)'
    <3>1. CASE EnqueueResult(t, e) = 2
      <4>1. e.n \in eventIds[t] BY <3>1 DEF EnqueueResult
      <4>2. e.n \in Range(accepted[t]) BY <1>2, <4>1 DEF LogInv
      <4> QED BY <1>4, <1>9, <1>11, <2>3, <3>1, <4>2 DEF ApiInv, InFlight
    <3>2. CASE EnqueueResult(t, e) # 2
      BY <1>2, <1>3, <1>4, <1>9, <1>11, <1>14, <2>3, <2>4, <2>5, <3>2 DEF ApiInv, InFlight, Known
    <3> QED BY <3>1, <3>2
  <2>7. late' \in SUBSET Command /\ \A c \in late' \ late : LateInv(c)' BY <1>1, <1>2
  <2>8. /\ UNCHANGED <<redisVars, admission, archiveVars, worker, operators, envVars, logVars>>
        /\ faults' = faults
    BY <1>1, <2>1
  <2> QED BY <1>7, <1>9, <1>10, <2>6, <2>7, <2>8, ApiQuiet DEF LogStep
<1> QED BY <1>13, <1>14

\* The ids of a request expire when nobody can use them any more.
LEMMA ExpireStep ==
    ASSUME IInv, NEW t \in Tokens, ExpireEventIds(t)
    PROVE  IInv' /\ Stutters
<1>1. /\ UNCHANGED <<queue, bodies, used, indexVars, admission, late, archiveVars,
                     api, worker, operators, envVars, faults, logVars>>
      /\ eventIds' = [eventIds EXCEPT ![t] = {}]
      /\ api[t].pc \in {"idle", "closed"}
      /\ \A c \in late : ~ (c.script = "ENQUEUE" /\ c.tok = t)
  BY DEF ExpireEventIds
<1>2. UNCHANGED <<queue, bodies, used, ready, oldest, quarantine, retries, errors, accepted,
                  popped, rec, receipts, committed, published, api, worker, late>>
  BY <1>1 DEF indexVars, archiveVars, logVars
<1>3. eventIds'[t] = {} /\ \A u \in Tokens : u # t => eventIds'[u] = eventIds[u]
  BY <1>1 DEF IInv, RedisTypes
<1>4. RedisTypes'
  <2>1. eventIds' \in [Tokens -> SUBSET (1..MaxEvents)] BY <1>1 DEF IInv, RedisTypes
  <2> QED BY <1>2, <2>1 DEF IInv, RedisTypes
<1>5. RedisInv'
  <2>1. NoStrandedEvents' /\ NoPayloadlessRetry'
    BY <1>2 DEF IInv, RedisInv, NoStrandedEvents, NoPayloadlessRetry
  <2> QED BY <1>2, <2>1, AccountsKept DEF IInv, RedisInv
<1>6. ArchiveTypes' /\ ProcessTypes'
  BY <1>1, <1>2 DEF IInv, ArchiveTypes, ProcessTypes, envVars
<1>7. Archived' = Archived BY <1>2 DEF Archived
<1>8. LogsOK'
  <2> SUFFICES ASSUME NEW u \in Tokens PROVE LogInv(u)' BY DEF LogsOK
  <2>1. LogInv(u) BY DEF IInv, LogsOK
  <2>2. eventIds'[u] \subseteq Range(accepted[u]) BY <1>3, <2>1 DEF LogInv
  <2> QED BY <1>2, <2>1, <2>2 DEF LogInv
<1>9. ArchivesOK'
  BY <1>2, <1>7 DEF IInv, ArchivesOK, ArchiveInv, HeadInv, EndsBefore, Over
<1>10. \A u \in Tokens : Finished(u)' <=> Finished(u) BY <1>2 DEF Finished, EndsBefore, Over
<1>11. \A u \in Tokens : u # t => \A n : Known(u, n)' <=> Known(u, n) BY <1>2, <1>3 DEF Known
<1>12. ApiOK'
  <2> SUFFICES ASSUME NEW u \in Tokens PROVE ApiInv(u)' BY DEF ApiOK
  <2>1. ApiInv(u) /\ (Finished(u)' <=> Finished(u)) BY <1>10 DEF IInv, ApiOK
  <2>2. CASE u = t BY <1>1, <1>2, <2>1, <2>2 DEF ApiInv, InFlight
  <2>3. CASE u # t
    <3>1. eventIds'[u] = eventIds[u] BY <1>3, <2>3
    <3> QED BY <1>2, <2>1, <3>1 DEF ApiInv, InFlight, Known
  <2> QED BY <2>2, <2>3
<1>13. LateOK'
  <2> SUFFICES ASSUME NEW c \in late PROVE LateInv(c)' BY <1>2 DEF LateOK
  <2>1. LateInv(c) /\ c.tok \in Tokens BY CommandShape DEF IInv, LateOK, ProcessTypes
  <2>2. PICK u \in Tokens : u = c.tok BY <2>1
  <2>3. CASE c.script # "ENQUEUE" BY <1>7, <2>1, <2>3 DEF LateInv
  <2>4. CASE c.script = "ENQUEUE"
    <3>1. u # t BY <1>1, <2>2, <2>4
    <3>2. eventIds'[u] = eventIds[u] /\ (Finished(u)' <=> Finished(u)) BY <1>3, <1>10, <3>1
    <3> QED BY <1>2, <2>1, <2>2, <2>4, <3>2 DEF LateInv, Known
  <2> QED BY <2>3, <2>4
<1>14. WorkerInv' BY <1>2, <1>7 DEF IInv, WorkerInv, Holding, HoldInv, Over
<1> QED BY <1>2, <1>4, <1>5, <1>6, <1>7, <1>8, <1>9, <1>12, <1>13, <1>14 DEF IInv, Stutters

\* At first all lists and logs are empty.
LEMMA InitIInv == Init => IInv
<1> SUFFICES ASSUME Init PROVE IInv OBVIOUS
<1>1. \A t \in Tokens : /\ queue[t] = <<>> /\ accepted[t] = <<>> /\ popped[t] = 0
                        /\ committed[t] = <<>> /\ published[t] = <<>> /\ bodies[t] = {}
                        /\ eventIds[t] = {} /\ receipts[t] = {} /\ retries[t] = 0
                        /\ api[t] = [pc |-> "new", n |-> 0, ev |-> NoEvent, last |-> "none"]
  BY DEF Init
<1>2. RedisTypes
  <2>1. /\ queue \in [Tokens -> Seq(Entry)] /\ accepted \in [Tokens -> Seq(1..MaxEvents)]
    BY EmptySeq DEF Init
  <2> QED BY <2>1, ConstantsAssumption DEF Init, RedisTypes
<1>3. ArchiveTypes
  <2>1. committed \in [Tokens -> Seq(Nat)] /\ published \in [Tokens -> Seq(Nat)]
    BY EmptySeq DEF Init
  <2> QED BY <2>1 DEF Init, ArchiveTypes, RecordStates
<1>4. ProcessTypes
  <2>1. [pc |-> "new", n |-> 0, ev |-> NoEvent, last |-> "none"] \in ApiState
    BY ConstantsAssumption DEF ApiState
  <2>2. api \in [Tokens -> ApiState] BY <2>1 DEF Init
  <2>3. faults \in 0..MaxFaults BY ConstantsAssumption DEF Init
  <2>4. worker \in WorkerState BY WorkerPlaces DEF Init
  <2> QED BY <2>2, <2>3, <2>4 DEF Init, ProcessTypes
<1>5. RedisInv
  <2>1. StoredEvents = {} /\ StoredBodies = {}
    <3>1. \A t \in Tokens : 1..Len(queue[t]) = {} BY <1>1
    <3> QED BY <1>1, <3>1 DEF StoredEvents, StoredBodies
  <2>2. Cardinality({}) = 0 /\ IsFiniteSet({}) BY FS_EmptySet
  <2>3. BytesAreAccounted
    <3>1. EventBytes * 0 = 0 /\ BodyBytes * 0 = 0 BY ConstantsAssumption
    <3>2. Cardinality(StoredEvents) = 0 /\ Cardinality(StoredBodies) = 0 BY <2>1, <2>2
    <3> QED BY <3>1, <3>2 DEF BytesAreAccounted, Init
  <2>4. WithinLimit BY ConstantsAssumption DEF Init, WithinLimit
  <2>5. NoStrandedEvents /\ NoPayloadlessRetry
    BY <1>1 DEF Init, NoStrandedEvents, NoPayloadlessRetry
  <2>6. BodiesOutliveTheirEvents BY <1>1 DEF BodiesOutliveTheirEvents
  <2> QED BY <2>1, <2>2, <2>3, <2>4, <2>5, <2>6 DEF RedisInv
<1>6. LogsOK
  <2> SUFFICES ASSUME NEW t \in Tokens PROVE LogInv(t) BY DEF LogsOK
  <2>1. Len(queue[t]) = 0 /\ Len(accepted[t]) = 0 /\ popped[t] = 0 BY <1>1
  <2> QED BY <1>1, <2>1 DEF LogInv
<1>7. ArchivesOK
  <2> SUFFICES ASSUME NEW t \in Tokens PROVE ArchiveInv(t) BY DEF ArchivesOK
  <2>1. Len(queue[t]) = 0 /\ Len(accepted[t]) = 0 /\ Len(committed[t]) = 0 /\ popped[t] = 0
    BY <1>1
  <2>2. Archived[t] = {}
    <3>1. committed[t] \in Seq(Nat) /\ published[t] \in Seq(Nat) BY <1>3 DEF ArchiveTypes
    <3>2. Range(<<>>) = {} BY DEF Range
    <3> QED BY <1>1, <3>2, ArchivedIs
  <2>3. 1..popped[t] = {} BY <2>1
  <2>4. HeadInv(t) BY <1>1 DEF HeadInv
  <2> QED BY <1>1, <2>1, <2>2, <2>3, <2>4 DEF ArchiveInv
<1>8. ApiOK BY <1>1 DEF ApiOK, ApiInv, InFlight, Ends
<1>9. LateOK BY DEF LateOK, Init
<1>10. WorkerInv BY DEF WorkerInv, Holding, Init
<1> QED BY <1>2, <1>3, <1>4, <1>5, <1>6, <1>7, <1>8, <1>9, <1>10 DEF IInv

\* A step that changes nothing.
LEMMA StutterStep ==
    ASSUME IInv, UNCHANGED vars
    PROVE  IInv' /\ Stutters
<1>1. /\ UNCHANGED <<redisVars, logVars>> /\ UNCHANGED archiveVars
      /\ UNCHANGED <<admission, archiveVars, api, operators, envVars>>
      /\ faults' = faults /\ late' = late /\ worker' = worker /\ api' = api
  BY DEF vars
<1>2. RedisTypes' /\ RedisInv' /\ IndexOnly BY <1>1, RedisIdle DEF IInv
<1>3. ProcessTypes' BY <1>1 DEF IInv, ProcessTypes, envVars
<1>4. \A t \in Tokens : Grows(t) /\ (api'[t] = api[t] \/ ApiInv(t)')
  BY <1>1, SameCalls DEF IInv
<1>5. IInv' /\ Archived' = Archived BY <1>1, <1>2, <1>3, <1>4, QuietStep
<1> QED BY <1>2, <1>5 DEF Stutters, IndexOnly

\* Every step keeps the invariant and is a step of the request log.
LEMMA StepKeeps == IInv /\ [Next]_vars => IInv' /\ LogStep
<1> SUFFICES ASSUME IInv, [Next]_vars PROVE IInv' /\ LogStep OBVIOUS
<1>1. CASE UNCHANGED vars BY <1>1, StutterStep DEF LogStep
<1>2. CASE \/ Heartbeat \/ AdmissionExpires \/ DiskFills \/ DiskFreed
           \/ \E t \in Tokens : BackoffElapses(t) \/ RetryCheck(t) \/ Retry(t) \/ Repair(t)
  BY <1>2, SurroundingSteps DEF LogStep
<1>3. CASE Start \/ ReadHead \/ Decode \/ RefuseHistory \/ \E t \in Tokens : PickToken(t)
  BY <1>3, WorkerOnlySteps DEF LogStep
<1>4. CASE Clean \/ TransientFailure \/ AcknowledgeTimeout \/ Failed \/ Crash
  BY <1>4, WorkerQuietSteps DEF LogStep
<1>5. CASE ApplyEvent \/ PublishHistory \/ ForgetEvent BY <1>5, ArchiveSteps
<1>6. CASE Acknowledge BY <1>6, AcknowledgeStep
<1>7. CASE \E c \in late : LateCommand(c) BY <1>7, LateSteps
<1>8. CASE \E t \in Tokens : ApiStep(t)
  <2>1. PICK t \in Tokens : ApiStep(t) BY <1>8
  <2>2. CASE Begin(t) \/ \E op \in Ops : Record(t, op) BY <2>2, CallSteps DEF LogStep
  <2>3. CASE EnqueueTimeout(t) \/ RetryEnqueue(t) \/ GiveUp(t)
    BY <2>3, UnconfirmedSteps DEF LogStep
  <2>4. CASE EnqueueCall(t) BY <2>4, EnqueueStep
  <2>5. CASE ExpireEventIds(t) BY <2>5, ExpireStep DEF LogStep
  <2> QED BY <2>1, <2>2, <2>3, <2>4, <2>5 DEF ApiStep
<1> QED BY <1>1, <1>2, <1>3, <1>4, <1>5, <1>6, <1>7, <1>8 DEF Next, WorkerStep

\* The invariant holds for ever.
LEMMA Invariance == Safety => []IInv
BY InitIInv, StepKeeps, PTL DEF Safety

-----------------------------------------------------------------------------
(***************************************************************************)
(* The theorems.                                                           *)
(***************************************************************************)

\* After every step, lost reply and late command what the scripts of
\* archive_queue.py:18-97 keep in Redis fits together: no pending event is out of
\* reach, the counter is exact and within its limit, no body is missing, and no
\* failure is booked on an empty list.
THEOREM OutboxCorrect == Safety => []OutboxIsConsistent
<1>1. IInv => OutboxIsConsistent BY TypeParts DEF IInv, RedisInv, OutboxIsConsistent
<1> QED BY Invariance, <1>1, PTL

\* The worker (archive_worker.py:45-70) commits every event at most once and in the
\* order of acceptance, and history only when its record is finished.
THEOREM ArchiveCorrect == Safety => []ArchiveIsOrdered
<1>1. IInv => ArchiveIsOrdered
  BY DEF IInv, ArchivesOK, ArchiveInv, Over, ArchiveIsOrdered, CommittedOnceInOrder,
         HistoryAfterArchive
<1> QED BY Invariance, <1>1, PTL

\* A finished record (training_archive.py, TERMINAL_STATES) never changes again.
THEOREM FinishedRecordsStay == Safety => TerminalIsFinal
<1>1. IInv /\ [Next]_vars =>
        [\A t \in Tokens : rec[t] \in TERMINAL_STATES => rec'[t] = rec[t]]_vars
  <2> SUFFICES ASSUME IInv, Next, NEW t \in Tokens, rec[t] \in TERMINAL_STATES
               PROVE  rec'[t] = rec[t]
    OBVIOUS
  <2>1. CASE ApplyEvent
    <3>1. worker.pc = "apply" /\ worker.ent.op # "history" BY <2>1 DEF ApplyEvent
    <3>2. PICK u \in Tokens, e \in Entry : u = worker.tok /\ e = worker.ent
      BY <3>1, WorkerShape DEF IInv, ProcessTypes, Holding
    <3>3. rec' = rec \/ rec' = [rec EXCEPT ![u] = Merged(rec[u], e.op)]
      BY <2>1, <3>2 DEF ApplyEvent, Commit
    <3>4. CASE rec' = rec BY <3>4
    <3>5. CASE rec' = [rec EXCEPT ![u] = Merged(rec[u], e.op)]
      <4>1. rec \in [Tokens -> RecordStates] BY DEF IInv, ArchiveTypes
      <4>2. CASE u # t BY <3>5, <4>1, <4>2
      <4>3. CASE u = t
        <5>1. e.op \in Ops \ {"history"} BY <3>1, <3>2 DEF Entry
        <5>2. rec[t] \in RecordStates BY <4>1
        <5>3. Merged(rec[t], e.op) = rec[t] BY <5>1, <5>2, MergedFacts
        <5> QED BY <3>5, <4>1, <4>3, <5>3
      <4> QED BY <4>2, <4>3
    <3> QED BY <3>3, <3>4, <3>5
  <2>2. CASE Start \/ ReadHead \/ Decode \/ RefuseHistory \/ \E u \in Tokens : PickToken(u)
    BY <2>2 DEF Start, ReadHead, Decode, RefuseHistory, PickToken, WorkerOnly, archiveVars
  <2>3. CASE \/ Clean \/ PublishHistory \/ Acknowledge \/ ForgetEvent \/ Failed
             \/ TransientFailure \/ AcknowledgeTimeout \/ Crash
    BY <2>3 DEF Clean, PublishHistory, Acknowledge, ForgetEvent, Failed, TransientFailure,
                AcknowledgeTimeout, Crash, archiveVars
  <2>4. CASE \/ Heartbeat \/ AdmissionExpires \/ DiskFills \/ DiskFreed
             \/ \E c \in late : LateCommand(c)
    BY <2>4 DEF Heartbeat, AdmissionExpires, DiskFills, DiskFreed, LateCommand, archiveVars
  <2>5. CASE \E u \in Tokens : BackoffElapses(u) \/ RetryCheck(u) \/ Retry(u) \/ Repair(u)
    BY <2>5 DEF BackoffElapses, RetryCheck, Retry, Repair, archiveVars
  <2>6. CASE \E u \in Tokens : ApiStep(u)
    BY <2>6 DEF ApiStep, Begin, Record, EnqueueCall, EnqueueTimeout, RetryEnqueue, GiveUp,
                ExpireEventIds, archiveVars
  <2> QED BY <2>1, <2>2, <2>3, <2>4, <2>5, <2>6 DEF Next, WorkerStep
<1> QED BY Invariance, <1>1, PTL DEF Safety, TerminalIsFinal

\* The outbox, its worker and its receipts implement an in-order log: an id is
\* accepted once, events take effect in the order of acceptance, and leave the
\* outbox only after taking effect (RequestLog).
THEOREM OutboxImplementsLog == Safety => ImplementsRequestLog
<1>1. Init => Log!Init
  <2> SUFFICES ASSUME Init PROVE Log!Init OBVIOUS
  <2>1. Range(<<>>) = {} BY DEF Range
  <2>2. Archived = [t \in Tokens |-> {}] BY <2>1 DEF Init, Archived
  <2> QED BY <2>2 DEF Init, Log!Init
<1>2. LogStep => [Log!Next]_(Log!vars) BY DEF LogStep, Stutters, Log!vars
<1>3. IInv /\ [Next]_vars => [Log!Next]_(Log!vars) BY StepKeeps, <1>2
<1> QED BY Invariance, <1>1, <1>3, PTL DEF Safety, ImplementsRequestLog, Log!Spec
=============================================================================
