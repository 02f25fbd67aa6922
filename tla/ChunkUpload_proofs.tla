-------------------------- MODULE ChunkUpload_proofs -------------------------
(***************************************************************************)
(* Uploads in chunks for any number of drawers, uploads and requests, any  *)
(* size of file and of chunk and any number of restarts: the destination   *)
(* is always whole, a success is true, a failed upload takes its link      *)
(* back, and no part is forgotten that could have been removed.            *)
(***************************************************************************)
EXTENDS ChunkUpload, SequenceTheorems, TLAPS

\* What a part file may hold: the beginning of the file, without a hole.
Prefixes == UNION {[1 .. n -> {"data"}] : n \in 0 .. FileSize}
WholeFile == [k \in 1 .. FileSize |-> "data"]

\* A part has no hole, and this run of the agent knows it or has inherited it or
\* has failed to remove it.
PartOK(u) ==
    /\ part[u] \in Prefixes \cup {None}
    /\ part[u] # None => u \in active \cup orphans

\* The lock of an upload has one holder, whose part is whole.
LockOK(r) ==
    req[r].at \in Holding =>
       /\ part[req[r].u] = WholeFile
       /\ \A q \in Requests \ {r} : ~ (req[q].u = req[r].u /\ req[q].at \in Holding)

\* The last chunk is answered only when the file has been placed.
AnswerOK(r) ==
    /\ req[r].at = "free" <=> req[r].u = None
    /\ req[r].at = "stored" => req[r].u \in completed
    /\ req[r].at = "ok" /\ IsLast(req[r].c) => req[r].u \in finalized

\* A stop leaves a mark until nothing of the upload can come any more.
StopOK(u) ==
    /\ stop[u] \in {"marked", "done"} => u \in cancelled \cup completed
    /\ stop[u] = "done" => u \notin active

\* What an invocation waits for is its own request.
WaitOK(u) ==
    /\ live[u] # None => req[live[u]].u = u /\ req[live[u]].c = chunk[u]
    /\ at[u] = "succeeded" => u \in finalized

DestOK == dst # None /\ dst.by # None => dst.cells = WholeFile

\* The inductive invariant.
IInv ==
    /\ TypeOK
    /\ \A u \in Uploads : PartOK(u) /\ StopOK(u) /\ WaitOK(u)
    /\ \A r \in Requests : LockOK(r) /\ AnswerOK(r)
    /\ completed \subseteq finalized
    /\ DestOK
    /\ FailedIsUndone

-----------------------------------------------------------------------------
(* Sizes. *)

\* The chunks cover the file: a chunk starts inside it and ends inside it.
LEMMA ChunkFacts ==
    /\ ChunkCount \in Nat /\ ChunkCount > 0 /\ 0 \in Chunks
    /\ \A c \in Chunks : /\ c \in Nat /\ Offset(c) \in Nat /\ ChunkEnd(c) \in Nat
                         /\ Offset(c) < ChunkEnd(c) /\ ChunkEnd(c) <= FileSize
                         /\ ~ IsLast(c) => c + 1 \in Chunks
<1>1. PICK C \in Nat, F \in Nat, q \in {ChunkCount} : C = ChunkSize /\ F = FileSize /\ q = ChunkCount
  BY SizeAssumption
<1>2. C > 0 /\ F > 0 BY <1>1, SizeAssumption
<1>3. q = (F + C - 1) \div C BY <1>1 DEF ChunkCount
<1>4. q \in Int /\ C * q <= F + C - 1 /\ F + C - 1 < C * (q + 1) BY <1>2, <1>3
<1>5. q > 0
  <2> SUFFICES ASSUME q <= 0 PROVE FALSE BY <1>4
  <2>1. C * (q + 1) <= C BY <1>2, <1>4
  <2> QED BY <1>2, <1>4, <2>1
<1>6. ASSUME NEW c \in 0 .. q - 1
      PROVE  c * C \in Nat /\ c * C < F
  <2>1. c \in Nat /\ c + 1 <= q BY <1>4
  <2>2. c * C \in Nat BY <2>1
  <2>3. C * (c + 1) <= C * q BY <1>2, <1>4, <2>1
  <2>4. C * (c + 1) = c * C + C BY <2>1
  <2>5. C * q \in Int BY <1>4
  <2> QED BY <1>2, <1>4, <2>2, <2>3, <2>4, <2>5
<1>7. ASSUME NEW c \in Chunks
      PROVE  /\ c \in Nat /\ Offset(c) \in Nat /\ ChunkEnd(c) \in Nat
             /\ Offset(c) < ChunkEnd(c) /\ ChunkEnd(c) <= FileSize
             /\ ~ IsLast(c) => c + 1 \in Chunks
  <2>1. PICK o : o = c * C OBVIOUS
  <2>2. c \in 0 .. q - 1 /\ o = Offset(c) BY <1>1, <2>1 DEF Chunks, Offset
  <2>3. o \in Nat /\ o < F BY <1>6, <2>1, <2>2
  <2>4. Min({o + C, F}) \in {o + C, F} /\ Min({o + C, F}) <= F /\ Min({o + C, F}) <= o + C
    <3>1. \E x \in {o + C, F} : \A y \in {o + C, F} : x <= y BY <2>3
    <3> QED BY <2>3, <3>1 DEF Min
  <2>5. ChunkEnd(c) = Min({o + C, F}) BY <1>1, <2>2 DEF ChunkEnd
  <2>6. ~ IsLast(c) => c + 1 \in Chunks BY <1>1, <1>4, <2>2 DEF IsLast, Chunks
  <2> QED BY <1>1, <1>2, <2>2, <2>3, <2>4, <2>5, <2>6
<1> QED BY <1>1, <1>4, <1>5, <1>7 DEF Chunks

\* A part without a hole is a sequence.
LEMMA PrefixFacts ==
    /\ <<>> \in Prefixes /\ WholeFile \in Prefixes /\ Prefixes \subseteq Files
    /\ \A s \in Prefixes : Len(s) \in 0 .. FileSize /\ s \in [1 .. Len(s) -> {"data"}]
    /\ \A s \in Prefixes : Len(s) = FileSize => s = WholeFile
<1>1. FileSize \in Nat BY SizeAssumption
<1>2. ASSUME NEW n \in 0 .. FileSize, NEW s \in [1 .. n -> {"data"}]
      PROVE  Len(s) = n /\ s \in Files
  <2>1. n \in Nat /\ s \in Seq({"data"}) BY <1>1, SeqDef
  <2>2. Len(s) = n BY <2>1, LenProperties
  <2>3. s \in [1 .. n -> Cells] BY DEF Cells
  <2> QED BY <2>2, <2>3 DEF Files
<1>3. <<>> \in [1 .. 0 -> {"data"}] /\ 0 \in 0 .. FileSize
  BY <1>1
<1>4. WholeFile \in [1 .. FileSize -> {"data"}] /\ FileSize \in 0 .. FileSize
  BY <1>1 DEF WholeFile
<1>5. ASSUME NEW s \in [1 .. FileSize -> {"data"}] PROVE s = WholeFile
  BY DEF WholeFile
<1>6. ASSUME NEW s \in Prefixes
      PROVE  Len(s) \in 0 .. FileSize /\ s \in [1 .. Len(s) -> {"data"}] /\ s \in Files
  <2>1. PICK n \in 0 .. FileSize : s \in [1 .. n -> {"data"}] BY DEF Prefixes
  <2> QED BY <1>2, <2>1
<1>7. ASSUME NEW s \in Prefixes, Len(s) = FileSize PROVE s = WholeFile
  BY <1>5, <1>6, <1>7
<1> QED BY <1>3, <1>4, <1>6, <1>7 DEF Prefixes

\* A chunk that starts no later than the end of the part leaves no hole.
LEMMA WritesNoHole ==
    ASSUME NEW s \in Prefixes, NEW c \in Chunks, OffsetFits(s, c),
           NEW n \in 0 .. ChunkEnd(c) - Offset(c)
    PROVE  WriteAt(Truncated(s, c), Offset(c), n) \in Prefixes
<1>1. FileSize \in Nat BY SizeAssumption
<1>2. PICK o \in Nat : o = Offset(c) BY ChunkFacts
<1>3. o + n <= FileSize /\ n \in Nat
  <2>1. ChunkEnd(c) \in Nat /\ ChunkEnd(c) <= FileSize /\ o < ChunkEnd(c) BY <1>2, ChunkFacts
  <2> QED BY <1>1, <1>2, <2>1
<1>4. PICK t : t = Truncated(s, c) OBVIOUS
<1>5. t \in [1 .. Len(t) -> {"data"}] /\ Len(t) \in 0 .. FileSize /\ o <= Len(t)
  <2>1. Len(s) \in 0 .. FileSize /\ s \in [1 .. Len(s) -> {"data"}] /\ o <= Len(s)
    BY <1>2, PrefixFacts DEF OffsetFits
  <2>2. CASE t = s BY <2>1, <2>2
  <2>3. CASE t = SubSeq(s, 1, o) /\ o < Len(s)
    <3>1. s \in Seq({"data"}) BY <1>1, <2>1, SeqDef
    <3>2. t \in Seq({"data"}) /\ Len(t) = o
      <4>1. \A i \in 1 .. o : s[i] \in {"data"} BY <1>1, <2>1, <2>3
      <4> QED BY <2>3, <3>1, <4>1, SubSeqProperties
    <3>3. t \in [1 .. Len(t) -> {"data"}] BY <3>2, LenProperties
    <3>4. Len(t) \in 0 .. FileSize /\ o <= Len(t)
      <4>1. PICK x : x = Len(s) OBVIOUS
      <4>2. x \in 0 .. FileSize /\ o < x BY <2>1, <2>3, <4>1
      <4> QED BY <1>1, <3>2, <4>2
    <3> QED BY <3>3, <3>4
  <2> QED BY <1>2, <1>4, <2>2, <2>3 DEF Truncated
<1>6. PICK l \in 0 .. FileSize : l = Len(t) BY <1>5
<1>7. Max({l, o + n}) \in {l, o + n} /\ l <= Max({l, o + n})
  <2>1. \E x \in {l, o + n} : \A y \in {l, o + n} : x >= y BY <1>1, <1>3, <1>6
  <2> QED BY <1>1, <1>3, <1>6, <2>1 DEF Max
<1>8. PICK m \in 0 .. FileSize : m = Max({l, o + n}) BY <1>1, <1>3, <1>6, <1>7
<1>9. m = l \/ m = o + n BY <1>7, <1>8
<1>10. \A k \in 1 .. m : k \in o + 1 .. o + n \/ k <= l
  <2>1. o <= l /\ l \in Nat /\ o \in Nat /\ n \in Nat BY <1>1, <1>3, <1>5, <1>6
  <2>2. CASE m = l BY <2>1, <2>2
  <2>3. CASE m = o + n BY <2>1, <2>3
  <2> QED BY <1>9, <2>2, <2>3
<1>11. WriteAt(t, o, n) = [k \in 1 .. m |->
          IF k \in o + 1 .. o + n THEN "data" ELSE IF k <= l THEN t[k] ELSE "hole"]
  BY <1>6, <1>8 DEF WriteAt
<1>12. \A k \in 1 .. m : k <= l => t[k] = "data" BY <1>1, <1>5, <1>6
<1>13. WriteAt(t, o, n) \in [1 .. m -> {"data"}] BY <1>10, <1>11, <1>12
<1> QED BY <1>2, <1>4, <1>13 DEF Prefixes
-----------------------------------------------------------------------------
(* Requests. *)

RequestType == [u : Uploads \cup {None}, c : Chunks, at : Stages]

\* Request r has got as far as "to", and the others are where they were.
GetsTo(r, to) ==
    /\ req' \in [Requests -> RequestType]
    /\ req'[r].u = req[r].u /\ req'[r].c = req[r].c /\ req'[r].at = to
    /\ \A q \in Requests \ {r} : req'[q] = req[q]

\* Goes(r, to) moves that one request and keeps what it carries.
LEMMA GoesFar ==
    ASSUME TypeOK, NEW r \in Requests, NEW to \in Stages, Goes(r, to)
    PROVE  GetsTo(r, to)
<1>1. req \in [Requests -> RequestType] BY DEF TypeOK, RequestType
<1>2. req' = [req EXCEPT ![r] = [req[r] EXCEPT !.at = to]] BY DEF Goes
<1>3. [req[r] EXCEPT !.at = to] \in RequestType BY <1>1 DEF RequestType
<1>4. /\ [req[r] EXCEPT !.at = to].u = req[r].u
      /\ [req[r] EXCEPT !.at = to].c = req[r].c
      /\ [req[r] EXCEPT !.at = to].at = to
  BY <1>1 DEF RequestType
<1>5. PICK x \in RequestType : x = [req[r] EXCEPT !.at = to] BY <1>3
<1>6. req' = [req EXCEPT ![r] = x] BY <1>2, <1>5
<1>7. x.u = req[r].u /\ x.c = req[r].c /\ x.at = to BY <1>4, <1>5
<1> QED BY <1>1, <1>6, <1>7 DEF GetsTo

\* A request that does not exist.
LEMMA NoRequestFacts ==
    NoRequest \in RequestType /\ NoRequest.u = None /\ NoRequest.at = "free"
BY ChunkFacts DEF NoRequest, RequestType, Stages

\* A file in place stays accounted for while its upload keeps its link.
LEMMA StaysUndone ==
    ASSUME FailedIsUndone, UNCHANGED dst,
           finalized \subseteq finalized', strays \subseteq strays',
           \A q \in Requests : req[q].at = "linked" =>
                                 req'[q].u = req[q].u /\ req'[q].at = "linked"
    PROVE  FailedIsUndone'
BY DEF FailedIsUndone

\* What a step of the agent that touches no file does to request q: nothing, or it
\* answers it, or the request is lost while nobody waits for it.
Answers(q) ==
    \/ req'[q] = req[q] /\ (req[q].at = "stored" => req[q].u \in completed')
    \/ req'[q] = NoRequest /\ ~ Awaited(q) /\ req[q].at # "linked"
    \/ /\ req[q].at \notin {"free", "linked"}
       /\ req'[q].u = req[q].u /\ req'[q].c = req[q].c
       /\ req'[q].at \in Replies \cup {"stored"}
       /\ req'[q].at = "ok" /\ IsLast(req[q].c) => req[q].u \in finalized
       /\ req'[q].at = "stored" => req[q].u \in completed'

\* The agent answers a request, notes or forgets something; the files stay.
LEMMA FilesRest ==
    ASSUME IInv,
           UNCHANGED <<diskVars, active, orphans, overwrite, pageVars, restarts>>,
           req' \in [Requests -> RequestType],
           stop' \in [Uploads -> {"none", "asked", "marked", "done"}],
           completed' \subseteq completed, cancelled' \subseteq Uploads,
           \A q \in Requests : Answers(q),
           \A u \in Uploads : StopOK(u)'
    PROVE  IInv'
<1>0. /\ TypeOK /\ None \notin Uploads /\ completed \subseteq finalized /\ DestOK /\ FailedIsUndone
      /\ \A u \in Uploads : PartOK(u) /\ WaitOK(u)
      /\ \A r \in Requests : LockOK(r) /\ AnswerOK(r)
  BY NoneAssumption DEF IInv
<1>1. UNCHANGED <<part, dst, finalized, strays, at, page, chunk, retries, live,
                  upLoading, canceling, controller, activeChunkUpload>>
  BY DEF diskVars, pageVars, invocationVars, drawerVars
<1>2. TypeOK' BY <1>0, <1>1 DEF TypeOK, RequestType
<1>3. ASSUME NEW u \in Uploads PROVE PartOK(u)' BY <1>0, <1>1 DEF PartOK
<1>4. ASSUME NEW u \in Uploads PROVE WaitOK(u)'
  <2>1. live[u] \in Requests \cup {None} BY <1>0 DEF TypeOK
  <2>2. ASSUME live[u] # None PROVE req'[live[u]].u = u /\ req'[live[u]].c = chunk[u]
    <3>1. PICK q \in Requests : q = live[u] BY <2>1, <2>2
    <3>2. req[q].u = u /\ req[q].c = chunk[u] BY <1>0, <2>2, <3>1 DEF WaitOK
    <3>3. Awaited(q) BY <3>1 DEF Awaited
    <3> QED BY <3>1, <3>2, <3>3 DEF Answers
  <2> QED BY <1>0, <1>1, <2>2 DEF WaitOK
<1>5. ASSUME NEW r \in Requests PROVE LockOK(r)'
  <2> SUFFICES ASSUME req'[r].at \in Holding
               PROVE  /\ part[req'[r].u] = WholeFile
                      /\ \A q \in Requests \ {r} : ~ (req'[q].u = req'[r].u /\ req'[q].at \in Holding)
    BY <1>1 DEF LockOK
  <2>1. \A q \in Requests : req'[q].at \in Holding => req'[q] = req[q]
    BY NoRequestFacts DEF Answers, Replies, Holding
  <2> QED BY <1>0, <2>1 DEF LockOK
<1>6. ASSUME NEW r \in Requests PROVE AnswerOK(r)'
  <2>1. CASE req'[r] = req[r] /\ (req[r].at = "stored" => req[r].u \in completed')
    BY <1>0, <1>1, <2>1 DEF AnswerOK
  <2>2. CASE req'[r] = NoRequest BY <2>2, NoRequestFacts DEF AnswerOK
  <2>3. CASE /\ req[r].at \notin {"free", "linked"}
             /\ req'[r].u = req[r].u /\ req'[r].c = req[r].c
             /\ req'[r].at \in Replies \cup {"stored"}
             /\ req'[r].at = "ok" /\ IsLast(req[r].c) => req[r].u \in finalized
             /\ req'[r].at = "stored" => req[r].u \in completed'
    BY <1>0, <1>1, <2>3 DEF AnswerOK, Replies
  <2> QED BY <2>1, <2>2, <2>3 DEF Answers
<1>7. completed' \subseteq finalized' /\ DestOK' BY <1>0, <1>1 DEF DestOK
<1>8. FailedIsUndone'
  <2>1. \A q \in Requests : req[q].at = "linked" => req'[q] = req[q] BY DEF Answers
  <2> QED BY <1>0, <1>1, <2>1, StaysUndone
<1> QED BY <1>2, <1>3, <1>4, <1>5, <1>6, <1>7, <1>8 DEF IInv

\* Whether its part could be removed or not, a discarded upload is forgotten and no
\* other is touched.
LEMMA Discarded ==
    ASSUME TypeOK, NEW u \in Uploads, PartOK(u),
           Discard(u) \/ (active' = active \ {u} /\ PartRemoved(u))
    PROVE  /\ part' \in [Uploads -> Files \cup {None}]
           /\ active' = active \ {u} /\ orphans' \subseteq Uploads
           /\ part'[u] = None \/ (part'[u] = part[u] /\ u \in orphans')
           /\ \A v \in Uploads \ {u} : part'[v] = part[v] /\ (v \in orphans <=> v \in orphans')
<1>1. CASE active' = active \ {u} /\ PartRemoved(u) BY <1>1 DEF TypeOK, PartRemoved
<1>2. CASE /\ active' = active \ {u}
           /\ part[u] # None /\ UNCHANGED part /\ orphans' = orphans \cup {u}
  BY <1>2 DEF TypeOK
<1> QED BY <1>1, <1>2 DEF Discard

\* The part of an upload is removed, or not, while nobody holds its lock, or by the
\* one who does.
LEMMA PartDiscarded ==
    ASSUME IInv, NEW u \in Uploads,
           Discard(u) \/ (active' = active \ {u} /\ PartRemoved(u)),
           dst' \in {dst, None}, strays' \subseteq Uploads, FailedIsUndone',
           UNCHANGED <<finalized, completed, cancelled, overwrite, pageVars, restarts>>,
           req' = req \/ \E r \in Requests, to \in {"refused", "failed"} :
                            req[r].at # "free" /\ GetsTo(r, to),
           \A q \in Requests : req'[q].u = u => req'[q].at \notin Holding,
           stop' \in [Uploads -> {"none", "asked", "marked", "done"}],
           \A v \in Uploads : stop'[v] = stop[v] \/ (v = u /\ stop[v] = "marked")
    PROVE  IInv'
<1>0. /\ TypeOK /\ None \notin Uploads /\ completed \subseteq finalized /\ DestOK /\ FailedIsUndone
      /\ \A v \in Uploads : PartOK(v) /\ StopOK(v) /\ WaitOK(v)
      /\ \A r \in Requests : LockOK(r) /\ AnswerOK(r)
  BY NoneAssumption DEF IInv
<1>1. UNCHANGED <<at, page, chunk, retries, live, upLoading, canceling, controller,
                  activeChunkUpload>>
  BY DEF pageVars, invocationVars, drawerVars
<1>2. /\ part' \in [Uploads -> Files \cup {None}]
      /\ part'[u] = None \/ (part'[u] = part[u] /\ u \in orphans')
      /\ \A v \in Uploads \ {u} : part'[v] = part[v] /\ (v \in orphans <=> v \in orphans')
  BY <1>0, Discarded
<1>3. active' = active \ {u} /\ orphans' \subseteq Uploads BY <1>0, Discarded
<1>4. /\ req' \in [Requests -> RequestType]
      /\ \A q \in Requests :
            \/ req'[q] = req[q]
            \/ /\ req'[q].u = req[q].u /\ req'[q].c = req[q].c
               /\ req[q].at # "free" /\ req'[q].at \in {"refused", "failed"}
  <2>1. CASE req' = req BY <1>0, <2>1 DEF TypeOK, RequestType
  <2>2. CASE \E r \in Requests, to \in {"refused", "failed"} :
                req[r].at # "free" /\ GetsTo(r, to)
    BY <2>2 DEF GetsTo
  <2> QED BY <2>1, <2>2
<1>5. TypeOK' BY <1>0, <1>1, <1>2, <1>3, <1>4 DEF TypeOK, RequestType
<1>6. ASSUME NEW v \in Uploads PROVE PartOK(v)' BY <1>0, <1>2, <1>3 DEF PartOK
<1>7. ASSUME NEW v \in Uploads PROVE StopOK(v)' BY <1>0, <1>3 DEF StopOK
<1>8. ASSUME NEW v \in Uploads PROVE WaitOK(v)'
  <2>1. live[v] \in Requests \cup {None} BY <1>0 DEF TypeOK
  <2> QED BY <1>0, <1>1, <1>4, <2>1 DEF WaitOK
<1>9. ASSUME NEW r \in Requests PROVE LockOK(r)'
  <2> SUFFICES ASSUME req'[r].at \in Holding
               PROVE  /\ part'[req'[r].u] = WholeFile
                      /\ \A q \in Requests \ {r} : ~ (req'[q].u = req'[r].u /\ req'[q].at \in Holding)
    BY DEF LockOK
  <2>1. \A q \in Requests : req'[q].at \in Holding => req'[q] = req[q] BY <1>4 DEF Holding
  <2>2. part[req[r].u] = WholeFile /\ req[r].u # u /\ req[r].at \in Holding BY <1>0, <2>1 DEF LockOK
  <2>3. req[r].u \in Uploads
    <3>1. req[r].u \in Uploads \cup {None} BY <1>0 DEF TypeOK
    <3> QED BY <1>0, <2>2, <3>1 DEF AnswerOK, Holding
  <2> QED BY <1>0, <1>2, <2>1, <2>2, <2>3 DEF LockOK
<1>10. ASSUME NEW r \in Requests PROVE AnswerOK(r)'
  <2>1. CASE req'[r] = req[r] BY <1>0, <2>1 DEF AnswerOK
  <2>2. CASE /\ req'[r].u = req[r].u /\ req'[r].c = req[r].c
             /\ req[r].at # "free" /\ req'[r].at \in {"refused", "failed"}
    BY <1>0, <2>2 DEF AnswerOK
  <2> QED BY <1>4, <2>1, <2>2
<1>11. completed' \subseteq finalized' /\ DestOK' BY <1>0 DEF DestOK
<1> QED BY <1>5, <1>6, <1>7, <1>8, <1>9, <1>10, <1>11 DEF IInv
-----------------------------------------------------------------------------
(* UploadChunkFiles. *)

\* A request that is answered and nothing else.
LEMMA StepAnswer ==
    ASSUME IInv, NEW r \in Requests, NEW to \in Replies \cup {"stored"},
           req[r].at \notin {"free", "linked"}, Goes(r, to),
           to = "ok" /\ IsLast(req[r].c) => req[r].u \in finalized,
           to = "stored" => req[r].u \in completed,
           UNCHANGED <<stop, agentVars, pageVars, restarts>>
    PROVE  IInv'
<1>0. TypeOK /\ (\A u \in Uploads : StopOK(u)) /\ \A q \in Requests : AnswerOK(q) BY DEF IInv
<1>1. UNCHANGED <<diskVars, active, orphans, completed, cancelled, overwrite>>
  BY DEF agentVars, memoryVars
<1>2. to \in Stages BY DEF Stages, Lost
<1>3. GetsTo(r, to) BY <1>0, <1>2, GoesFar
<1>4. \A q \in Requests : Answers(q) BY <1>0, <1>1, <1>3 DEF GetsTo, Answers, AnswerOK
<1>5. \A u \in Uploads : StopOK(u)' BY <1>0, <1>1 DEF StopOK
<1>6. /\ req' \in [Requests -> RequestType] /\ completed' \subseteq completed
      /\ stop' \in [Uploads -> {"none", "asked", "marked", "done"}] /\ cancelled' \subseteq Uploads
  BY <1>0, <1>1, <1>3 DEF GetsTo, TypeOK
<1> QED BY <1>1, <1>4, <1>5, <1>6, FilesRest

\* The chunk of a cancelled upload is refused.
LEMMA StepWriteRefused ==
    ASSUME IInv, NEW r \in Requests, WriteRefused(r), UNCHANGED <<pageVars, restarts>>
    PROVE  IInv'
<1>1. PICK to \in Replies \cup {"stored"} : to = "refused" BY DEF Replies
<1>2. req[r].at = "sent" /\ Goes(r, to) /\ UNCHANGED <<stop, agentVars>>
  BY <1>1 DEF WriteRefused
<1> QED BY <1>1, <1>2, StepAnswer

\* The chunk of a completed upload is accepted unread.
LEMMA StepWriteCompleted ==
    ASSUME IInv, NEW r \in Requests, WriteCompleted(r), UNCHANGED <<pageVars, restarts>>
    PROVE  IInv'
<1>1. PICK to \in Replies \cup {"stored"} : to = IF IsLast(req[r].c) THEN "stored" ELSE "ok"
  BY DEF Replies
<1>2. /\ req[r].at = "sent" /\ Goes(r, to) /\ UNCHANGED <<stop, agentVars>>
      /\ req[r].u \in completed
  BY <1>1 DEF WriteCompleted, AlreadyCompleted
<1> QED BY <1>1, <1>2, StepAnswer

\* A finalization that is refused leaves the part.
LEMMA StepFinalizeRefused ==
    ASSUME IInv, NEW r \in Requests, FinalizeRefused(r), UNCHANGED <<pageVars, restarts>>
    PROVE  IInv'
<1>1. PICK to \in {"refused", "failed"} : Goes(r, to) BY DEF FinalizeRefused
<1>2. to \in Replies \cup {"stored"} /\ to # "ok" /\ to # "stored" BY DEF Replies
<1>3. req[r].at = "wrote" /\ UNCHANGED <<stop, agentVars>> BY DEF FinalizeRefused
<1> QED BY <1>1, <1>2, <1>3, StepAnswer

\* The destination exists: the part is of no use.
LEMMA StepWriteExists ==
    ASSUME IInv, NEW r \in Requests, WriteExists(r), UNCHANGED <<pageVars, restarts>>
    PROVE  IInv'
<1>0. TypeOK /\ (\A q \in Requests : AnswerOK(q)) /\ None \notin Uploads /\ FailedIsUndone
  BY NoneAssumption DEF IInv
<1>1. /\ req[r].at = "sent" /\ Goes(r, "refused") /\ Unlocked(req[r].u)
      /\ UNCHANGED <<stop, dst, finalized, strays, completed, cancelled, overwrite>>
  BY DEF WriteExists, Writes
<1>2. PICK u \in Uploads : u = req[r].u
  <2>1. req[r].u \in Uploads \cup {None} BY <1>0 DEF TypeOK
  <2> QED BY <1>0, <1>1, <2>1 DEF AnswerOK
<1>3. Discard(u) BY <1>2 DEF WriteExists
<1>4. GetsTo(r, "refused") BY <1>0, <1>1, GoesFar DEF Stages, Replies
<1>5. \A q \in Requests : req'[q].u = u => req'[q].at \notin Holding
  BY <1>1, <1>2, <1>4 DEF GetsTo, Unlocked, Holding
<1>6. /\ stop' \in [Uploads -> {"none", "asked", "marked", "done"}] /\ strays' \subseteq Uploads
  BY <1>0, <1>1 DEF TypeOK
<1>7. FailedIsUndone' BY <1>0, <1>1, <1>4, StaysUndone DEF GetsTo
<1> QED BY <1>1, <1>3, <1>4, <1>5, <1>6, <1>7, PartDiscarded

\* A failed finalization removes the part under its own lock.
LEMMA StepFinalizeFails ==
    ASSUME IInv, NEW r \in Requests, FinalizeFails(r), UNCHANGED <<pageVars, restarts>>
    PROVE  IInv'
<1>0. /\ TypeOK /\ None \notin Uploads /\ FailedIsUndone
      /\ \A q \in Requests : AnswerOK(q) /\ LockOK(q)
  BY NoneAssumption DEF IInv
<1>1. /\ req[r].at = "wrote"
      /\ UNCHANGED <<stop, dst, finalized, strays, completed, cancelled, overwrite>>
  BY DEF FinalizeFails
<1>2. PICK u \in Uploads : u = req[r].u
  <2>1. req[r].u \in Uploads \cup {None} BY <1>0 DEF TypeOK
  <2> QED BY <1>0, <1>1, <2>1 DEF AnswerOK
<1>3. Discard(u) BY <1>2 DEF FinalizeFails
<1>4. PICK to \in {"refused", "failed"} : Goes(r, to) BY DEF FinalizeFails
<1>5. to \in Stages BY DEF Stages, Replies
<1>6. GetsTo(r, to) BY <1>0, <1>4, <1>5, GoesFar
<1>7. \A q \in Requests : req'[q].u = u => req'[q].at \notin Holding
  BY <1>0, <1>1, <1>2, <1>6 DEF GetsTo, LockOK, Holding
<1>8. /\ stop' \in [Uploads -> {"none", "asked", "marked", "done"}] /\ strays' \subseteq Uploads
  BY <1>0, <1>1 DEF TypeOK
<1>9. FailedIsUndone' BY <1>0, <1>1, <1>6, StaysUndone DEF GetsTo
<1> QED BY <1>1, <1>3, <1>6, <1>7, <1>8, <1>9, PartDiscarded

\* A link is taken back, or stays as one that could not be.
LEMMA StepRollBack ==
    ASSUME IInv, NEW r \in Requests, RollBack(r), UNCHANGED <<pageVars, restarts>>
    PROVE  IInv'
<1>0. /\ TypeOK /\ None \notin Uploads /\ FailedIsUndone
      /\ \A q \in Requests : AnswerOK(q) /\ LockOK(q)
  BY NoneAssumption DEF IInv
<1>1. /\ req[r].at = "linked"
      /\ UNCHANGED <<stop, finalized, completed, cancelled, overwrite>>
  BY DEF RollBack
<1>2. PICK u \in Uploads : u = req[r].u
  <2>1. req[r].u \in Uploads \cup {None} BY <1>0 DEF TypeOK
  <2> QED BY <1>0, <1>1, <2>1 DEF AnswerOK
<1>3. Discard(u) /\ TakeBack(u) BY <1>2 DEF RollBack
<1>4. PICK to \in {"refused", "failed"} : Goes(r, to) BY DEF RollBack
<1>5. to \in Stages BY DEF Stages, Replies
<1>6. GetsTo(r, to) BY <1>0, <1>4, <1>5, GoesFar
<1>7. \A q \in Requests : req'[q].u = u => req'[q].at \notin Holding
  BY <1>0, <1>1, <1>2, <1>6 DEF GetsTo, LockOK, Holding
<1>8. /\ stop' \in [Uploads -> {"none", "asked", "marked", "done"}] /\ strays' \subseteq Uploads
      /\ dst' \in {dst, None}
  BY <1>0, <1>1, <1>3 DEF TypeOK, TakeBack
<1>9. FailedIsUndone'
  <2>1. CASE dst' = None BY <2>1 DEF FailedIsUndone
  <2>2. CASE UNCHANGED dst /\ strays' = strays \cup {u}
    BY <1>0, <1>1, <1>2, <1>6, <2>2 DEF GetsTo, FailedIsUndone
  <2> QED BY <1>3, <2>1, <2>2 DEF TakeBack
<1> QED BY <1>1, <1>3, <1>6, <1>7, <1>8, <1>9, PartDiscarded

\* A chunk is written, in whole, in part or not at all; the lock is taken only
\* over a whole file.
LEMMA StepWrite ==
    ASSUME IInv, NEW r \in Requests, Write(r), UNCHANGED <<pageVars, restarts>>
    PROVE  IInv'
<1>0. /\ TypeOK /\ None \notin Uploads /\ completed \subseteq finalized /\ DestOK /\ FailedIsUndone
      /\ \A v \in Uploads : PartOK(v) /\ StopOK(v) /\ WaitOK(v)
      /\ \A q \in Requests : LockOK(q) /\ AnswerOK(q)
  BY NoneAssumption DEF IInv
<1>1. /\ req[r].at = "sent" /\ Unlocked(req[r].u)
      /\ req[r].u \notin cancelled /\ req[r].u \notin completed
      /\ UNCHANGED <<stop, dst, finalized, strays, completed, cancelled, overwrite>>
  BY DEF Write, Writes, CancelSeen, AlreadyCompleted
<1>2. PICK u \in Uploads : u = req[r].u
  <2>1. req[r].u \in Uploads \cup {None} BY <1>0 DEF TypeOK
  <2> QED BY <1>0, <1>1, <2>1 DEF AnswerOK
<1>3. PICK c \in Chunks : c = req[r].c BY <1>0 DEF TypeOK
<1>4. active' = active \cup {u} /\ orphans' = orphans \ {u}
  BY <1>2 DEF Write, Registered
<1>5. PICK s \in Prefixes : s = Opened(u)
  BY <1>0, PrefixFacts DEF PartOK, Opened
<1>6. \E x \in Prefixes \cup {None}, to \in {"refused", "failed", "ok", "wrote"} :
         /\ part' = [part EXCEPT ![u] = x]
         /\ Goes(r, to)
         /\ to = "wrote" => x = WholeFile
         /\ to = "ok" => ~ IsLast(c)
  <2>1. CASE UNCHANGED part /\ \E answer \in {"refused", "failed"} : Goes(r, answer)
    <3>1. part' = [part EXCEPT ![u] = part[u]] BY <1>0, <2>1 DEF TypeOK
    <3>2. part[u] \in Prefixes \cup {None} BY <1>0 DEF PartOK
    <3> QED BY <2>1, <3>1, <3>2
  <2>2. CASE part' = [part EXCEPT ![u] = s] /\ Goes(r, "refused") BY <2>2
  <2>3. CASE /\ OffsetFits(s, c)
             /\ \E n \in 0 .. ChunkEnd(c) - Offset(c) - 1, answer \in {"refused", "failed"} :
                   /\ part' = [part EXCEPT ![u] = WriteAt(Truncated(s, c), Offset(c), n)]
                   /\ Goes(r, answer)
    <3>1. PICK n \in 0 .. ChunkEnd(c) - Offset(c) - 1, answer \in {"refused", "failed"} :
                   /\ part' = [part EXCEPT ![u] = WriteAt(Truncated(s, c), Offset(c), n)]
                   /\ Goes(r, answer)
      BY <2>3
    <3>2. n \in 0 .. ChunkEnd(c) - Offset(c) BY ChunkFacts
    <3>3. WriteAt(Truncated(s, c), Offset(c), n) \in Prefixes BY <2>3, <3>2, WritesNoHole
    <3>4. PICK x \in Prefixes : x = WriteAt(Truncated(s, c), Offset(c), n) BY <3>3
    <3> QED BY <3>1, <3>4
  <2>4. CASE /\ OffsetFits(s, c)
             /\ part' = [part EXCEPT
                           ![u] = WriteAt(Truncated(s, c), Offset(c), ChunkEnd(c) - Offset(c))]
             /\ Goes(r, IF ~ IsLast(c) THEN "ok"
                        ELSE IF Len(part'[u]) = FileSize THEN "wrote" ELSE "refused")
    <3>1. PICK n : n = ChunkEnd(c) - Offset(c) OBVIOUS
    <3>2. n \in 0 .. ChunkEnd(c) - Offset(c) BY <3>1, ChunkFacts
    <3>3. WriteAt(Truncated(s, c), Offset(c), n) \in Prefixes BY <2>4, <3>2, WritesNoHole
    <3>4. PICK x \in Prefixes : x = WriteAt(Truncated(s, c), Offset(c), n) BY <3>3
    <3>5. part' = [part EXCEPT ![u] = x] BY <2>4, <3>1, <3>4
    <3>6. part'[u] = x BY <1>0, <3>5 DEF TypeOK
    <3>7. Len(x) = FileSize => x = WholeFile BY PrefixFacts
    <3>8. CASE ~ IsLast(c)
      <4>1. Goes(r, "ok") BY <2>4, <3>8
      <4> QED BY <3>5, <3>8, <4>1
    <3>9. CASE IsLast(c) /\ Len(x) = FileSize
      <4>1. Goes(r, "wrote") BY <2>4, <3>6, <3>9
      <4> QED BY <3>5, <3>7, <3>9, <4>1
    <3>10. CASE IsLast(c) /\ Len(x) # FileSize
      <4>1. Goes(r, "refused") BY <2>4, <3>6, <3>10
      <4> QED BY <3>5, <4>1
    <3> QED BY <3>8, <3>9, <3>10
  <2> QED BY <1>2, <1>3, <1>5, <2>1, <2>2, <2>3, <2>4 DEF Write
<1>7. PICK x \in Prefixes \cup {None}, to \in {"refused", "failed", "ok", "wrote"} :
         /\ part' = [part EXCEPT ![u] = x]
         /\ Goes(r, to)
         /\ to = "wrote" => x = WholeFile
         /\ to = "ok" => ~ IsLast(c)
  BY <1>6
<1>8. /\ part' \in [Uploads -> Files \cup {None}] /\ part'[u] = x
      /\ \A v \in Uploads \ {u} : part'[v] = part[v]
  BY <1>0, <1>7, PrefixFacts DEF TypeOK
<1>9. GetsTo(r, to)
  <2>1. to \in Stages BY DEF Stages, Lost, Holding, Replies
  <2> QED BY <1>0, <1>7, <2>1, GoesFar
<1>10. UNCHANGED <<at, page, chunk, retries, live, upLoading, canceling, controller,
                   activeChunkUpload>>
  BY DEF pageVars, invocationVars, drawerVars
<1>11. TypeOK' BY <1>0, <1>1, <1>4, <1>8, <1>9, <1>10 DEF TypeOK, GetsTo, RequestType
<1>12. ASSUME NEW v \in Uploads PROVE PartOK(v)'
  <2>1. CASE v = u BY <1>4, <1>8, <2>1 DEF PartOK
  <2>2. CASE v # u BY <1>0, <1>4, <1>8, <2>2 DEF PartOK
  <2> QED BY <2>1, <2>2
<1>13. ASSUME NEW v \in Uploads PROVE StopOK(v)'
  BY <1>0, <1>1, <1>2, <1>4 DEF StopOK
<1>14. ASSUME NEW v \in Uploads PROVE WaitOK(v)'
  <2>1. live[v] \in Requests \cup {None} BY <1>0 DEF TypeOK
  <2> QED BY <1>0, <1>1, <1>9, <1>10, <2>1 DEF WaitOK, GetsTo
<1>15. ASSUME NEW q \in Requests PROVE LockOK(q)'
  <2> SUFFICES ASSUME req'[q].at \in Holding
               PROVE  /\ part'[req'[q].u] = WholeFile
                      /\ \A p \in Requests \ {q} : ~ (req'[p].u = req'[q].u /\ req'[p].at \in Holding)
    BY DEF LockOK
  <2>1. \A p \in Requests : req[p].u = u => req[p].at \notin Holding BY <1>1, <1>2 DEF Unlocked
  <2>2. CASE q = r BY <1>2, <1>7, <1>8, <1>9, <2>1, <2>2 DEF GetsTo, Holding
  <2>3. CASE q # r
    <3>1. req'[q] = req[q] /\ req[q].at \in Holding BY <1>9, <2>3 DEF GetsTo
    <3>2. req[q].u # u BY <2>1, <3>1
    <3>3. req[q].u \in Uploads
      <4>1. req[q].u \in Uploads \cup {None} BY <1>0 DEF TypeOK
      <4> QED BY <1>0, <3>1, <4>1 DEF AnswerOK, Holding
    <3>4. part'[req[q].u] = WholeFile BY <1>0, <1>8, <3>1, <3>2, <3>3 DEF LockOK
    <3> QED BY <1>0, <1>2, <1>9, <3>1, <3>2, <3>4 DEF GetsTo, LockOK
  <2> QED BY <2>2, <2>3
<1>16. ASSUME NEW q \in Requests PROVE AnswerOK(q)'
  <2>1. CASE q = r BY <1>0, <1>1, <1>3, <1>7, <1>9, <2>1 DEF GetsTo, AnswerOK
  <2>2. CASE q # r BY <1>0, <1>1, <1>9, <2>2 DEF GetsTo, AnswerOK
  <2> QED BY <2>1, <2>2
<1>17. completed' \subseteq finalized' /\ DestOK' BY <1>0, <1>1 DEF DestOK
<1>18. FailedIsUndone' BY <1>0, <1>1, <1>9, StaysUndone DEF GetsTo
<1> QED BY <1>11, <1>12, <1>13, <1>14, <1>15, <1>16, <1>17, <1>18 DEF IInv

\* The holder of a lock is alone, has an upload and a whole part.
LEMMA Holder ==
    ASSUME IInv, NEW r \in Requests, req[r].at \in Holding
    PROVE  /\ req[r].u \in Uploads /\ part[req[r].u] = WholeFile
           /\ \A q \in Requests \ {r} : ~ (req[q].u = req[r].u /\ req[q].at \in Holding)
<1>1. TypeOK /\ LockOK(r) /\ AnswerOK(r) /\ None \notin Uploads BY NoneAssumption DEF IInv
<1>2. req[r].u \in Uploads \cup {None} BY <1>1 DEF TypeOK
<1>3. req[r].u # None BY <1>1 DEF AnswerOK, Holding
<1> QED BY <1>1, <1>2, <1>3 DEF LockOK

\* What is placed is the whole part.
LEMMA Placed ==
    ASSUME IInv, NEW r \in Requests, Place(r)
    PROVE  /\ dst' \in FilesInPlace /\ dst'.by = req[r].u /\ dst'.cells = WholeFile
<1>1. req[r].u \in Uploads /\ part[req[r].u] = WholeFile BY Holder DEF Place, Holding
<1>2. dst' = [by |-> req[r].u, cells |-> WholeFile] BY <1>1 DEF Place
<1>3. WholeFile \in Files BY PrefixFacts
<1> QED BY <1>1, <1>2, <1>3 DEF FilesInPlace

\* The file is in place and its part is gone.
LEMMA Completes ==
    ASSUME IInv, NEW r \in Requests, req[r].at \in Holding, Complete(r),
           dst' \in FilesInPlace \cup {None}, DestOK',
           dst' = dst \/ dst'.by = req[r].u,
           UNCHANGED <<pageVars, restarts>>
    PROVE  IInv'
<1>0. /\ TypeOK /\ None \notin Uploads /\ completed \subseteq finalized /\ FailedIsUndone
      /\ \A v \in Uploads : PartOK(v) /\ StopOK(v) /\ WaitOK(v)
      /\ \A q \in Requests : LockOK(q) /\ AnswerOK(q)
  BY NoneAssumption DEF IInv
<1>1. Goes(r, "stored") /\ UNCHANGED <<stop, strays, cancelled, orphans, overwrite>>
  BY DEF Complete
<1>2. PICK u \in Uploads : u = req[r].u BY Holder
<1>3. \A q \in Requests \ {r} : ~ (req[q].u = u /\ req[q].at \in Holding)
  BY <1>2, Holder
<1>5. /\ finalized' = finalized \cup {u} /\ completed' = completed \cup {u}
      /\ active' = active \ {u}
  BY <1>2 DEF Complete
<1>6. /\ part' \in [Uploads -> Files \cup {None}] /\ part'[u] = None
      /\ \A v \in Uploads \ {u} : part'[v] = part[v]
  BY <1>0, <1>2 DEF TypeOK, Complete
<1>7. GetsTo(r, "stored") BY <1>0, <1>1, GoesFar DEF Stages, Lost
<1>8. UNCHANGED <<at, page, chunk, retries, live, upLoading, canceling, controller,
                  activeChunkUpload>>
  BY DEF pageVars, invocationVars, drawerVars
<1>9. FailedIsUndone'
  <2>1. CASE dst' # None /\ dst'.by = u BY <1>5, <2>1 DEF FailedIsUndone
  <2>2. CASE dst' = dst /\ (dst' = None \/ dst'.by # u)
    BY <1>0, <1>1, <1>2, <1>5, <1>7, <2>2 DEF FailedIsUndone, GetsTo
  <2>3. CASE dst' = None BY <2>3 DEF FailedIsUndone
  <2> QED BY <1>2, <2>1, <2>2, <2>3
<1>10. TypeOK' BY <1>0, <1>1, <1>5, <1>6, <1>7, <1>8 DEF TypeOK, GetsTo, RequestType
<1>11. ASSUME NEW v \in Uploads PROVE PartOK(v)' BY <1>0, <1>1, <1>5, <1>6 DEF PartOK
<1>12. ASSUME NEW v \in Uploads PROVE StopOK(v)' BY <1>0, <1>1, <1>5 DEF StopOK
<1>13. ASSUME NEW v \in Uploads PROVE WaitOK(v)'
  <2>1. live[v] \in Requests \cup {None} BY <1>0 DEF TypeOK
  <2> QED BY <1>0, <1>5, <1>7, <1>8, <2>1 DEF WaitOK, GetsTo
<1>14. ASSUME NEW q \in Requests PROVE LockOK(q)'
  <2> SUFFICES ASSUME req'[q].at \in Holding
               PROVE  /\ part'[req'[q].u] = WholeFile
                      /\ \A p \in Requests \ {q} : ~ (req'[p].u = req'[q].u /\ req'[p].at \in Holding)
    BY DEF LockOK
  <2>1. q # r /\ req'[q] = req[q] /\ req[q].at \in Holding /\ req[q].u # u
    BY <1>3, <1>7 DEF GetsTo, Holding
  <2>2. req[q].u \in Uploads BY <2>1, Holder
  <2>3. part'[req[q].u] = WholeFile BY <1>0, <1>6, <2>1, <2>2 DEF LockOK
  <2> QED BY <1>0, <1>7, <2>1, <2>3 DEF GetsTo, LockOK, Holding
<1>15. ASSUME NEW q \in Requests PROVE AnswerOK(q)'
  <2>1. CASE q = r BY <1>0, <1>1, <1>2, <1>5, <1>7, <2>1 DEF GetsTo, AnswerOK
  <2>2. CASE q # r BY <1>0, <1>5, <1>7, <2>2 DEF GetsTo, AnswerOK
  <2> QED BY <2>1, <2>2
<1>16. completed' \subseteq finalized' BY <1>0, <1>5
<1> QED BY <1>9, <1>10, <1>11, <1>12, <1>13, <1>14, <1>15, <1>16 DEF IInv

\* A rename places the part and takes it away.
LEMMA StepRename ==
    ASSUME IInv, NEW r \in Requests, Rename(r), UNCHANGED <<pageVars, restarts>>
    PROVE  IInv'
<1>1. Place(r) /\ Complete(r) /\ req[r].at \in Holding BY DEF Rename, Place, Holding
<1>2. dst' \in FilesInPlace /\ dst'.by = req[r].u /\ dst'.cells = WholeFile BY <1>1, Placed
<1>3. DestOK' BY <1>2 DEF DestOK
<1> QED BY <1>1, <1>2, <1>3, Completes

\* The part is gone after its link.
LEMMA StepRemovePart ==
    ASSUME IInv, NEW r \in Requests, RemovePart(r), UNCHANGED <<pageVars, restarts>>
    PROVE  IInv'
<1>1. Complete(r) /\ UNCHANGED dst /\ req[r].at \in Holding BY DEF RemovePart, Holding
<1>2. dst' \in FilesInPlace \cup {None} /\ DestOK' BY <1>1 DEF IInv, TypeOK, DestOK
<1> QED BY <1>1, <1>2, Completes

\* A link places the part, which stays until it is removed under the same lock.
LEMMA StepLink ==
    ASSUME IInv, NEW r \in Requests, Link(r), UNCHANGED <<pageVars, restarts>>
    PROVE  IInv'
<1>0. /\ TypeOK /\ completed \subseteq finalized
      /\ \A v \in Uploads : PartOK(v) /\ StopOK(v) /\ WaitOK(v)
      /\ \A q \in Requests : LockOK(q) /\ AnswerOK(q)
  BY DEF IInv
<1>1. /\ Place(r) /\ req[r].at = "wrote" /\ Goes(r, "linked")
      /\ UNCHANGED <<stop, part, finalized, strays, active, completed, cancelled, orphans, overwrite>>
  BY DEF Link, Place, memoryVars
<1>2. dst' \in FilesInPlace /\ dst'.by = req[r].u /\ dst'.cells = WholeFile BY <1>1, Placed
<1>3. GetsTo(r, "linked") BY <1>0, <1>1, GoesFar DEF Stages, Lost, Holding
<1>4. UNCHANGED <<at, page, chunk, retries, live, upLoading, canceling, controller,
                  activeChunkUpload>>
  BY DEF pageVars, invocationVars, drawerVars
<1>5. TypeOK' BY <1>0, <1>1, <1>2, <1>3, <1>4 DEF TypeOK, GetsTo, RequestType
<1>6. ASSUME NEW v \in Uploads PROVE PartOK(v)' /\ StopOK(v)' BY <1>0, <1>1 DEF PartOK, StopOK
<1>7. ASSUME NEW v \in Uploads PROVE WaitOK(v)'
  <2>1. live[v] \in Requests \cup {None} BY <1>0 DEF TypeOK
  <2> QED BY <1>0, <1>1, <1>3, <1>4, <2>1 DEF WaitOK, GetsTo
<1>8. ASSUME NEW q \in Requests PROVE LockOK(q)'
  <2>1. \A p \in Requests : /\ req'[p].u = req[p].u
                            /\ req'[p].at \in Holding => req[p].at \in Holding
    BY <1>1, <1>3 DEF GetsTo, Holding
  <2> QED BY <1>0, <1>1, <2>1 DEF LockOK
<1>9. ASSUME NEW q \in Requests PROVE AnswerOK(q)'
  <2>1. CASE q = r BY <1>0, <1>1, <1>3, <2>1 DEF GetsTo, AnswerOK
  <2>2. CASE q # r BY <1>0, <1>1, <1>3, <2>2 DEF GetsTo, AnswerOK
  <2> QED BY <2>1, <2>2
<1>10. completed' \subseteq finalized' /\ DestOK' BY <1>0, <1>1, <1>2 DEF DestOK
<1>11. FailedIsUndone' BY <1>2, <1>3 DEF FailedIsUndone, GetsTo
<1> QED BY <1>5, <1>6, <1>7, <1>8, <1>9, <1>10, <1>11 DEF IInv

\* The mark of a stop is removed only from a completed upload.
LEMMA StepUnmark ==
    ASSUME IInv, NEW r \in Requests, Unmark(r), UNCHANGED <<pageVars, restarts>>
    PROVE  IInv'
<1>0. /\ TypeOK /\ (\A u \in Uploads : StopOK(u)) /\ (\A q \in Requests : AnswerOK(q))
      /\ completed \subseteq finalized
  BY DEF IInv
<1>1. /\ req[r].at = "stored" /\ Goes(r, "ok") /\ cancelled' = cancelled \ {req[r].u}
      /\ UNCHANGED <<stop, diskVars, active, completed, orphans, overwrite>>
  BY DEF Unmark
<1>2. req[r].u \in completed /\ req[r].u \in finalized BY <1>0, <1>1 DEF AnswerOK
<1>3. GetsTo(r, "ok") BY <1>0, <1>1, GoesFar DEF Stages, Replies
<1>4. \A q \in Requests : Answers(q)
  BY <1>0, <1>1, <1>2, <1>3 DEF GetsTo, Answers, AnswerOK, Replies
<1>5. \A u \in Uploads : StopOK(u)' BY <1>0, <1>1, <1>2 DEF StopOK
<1>6. /\ req' \in [Requests -> RequestType] /\ completed' \subseteq completed
      /\ stop' \in [Uploads -> {"none", "asked", "marked", "done"}] /\ cancelled' \subseteq Uploads
  BY <1>0, <1>1, <1>3 DEF GetsTo, TypeOK
<1> QED BY <1>1, <1>4, <1>5, <1>6, FilesRest

\* A request nobody waits for is lost.
LEMMA StepDrop ==
    ASSUME IInv, NEW r \in Requests, Drop(r), UNCHANGED <<pageVars, restarts>>
    PROVE  IInv'
<1>0. TypeOK /\ (\A u \in Uploads : StopOK(u)) /\ \A q \in Requests : AnswerOK(q) BY DEF IInv
<1>1. ~ Awaited(r) /\ req[r].at # "linked" /\ UNCHANGED <<stop, agentVars>>
  BY DEF Drop, Replies
<1>2. UNCHANGED <<diskVars, active, orphans, completed, cancelled, overwrite>>
  BY <1>1 DEF agentVars, memoryVars
<1>3. /\ req' \in [Requests -> RequestType] /\ req'[r] = NoRequest
      /\ \A q \in Requests \ {r} : req'[q] = req[q]
  <2>1. req \in [Requests -> RequestType] BY <1>0 DEF TypeOK, RequestType
  <2> QED BY <2>1, NoRequestFacts DEF Drop
<1>4. \A q \in Requests : Answers(q) BY <1>0, <1>1, <1>2, <1>3 DEF Answers, AnswerOK
<1>5. \A u \in Uploads : StopOK(u)' BY <1>0, <1>1, <1>2 DEF StopOK
<1>6. /\ completed' \subseteq completed
      /\ stop' \in [Uploads -> {"none", "asked", "marked", "done"}] /\ cancelled' \subseteq Uploads
  BY <1>0, <1>1, <1>2 DEF TypeOK
<1> QED BY <1>2, <1>3, <1>4, <1>5, <1>6, FilesRest
-----------------------------------------------------------------------------
(* StopChunkUpload and the timers. *)

\* A step about the stop of upload u that leaves the requests and the files alone.
LEMMA StopMoves ==
    ASSUME IInv, NEW u \in Uploads, NEW how \in {"none", "asked", "marked", "done"},
           stop' = [stop EXCEPT ![u] = how],
           UNCHANGED <<req, diskVars, active, orphans, overwrite, pageVars, restarts>>,
           completed' \subseteq completed, cancelled' \subseteq Uploads,
           \A v \in Uploads \ {u} : /\ v \in completed => v \in completed'
                                    /\ v \in cancelled => v \in cancelled',
           u \in completed => u \in completed' \/ \A q \in Requests : req[q].u # u,
           how \in {"marked", "done"} => u \in cancelled' \cup completed',
           how = "done" => u \notin active
    PROVE  IInv'
<1>0. TypeOK /\ (\A v \in Uploads : StopOK(v)) /\ \A q \in Requests : AnswerOK(q) BY DEF IInv
<1>1. /\ stop' \in [Uploads -> {"none", "asked", "marked", "done"}] /\ stop'[u] = how
      /\ \A v \in Uploads \ {u} : stop'[v] = stop[v]
  BY <1>0 DEF TypeOK
<1>2. \A q \in Requests : Answers(q)
  <2> TAKE q \in Requests
  <2>1. req[q].u \in Uploads \cup {None} BY <1>0 DEF TypeOK
  <2>2. req[q].at = "stored" => req[q].u \in completed' BY <1>0 DEF AnswerOK, TypeOK
  <2> QED BY <2>2 DEF Answers
<1>3. \A v \in Uploads : StopOK(v)'
  <2> TAKE v \in Uploads
  <2>1. CASE v = u BY <1>1, <2>1 DEF StopOK
  <2>2. CASE v # u BY <1>0, <1>1, <2>2 DEF StopOK
  <2> QED BY <2>1, <2>2
<1>4. req' \in [Requests -> RequestType] BY <1>0 DEF TypeOK, RequestType
<1> QED BY <1>1, <1>2, <1>3, <1>4, FilesRest

\* The upload is marked as cancelled first.
LEMMA StepMark ==
    ASSUME IInv, NEW u \in Uploads, Mark(u), UNCHANGED <<pageVars, restarts>>
    PROVE  IInv'
<1>0. TypeOK BY DEF IInv
<1>1. /\ stop' = [stop EXCEPT ![u] = "marked"] /\ cancelled' = cancelled \cup {u}
      /\ UNCHANGED <<req, diskVars, active, orphans, overwrite, pageVars, restarts, completed>>
  BY DEF Mark
<1>2. cancelled' \subseteq Uploads BY <1>0, <1>1 DEF TypeOK
<1>3. PICK how \in {"none", "asked", "marked", "done"} : how = "marked" OBVIOUS
<1> QED BY <1>1, <1>2, <1>3, StopMoves

\* A stop returns when the part is gone, or is not this run's.
LEMMA StepRemoveActive ==
    ASSUME IInv, NEW u \in Uploads, RemoveActive(u), UNCHANGED <<pageVars, restarts>>
    PROVE  IInv'
<1>0. TypeOK /\ StopOK(u) BY DEF IInv
<1>1. /\ stop[u] = "marked" /\ Unlocked(u) /\ stop' = [stop EXCEPT ![u] = "done"]
      /\ UNCHANGED <<req, dst, finalized, strays, completed, cancelled, overwrite>>
  BY DEF RemoveActive
<1>2. u \in cancelled \cup completed BY <1>0, <1>1 DEF StopOK
<1>3. CASE u \in active
  <2>1. active' = active \ {u} /\ PartRemoved(u) BY <1>3 DEF RemoveActive
  <2>2. /\ stop' \in [Uploads -> {"none", "asked", "marked", "done"}]
        /\ \A v \in Uploads : stop'[v] = stop[v] \/ (v = u /\ stop[v] = "marked")
    BY <1>0, <1>1 DEF TypeOK
  <2>3. \A q \in Requests : req'[q].u = u => req'[q].at \notin Holding BY <1>1 DEF Unlocked
  <2>4. strays' \subseteq Uploads /\ FailedIsUndone'
    BY <1>0, <1>1, StaysUndone DEF IInv, TypeOK
  <2> QED BY <1>1, <2>1, <2>2, <2>3, <2>4, PartDiscarded
<1>4. CASE u \notin active
  <2>1. UNCHANGED <<diskVars, active, orphans>> BY <1>1, <1>4 DEF RemoveActive, diskVars
  <2>2. PICK how \in {"none", "asked", "marked", "done"} : how = "done" OBVIOUS
  <2>3. cancelled' \subseteq Uploads /\ completed' \subseteq completed BY <1>0, <1>1 DEF TypeOK
  <2> QED BY <1>1, <1>2, <1>4, <2>1, <2>2, <2>3, StopMoves
<1> QED BY <1>3, <1>4

\* A stop that cannot remove the part is as if it had not been.
LEMMA StepRemoveFails ==
    ASSUME IInv, NEW u \in Uploads, RemoveFails(u) \/ DropStop(u), UNCHANGED <<pageVars, restarts>>
    PROVE  IInv'
<1>0. TypeOK BY DEF IInv
<1>1. stop' = [stop EXCEPT ![u] = "none"] /\ UNCHANGED <<req, agentVars>>
  BY DEF RemoveFails, DropStop
<1>2. UNCHANGED <<diskVars, active, orphans, overwrite, completed, cancelled>>
  BY <1>1 DEF agentVars, memoryVars
<1>3. PICK how \in {"none", "asked", "marked", "done"} : how = "none" OBVIOUS
<1>4. cancelled' \subseteq Uploads /\ completed' \subseteq completed BY <1>0, <1>2 DEF TypeOK
<1> QED BY <1>1, <1>2, <1>3, <1>4, StopMoves

\* The timer removes a part that nobody holds the lock of.
LEMMA StepExpire ==
    ASSUME IInv, NEW u \in Uploads, Expire(u), UNCHANGED <<pageVars, restarts>>
    PROVE  IInv'
<1>1. /\ Discard(u) /\ Unlocked(u)
      /\ UNCHANGED <<req, stop, dst, finalized, strays, completed, cancelled, overwrite>>
  BY DEF Expire, linkVars
<1>2. stop' \in [Uploads -> {"none", "asked", "marked", "done"}] BY <1>1 DEF IInv, TypeOK
<1>3. \A q \in Requests : req'[q].u = u => req'[q].at \notin Holding BY <1>1 DEF Unlocked
<1>4. strays' \subseteq Uploads /\ FailedIsUndone' BY <1>1, StaysUndone DEF IInv, TypeOK
<1> QED BY <1>1, <1>2, <1>3, <1>4, PartDiscarded

\* A completion is forgotten together with a stop that rests on it alone.
LEMMA StepForgetCompleted ==
    ASSUME IInv, NEW u \in Uploads, ForgetCompleted(u), UNCHANGED <<pageVars, restarts>>
    PROVE  IInv'
<1>0. TypeOK /\ StopOK(u) BY DEF IInv
<1>1. /\ Quiet(u) /\ completed' = completed \ {u}
      /\ UNCHANGED <<req, diskVars, active, cancelled, orphans, overwrite>>
  BY DEF ForgetCompleted
<1>2. PICK how : how = IF stop[u] = "done" /\ u \notin cancelled THEN "none" ELSE stop[u] OBVIOUS
<1>3. stop' = [stop EXCEPT ![u] = how] BY <1>2 DEF ForgetCompleted
<1>4. stop[u] \in {"none", "done"} /\ \A q \in Requests : req[q].u # u BY <1>1 DEF Quiet
<1>5. /\ how \in {"none", "asked", "marked", "done"}
      /\ how \in {"marked", "done"} => u \in cancelled' \cup completed'
      /\ how = "done" => u \notin active
  BY <1>0, <1>1, <1>2, <1>4 DEF StopOK
<1>6. cancelled' \subseteq Uploads /\ completed' \subseteq completed BY <1>0, <1>1 DEF TypeOK
<1> QED BY <1>1, <1>3, <1>4, <1>5, <1>6, StopMoves

\* A cancellation is forgotten together with its stop.
LEMMA StepForgetCancelled ==
    ASSUME IInv, NEW u \in Uploads, ForgetCancelled(u), UNCHANGED <<pageVars, restarts>>
    PROVE  IInv'
<1>0. TypeOK BY DEF IInv
<1>1. /\ cancelled' = cancelled \ {u} /\ stop' = [stop EXCEPT ![u] = "none"]
      /\ UNCHANGED <<req, diskVars, active, completed, orphans, overwrite>>
  BY DEF ForgetCancelled
<1>2. PICK how \in {"none", "asked", "marked", "done"} : how = "none" OBVIOUS
<1>3. cancelled' \subseteq Uploads /\ completed' \subseteq completed BY <1>0, <1>1 DEF TypeOK
<1> QED BY <1>1, <1>2, <1>3, StopMoves

-----------------------------------------------------------------------------
(* Restarts, and others who write. *)

\* A restart forgets every lock and every stop, and inherits every part.
LEMMA StepRestart ==
    ASSUME IInv, RestartAgent
    PROVE  IInv'
<1>0. /\ TypeOK /\ None \notin Uploads /\ completed \subseteq finalized /\ DestOK /\ FailedIsUndone
      /\ \A v \in Uploads : PartOK(v) /\ StopOK(v) /\ WaitOK(v)
      /\ \A q \in Requests : LockOK(q) /\ AnswerOK(q)
  BY NoneAssumption DEF IInv
<1>1. UNCHANGED <<part, dst, finalized, overwrite, at, page, chunk, retries,
                  upLoading, canceling, controller, activeChunkUpload>>
  BY DEF RestartAgent, Restart, drawerVars
<1>2. /\ active' = {} /\ completed' = {} /\ cancelled' = {}
      /\ orphans' = {u \in Uploads : part[u] # None}
  BY DEF RestartAgent, Restart
<1>3. /\ req' \in [Requests -> RequestType]
      /\ \A q \in Requests : req'[q] = IF req[q].at \in Lost THEN NoRequest ELSE req[q]
  <2>1. req \in [Requests -> RequestType] BY <1>0 DEF TypeOK, RequestType
  <2>2. req' = [r \in Requests |-> IF req[r].at \in Lost THEN NoRequest ELSE req[r]]
    BY DEF RestartAgent, Restart
  <2> QED BY <2>1, <2>2, NoRequestFacts
<1>4. /\ stop' \in [Uploads -> {"none", "asked", "marked", "done"}]
      /\ \A u \in Uploads : stop'[u] \in {"asked", "none"}
  BY DEF RestartAgent, Restart
<1>5. /\ live' \in [Uploads -> Requests \cup {None}]
      /\ \A u \in Uploads : live'[u] # None => live'[u] = live[u] /\ req[live[u]].at \notin Lost
  <2>1. live' = [u \in Uploads |->
                   IF live[u] # None /\ req[live[u]].at \in Lost THEN None ELSE live[u]]
    BY DEF RestartAgent
  <2> QED BY <1>0, <2>1 DEF TypeOK
<1>6. restarts' \in 0 .. MaxRestarts BY <1>0, RestartsAssumption DEF RestartAgent, TypeOK
<1>12. /\ strays' \subseteq Uploads /\ strays \subseteq strays'
       /\ \A q \in Requests : req[q].at = "linked" => req[q].u \in strays'
  <2>1. strays' = strays \cup {req[r].u : r \in {q \in Requests : req[q].at = "linked"}}
    BY DEF RestartAgent, Restart
  <2>2. \A q \in Requests : req[q].at = "linked" => req[q].u \in Uploads
    BY Holder DEF Holding
  <2> QED BY <1>0, <2>1, <2>2 DEF TypeOK
<1>7. TypeOK' BY <1>0, <1>1, <1>2, <1>3, <1>4, <1>5, <1>6, <1>12 DEF TypeOK, RequestType
<1>8. ASSUME NEW u \in Uploads PROVE PartOK(u)' /\ StopOK(u)'
  BY <1>0, <1>1, <1>2, <1>4 DEF PartOK, StopOK
<1>9. ASSUME NEW u \in Uploads PROVE WaitOK(u)'
  <2>1. ASSUME live'[u] # None PROVE req'[live'[u]] = req[live[u]] /\ live[u] # None
    BY <1>3, <1>5, <2>1
  <2> QED BY <1>0, <1>1, <1>5, <2>1 DEF WaitOK
<1>10. ASSUME NEW q \in Requests PROVE LockOK(q)' /\ AnswerOK(q)'
  <2>1. req'[q].at \notin Lost /\ (req'[q] = NoRequest \/ req'[q] = req[q])
    BY <1>3, NoRequestFacts DEF Lost, Holding
  <2> QED BY <1>0, <1>1, <2>1, NoRequestFacts DEF LockOK, AnswerOK, Lost
<1>11. completed' \subseteq finalized' /\ DestOK' BY <1>0, <1>1, <1>2 DEF DestOK
<1>13. FailedIsUndone' BY <1>0, <1>1, <1>12 DEF FailedIsUndone
<1> QED BY <1>7, <1>8, <1>9, <1>10, <1>11, <1>13 DEF IInv

\* What others write is not by an upload.
LEMMA StepOthersWrite ==
    ASSUME IInv, OthersWrite
    PROVE  IInv'
<1>0. TypeOK BY DEF IInv
<1>1. UNCHANGED <<req, stop, part, finalized, strays, active, completed, cancelled, orphans, overwrite,
                  at, page, chunk, retries, live, upLoading, canceling, controller,
                  activeChunkUpload, restarts>>
  BY DEF OthersWrite, linkVars, memoryVars, pageVars, invocationVars, drawerVars
<1>2. dst' = None \/ dst' = Other BY DEF OthersWrite
<1>3. Other \in FilesInPlace /\ Other.by = None
  BY PrefixFacts DEF Other, FilesInPlace
<1>4. TypeOK' BY <1>0, <1>1, <1>2, <1>3 DEF TypeOK
<1>5. DestOK' /\ FailedIsUndone' BY <1>2, <1>3 DEF DestOK, FailedIsUndone
<1>6. ASSUME NEW u \in Uploads PROVE PartOK(u)' /\ StopOK(u)' /\ WaitOK(u)'
  BY <1>1 DEF IInv, PartOK, StopOK, WaitOK
<1>7. ASSUME NEW r \in Requests PROVE LockOK(r)' /\ AnswerOK(r)'
  BY <1>1 DEF IInv, LockOK, AnswerOK
<1>8. completed' \subseteq finalized' BY <1>1 DEF IInv
<1> QED BY <1>4, <1>5, <1>6, <1>7, <1>8 DEF IInv

-----------------------------------------------------------------------------
(* The drawers. *)

\* The types of what a drawer keeps.
PageType ==
    /\ at \in [Uploads -> {"new", "checking", "sending", "waiting", "backoff",
                           "stopping", "succeeded", "ended"}]
    /\ page \in [Uploads -> Pages \cup {None}]
    /\ chunk \in [Uploads -> Chunks]
    /\ retries \in [Uploads -> 0 .. MAX_CHUNK_RETRIES]
    /\ live \in [Uploads -> Requests \cup {None}]
    /\ upLoading \in [Pages -> BOOLEAN]
    /\ canceling \in [Pages -> {"no", "asking", "stopping"}]
    /\ controller \in [Pages -> Uploads \cup {None}]
    /\ activeChunkUpload \in [Pages -> Uploads \cup {None}]

\* Invocation v waits for nothing, for what it waited for, or for a request of its
\* own; and it has not come to succeed without a file.
Keeps(v) ==
    /\ \/ live'[v] = None
       \/ live'[v] = live[v] /\ chunk'[v] = chunk[v] /\ req'[live[v]] = req[live[v]]
       \/ req'[live'[v]].u = v /\ req'[live'[v]].c = chunk'[v]
    /\ at'[v] = "succeeded" => at[v] = "succeeded" \/ v \in finalized

\* What a step of a drawer may do to the agent: send a request, read an answer,
\* ask for a stop.
LEMMA DrawerMoves ==
    ASSUME IInv, UNCHANGED <<diskVars, memoryVars, restarts>>, PageType',
           overwrite' \in [Uploads -> BOOLEAN],
           stop' \in [Uploads -> {"none", "asked", "marked", "done"}],
           \A u \in Uploads : stop'[u] \in {stop[u], "asked"},
           req' \in [Requests -> RequestType],
           \A q \in Requests : \/ req'[q] = req[q]
                               \/ /\ req[q].at # "linked"
                                  /\ \/ req'[q] = NoRequest
                                     \/ req'[q].at = "sent" /\ req'[q].u \in Uploads,
           \A u \in Uploads : Keeps(u)
    PROVE  IInv'
<1>0. /\ TypeOK /\ None \notin Uploads /\ completed \subseteq finalized /\ DestOK /\ FailedIsUndone
      /\ \A v \in Uploads : PartOK(v) /\ StopOK(v) /\ WaitOK(v)
      /\ \A q \in Requests : LockOK(q) /\ AnswerOK(q)
  BY NoneAssumption DEF IInv
<1>1. UNCHANGED <<part, dst, finalized, strays, active, completed, cancelled, orphans>>
  BY DEF diskVars, memoryVars
<1>2. ASSUME NEW u \in Uploads PROVE PartOK(u)' /\ StopOK(u)'
  BY <1>0, <1>1 DEF PartOK, StopOK
<1>3. ASSUME NEW r \in Requests PROVE LockOK(r)'
  <2>1. \A q \in Requests : req'[q].at \in Holding => req'[q] = req[q]
    BY NoRequestFacts DEF Holding
  <2> QED BY <1>0, <1>1, <2>1 DEF LockOK
<1>4. ASSUME NEW r \in Requests PROVE AnswerOK(r)'
  BY <1>0, <1>1, NoRequestFacts DEF AnswerOK
<1>5. ASSUME NEW u \in Uploads PROVE WaitOK(u)'
  BY <1>0, <1>1 DEF WaitOK, Keeps
<1>6. completed' \subseteq finalized' /\ DestOK' BY <1>0, <1>1 DEF DestOK
<1>7. TypeOK' BY <1>0, <1>1 DEF TypeOK, PageType, RequestType
<1>8. FailedIsUndone' BY <1>0, <1>1, StaysUndone
<1> QED BY <1>2, <1>3, <1>4, <1>5, <1>6, <1>7, <1>8 DEF IInv

\* Nothing is sent, read or stopped.
LEMMA DrawerRests ==
    ASSUME IInv, UNCHANGED <<diskVars, memoryVars, restarts, req, stop>>, PageType',
           overwrite' \in [Uploads -> BOOLEAN],
           \A u \in Uploads : /\ live'[u] = None \/ (live'[u] = live[u] /\ chunk'[u] = chunk[u])
                              /\ at'[u] = "succeeded" => at[u] = "succeeded"
    PROVE  IInv'
<1>1. /\ stop' \in [Uploads -> {"none", "asked", "marked", "done"}]
      /\ req' \in [Requests -> RequestType]
  BY DEF IInv, TypeOK, RequestType
<1>2. \A u \in Uploads : Keeps(u) BY DEF Keeps
<1> QED BY <1>1, <1>2, DrawerMoves

\* The other invocations go on.
Others(u) == \A v \in Uploads \ {u} : at'[v] = at[v] /\ chunk'[v] = chunk[v] /\ live'[v] = live[v]

\* Reading an answer takes it from nobody else.
LEMMA ReadsOwn ==
    ASSUME IInv, NEW u \in Uploads, Answered(u, Replies), Received(u)
    PROVE  /\ req' \in [Requests -> RequestType]
           /\ \A q \in Requests : \/ req'[q] = req[q]
                                  \/ req'[q] = NoRequest /\ req[q].at # "linked"
           /\ \A v \in Uploads \ {u} : live[v] # None => req'[live[v]] = req[live[v]]
<1>1. req \in [Requests -> RequestType] /\ live \in [Uploads -> Requests \cup {None}]
  BY DEF IInv, TypeOK, RequestType
<1>2. PICK r \in Requests : r = live[u] /\ req[r].at # "linked"
  BY <1>1 DEF Answered, Replies
<1>3. req' = [req EXCEPT ![r] = NoRequest] BY <1>2 DEF Received
<1>4. \A v \in Uploads \ {u} : live[v] # None => live[v] # r
  BY <1>2 DEF IInv, WaitOK
<1> QED BY <1>1, <1>2, <1>3, <1>4, NoRequestFacts

\* The types after the finally of uploadFile.
LEMMA Finishes ==
    ASSUME IInv, NEW u \in Uploads, NEW how \in {"succeeded", "ended"}, Finish(u, how)
    PROVE  /\ at' \in [Uploads -> {"new", "checking", "sending", "waiting", "backoff",
                                   "stopping", "succeeded", "ended"}]
           /\ page' \in [Uploads -> Pages \cup {None}]
           /\ chunk' \in [Uploads -> Chunks]
           /\ retries' \in [Uploads -> 0 .. MAX_CHUNK_RETRIES]
           /\ live' \in [Uploads -> Requests \cup {None}]
           /\ upLoading' \in [Pages -> BOOLEAN]
           /\ controller' \in [Pages -> Uploads \cup {None}]
           /\ live'[u] = None /\ at'[u] = how /\ Others(u)
<1>0. TypeOK BY DEF IInv
<1>1. /\ at' \in [Uploads -> {"new", "checking", "sending", "waiting", "backoff",
                              "stopping", "succeeded", "ended"}]
      /\ at'[u] = how /\ \A v \in Uploads \ {u} : at'[v] = at[v]
  BY <1>0 DEF TypeOK, Finish
<1>2. /\ page' \in [Uploads -> Pages \cup {None}]
      /\ upLoading' \in [Pages -> BOOLEAN]
  BY <1>0 DEF TypeOK, Finish
<1>3. /\ chunk' \in [Uploads -> Chunks] /\ \A v \in Uploads \ {u} : chunk'[v] = chunk[v]
  BY <1>0, ChunkFacts DEF TypeOK, Finish
<1>4. retries' \in [Uploads -> 0 .. MAX_CHUNK_RETRIES]
  BY <1>0, RetriesAssumption DEF TypeOK, Finish
<1>5. /\ live' \in [Uploads -> Requests \cup {None}] /\ live'[u] = None
      /\ \A v \in Uploads \ {u} : live'[v] = live[v]
  BY <1>0 DEF TypeOK, Finish
<1>6. controller' \in [Pages -> Uploads \cup {None}]
  <2>1. PICK x : x = IF controller[page[u]] = u THEN None ELSE controller[page[u]] OBVIOUS
  <2>2. controller' = [controller EXCEPT ![page[u]] = x] BY <2>1 DEF Finish
  <2>3. page[u] \in Pages => x \in Uploads \cup {None} BY <1>0, <2>1 DEF TypeOK
  <2> QED BY <1>0, <2>2, <2>3 DEF TypeOK
<1> QED BY <1>1, <1>2, <1>3, <1>4, <1>5, <1>6 DEF Others

\* cleanupActiveChunkUpload.
LEMMA AsksToStop ==
    ASSUME TypeOK, NEW p, Stopping(p)
    PROVE  /\ stop' \in [Uploads -> {"none", "asked", "marked", "done"}]
           /\ \A u \in Uploads : stop'[u] \in {stop[u], "asked"}
           /\ activeChunkUpload' \in [Pages -> Uploads \cup {None}]
<1>1. stop' = [u \in Uploads |-> IF u = activeChunkUpload[p] THEN "asked" ELSE stop[u]]
  BY DEF Stopping
<1>2. activeChunkUpload' \in [Pages -> Uploads \cup {None}] BY DEF Stopping, TypeOK
<1> QED BY <1>1, <1>2 DEF TypeOK

\* An invocation that fails stops what its drawer has as active, and is over or
\* waits for that.
LEMMA Throws ==
    ASSUME IInv, NEW u \in Uploads, Throw(u)
    PROVE  /\ PageType' /\ live'[u] = None /\ at'[u] # "succeeded" /\ Others(u)
           /\ stop' \in [Uploads -> {"none", "asked", "marked", "done"}]
           /\ \A v \in Uploads : stop'[v] \in {stop[v], "asked"}
<1>0. TypeOK BY DEF IInv
<1>1. /\ stop' \in [Uploads -> {"none", "asked", "marked", "done"}]
      /\ \A v \in Uploads : stop'[v] \in {stop[v], "asked"}
      /\ activeChunkUpload' \in [Pages -> Uploads \cup {None}]
      /\ canceling' \in [Pages -> {"no", "asking", "stopping"}]
  BY <1>0, AsksToStop DEF Throw, TypeOK
<1>2. CASE Finish(u, "ended")
  <2>1. PICK how \in {"succeeded", "ended"} : how = "ended" OBVIOUS
  <2> QED BY <1>1, <1>2, <2>1, Finishes DEF PageType
<1>3. CASE /\ at' = [at EXCEPT ![u] = "stopping"]
           /\ live' = [live EXCEPT ![u] = None]
           /\ UNCHANGED <<page, chunk, retries, upLoading, controller>>
  <2>1. /\ at' \in [Uploads -> {"new", "checking", "sending", "waiting", "backoff",
                                "stopping", "succeeded", "ended"}]
        /\ at'[u] = "stopping" /\ \A v \in Uploads \ {u} : at'[v] = at[v]
    BY <1>0, <1>3 DEF TypeOK
  <2>2. /\ live' \in [Uploads -> Requests \cup {None}] /\ live'[u] = None
        /\ \A v \in Uploads \ {u} : live'[v] = live[v]
    BY <1>0, <1>3 DEF TypeOK
  <2>3. PageType' BY <1>0, <1>1, <1>3, <2>1, <2>2 DEF TypeOK, PageType
  <2> QED BY <1>1, <1>3, <2>1, <2>2, <2>3 DEF Others
<1> QED BY <1>2, <1>3 DEF Throw

\* Another attempt, while there is one.
LEMMA BacksOff ==
    ASSUME IInv, NEW u \in Uploads, Backoff(u)
    PROVE  /\ PageType' /\ live'[u] = None /\ at'[u] # "succeeded" /\ Others(u)
           /\ stop' \in [Uploads -> {"none", "asked", "marked", "done"}]
           /\ \A v \in Uploads : stop'[v] \in {stop[v], "asked"}
<1>0. TypeOK BY DEF IInv
<1>1. UNCHANGED <<stop, page, chunk, upLoading, canceling, controller, activeChunkUpload>>
  BY DEF Backoff, drawerVars
<1>2. /\ at' \in [Uploads -> {"new", "checking", "sending", "waiting", "backoff",
                              "stopping", "succeeded", "ended"}]
      /\ at'[u] = "backoff" /\ \A v \in Uploads \ {u} : at'[v] = at[v]
  BY <1>0 DEF TypeOK, Backoff
<1>3. /\ live' \in [Uploads -> Requests \cup {None}] /\ live'[u] = None
      /\ \A v \in Uploads \ {u} : live'[v] = live[v]
  BY <1>0 DEF TypeOK, Backoff
<1>4. retries' \in [Uploads -> 0 .. MAX_CHUNK_RETRIES]
  <2>1. retries[u] \in 0 .. MAX_CHUNK_RETRIES /\ retries[u] < MAX_CHUNK_RETRIES
    BY <1>0 DEF TypeOK, Backoff
  <2>2. PICK x \in 0 .. MAX_CHUNK_RETRIES : x = retries[u] + 1 BY <2>1, RetriesAssumption
  <2>3. retries' = [retries EXCEPT ![u] = x] BY <2>2 DEF Backoff, NextRetry
  <2> QED BY <1>0, <2>3 DEF TypeOK
<1>5. PageType' BY <1>0, <1>1, <1>2, <1>3, <1>4 DEF TypeOK, PageType
<1> QED BY <1>0, <1>1, <1>2, <1>3, <1>5 DEF Others, TypeOK

\* What is known when invocation u, and it alone, waits for nothing any more.
LEMMA LetsGoOfRequest ==
    ASSUME IInv, UNCHANGED <<agentVars, restarts>>, NEW u \in Uploads,
           PageType', live'[u] = None, Others(u),
           at'[u] = "succeeded" => u \in finalized,
           stop' \in [Uploads -> {"none", "asked", "marked", "done"}],
           \A v \in Uploads : stop'[v] \in {stop[v], "asked"},
           req' = req \/ (Answered(u, Replies) /\ Received(u))
    PROVE  IInv'
<1>0. TypeOK BY DEF IInv
<1>1. UNCHANGED <<diskVars, memoryVars>> /\ overwrite' \in [Uploads -> BOOLEAN]
  BY <1>0 DEF agentVars, TypeOK
<1>2. /\ req' \in [Requests -> RequestType]
      /\ \A q \in Requests : \/ req'[q] = req[q]
                             \/ req'[q] = NoRequest /\ req[q].at # "linked"
      /\ \A v \in Uploads \ {u} : live[v] # None => req'[live[v]] = req[live[v]]
  <2>1. CASE req' = req BY <1>0, <2>1 DEF TypeOK, RequestType
  <2>2. CASE Answered(u, Replies) /\ Received(u) BY <2>2, ReadsOwn
  <2> QED BY <2>1, <2>2
<1>3. \A v \in Uploads : Keeps(v) BY <1>2 DEF Keeps, Others
<1> QED BY <1>1, <1>2, <1>3, DrawerMoves

\* submit and its end without an upload.
LEMMA StepSubmit ==
    ASSUME IInv, UNCHANGED <<agentVars, restarts>>,
           NEW u \in Uploads, (\E p \in Pages : Submit(p, u)) \/ Skip(u)
    PROVE  IInv'
<1>0. TypeOK BY DEF IInv
<1>1. PICK p \in Pages \cup {None}, how \in {"checking", "ended"} :
         /\ at' = [at EXCEPT ![u] = how] /\ page' = [page EXCEPT ![u] = p]
         /\ UNCHANGED <<chunk, retries, live, drawerVars, linkVars>>
  BY DEF Submit, Skip
<1>2. /\ UNCHANGED <<diskVars, memoryVars, restarts, req, stop, chunk, live>>
      /\ overwrite' \in [Uploads -> BOOLEAN]
  BY <1>0, <1>1 DEF agentVars, linkVars, TypeOK
<1>3. PageType' BY <1>0, <1>1 DEF TypeOK, PageType, drawerVars
<1>4. \A v \in Uploads : at'[v] = "succeeded" => at[v] = "succeeded" BY <1>0, <1>1 DEF TypeOK
<1> QED BY <1>2, <1>3, <1>4, DrawerRests

\* uploadFile begins; overwrite is what the check found.
LEMMA StepStartUpload ==
    ASSUME IInv, UNCHANGED restarts, NEW u \in Uploads, StartUpload(u)
    PROVE  IInv'
<1>0. TypeOK BY DEF IInv
<1>1. /\ UNCHANGED <<diskVars, memoryVars, restarts, req, stop, chunk, live, page, retries, canceling>>
      /\ at' = [at EXCEPT ![u] = "sending"]
      /\ overwrite' \in [Uploads -> BOOLEAN]
  BY <1>0 DEF StartUpload, Start, linkVars, TypeOK
<1>2. upLoading' \in [Pages -> BOOLEAN]
  BY <1>0 DEF StartUpload, Start, TypeOK
<1>3. /\ controller' \in [Pages -> Uploads \cup {None}]
      /\ activeChunkUpload' \in [Pages -> Uploads \cup {None}]
  BY <1>0 DEF StartUpload, Start, TypeOK
<1>4. PageType' BY <1>0, <1>1, <1>2, <1>3 DEF TypeOK, PageType
<1>5. \A v \in Uploads : at'[v] = "succeeded" => at[v] = "succeeded" BY <1>0, <1>1 DEF TypeOK
<1> QED BY <1>1, <1>4, <1>5, DrawerRests

\* A chunk is sent in a request of its own.
LEMMA StepSend ==
    ASSUME IInv, UNCHANGED <<agentVars, restarts>>, NEW u \in Uploads, NEW r \in Requests, Send(u, r)
    PROVE  IInv'
<1>0. TypeOK /\ (\A v \in Uploads : WaitOK(v)) /\ None \notin Uploads /\ None \notin Requests
  BY NoneAssumption DEF IInv
<1>1. /\ UNCHANGED <<diskVars, memoryVars, restarts, stop, chunk, page, retries, drawerVars>>
      /\ overwrite' \in [Uploads -> BOOLEAN] /\ req[r] = NoRequest
  BY <1>0 DEF Send, agentVars, TypeOK
<1>2. PICK x \in RequestType : x = [u |-> u, c |-> chunk[u], at |-> "sent"]
  BY <1>0 DEF RequestType, TypeOK, Stages
<1>3. x.u = u /\ x.c = chunk[u] /\ x.at = "sent" BY <1>2
<1>4. /\ req' \in [Requests -> RequestType] /\ req'[r] = x
      /\ \A q \in Requests \ {r} : req'[q] = req[q]
  <2>1. req' = [req EXCEPT ![r] = x] BY <1>2 DEF Send
  <2> QED BY <1>0, <2>1 DEF TypeOK, RequestType
<1>5. /\ live' \in [Uploads -> Requests \cup {None}] /\ live'[u] = r
      /\ \A v \in Uploads \ {u} : live'[v] = live[v]
  BY <1>0 DEF TypeOK, Send
<1>6. /\ at' \in [Uploads -> {"new", "checking", "sending", "waiting", "backoff",
                              "stopping", "succeeded", "ended"}]
      /\ at'[u] = "waiting" /\ \A v \in Uploads \ {u} : at'[v] = at[v]
  BY <1>0 DEF TypeOK, Send
<1>7. PageType' BY <1>0, <1>1, <1>5, <1>6 DEF TypeOK, PageType, drawerVars
<1>8. ASSUME NEW v \in Uploads PROVE Keeps(v)
  <2>1. CASE v = u BY <1>1, <1>3, <1>4, <1>5, <1>6, <2>1 DEF Keeps
  <2>2. CASE v # u
    <3>1. live[v] \in Requests \cup {None} BY <1>0 DEF TypeOK
    <3>2. live[v] # r BY <1>0, <1>1, NoRequestFacts DEF WaitOK
    <3> QED BY <1>1, <1>4, <1>5, <1>6, <2>2, <3>1, <3>2 DEF Keeps
  <2> QED BY <2>1, <2>2
<1>9. stop' \in [Uploads -> {"none", "asked", "marked", "done"}] BY <1>0, <1>1 DEF TypeOK
<1> QED BY <1>1, <1>3, <1>4, <1>7, <1>8, <1>9, NoRequestFacts, DrawerMoves

\* A chunk is in: on to the next.
LEMMA StepNextChunk ==
    ASSUME IInv, UNCHANGED <<agentVars, restarts>>, NEW u \in Uploads, NextChunk(u)
    PROVE  IInv'
<1>0. TypeOK BY DEF IInv
<1>1. /\ Answered(u, Replies) /\ Received(u)
      /\ UNCHANGED <<stop, page, upLoading, canceling, controller, activeChunkUpload>>
  BY DEF NextChunk, Answered, Replies, drawerVars
<1>2. /\ chunk' \in [Uploads -> Chunks] /\ \A v \in Uploads \ {u} : chunk'[v] = chunk[v]
  <2>1. PICK x \in Chunks : x = chunk[u] BY <1>0 DEF TypeOK
  <2>2. ~ IsLast(x) BY <2>1 DEF NextChunk, LastChunk
  <2>3. PICK y \in Chunks : y = x + 1 BY <2>2, ChunkFacts
  <2>4. chunk' = [chunk EXCEPT ![u] = y] BY <2>1, <2>3 DEF NextChunk
  <2> QED BY <1>0, <2>4 DEF TypeOK
<1>3. retries' \in [Uploads -> 0 .. MAX_CHUNK_RETRIES]
  BY <1>0, RetriesAssumption DEF TypeOK, NextChunk
<1>4. /\ at' \in [Uploads -> {"new", "checking", "sending", "waiting", "backoff",
                              "stopping", "succeeded", "ended"}]
      /\ at'[u] = "sending" /\ \A v \in Uploads \ {u} : at'[v] = at[v]
  BY <1>0 DEF TypeOK, NextChunk
<1>5. /\ live' \in [Uploads -> Requests \cup {None}] /\ live'[u] = None
      /\ \A v \in Uploads \ {u} : live'[v] = live[v]
  BY <1>0 DEF TypeOK, NextChunk
<1>6. PageType' BY <1>0, <1>1, <1>2, <1>3, <1>4, <1>5 DEF TypeOK, PageType
<1>7. Others(u) BY <1>2, <1>4, <1>5 DEF Others
<1>8. stop' \in [Uploads -> {"none", "asked", "marked", "done"}] BY <1>0, <1>1 DEF TypeOK
<1> QED BY <1>1, <1>4, <1>5, <1>6, <1>7, <1>8, LetsGoOfRequest

\* Success is reported on the answer to the last chunk, which the agent gives only
\* once the file is in place.
LEMMA StepSucceed ==
    ASSUME IInv, UNCHANGED <<agentVars, restarts>>, NEW u \in Uploads, Succeed(u)
    PROVE  IInv'
<1>0. TypeOK /\ WaitOK(u) /\ \A r \in Requests : AnswerOK(r) BY DEF IInv
<1>1. Answered(u, Replies) /\ Received(u) /\ UNCHANGED <<stop, canceling>>
  BY DEF Succeed, Answered, Replies
<1>2. PICK r \in Requests : r = live[u] BY <1>0, <1>1 DEF TypeOK, Answered
<1>3. req[r].u = u /\ req[r].c = chunk[u] /\ req[r].at = "ok" /\ IsLast(req[r].c)
  BY <1>0, <1>1, <1>2 DEF WaitOK, Succeed, Answered, LastChunk
<1>4. u \in finalized BY <1>0, <1>3 DEF AnswerOK
<1>5. PICK how \in {"succeeded", "ended"} : how = "succeeded" OBVIOUS
<1>6. Finish(u, how) BY <1>5 DEF Succeed
<1>7. activeChunkUpload' \in [Pages -> Uploads \cup {None}]
  <2>1. PICK x : x = IF activeChunkUpload[page[u]] = u THEN None ELSE activeChunkUpload[page[u]]
    OBVIOUS
  <2>2. activeChunkUpload' = [activeChunkUpload EXCEPT ![page[u]] = x] BY <2>1 DEF Succeed
  <2>3. page[u] \in Pages => x \in Uploads \cup {None} BY <1>0, <2>1 DEF TypeOK
  <2> QED BY <1>0, <2>2, <2>3 DEF TypeOK
<1>8. PageType' /\ live'[u] = None /\ Others(u)
  BY <1>0, <1>1, <1>6, <1>7, Finishes DEF PageType, TypeOK
<1>9. stop' \in [Uploads -> {"none", "asked", "marked", "done"}] BY <1>0, <1>1 DEF TypeOK
<1> QED BY <1>1, <1>4, <1>8, <1>9, LetsGoOfRequest

\* An error, or no answer: another attempt or the end.
LEMMA StepFails ==
    ASSUME IInv, UNCHANGED <<agentVars, restarts>>, NEW u \in Uploads,
           Refused(u) \/ Failed(u) \/ Unanswered(u)
    PROVE  IInv'
<1>1. req' = req \/ (Answered(u, Replies) /\ Received(u))
  BY DEF Refused, Failed, Unanswered, Answered, Replies
<1>2. CASE Backoff(u) BY <1>1, <1>2, BacksOff, LetsGoOfRequest
<1>3. CASE Throw(u) BY <1>1, <1>3, Throws, LetsGoOfRequest
<1> QED BY <1>2, <1>3 DEF Refused, Failed, Unanswered

\* The stop has returned.
LEMMA StepStopped ==
    ASSUME IInv, UNCHANGED <<agentVars, restarts>>, NEW u \in Uploads, Stopped(u)
    PROVE  IInv'
<1>0. TypeOK BY DEF IInv
<1>1. PICK how \in {"succeeded", "ended"} : how = "ended" OBVIOUS
<1>2. Finish(u, how) /\ UNCHANGED <<req, stop, canceling, activeChunkUpload>>
  BY <1>1 DEF Stopped, linkVars
<1>3. PageType' /\ live'[u] = None /\ Others(u) /\ at'[u] # "succeeded"
  BY <1>0, <1>1, <1>2, Finishes DEF PageType, TypeOK
<1>4. stop' \in [Uploads -> {"none", "asked", "marked", "done"}] BY <1>0, <1>2 DEF TypeOK
<1> QED BY <1>2, <1>3, <1>4, LetsGoOfRequest

\* Any set of invocations may unwind.
LEMMA Unwinds ==
    ASSUME IInv, NEW S, Unwind(S)
    PROVE  /\ at' \in [Uploads -> {"new", "checking", "sending", "waiting", "backoff",
                                   "stopping", "succeeded", "ended"}]
           /\ page' \in [Uploads -> Pages \cup {None}]
           /\ chunk' \in [Uploads -> Chunks]
           /\ retries' \in [Uploads -> 0 .. MAX_CHUNK_RETRIES]
           /\ live' \in [Uploads -> Requests \cup {None}]
           /\ \A u \in Uploads : /\ live'[u] = None \/ (live'[u] = live[u] /\ chunk'[u] = chunk[u])
                                 /\ at'[u] = "succeeded" => at[u] = "succeeded"
<1>0. TypeOK BY DEF IInv
<1>1. /\ at' \in [Uploads -> {"new", "checking", "sending", "waiting", "backoff",
                              "stopping", "succeeded", "ended"}]
      /\ \A u \in Uploads : at'[u] = "succeeded" => at[u] = "succeeded"
  BY <1>0 DEF Unwind, TypeOK
<1>2. page' \in [Uploads -> Pages \cup {None}] BY <1>0 DEF Unwind, TypeOK
<1>3. chunk' \in [Uploads -> Chunks] BY <1>0, ChunkFacts DEF Unwind, TypeOK
<1>4. retries' \in [Uploads -> 0 .. MAX_CHUNK_RETRIES]
  BY <1>0, RetriesAssumption DEF Unwind, TypeOK
<1>5. /\ live' \in [Uploads -> Requests \cup {None}]
      /\ \A u \in Uploads : live'[u] = None \/ (live'[u] = live[u] /\ chunk'[u] = chunk[u])
  BY <1>0 DEF Unwind, TypeOK
<1> QED BY <1>1, <1>2, <1>3, <1>4, <1>5

\* The drawer is cancelled.
LEMMA StepCancel ==
    ASSUME IInv, UNCHANGED <<agentVars, restarts>>, NEW p \in Pages, Cancel(p)
    PROVE  IInv'
<1>0. TypeOK BY DEF IInv
<1>1. PICK S : Unwind(S) BY DEF Cancel
<1>2. /\ stop' \in [Uploads -> {"none", "asked", "marked", "done"}]
      /\ \A u \in Uploads : stop'[u] \in {stop[u], "asked"}
      /\ activeChunkUpload' \in [Pages -> Uploads \cup {None}]
  BY <1>0, AsksToStop DEF Cancel
<1>3. /\ upLoading' \in [Pages -> BOOLEAN] /\ controller' \in [Pages -> Uploads \cup {None}]
      /\ UNCHANGED <<diskVars, memoryVars, restarts, req>>
      /\ overwrite' \in [Uploads -> BOOLEAN]
  BY <1>0 DEF Cancel, TypeOK, agentVars
<1>4. canceling' \in [Pages -> {"no", "asking", "stopping"}]
  <2>1. PICK x \in {"no", "asking", "stopping"} :
           x = IF activeChunkUpload[p] # None THEN "stopping" ELSE "no"
    OBVIOUS
  <2>2. canceling' = [canceling EXCEPT ![p] = x] BY <2>1 DEF Cancel
  <2> QED BY <1>0, <2>2 DEF TypeOK
<1>5. PageType' BY <1>1, <1>2, <1>3, <1>4, Unwinds DEF PageType
<1>6. \A u \in Uploads : Keeps(u) BY <1>1, <1>3, Unwinds DEF Keeps
<1>7. req' \in [Requests -> RequestType] BY <1>0, <1>3 DEF TypeOK, RequestType
<1> QED BY <1>2, <1>3, <1>5, <1>6, <1>7, DrawerMoves

\* The tab is closed.
LEMMA StepTabCloses ==
    ASSUME IInv, UNCHANGED <<agentVars, restarts>>, NEW p \in Pages, TabCloses(p)
    PROVE  IInv'
<1>0. TypeOK BY DEF IInv
<1>1. PICK S : Unwind(S) BY DEF TabCloses
<1>2. /\ upLoading' \in [Pages -> BOOLEAN] /\ controller' \in [Pages -> Uploads \cup {None}]
      /\ canceling' \in [Pages -> {"no", "asking", "stopping"}]
      /\ activeChunkUpload' \in [Pages -> Uploads \cup {None}]
  BY <1>0 DEF TabCloses, TypeOK
<1>3. /\ UNCHANGED <<diskVars, memoryVars, restarts, req, stop>>
      /\ overwrite' \in [Uploads -> BOOLEAN]
  BY <1>0 DEF TabCloses, TypeOK, agentVars, linkVars
<1>4. PageType' BY <1>1, <1>2, Unwinds DEF PageType
<1> QED BY <1>1, <1>3, <1>4, Unwinds, DrawerRests

\* The question whether to stop, and the end of the drawer.
LEMMA StepClose ==
    ASSUME IInv, UNCHANGED <<agentVars, restarts>>, NEW p \in Pages,
           RequestClose(p) \/ KeepUploading(p) \/ Close(p)
    PROVE  IInv'
<1>0. TypeOK BY DEF IInv
<1>1. UNCHANGED <<at, page, chunk, retries, live, controller, activeChunkUpload, req, stop>>
  BY DEF RequestClose, KeepUploading, Close, invocationVars, linkVars
<1>2. canceling' \in [Pages -> {"no", "asking", "stopping"}] /\ upLoading' \in [Pages -> BOOLEAN]
  BY <1>0 DEF RequestClose, KeepUploading, Close, TypeOK
<1>3. UNCHANGED <<diskVars, memoryVars>> /\ overwrite' \in [Uploads -> BOOLEAN]
  BY <1>0 DEF TypeOK, agentVars
<1>4. PageType' BY <1>0, <1>1, <1>2 DEF PageType, TypeOK
<1> QED BY <1>1, <1>3, <1>4, DrawerRests

-----------------------------------------------------------------------------
(* The theorems. *)

\* The invariant holds before anything is uploaded.
LEMMA InitIInv == Init => IInv
<1> SUFFICES ASSUME Init PROVE IInv OBVIOUS
<1> USE DEF Init, LinkInit, AgentInit, PageInit
<1>1. \A r \in Requests : req[r].u = None /\ req[r].at = "free" BY NoRequestFacts
<1>2. TypeOK
  <2>1. req \in [Requests -> [u : Uploads \cup {None}, c : Chunks, at : Stages]]
    BY NoRequestFacts DEF RequestType
  <2>2. chunk \in [Uploads -> Chunks] /\ retries \in [Uploads -> 0 .. MAX_CHUNK_RETRIES]
        /\ restarts \in 0 .. MaxRestarts
    BY ChunkFacts, RetriesAssumption, RestartsAssumption
  <2> QED BY <2>1, <2>2 DEF TypeOK
<1>3. ASSUME NEW u \in Uploads PROVE PartOK(u) /\ StopOK(u) /\ WaitOK(u)
  BY DEF PartOK, StopOK, WaitOK
<1>4. ASSUME NEW r \in Requests PROVE LockOK(r) /\ AnswerOK(r)
  BY <1>1 DEF LockOK, AnswerOK, Holding
<1>5. completed \subseteq finalized /\ DestOK /\ FailedIsUndone BY DEF DestOK, FailedIsUndone
<1> QED BY <1>2, <1>3, <1>4, <1>5 DEF IInv

\* No step of the agent breaks the invariant.
LEMMA AgentIInv ==
    ASSUME IInv, Agent, UNCHANGED <<pageVars, restarts>>
    PROVE  IInv'
<1>1. ASSUME NEW r \in Requests, Handles(r) PROVE IInv'
  BY <1>1, StepWriteRefused, StepWriteCompleted, StepWriteExists, StepWrite,
     StepRename, StepLink, StepRemovePart, StepRollBack,
     StepFinalizeRefused, StepFinalizeFails, StepUnmark DEF Handles
<1>2. ASSUME NEW u \in Uploads, Stops(u) \/ DropStop(u) PROVE IInv'
  BY <1>2, StepMark, StepRemoveActive, StepRemoveFails DEF Stops
<1> QED BY <1>1, <1>2, StepDrop, StepExpire, StepForgetCompleted, StepForgetCancelled DEF Agent

\* No step of a drawer or its user breaks the invariant.
LEMMA DrawerIInv ==
    ASSUME IInv, User \/ Drawer, UNCHANGED <<agentVars, restarts>>
    PROVE  IInv'
<1>1. ASSUME NEW u \in Uploads, Proceeds(u) \/ Unanswered(u) PROVE IInv'
  BY <1>1, StepSend, StepNextChunk, StepSucceed, StepFails, StepStopped DEF Proceeds
<1>2. CASE Drawer BY <1>1, <1>2, StepClose DEF Drawer
<1>3. CASE User BY <1>3, StepSubmit, StepClose, StepCancel, StepTabCloses DEF User
<1> QED BY <1>2, <1>3

\* A step that changes nothing breaks nothing.
LEMMA StutterIInv ==
    ASSUME IInv, UNCHANGED vars
    PROVE  IInv'
<1>1. UNCHANGED <<req, stop, part, dst, finalized, strays, active, completed, cancelled, orphans,
                  overwrite, at, page, chunk, retries, live, upLoading, canceling, controller,
                  activeChunkUpload, restarts>>
  BY DEF vars, linkVars, agentVars, diskVars, memoryVars, pageVars, invocationVars, drawerVars
<1>2. TypeOK' BY <1>1 DEF IInv, TypeOK
<1>3. ASSUME NEW u \in Uploads PROVE PartOK(u)' /\ StopOK(u)' /\ WaitOK(u)'
  BY <1>1 DEF IInv, PartOK, StopOK, WaitOK
<1>4. ASSUME NEW r \in Requests PROVE LockOK(r)' /\ AnswerOK(r)'
  BY <1>1 DEF IInv, LockOK, AnswerOK
<1>5. completed' \subseteq finalized' /\ DestOK' /\ FailedIsUndone'
  BY <1>1 DEF IInv, DestOK, FailedIsUndone
<1> QED BY <1>2, <1>3, <1>4, <1>5 DEF IInv

\* Every step of the drawers and of the agent preserves the invariant.
THEOREM Inductive == Spec => []IInv
<1>1. IInv /\ [Next]_vars => IInv'
  <2> SUFFICES ASSUME IInv, [Next]_vars PROVE IInv' OBVIOUS
  <2>1. CASE Agent /\ UNCHANGED <<pageVars, restarts>> BY <2>1, AgentIInv
  <2>2. CASE (User \/ Drawer) /\ UNCHANGED <<agentVars, restarts>> BY <2>2, DrawerIInv
  <2>3. CASE \E u \in Uploads : StartUpload(u) /\ UNCHANGED restarts BY <2>3, StepStartUpload
  <2>4. CASE RestartAgent BY <2>4, StepRestart
  <2>5. CASE OthersWrite BY <2>5, StepOthersWrite
  <2>6. CASE UNCHANGED vars BY <2>6, StutterIInv
  <2> QED BY <2>1, <2>2, <2>3, <2>4, <2>5, <2>6 DEF Next
<1> QED BY <1>1, InitIInv, PTL DEF Spec

\* An upload only ever places a whole file.
THEOREM PlacedFilesAreWhole == Spec => []DestinationIsWhole
<1>1. IInv => DestinationIsWhole BY DEF IInv, DestOK, WholeFile, DestinationIsWhole
<1> QED BY <1>1, Inductive, PTL

\* A drawer that reports success has had its file placed.
THEOREM SuccessesAreTrue == Spec => []SuccessIsTrue
<1>1. IInv => SuccessIsTrue BY DEF IInv, WaitOK, SuccessIsTrue
<1> QED BY <1>1, Inductive, PTL

\* A part is known to the agent, unless it is from before a restart or the agent has
\* tried to remove it and failed; a stop that returned has removed what was known.
THEOREM PartsStayKnown == Spec => []PartsAreConsistent
<1>1. IInv => PartsAreConsistent
  <2> SUFFICES ASSUME IInv PROVE PartsAreConsistent OBVIOUS
  <2>1. PartsAreOwned BY DEF IInv, PartOK, PartsAreOwned
  <2>2. StoppedIsGone BY DEF IInv, PartOK, StopOK, StoppedIsGone
  <2> QED BY <2>1, <2>2 DEF IInv, PartsAreConsistent
<1> QED BY <1>1, Inductive, PTL

\* A file that an upload left at the destination is that of a completed upload, or
\* of one whose link could not be taken back.
THEOREM FailedUploadsAreUndone == Spec => []FailedIsUndone
<1>1. IInv => FailedIsUndone BY DEF IInv
<1> QED BY <1>1, Inductive, PTL
=============================================================================
