----------------------------- MODULE UploadAgent ----------------------------
(***************************************************************************)
(* Resumable uploads in the agent (agent/app/api/v2/file.go). Chunks are   *)
(* written to a part file under the lock of their upload; the last one     *)
(* turns the part into the destination file. What is known of an upload    *)
(* (active, completed, cancelled) is in memory, parts are on the disk.     *)
(***************************************************************************)
EXTENDS UploadLink

VARIABLES
    part,       \* the part file of every upload: a sequence of cells, or None
    dst,        \* the destination: None, or who wrote it and its cells
    overwrite,  \* form field of the upload
    active,     \* activeChunkUploads
    completed,  \* completedChunkUploads
    cancelled,  \* cancelledChunkUploads
    orphans,    \* uploads whose part nobody knows and that was not written since:
                \* it was left by an earlier run, or could not be removed
    finalized,  \* uploads that became the destination, now or before
    strays      \* uploads whose link could not be taken back, or was cut short

diskVars == <<part, dst, finalized, strays>>
memoryVars == <<active, completed, cancelled, orphans>>
agentVars == <<diskVars, memoryVars, overwrite>>

AgentInit ==
    /\ part = [u \in Uploads |-> None]
    /\ dst = None
    /\ overwrite = [u \in Uploads |-> FALSE]
    /\ active = {} /\ completed = {} /\ cancelled = {} /\ orphans = {}
    /\ finalized = {} /\ strays = {}

\* The lock of an upload is held between the write of its last chunk and the
\* end of the finalization; every other critical section is one action.
Holding == {"wrote", "linked"}
Unlocked(u) == \A r \in Requests : ~ (req[r].u = u /\ req[r].at \in Holding)

Goes(r, to) == req' = [req EXCEPT ![r].at = to]
Replies == {"ok", "refused", "failed"}

-----------------------------------------------------------------------------
(* UploadChunkFiles *)

\* POSIX pwrite behind the end of a file leaves a hole.
WriteAt(s, off, n) ==
    [k \in 1 .. Max({Len(s), off + n}) |->
       IF k \in off + 1 .. off + n THEN "data" ELSE IF k <= Len(s) THEN s[k] ELSE "hole"]

\* A chunk that reaches past what is there replaces it.
Truncated(s, c) ==
    IF Offset(c) < Len(s) /\ Len(s) < ChunkEnd(c) THEN SubSeq(s, 1, Offset(c)) ELSE s

Opened(u) == IF part[u] = None THEN <<>> ELSE part[u]

CancelSeen_NotAgain(u) == FALSE
CancelSeen(u) == u \in cancelled
AlreadyCompleted_Active(u) == u \in completed \cup active
AlreadyCompleted(u) == u \in completed
OffsetFits_Any(s, c) == TRUE
OffsetFits(s, c) == Offset(c) <= Len(s)
Registered(u, c) == active \cup {u}

\* writeResumableUploadChunk up to the write. UploadChunkFiles asks twice before
\* whether the upload is cancelled, which only refuses it earlier.
WriteRefused(r) ==
    /\ req[r].at = "sent"
    /\ Unlocked(req[r].u)
    /\ CancelSeen(req[r].u)
    /\ Goes(r, "refused")
    /\ UNCHANGED <<stop, agentVars>>

WriteCompleted(r) ==
    /\ req[r].at = "sent"
    /\ Unlocked(req[r].u)
    /\ ~ CancelSeen(req[r].u)
    /\ AlreadyCompleted(req[r].u)
    /\ Goes(r, IF IsLast(req[r].c) THEN "stored" ELSE "ok")
    /\ UNCHANGED <<stop, agentVars>>

Writes(r) ==
    /\ req[r].at = "sent"
    /\ Unlocked(req[r].u)
    /\ ~ CancelSeen(req[r].u)
    /\ ~ AlreadyCompleted(req[r].u)

PartRemoved(u) ==
    /\ part' = [part EXCEPT ![u] = None]
    /\ orphans' = orphans \ {u}

\* discardActiveChunkUpload: the upload is forgotten first, and then its part may
\* turn out not to be removable.
Discard(u) ==
    /\ active' = active \ {u}
    /\ \/ PartRemoved(u)
       \/ part[u] # None /\ UNCHANGED part /\ orphans' = orphans \cup {u}

Exists(u) == dst # None /\ ~ overwrite[u]

WriteExists(r) ==
    /\ Writes(r)
    /\ Exists(req[r].u)
    /\ Discard(req[r].u)
    /\ Goes(r, "refused")
    /\ UNCHANGED <<stop, dst, finalized, strays, completed, cancelled, overwrite>>

\* The directory or the part cannot be opened; or the chunk starts behind the end
\* of the part, which has been created by then; or it is written. A full disk or
\* another error may come at any point of the write, and the rest is written by
\* the retry.
Write(r) ==
    LET u == req[r].u
        c == req[r].c
        s == Opened(u)
    IN
    /\ Writes(r)
    /\ ~ Exists(u)
    /\ active' = Registered(u, c)
    /\ orphans' = orphans \ {u}
    /\ \/ /\ UNCHANGED part
          /\ \E answer \in {"refused", "failed"} : Goes(r, answer)
       \/ /\ ~ OffsetFits(s, c)
          /\ part' = [part EXCEPT ![u] = s]
          /\ Goes(r, "refused")
       \/ /\ OffsetFits(s, c)
          /\ \E n \in 0 .. ChunkEnd(c) - Offset(c) - 1, answer \in {"refused", "failed"} :
                /\ part' = [part EXCEPT ![u] = WriteAt(Truncated(s, c), Offset(c), n)]
                /\ Goes(r, answer)
       \/ /\ OffsetFits(s, c)
          /\ part' = [part EXCEPT
                        ![u] = WriteAt(Truncated(s, c), Offset(c), ChunkEnd(c) - Offset(c))]
          /\ Goes(r, IF ~ IsLast(c) THEN "ok"
                     ELSE IF Len(part'[u]) = FileSize THEN "wrote" ELSE "refused")
    /\ UNCHANGED <<stop, dst, finalized, strays, completed, cancelled, overwrite>>

\* finalizeUploadedFile: rename replaces the destination and takes the part away in
\* one step, link refuses to replace it and leaves the part to be removed.
Place(r) ==
    /\ req[r].at = "wrote"
    /\ req[r].u \notin cancelled
    /\ dst' = [by |-> req[r].u, cells |-> part[req[r].u]]

Complete(r) ==
    LET u == req[r].u IN
    /\ finalized' = finalized \cup {u}
    /\ part' = [part EXCEPT ![u] = None]
    /\ completed' = completed \cup {u}
    /\ active' = active \ {u}
    /\ Goes(r, "stored")
    /\ UNCHANGED <<stop, strays, cancelled, orphans, overwrite>>

Rename(r) ==
    /\ Place(r)
    /\ overwrite[req[r].u]
    /\ Complete(r)

Link(r) ==
    /\ Place(r)
    /\ ~ overwrite[req[r].u]
    /\ dst = None
    /\ Goes(r, "linked")
    /\ UNCHANGED <<stop, part, finalized, strays, memoryVars, overwrite>>

RemovePart(r) ==
    /\ req[r].at = "linked"
    /\ Complete(r)
    /\ UNCHANGED dst

\* What is at the destination by now is removed, or cannot be removed.
TakeBack_Not(u) == UNCHANGED <<dst, strays>>
TakeBack(u) ==
    \/ dst' = None /\ UNCHANGED strays
    \/ UNCHANGED dst /\ strays' = strays \cup {u}

\* The part cannot be removed: the link is taken back, and another attempt is made
\* at the part.
RollBack(r) ==
    /\ req[r].at = "linked"
    /\ TakeBack(req[r].u)
    /\ Discard(req[r].u)
    /\ \E answer \in {"refused", "failed"} : Goes(r, answer)
    /\ UNCHANGED <<stop, finalized, completed, cancelled, overwrite>>

\* The upload was cancelled meanwhile, or the mode or the owner cannot be set:
\* the part stays.
FinalizeRefused(r) ==
    /\ req[r].at = "wrote"
    /\ \/ Goes(r, "refused")
       \/ req[r].u \notin cancelled /\ Goes(r, "failed")
    /\ UNCHANGED <<stop, agentVars>>

\* The destination exists, or the file system refuses to link or to rename.
FinalizeFails(r) ==
    /\ req[r].at = "wrote"
    /\ req[r].u \notin cancelled
    /\ \E answer \in {"refused", "failed"} : Goes(r, answer)
    /\ Discard(req[r].u)
    /\ UNCHANGED <<stop, dst, finalized, strays, completed, cancelled, overwrite>>

\* The mark of a stop is removed when the last chunk is in; the lock is not held.
Unmark(r) ==
    LET u == req[r].u IN
    /\ req[r].at = "stored"
    /\ cancelled' = cancelled \ {u}
    /\ Goes(r, "ok")
    /\ UNCHANGED <<stop, diskVars, active, completed, orphans, overwrite>>

-----------------------------------------------------------------------------
(* StopChunkUpload and the timers *)

Mark(u) ==
    /\ stop[u] = "asked"
    /\ stop' = [stop EXCEPT ![u] = "marked"]
    /\ cancelled' = cancelled \cup {u}
    /\ UNCHANGED <<req, diskVars, active, completed, orphans, overwrite>>

\* removeActiveResumableUploadPart
RemoveActive(u) ==
    /\ stop[u] = "marked"
    /\ Unlocked(u)
    /\ IF u \in active
         THEN active' = active \ {u} /\ PartRemoved(u)
         ELSE UNCHANGED <<active, part, orphans>>
    /\ stop' = [stop EXCEPT ![u] = "done"]
    /\ UNCHANGED <<req, dst, finalized, strays, completed, cancelled, overwrite>>

\* The part cannot be removed: the upload stays active and the timer is left.
RemoveFails(u) ==
    /\ stop[u] = "marked"
    /\ Unlocked(u)
    /\ u \in active
    /\ stop' = [stop EXCEPT ![u] = "none"]
    /\ UNCHANGED <<req, agentVars>>

\* expireActiveChunkUpload, 24 hours after the last chunk. It too forgets the upload
\* first, and only logs that the part could not be removed.
Expirable_Never(u) == FALSE
Expirable(u) == u \in active
Expire(u) ==
    /\ Expirable(u)
    /\ Unlocked(u)
    /\ Discard(u)
    /\ UNCHANGED <<linkVars, dst, finalized, strays, completed, cancelled, overwrite>>

\* Ten minutes pass; no request is under way for that long.
Quiet(u) == stop[u] \in {"none", "done"} /\ \A r \in Requests : req[r].u # u
ForgetCompleted(u) ==
    /\ u \in completed
    /\ Quiet(u)
    /\ completed' = completed \ {u}
    /\ stop' = [stop EXCEPT ![u] = IF @ = "done" /\ u \notin cancelled THEN "none" ELSE @]
    /\ UNCHANGED <<req, diskVars, active, cancelled, orphans, overwrite>>

ForgetCancelled(u) ==
    /\ u \in cancelled
    /\ Quiet(u)
    /\ cancelled' = cancelled \ {u}
    /\ stop' = [stop EXCEPT ![u] = "none"]
    /\ UNCHANGED <<req, diskVars, active, completed, orphans, overwrite>>

\* The agent is restarted: what it was doing and what was in memory is gone, what
\* is on the network is not.
Lost == Holding \cup {"stored"}
Restart ==
    /\ req' = [r \in Requests |-> IF req[r].at \in Lost THEN NoRequest ELSE req[r]]
    /\ stop' = [u \in Uploads |-> IF stop[u] = "asked" THEN "asked" ELSE "none"]
    /\ active' = {} /\ completed' = {} /\ cancelled' = {}
    /\ orphans' = {u \in Uploads : part[u] # None}
    /\ strays' = strays \cup {req[r].u : r \in {q \in Requests : req[q].at = "linked"}}
    /\ UNCHANGED <<part, dst, finalized, overwrite>>

Handles(r) ==
    \/ WriteRefused(r) \/ WriteCompleted(r) \/ WriteExists(r) \/ Write(r)
    \/ Rename(r) \/ Link(r) \/ RemovePart(r) \/ RollBack(r)
    \/ FinalizeRefused(r) \/ FinalizeFails(r) \/ Unmark(r)
Stops(u) == Mark(u) \/ RemoveActive(u) \/ RemoveFails(u)
=============================================================================
