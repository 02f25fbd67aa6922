----------------------------- MODULE ChunkUpload ----------------------------
(***************************************************************************)
(* Upload drawers and the agent together. All uploads go to the same       *)
(* destination, from one drawer or from several, and others write there    *)
(* too; answers are lost, requests are executed late, and the agent is     *)
(* restarted.                                                              *)
(***************************************************************************)
EXTENDS UploadAgent, UploadPage

CONSTANT MaxRestarts
ASSUME RestartsAssumption == MaxRestarts \in Nat

VARIABLE restarts

vars == <<linkVars, agentVars, pageVars, restarts>>

Init == LinkInit /\ AgentInit /\ PageInit /\ restarts = 0

\* Somebody else creates or removes the destination.
Other == [by |-> None, cells |-> <<>>]
OthersWrite ==
    /\ dst' \in {None, Other} \ {dst}
    /\ UNCHANGED <<linkVars, part, finalized, strays, memoryVars, overwrite, pageVars, restarts>>

\* overwrite is asked for only if batchCheckFiles found the destination. It looked
\* there before the user was asked: what others write in between, they may as well
\* write right after the start.
StartUpload(u) ==
    /\ Start(u)
    /\ overwrite' = [overwrite EXCEPT ![u] = dst # None]
    /\ UNCHANGED <<diskVars, memoryVars>>

\* Nobody waits for the request: it is lost on its way, or its answer is not read.
Awaited(r) == \E u \in Uploads : live[u] = r
Drop(r) ==
    /\ req[r].at \in {"sent"} \cup Replies
    /\ ~ Awaited(r)
    /\ req' = [req EXCEPT ![r] = NoRequest]
    /\ UNCHANGED <<stop, agentVars>>

\* The request to stop is lost.
DropStop(u) ==
    /\ stop[u] = "asked"
    /\ stop' = [stop EXCEPT ![u] = "none"]
    /\ UNCHANGED <<req, agentVars>>

RestartAgent ==
    /\ restarts < MaxRestarts
    /\ restarts' = restarts + 1
    /\ Restart
    /\ live' = [u \in Uploads |->
                  IF live[u] # None /\ req[live[u]].at \in Lost THEN None ELSE live[u]]
    /\ UNCHANGED <<at, page, chunk, retries, drawerVars>>

Agent ==
    \/ \E r \in Requests : Handles(r) \/ Drop(r)
    \/ \E u \in Uploads : \/ Stops(u) \/ DropStop(u) \/ Expire(u)
                          \/ ForgetCompleted(u) \/ ForgetCancelled(u)
User ==
    \/ \E p \in Pages, u \in Uploads : Submit(p, u)
    \/ \E u \in Uploads : Skip(u)
    \/ \E p \in Pages : RequestClose(p) \/ KeepUploading(p) \/ Cancel(p) \/ TabCloses(p)
Drawer ==
    \/ \E u \in Uploads : Proceeds(u) \/ Unanswered(u)
    \/ \E p \in Pages : Close(p)

Next ==
    \/ Agent /\ UNCHANGED <<pageVars, restarts>>
    \/ (User \/ Drawer) /\ UNCHANGED <<agentVars, restarts>>
    \/ \E u \in Uploads : StartUpload(u) /\ UNCHANGED restarts
    \/ RestartAgent
    \/ OthersWrite

\* The agent handles what reaches it and its timers fire; the page goes on with
\* what it is told, and a wait for a lost request fails in the end.
Given(u) == Proceeds(u) \/ (live[u] = None /\ Unanswered(u))
Fairness ==
    /\ \A r \in Requests :
          /\ WF_vars(Handles(r) /\ UNCHANGED <<pageVars, restarts>>)
          /\ WF_vars(Drop(r) /\ UNCHANGED <<pageVars, restarts>>)
    /\ \A u \in Uploads :
          /\ WF_vars(Stops(u) /\ UNCHANGED <<pageVars, restarts>>)
          /\ WF_vars(Expire(u) /\ UNCHANGED <<pageVars, restarts>>)
          /\ WF_vars(Given(u) /\ UNCHANGED <<agentVars, restarts>>)

Spec == Init /\ [][Next]_vars /\ Fairness
-----------------------------------------------------------------------------
Cells == {"data", "hole"}
Files == UNION {[1 .. n -> Cells] : n \in 0 .. FileSize}
FilesInPlace == [by : Uploads \cup {None}, cells : Files]
ASSUME NoFileAssumption == None \notin FilesInPlace
Stages == {"free", "sent"} \cup Lost \cup Replies

\* Type invariant.
TypeOK ==
    /\ req \in [Requests -> [u : Uploads \cup {None}, c : Chunks, at : Stages]]
    /\ stop \in [Uploads -> {"none", "asked", "marked", "done"}]
    /\ part \in [Uploads -> Files \cup {None}]
    /\ dst \in FilesInPlace \cup {None}
    /\ overwrite \in [Uploads -> BOOLEAN]
    /\ active \subseteq Uploads /\ completed \subseteq Uploads
    /\ cancelled \subseteq Uploads /\ orphans \subseteq Uploads
    /\ finalized \subseteq Uploads /\ strays \subseteq Uploads
    /\ at \in [Uploads -> {"new", "checking", "sending", "waiting", "backoff",
                           "stopping", "succeeded", "ended"}]
    /\ page \in [Uploads -> Pages \cup {None}]
    /\ chunk \in [Uploads -> Chunks]
    /\ retries \in [Uploads -> 0 .. MAX_CHUNK_RETRIES]
    /\ live \in [Uploads -> Requests \cup {None}]
    /\ upLoading \in [Pages -> BOOLEAN]
    /\ canceling \in [Pages -> {"no", "asking", "stopping"}]
    /\ controller \in [Pages -> Uploads \cup {None}]
    /\ activeChunkUpload \in [Pages -> Uploads \cup {None}]
    /\ restarts \in 0 .. MaxRestarts

\* The destination is always one whole file, never a mixture, a prefix or a file
\* with a hole, however chunks are retried, repeated, cut short or delayed.
DestinationIsWhole ==
    dst # None /\ dst.by # None => dst.cells = [k \in 1 .. FileSize |-> "data"]

\* A file an upload has put at the destination is there for good only if the upload
\* was completed: one that fails takes its link back, unless that is refused too or
\* the agent stops in between (file.go:937-951, 998-1006).
FailedIsUndone ==
    dst # None /\ dst.by # None =>
       \/ dst.by \in finalized
       \/ \E r \in Requests : req[r].u = dst.by /\ req[r].at = "linked"
       \/ dst.by \in strays

\* A drawer that reports success has its file in place, or had it there.
SuccessIsTrue == \A u \in Uploads : at[u] = "succeeded" => u \in finalized

\* After a stop has returned no part of the upload is left and no late chunk
\* brings it back, as long as the agent remembers the stop; a part it did not know
\* of by then is left.
StoppedIsGone ==
    \A u \in Uploads : stop[u] = "done" => u \notin active /\ (part[u] = None \/ u \in orphans)

\* A part file is known to the agent, so that a stop or the timer will try to remove
\* it, unless it is from before a restart or its removal has failed.
PartsAreOwned == \A u \in Uploads : part[u] # None => u \in active \cup orphans

\* The agent knows of every part file it has not tried to remove itself, and a stop
\* that succeeded has removed what it knew for good (file.go:953-1038, 1409-1436).
PartsAreConsistent ==
    /\ TypeOK
    /\ PartsAreOwned
    /\ StoppedIsGone

\* Every upload comes to an end.
UploadsEnd ==
    \A u \in Uploads : at[u] \in {"sending", "waiting", "backoff", "stopping"} ~>
                          at[u] \in {"succeeded", "ended"}

\* No part file stays for ever, whether its upload fails, is cancelled or its tab
\* is closed, unless the agent was restarted or failed to remove it and never heard
\* of it again.
PartsAreReclaimed ==
    \A u \in Uploads : part[u] # None ~> part[u] = None \/ u \in orphans
=============================================================================
