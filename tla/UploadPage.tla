------------------------------ MODULE UploadPage ----------------------------
(***************************************************************************)
(* The upload drawer of the panel                                          *)
(* (views/host/file-management/upload/index.vue). Every call of uploadFile *)
(* is an invocation that sends one file; a drawer may come to have several *)
(* of them. An invocation whose controller is aborted unwinds before       *)
(* anything else happens in its page, unless it waits for a stop.          *)
(***************************************************************************)
EXTENDS UploadLink

CONSTANT MAX_CHUNK_RETRIES
ASSUME RetriesAssumption == MAX_CHUNK_RETRIES \in Nat

VARIABLES
    at,          \* of every invocation: "new", "checking", "sending", "waiting",
                 \* "backoff", "stopping", "succeeded", "ended"
    page,        \* its drawer
    chunk,       \* c
    retries,     \* retryCount
    live,        \* the request it waits for
    upLoading,
    canceling,   \* "no", "asking" (ElMessageBox is shown), "stopping"
    controller,  \* abortController: the invocation it belongs to
    activeChunkUpload

invocationVars == <<at, page, chunk, retries, live>>
drawerVars == <<upLoading, canceling, controller, activeChunkUpload>>
pageVars == <<invocationVars, drawerVars>>

PageInit ==
    /\ at = [u \in Uploads |-> "new"]
    /\ page = [u \in Uploads |-> None]
    /\ chunk = [u \in Uploads |-> 0]
    /\ retries = [u \in Uploads |-> 0]
    /\ live = [u \in Uploads |-> None]
    /\ upLoading = [p \in Pages |-> FALSE]
    /\ canceling = [p \in Pages |-> "no"]
    /\ controller = [p \in Pages |-> None]
    /\ activeChunkUpload = [p \in Pages |-> None]

uploadLocked(p) == upLoading[p] \/ canceling[p] # "no"

-----------------------------------------------------------------------------
(* submit and uploadFile *)

\* The button is not disabled while batchCheckFiles is awaited.
Submit(p, u) ==
    /\ at[u] = "new"
    /\ ~ uploadLocked(p)
    /\ at' = [at EXCEPT ![u] = "checking"]
    /\ page' = [page EXCEPT ![u] = p]
    /\ UNCHANGED <<chunk, retries, live, drawerVars, linkVars>>

\* The user skips a file that exists, or the check fails.
Skip(u) ==
    /\ at[u] = "checking"
    /\ at' = [at EXCEPT ![u] = "ended"]
    /\ page' = [page EXCEPT ![u] = None]
    /\ UNCHANGED <<chunk, retries, live, drawerVars, linkVars>>

Start(u) ==
    /\ at[u] = "checking"
    /\ at' = [at EXCEPT ![u] = "sending"]
    /\ upLoading' = [upLoading EXCEPT ![page[u]] = TRUE]
    /\ controller' = [controller EXCEPT ![page[u]] = u]
    /\ activeChunkUpload' = [activeChunkUpload EXCEPT ![page[u]] = u]
    /\ UNCHANGED <<page, chunk, retries, live, canceling, linkVars>>

Sends(u) == u # None /\ at[u] \in {"sending", "waiting", "backoff"}

\* The invocations in S are over; what they knew is gone.
Unwind(S) ==
    /\ at' = [u \in Uploads |-> IF u \in S THEN "ended" ELSE at[u]]
    /\ page' = [u \in Uploads |-> IF u \in S THEN None ELSE page[u]]
    /\ chunk' = [u \in Uploads |-> IF u \in S THEN 0 ELSE chunk[u]]
    /\ retries' = [u \in Uploads |-> IF u \in S THEN 0 ELSE retries[u]]
    /\ live' = [u \in Uploads |-> IF u \in S THEN None ELSE live[u]]

\* The end of uploadFile; its finally resets the drawer, whoever uses it by now.
Finish(u, how) ==
    /\ at' = [at EXCEPT ![u] = how]
    /\ page' = [page EXCEPT ![u] = None]
    /\ chunk' = [chunk EXCEPT ![u] = 0]
    /\ retries' = [retries EXCEPT ![u] = 0]
    /\ live' = [live EXCEPT ![u] = None]
    /\ upLoading' = [upLoading EXCEPT ![page[u]] = FALSE]
    /\ controller' = [controller EXCEPT ![page[u]] = IF @ = u THEN None ELSE @]

-----------------------------------------------------------------------------
(* uploadChunkedFile and uploadChunkWithRetry *)

Send(u, r) ==
    /\ at[u] \in {"sending", "backoff"}
    /\ req[r] = NoRequest
    /\ req' = [req EXCEPT ![r] = [u |-> u, c |-> chunk[u], at |-> "sent"]]
    /\ at' = [at EXCEPT ![u] = "waiting"]
    /\ live' = [live EXCEPT ![u] = r]
    /\ UNCHANGED <<stop, page, chunk, retries, drawerVars>>

Answered(u, answers) == live[u] # None /\ req[live[u]].at \in answers

Received(u) == req' = [req EXCEPT ![live[u]] = NoRequest]

LastChunk(u) == IsLast(chunk[u])

NextChunk(u) ==
    /\ at[u] = "waiting"
    /\ Answered(u, {"ok"})
    /\ ~ LastChunk(u)
    /\ Received(u)
    /\ chunk' = [chunk EXCEPT ![u] = @ + 1]
    /\ retries' = [retries EXCEPT ![u] = 0]
    /\ at' = [at EXCEPT ![u] = "sending"]
    /\ live' = [live EXCEPT ![u] = None]
    /\ UNCHANGED <<stop, page, drawerVars>>

Succeed(u) ==
    /\ at[u] = "waiting"
    /\ Answered(u, {"ok"})
    /\ LastChunk(u)
    /\ Received(u)
    /\ Finish(u, "succeeded")
    /\ activeChunkUpload' = [activeChunkUpload EXCEPT ![page[u]] = IF @ = u THEN None ELSE @]
    /\ UNCHANGED <<stop, canceling>>

NextRetry_Same(u) == retries[u]
NextRetry(u) == retries[u] + 1

Backoff(u) ==
    /\ retries[u] < MAX_CHUNK_RETRIES
    /\ at' = [at EXCEPT ![u] = "backoff"]
    /\ retries' = [retries EXCEPT ![u] = NextRetry(u)]
    /\ live' = [live EXCEPT ![u] = None]
    /\ UNCHANGED <<stop, page, chunk, drawerVars>>

\* cleanupActiveChunkUpload stops what the drawer has as active, if anything.
Stopping(p) ==
    /\ activeChunkUpload' = [activeChunkUpload EXCEPT ![p] = None]
    /\ stop' = [u \in Uploads |-> IF u = activeChunkUpload[p] THEN "asked" ELSE stop[u]]

Throw(u) ==
    /\ Stopping(page[u])
    /\ IF activeChunkUpload[page[u]] # None
         THEN /\ at' = [at EXCEPT ![u] = "stopping"]
              /\ live' = [live EXCEPT ![u] = None]
              /\ UNCHANGED <<page, chunk, retries, upLoading, controller>>
         ELSE Finish(u, "ended")
    /\ UNCHANGED canceling

\* The agent answers with an error that is not worth a retry.
Refused(u) ==
    /\ at[u] = "waiting"
    /\ Answered(u, {"refused"})
    /\ Received(u)
    /\ Throw(u)

\* The agent answers with another error.
Failed(u) ==
    /\ at[u] = "waiting"
    /\ Answered(u, {"failed"})
    /\ Received(u)
    /\ Backoff(u) \/ (retries[u] >= MAX_CHUNK_RETRIES /\ Throw(u))

\* There is no answer; the request, if it was not lost, is left to itself.
Unanswered(u) ==
    /\ at[u] = "waiting"
    /\ UNCHANGED req
    /\ Backoff(u) \/ (retries[u] >= MAX_CHUNK_RETRIES /\ Throw(u))

\* The stop is answered, or the wait for it fails.
Stopped(u) ==
    /\ at[u] = "stopping"
    /\ Finish(u, "ended")
    /\ UNCHANGED <<canceling, activeChunkUpload, linkVars>>

-----------------------------------------------------------------------------
(* requestClose *)

\* A drawer that shows no upload just closes.
RequestClose(p) ==
    /\ canceling[p] = "no"
    /\ upLoading[p]
    /\ canceling' = [canceling EXCEPT ![p] = "asking"]
    /\ UNCHANGED <<invocationVars, upLoading, controller, activeChunkUpload, linkVars>>

\* The user thinks better of it, or the upload has ended meanwhile.
KeepUploading(p) ==
    /\ canceling[p] = "asking"
    /\ canceling' = [canceling EXCEPT ![p] = "no"]
    /\ UNCHANGED <<invocationVars, upLoading, controller, activeChunkUpload, linkVars>>


\* The controller is aborted, its invocation unwinds, and the drawer closes when
\* the stop it may have sent has returned.
Cancel(p) ==
    LET u == controller[p] IN
    /\ canceling[p] = "asking"
    /\ upLoading[p]
    /\ Stopping(p)
    /\ Unwind({v \in {u} : Sends(v)})
    /\ controller' = [controller EXCEPT ![p] = None]
    /\ upLoading' = [upLoading EXCEPT ![p] = FALSE]
    /\ canceling' = [canceling EXCEPT
                       ![p] = IF activeChunkUpload[p] # None THEN "stopping" ELSE "no"]
    /\ UNCHANGED req

Close(p) ==
    /\ canceling[p] = "stopping"
    /\ canceling' = [canceling EXCEPT ![p] = "no"]
    /\ upLoading' = [upLoading EXCEPT ![p] = FALSE]
    /\ UNCHANGED <<invocationVars, controller, activeChunkUpload, linkVars>>

\* The tab is closed or reloaded.
TabCloses(p) ==
    /\ \E u \in Uploads : page[u] = p
    /\ Unwind({u \in Uploads : page[u] = p})
    /\ upLoading' = [upLoading EXCEPT ![p] = FALSE]
    /\ canceling' = [canceling EXCEPT ![p] = "no"]
    /\ controller' = [controller EXCEPT ![p] = None]
    /\ activeChunkUpload' = [activeChunkUpload EXCEPT ![p] = None]
    /\ UNCHANGED linkVars

Proceeds(u) ==
    \/ \E r \in Requests : Send(u, r)
    \/ NextChunk(u) \/ Succeed(u) \/ Refused(u) \/ Failed(u) \/ Stopped(u)
=============================================================================
