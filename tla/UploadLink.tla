----------------------------- MODULE UploadLink -----------------------------
(***************************************************************************)
(* The requests between the upload drawers of the panel and the agent. A   *)
(* request the page no longer waits for may still be executed, at any      *)
(* later moment; a reply may be lost.                                      *)
(***************************************************************************)
EXTENDS Naturals, Sequences, FiniteSetsExt

CONSTANTS
    Pages,      \* upload drawers, one in each browser tab
    Uploads,    \* uploadIDs: files sent to one destination
    Requests,   \* chunk requests that may exist at the same time
    ChunkSize,  \* cells of a chunk (CHUNK_SIZE)
    FileSize,   \* cells of a file
    None

ASSUME NoneAssumption == None \notin Pages \cup Uploads \cup Requests
ASSUME SizeAssumption == ChunkSize \in Nat \ {0} /\ FileSize \in Nat \ {0}

ChunkCount == (FileSize + ChunkSize - 1) \div ChunkSize
Chunks == 0 .. ChunkCount - 1
Offset(c) == c * ChunkSize
ChunkEnd(c) == Min({Offset(c) + ChunkSize, FileSize})
IsLast(c) == c + 1 = ChunkCount

VARIABLES
    req,   \* of every request: its upload, its chunk and how far it is
    stop   \* of every upload the request to stop it: "none", "asked", "marked", "done"

linkVars == <<req, stop>>

NoRequest == [u |-> None, c |-> 0, at |-> "free"]

LinkInit ==
    /\ req = [r \in Requests |-> NoRequest]
    /\ stop = [u \in Uploads |-> "none"]
=============================================================================
