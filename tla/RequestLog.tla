----------------------------- MODULE RequestLog -----------------------------
(***************************************************************************)
(* What the archive outbox promises to the requests that use it: every     *)
(* request has a log; an event is accepted at most once, takes effect in   *)
(* the archive after all events accepted before it, and is forgotten by    *)
(* the outbox only once it has taken effect.                               *)
(***************************************************************************)
EXTENDS Naturals, Sequences

CONSTANTS Tokens, Ids

VARIABLES
    accepted,   \* accepted[t]: the ids accepted for request t, in order
    archived,   \* archived[t]: the positions of accepted[t] in effect
    removed     \* removed[t]: how many the outbox has forgotten

vars == <<accepted, archived, removed>>

Init ==
    /\ accepted = [t \in Tokens |-> <<>>]
    /\ archived = [t \in Tokens |-> {}]
    /\ removed = [t \in Tokens |-> 0]

Accept(t, id) ==
    /\ \A i \in 1..Len(accepted[t]) : accepted[t][i] # id
    /\ accepted' = [accepted EXCEPT ![t] = Append(@, id)]
    /\ UNCHANGED <<archived, removed>>

\* The first event not yet in effect.
Archive(t) ==
    /\ \E next \in 1..Len(accepted[t]) :
          /\ 1..(next - 1) \subseteq archived[t] /\ next \notin archived[t]
          /\ archived' = [archived EXCEPT ![t] = @ \cup {next}]
    /\ UNCHANGED <<accepted, removed>>

Remove(t) ==
    /\ removed[t] + 1 \in archived[t]
    /\ removed' = [removed EXCEPT ![t] = @ + 1]
    /\ UNCHANGED <<accepted, archived>>

Next == \E t \in Tokens : \/ \E id \in Ids : Accept(t, id)
                          \/ Archive(t)
                          \/ Remove(t)

Spec == Init /\ [][Next]_vars
=============================================================================
