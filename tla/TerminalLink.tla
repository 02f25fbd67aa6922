---------------------------- MODULE TerminalLink ----------------------------
(***************************************************************************)
(* The websockets between the terminals of a browser and the sessions of   *)
(* the agent. The network may cut a websocket silently: what was not read  *)
(* may be lost, and either end finds out in its own time.                  *)
(***************************************************************************)
EXTENDS Naturals, Sequences

CONSTANTS
    Clients,    \* terminal entries, in one or several browser tabs
    Conns,      \* websockets that may exist at the same time
    Sessions,   \* shells the agent may hold at the same time
    None        \* undefined, nil or ''

ASSUME NoneAssumption == None \notin Clients \cup Conns \cup Sessions

VARIABLES
    link,    \* "up", "bye" once the browser closed it with 1000, "ended" once the
             \* browser read a close frame, or "cut"
    target,  \* the session asked for or given, None for a fresh one
    down,    \* frames on their way to the browser
    initCmd  \* an init command is on its way to the agent

linkVars == <<link, target, down, initCmd>>

Hello(s) == [type |-> "session", id |-> s]
Close(code) == [type |-> "close", code |-> code]

\* Nobody reads what is written on a websocket that is not up.
Sent(q, i, frame) == IF link[i] = "up" THEN [q EXCEPT ![i] = Append(@, frame)] ELSE q

LinkInit ==
    /\ link = [i \in Conns |-> "cut"]
    /\ target = [i \in Conns |-> None]
    /\ down = [i \in Conns |-> <<>>]
    /\ initCmd = [i \in Conns |-> FALSE]
=============================================================================
