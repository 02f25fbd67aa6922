--------------------------- MODULE TerminalClient ---------------------------
(***************************************************************************)
(* The terminals of the panel: the store of entries                        *)
(* (store/modules/terminal-session.ts) and the terminal component          *)
(* (components/terminal/index.vue) that keeps a websocket to a session of  *)
(* the agent. A remount makes a new component for the entry; what the old  *)
(* one still awaits finds its token outdated and does nothing.             *)
(***************************************************************************)
EXTENDS TerminalLink

VARIABLES
    phase,        \* of every entry: "absent", "auth" (checkStreamAuth is awaited),
                  \* "socket", "timer" (reconnectTimer is set), "idle"
    socket,       \* terminalSocket
    sessionId,    \* sessionId of the entry and of its component
    reconnecting

clientVars == <<phase, socket, sessionId, reconnecting>>

ClientInit ==
    /\ phase = [c \in Clients |-> "absent"]
    /\ socket = [c \in Clients |-> None]
    /\ sessionId = [c \in Clients |-> None]
    /\ reconnecting = [c \in Clients |-> FALSE]

\* The websocket of c is closed and nothing more is read from it.
Drop(c, how) ==
    /\ link' = [i \in Conns |-> IF i = socket[c] /\ link[i] = "up" THEN how ELSE link[i]]
    /\ down' = [i \in Conns |-> IF i = socket[c] THEN <<>> ELSE down[i]]
    /\ socket' = [socket EXCEPT ![c] = None]
    /\ UNCHANGED <<target, initCmd>>

-----------------------------------------------------------------------------
(* The store *)

\* A mounted component is given its parameters: with an error, such as a failed
\* test of the connection, it only shows it.
AcceptParams(c) == \E p \in {"auth", "idle"} : phase' = [phase EXCEPT ![c] = p]

OpenEntry(c) ==
    /\ phase[c] = "absent"
    /\ AcceptParams(c)
    /\ UNCHANGED <<socket, sessionId, reconnecting, linkVars>>

\* restore adds an entry for a session the agent lists as detached.
Restore(c, s) ==
    /\ phase[c] = "absent"
    /\ phase' = [phase EXCEPT ![c] = "auth"]
    /\ sessionId' = [sessionId EXCEPT ![c] = s]
    /\ UNCHANGED <<socket, reconnecting, linkVars>>

\* remove and closeAll unmount the component, which closes its websocket with
\* 1000 ("bye"); a tab that is closed or reloaded says nothing ("cut").
Leave(c, how) ==
    /\ phase[c] # "absent"
    /\ Drop(c, how)
    /\ phase' = [phase EXCEPT ![c] = "absent"]
    /\ sessionId' = [sessionId EXCEPT ![c] = None]
    /\ reconnecting' = [reconnecting EXCEPT ![c] = FALSE]

\* The user asked for a reconnect when the entry was shown as closed. By now it
\* may be attached again: status is refreshed every 5 seconds, and the
\* connection is tested first. The component is remounted and the new one
\* starts with the session of the entry.
Reconnect(c) ==
    /\ phase[c] # "absent"
    /\ Drop(c, "bye")
    /\ AcceptParams(c)
    /\ reconnecting' = [reconnecting EXCEPT ![c] = FALSE]
    /\ UNCHANGED sessionId

-----------------------------------------------------------------------------
(* The component *)

\* A reattached shell has run its init command.
RunsInitCmd_Always(c) == TRUE
RunsInitCmd(c) == sessionId[c] = None

\* checkStreamAuth returns '': initWebSocket makes websocket i. runRealTerminal
\* sends the init command as soon as it is open.
Dial(c, i) ==
    /\ phase[c] = "auth"
    /\ phase' = [phase EXCEPT ![c] = "socket"]
    /\ socket' = [socket EXCEPT ![c] = i]
    /\ link' = [link EXCEPT ![i] = "up"]
    /\ target' = [target EXCEPT ![i] = sessionId[c]]
    /\ initCmd' = [initCmd EXCEPT ![i] = RunsInitCmd(c)]
    /\ UNCHANGED <<down, sessionId, reconnecting>>

\* The login is no longer valid.
AuthDenied(c) ==
    /\ phase[c] = "auth"
    /\ phase' = [phase EXCEPT ![c] = "idle"]
    /\ sessionId' = [sessionId EXCEPT ![c] = None]
    /\ reconnecting' = [reconnecting EXCEPT ![c] = FALSE]
    /\ UNCHANGED <<socket, linkVars>>

Arrived(c, type) ==
    /\ socket[c] # None
    /\ down[socket[c]] # <<>>
    /\ Head(down[socket[c]]).type = type
Frame(c) == Head(down[socket[c]])

\* onWSReceive of the session hello.
OnSession(c) ==
    /\ Arrived(c, "session")
    /\ down' = [down EXCEPT ![socket[c]] = Tail(@)]
    /\ sessionId' = [sessionId EXCEPT ![c] = Frame(c).id]
    /\ reconnecting' = [reconnecting EXCEPT ![c] = FALSE]
    /\ UNCHANGED <<phase, socket, link, target, initCmd>>

\* scheduleReconnect; it gives up when reconnectWindow has passed since the first
\* attempt of this run of attempts.
ScheduleReconnect(c) ==
    \E giveUp \in {FALSE, reconnecting[c]} :
       /\ reconnecting' = [reconnecting EXCEPT ![c] = ~ giveUp]
       /\ sessionId' = [sessionId EXCEPT ![c] = IF giveUp THEN None ELSE @]
       /\ phase' = [phase EXCEPT ![c] = IF giveUp THEN "idle" ELSE "timer"]

Rest(c, id) ==
    /\ phase' = [phase EXCEPT ![c] = "idle"]
    /\ sessionId' = [sessionId EXCEPT ![c] = id]
    /\ reconnecting' = [reconnecting EXCEPT ![c] = FALSE]

\* closeRealTerminal; a terminal without a session has never been reconnecting.
Gone == {"1000", "4404"}
CloseRealTerminal(c, code) ==
    /\ Drop(c, "ended")
    /\ \/ /\ sessionId[c] = None \/ code \in Gone
          /\ Rest(c, None)
       \/ /\ sessionId[c] # None /\ code = "4409"
          /\ Rest(c, sessionId[c])
       \/ /\ sessionId[c] # None /\ code \notin Gone \cup {"4409"}
          /\ ScheduleReconnect(c)

OnClose(c) == Arrived(c, "close") /\ CloseRealTerminal(c, Frame(c).code)

\* The browser gives up on a websocket the network has cut.
OnLost(c) ==
    /\ socket[c] # None
    /\ link[socket[c]] = "cut"
    /\ CloseRealTerminal(c, "1006")

TimerFires(c) ==
    /\ phase[c] = "timer"
    /\ phase' = [phase EXCEPT ![c] = "auth"]
    /\ UNCHANGED <<socket, sessionId, reconnecting, linkVars>>
=============================================================================
