------------------------------ MODULE Terminal ------------------------------
(***************************************************************************)
(* The terminals of the panel and the sessions of the agent together: any  *)
(* websocket may be cut at any moment, tabs are closed and reloaded, and   *)
(* two tabs may want the same shell.                                       *)
(***************************************************************************)
EXTENDS TerminalAgent, TerminalClient

vars == <<linkVars, agentVars, clientVars>>

Init == LinkInit /\ AgentInit /\ ClientInit

Idle(i) ==
    /\ at[i] = "gone"
    /\ \A c \in Clients : socket[c] # i
    /\ \A j \in Conns : kick[j] # i

\* A new websocket reaches the handler of the agent.
Connect(c, i) ==
    /\ Idle(i)
    /\ Dial(c, i)
    /\ at' = [at EXCEPT ![i] = "accepted"]
    /\ UNCHANGED <<sessionVars, done, kick, revalidate>>

\* SearchTerminalSessions listed s as detached.
RestoreEntry(c, s) ==
    /\ shell[s] = "live"
    /\ attached[s] = None
    /\ Restore(c, s)
    /\ UNCHANGED agentVars

\* An id nobody knows any longer stands for the id of a later session.
Forget(s) ==
    /\ shell[s] = "closed"
    /\ \A c \in Clients : sessionId[c] # s
    /\ \A i \in Conns : target[i] # s /\ \A k \in DOMAIN down[i] : down[i][k] # Hello(s)
    /\ shell' = [shell EXCEPT ![s] = "free"]
    /\ UNCHANGED <<attached, grace, closers, initRuns, attachmentVars, linkVars, clientVars>>

\* The network may also lose a goodbye.
Cut(i) ==
    /\ link[i] \in {"up", "bye"}
    /\ link' = [link EXCEPT ![i] = "cut"]
    /\ UNCHANGED <<target, down, initCmd, agentVars, clientVars>>

\* What a terminal does without its user.
Acts(c) == OnSession(c) \/ OnClose(c) \/ OnLost(c) \/ TimerFires(c)

Agent ==
    \/ \E i \in Conns : Serves(i) \/ OpenFails(i) \/ RevalidateMark(i) \/ WriteFails(i)
    \/ \E s \in Sessions : Ends(s) \/ ShellEnds(s)
Client ==
    \E c \in Clients :
       \/ Acts(c) \/ AuthDenied(c)
       \/ OpenEntry(c) \/ Reconnect(c) \/ \E how \in {"bye", "cut"} : Leave(c, how)

Next ==
    \/ Agent /\ UNCHANGED clientVars
    \/ Client /\ UNCHANGED agentVars
    \/ \E c \in Clients, i \in Conns : Connect(c, i)
    \/ \E c \in Clients, s \in Sessions : RestoreEntry(c, s)
    \/ \E i \in Conns : Cut(i)
    \/ \E s \in Sessions : Forget(s)

Spec == Init /\ [][Next]_vars

-----------------------------------------------------------------------------
Places == {"gone", "accepted", "opened", "greet", "greetFresh", "running",
           "clean", "dirty"}
Codes == {"1000", "1006", "1011", "4404", "4409", "4410"}
Frames == {Hello(s) : s \in Sessions} \cup {Close(code) : code \in Codes}

\* Type invariant.
TypeOK ==
    /\ link \in [Conns -> {"up", "bye", "ended", "cut"}]
    /\ target \in [Conns -> Sessions \cup {None}]
    /\ down \in [Conns -> Seq(Frames)]
    /\ initCmd \in [Conns -> BOOLEAN]
    /\ shell \in [Sessions -> {"free", "live", "closing", "closed"}]
    /\ attached \in [Sessions -> Conns \cup {None}]
    /\ grace \in [Sessions -> {"off", "long", "short"}]
    /\ closers \in [Sessions -> BOOLEAN]
    /\ initRuns \in [Sessions -> Nat]
    /\ at \in [Conns -> Places]
    /\ done \in [Conns -> BOOLEAN]
    /\ kick \in [Conns -> Conns \cup {None}]
    /\ revalidate \in [Conns -> BOOLEAN]
    /\ phase \in [Clients -> {"absent", "auth", "socket", "timer", "idle"}]
    /\ socket \in [Clients -> Conns \cup {None}]
    /\ sessionId \in [Clients -> Sessions \cup {None}]
    /\ reconnecting \in [Clients -> BOOLEAN]

Serving(i) == at[i] \in {"greet", "greetFresh", "running", "clean", "dirty"}
Opening(s) == \E i \in Conns : at[i] = "opened" /\ target[i] = s

\* No shell is left behind: a live session has an attachment whose handler will
\* still detach it, or a timer or a goroutine that will close it.
NoShellLeaks ==
    \A s \in Sessions : shell[s] = "live" =>
       \/ closers[s] \/ Opening(s)
       \/ attached[s] = None /\ grace[s] # "off"
       \/ attached[s] # None /\ Serving(attached[s]) /\ target[attached[s]] = s

\* A terminal that is served is the one the session writes to and whose departure
\* the session waits for, until a newer one is about to kick it or the session
\* closes; and no timer runs against it.
ServedIsAttached ==
    \A i \in Conns : at[i] = "running" /\ ~ done[i] =>
       LET s == target[i] IN
       \/ attached[s] = i /\ grace[s] = "off"
       \/ \E j \in Conns : Greeting(j) /\ kick[j] = i
       \/ shell[s] # "live"

\* Once a session is closed no websocket is served from it.
ClosedServesNobody ==
    \A i \in Conns : at[i] = "running" /\ ~ done[i] /\ shell[target[i]] \in {"closed", "free"} =>
       \E j \in Conns : Greeting(j) /\ kick[j] = i

\* The session and the terminals it serves agree on who is served
\* (session.go:225-345).
ServiceIsConsistent ==
    /\ TypeOK
    /\ ServedIsAttached
    /\ ClosedServesNobody

\* A shell runs the init command of its terminal once, however often it is
\* reattached (index.vue:367).
InitCmdOnce == \A s \in Sessions : initRuns[s] <= 1

\* A terminal that is told that its session is gone, by the close codes 1000 or
\* 4404, is told so only when the agent is closing or has closed the shell.
ExpiredIsTrue ==
    [][\A c \in Clients :
          /\ sessionId[c] # None
          /\ OnClose(c)
          /\ Frame(c).code \in Gone
          => shell[sessionId[c]] # "live"]_vars
=============================================================================
