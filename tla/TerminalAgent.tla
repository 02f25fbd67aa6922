---------------------------- MODULE TerminalAgent ---------------------------
(***************************************************************************)
(* Terminal sessions of the agent: session.go, attachment.go and           *)
(* registry.go of agent/utils/terminal. A session owns a shell; a          *)
(* websocket is an attachment that comes and goes. Every action is one     *)
(* critical section of Session.mu, or a step of one of the goroutines of   *)
(* an attachment or of a session. What the shell prints is left out.       *)
(***************************************************************************)
EXTENDS TerminalLink

VARIABLES
    shell,     \* of every session: "free", "live", "closing" (done is closed), "closed"
    attached,  \* Session.attached
    grace,     \* Session.grace: "off", or armed with the "long" or the "short" timeout
    closers,   \* some goroutine is about to call Session.Close
    initRuns,  \* times an init command reached the shell
    at,        \* where the handler of every websocket is
    done,      \* attachment.done is closed
    kick,      \* the previous attachment that Attach is about to close
    revalidate \* attachment.revalidateRequested

sessionVars == <<shell, attached, grace, closers, initRuns>>
attachmentVars == <<at, done, kick, revalidate>>
agentVars == <<sessionVars, attachmentVars>>

AgentInit ==
    /\ shell = [s \in Sessions |-> "free"]
    /\ attached = [s \in Sessions |-> None]
    /\ grace = [s \in Sessions |-> "off"]
    /\ closers = [s \in Sessions |-> FALSE]
    /\ initRuns = [s \in Sessions |-> 0]
    /\ at = [i \in Conns |-> "gone"]
    /\ done = [i \in Conns |-> TRUE]
    /\ kick = [i \in Conns |-> None]
    /\ revalidate = [i \in Conns |-> FALSE]

\* attachment.close: only the first call has an effect.
CloseFrame(q, i, code) == IF i = None \/ done[i] THEN q ELSE Sent(q, i, Close(code))
DoneWith(S) == [i \in Conns |-> done[i] \/ i \in S]

\* The handler of websocket i returns.
Return(i) ==
    /\ at' = [at EXCEPT ![i] = "gone"]
    /\ target' = [target EXCEPT ![i] = None]
    /\ initCmd' = [initCmd EXCEPT ![i] = FALSE]
    /\ kick' = [kick EXCEPT ![i] = None]
    /\ revalidate' = [revalidate EXCEPT ![i] = FALSE]

-----------------------------------------------------------------------------
(* serve *)

\* The request does not reach the agent.
Unreached(i) ==
    /\ at[i] = "accepted"
    /\ link[i] = "cut"
    /\ Return(i)
    /\ UNCHANGED <<sessionVars, done, link, down>>

\* openBackend registers a fresh session before anything is attached to it.
Open(i, s) ==
    /\ at[i] = "accepted"
    /\ target[i] = None
    /\ shell[s] = "free"
    /\ shell' = [shell EXCEPT ![s] = "live"]
    /\ initRuns' = [initRuns EXCEPT ![s] = 0]
    /\ target' = [target EXCEPT ![i] = s]
    /\ at' = [at EXCEPT ![i] = "opened"]
    /\ UNCHANGED <<attached, grace, closers, done, kick, revalidate, link, down, initCmd>>

\* connect fails: the caller reports the error and closes the websocket.
OpenFails(i) ==
    /\ at[i] = "accepted"
    /\ target[i] = None
    /\ down' = Sent(down, i, Close("1006"))
    /\ Return(i)
    /\ UNCHANGED <<sessionVars, done, link>>

Waiting(i) == at[i] = "opened" \/ (at[i] = "accepted" /\ target[i] # None)

Attachable(s) == shell[s] = "live"

\* The critical section of Attach; writeMu stays locked until the hello is out.
Attach(i) ==
    LET s == target[i] IN
    /\ Waiting(i)
    /\ Attachable(s)
    /\ kick' = [kick EXCEPT ![i] = attached[s]]
    /\ attached' = [attached EXCEPT ![s] = i]
    /\ grace' = [grace EXCEPT ![s] = "off"]
    /\ done' = [done EXCEPT ![i] = FALSE]
    /\ at' = [at EXCEPT ![i] = IF @ = "opened" THEN "greetFresh" ELSE "greet"]
    /\ UNCHANGED <<shell, closers, initRuns, revalidate, linkVars>>

\* Lookup finds nothing, or the session is closed in the meantime.
AttachFails(i) ==
    /\ Waiting(i)
    /\ ~ Attachable(target[i])
    /\ down' = Sent(down, i, Close(IF at[i] = "opened" THEN "1006" ELSE "4404"))
    /\ Return(i)
    /\ UNCHANGED <<sessionVars, done, link>>

\* Session.detach by the attachment of websocket i.
Detaches_Any(i) == attached[target[i]] # None
Detaches(i) == attached[target[i]] = i
Armed_LongOnly(i, how) == IF how = "dirty" /\ ~ revalidate[i] THEN "long" ELSE "off"
Armed(i, how) ==
    IF how = "clean" THEN "off" ELSE IF revalidate[i] THEN "short" ELSE "long"
Detach(i, how) ==
    LET s == target[i] IN
    IF Detaches(i)
      THEN /\ attached' = [attached EXCEPT ![s] = None]
           /\ grace' = [grace EXCEPT ![s] = Armed(i, how)]
      ELSE UNCHANGED <<attached, grace>>

\* Close after done is closed waits for doClose and does nothing.
Closing(s, wanted) == closers' = [closers EXCEPT ![s] = @ \/ (wanted /\ shell[s] = "live")]

Greeting(i) == at[i] \in {"greet", "greetFresh"}

\* Attach closes the previous attachment, then writes the hello and the replay.
Greet(i) ==
    /\ Greeting(i)
    /\ ~ done[i]
    /\ done' = DoneWith({kick[i]})
    /\ down' = Sent(CloseFrame(down, kick[i], "4409"), i, Hello(target[i]))
    /\ kick' = [kick EXCEPT ![i] = None]
    /\ at' = [at EXCEPT ![i] = "running"]
    /\ UNCHANGED <<sessionVars, revalidate, link, target, initCmd>>

\* The hello cannot be written: the session is closed, the websocket broke or is
\* too slow.
GreetFails(i) ==
    /\ Greeting(i)
    /\ done' = DoneWith({kick[i], i})
    /\ down' = CloseFrame(CloseFrame(down, kick[i], "4409"), i, "1011")
    /\ Detach(i, "dirty")
    /\ Closing(target[i], at[i] = "greetFresh")
    /\ Return(i)
    /\ UNCHANGED <<shell, initRuns, link>>

-----------------------------------------------------------------------------
(* The goroutines of an attachment *)

ReadCommand(i) ==
    /\ at[i] = "running"
    /\ initCmd[i]
    /\ initRuns' = [initRuns EXCEPT ![target[i]] = @ + 1]
    /\ initCmd' = [initCmd EXCEPT ![i] = FALSE]
    /\ UNCHANGED <<shell, attached, grace, closers, attachmentVars, link, target, down>>

\* ReadMessage fails: cleanly with the client's 1000, otherwise because the
\* websocket broke or was closed on this side.  A panic that Run recovers from,
\* which would close a live websocket with 1000, is left out.
RunEnds(i, how) ==
    /\ at[i] = "running"
    /\ \/ how = "clean" /\ link[i] = "bye"
       \/ how = "dirty" /\ (done[i] \/ link[i] = "cut")
    /\ done' = DoneWith({i})
    /\ down' = CloseFrame(down, i, "1000")
    /\ at' = [at EXCEPT ![i] = how]
    /\ UNCHANGED <<sessionVars, kick, revalidate, link, target, initCmd>>

\* The deferred detach of Run; a clean one goes on to close the session.
RunDetaches(i) ==
    /\ at[i] \in {"clean", "dirty"}
    /\ Detach(i, at[i])
    /\ Closing(target[i], at[i] = "clean" /\ Detaches(i))
    /\ Return(i)
    /\ UNCHANGED <<shell, initRuns, done, link, down>>

\* revalidateLoop, once revalidateInterval has passed: first it marks, then it closes.
RevalidateMark(i) ==
    /\ at[i] = "running"
    /\ ~ revalidate[i]
    /\ revalidate' = [revalidate EXCEPT ![i] = TRUE]
    /\ UNCHANGED <<sessionVars, at, done, kick, linkVars>>

RevalidateCode_Normal(i) == "1000"
RevalidateCode(i) == "4410"
RevalidateClose(i) ==
    /\ revalidate[i]
    /\ ~ done[i]
    /\ done' = DoneWith({i})
    /\ down' = CloseFrame(down, i, RevalidateCode(i))
    /\ UNCHANGED <<sessionVars, at, kick, revalidate, link, target, initCmd>>

\* flush or pingLoop cannot write in time.
WriteFails(i) ==
    /\ at[i] = "running"
    /\ ~ done[i]
    /\ done' = DoneWith({i})
    /\ down' = CloseFrame(down, i, "1011")
    /\ UNCHANGED <<sessionVars, at, kick, revalidate, link, target, initCmd>>

-----------------------------------------------------------------------------
(* The end of a session *)

\* The shell exits, a keepalive fails, the session is closed or revoked.
ShellEnds(s) ==
    /\ shell[s] = "live"
    /\ ~ closers[s]
    /\ closers' = [closers EXCEPT ![s] = TRUE]
    /\ UNCHANGED <<shell, attached, grace, initRuns, attachmentVars, linkVars>>

\* The timer has fired: Attach can no longer stop it.
GraceFires(s) ==
    /\ grace[s] # "off"
    /\ grace' = [grace EXCEPT ![s] = "off"]
    /\ Closing(s, TRUE)
    /\ UNCHANGED <<shell, attached, initRuns, attachmentVars, linkVars>>

\* doClose closes done, and only then takes the lock.
CloseBegins(s) ==
    /\ closers[s]
    /\ closers' = [closers EXCEPT ![s] = FALSE]
    /\ shell' = [shell EXCEPT ![s] = "closing"]
    /\ UNCHANGED <<attached, grace, initRuns, attachmentVars, linkVars>>

CloseEnds(s) ==
    /\ shell[s] = "closing"
    /\ shell' = [shell EXCEPT ![s] = "closed"]
    /\ attached' = [attached EXCEPT ![s] = None]
    /\ grace' = [grace EXCEPT ![s] = "off"]
    /\ done' = DoneWith({attached[s]})
    /\ down' = CloseFrame(down, attached[s], "1000")
    /\ UNCHANGED <<closers, initRuns, at, kick, revalidate, link, target, initCmd>>

\* What the agent does by itself for websocket i and for session s.
Serves(i) ==
    \/ \E s \in Sessions : Open(i, s)
    \/ Unreached(i) \/ Attach(i) \/ AttachFails(i) \/ Greet(i) \/ GreetFails(i)
    \/ ReadCommand(i) \/ RevalidateClose(i)
    \/ \E how \in {"clean", "dirty"} : RunEnds(i, how)
    \/ RunDetaches(i)
Ends(s) == GraceFires(s) \/ CloseBegins(s) \/ CloseEnds(s)
=============================================================================
