--------------------------- MODULE Terminal_proofs ---------------------------
(***************************************************************************)
(* The terminals for any number of entries, websockets and shells: no      *)
(* shell is left behind, the session and the terminals agree on who is     *)
(* served, a shell runs its init command once, and a terminal is told that *)
(* its shell is gone only when it is.                                      *)
(***************************************************************************)
EXTENDS Terminal, SequenceTheorems, TLAPS

-----------------------------------------------------------------------------
(* The agent. *)

\* A websocket without a handler knows no session and carries no command.
Cleared(i) == at[i] = "gone" => target[i] = None /\ ~ initCmd[i]

\* A handler that opened or serves a session knows which.
Targeted(i) == at[i] = "opened" \/ Serving(i) => target[i] # None

\* An attachment that is open is the session's, or about to be kicked.
OpenIsAttached(i) ==
    at[i] \in {"greet", "greetFresh", "running"} /\ ~ done[i] =>
       attached[target[i]] = i \/ \E j \in Conns : Greeting(j) /\ kick[j] = i

\* A websocket that is to be kicked has been served, and another one kicks it.
KickedWasServed(i) ==
    \A j \in Conns : kick[j] = i => j # i /\ (at[i] = "gone" \/ Serving(i))

\* Only a websocket that is served is asked to revalidate.
MarkedIsServed(i) == revalidate[i] => Serving(i)

\* A command on its way to a shell is the shell's first and only one.
CommandIsFirst(i) ==
    initCmd[i] /\ target[i] # None =>
       /\ initRuns[target[i]] = 0
       /\ \A j \in Conns \ {i} : target[j] = target[i] => ~ initCmd[j]

ConnOK(i) ==
    /\ Cleared(i) /\ Targeted(i) /\ OpenIsAttached(i)
    /\ KickedWasServed(i) /\ MarkedIsServed(i) /\ CommandIsFirst(i)

\* The attachment of a session is served for it, and no timer runs against it.
AttachedIsServed(s) ==
    attached[s] # None =>
       Serving(attached[s]) /\ target[attached[s]] = s /\ grace[s] = "off"

\* A session that is over has no attachment.
OverIsDetached(s) == shell[s] \in {"free", "closed"} => attached[s] = None

\* A live session has somebody who will close it, or an attachment.
Kept(s) ==
    shell[s] = "live" => closers[s] \/ Opening(s) \/ attached[s] # None \/ grace[s] # "off"

SessionOK(s) == AttachedIsServed(s) /\ OverIsDetached(s) /\ Kept(s) /\ initRuns[s] <= 1

AgentInv == (\A i \in Conns : ConnOK(i)) /\ (\A s \in Sessions : SessionOK(s))

-----------------------------------------------------------------------------
(* The terminals and what is on its way to them. *)

FramesIn(q) == {q[k] : k \in DOMAIN q}

\* Nobody knows the id of a session that does not exist yet.
FreeIsUnknown(s) ==
    shell[s] = "free" =>
       /\ \A c \in Clients : sessionId[c] # s
       /\ \A i \in Conns : target[i] # s /\ Hello(s) \notin FramesIn(down[i])

\* A terminal with a websocket waits for nothing else, and shares it with nobody.
SocketIsOwn(c) ==
    socket[c] # None =>
       /\ phase[c] = "socket"
       /\ \A d \in Clients \ {c} : socket[d] # socket[c]

\* Nothing is on its way on a websocket that no terminal has.
OrphanIsSilent(i) ==
    (\A c \in Clients : socket[c] # i) => down[i] = <<>> /\ link[i] # "up"

\* The handler has no more to say once it has sent a close frame.
CloseIsLast(i) ==
    (\E code \in Codes : Close(code) \in FramesIn(down[i])) =>
       at[i] = "gone" \/ (Serving(i) /\ done[i])

\* A terminal and the handler of its websocket mean the same session.
SameSession(c) ==
    \A i \in Conns : socket[c] = i /\ at[i] # "gone" =>
       /\ sessionId[c] \in {None, target[i]}
       /\ \A s \in Sessions : Hello(s) \in FramesIn(down[i]) => s = target[i]

\* A close frame that ends a session is on its way only when the shell is gone.
GoneIsTrue(c) ==
    \A i \in Conns : socket[c] = i /\ (\E code \in Gone : Close(code) \in FramesIn(down[i])) =>
       \A s \in Sessions :
          sessionId[c] = s \/ Hello(s) \in FramesIn(down[i]) => shell[s] # "live"

ClientInv ==
    /\ \A c \in Clients : SocketIsOwn(c) /\ SameSession(c) /\ GoneIsTrue(c)
    /\ \A i \in Conns : OrphanIsSilent(i) /\ CloseIsLast(i)
    /\ \A s \in Sessions : FreeIsUnknown(s)

\* The inductive invariant.
IInv == TypeOK /\ AgentInv /\ ClientInv

-----------------------------------------------------------------------------
(* Frames. *)

\* A hello and a close frame are different, and each says what it says.
LEMMA FrameKinds ==
    /\ \A s, code : Hello(s) # Close(code)
    /\ \A s, t : Hello(s) = Hello(t) => s = t
    /\ \A a, b : Close(a) = Close(b) => a = b
    /\ \A s \in Sessions : Hello(s) \in Frames
    /\ \A code \in Codes : Close(code) \in Frames
<1>1. \A s, code : Hello(s).type = "session" /\ Close(code).type = "close" BY DEF Hello, Close
<1>2. \A s : Hello(s).id = s BY DEF Hello
<1>3. \A a : Close(a).code = a BY DEF Close
<1>4. \A s, code : Hello(s) # Close(code)
  <2> TAKE s, code
  <2>1. Hello(s).type = "session" /\ Close(code).type = "close" BY <1>1
  <2> QED BY <2>1
<1>5. \A s, t : Hello(s) = Hello(t) => s = t
  <2> TAKE s, t
  <2>1. Hello(s).id = s /\ Hello(t).id = t BY <1>2
  <2> QED BY <2>1
<1>6. \A a, b : Close(a) = Close(b) => a = b
  <2> TAKE a, b
  <2>1. Close(a).code = a /\ Close(b).code = b BY <1>3
  <2> QED BY <2>1
<1> QED BY <1>4, <1>5, <1>6 DEF Frames

\* The frames p are the frames q and at most one more, f, on websocket i.
Adds(p, q, i, f) ==
    \A j \in Conns : \A g \in FramesIn(p[j]) :
       g \in FramesIn(q[j]) \/ (j = i /\ link[i] = "up" /\ g = f)

\* What a write adds to the frames on their way.
LEMMA SentFrames ==
    ASSUME NEW q \in [Conns -> Seq(Frames)], NEW i \in Conns, NEW f \in Frames,
           NEW p, p = Sent(q, i, f)
    PROVE  /\ p \in [Conns -> Seq(Frames)]
           /\ Adds(p, q, i, f)
<1>1. CASE link[i] # "up" BY <1>1 DEF Sent, Adds
<1>2. CASE link[i] = "up"
  <2> DEFINE a == Append(q[i], f)
  <2>1. p = [q EXCEPT ![i] = a] BY <1>2 DEF Sent
  <2>2. a \in Seq(Frames) OBVIOUS
  <2>3. \A g \in FramesIn(a) : g \in FramesIn(q[i]) \/ g = f
    <3>1. DOMAIN a = 1 .. Len(q[i]) + 1 /\ DOMAIN q[i] = 1 .. Len(q[i]) /\ Len(q[i]) \in Nat
      OBVIOUS
    <3>2. \A k \in 1 .. Len(q[i]) + 1 : a[k] = f \/ (k \in 1 .. Len(q[i]) /\ a[k] = q[i][k])
      OBVIOUS
    <3> HIDE DEF a
    <3> QED BY <3>1, <3>2 DEF FramesIn
  <2> HIDE DEF a
  <2>4. p[i] = a /\ \A j \in Conns \ {i} : p[j] = q[j] BY <2>1
  <2> QED BY <1>2, <2>1, <2>2, <2>3, <2>4 DEF Adds
<1> QED BY <1>1, <1>2

\* The frames p are the frames q and at most the close frame of the first call
\* of attachment.close on websocket i.
AddsClose(p, q, i, code) ==
    \A j \in Conns : \A g \in FramesIn(p[j]) :
       g \in FramesIn(q[j]) \/ (j = i /\ ~ done[i] /\ link[i] = "up" /\ g = Close(code))

\* What attachment.close adds.
LEMMA CloseFrames ==
    ASSUME NEW q \in [Conns -> Seq(Frames)], NEW i \in Conns \cup {None}, NEW code \in Codes,
           NEW p, p = CloseFrame(q, i, code)
    PROVE  /\ p \in [Conns -> Seq(Frames)]
           /\ AddsClose(p, q, i, code)
<1>1. CASE i = None \/ done[i] BY <1>1 DEF CloseFrame, AddsClose
<1>2. CASE i \in Conns /\ ~ done[i]
  <2>1. PICK f \in Frames : f = Close(code) BY FrameKinds
  <2>2. p = Sent(q, i, f) BY <1>2, <2>1, NoneAssumption DEF CloseFrame
  <2>3. p \in [Conns -> Seq(Frames)] /\ Adds(p, q, i, f) BY <1>2, <2>2, SentFrames
  <2> QED BY <1>2, <2>1, <2>3 DEF Adds, AddsClose
<1> QED BY <1>1, <1>2

-----------------------------------------------------------------------------
(* What the terminals may rely on when the agent takes a step. *)

\* A frame the handler of websocket i writes in this step.
Truthful(i, f) ==
    /\ link[i] = "up"
    /\ \A s \in Sessions : f = Hello(s) =>
         /\ at[i] # "gone" /\ s = target[i]
         /\ \A code \in Codes : Close(code) \notin FramesIn(down[i])'
    /\ \A code \in Codes : f = Close(code) => at'[i] = "gone" \/ (Serving(i)' /\ done'[i])
    /\ \A code \in Gone : f = Close(code) =>
         at[i] # "gone" /\ target[i] \in Sessions /\ shell'[target[i]] # "live"

Orderly ==
    /\ UNCHANGED <<clientVars, link>> /\ down' \in [Conns -> Seq(Frames)]
    /\ \A i \in Conns :
         /\ at[i] = "gone" => at'[i] = "gone"
         /\ at'[i] # "gone" => target'[i] = target[i] \/ target[i] = None
         /\ \A s \in Sessions : target'[i] = s => target[i] = s \/ shell'[s] # "free"
         /\ Serving(i) /\ done[i] => at'[i] = "gone" \/ (Serving(i)' /\ done'[i])
         /\ \A f \in FramesIn(down[i])' : f \in FramesIn(down[i]) \/ Truthful(i, f)
    /\ \A s \in Sessions :
         /\ shell'[s] = "free" => shell[s] = "free"
         /\ shell'[s] = "live" => shell[s] \in {"live", "free"}

\* An orderly step of the agent keeps what the terminals rely on.
LEMMA TerminalsRely ==
    ASSUME IInv, Orderly
    PROVE  ClientInv'
<1>0. /\ TypeOK /\ Gone \subseteq Codes /\ None \notin Sessions /\ None \notin Conns
      /\ \A c \in Clients : SocketIsOwn(c) /\ SameSession(c) /\ GoneIsTrue(c)
      /\ \A i \in Conns : OrphanIsSilent(i) /\ CloseIsLast(i)
      /\ \A s \in Sessions : FreeIsUnknown(s)
  BY NoneAssumption DEF IInv, ClientInv, Gone, Codes
<1>1. UNCHANGED <<phase, socket, sessionId, link>> BY DEF Orderly, clientVars
<1>2. ASSUME NEW c \in Clients PROVE SocketIsOwn(c)' BY <1>0, <1>1 DEF SocketIsOwn
<1>3. ASSUME NEW c \in Clients PROVE SameSession(c)'
  <2> SUFFICES ASSUME NEW i \in Conns, socket[c] = i, at'[i] # "gone"
               PROVE  /\ sessionId[c] \in {None, target'[i]}
                      /\ \A s \in Sessions : Hello(s) \in FramesIn(down[i])' => s = target'[i]
    BY <1>1 DEF SameSession
  <2>1. /\ at[i] # "gone" /\ sessionId[c] \in {None, target[i]}
        /\ \A s \in Sessions : Hello(s) \in FramesIn(down[i]) => s = target[i]
    BY <1>0 DEF SameSession, Orderly
  <2>2. \A s \in Sessions : Hello(s) \in FramesIn(down[i])' => s = target[i]
    BY <2>1 DEF Orderly, Truthful
  <2>3. target'[i] = target[i] \/ target[i] = None BY DEF Orderly
  <2> QED BY <1>0, <2>1, <2>2, <2>3
<1>4. ASSUME NEW c \in Clients PROVE GoneIsTrue(c)'
  <2> SUFFICES ASSUME NEW i \in Conns, socket[c] = i,
                      NEW code \in Gone, Close(code) \in FramesIn(down[i])',
                      NEW s \in Sessions, sessionId[c] = s \/ Hello(s) \in FramesIn(down[i])'
               PROVE  shell'[s] # "live"
    BY <1>1 DEF GoneIsTrue
  <2>1. Hello(s) \in FramesIn(down[i])' => Hello(s) \in FramesIn(down[i])
    BY <1>0 DEF Orderly, Truthful
  <2>2. CASE Close(code) \in FramesIn(down[i])
    <3>1. shell[s] # "live" BY <1>0, <2>1, <2>2 DEF GoneIsTrue
    <3>2. shell[s] # "free" BY <1>0, <2>1 DEF FreeIsUnknown
    <3> QED BY <3>1, <3>2 DEF Orderly
  <2>3. CASE Truthful(i, Close(code))
    <3>1. at[i] # "gone" /\ shell'[target[i]] # "live" BY <2>3 DEF Truthful
    <3>2. s = target[i] BY <1>0, <2>1, <3>1 DEF SameSession
    <3> QED BY <3>1, <3>2
  <2> QED BY <2>2, <2>3 DEF Orderly
<1>5. ASSUME NEW i \in Conns PROVE OrphanIsSilent(i)'
  <2> SUFFICES ASSUME \A c \in Clients : socket[c] # i
               PROVE  down'[i] = <<>> /\ link[i] # "up"
    BY <1>1 DEF OrphanIsSilent
  <2>1. down[i] = <<>> /\ link[i] # "up" BY <1>0 DEF OrphanIsSilent
  <2>2. FramesIn(down[i]) = {} BY <2>1 DEF FramesIn
  <2>3. FramesIn(down[i])' = {} BY <2>1, <2>2 DEF Orderly, Truthful
  <2>4. down'[i] \in Seq(Frames) BY DEF Orderly
  <2>5. Len(down'[i]) = 0
    <3> SUFFICES ASSUME Len(down'[i]) # 0 PROVE FALSE OBVIOUS
    <3>1. 1 \in DOMAIN down'[i] BY <2>4
    <3>2. down'[i][1] \in FramesIn(down[i])' BY <3>1 DEF FramesIn
    <3> QED BY <2>3, <3>2
  <2> QED BY <2>1, <2>4, <2>5, EmptySeq
<1>6. ASSUME NEW i \in Conns PROVE CloseIsLast(i)'
  BY <1>0 DEF CloseIsLast, Orderly, Truthful
<1>7. ASSUME NEW s \in Sessions PROVE FreeIsUnknown(s)'
  <2> SUFFICES ASSUME shell'[s] = "free"
               PROVE  /\ \A c \in Clients : sessionId[c] # s
                      /\ \A i \in Conns : target'[i] # s /\ Hello(s) \notin FramesIn(down[i])'
    BY <1>1 DEF FreeIsUnknown
  <2>1. /\ \A c \in Clients : sessionId[c] # s
        /\ \A i \in Conns : target[i] # s /\ Hello(s) \notin FramesIn(down[i])
    BY <1>0 DEF FreeIsUnknown, Orderly
  <2>2. \A i \in Conns : target'[i] # s BY <2>1 DEF Orderly
  <2>3. \A i \in Conns : Hello(s) \notin FramesIn(down[i])' BY <2>1 DEF Orderly, Truthful
  <2> QED BY <2>1, <2>2, <2>3
<1> QED BY <1>2, <1>3, <1>4, <1>5, <1>6, <1>7 DEF ClientInv

-----------------------------------------------------------------------------
(* The end of a handler. *)

\* What is known of the websockets besides i.
Elsewhere(i) ==
    \A j \in Conns \ {i} :
       /\ at'[j] = at[j] /\ target'[j] = target[j] /\ initCmd'[j] = initCmd[j]
       /\ kick'[j] = kick[j] /\ revalidate'[j] = revalidate[j]

\* A handler that returns leaves nothing of its websocket.
LEMMA Returned ==
    ASSUME TypeOK, NEW i \in Conns, Return(i)
    PROVE  /\ at' \in [Conns -> Places] /\ target' \in [Conns -> Sessions \cup {None}]
           /\ initCmd' \in [Conns -> BOOLEAN] /\ kick' \in [Conns -> Conns \cup {None}]
           /\ revalidate' \in [Conns -> BOOLEAN]
           /\ at'[i] = "gone" /\ target'[i] = None /\ ~ initCmd'[i] /\ kick'[i] = None
           /\ ~ revalidate'[i] /\ Elsewhere(i)
<1>1. at' \in [Conns -> Places] /\ at'[i] = "gone" /\ \A j \in Conns \ {i} : at'[j] = at[j]
  BY DEF TypeOK, Return, Places
<1>2. /\ target' \in [Conns -> Sessions \cup {None}] /\ target'[i] = None
      /\ \A j \in Conns \ {i} : target'[j] = target[j]
  BY DEF TypeOK, Return
<1>3. /\ initCmd' \in [Conns -> BOOLEAN] /\ ~ initCmd'[i]
      /\ revalidate' \in [Conns -> BOOLEAN] /\ ~ revalidate'[i]
      /\ \A j \in Conns \ {i} : initCmd'[j] = initCmd[j] /\ revalidate'[j] = revalidate[j]
  BY DEF TypeOK, Return
<1>4. /\ kick' \in [Conns -> Conns \cup {None}] /\ kick'[i] = None
      /\ \A j \in Conns \ {i} : kick'[j] = kick[j]
  BY DEF TypeOK, Return
<1> QED BY <1>1, <1>2, <1>3, <1>4 DEF Elsewhere

\* A handler that serves nobody may return, unless it owns a live session.
LEMMA LeavesUnserved ==
    ASSUME IInv, NEW i \in Conns, at[i] \in {"accepted", "opened"},
           at[i] = "opened" => shell[target[i]] # "live",
           Return(i), UNCHANGED <<sessionVars, done>>
    PROVE  AgentInv'
<1>0. /\ TypeOK /\ None \notin Conns /\ None \notin Sessions
      /\ \A j \in Conns : ConnOK(j)
      /\ \A s \in Sessions : SessionOK(s)
  BY NoneAssumption DEF IInv, AgentInv
<1>1. /\ at'[i] = "gone" /\ target'[i] = None /\ ~ initCmd'[i] /\ kick'[i] = None
      /\ ~ revalidate'[i] /\ Elsewhere(i)
  BY <1>0, Returned
<1>2. UNCHANGED <<shell, attached, grace, closers, initRuns, done>> BY DEF sessionVars
<1>3. ASSUME NEW j \in Conns PROVE ConnOK(j)'
  <2>1. Cleared(j)' /\ Targeted(j)'
    BY <1>0, <1>1 DEF ConnOK, Cleared, Targeted, Serving, Elsewhere
  <2>2. OpenIsAttached(j)'
    BY <1>0, <1>1, <1>2 DEF ConnOK, OpenIsAttached, Greeting, Elsewhere
  <2>3. KickedWasServed(j)' /\ MarkedIsServed(j)'
    BY <1>0, <1>1 DEF ConnOK, KickedWasServed, MarkedIsServed, Serving, Elsewhere
  <2>4. CommandIsFirst(j)'
    BY <1>0, <1>1, <1>2 DEF ConnOK, CommandIsFirst, Elsewhere
  <2> QED BY <2>1, <2>2, <2>3, <2>4 DEF ConnOK
<1>4. ASSUME NEW s \in Sessions PROVE SessionOK(s)'
  <2>1. AttachedIsServed(s)'
    <3>1. attached[s] \in Conns \cup {None} BY <1>0 DEF TypeOK
    <3> QED BY <1>0, <1>1, <1>2, <3>1 DEF SessionOK, AttachedIsServed, Serving, Elsewhere
  <2>2. OverIsDetached(s)' BY <1>0, <1>2 DEF SessionOK, OverIsDetached
  <2>3. Kept(s)'
    BY <1>0, <1>1, <1>2 DEF SessionOK, Kept, Opening, Elsewhere
  <2> QED BY <1>0, <1>2, <2>1, <2>2, <2>3 DEF SessionOK
<1> QED BY <1>3, <1>4 DEF AgentInv

\* A handler that has served may return once it has detached: the session is
\* closed, or its timer is armed, unless another attachment took its place.
LEMMA LeavesServed ==
    ASSUME IInv, NEW i \in Conns, Serving(i), NEW how \in {"clean", "dirty"},
           NEW wanted \in BOOLEAN,
           Detach(i, how), Closing(target[i], wanted), how = "clean" /\ Detaches(i) => wanted,
           Return(i), UNCHANGED <<shell, initRuns>>,
           \A j \in Conns : done[j] \/ (Greeting(i) /\ kick[i] = j) => done'[j]
    PROVE  /\ attached' \in [Sessions -> Conns \cup {None}]
           /\ grace' \in [Sessions -> {"off", "long", "short"}]
           /\ closers' \in [Sessions -> BOOLEAN]
           /\ AgentInv'
<1>0. /\ TypeOK /\ None \notin Conns /\ None \notin Sessions
      /\ \A j \in Conns : ConnOK(j)
      /\ \A s \in Sessions : SessionOK(s)
  BY NoneAssumption DEF IInv, AgentInv
<1>1. /\ at'[i] = "gone" /\ target'[i] = None /\ ~ initCmd'[i] /\ kick'[i] = None
      /\ ~ revalidate'[i] /\ Elsewhere(i)
  BY <1>0, Returned
<1>2. PICK t \in Sessions : t = target[i]
  BY <1>0 DEF ConnOK, Targeted, TypeOK
<1>3. /\ closers' \in [Sessions -> BOOLEAN]
      /\ closers'[t] = (closers[t] \/ (wanted /\ shell[t] = "live"))
      /\ \A s \in Sessions \ {t} : closers'[s] = closers[s]
  <2>1. closers \in [Sessions -> BOOLEAN] BY <1>0 DEF TypeOK
  <2>2. closers' = [closers EXCEPT ![t] = closers[t] \/ (wanted /\ shell[t] = "live")]
    BY <1>2 DEF Closing
  <2> QED BY <2>1, <2>2
<1>4. /\ attached' \in [Sessions -> Conns \cup {None}]
      /\ grace' \in [Sessions -> {"off", "long", "short"}]
      /\ \A s \in Sessions \ {t} : attached'[s] = attached[s] /\ grace'[s] = grace[s]
      /\ IF attached[t] = i
           THEN attached'[t] = None /\ (how = "dirty" => grace'[t] # "off")
           ELSE attached'[t] = attached[t] /\ grace'[t] = grace[t]
  <2>1. attached \in [Sessions -> Conns \cup {None}] /\ grace \in [Sessions -> {"off", "long", "short"}]
    BY <1>0 DEF TypeOK
  <2>2. CASE attached[t] = i
    <3>1. /\ attached' = [attached EXCEPT ![t] = None]
          /\ grace' = [grace EXCEPT ![t] = Armed(i, how)]
      BY <1>2, <2>2 DEF Detach, Detaches
    <3>2. /\ Armed(i, how) \in {"off", "long", "short"}
          /\ how = "dirty" => Armed(i, how) # "off"
      BY DEF Armed
    <3> QED BY <2>1, <2>2, <3>1, <3>2
  <2>3. CASE attached[t] # i BY <1>2, <2>1, <2>3 DEF Detach, Detaches
  <2> QED BY <2>2, <2>3
<1>5. ASSUME NEW j \in Conns PROVE ConnOK(j)'
  <2>1. Cleared(j)' /\ Targeted(j)'
    BY <1>0, <1>1 DEF ConnOK, Cleared, Targeted, Serving, Elsewhere
  <2>2. OpenIsAttached(j)'
    <3> SUFFICES ASSUME at'[j] \in {"greet", "greetFresh", "running"}, ~ done'[j]
                 PROVE  attached'[target'[j]] = j \/ \E k \in Conns : (Greeting(k) /\ kick[k] = j)'
      BY DEF OpenIsAttached
    <3>1. j # i /\ at[j] = at'[j] /\ target'[j] = target[j] /\ ~ done[j] BY <1>1 DEF Elsewhere
    <3>2. target[j] \in Sessions BY <1>0, <3>1 DEF ConnOK, Targeted, Serving, TypeOK
    <3>3. CASE attached[target[j]] = j
      BY <1>4, <3>1, <3>2, <3>3
    <3>4. CASE \E k \in Conns : Greeting(k) /\ kick[k] = j
      <4>1. PICK k \in Conns : Greeting(k) /\ kick[k] = j BY <3>4
      <4>2. k # i BY <4>1
      <4> QED BY <1>1, <4>1, <4>2 DEF Elsewhere, Greeting
    <3> QED BY <1>0, <3>1, <3>3, <3>4 DEF ConnOK, OpenIsAttached
  <2>3. KickedWasServed(j)' /\ MarkedIsServed(j)'
    BY <1>0, <1>1 DEF ConnOK, KickedWasServed, MarkedIsServed, Serving, Elsewhere
  <2>4. CommandIsFirst(j)'
    BY <1>0, <1>1 DEF ConnOK, CommandIsFirst, Elsewhere
  <2> QED BY <2>1, <2>2, <2>3, <2>4 DEF ConnOK
<1>6. ASSUME NEW s \in Sessions PROVE SessionOK(s)'
  <2>0. attached[s] \in Conns \cup {None} BY <1>0 DEF TypeOK
  <2>1. AttachedIsServed(s)'
    <3> SUFFICES ASSUME attached'[s] # None
                 PROVE  Serving(attached[s])' /\ target'[attached'[s]] = s /\ grace'[s] = "off"
      BY DEF AttachedIsServed
    <3>1. attached'[s] = attached[s] /\ grace'[s] = grace[s] /\ attached[s] # i
      <4>1. CASE s = t BY <1>4, <4>1
      <4>2. CASE s # t
        <5>1. attached[s] # i BY <1>0, <1>2, <4>2 DEF SessionOK, AttachedIsServed
        <5> QED BY <1>4, <4>2, <5>1
      <4> QED BY <4>1, <4>2
    <3>2. Serving(attached[s]) /\ target[attached[s]] = s /\ grace[s] = "off"
      BY <1>0, <3>1 DEF SessionOK, AttachedIsServed
    <3> QED BY <1>1, <2>0, <3>1, <3>2 DEF Elsewhere, Serving
  <2>2. OverIsDetached(s)' BY <1>0, <1>4 DEF SessionOK, OverIsDetached
  <2>3. Kept(s)'
    <3> SUFFICES ASSUME shell[s] = "live"
                 PROVE  closers'[s] \/ Opening(s)' \/ attached'[s] # None \/ grace'[s] # "off"
      BY DEF Kept
    <3>1. CASE s = t /\ attached[t] = i
      BY <1>2, <1>3, <1>4, <3>1 DEF Detaches
    <3>2. CASE ~ (s = t /\ attached[t] = i)
      <4>1. attached'[s] = attached[s] /\ grace'[s] = grace[s] BY <1>4, <3>2
      <4>2. closers[s] => closers'[s] BY <1>3
      <4>3. Opening(s) => Opening(s)' BY <1>1 DEF Opening, Elsewhere, Serving
      <4> QED BY <1>0, <4>1, <4>2, <4>3 DEF SessionOK, Kept
    <3> QED BY <3>1, <3>2
  <2> QED BY <1>0, <2>1, <2>2, <2>3 DEF SessionOK
<1> QED BY <1>3, <1>4, <1>5, <1>6 DEF AgentInv

-----------------------------------------------------------------------------
(* serve *)

\* A handler that serves nobody returns, at most writing a frame that is true.
LEMMA ReturnsUnserved ==
    ASSUME IInv, NEW i \in Conns, at[i] \in {"accepted", "opened"},
           at[i] = "opened" => shell[target[i]] # "live",
           Return(i), UNCHANGED <<clientVars, sessionVars, done, link>>,
           NEW f \in Frames, down' = down \/ down' = Sent(down, i, f),
           \A s \in Sessions : f # Hello(s),
           \A code \in Gone : f = Close(code) =>
              target[i] \in Sessions /\ shell[target[i]] # "live"
    PROVE  IInv'
<1>0. TypeOK BY DEF IInv
<1>1. AgentInv' BY LeavesUnserved
<1>2. /\ at' \in [Conns -> Places] /\ target' \in [Conns -> Sessions \cup {None}]
      /\ initCmd' \in [Conns -> BOOLEAN] /\ kick' \in [Conns -> Conns \cup {None}]
      /\ revalidate' \in [Conns -> BOOLEAN]
      /\ at'[i] = "gone" /\ target'[i] = None /\ Elsewhere(i)
  BY <1>0, Returned
<1>3. down' \in [Conns -> Seq(Frames)] /\ Adds(down', down, i, f)
  <2>1. down \in [Conns -> Seq(Frames)] BY <1>0 DEF TypeOK
  <2>2. CASE down' = down BY <2>1, <2>2 DEF Adds
  <2>3. CASE down' = Sent(down, i, f) BY <2>1, <2>3, SentFrames
  <2> QED BY <2>2, <2>3
<1>4. TypeOK' BY <1>0, <1>2, <1>3 DEF TypeOK, clientVars, sessionVars
<1>5. Orderly
  <2>1. UNCHANGED <<clientVars, link, shell, done>> BY DEF sessionVars
  <2>2. ASSUME NEW j \in Conns
        PROVE  /\ at[j] = "gone" => at'[j] = "gone"
               /\ at'[j] # "gone" => target'[j] = target[j]
               /\ \A s \in Sessions : target'[j] = s => target[j] = s
               /\ Serving(j) /\ done[j] => at'[j] = "gone" \/ (Serving(j)' /\ done'[j])
    BY <1>2, <2>1, NoneAssumption DEF Elsewhere, Serving
  <2>3. link[i] = "up" => Truthful(i, f) BY <1>2, <2>1 DEF Truthful
  <2>4. ASSUME NEW j \in Conns, NEW g \in FramesIn(down[j])'
        PROVE  g \in FramesIn(down[j]) \/ Truthful(j, g)
    BY <1>3, <2>3 DEF Adds
  <2> QED BY <1>0, <1>3, <2>1, <2>2, <2>4 DEF Orderly, TypeOK
<1> QED BY <1>1, <1>4, <1>5, TerminalsRely DEF IInv

\* The request never reached the agent: the handler has nothing to undo.
LEMMA StepUnreached ==
    ASSUME IInv, NEW i \in Conns, Unreached(i), UNCHANGED clientVars
    PROVE  IInv'
<1>1. PICK f \in Frames : f = Close("1006") BY FrameKinds DEF Codes
<1>2. /\ \A s \in Sessions : f # Hello(s)
      /\ \A code \in Gone : f # Close(code)
  BY <1>1, FrameKinds DEF Gone
<1>3. /\ at[i] = "accepted" /\ Return(i) /\ down' = down
      /\ UNCHANGED <<clientVars, sessionVars, done, link>>
  BY DEF Unreached
<1> QED BY <1>2, <1>3, ReturnsUnserved

\* A session that cannot be opened leaves nothing behind; 1006 ends no session.
LEMMA StepOpenFails ==
    ASSUME IInv, NEW i \in Conns, OpenFails(i), UNCHANGED clientVars
    PROVE  IInv'
<1>1. PICK f \in Frames : f = Close("1006") BY FrameKinds DEF Codes
<1>2. /\ \A s \in Sessions : f # Hello(s)
      /\ \A code \in Gone : f # Close(code)
  BY <1>1, FrameKinds DEF Gone
<1>3. /\ at[i] = "accepted" /\ Return(i) /\ down' = Sent(down, i, f)
      /\ UNCHANGED <<clientVars, sessionVars, done, link>>
  BY <1>1 DEF OpenFails
<1> QED BY <1>2, <1>3, ReturnsUnserved

\* 4404 is sent only when the session is closing or over (the lookup of serve).
LEMMA StepAttachFails ==
    ASSUME IInv, NEW i \in Conns, AttachFails(i), UNCHANGED clientVars
    PROVE  IInv'
<1> DEFINE code == IF at[i] = "opened" THEN "1006" ELSE "4404"
<1>1. code \in Codes BY DEF Codes
<1>2. /\ at[i] \in {"accepted", "opened"} /\ Return(i) /\ down' = Sent(down, i, Close(code))
      /\ UNCHANGED <<clientVars, sessionVars, done, link>>
      /\ target[i] \in Sessions /\ shell[target[i]] # "live"
  <2>1. at[i] \in {"accepted", "opened"} /\ target[i] # None
    BY DEF AttachFails, Waiting, IInv, AgentInv, ConnOK, Targeted
  <2>2. target[i] \in Sessions \cup {None} BY DEF IInv, TypeOK
  <2> QED BY <2>1, <2>2 DEF AttachFails, Attachable
<1> HIDE DEF code
<1>3. PICK f \in Frames : f = Close(code) BY <1>1, FrameKinds
<1>4. \A s \in Sessions : f # Hello(s) BY <1>3, FrameKinds
<1> QED BY <1>2, <1>3, <1>4, ReturnsUnserved

\* A fresh session is nobody's yet: the handler that opened it keeps it.
LEMMA StepOpen ==
    ASSUME IInv, NEW i \in Conns, NEW s \in Sessions, Open(i, s), UNCHANGED clientVars
    PROVE  IInv'
<1>0. /\ TypeOK /\ None \notin Conns /\ None \notin Sessions
      /\ \A j \in Conns : ConnOK(j)
      /\ \A r \in Sessions : SessionOK(r)
  BY NoneAssumption DEF IInv, AgentInv
<1>1. /\ at[i] = "accepted" /\ target[i] = None /\ shell[s] = "free"
      /\ UNCHANGED <<attached, grace, closers, done, kick, revalidate, link, down, initCmd>>
  BY DEF Open
<1>2. /\ at' \in [Conns -> Places] /\ at'[i] = "opened" /\ \A j \in Conns \ {i} : at'[j] = at[j]
  BY <1>0 DEF TypeOK, Open, Places
<1>3. /\ target' \in [Conns -> Sessions \cup {None}] /\ target'[i] = s
      /\ \A j \in Conns \ {i} : target'[j] = target[j]
  BY <1>0 DEF TypeOK, Open
<1>4. /\ shell' \in [Sessions -> {"free", "live", "closing", "closed"}]
      /\ shell'[s] = "live" /\ \A r \in Sessions \ {s} : shell'[r] = shell[r]
  BY <1>0 DEF TypeOK, Open
<1>5. /\ initRuns' \in [Sessions -> Nat]
      /\ initRuns'[s] = 0 /\ \A r \in Sessions \ {s} : initRuns'[r] = initRuns[r]
  BY <1>0 DEF TypeOK, Open
<1>6. \A j \in Conns : target[j] # s BY <1>1 DEF IInv, ClientInv, FreeIsUnknown
<1>7. TypeOK' BY <1>0, <1>1, <1>2, <1>3, <1>4, <1>5 DEF TypeOK, clientVars
<1>8. ASSUME NEW j \in Conns PROVE ConnOK(j)'
  <2>1. Cleared(j)' /\ Targeted(j)'
    BY <1>0, <1>1, <1>2, <1>3 DEF ConnOK, Cleared, Targeted, Serving
  <2>2. OpenIsAttached(j)'
    BY <1>0, <1>1, <1>2, <1>3 DEF ConnOK, OpenIsAttached, Greeting
  <2>3. KickedWasServed(j)' /\ MarkedIsServed(j)'
    BY <1>0, <1>1, <1>2 DEF ConnOK, KickedWasServed, MarkedIsServed, Serving
  <2>4. CommandIsFirst(j)'
    <3>1. CASE j = i BY <1>1, <1>3, <1>5, <1>6, <3>1 DEF CommandIsFirst
    <3>2. CASE j # i
      <4>1. target[j] \in Sessions \cup {None} /\ target[j] # s BY <1>0, <1>6 DEF TypeOK
      <4>2. target[j] # None => initRuns'[target[j]] = initRuns[target[j]] BY <1>5, <4>1
      <4> QED BY <1>0, <1>1, <1>3, <3>2, <4>1, <4>2 DEF ConnOK, CommandIsFirst
    <3> QED BY <3>1, <3>2
  <2> QED BY <2>1, <2>2, <2>3, <2>4 DEF ConnOK
<1>9. ASSUME NEW r \in Sessions PROVE SessionOK(r)'
  <2>0. attached[r] \in Conns \cup {None} BY <1>0 DEF TypeOK
  <2>1. AttachedIsServed(r)'
    BY <1>0, <1>1, <1>2, <1>3, <2>0 DEF SessionOK, AttachedIsServed, Serving
  <2>2. OverIsDetached(r)' BY <1>0, <1>1, <1>4 DEF SessionOK, OverIsDetached
  <2>3. Kept(r)' /\ initRuns'[r] <= 1
    BY <1>0, <1>1, <1>2, <1>3, <1>4, <1>5 DEF SessionOK, Kept, Opening
  <2> QED BY <2>1, <2>2, <2>3 DEF SessionOK
<1>10. Orderly
  <2>1. ASSUME NEW j \in Conns
        PROVE  /\ at[j] = "gone" => at'[j] = "gone"
               /\ at'[j] # "gone" => target'[j] = target[j] \/ target[j] = None
               /\ \A r \in Sessions : target'[j] = r => target[j] = r \/ shell'[r] # "free"
               /\ Serving(j) /\ done[j] => at'[j] = "gone" \/ (Serving(j)' /\ done'[j])
    BY <1>1, <1>2, <1>3, <1>4 DEF Serving
  <2>2. \A r \in Sessions : /\ shell'[r] = "free" => shell[r] = "free"
                            /\ shell'[r] = "live" => shell[r] \in {"live", "free"}
    BY <1>1, <1>4
  <2> QED BY <1>0, <1>1, <2>1, <2>2 DEF Orderly, TypeOK
<1> QED BY <1>7, <1>8, <1>9, <1>10, TerminalsRely DEF IInv, AgentInv

\* The critical section of Attach takes the session over from whoever has it,
\* and that one is due to be kicked.
LEMMA StepAttach ==
    ASSUME IInv, NEW i \in Conns, Attach(i), UNCHANGED clientVars
    PROVE  IInv'
<1>0. /\ TypeOK /\ None \notin Conns /\ None \notin Sessions
      /\ \A j \in Conns : ConnOK(j)
      /\ \A r \in Sessions : SessionOK(r)
  BY NoneAssumption DEF IInv, AgentInv
<1>1. PICK s \in Sessions : s = target[i]
  <2>1. target[i] # None BY <1>0 DEF Attach, Waiting, ConnOK, Targeted
  <2> QED BY <1>0, <2>1 DEF TypeOK
<1>2. /\ at[i] \in {"accepted", "opened"} /\ ~ Serving(i) /\ shell[s] = "live"
      /\ UNCHANGED <<shell, closers, initRuns, revalidate, link, target, down, initCmd>>
  BY <1>1 DEF Attach, Waiting, Attachable, Serving, linkVars
<1>3. PICK k \in Conns \cup {None} : k = attached[s] BY <1>0 DEF TypeOK
<1>4. k # i /\ (k # None => Serving(k) /\ target[k] = s)
  BY <1>0, <1>2, <1>3 DEF SessionOK, AttachedIsServed
<1>5. /\ kick' \in [Conns -> Conns \cup {None}] /\ kick'[i] = k
      /\ \A j \in Conns \ {i} : kick'[j] = kick[j]
  <2>1. kick' = [kick EXCEPT ![i] = k] BY <1>1, <1>3 DEF Attach
  <2> QED BY <1>0, <2>1 DEF TypeOK
<1>6. /\ attached' \in [Sessions -> Conns \cup {None}] /\ attached'[s] = i
      /\ \A r \in Sessions \ {s} : attached'[r] = attached[r]
  BY <1>0, <1>1 DEF TypeOK, Attach
<1>7. /\ grace' \in [Sessions -> {"off", "long", "short"}] /\ grace'[s] = "off"
      /\ \A r \in Sessions \ {s} : grace'[r] = grace[r]
  BY <1>0, <1>1 DEF TypeOK, Attach
<1>8. done' \in [Conns -> BOOLEAN] /\ \A j \in Conns \ {i} : done'[j] = done[j]
  BY <1>0 DEF TypeOK, Attach
<1>9. /\ at' \in [Conns -> Places] /\ at'[i] \in {"greet", "greetFresh"}
      /\ \A j \in Conns \ {i} : at'[j] = at[j]
  <2> DEFINE p == IF at[i] = "opened" THEN "greetFresh" ELSE "greet"
  <2>1. at' = [at EXCEPT ![i] = p] BY DEF Attach
  <2>2. p \in {"greet", "greetFresh"} /\ p \in Places BY DEF Places
  <2> HIDE DEF p
  <2> QED BY <1>0, <2>1, <2>2 DEF TypeOK
<1>10. TypeOK' BY <1>0, <1>2, <1>5, <1>6, <1>7, <1>8, <1>9 DEF TypeOK, clientVars
<1>11. ASSUME NEW j \in Conns PROVE ConnOK(j)'
  <2>1. Cleared(j)' /\ Targeted(j)'
    BY <1>0, <1>1, <1>2, <1>9 DEF ConnOK, Cleared, Targeted, Serving
  <2>2. OpenIsAttached(j)'
    <3> SUFFICES ASSUME at'[j] \in {"greet", "greetFresh", "running"}, ~ done'[j], j # i
                 PROVE  attached'[target'[j]] = j \/ \E m \in Conns : (Greeting(m) /\ kick[m] = j)'
      BY <1>1, <1>2, <1>6 DEF OpenIsAttached
    <3>1. at[j] = at'[j] /\ target'[j] = target[j] /\ ~ done[j] BY <1>2, <1>8, <1>9
    <3>2. target[j] \in Sessions BY <1>0, <3>1 DEF ConnOK, Targeted, Serving, TypeOK
    <3>3. CASE attached[target[j]] = j /\ target[j] # s
      BY <1>6, <3>1, <3>2, <3>3
    <3>4. CASE attached[target[j]] = j /\ target[j] = s
      BY <1>3, <1>5, <1>9, <3>4 DEF Greeting
    <3>5. CASE \E m \in Conns : Greeting(m) /\ kick[m] = j
      <4>1. PICK m \in Conns : Greeting(m) /\ kick[m] = j BY <3>5
      <4>2. m # i BY <1>2, <4>1 DEF Greeting
      <4> QED BY <1>5, <1>9, <4>1, <4>2 DEF Greeting
    <3> QED BY <1>0, <3>1, <3>3, <3>4, <3>5 DEF ConnOK, OpenIsAttached
  <2>3. KickedWasServed(j)'
    BY <1>0, <1>2, <1>4, <1>5, <1>9 DEF ConnOK, KickedWasServed, Serving
  <2>4. MarkedIsServed(j)' /\ CommandIsFirst(j)'
    BY <1>0, <1>2, <1>9 DEF ConnOK, MarkedIsServed, CommandIsFirst, Serving
  <2> QED BY <2>1, <2>2, <2>3, <2>4 DEF ConnOK
<1>12. ASSUME NEW r \in Sessions PROVE SessionOK(r)'
  <2>0. attached[r] \in Conns \cup {None} BY <1>0 DEF TypeOK
  <2>1. AttachedIsServed(r)'
    <3>1. CASE r = s BY <1>1, <1>2, <1>6, <1>7, <1>9, <3>1 DEF AttachedIsServed, Serving
    <3>2. CASE r # s
      BY <1>0, <1>2, <1>6, <1>7, <1>9, <2>0, <3>2 DEF SessionOK, AttachedIsServed, Serving
    <3> QED BY <3>1, <3>2
  <2>2. OverIsDetached(r)' BY <1>0, <1>2, <1>6 DEF SessionOK, OverIsDetached
  <2>3. Kept(r)'
    <3>1. CASE r = s BY <1>0, <1>6, <3>1 DEF Kept
    <3>2. CASE r # s
      BY <1>0, <1>1, <1>2, <1>6, <1>7, <1>9, <3>2 DEF SessionOK, Kept, Opening
    <3> QED BY <3>1, <3>2
  <2> QED BY <1>0, <1>2, <2>1, <2>2, <2>3 DEF SessionOK
<1>13. Orderly
  <2>1. ASSUME NEW j \in Conns
        PROVE  /\ at[j] = "gone" => at'[j] = "gone"
               /\ Serving(j) /\ done[j] => Serving(j)' /\ done'[j]
    BY <1>2, <1>8, <1>9 DEF Serving
  <2> QED BY <1>0, <1>2, <2>1 DEF Orderly, TypeOK
<1> QED BY <1>10, <1>11, <1>12, <1>13, TerminalsRely DEF IInv, AgentInv

\* The kicked attachment is closed before the hello goes out, and nothing has
\* been said on the new websocket before.
LEMMA StepGreet ==
    ASSUME IInv, NEW i \in Conns, Greet(i), UNCHANGED clientVars
    PROVE  IInv'
<1>0. /\ TypeOK /\ None \notin Conns /\ None \notin Sessions
      /\ \A j \in Conns : ConnOK(j)
      /\ \A r \in Sessions : SessionOK(r)
  BY NoneAssumption DEF IInv, AgentInv
<1>1. /\ Greeting(i) /\ Serving(i) /\ ~ done[i]
      /\ UNCHANGED <<shell, attached, grace, closers, initRuns, revalidate, link, target, initCmd>>
  BY DEF Greet, Greeting, Serving, sessionVars
<1>2. PICK k \in Conns \cup {None} : k = kick[i] BY <1>0 DEF TypeOK
<1>3. k # i /\ (k # None => at[k] = "gone" \/ Serving(k))
  BY <1>0, <1>2 DEF ConnOK, KickedWasServed
<1>4. PICK s \in Sessions : s = target[i] BY <1>0, <1>1 DEF ConnOK, Targeted, TypeOK
<1>5. /\ kick' \in [Conns -> Conns \cup {None}] /\ kick'[i] = None
      /\ \A j \in Conns \ {i} : kick'[j] = kick[j]
  BY <1>0 DEF TypeOK, Greet
<1>6. /\ at' \in [Conns -> Places] /\ at'[i] = "running"
      /\ \A j \in Conns \ {i} : at'[j] = at[j]
  BY <1>0 DEF TypeOK, Greet, Places
<1>7. done' \in [Conns -> BOOLEAN] /\ \A j \in Conns : done'[j] = (done[j] \/ j = k)
  <2>1. done' = [j \in Conns |-> done[j] \/ j = k] BY <1>2 DEF Greet, DoneWith
  <2> QED BY <1>0, <2>1 DEF TypeOK
<1>8. /\ down' \in [Conns -> Seq(Frames)]
      /\ \A j \in Conns : \A g \in FramesIn(down[j])' :
            \/ g \in FramesIn(down[j])
            \/ j = k /\ link[j] = "up" /\ g = Close("4409")
            \/ j = i /\ link[j] = "up" /\ g = Hello(s)
  <2>1. PICK q : q = CloseFrame(down, k, "4409") OBVIOUS
  <2>2. PICK f \in Frames : f = Hello(s) BY FrameKinds
  <2>3. q \in [Conns -> Seq(Frames)] /\ AddsClose(q, down, k, "4409")
    <3>1. down \in [Conns -> Seq(Frames)] /\ "4409" \in Codes BY <1>0 DEF TypeOK, Codes
    <3> QED BY <2>1, <3>1, CloseFrames
  <2>4. down' = Sent(q, i, f) BY <1>2, <1>4, <2>1, <2>2 DEF Greet
  <2>5. down' \in [Conns -> Seq(Frames)] /\ Adds(down', q, i, f)
    BY <2>3, <2>4, SentFrames
  <2> QED BY <2>2, <2>3, <2>5 DEF Adds, AddsClose
<1>9. TypeOK' BY <1>0, <1>1, <1>5, <1>6, <1>7, <1>8 DEF TypeOK, clientVars
<1>10. ASSUME NEW j \in Conns PROVE ConnOK(j)'
  <2>1. Cleared(j)' /\ Targeted(j)'
    BY <1>0, <1>1, <1>6 DEF ConnOK, Cleared, Targeted, Serving
  <2>2. OpenIsAttached(j)'
    <3> SUFFICES ASSUME at'[j] \in {"greet", "greetFresh", "running"}, ~ done'[j]
                 PROVE  attached[target[j]] = j \/ \E m \in Conns : (Greeting(m) /\ kick[m] = j)'
      BY <1>1 DEF OpenIsAttached
    <3>1. at[j] \in {"greet", "greetFresh", "running"} /\ ~ done[j] /\ j # k
      BY <1>1, <1>6, <1>7 DEF Greeting
    <3>2. CASE \E m \in Conns : Greeting(m) /\ kick[m] = j
      <4>1. PICK m \in Conns : Greeting(m) /\ kick[m] = j BY <3>2
      <4>2. m # i BY <1>2, <3>1, <4>1
      <4> QED BY <1>5, <1>6, <4>1, <4>2 DEF Greeting
    <3> QED BY <1>0, <3>1, <3>2 DEF ConnOK, OpenIsAttached
  <2>3. KickedWasServed(j)' /\ MarkedIsServed(j)'
    BY <1>0, <1>1, <1>5, <1>6 DEF ConnOK, KickedWasServed, MarkedIsServed, Serving
  <2>4. CommandIsFirst(j)' BY <1>0, <1>1 DEF ConnOK, CommandIsFirst
  <2> QED BY <2>1, <2>2, <2>3, <2>4 DEF ConnOK
<1>11. ASSUME NEW r \in Sessions PROVE SessionOK(r)'
  <2>0. attached[r] \in Conns \cup {None} BY <1>0 DEF TypeOK
  <2>1. AttachedIsServed(r)'
    BY <1>0, <1>1, <1>6, <2>0 DEF SessionOK, AttachedIsServed, Serving
  <2>2. OverIsDetached(r)' BY <1>0, <1>1 DEF SessionOK, OverIsDetached
  <2>3. Kept(r)' BY <1>0, <1>1, <1>6 DEF SessionOK, Kept, Opening, Greeting
  <2> QED BY <1>0, <1>1, <2>1, <2>2, <2>3 DEF SessionOK
<1>12. Orderly
  <2>1. ASSUME NEW j \in Conns
        PROVE  /\ at[j] = "gone" => at'[j] = "gone"
               /\ Serving(j) => Serving(j)'
               /\ done[j] => done'[j]
    BY <1>1, <1>6, <1>7 DEF Serving
  <2>2. ASSUME NEW j \in Conns, NEW g \in FramesIn(down[j])'
        PROVE  g \in FramesIn(down[j]) \/ Truthful(j, g)
    <3>1. CASE j = k /\ link[j] = "up" /\ g = Close("4409")
      <4>1. /\ \A r \in Sessions : g # Hello(r)
            /\ \A code \in Gone : g # Close(code)
        BY <3>1, FrameKinds DEF Gone
      <4>2. at'[j] = "gone" \/ (Serving(j)' /\ done'[j])
        BY <1>0, <1>3, <1>7, <2>1, <3>1
      <4> QED BY <3>1, <4>1, <4>2 DEF Truthful
    <3>2. CASE j = i /\ link[j] = "up" /\ g = Hello(s)
      <4>1. /\ \A r \in Sessions : g = Hello(r) => r = target[j]
            /\ \A code : g # Close(code)
        BY <1>4, <3>2, FrameKinds
      <4>2. at[j] # "gone" BY <1>1, <3>2 DEF Greeting
      <4>3. \A code \in Codes : Close(code) \notin FramesIn(down[i])
        BY <1>1 DEF IInv, ClientInv, CloseIsLast, Greeting
      <4>4. \A code \in Codes : Close(code) \notin FramesIn(down[i])'
        BY <1>3, <1>8, <4>3, FrameKinds
      <4> QED BY <3>2, <4>1, <4>2, <4>4 DEF Truthful
    <3> QED BY <1>8, <3>1, <3>2
  <2> QED BY <1>1, <1>8, <2>1, <2>2, <1>0 DEF Orderly, TypeOK
<1> QED BY <1>9, <1>10, <1>11, <1>12, TerminalsRely DEF IInv, AgentInv

\* A hello that cannot be written closes both attachments, and the new one
\* detaches at once.
LEMMA StepGreetFails ==
    ASSUME IInv, NEW i \in Conns, GreetFails(i), UNCHANGED clientVars
    PROVE  IInv'
<1>0. /\ TypeOK /\ None \notin Conns /\ \A j \in Conns : ConnOK(j)
  BY NoneAssumption DEF IInv, AgentInv
<1>1. Greeting(i) /\ Serving(i) /\ Return(i) /\ UNCHANGED <<shell, initRuns, link>>
  BY DEF GreetFails, Greeting, Serving
<1>2. PICK k \in Conns \cup {None} : k = kick[i] BY <1>0 DEF TypeOK
<1>3. k # i /\ (k # None => at[k] = "gone" \/ Serving(k))
  BY <1>0, <1>2 DEF ConnOK, KickedWasServed
<1>4. done' \in [Conns -> BOOLEAN] /\ \A j \in Conns : done'[j] = (done[j] \/ j = k \/ j = i)
  <2>1. done' = [j \in Conns |-> done[j] \/ j \in {k, i}] BY <1>2 DEF GreetFails, DoneWith
  <2> QED BY <1>0, <2>1 DEF TypeOK
<1>5. /\ attached' \in [Sessions -> Conns \cup {None}]
      /\ grace' \in [Sessions -> {"off", "long", "short"}]
      /\ closers' \in [Sessions -> BOOLEAN]
      /\ AgentInv'
  <2>1. PICK wanted \in BOOLEAN : wanted = (at[i] = "greetFresh") OBVIOUS
  <2>2. PICK how \in {"clean", "dirty"} : how = "dirty" OBVIOUS
  <2>3. Detach(i, how) /\ Closing(target[i], wanted) BY <2>1, <2>2 DEF GreetFails
  <2>4. \A j \in Conns : done[j] \/ (Greeting(i) /\ kick[i] = j) => done'[j] BY <1>2, <1>4
  <2>5. how = "clean" /\ Detaches(i) => wanted BY <2>2
  <2> QED BY <1>1, <2>3, <2>4, <2>5, LeavesServed
<1>6. /\ at' \in [Conns -> Places] /\ target' \in [Conns -> Sessions \cup {None}]
      /\ initCmd' \in [Conns -> BOOLEAN] /\ kick' \in [Conns -> Conns \cup {None}]
      /\ revalidate' \in [Conns -> BOOLEAN]
      /\ at'[i] = "gone" /\ target'[i] = None /\ Elsewhere(i)
  BY <1>0, <1>1, Returned
<1>7. /\ down' \in [Conns -> Seq(Frames)]
      /\ \A j \in Conns : \A g \in FramesIn(down[j])' :
            \/ g \in FramesIn(down[j])
            \/ j = k /\ link[j] = "up" /\ g = Close("4409")
            \/ j = i /\ link[j] = "up" /\ g = Close("1011")
  <2>0. "4409" \in Codes /\ "1011" \in Codes BY DEF Codes
  <2>1. PICK q : q = CloseFrame(down, k, "4409") OBVIOUS
  <2>2. q \in [Conns -> Seq(Frames)] /\ AddsClose(q, down, k, "4409")
    <3>1. down \in [Conns -> Seq(Frames)] BY <1>0 DEF TypeOK
    <3> QED BY <2>0, <2>1, <3>1, CloseFrames
  <2>3. down' = CloseFrame(q, i, "1011") BY <1>2, <2>1 DEF GreetFails
  <2>4. down' \in [Conns -> Seq(Frames)] /\ AddsClose(down', q, i, "1011")
    BY <2>0, <2>2, <2>3, CloseFrames
  <2> QED BY <2>2, <2>4 DEF AddsClose
<1>8. TypeOK' BY <1>0, <1>1, <1>4, <1>5, <1>6, <1>7 DEF TypeOK, clientVars
<1>9. Orderly
  <2>1. ASSUME NEW j \in Conns
        PROVE  /\ at[j] = "gone" => at'[j] = "gone"
               /\ at'[j] # "gone" => target'[j] = target[j]
               /\ \A s \in Sessions : target'[j] = s => target[j] = s
               /\ Serving(j) /\ done'[j] => at'[j] = "gone" \/ (Serving(j)' /\ done'[j])
               /\ done[j] => done'[j]
    BY <1>4, <1>6, NoneAssumption DEF Elsewhere, Serving
  <2>2. ASSUME NEW j \in Conns, NEW g \in FramesIn(down[j])'
        PROVE  g \in FramesIn(down[j]) \/ Truthful(j, g)
    <3> SUFFICES ASSUME g \notin FramesIn(down[j]) PROVE Truthful(j, g) OBVIOUS
    <3>1. link[j] = "up" /\ g \in {Close("4409"), Close("1011")} /\ j \in {i, k} BY <1>7
    <3>2. /\ \A r \in Sessions : g # Hello(r)
          /\ \A code \in Gone : g # Close(code)
      BY <3>1, FrameKinds DEF Gone
    <3>3. at'[j] = "gone" \/ (Serving(j)' /\ done'[j])
      BY <1>0, <1>3, <1>4, <1>6, <2>1, <3>1
    <3> QED BY <3>1, <3>2, <3>3 DEF Truthful
  <2> QED BY <1>0, <1>1, <1>7, <2>1, <2>2 DEF Orderly, TypeOK
<1> QED BY <1>5, <1>8, <1>9, TerminalsRely DEF IInv

-----------------------------------------------------------------------------
(* The goroutines of an attachment. *)

\* The command that reaches the shell is the only one on its way there.
LEMMA StepReadCommand ==
    ASSUME IInv, NEW i \in Conns, ReadCommand(i), UNCHANGED clientVars
    PROVE  IInv'
<1>0. /\ TypeOK /\ None \notin Sessions
      /\ \A j \in Conns : ConnOK(j)
      /\ \A r \in Sessions : SessionOK(r)
  BY NoneAssumption DEF IInv, AgentInv
<1>1. /\ at[i] = "running" /\ initCmd[i]
      /\ UNCHANGED <<shell, attached, grace, closers, at, done, kick, revalidate, link, target, down>>
  BY DEF ReadCommand, attachmentVars
<1>2. PICK t \in Sessions : t = target[i]
  BY <1>0, <1>1 DEF ConnOK, Targeted, Serving, TypeOK
<1>3. initRuns[t] = 0 /\ \A j \in Conns \ {i} : target[j] = t => ~ initCmd[j]
  BY <1>0, <1>1, <1>2 DEF ConnOK, CommandIsFirst
<1>4. /\ initRuns' \in [Sessions -> Nat] /\ initRuns'[t] = 1
      /\ \A r \in Sessions \ {t} : initRuns'[r] = initRuns[r]
  <2>1. initRuns' = [initRuns EXCEPT ![t] = 1]
    BY <1>2, <1>3 DEF ReadCommand
  <2> QED BY <1>0, <2>1 DEF TypeOK
<1>5. /\ initCmd' \in [Conns -> BOOLEAN] /\ ~ initCmd'[i]
      /\ \A j \in Conns \ {i} : initCmd'[j] = initCmd[j]
  BY <1>0 DEF TypeOK, ReadCommand
<1>6. TypeOK' BY <1>0, <1>1, <1>4, <1>5 DEF TypeOK, clientVars
<1>7. ASSUME NEW j \in Conns PROVE ConnOK(j)'
  <2>1. Cleared(j)' /\ Targeted(j)' /\ OpenIsAttached(j)' /\ KickedWasServed(j)' /\ MarkedIsServed(j)'
    BY <1>0, <1>1, <1>5
    DEF ConnOK, Cleared, Targeted, OpenIsAttached, KickedWasServed, MarkedIsServed, Serving, Greeting
  <2>2. CommandIsFirst(j)'
    <3>1. target[j] \in Sessions \cup {None} BY <1>0 DEF TypeOK
    <3> QED BY <1>0, <1>1, <1>2, <1>3, <1>4, <1>5, <3>1 DEF ConnOK, CommandIsFirst
  <2> QED BY <2>1, <2>2 DEF ConnOK
<1>8. ASSUME NEW r \in Sessions PROVE SessionOK(r)'
  <2>1. AttachedIsServed(r)' /\ OverIsDetached(r)' /\ Kept(r)'
    BY <1>0, <1>1 DEF SessionOK, AttachedIsServed, OverIsDetached, Kept, Opening, Serving
  <2>2. initRuns'[r] <= 1 BY <1>0, <1>4 DEF SessionOK
  <2> QED BY <2>1, <2>2 DEF SessionOK
<1>9. Orderly BY <1>0, <1>1 DEF Orderly, Serving, TypeOK
<1> QED BY <1>6, <1>7, <1>8, <1>9, TerminalsRely DEF IInv, AgentInv

\* The deferred detach of Run closes the session or arms its timer, unless a
\* newer attachment has taken over.
LEMMA StepRunDetaches ==
    ASSUME IInv, NEW i \in Conns, RunDetaches(i), UNCHANGED clientVars
    PROVE  IInv'
<1>0. TypeOK /\ None \notin Sessions BY NoneAssumption DEF IInv
<1>1. /\ at[i] \in {"clean", "dirty"} /\ Serving(i) /\ ~ Greeting(i) /\ Return(i)
      /\ UNCHANGED <<shell, initRuns, done, link, down>>
  BY DEF RunDetaches, Greeting, Serving
<1>2. /\ attached' \in [Sessions -> Conns \cup {None}]
      /\ grace' \in [Sessions -> {"off", "long", "short"}]
      /\ closers' \in [Sessions -> BOOLEAN]
      /\ AgentInv'
  <2>1. PICK how \in {"clean", "dirty"} : how = at[i] BY <1>1
  <2>2. PICK wanted \in BOOLEAN : wanted = (how = "clean" /\ Detaches(i)) OBVIOUS
  <2>3. Detach(i, how) /\ Closing(target[i], wanted) BY <2>1, <2>2 DEF RunDetaches
  <2> QED BY <1>1, <2>2, <2>3, LeavesServed
<1>3. /\ at' \in [Conns -> Places] /\ target' \in [Conns -> Sessions \cup {None}]
      /\ initCmd' \in [Conns -> BOOLEAN] /\ kick' \in [Conns -> Conns \cup {None}]
      /\ revalidate' \in [Conns -> BOOLEAN]
      /\ at'[i] = "gone" /\ target'[i] = None /\ Elsewhere(i)
  BY <1>0, <1>1, Returned
<1>4. TypeOK' BY <1>0, <1>1, <1>2, <1>3 DEF TypeOK, clientVars
<1>5. Orderly
  <2>1. ASSUME NEW j \in Conns
        PROVE  /\ at[j] = "gone" => at'[j] = "gone"
               /\ at'[j] # "gone" => target'[j] = target[j]
               /\ \A s \in Sessions : target'[j] = s => target[j] = s
               /\ Serving(j) /\ done[j] => at'[j] = "gone" \/ (Serving(j)' /\ done'[j])
    BY <1>0, <1>1, <1>3 DEF Elsewhere, Serving
  <2> QED BY <1>0, <1>1, <2>1 DEF Orderly, TypeOK
<1> QED BY <1>2, <1>4, <1>5, TerminalsRely DEF IInv

\* Marking an attachment changes nothing else.
LEMMA StepRevalidateMark ==
    ASSUME IInv, NEW i \in Conns, RevalidateMark(i), UNCHANGED clientVars
    PROVE  IInv'
<1>0. /\ TypeOK
      /\ \A j \in Conns : ConnOK(j)
      /\ \A r \in Sessions : SessionOK(r)
  BY DEF IInv, AgentInv
<1>1. /\ at[i] = "running"
      /\ UNCHANGED <<shell, attached, grace, closers, initRuns, at, done, kick,
                     link, target, down, initCmd>>
  BY DEF RevalidateMark, sessionVars, linkVars
<1>2. revalidate' \in [Conns -> BOOLEAN] /\ \A j \in Conns \ {i} : revalidate'[j] = revalidate[j]
  BY <1>0 DEF TypeOK, RevalidateMark
<1>3. TypeOK' BY <1>0, <1>1, <1>2 DEF TypeOK, clientVars
<1>4. ASSUME NEW j \in Conns PROVE ConnOK(j)'
  <2>1. Cleared(j)' /\ Targeted(j)' /\ OpenIsAttached(j)' /\ KickedWasServed(j)' /\ CommandIsFirst(j)'
    BY <1>0, <1>1
    DEF ConnOK, Cleared, Targeted, OpenIsAttached, KickedWasServed, CommandIsFirst, Serving, Greeting
  <2>2. MarkedIsServed(j)' BY <1>0, <1>1, <1>2 DEF ConnOK, MarkedIsServed, Serving
  <2> QED BY <2>1, <2>2 DEF ConnOK
<1>5. ASSUME NEW r \in Sessions PROVE SessionOK(r)'
  BY <1>0, <1>1 DEF SessionOK, AttachedIsServed, OverIsDetached, Kept, Opening, Serving
<1>6. Orderly BY <1>0, <1>1 DEF Orderly, Serving, TypeOK
<1> QED BY <1>3, <1>4, <1>5, <1>6, TerminalsRely DEF IInv, AgentInv

\* A step that closes at most the attachment of websocket i, which is served.
LEMMA ClosesOne ==
    ASSUME IInv, NEW i \in Conns \cup {None}, NEW code \in Codes,
           i # None => Serving(i),
           done' = DoneWith({i}), down' = CloseFrame(down, i, code),
           UNCHANGED <<clientVars, link, target>>,
           \A j \in Conns : (at[j] = "gone" <=> at'[j] = "gone") /\ (Serving(j) => Serving(j)'),
           \A s \in Sessions : shell'[s] = shell[s] \/ shell'[s] = "closed",
           i # None /\ code \in Gone /\ ~ done[i] /\ link[i] = "up" =>
              target[i] \in Sessions /\ shell'[target[i]] # "live"
    PROVE  /\ done' \in [Conns -> BOOLEAN]
           /\ \A j \in Conns : done'[j] = (done[j] \/ j = i)
           /\ down' \in [Conns -> Seq(Frames)]
           /\ ClientInv'
<1>0. TypeOK /\ None \notin Conns BY NoneAssumption DEF IInv
<1>1. done' \in [Conns -> BOOLEAN] /\ \A j \in Conns : done'[j] = (done[j] \/ j = i)
  BY <1>0 DEF TypeOK, DoneWith
<1>2. down' \in [Conns -> Seq(Frames)] /\ AddsClose(down', down, i, code)
  <2>1. down \in [Conns -> Seq(Frames)] BY <1>0 DEF TypeOK
  <2> QED BY <2>1, CloseFrames
<1>3. ASSUME NEW j \in Conns, NEW g \in FramesIn(down[j])'
      PROVE  g \in FramesIn(down[j]) \/ Truthful(j, g)
  <2> SUFFICES ASSUME g \notin FramesIn(down[j]) PROVE Truthful(j, g) OBVIOUS
  <2>1. j = i /\ ~ done[j] /\ link[j] = "up" /\ g = Close(code) BY <1>2 DEF AddsClose
  <2>2. /\ \A r \in Sessions : g # Hello(r)
        /\ \A d : g = Close(d) => d = code
    BY <2>1, FrameKinds
  <2>3. Serving(j) /\ Serving(j)' /\ done'[j] BY <1>0, <1>1, <2>1
  <2>4. at[j] # "gone" BY <2>3 DEF Serving
  <2>5. code \in Gone => target[j] \in Sessions /\ shell'[target[j]] # "live" BY <1>0, <2>1
  <2> QED BY <2>1, <2>2, <2>3, <2>4, <2>5 DEF Truthful
<1>4. Orderly
  <2>1. \A s \in Sessions : shell[s] \in {"free", "live", "closing", "closed"} BY <1>0 DEF TypeOK
  <2>2. \A s \in Sessions : /\ shell'[s] = "free" => shell[s] = "free"
                            /\ shell'[s] = "live" => shell[s] \in {"live", "free"}
    BY <2>1
  <2> QED BY <1>1, <1>2, <1>3, <2>2 DEF Orderly
<1> QED BY <1>1, <1>2, <1>4, TerminalsRely

\* A served attachment is closed by one of its own goroutines, which may then
\* be about to detach it.
LEMMA ClosesItself ==
    ASSUME IInv, NEW i \in Conns, NEW code \in Codes, Serving(i),
           done' = DoneWith({i}), down' = CloseFrame(down, i, code),
           UNCHANGED <<clientVars, sessionVars, kick, revalidate, link, target, initCmd>>,
           NEW p \in {at[i], "clean", "dirty"}, at' = [at EXCEPT ![i] = p],
           p # at[i] => at[i] = "running",
           code \notin Gone \/ done[i] \/ link[i] # "up"
    PROVE  IInv'
<1>0. /\ TypeOK /\ None \notin Sessions /\ None \notin Conns
      /\ \A j \in Conns : ConnOK(j)
      /\ \A r \in Sessions : SessionOK(r)
  BY NoneAssumption DEF IInv, AgentInv
<1>1. /\ at' \in [Conns -> Places] /\ at'[i] = p /\ \A j \in Conns \ {i} : at'[j] = at[j]
  <2>1. p \in Places BY <1>0 DEF TypeOK, Places
  <2> QED BY <1>0, <2>1 DEF TypeOK
<1>2. UNCHANGED <<shell, attached, grace, closers, initRuns>> BY DEF sessionVars
<1>3. ASSUME NEW j \in Conns
      PROVE  /\ at[j] = "gone" <=> at'[j] = "gone"
             /\ Serving(j) <=> Serving(j)'
             /\ Greeting(j) <=> Greeting(j)'
             /\ at[j] = "opened" <=> at'[j] = "opened"
             /\ at'[j] \in {"greet", "greetFresh", "running"} =>
                  at[j] \in {"greet", "greetFresh", "running"}
  BY <1>1 DEF Serving, Greeting
<1>4. /\ done' \in [Conns -> BOOLEAN]
      /\ \A j \in Conns : done'[j] = (done[j] \/ j = i)
      /\ down' \in [Conns -> Seq(Frames)]
      /\ ClientInv'
  <2>1. i \in Conns \cup {None} OBVIOUS
  <2>2. \A j \in Conns : (at[j] = "gone" <=> at'[j] = "gone") /\ (Serving(j) => Serving(j)')
    BY <1>3
  <2> QED BY <1>2, <2>1, <2>2, ClosesOne
<1>5. TypeOK' BY <1>0, <1>1, <1>2, <1>4 DEF TypeOK, clientVars
<1>6. ASSUME NEW j \in Conns PROVE ConnOK(j)'
  <2>1. Cleared(j)' /\ Targeted(j)' BY <1>0, <1>3 DEF ConnOK, Cleared, Targeted
  <2>2. OpenIsAttached(j)' BY <1>0, <1>2, <1>3, <1>4 DEF ConnOK, OpenIsAttached
  <2>3. KickedWasServed(j)' /\ MarkedIsServed(j)'
    BY <1>0, <1>3 DEF ConnOK, KickedWasServed, MarkedIsServed
  <2>4. CommandIsFirst(j)' BY <1>0, <1>2 DEF ConnOK, CommandIsFirst
  <2> QED BY <2>1, <2>2, <2>3, <2>4 DEF ConnOK
<1>7. ASSUME NEW r \in Sessions PROVE SessionOK(r)'
  <2>0. attached[r] \in Conns \cup {None} BY <1>0 DEF TypeOK
  <2>1. AttachedIsServed(r)'
    <3> SUFFICES ASSUME attached[r] # None
                 PROVE  Serving(attached[r])' /\ target[attached[r]] = r /\ grace[r] = "off"
      BY <1>2 DEF AttachedIsServed
    <3>1. PICK k \in Conns : k = attached[r] BY <2>0
    <3>2. Serving(k) /\ target[k] = r /\ grace[r] = "off"
      BY <1>0, <3>1 DEF SessionOK, AttachedIsServed
    <3>3. Serving(k)' BY <1>3, <3>2
    <3> QED BY <1>2, <3>1, <3>2, <3>3
  <2>2. OverIsDetached(r)' BY <1>0, <1>2 DEF SessionOK, OverIsDetached
  <2>3. Kept(r)' BY <1>0, <1>2, <1>3 DEF SessionOK, Kept, Opening
  <2> QED BY <1>0, <1>2, <2>1, <2>2, <2>3 DEF SessionOK
<1> QED BY <1>4, <1>5, <1>6, <1>7 DEF IInv, AgentInv

\* The 1000 that ends Run reaches nobody: the websocket is closed or broken.
LEMMA StepRunEnds ==
    ASSUME IInv, NEW i \in Conns, NEW how \in {"clean", "dirty"}, RunEnds(i, how),
           UNCHANGED clientVars
    PROVE  IInv'
<1>1. PICK code \in Codes : code = "1000" BY DEF Codes
<1>2. /\ at[i] = "running" /\ Serving(i) /\ (done[i] \/ link[i] # "up")
      /\ done' = DoneWith({i}) /\ down' = CloseFrame(down, i, code)
      /\ at' = [at EXCEPT ![i] = how]
      /\ UNCHANGED <<sessionVars, kick, revalidate, link, target, initCmd>>
  BY <1>1 DEF RunEnds, Serving
<1>3. how \in {at[i], "clean", "dirty"} OBVIOUS
<1> QED BY <1>2, <1>3, ClosesItself

\* The revalidation closes with 4410, which ends no session.
LEMMA StepRevalidateClose ==
    ASSUME IInv, NEW i \in Conns, RevalidateClose(i), UNCHANGED clientVars
    PROVE  IInv'
<1>1. PICK code \in Codes : code = "4410" BY DEF Codes
<1>2. /\ done' = DoneWith({i}) /\ down' = CloseFrame(down, i, code)
      /\ UNCHANGED <<sessionVars, at, kick, revalidate, link, target, initCmd>>
  BY <1>1 DEF RevalidateClose, RevalidateCode
<1>3. Serving(i) BY DEF RevalidateClose, IInv, AgentInv, ConnOK, MarkedIsServed
<1>4. PICK p \in {at[i], "clean", "dirty"} : p = at[i] OBVIOUS
<1>5. at' = [at EXCEPT ![i] = p] BY <1>2, <1>4 DEF IInv, TypeOK
<1>6. code \notin Gone BY <1>1 DEF Gone
<1> QED BY <1>2, <1>3, <1>4, <1>5, <1>6, ClosesItself

\* A write that fails closes with 1011, which ends no session.
LEMMA StepWriteFails ==
    ASSUME IInv, NEW i \in Conns, WriteFails(i), UNCHANGED clientVars
    PROVE  IInv'
<1>1. PICK code \in Codes : code = "1011" BY DEF Codes
<1>2. /\ done' = DoneWith({i}) /\ down' = CloseFrame(down, i, code) /\ Serving(i)
      /\ UNCHANGED <<sessionVars, at, kick, revalidate, link, target, initCmd>>
  BY <1>1 DEF WriteFails, Serving
<1>4. PICK p \in {at[i], "clean", "dirty"} : p = at[i] OBVIOUS
<1>5. at' = [at EXCEPT ![i] = p] BY <1>2, <1>4 DEF IInv, TypeOK
<1>6. code \notin Gone BY <1>1 DEF Gone
<1> QED BY <1>2, <1>4, <1>5, <1>6, ClosesItself

-----------------------------------------------------------------------------
(* The end of a session. *)

\* A step of a session that leaves the websockets alone.
LEMMA SessionMoves ==
    ASSUME IInv, NEW s \in Sessions,
           UNCHANGED <<clientVars, attached, initRuns, attachmentVars, linkVars>>,
           shell' \in [Sessions -> {"free", "live", "closing", "closed"}],
           grace' \in [Sessions -> {"off", "long", "short"}],
           closers' \in [Sessions -> BOOLEAN],
           \A r \in Sessions \ {s} :
              shell'[r] = shell[r] /\ grace'[r] = grace[r] /\ closers'[r] = closers[r],
           shell'[s] = shell[s] \/ shell'[s] = "closing",
           grace'[s] \in {grace[s], "off"},
           shell'[s] = "live" => closers'[s]
    PROVE  IInv'
<1>0. /\ TypeOK
      /\ \A j \in Conns : ConnOK(j)
      /\ \A r \in Sessions : SessionOK(r)
  BY DEF IInv, AgentInv
<1>1. UNCHANGED <<at, done, kick, revalidate, link, target, down, initCmd, attached, initRuns>>
  BY DEF attachmentVars, linkVars
<1>2. TypeOK' BY <1>0, <1>1 DEF TypeOK, clientVars
<1>3. ASSUME NEW j \in Conns PROVE ConnOK(j)'
  <2>1. Cleared(j)' /\ Targeted(j)' /\ OpenIsAttached(j)'
    BY <1>0, <1>1 DEF ConnOK, Cleared, Targeted, OpenIsAttached, Serving, Greeting
  <2>2. KickedWasServed(j)' /\ CommandIsFirst(j)' /\ MarkedIsServed(j)'
    BY <1>0, <1>1 DEF ConnOK, KickedWasServed, CommandIsFirst, MarkedIsServed, Serving
  <2> QED BY <2>1, <2>2 DEF ConnOK
<1>4. ASSUME NEW r \in Sessions PROVE SessionOK(r)'
  <2>1. AttachedIsServed(r)' BY <1>0, <1>1 DEF SessionOK, AttachedIsServed, Serving
  <2>2. OverIsDetached(r)' BY <1>0, <1>1 DEF SessionOK, OverIsDetached
  <2>3. Kept(r)' BY <1>0, <1>1 DEF SessionOK, Kept, Opening
  <2> QED BY <1>0, <1>1, <2>1, <2>2, <2>3 DEF SessionOK
<1>5. Orderly
  <2>1. \A r \in Sessions : /\ shell'[r] = "free" => shell[r] = "free"
                            /\ shell'[r] = "live" => shell[r] \in {"live", "free"}
    OBVIOUS
  <2> QED BY <1>0, <1>1, <2>1 DEF Orderly, Serving, TypeOK
<1> QED BY <1>2, <1>3, <1>4, <1>5, TerminalsRely DEF IInv, AgentInv

\* A session whose shell ended has a closer.
LEMMA StepShellEnds ==
    ASSUME IInv, NEW s \in Sessions, ShellEnds(s), UNCHANGED clientVars
    PROVE  IInv'
<1>1. TypeOK BY DEF IInv
<1>2. UNCHANGED <<clientVars, attached, initRuns, attachmentVars, linkVars, shell, grace>>
  BY DEF ShellEnds
<1>3. /\ closers' \in [Sessions -> BOOLEAN] /\ closers'[s]
      /\ \A r \in Sessions \ {s} : closers'[r] = closers[r]
  BY <1>1 DEF TypeOK, ShellEnds
<1>4. /\ shell' \in [Sessions -> {"free", "live", "closing", "closed"}]
      /\ grace' \in [Sessions -> {"off", "long", "short"}]
  BY <1>1, <1>2 DEF TypeOK
<1> QED BY <1>2, <1>3, <1>4, SessionMoves

\* A timer that fired has become a closer.
LEMMA StepGraceFires ==
    ASSUME IInv, NEW s \in Sessions, GraceFires(s), UNCHANGED clientVars
    PROVE  IInv'
<1>1. TypeOK BY DEF IInv
<1>2. UNCHANGED <<clientVars, attached, initRuns, attachmentVars, linkVars, shell>>
  BY DEF GraceFires
<1>3. /\ closers' \in [Sessions -> BOOLEAN] /\ (shell[s] = "live" => closers'[s])
      /\ \A r \in Sessions \ {s} : closers'[r] = closers[r]
  <2>1. closers' = [closers EXCEPT ![s] = closers[s] \/ shell[s] = "live"]
    BY DEF GraceFires, Closing
  <2> QED BY <1>1, <2>1 DEF TypeOK
<1>4. /\ grace' \in [Sessions -> {"off", "long", "short"}] /\ grace'[s] = "off"
      /\ \A r \in Sessions \ {s} : grace'[r] = grace[r]
  BY <1>1 DEF TypeOK, GraceFires
<1>5. shell' \in [Sessions -> {"free", "live", "closing", "closed"}] BY <1>1, <1>2 DEF TypeOK
<1> QED BY <1>2, <1>3, <1>4, <1>5, SessionMoves

\* doClose begins: the session is no longer live.
LEMMA StepCloseBegins ==
    ASSUME IInv, NEW s \in Sessions, CloseBegins(s), UNCHANGED clientVars
    PROVE  IInv'
<1>1. TypeOK BY DEF IInv
<1>2. UNCHANGED <<clientVars, attached, initRuns, attachmentVars, linkVars, grace>>
  BY DEF CloseBegins
<1>3. /\ closers' \in [Sessions -> BOOLEAN]
      /\ \A r \in Sessions \ {s} : closers'[r] = closers[r]
  BY <1>1 DEF TypeOK, CloseBegins
<1>4. /\ shell' \in [Sessions -> {"free", "live", "closing", "closed"}] /\ shell'[s] = "closing"
      /\ \A r \in Sessions \ {s} : shell'[r] = shell[r]
  BY <1>1 DEF TypeOK, CloseBegins
<1>5. grace' \in [Sessions -> {"off", "long", "short"}] BY <1>1, <1>2 DEF TypeOK
<1> QED BY <1>2, <1>3, <1>4, <1>5, SessionMoves

\* doClose detaches whoever is attached and tells it the truth.
LEMMA StepCloseEnds ==
    ASSUME IInv, NEW s \in Sessions, CloseEnds(s), UNCHANGED clientVars
    PROVE  IInv'
<1>0. /\ TypeOK /\ None \notin Sessions /\ None \notin Conns
      /\ \A j \in Conns : ConnOK(j)
      /\ \A r \in Sessions : SessionOK(r)
  BY NoneAssumption DEF IInv, AgentInv
<1>1. UNCHANGED <<closers, initRuns, at, kick, revalidate, link, target, initCmd>>
  BY DEF CloseEnds
<1>2. /\ shell' \in [Sessions -> {"free", "live", "closing", "closed"}] /\ shell'[s] = "closed"
      /\ \A r \in Sessions \ {s} : shell'[r] = shell[r]
  BY <1>0 DEF TypeOK, CloseEnds
<1>3. /\ attached' \in [Sessions -> Conns \cup {None}] /\ attached'[s] = None
      /\ \A r \in Sessions \ {s} : attached'[r] = attached[r]
  BY <1>0 DEF TypeOK, CloseEnds
<1>4. /\ grace' \in [Sessions -> {"off", "long", "short"}] /\ grace'[s] = "off"
      /\ \A r \in Sessions \ {s} : grace'[r] = grace[r]
  BY <1>0 DEF TypeOK, CloseEnds
<1>5. PICK i \in Conns \cup {None} : i = attached[s] BY <1>0 DEF TypeOK
<1>6. i # None => Serving(i) /\ target[i] = s BY <1>0, <1>5 DEF SessionOK, AttachedIsServed
<1>7. /\ done' \in [Conns -> BOOLEAN]
      /\ \A j \in Conns : done'[j] = (done[j] \/ j = i)
      /\ down' \in [Conns -> Seq(Frames)]
      /\ ClientInv'
  <2>1. PICK code \in Codes : code = "1000" BY DEF Codes
  <2>2. done' = DoneWith({i}) /\ down' = CloseFrame(down, i, code)
    BY <1>5, <2>1 DEF CloseEnds
  <2>3. \A j \in Conns : (at[j] = "gone" <=> at'[j] = "gone") /\ (Serving(j) => Serving(j)')
    BY <1>1 DEF Serving
  <2>4. \A r \in Sessions : shell'[r] = shell[r] \/ shell'[r] = "closed" BY <1>2
  <2>5. i # None => target[i] \in Sessions /\ shell'[target[i]] # "live" BY <1>2, <1>6
  <2> QED BY <1>1, <1>6, <2>2, <2>3, <2>4, <2>5, ClosesOne
<1>8. TypeOK' BY <1>0, <1>1, <1>2, <1>3, <1>4, <1>7 DEF TypeOK, clientVars
<1>9. ASSUME NEW j \in Conns PROVE ConnOK(j)'
  <2>1. Cleared(j)' /\ Targeted(j)' /\ KickedWasServed(j)' /\ MarkedIsServed(j)' /\ CommandIsFirst(j)'
    BY <1>0, <1>1
    DEF ConnOK, Cleared, Targeted, KickedWasServed, MarkedIsServed, CommandIsFirst, Serving
  <2>2. OpenIsAttached(j)'
    <3> SUFFICES ASSUME at[j] \in {"greet", "greetFresh", "running"}, ~ done'[j]
                 PROVE  attached'[target[j]] = j \/ \E m \in Conns : Greeting(m) /\ kick[m] = j
      BY <1>1 DEF OpenIsAttached, Greeting
    <3>1. ~ done[j] /\ j # i BY <1>7
    <3>2. target[j] \in Sessions BY <1>0 DEF ConnOK, Targeted, Serving, TypeOK
    <3> QED BY <1>0, <1>3, <1>5, <3>1, <3>2 DEF ConnOK, OpenIsAttached
  <2> QED BY <2>1, <2>2 DEF ConnOK
<1>10. ASSUME NEW r \in Sessions PROVE SessionOK(r)'
  <2>1. AttachedIsServed(r)' BY <1>0, <1>1, <1>3, <1>4 DEF SessionOK, AttachedIsServed, Serving
  <2>2. OverIsDetached(r)' BY <1>0, <1>2, <1>3 DEF SessionOK, OverIsDetached
  <2>3. Kept(r)' BY <1>0, <1>1, <1>2, <1>3, <1>4 DEF SessionOK, Kept, Opening
  <2> QED BY <1>0, <1>1, <2>1, <2>2, <2>3 DEF SessionOK
<1> QED BY <1>7, <1>8, <1>9, <1>10 DEF IInv, AgentInv

-----------------------------------------------------------------------------
(* The terminals. *)

\* The agent does not notice what a terminal does.
LEMMA AgentRests ==
    ASSUME AgentInv, UNCHANGED <<agentVars, target, initCmd>>
    PROVE  AgentInv'
<1>1. UNCHANGED <<shell, attached, grace, closers, initRuns, at, done, kick, revalidate,
                  target, initCmd>>
  BY DEF agentVars, sessionVars, attachmentVars
<1>2. ASSUME NEW i \in Conns PROVE ConnOK(i)'
  <2>1. ConnOK(i) BY DEF AgentInv
  <2>2. Cleared(i)' /\ Targeted(i)' /\ OpenIsAttached(i)'
    BY <1>1, <2>1 DEF ConnOK, Cleared, Targeted, OpenIsAttached, Serving, Greeting
  <2>3. KickedWasServed(i)' /\ MarkedIsServed(i)' /\ CommandIsFirst(i)'
    BY <1>1, <2>1 DEF ConnOK, KickedWasServed, MarkedIsServed, CommandIsFirst, Serving
  <2> QED BY <2>2, <2>3 DEF ConnOK
<1>3. ASSUME NEW s \in Sessions PROVE SessionOK(s)'
  BY <1>1 DEF AgentInv, SessionOK, AttachedIsServed, OverIsDetached, Kept, Opening, Serving
<1> QED BY <1>2, <1>3 DEF AgentInv

\* Terminal c gives up its websocket, when it has one, and at most forgets its
\* session.
LetsGo(c) ==
    /\ UNCHANGED <<agentVars, target, initCmd>>
    /\ phase' \in [Clients -> {"absent", "auth", "socket", "timer", "idle"}]
    /\ socket' \in [Clients -> Conns \cup {None}]
    /\ sessionId' \in [Clients -> Sessions \cup {None}]
    /\ reconnecting' \in [Clients -> BOOLEAN]
    /\ link' \in [Conns -> {"up", "bye", "ended", "cut"}]
    /\ down' \in [Conns -> Seq(Frames)]
    /\ socket'[c] = None /\ sessionId'[c] \in {None, sessionId[c]}
    /\ \A d \in Clients \ {c} :
         phase'[d] = phase[d] /\ socket'[d] = socket[d] /\ sessionId'[d] = sessionId[d]
    /\ \A i \in Conns : IF i = socket[c] THEN down'[i] = <<>> /\ link'[i] # "up"
                                         ELSE down'[i] = down[i] /\ link'[i] = link[i]

\* A terminal without a websocket is told nothing and holds nobody up.
LEMMA LettingGo ==
    ASSUME IInv, NEW c \in Clients, LetsGo(c)
    PROVE  IInv'
<1>0. /\ TypeOK /\ None \notin Sessions /\ None \notin Conns
      /\ \A d \in Clients : SocketIsOwn(d) /\ SameSession(d) /\ GoneIsTrue(d)
      /\ \A i \in Conns : OrphanIsSilent(i) /\ CloseIsLast(i)
      /\ \A s \in Sessions : FreeIsUnknown(s)
  BY NoneAssumption DEF IInv, ClientInv
<1>1. UNCHANGED <<shell, attached, grace, closers, initRuns, at, done, kick, revalidate,
                  target, initCmd>>
  BY DEF LetsGo, agentVars, sessionVars, attachmentVars
<1>2. AgentInv' BY AgentRests DEF IInv, LetsGo
<1>3. TypeOK' BY <1>0, <1>1 DEF TypeOK, LetsGo
<1>4. \A i \in Conns : /\ FramesIn(down[i])' \subseteq FramesIn(down[i])
                       /\ link'[i] = "up" => link[i] = "up"
  <2> TAKE i \in Conns
  <2>1. CASE i = socket[c]
    <3>1. FramesIn(down[i])' = {} BY <2>1 DEF LetsGo, FramesIn
    <3> QED BY <2>1, <3>1 DEF LetsGo
  <2>2. CASE i # socket[c] BY <2>2 DEF LetsGo, FramesIn
  <2> QED BY <2>1, <2>2
<1>5. \A d \in Clients : /\ socket'[d] = IF d = c THEN None ELSE socket[d]
                         /\ sessionId'[d] \in {None, sessionId[d]}
                         /\ d # c => phase'[d] = phase[d] /\ sessionId'[d] = sessionId[d]
  BY DEF LetsGo
<1>6. ASSUME NEW d \in Clients PROVE SocketIsOwn(d)'
  BY <1>0, <1>5 DEF SocketIsOwn
<1>7. ASSUME NEW d \in Clients PROVE SameSession(d)'
  BY <1>0, <1>1, <1>4, <1>5 DEF SameSession
<1>8. ASSUME NEW d \in Clients PROVE GoneIsTrue(d)'
  <2> SUFFICES ASSUME NEW i \in Conns, socket'[d] = i,
                      NEW code \in Gone, Close(code) \in FramesIn(down[i])',
                      NEW s \in Sessions, sessionId'[d] = s \/ Hello(s) \in FramesIn(down[i])'
               PROVE  shell[s] # "live"
    BY <1>1 DEF GoneIsTrue
  <2>1. socket[d] = i /\ Close(code) \in FramesIn(down[i])
        /\ (sessionId[d] = s \/ Hello(s) \in FramesIn(down[i]))
    BY <1>0, <1>4, <1>5
  <2> QED BY <1>0, <2>1 DEF GoneIsTrue
<1>9. ASSUME NEW i \in Conns PROVE OrphanIsSilent(i)'
  <2> SUFFICES ASSUME \A d \in Clients : socket'[d] # i
               PROVE  down'[i] = <<>> /\ link'[i] # "up"
    BY DEF OrphanIsSilent
  <2>1. CASE i = socket[c] BY <2>1 DEF LetsGo
  <2>2. CASE i # socket[c]
    <3>1. \A d \in Clients : socket[d] # i BY <1>5, <2>2
    <3> QED BY <1>0, <2>2, <3>1 DEF OrphanIsSilent, LetsGo
  <2> QED BY <2>1, <2>2
<1>10. ASSUME NEW i \in Conns PROVE CloseIsLast(i)'
  BY <1>0, <1>1, <1>4 DEF CloseIsLast, Serving
<1>11. ASSUME NEW s \in Sessions PROVE FreeIsUnknown(s)'
  BY <1>0, <1>1, <1>4, <1>5 DEF FreeIsUnknown
<1> QED BY <1>2, <1>3, <1>6, <1>7, <1>8, <1>9, <1>10, <1>11 DEF IInv, ClientInv

\* What closing the websocket does to the links.
LEMMA Dropped ==
    ASSUME TypeOK, NEW c \in Clients, NEW how \in {"bye", "ended", "cut"}, Drop(c, how)
    PROVE  /\ UNCHANGED <<target, initCmd>>
           /\ link' \in [Conns -> {"up", "bye", "ended", "cut"}]
           /\ down' \in [Conns -> Seq(Frames)]
           /\ socket' \in [Clients -> Conns \cup {None}] /\ socket'[c] = None
           /\ \A d \in Clients \ {c} : socket'[d] = socket[d]
           /\ \A i \in Conns : IF i = socket[c] THEN down'[i] = <<>> /\ link'[i] # "up"
                                                ELSE down'[i] = down[i] /\ link'[i] = link[i]
<1>1. link' \in [Conns -> {"up", "bye", "ended", "cut"}]
  BY DEF Drop, TypeOK
<1>2. down' \in [Conns -> Seq(Frames)]
  <2>1. <<>> \in Seq(Frames) OBVIOUS
  <2> QED BY <2>1 DEF Drop, TypeOK
<1>3. /\ socket' \in [Clients -> Conns \cup {None}] /\ socket'[c] = None
      /\ \A d \in Clients \ {c} : socket'[d] = socket[d]
  BY DEF Drop, TypeOK
<1>4. \A i \in Conns : IF i = socket[c] THEN down'[i] = <<>> /\ link'[i] # "up"
                                        ELSE down'[i] = down[i] /\ link'[i] = link[i]
  BY DEF Drop
<1> QED BY <1>1, <1>2, <1>3, <1>4 DEF Drop

\* A terminal that is not at its websocket has none.
LEMMA Unconnected ==
    ASSUME IInv, NEW c \in Clients, phase[c] # "socket", UNCHANGED <<linkVars, socket>>
    PROVE  /\ UNCHANGED <<target, initCmd>> /\ socket'[c] = None
           /\ link' \in [Conns -> {"up", "bye", "ended", "cut"}]
           /\ down' \in [Conns -> Seq(Frames)]
           /\ socket' \in [Clients -> Conns \cup {None}]
           /\ \A d \in Clients \ {c} : socket'[d] = socket[d]
           /\ \A i \in Conns : i # socket[c] /\ down'[i] = down[i] /\ link'[i] = link[i]
<1>1. socket[c] = None BY DEF IInv, ClientInv, SocketIsOwn
<1> QED BY <1>1, NoneAssumption DEF IInv, TypeOK, linkVars

\* The terminal waits for something else, with the session sessionId' names.
LEMMA Moved ==
    ASSUME TypeOK, NEW c \in Clients,
           NEW p \in {"absent", "auth", "socket", "timer", "idle"},
           NEW id \in {None, sessionId[c]}, NEW r \in BOOLEAN,
           phase' = [phase EXCEPT ![c] = p],
           sessionId' = [sessionId EXCEPT ![c] = id],
           reconnecting' = [reconnecting EXCEPT ![c] = r]
    PROVE  /\ phase' \in [Clients -> {"absent", "auth", "socket", "timer", "idle"}]
           /\ sessionId' \in [Clients -> Sessions \cup {None}]
           /\ reconnecting' \in [Clients -> BOOLEAN]
           /\ sessionId'[c] \in {None, sessionId[c]}
           /\ \A d \in Clients \ {c} : phase'[d] = phase[d] /\ sessionId'[d] = sessionId[d]
<1>1. id \in Sessions \cup {None} BY DEF TypeOK
<1> QED BY <1>1 DEF TypeOK

\* A new entry has no websocket yet.
LEMMA StepOpenEntry ==
    ASSUME IInv, NEW c \in Clients, OpenEntry(c), UNCHANGED agentVars
    PROVE  IInv'
<1>0. TypeOK BY DEF IInv
<1>1. /\ phase[c] # "socket" /\ UNCHANGED <<linkVars, socket, sessionId, reconnecting>>
  BY DEF OpenEntry
<1>2. PICK p \in {"auth", "idle"} : phase' = [phase EXCEPT ![c] = p] BY DEF OpenEntry, AcceptParams
<1>3. /\ sessionId' = [sessionId EXCEPT ![c] = sessionId[c]]
      /\ reconnecting' = [reconnecting EXCEPT ![c] = reconnecting[c]]
      /\ reconnecting[c] \in BOOLEAN
  BY <1>0, <1>1 DEF TypeOK
<1>4. LetsGo(c) BY <1>0, <1>1, <1>2, <1>3, Moved, Unconnected DEF LetsGo
<1> QED BY <1>4, LettingGo

\* A terminal whose login is denied forgets its session.
LEMMA StepAuthDenied ==
    ASSUME IInv, NEW c \in Clients, AuthDenied(c), UNCHANGED agentVars
    PROVE  IInv'
<1>0. TypeOK BY DEF IInv
<1>1. /\ phase[c] # "socket" /\ UNCHANGED <<linkVars, socket>>
      /\ phase' = [phase EXCEPT ![c] = "idle"]
      /\ sessionId' = [sessionId EXCEPT ![c] = None]
      /\ reconnecting' = [reconnecting EXCEPT ![c] = FALSE]
  BY DEF AuthDenied
<1>2. LetsGo(c) BY <1>0, <1>1, Moved, Unconnected DEF LetsGo
<1> QED BY <1>2, LettingGo

\* The reconnect timer runs only without a websocket.
LEMMA StepTimerFires ==
    ASSUME IInv, NEW c \in Clients, TimerFires(c), UNCHANGED agentVars
    PROVE  IInv'
<1>0. TypeOK BY DEF IInv
<1>1. /\ phase[c] # "socket" /\ UNCHANGED <<linkVars, socket, sessionId, reconnecting>>
      /\ phase' = [phase EXCEPT ![c] = "auth"]
  BY DEF TimerFires
<1>2. /\ sessionId' = [sessionId EXCEPT ![c] = sessionId[c]]
      /\ reconnecting' = [reconnecting EXCEPT ![c] = reconnecting[c]]
      /\ reconnecting[c] \in BOOLEAN
  BY <1>0, <1>1 DEF TypeOK
<1>3. LetsGo(c) BY <1>0, <1>1, <1>2, Moved, Unconnected DEF LetsGo
<1> QED BY <1>3, LettingGo

\* An entry that is removed, or whose tab is closed, drops its websocket.
LEMMA StepLeave ==
    ASSUME IInv, NEW c \in Clients, NEW how \in {"bye", "cut"}, Leave(c, how), UNCHANGED agentVars
    PROVE  IInv'
<1>0. TypeOK BY DEF IInv
<1>1. /\ Drop(c, how) /\ how \in {"bye", "ended", "cut"}
      /\ phase' = [phase EXCEPT ![c] = "absent"]
      /\ sessionId' = [sessionId EXCEPT ![c] = None]
      /\ reconnecting' = [reconnecting EXCEPT ![c] = FALSE]
  BY DEF Leave
<1>2. /\ phase' \in [Clients -> {"absent", "auth", "socket", "timer", "idle"}]
      /\ sessionId' \in [Clients -> Sessions \cup {None}]
      /\ reconnecting' \in [Clients -> BOOLEAN]
      /\ sessionId'[c] \in {None, sessionId[c]}
      /\ \A d \in Clients \ {c} : phase'[d] = phase[d] /\ sessionId'[d] = sessionId[d]
  <2>1. PICK p \in {"absent", "auth", "socket", "timer", "idle"} : p = "absent" OBVIOUS
  <2> QED BY <1>0, <1>1, <2>1, Moved
<1>3. LetsGo(c) BY <1>0, <1>1, <1>2, Dropped DEF LetsGo
<1> QED BY <1>3, LettingGo

\* A remount drops the websocket and keeps the session.
LEMMA StepReconnect ==
    ASSUME IInv, NEW c \in Clients, Reconnect(c), UNCHANGED agentVars
    PROVE  IInv'
<1>0. TypeOK BY DEF IInv
<1>1. /\ Drop(c, "bye")
      /\ sessionId' = [sessionId EXCEPT ![c] = sessionId[c]]
      /\ reconnecting' = [reconnecting EXCEPT ![c] = FALSE]
  BY <1>0 DEF Reconnect, TypeOK
<1>2. PICK p \in {"auth", "idle"} : phase' = [phase EXCEPT ![c] = p] BY DEF Reconnect, AcceptParams
<1>3. LetsGo(c) BY <1>0, <1>1, <1>2, Moved, Dropped DEF LetsGo
<1> QED BY <1>3, LettingGo

\* closeRealTerminal, whatever the reason.
LEMMA ClosesTerminal ==
    ASSUME IInv, NEW c \in Clients, NEW code, CloseRealTerminal(c, code), UNCHANGED agentVars
    PROVE  IInv'
<1>0. TypeOK BY DEF IInv
<1>1. Drop(c, "ended") BY DEF CloseRealTerminal
<1>2. \E p \in {"idle", "timer"}, id \in {None, sessionId[c]}, r \in BOOLEAN :
         /\ phase' = [phase EXCEPT ![c] = p]
         /\ sessionId' = [sessionId EXCEPT ![c] = id]
         /\ reconnecting' = [reconnecting EXCEPT ![c] = r]
  <2>1. CASE Rest(c, None) BY <2>1 DEF Rest
  <2>2. CASE Rest(c, sessionId[c]) BY <2>2 DEF Rest
  <2>3. CASE ScheduleReconnect(c)
    <3>1. PICK giveUp \in {FALSE, reconnecting[c]} :
             /\ reconnecting' = [reconnecting EXCEPT ![c] = ~ giveUp]
             /\ sessionId' = [sessionId EXCEPT ![c] = IF giveUp THEN None ELSE sessionId[c]]
             /\ phase' = [phase EXCEPT ![c] = IF giveUp THEN "idle" ELSE "timer"]
      BY <2>3 DEF ScheduleReconnect
    <3>2. giveUp \in BOOLEAN BY <1>0 DEF TypeOK
    <3>3. CASE giveUp = TRUE BY <3>1, <3>3
    <3>4. CASE giveUp = FALSE BY <3>1, <3>4
    <3> QED BY <3>2, <3>3, <3>4
  <2> QED BY <2>1, <2>2, <2>3 DEF CloseRealTerminal
<1>3. PICK p \in {"idle", "timer"}, id \in {None, sessionId[c]}, r \in BOOLEAN :
         /\ phase' = [phase EXCEPT ![c] = p]
         /\ sessionId' = [sessionId EXCEPT ![c] = id]
         /\ reconnecting' = [reconnecting EXCEPT ![c] = r]
  BY <1>2
<1>4. LetsGo(c) BY <1>0, <1>1, <1>3, Moved, Dropped DEF LetsGo
<1> QED BY <1>4, LettingGo

\* A terminal learns the session its handler serves.
LEMMA StepOnSession ==
    ASSUME IInv, NEW c \in Clients, OnSession(c), UNCHANGED agentVars
    PROVE  IInv'
<1>0. /\ TypeOK /\ None \notin Sessions /\ None \notin Conns
      /\ \A d \in Clients : SocketIsOwn(d) /\ SameSession(d) /\ GoneIsTrue(d)
      /\ \A i \in Conns : OrphanIsSilent(i) /\ CloseIsLast(i)
      /\ \A s \in Sessions : FreeIsUnknown(s)
  BY NoneAssumption DEF IInv, ClientInv
<1>1. UNCHANGED <<shell, attached, grace, closers, initRuns, at, done, kick, revalidate,
                  target, initCmd, phase, socket, link>>
  BY DEF OnSession, agentVars, sessionVars, attachmentVars
<1>2. PICK i \in Conns : i = socket[c] BY <1>0 DEF OnSession, Arrived, TypeOK
<1>3. PICK q \in Seq(Frames) : q = down[i] BY <1>0 DEF TypeOK
<1>4. /\ Head(q) \in Frames /\ Head(q) \in FramesIn(q) /\ Tail(q) \in Seq(Frames)
      /\ FramesIn(Tail(q)) \subseteq FramesIn(q)
  <2>1. q # <<>> BY <1>2, <1>3 DEF OnSession, Arrived
  <2>2. /\ Head(q) \in Frames /\ Tail(q) \in Seq(Frames)
        /\ 1 \in DOMAIN q /\ Head(q) = q[1]
        /\ \A k \in DOMAIN Tail(q) : k + 1 \in DOMAIN q /\ Tail(q)[k] = q[k + 1]
    BY <2>1
  <2> QED BY <2>2 DEF FramesIn
<1>5. PICK s \in Sessions : Head(q) = Hello(s)
  <2>1. Head(q).type = "session" BY <1>2, <1>3 DEF OnSession, Arrived
  <2>2. \A code : Close(code).type = "close" BY DEF Close
  <2>3. \A code : Head(q) # Close(code) BY <2>1, <2>2
  <2> QED BY <1>4, <2>3 DEF Frames
<1>6. Hello(s) \in FramesIn(down[i]) BY <1>3, <1>4, <1>5
<1>7. /\ sessionId' \in [Clients -> Sessions \cup {None}] /\ sessionId'[c] = s
      /\ \A d \in Clients \ {c} : sessionId'[d] = sessionId[d]
  <2>1. Hello(s).id = s BY DEF Hello
  <2>2. sessionId' = [sessionId EXCEPT ![c] = s]
    BY <1>2, <1>3, <1>5, <2>1 DEF OnSession, Frame
  <2> QED BY <1>0, <2>2 DEF TypeOK
<1>8. reconnecting' \in [Clients -> BOOLEAN] BY <1>0 DEF TypeOK, OnSession
<1>9. /\ down' \in [Conns -> Seq(Frames)]
      /\ down'[i] = Tail(q) /\ \A j \in Conns \ {i} : down'[j] = down[j]
  <2>1. PICK t \in Seq(Frames) : t = Tail(q) BY <1>4
  <2>2. down' = [down EXCEPT ![i] = t] BY <1>2, <1>3, <2>1 DEF OnSession
  <2> QED BY <1>0, <2>1, <2>2 DEF TypeOK
<1>10. \A j \in Conns : FramesIn(down[j])' \subseteq FramesIn(down[j])
  <2> TAKE j \in Conns
  <2>1. CASE j = i
    <3>1. FramesIn(down[j])' = FramesIn(Tail(q)) BY <1>9, <2>1 DEF FramesIn
    <3> QED BY <1>3, <1>4, <2>1, <3>1
  <2>2. CASE j # i
    <3>1. FramesIn(down[j])' = FramesIn(down[j]) BY <1>9, <2>2 DEF FramesIn
    <3> QED BY <3>1
  <2> QED BY <2>1, <2>2
<1>11. AgentInv' BY <1>1, AgentRests DEF IInv
<1>12. TypeOK' BY <1>0, <1>1, <1>7, <1>8, <1>9 DEF TypeOK
<1>13. ASSUME NEW d \in Clients PROVE SocketIsOwn(d)' BY <1>0, <1>1 DEF SocketIsOwn
<1>14. ASSUME NEW d \in Clients PROVE SameSession(d)'
  <2>1. CASE d = c BY <1>0, <1>1, <1>2, <1>6, <1>7, <1>10, <2>1 DEF SameSession
  <2>2. CASE d # c BY <1>0, <1>1, <1>7, <1>10, <2>2 DEF SameSession
  <2> QED BY <2>1, <2>2
<1>15. ASSUME NEW d \in Clients PROVE GoneIsTrue(d)'
  <2> SUFFICES ASSUME NEW j \in Conns, socket[d] = j,
                      NEW code \in Gone, Close(code) \in FramesIn(down[j])',
                      NEW r \in Sessions, sessionId'[d] = r \/ Hello(r) \in FramesIn(down[j])'
               PROVE  shell[r] # "live"
    BY <1>1 DEF GoneIsTrue
  <2>1. Close(code) \in FramesIn(down[j]) BY <1>10
  <2>2. sessionId[d] = r \/ Hello(r) \in FramesIn(down[j])
    BY <1>2, <1>6, <1>7, <1>10
  <2> QED BY <1>0, <2>1, <2>2 DEF GoneIsTrue
<1>16. ASSUME NEW j \in Conns PROVE OrphanIsSilent(j)'
  BY <1>0, <1>1, <1>2, <1>9 DEF OrphanIsSilent
<1>17. ASSUME NEW j \in Conns PROVE CloseIsLast(j)'
  BY <1>0, <1>1, <1>10 DEF CloseIsLast, Serving
<1>18. ASSUME NEW r \in Sessions PROVE FreeIsUnknown(r)'
  BY <1>0, <1>1, <1>6, <1>7, <1>10 DEF FreeIsUnknown
<1> QED BY <1>11, <1>12, <1>13, <1>14, <1>15, <1>16, <1>17, <1>18 DEF IInv, ClientInv

-----------------------------------------------------------------------------
(* What they do together. *)

\* A new websocket asks for the session of its entry, and carries an init
\* command only when there is none.
LEMMA StepConnect ==
    ASSUME IInv, NEW c \in Clients, NEW i \in Conns, Connect(c, i)
    PROVE  IInv'
<1>0. /\ TypeOK /\ None \notin Sessions /\ None \notin Conns
      /\ \A j \in Conns : ConnOK(j)
      /\ \A s \in Sessions : SessionOK(s)
      /\ \A d \in Clients : SocketIsOwn(d) /\ SameSession(d) /\ GoneIsTrue(d)
      /\ \A j \in Conns : OrphanIsSilent(j) /\ CloseIsLast(j)
      /\ \A s \in Sessions : FreeIsUnknown(s)
  BY NoneAssumption DEF IInv, AgentInv, ClientInv
<1>1. /\ UNCHANGED <<shell, attached, grace, closers, initRuns, done, kick, revalidate,
                     down, sessionId, reconnecting>>
      /\ at[i] = "gone" /\ (\A d \in Clients : socket[d] # i) /\ (\A j \in Conns : kick[j] # i)
      /\ phase[c] = "auth"
  BY DEF Connect, Idle, Dial, sessionVars
<1>2. at' \in [Conns -> Places] /\ at'[i] = "accepted" /\ \A j \in Conns \ {i} : at'[j] = at[j]
  BY <1>0 DEF TypeOK, Connect, Places
<1>3. PICK s \in Sessions \cup {None} : s = sessionId[c] BY <1>0 DEF TypeOK
<1>4. /\ target' \in [Conns -> Sessions \cup {None}] /\ target'[i] = s
      /\ \A j \in Conns \ {i} : target'[j] = target[j]
  BY <1>0, <1>3 DEF TypeOK, Connect, Dial
<1>5. /\ initCmd' \in [Conns -> BOOLEAN] /\ (initCmd'[i] => s = None)
      /\ \A j \in Conns \ {i} : initCmd'[j] = initCmd[j]
  BY <1>0, <1>3 DEF TypeOK, Connect, Dial, RunsInitCmd
<1>6. /\ link' \in [Conns -> {"up", "bye", "ended", "cut"}]
      /\ \A j \in Conns \ {i} : link'[j] = link[j]
  BY <1>0 DEF TypeOK, Connect, Dial
<1>7. /\ phase' \in [Clients -> {"absent", "auth", "socket", "timer", "idle"}]
      /\ phase'[c] = "socket" /\ \A d \in Clients \ {c} : phase'[d] = phase[d]
  BY <1>0 DEF TypeOK, Connect, Dial
<1>8. /\ socket' \in [Clients -> Conns \cup {None}] /\ socket'[c] = i
      /\ \A d \in Clients \ {c} : socket'[d] = socket[d]
  BY <1>0 DEF TypeOK, Connect, Dial
<1>9. down[i] = <<>> /\ FramesIn(down[i]) = {} BY <1>0, <1>1 DEF OrphanIsSilent, FramesIn
<1>10. TypeOK' BY <1>0, <1>1, <1>2, <1>4, <1>5, <1>6, <1>7, <1>8 DEF TypeOK
<1>11. ASSUME NEW j \in Conns PROVE ConnOK(j)'
  <2>1. Cleared(j)' /\ Targeted(j)'
    BY <1>0, <1>2, <1>4, <1>5 DEF ConnOK, Cleared, Targeted, Serving
  <2>2. OpenIsAttached(j)'
    BY <1>0, <1>1, <1>2, <1>4 DEF ConnOK, OpenIsAttached, Greeting
  <2>3. KickedWasServed(j)' /\ MarkedIsServed(j)'
    BY <1>0, <1>1, <1>2 DEF ConnOK, KickedWasServed, MarkedIsServed, Serving
  <2>4. CommandIsFirst(j)'
    BY <1>0, <1>1, <1>4, <1>5 DEF ConnOK, CommandIsFirst
  <2> QED BY <2>1, <2>2, <2>3, <2>4 DEF ConnOK
<1>12. ASSUME NEW r \in Sessions PROVE SessionOK(r)'
  <2>0. attached[r] \in Conns \cup {None} BY <1>0 DEF TypeOK
  <2>1. AttachedIsServed(r)'
    BY <1>0, <1>1, <1>2, <1>4, <2>0 DEF SessionOK, AttachedIsServed, Serving
  <2>2. OverIsDetached(r)' BY <1>0, <1>1 DEF SessionOK, OverIsDetached
  <2>3. Kept(r)' BY <1>0, <1>1, <1>2, <1>4 DEF SessionOK, Kept, Opening
  <2> QED BY <1>0, <1>1, <2>1, <2>2, <2>3 DEF SessionOK
<1>13. ASSUME NEW d \in Clients PROVE SocketIsOwn(d)'
  BY <1>0, <1>1, <1>7, <1>8 DEF SocketIsOwn
<1>14. ASSUME NEW d \in Clients PROVE SameSession(d)'
  <2>1. CASE d = c BY <1>0, <1>1, <1>3, <1>4, <1>8, <1>9, <2>1 DEF SameSession
  <2>2. CASE d # c BY <1>0, <1>1, <1>2, <1>4, <1>8, <2>2 DEF SameSession
  <2> QED BY <2>1, <2>2
<1>15. ASSUME NEW d \in Clients PROVE GoneIsTrue(d)'
  <2>1. CASE d = c BY <1>1, <1>8, <1>9, <2>1 DEF GoneIsTrue
  <2>2. CASE d # c BY <1>0, <1>1, <1>8, <2>2 DEF GoneIsTrue
  <2> QED BY <2>1, <2>2
<1>16. ASSUME NEW j \in Conns PROVE OrphanIsSilent(j)'
  <2>1. socket[c] = None BY <1>0, <1>1 DEF SocketIsOwn
  <2> QED BY <1>0, <1>1, <1>6, <1>8, <2>1 DEF OrphanIsSilent
<1>17. ASSUME NEW j \in Conns PROVE CloseIsLast(j)'
  BY <1>0, <1>1, <1>2, <1>9 DEF CloseIsLast, Serving
<1>18. ASSUME NEW r \in Sessions PROVE FreeIsUnknown(r)'
  BY <1>0, <1>1, <1>3, <1>4 DEF FreeIsUnknown
<1>19. AgentInv' BY <1>11, <1>12 DEF AgentInv
<1> QED BY <1>10, <1>13, <1>14, <1>15, <1>16, <1>17, <1>18, <1>19 DEF IInv, ClientInv

\* A restored entry names a session that lives.
LEMMA StepRestoreEntry ==
    ASSUME IInv, NEW c \in Clients, NEW s \in Sessions, RestoreEntry(c, s)
    PROVE  IInv'
<1>0. /\ TypeOK /\ None \notin Conns
      /\ \A d \in Clients : SocketIsOwn(d) /\ SameSession(d) /\ GoneIsTrue(d)
      /\ \A j \in Conns : OrphanIsSilent(j) /\ CloseIsLast(j)
      /\ \A r \in Sessions : FreeIsUnknown(r)
  BY NoneAssumption DEF IInv, ClientInv
<1>1. /\ UNCHANGED <<agentVars, socket, reconnecting, link, target, down, initCmd>>
      /\ shell[s] = "live" /\ phase[c] = "absent"
  BY DEF RestoreEntry, Restore, linkVars
<1>2. UNCHANGED <<shell, attached, grace, closers, initRuns, at, done, kick, revalidate>>
  BY <1>1 DEF agentVars, sessionVars, attachmentVars
<1>3. socket[c] = None BY <1>0, <1>1 DEF SocketIsOwn
<1>4. /\ phase' \in [Clients -> {"absent", "auth", "socket", "timer", "idle"}]
      /\ \A d \in Clients \ {c} : phase'[d] = phase[d]
  BY <1>0 DEF TypeOK, RestoreEntry, Restore
<1>5. /\ sessionId' \in [Clients -> Sessions \cup {None}] /\ sessionId'[c] = s
      /\ \A d \in Clients \ {c} : sessionId'[d] = sessionId[d]
  BY <1>0 DEF TypeOK, RestoreEntry, Restore
<1>6. AgentInv' BY <1>1, AgentRests DEF IInv
<1>7. TypeOK' BY <1>0, <1>1, <1>2, <1>4, <1>5 DEF TypeOK
<1>8. ASSUME NEW d \in Clients PROVE SocketIsOwn(d)'
  BY <1>0, <1>1, <1>3, <1>4 DEF SocketIsOwn
<1>9. ASSUME NEW d \in Clients PROVE SameSession(d)' /\ GoneIsTrue(d)'
  <2>1. CASE d = c BY <1>0, <1>1, <1>3, <2>1 DEF SameSession, GoneIsTrue
  <2>2. CASE d # c BY <1>0, <1>1, <1>2, <1>5, <2>2 DEF SameSession, GoneIsTrue
  <2> QED BY <2>1, <2>2
<1>10. ASSUME NEW j \in Conns PROVE OrphanIsSilent(j)' /\ CloseIsLast(j)'
  BY <1>0, <1>1, <1>2 DEF OrphanIsSilent, CloseIsLast, Serving
<1>11. ASSUME NEW r \in Sessions PROVE FreeIsUnknown(r)'
  BY <1>0, <1>1, <1>2, <1>5 DEF FreeIsUnknown
<1> QED BY <1>6, <1>7, <1>8, <1>9, <1>10, <1>11 DEF IInv, ClientInv

\* A websocket that is cut carries nothing new.
LEMMA StepCut ==
    ASSUME IInv, NEW i \in Conns, Cut(i)
    PROVE  IInv'
<1>0. TypeOK /\ ClientInv BY DEF IInv
<1>1. UNCHANGED <<agentVars, target, down, initCmd, phase, socket, sessionId, reconnecting>>
  BY DEF Cut, clientVars
<1>2. UNCHANGED <<shell, attached, grace, closers, initRuns, at, done, kick, revalidate>>
  BY <1>1 DEF agentVars, sessionVars, attachmentVars
<1>3. /\ link' \in [Conns -> {"up", "bye", "ended", "cut"}]
      /\ \A j \in Conns : link'[j] = "up" => link[j] = "up"
  BY <1>0 DEF TypeOK, Cut
<1>4. AgentInv' BY <1>1, AgentRests DEF IInv
<1>5. TypeOK' BY <1>0, <1>1, <1>2, <1>3 DEF TypeOK
<1>6. ASSUME NEW c \in Clients PROVE SocketIsOwn(c)' /\ SameSession(c)' /\ GoneIsTrue(c)'
  BY <1>0, <1>1, <1>2 DEF ClientInv, SocketIsOwn, SameSession, GoneIsTrue
<1>7. ASSUME NEW j \in Conns PROVE OrphanIsSilent(j)' /\ CloseIsLast(j)'
  BY <1>0, <1>1, <1>2, <1>3 DEF ClientInv, OrphanIsSilent, CloseIsLast, Serving
<1>8. ASSUME NEW s \in Sessions PROVE FreeIsUnknown(s)'
  BY <1>0, <1>1, <1>2 DEF ClientInv, FreeIsUnknown
<1> QED BY <1>4, <1>5, <1>6, <1>7, <1>8 DEF IInv, ClientInv

\* Only an id nobody knows is used again.
LEMMA StepForget ==
    ASSUME IInv, NEW s \in Sessions, Forget(s)
    PROVE  IInv'
<1>0. TypeOK /\ ClientInv /\ AgentInv BY DEF IInv
<1>1. UNCHANGED <<attached, grace, closers, initRuns, at, done, kick, revalidate, link, target,
                  down, initCmd, phase, socket, sessionId, reconnecting>>
  BY DEF Forget, attachmentVars, linkVars, clientVars
<1>2. /\ shell' \in [Sessions -> {"free", "live", "closing", "closed"}]
      /\ shell[s] = "closed" /\ shell'[s] = "free"
      /\ \A r \in Sessions \ {s} : shell'[r] = shell[r]
  BY <1>0 DEF TypeOK, Forget
<1>3. /\ \A c \in Clients : sessionId[c] # s
      /\ \A i \in Conns : target[i] # s /\ Hello(s) \notin FramesIn(down[i])
  BY DEF Forget, FramesIn
<1>4. TypeOK' BY <1>0, <1>1, <1>2 DEF TypeOK
<1>5. ASSUME NEW i \in Conns PROVE ConnOK(i)'
  <2>1. Cleared(i)' /\ Targeted(i)' /\ OpenIsAttached(i)'
    BY <1>0, <1>1 DEF AgentInv, ConnOK, Cleared, Targeted, OpenIsAttached, Serving, Greeting
  <2>2. KickedWasServed(i)' /\ CommandIsFirst(i)' /\ MarkedIsServed(i)'
    BY <1>0, <1>1 DEF AgentInv, ConnOK, KickedWasServed, CommandIsFirst, MarkedIsServed, Serving
  <2> QED BY <2>1, <2>2 DEF ConnOK
<1>6. ASSUME NEW r \in Sessions PROVE SessionOK(r)'
  <2>1. SessionOK(r) BY <1>0 DEF AgentInv
  <2>2. AttachedIsServed(r)' /\ OverIsDetached(r)'
    BY <1>1, <1>2, <2>1 DEF SessionOK, AttachedIsServed, OverIsDetached, Serving
  <2>3. Kept(r)' BY <1>1, <1>2, <2>1 DEF SessionOK, Kept, Opening
  <2> QED BY <1>1, <2>1, <2>2, <2>3 DEF SessionOK
<1>7. ASSUME NEW c \in Clients PROVE SocketIsOwn(c)' /\ SameSession(c)'
  BY <1>0, <1>1 DEF ClientInv, SocketIsOwn, SameSession
<1>8. ASSUME NEW c \in Clients PROVE GoneIsTrue(c)'
  BY <1>0, <1>1, <1>2 DEF ClientInv, GoneIsTrue
<1>9. ASSUME NEW j \in Conns PROVE OrphanIsSilent(j)' /\ CloseIsLast(j)'
  BY <1>0, <1>1 DEF ClientInv, OrphanIsSilent, CloseIsLast, Serving
<1>10. ASSUME NEW r \in Sessions PROVE FreeIsUnknown(r)'
  BY <1>0, <1>1, <1>2, <1>3 DEF ClientInv, FreeIsUnknown
<1>11. AgentInv' BY <1>5, <1>6 DEF AgentInv
<1> QED BY <1>4, <1>7, <1>8, <1>9, <1>10, <1>11 DEF IInv, ClientInv

-----------------------------------------------------------------------------
(* The theorems. *)

\* The invariant holds before anybody connects.
LEMMA InitIInv == Init => IInv
<1> SUFFICES ASSUME Init PROVE IInv OBVIOUS
<1> USE DEF Init, LinkInit, AgentInit, ClientInit
<1>1. TypeOK
  <2>1. <<>> \in Seq(Frames) OBVIOUS
  <2> QED BY <2>1 DEF TypeOK, Places
<1>2. ASSUME NEW i \in Conns PROVE ConnOK(i)
  <2>1. Cleared(i) /\ Targeted(i) /\ OpenIsAttached(i)
    BY DEF Cleared, Targeted, OpenIsAttached, Serving
  <2>2. KickedWasServed(i) /\ MarkedIsServed(i) /\ CommandIsFirst(i)
    BY NoneAssumption DEF KickedWasServed, MarkedIsServed, CommandIsFirst
  <2> QED BY <2>1, <2>2 DEF ConnOK
<1>3. ASSUME NEW s \in Sessions PROVE SessionOK(s)
  BY DEF SessionOK, AttachedIsServed, OverIsDetached, Kept
<1>4. \A i \in Conns : FramesIn(down[i]) = {} BY DEF FramesIn
<1>5. ASSUME NEW c \in Clients PROVE SocketIsOwn(c) /\ SameSession(c) /\ GoneIsTrue(c)
  BY NoneAssumption DEF SocketIsOwn, SameSession, GoneIsTrue
<1>6. ASSUME NEW i \in Conns PROVE OrphanIsSilent(i) /\ CloseIsLast(i)
  BY <1>4 DEF OrphanIsSilent, CloseIsLast
<1>7. ASSUME NEW s \in Sessions PROVE FreeIsUnknown(s)
  BY <1>4, NoneAssumption DEF FreeIsUnknown
<1> QED BY <1>1, <1>2, <1>3, <1>5, <1>6, <1>7 DEF IInv, AgentInv, ClientInv

\* The invariant does not look at anything but the variables.
LEMMA StutterIInv ==
    ASSUME IInv, UNCHANGED vars
    PROVE  IInv'
<1>1. UNCHANGED <<clientVars, agentVars, linkVars>> BY DEF vars
<1>2. UNCHANGED <<shell, attached, grace, closers, initRuns, at, done, kick, revalidate,
                  phase, socket, sessionId, reconnecting, link, target, down, initCmd>>
  BY <1>1 DEF clientVars, agentVars, linkVars, sessionVars, attachmentVars
<1>3. AgentInv' BY <1>1, <1>2, AgentRests DEF IInv
<1>4. TypeOK' BY <1>2 DEF IInv, TypeOK
<1>5. ASSUME NEW c \in Clients PROVE SocketIsOwn(c)' /\ SameSession(c)' /\ GoneIsTrue(c)'
  BY <1>2 DEF IInv, ClientInv, SocketIsOwn, SameSession, GoneIsTrue
<1>6. ASSUME NEW j \in Conns PROVE OrphanIsSilent(j)' /\ CloseIsLast(j)'
  BY <1>2 DEF IInv, ClientInv, OrphanIsSilent, CloseIsLast, Serving
<1>7. ASSUME NEW s \in Sessions PROVE FreeIsUnknown(s)'
  BY <1>2 DEF IInv, ClientInv, FreeIsUnknown
<1> QED BY <1>3, <1>4, <1>5, <1>6, <1>7 DEF IInv, ClientInv

\* No step of the agent breaks the invariant.
LEMMA AgentIInv ==
    ASSUME IInv, Agent, UNCHANGED clientVars
    PROVE  IInv'
<1>1. ASSUME NEW i \in Conns, Serves(i) PROVE IInv'
  <2>1. CASE \E s \in Sessions : Open(i, s) BY <2>1, StepOpen
  <2>2. CASE Unreached(i) BY <2>2, StepUnreached
  <2>3. CASE Attach(i) BY <2>3, StepAttach
  <2>4. CASE AttachFails(i) BY <2>4, StepAttachFails
  <2>5. CASE Greet(i) BY <2>5, StepGreet
  <2>6. CASE GreetFails(i) BY <2>6, StepGreetFails
  <2>7. CASE ReadCommand(i) BY <2>7, StepReadCommand
  <2>8. CASE RevalidateClose(i) BY <2>8, StepRevalidateClose
  <2>9. CASE \E how \in {"clean", "dirty"} : RunEnds(i, how) BY <2>9, StepRunEnds
  <2>10. CASE RunDetaches(i) BY <2>10, StepRunDetaches
  <2> QED
    BY <1>1, <2>1, <2>2, <2>3, <2>4, <2>5, <2>6, <2>7, <2>8, <2>9, <2>10 DEF Serves
<1>2. ASSUME NEW i \in Conns, OpenFails(i) PROVE IInv' BY <1>2, StepOpenFails
<1>3. ASSUME NEW i \in Conns, RevalidateMark(i) PROVE IInv' BY <1>3, StepRevalidateMark
<1>4. ASSUME NEW i \in Conns, WriteFails(i) PROVE IInv' BY <1>4, StepWriteFails
<1>5. ASSUME NEW s \in Sessions, Ends(s) PROVE IInv'
  BY <1>5, StepGraceFires, StepCloseBegins, StepCloseEnds DEF Ends
<1>6. ASSUME NEW s \in Sessions, ShellEnds(s) PROVE IInv' BY <1>6, StepShellEnds
<1> QED BY <1>1, <1>2, <1>3, <1>4, <1>5, <1>6 DEF Agent

\* No step of a terminal breaks the invariant.
LEMMA ClientIInv ==
    ASSUME IInv, Client, UNCHANGED agentVars
    PROVE  IInv'
<1>1. PICK c \in Clients :
         \/ Acts(c) \/ AuthDenied(c)
         \/ OpenEntry(c) \/ Reconnect(c) \/ \E how \in {"bye", "cut"} : Leave(c, how)
  BY DEF Client
<1>2. CASE OnSession(c) BY <1>2, StepOnSession
<1>3. CASE OnClose(c) BY <1>3, ClosesTerminal DEF OnClose
<1>4. CASE OnLost(c) BY <1>4, ClosesTerminal DEF OnLost
<1>5. CASE TimerFires(c) BY <1>5, StepTimerFires
<1>6. CASE AuthDenied(c) BY <1>6, StepAuthDenied
<1>7. CASE OpenEntry(c) BY <1>7, StepOpenEntry
<1>8. CASE Reconnect(c) BY <1>8, StepReconnect
<1>9. CASE \E how \in {"bye", "cut"} : Leave(c, how) BY <1>9, StepLeave
<1> QED BY <1>1, <1>2, <1>3, <1>4, <1>5, <1>6, <1>7, <1>8, <1>9 DEF Acts

\* Every step of the terminals and of the agent preserves the invariant.
THEOREM Inductive == Spec => []IInv
<1>1. IInv /\ [Next]_vars => IInv'
  <2> SUFFICES ASSUME IInv, [Next]_vars PROVE IInv' OBVIOUS
  <2>1. CASE Agent /\ UNCHANGED clientVars BY <2>1, AgentIInv
  <2>2. CASE Client /\ UNCHANGED agentVars BY <2>2, ClientIInv
  <2>3. CASE \E c \in Clients, i \in Conns : Connect(c, i) BY <2>3, StepConnect
  <2>4. CASE \E c \in Clients, s \in Sessions : RestoreEntry(c, s) BY <2>4, StepRestoreEntry
  <2>5. CASE \E i \in Conns : Cut(i) BY <2>5, StepCut
  <2>6. CASE \E s \in Sessions : Forget(s) BY <2>6, StepForget
  <2>7. CASE UNCHANGED vars BY <2>7, StutterIInv
  <2> QED BY <2>1, <2>2, <2>3, <2>4, <2>5, <2>6, <2>7 DEF Next
<1> QED BY <1>1, InitIInv, PTL DEF Spec

\* No shell is left behind (session.go:225-345).
THEOREM ShellsAreKept == Spec => []NoShellLeaks
<1>1. IInv => NoShellLeaks
  <2> SUFFICES ASSUME IInv, NEW s \in Sessions, shell[s] = "live"
               PROVE  \/ closers[s] \/ Opening(s)
                      \/ attached[s] = None /\ grace[s] # "off"
                      \/ attached[s] # None /\ Serving(attached[s]) /\ target[attached[s]] = s
    BY DEF NoShellLeaks
  <2>1. Kept(s) /\ AttachedIsServed(s) BY DEF IInv, AgentInv, SessionOK
  <2> QED BY <2>1 DEF Kept, AttachedIsServed
<1> QED BY <1>1, Inductive, PTL

\* The session and its terminals agree on who is served.
THEOREM SessionsAndTerminalsAgree == Spec => []ServiceIsConsistent
<1>1. IInv => ServiceIsConsistent
  <2> SUFFICES ASSUME IInv PROVE ServiceIsConsistent OBVIOUS
  <2>1. /\ TypeOK /\ None \notin Conns
        /\ \A i \in Conns : ConnOK(i)
        /\ \A s \in Sessions : SessionOK(s)
    BY NoneAssumption DEF IInv, AgentInv
  <2>2. ASSUME NEW i \in Conns, at[i] = "running", ~ done[i],
               ~ \E j \in Conns : Greeting(j) /\ kick[j] = i
        PROVE  /\ target[i] \in Sessions /\ attached[target[i]] = i
               /\ grace[target[i]] = "off" /\ shell[target[i]] \notin {"closed", "free"}
    <3>1. attached[target[i]] = i BY <2>1, <2>2 DEF ConnOK, OpenIsAttached
    <3>2. target[i] \in Sessions BY <2>1, <2>2 DEF ConnOK, Targeted, Serving, TypeOK
    <3>3. AttachedIsServed(target[i]) /\ OverIsDetached(target[i]) BY <2>1, <3>2 DEF SessionOK
    <3> QED BY <2>1, <3>1, <3>2, <3>3 DEF AttachedIsServed, OverIsDetached
  <2>3. ServedIsAttached BY <2>2 DEF ServedIsAttached
  <2>4. ClosedServesNobody BY <2>2 DEF ClosedServesNobody
  <2> QED BY <2>1, <2>3, <2>4 DEF ServiceIsConsistent
<1> QED BY <1>1, Inductive, PTL

\* A shell runs its init command once (index.vue:367).
THEOREM CommandRunsOnce == Spec => []InitCmdOnce
<1>1. IInv => InitCmdOnce BY DEF IInv, AgentInv, SessionOK, InitCmdOnce
<1> QED BY <1>1, Inductive, PTL

\* A terminal is told that its session is gone only when it is.
THEOREM ClosesAreTrue == Spec => ExpiredIsTrue
<1>1. IInv => [\A c \in Clients :
                 /\ sessionId[c] # None
                 /\ OnClose(c)
                 /\ Frame(c).code \in Gone
                 => shell[sessionId[c]] # "live"]_vars
  <2> SUFFICES ASSUME IInv, NEW c \in Clients, sessionId[c] # None, OnClose(c),
                      Frame(c).code \in Gone
               PROVE  shell[sessionId[c]] # "live"
    OBVIOUS
  <2>1. TypeOK /\ GoneIsTrue(c) BY DEF IInv, ClientInv
  <2>2. PICK i \in Conns : i = socket[c] BY <2>1 DEF OnClose, Arrived, TypeOK
  <2>3. PICK q \in Seq(Frames) : q = down[i] BY <2>1 DEF TypeOK
  <2>4. q # <<>> /\ Head(q).type = "close" /\ Head(q).code \in Gone
    BY <2>2, <2>3 DEF OnClose, Arrived, Frame
  <2>5. 1 \in DOMAIN q /\ Head(q) = q[1] /\ Head(q) \in Frames BY <2>4
  <2>6. Head(q) \in FramesIn(down[i]) BY <2>3, <2>5 DEF FramesIn
  <2>7. PICK code \in Codes : Head(q) = Close(code)
    <3>1. \A s : Hello(s).type = "session" BY DEF Hello
    <3>2. \A s : Head(q) # Hello(s) BY <2>4, <3>1
    <3> QED BY <2>5, <3>2 DEF Frames
  <2>8. code \in Gone
    <3>1. Close(code).code = code BY DEF Close
    <3> QED BY <2>4, <2>7, <3>1
  <2>9. sessionId[c] \in Sessions BY <2>1 DEF TypeOK
  <2> QED BY <2>1, <2>2, <2>6, <2>7, <2>8, <2>9 DEF GoneIsTrue
<1> QED BY <1>1, Inductive, PTL DEF ExpiredIsTrue
=============================================================================
