----------------------------- MODULE ServerProofs -----------------------------
(***************************************************************************)
(* Proofs about the lifecycle of relays: its types, that a start leaves    *)
(* all of a relay or nothing, and that beside a relay which holds the port *)
(* an earlier one takes up nothing any more.                               *)
(***************************************************************************)
EXTENDS Server, TLAPS

Stages == {"none", "opened", "bound", "spawned", "failed", "running", "stopping", "dropped"}

ServerTypes ==
  /\ stage \in [Relays -> Stages]
  /\ listening \subseteq Relays
  /\ server \in [Relays -> {"none", "accepting", "draining", "ended"}]
  /\ cleanup \subseteq Relays
  /\ graceful \subseteq Relays /\ stopped \subseteq Relays /\ grace_over \subseteq stopped
  /\ conn \in [Conns -> [of : Relays \cup {None}, state : ConnStates]]
  /\ polled \subseteq Conns

\* The application deals with relay i, whose store may be open.
Busy(i) == stage[i] \notin {"none", "failed", "dropped"}

\* Start has bound the listener of relay i, and the application still has the relay.
HasBound(i) == stage[i] \in {"bound", "spawned", "running", "stopping"}

\* What the stage of a relay says of its tasks and its handle.
StageOK(i) ==
  /\ server[i] = "none" <=> stage[i] \in {"none", "opened", "bound", "failed"}
  /\ i \in cleanup <=> stage[i] \in {"running", "stopping", "dropped"}
  /\ stage[i] = "dropped" => i \in stopped

\* What a listener says: one relay has the port, the one the application has bound, and
\* its server task has not ended.
ListenerOK(i) ==
  /\ i \in listening =>
       /\ stage[i] = "bound" \/ server[i] \in {"accepting", "draining"}
       /\ listening = {i}
  /\ HasBound(i) => listening \subseteq {i}

\* A connection waits in the backlog of a listener or was accepted by a server task; a
\* worker polls only one that is open.
ConnOK(c) ==
  /\ conn[c].of = None <=> conn[c].state \in {"closed", "cut", "lost"}
  /\ conn[c].state = "queued" => conn[c].of \in listening
  /\ conn[c].state \in {"idle", "handling"} => server[conn[c].of] # "none"
  /\ c \in polled => conn[c].state \in {"idle", "handling"}

ServerInv ==
  /\ ServerTypes
  /\ \A i, j \in Relays : i # j => ~(Busy(i) /\ Busy(j))
  /\ \A i \in Relays : StageOK(i) /\ ListenerOK(i)
  /\ \A c \in Conns : ConnOK(c)

(***************************************************************************)
(* The invariant is inductive: one lemma per group of actions.             *)
(***************************************************************************)

\* How connections leave: those in C belong to no relay afterwards.
LEMMA Finished ==
  ASSUME ServerTypes, NEW C, NEW how \in {"closed", "cut", "lost"}, Finish(C, how)
  PROVE  /\ conn' \in [Conns -> [of : Relays \cup {None}, state : ConnStates]]
         /\ polled' = polled \ C
         /\ \A c \in Conns \ C : conn'[c] = conn[c]
         /\ \A c \in Conns \cap C :
              conn'[c].of = None /\ conn'[c].state = how
BY DEF Finish, ServerTypes, ConnStates

\* The steps of start, shutdown and Drop keep the invariant.
LEMMA AppStepInv ==
  ASSUME ServerInv, NEW i \in Relays, AppStep(i)
  PROVE  ServerInv'
<1> USE ServerAssumption DEF ServerInv, ServerTypes, Stages, Busy, HasBound, StageOK, ListenerOK,
      ConnOK, Advance, task_vars, conn_vars, handle_vars
<1>1. CASE open_store(i)
  BY <1>1 DEF open_store
<1>2. CASE bind(i)
  BY <1>2 DEF bind
<1>3. CASE spawn_server(i)
  BY <1>3 DEF spawn_server, Finish, Queued, ConnStates
<1>4. CASE spawn_cleanup(i)
  BY <1>4 DEF spawn_cleanup
<1>5. CASE shutdown(i)
  BY <1>5 DEF shutdown
<1>6. CASE drop(i)
  BY <1>6 DEF drop
<1> QED
  BY <1>1, <1>2, <1>3, <1>4, <1>5, <1>6 DEF AppStep

\* The steps of the server task keep the invariant.
LEMMA TaskStepInv ==
  ASSUME ServerInv, NEW i \in Relays, TaskStep(i)
  PROVE  ServerInv'
<1> USE ServerAssumption DEF ServerInv, ServerTypes, Stages, Busy, HasBound, StageOK, ListenerOK,
      ConnOK, conn_vars, handle_vars, Queued
<1>1. ASSUME NEW c \in Conns, accept(i, c)
      PROVE  ServerInv'
  BY <1>1 DEF accept, ConnStates
<1>2. CASE stop_accepting(i)
  BY <1>2 DEF stop_accepting
<1>3. CASE grace_timer(i)
  BY <1>3, Finished DEF grace_timer
<1>4. CASE end_server(i)
  BY <1>4, Finished DEF end_server
<1> QED
  BY <1>1, <1>2, <1>3, <1>4 DEF TaskStep

\* The steps of clients and of connection tasks keep the invariant.
LEMMA ConnStepInv ==
  ASSUME ServerInv, NEW c \in Conns, ConnStep(c)
  PROVE  ServerInv'
<1> USE ServerAssumption DEF ServerInv, ServerTypes, Stages, Busy, HasBound, StageOK, ListenerOK,
      ConnOK, handle_vars
<1>1. CASE connect(c)
  BY <1>1 DEF connect, ConnStates
<1>2. CASE poll(c) \/ pending(c)
  BY <1>2 DEF poll, pending
<1>3. CASE request(c)
  BY <1>3 DEF request, ConnStates
<1>4. ASSUME NEW how \in {"closed", "cut"}, Finish({c}, how),
             UNCHANGED <<stage, listening, server, cleanup, handle_vars>>
      PROVE  ServerInv'
  BY <1>4, Finished
<1>5. CASE answer(c)
  <2>1. CASE conn' = [conn EXCEPT ![c].state = "idle"] /\ UNCHANGED polled
    BY <1>5, <2>1 DEF answer, ConnStates
  <2>2. CASE Finish({c}, "closed")
    BY <1>5, <1>4, <2>2 DEF answer
  <2> QED
    BY <1>5, <2>1, <2>2 DEF answer
<1>6. CASE close(c)
  BY <1>6, <1>4 DEF close
<1>7. CASE abandon(c)
  BY <1>7, <1>4 DEF abandon
<1>8. CASE cut(c)
  BY <1>8, <1>4 DEF cut
<1> QED
  BY <1>1, <1>2, <1>3, <1>5, <1>6, <1>7, <1>8 DEF ConnStep

\* The end of the process keeps the invariant.
LEMMA ExitInv ==
  ASSUME ServerInv, exit
  PROVE  ServerInv'
<1> DEFINE C == {c \in Conns : conn[c].of # None}
<1>1. ServerTypes /\ Finish(C, "lost")
  BY DEF ServerInv, exit
<1>2. /\ conn' \in [Conns -> [of : Relays \cup {None}, state : ConnStates]]
      /\ \A c \in Conns : conn'[c].of = None /\ conn'[c].state \in {"closed", "cut", "lost"}
  BY <1>1, Finished DEF ServerInv, ConnOK
<1>3. polled' = {}
  <2>1. polled' = polled \ C
    BY <1>1, Finished
  <2>2. polled \subseteq C
    BY DEF ServerInv, ServerTypes, ConnOK
  <2> QED
    BY <2>1, <2>2
<1> QED
  BY <1>2, <1>3 DEF exit, ServerInv, ServerTypes, Stages, Busy, HasBound, StageOK, ListenerOK, ConnOK

\* The lifecycle of relays keeps its invariant, whatever fails to start, whenever the
\* application drops a relay or the process ends, and however long requests take.
THEOREM ServerInvariant == ServerSpec => []ServerInv
<1>1. ServerInit => ServerInv
  BY DEF ServerInit, ServerInv, ServerTypes, Stages, Busy, HasBound, StageOK, ListenerOK,
         ConnOK, ConnStates
<1>2. ASSUME ServerInv, [ServerNext]_server_vars
      PROVE  ServerInv'
  <2>1. CASE \E i \in Relays : AppStep(i) \/ TaskStep(i)
    BY <1>2, <2>1, AppStepInv, TaskStepInv
  <2>2. CASE \E c \in Conns : ConnStep(c)
    BY <1>2, <2>2, ConnStepInv
  <2>3. CASE exit
    BY <1>2, <2>3, ExitInv
  <2>4. CASE UNCHANGED server_vars
    BY <1>2, <2>4 DEF server_vars, ServerInv, ServerTypes, Busy, HasBound, StageOK, ListenerOK, ConnOK
  <2> QED
    BY <1>2, <2>1, <2>2, <2>3, <2>4 DEF ServerNext
<1> QED
  BY <1>1, <1>2, PTL DEF ServerSpec

\* Every variable keeps its type; a connection belongs to a relay exactly while it is
\* open, and no listener outlives the server task of its relay.
THEOREM ServerTypeCorrect == ServerSpec => []ServerTypeOK
<1>1. ServerInv => ServerTypeOK
  BY DEF ServerInv, ServerTypes, Stages, StageOK, ListenerOK, ConnOK, ServerTypeOK
<1> QED
  BY <1>1, ServerInvariant, PTL

\* A start that fails, at whichever of its steps, leaves neither the port nor a task nor
\* a connection behind, and a relay that was started has both its tasks.
THEOREM StartLeavesAllOrNothing == ServerSpec => []StartIsAllOrNothing
<1>1. ServerInv => StartIsAllOrNothing
  <2> SUFFICES ASSUME ServerInv, NEW i \in Relays
               PROVE  /\ stage[i] = "failed" =>
                           /\ i \notin listening \cup cleanup
                           /\ server[i] = "none"
                           /\ \A c \in Conns : conn[c].of # i
                      /\ stage[i] \in {"running", "stopping", "dropped"} =>
                           server[i] # "none" /\ i \in cleanup
    BY DEF StartIsAllOrNothing
  <2> QED
    BY ServerAssumption DEF ServerInv, ServerTypes, StageOK, ListenerOK, ConnOK, ConnStates
<1> QED
  BY <1>1, ServerInvariant, PTL

\* Once another relay of the application holds the port, an earlier relay neither accepts
\* a connection nor begins to poll one: its listener is gone, and it was dropped, which
\* stopped its handle.  Only polls that had begun before may still end with an answer.
THEOREM SuccessorHasTakenOver == ServerSpec => SuccessorTakesOver
<1>1. ASSUME ServerInv, NEW i \in Relays, NEW c \in Conns, TakesUp(i, c)
      PROVE  listening \subseteq {i}
  <2>1. CASE accept(i, c)
    BY <1>1, <2>1 DEF accept, Queued, ServerInv, ConnOK, ListenerOK
  <2>2. CASE conn[c].of = i /\ poll(c)
    <3>1. i \notin stopped /\ server[i] # "none"
      BY <1>1, <2>2 DEF poll, ServerInv, ConnOK
    <3>2. stage[i] \in {"spawned", "running", "stopping"}
      BY <1>1, <3>1 DEF ServerInv, ServerTypes, Stages, StageOK
    <3> QED
      BY <1>1, <3>2 DEF ServerInv, ListenerOK, HasBound
  <2> QED
    BY <1>1, <2>1, <2>2 DEF TakesUp
<1>2. ServerInv =>
        [\A i \in Relays, c \in Conns : TakesUp(i, c) => listening \subseteq {i}]_server_vars
  BY <1>1
<1> QED
  BY <1>2, ServerInvariant, PTL DEF SuccessorTakesOver
==============================================================================
