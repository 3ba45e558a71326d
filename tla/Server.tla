-------------------------------- MODULE Server --------------------------------
(***************************************************************************)
(* The lifecycle of relays (server.rs, main.rs): what HttpRelay::start     *)
(* brings up step by step, what shutdown and Drop take down, and what      *)
(* becomes of the connections meanwhile.  One application thread starts    *)
(* and stops one relay after the other, all on the same port; the server   *)
(* and cleanup tasks of a relay, and the task of each connection, run      *)
(* beside it.                                                              *)
(*                                                                         *)
(* Where the application is with relay i (stage[i]):                       *)
(*   "none"     not started                                                *)
(*   "opened", "bound", "spawned"  inside start                            *)
(*   "failed"   start returned an error                                    *)
(*   "running"  start returned the HttpRelay                               *)
(*   "stopping" inside shutdown, the graceful stop was requested           *)
(*   "dropped"  the HttpRelay was dropped                                  *)
(* The axum-server library is modelled from its use here: a Handle holds   *)
(* two flags that are never reset, graceful and stopped, which the server  *)
(* task and the connection tasks check at the start of a poll and not      *)
(* again before it is over.  The workers of the runtime poll in parallel,  *)
(* so a handle may be stopped in the middle of a poll, which then goes on: *)
(* a request whose handler is being polled may still be answered.          *)
(***************************************************************************)
EXTENDS Integers, FiniteSets

CONSTANTS
  Relays,   \* the relays started in the life of one process
  Conns,    \* the TCP connections clients open, one after the other
  None      \* a connection of no relay

ASSUME ServerAssumption == None \notin Relays

VARIABLES
  stage,      \* per relay, how far the application got with it
  listening,  \* the relays whose listener holds the port
  server,     \* per relay, its server task: "none", "accepting", "draining", "ended"
  cleanup,    \* the relays whose cleanup task runs
  graceful,   \* the relays whose handle was asked for a graceful stop
  stopped,    \* the relays whose handle was asked for an immediate stop
  grace_over, \* the relays whose grace period of one second has elapsed
  conn,       \* per connection, the relay it belongs to and its state
  polled      \* the connections whose task a worker is polling

server_vars ==
  <<stage, listening, server, cleanup, graceful, stopped, grace_over, conn, polled>>
conn_vars == <<conn, polled>>
task_vars == <<listening, server, cleanup, conn_vars>>
handle_vars == <<graceful, stopped, grace_over>>

\* "queued" in the listener's backlog, "idle" without and "handling" with a request in
\* flight; then "closed" in order, "cut" by the relay or "lost" with the process.
ConnStates == {"closed", "queued", "idle", "handling", "cut", "lost"}

Open(i) == {c \in Conns : conn[c].of = i /\ conn[c].state \in {"idle", "handling"}}

Queued(i) == {c \in Conns : conn[c] = [of |-> i, state |-> "queued"]}

Finish(C, how) ==
  /\ conn' = [c \in Conns |-> IF c \in C THEN [of |-> None, state |-> how] ELSE conn[c]]
  /\ polled' = polled \ C

ServerInit ==
  /\ stage = [i \in Relays |-> "none"]
  /\ listening = {}
  /\ server = [i \in Relays |-> "none"]
  /\ cleanup = {}
  /\ graceful = {} /\ stopped = {} /\ grace_over = {}
  /\ conn = [c \in Conns |-> [of |-> None, state |-> "closed"]]
  /\ polled = {}

Advance(i, from, to) ==
  /\ stage[i] = from
  /\ stage' = [stage EXCEPT ![i] = to]

(***************************************************************************)
(* HttpRelay::start.                                                       *)
(***************************************************************************)

\* AppState::new opens the store.  The application deals with one relay at a time.
open_store(i) ==
  /\ \A j \in Relays : stage[j] \in {"none", "failed", "dropped"}
  /\ Advance(i, "none", "opened") \/ Advance(i, "none", "failed")
  /\ UNCHANGED <<task_vars, handle_vars>>

Bug_bind_CleanupFirst(i) ==
  /\ \/ /\ listening = {}
        /\ Advance(i, "opened", "bound")
        /\ listening' = {i}
     \/ Advance(i, "opened", "failed") /\ UNCHANGED listening
  /\ cleanup' = cleanup \cup {i}
  /\ UNCHANGED <<server, conn_vars, handle_vars>>

\* TcpListener::bind needs the port to itself.
bind(i) ==
  /\ \/ /\ listening = {}
        /\ Advance(i, "opened", "bound")
        /\ listening' = {i}
     \/ Advance(i, "opened", "failed") /\ UNCHANGED listening
  /\ UNCHANGED <<server, cleanup, conn_vars, handle_vars>>

Bug_spawn_server_LeaksListener(i) ==
  /\ \/ /\ Advance(i, "bound", "spawned")
        /\ server' = [server EXCEPT ![i] = "accepting"]
     \/ Advance(i, "bound", "failed") /\ UNCHANGED server
  /\ UNCHANGED <<listening, conn_vars, cleanup, handle_vars>>

\* The steps on the bound listener may fail too, which closes it.
spawn_server(i) ==
  /\ \/ /\ Advance(i, "bound", "spawned")
        /\ server' = [server EXCEPT ![i] = "accepting"]
        /\ UNCHANGED <<listening, conn_vars>>
     \/ /\ Advance(i, "bound", "failed")
        /\ listening' = listening \ {i}
        /\ Finish(Queued(i), "cut")
        /\ UNCHANGED server
  /\ UNCHANGED <<cleanup, handle_vars>>

spawn_cleanup(i) ==
  /\ Advance(i, "spawned", "running")
  /\ cleanup' = cleanup \cup {i}
  /\ UNCHANGED <<listening, server, conn_vars, handle_vars>>

(***************************************************************************)
(* The end of a relay.                                                     *)
(***************************************************************************)
shutdown(i) ==
  /\ Advance(i, "running", "stopping")
  /\ graceful' = graceful \cup {i}
  /\ UNCHANGED <<task_vars, stopped, grace_over>>

Bug_drop_GracefulOnly(i) ==
  /\ Advance(i, "running", "dropped") \/ Advance(i, "stopping", "dropped")
  /\ graceful' = graceful \cup {i}
  /\ UNCHANGED <<task_vars, stopped, grace_over>>

Bug_drop_Nothing(i) ==
  /\ Advance(i, "running", "dropped") \/ Advance(i, "stopping", "dropped")
  /\ UNCHANGED <<task_vars, handle_vars>>

\* Drop: shutdown takes the relay by value, so it is dropped when shutdown returns;
\* the application may also drop it without a shutdown.
drop(i) ==
  /\ Advance(i, "running", "dropped") \/ Advance(i, "stopping", "dropped")
  /\ stopped' = stopped \cup {i}
  /\ UNCHANGED <<task_vars, graceful, grace_over>>

\* main returns after start failed or the relay is gone, or the process crashes; it may
\* be started anew.
exit ==
  /\ stage' = [i \in Relays |-> "none"]
  /\ listening' = {}
  /\ server' = [i \in Relays |-> "none"]
  /\ cleanup' = {}
  /\ graceful' = {} /\ stopped' = {} /\ grace_over' = {}
  /\ Finish({c \in Conns : conn[c].of # None}, "lost")

(***************************************************************************)
(* The server task.                                                        *)
(***************************************************************************)
\* A poll of the server task in which the handle is stopped may accept on.
accept(i, c) ==
  /\ server[i] = "accepting"
  /\ c \in Queued(i)
  /\ conn' = [conn EXCEPT ![c].state = "idle"]
  /\ UNCHANGED <<stage, listening, server, cleanup, polled, handle_vars>>

\* A graceful stop ends the accept loop, once no connection is ready to be accepted.
\* The listener may be closed now or when the task ends.
stop_accepting(i) ==
  /\ server[i] = "accepting" /\ i \in graceful
  /\ Queued(i) = {}
  /\ server' = [server EXCEPT ![i] = "draining"]
  /\ listening' \in {listening, listening \ {i}}
  /\ UNCHANGED <<stage, cleanup, conn_vars, handle_vars>>

\* The grace period is over: the handle's own immediate stop.
grace_timer(i) ==
  /\ server[i] = "draining" /\ Open(i) # {}
  /\ grace_over' = grace_over \cup {i}
  /\ stopped' = stopped \cup {i}
  /\ server' = [server EXCEPT ![i] = "ended"]
  /\ listening' = listening \ {i}
  /\ Finish(Queued(i), "cut")
  /\ UNCHANGED <<stage, cleanup, graceful>>

\* An immediate stop ends the accept loop, the last connection the draining.
end_server(i) ==
  /\ \/ server[i] = "accepting" /\ i \in stopped
     \/ server[i] = "draining" /\ Open(i) = {}
  /\ server' = [server EXCEPT ![i] = "ended"]
  /\ listening' = listening \ {i}
  /\ Finish(Queued(i), "cut")
  /\ UNCHANGED <<stage, cleanup, handle_vars>>

(***************************************************************************)
(* Clients and connection tasks.                                           *)
(***************************************************************************)
connect(c) ==
  /\ conn[c].of = None
  /\ \E i \in listening : conn' = [conn EXCEPT ![c] = [of |-> i, state |-> "queued"]]
  /\ UNCHANGED <<stage, listening, server, cleanup, polled, handle_vars>>

\* A worker polls the connection's task, which finds its handle not stopped.
poll(c) ==
  /\ conn[c].state \in {"idle", "handling"} /\ c \notin polled
  /\ conn[c].of \notin stopped
  /\ polled' = polled \cup {c}
  /\ UNCHANGED <<stage, listening, server, cleanup, conn, handle_vars>>

\* The poll ends; a handler that has not answered waits for something.
pending(c) ==
  /\ c \in polled
  /\ polled' = polled \ {c}
  /\ UNCHANGED <<stage, listening, server, cleanup, conn, handle_vars>>

\* In a poll, a request is read from an idle connection.  One that was fresh when the
\* graceful stop came may still take it.
request(c) ==
  /\ c \in polled /\ conn[c].state = "idle"
  /\ conn' = [conn EXCEPT ![c].state = "handling"]
  /\ UNCHANGED <<stage, listening, server, cleanup, polled, handle_vars>>

\* In a poll, the handler finishes and its answer is written.  Under a graceful stop
\* the connection then closes, unless the poll began before that stop.
answer(c) ==
  /\ c \in polled /\ conn[c].state = "handling"
  /\ \/ conn' = [conn EXCEPT ![c].state = "idle"] /\ UNCHANGED polled
     \/ conn[c].of \in graceful /\ Finish({c}, "closed")
  /\ UNCHANGED <<stage, listening, server, cleanup, handle_vars>>

\* An idle connection closes: the client's choice, or a graceful stop.
close(c) ==
  /\ conn[c].state = "idle"
  /\ Finish({c}, "closed")
  /\ UNCHANGED <<stage, listening, server, cleanup, handle_vars>>

\* The client goes away in the middle of a request.
abandon(c) ==
  /\ conn[c].state \in {"queued", "handling"}
  /\ Finish({c}, "closed")
  /\ UNCHANGED <<stage, listening, server, cleanup, handle_vars>>

\* A task that is polled after an immediate stop drops the connection, and the handler's
\* future with it.
cut(c) ==
  /\ conn[c].state \in {"idle", "handling"} /\ c \notin polled
  /\ conn[c].of \in stopped
  /\ Finish({c}, "cut")
  /\ UNCHANGED <<stage, listening, server, cleanup, handle_vars>>

AppStep(i) ==
  \/ open_store(i) \/ bind(i) \/ spawn_server(i) \/ spawn_cleanup(i)
  \/ shutdown(i) \/ drop(i)

TaskStep(i) ==
  \/ \E c \in Conns : accept(i, c)
  \/ stop_accepting(i) \/ grace_timer(i) \/ end_server(i)

ConnStep(c) ==
  \/ connect(c) \/ poll(c) \/ pending(c) \/ request(c) \/ answer(c)
  \/ close(c) \/ abandon(c) \/ cut(c)

ServerNext ==
  \/ \E i \in Relays : AppStep(i) \/ TaskStep(i)
  \/ \E c \in Conns : ConnStep(c)
  \/ exit

ServerSpec == ServerInit /\ [][ServerNext]_server_vars

(***************************************************************************)
(* The runtime polls every task that is ready, and a poll comes to its     *)
(* end, since nothing blocks a worker.  Handlers and clients owe nothing:  *)
(* a request may stay in flight for ever.                                  *)
(***************************************************************************)
ServerFairness ==
  /\ \A i \in Relays : WF_server_vars(stop_accepting(i)) /\ WF_server_vars(end_server(i))
                         /\ WF_server_vars(grace_timer(i))
  /\ \A c \in Conns : WF_server_vars(pending(c)) /\ WF_server_vars(cut(c))

FairServerSpec == ServerSpec /\ ServerFairness

(***************************************************************************)
(* Properties.                                                             *)
(***************************************************************************)

\* Type invariant; a connection belongs to a relay exactly while it is open, and a
\* relay's listener is open only until its server task ends.
ServerTypeOK ==
  /\ stage \in [Relays -> {"none", "opened", "bound", "spawned", "failed", "running",
                           "stopping", "dropped"}]
  /\ listening \subseteq Relays
  /\ server \in [Relays -> {"none", "accepting", "draining", "ended"}]
  /\ cleanup \subseteq Relays
  /\ graceful \subseteq Relays /\ stopped \subseteq Relays /\ grace_over \subseteq stopped
  /\ conn \in [Conns -> [of : Relays \cup {None}, state : ConnStates]]
  /\ \A c \in Conns :
       conn[c].of = None <=> conn[c].state \in {"closed", "cut", "lost"}
  /\ polled \subseteq {c \in Conns : conn[c].state \in {"idle", "handling"}}
  /\ \A i \in listening : server[i] = "none" => stage[i] = "bound"
  /\ \A i \in listening : server[i] # "ended"

\* A start that fails leaves nothing behind, neither the port nor a task nor a
\* connection; one that succeeds has both its tasks.
StartIsAllOrNothing ==
  \A i \in Relays :
    /\ stage[i] = "failed" =>
         /\ i \notin listening \cup cleanup
         /\ server[i] = "none"
         /\ \A c \in Conns : conn[c].of # i
    /\ stage[i] \in {"running", "stopping", "dropped"} =>
         server[i] # "none" /\ i \in cleanup

\* Relay i begins something with connection c: it accepts it, or looks at it for what
\* arrived and for what its handler has to answer.
TakesUp(i, c) == accept(i, c) \/ (conn[c].of = i /\ poll(c))

\* Two relays never work side by side: once the next relay of the application holds the
\* port, an earlier one takes up nothing any more.  All it may still do with its store
\* is to finish the polls that were under way when it was stopped.
SuccessorTakesOver ==
  [][\A i \in Relays, c \in Conns : TakesUp(i, c) => listening \subseteq {i}]_server_vars

\* A relay that was dropped, with or without a shutdown before, gives the port back and
\* ends its server task and its connections, however long their requests would take.
DroppedRelayEnds ==
  \A i \in Relays :
    stage[i] = "dropped" ~>
      (\/ stage[i] = "none"
       \/ server[i] = "ended" /\ i \notin listening /\ Open(i) = {} /\ Queued(i) = {})

\* "Gracefully shuts down the HTTP relay" (server.rs:378), with a grace period of one
\* second (381): after shutdown, a request in flight is answered, unless its client
\* leaves or the second is over.
ShutdownIsGraceful ==
  [][\A c \in Conns :
       conn[c].state = "handling" /\ conn'[c].state = "cut" /\ conn[c].of \in graceful
         => conn[c].of \in grace_over]_server_vars
==============================================================================
