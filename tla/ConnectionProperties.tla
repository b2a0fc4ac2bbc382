------------------------ MODULE ConnectionProperties -------------------------
(***************************************************************************)
(* What a connection promises: its Context lives exactly as long as        *)
(* somebody refers to it, every request for a stream is answered, with a   *)
(* fresh stream or with the reason why not, and no request waits for the   *)
(* event loop to wake up by chance.                                        *)
(***************************************************************************)
EXTENDS Connection

Results == {"Ok", "Canceled", "unused", "waiting"} \cup ErrorKinds

(* The type of every variable of the model.                                *)
TypeOK ==
  /\ is_client \in Roles
  /\ connect \in {"none", "waiting", "Ok", "Canceled"} \cup ErrorKinds
  /\ handle \in {"builder", "held", "dropped", "never"}
  /\ future \in [Requests -> [state : Results, id : Nat]]
  /\ close_sent \in BOOLEAN /\ listed \in BOOLEAN /\ raw \in BOOLEAN
  /\ closed \in BOOLEAN /\ wait_for_ready_state \in BOOLEAN
  /\ next_stream_id \in Nat /\ streams \subseteq Nat
  /\ recv_create_stream \in
       [queue : Seq([request : Requests, stype : StreamTypes]), size : Nat,
        open : BOOLEAN, error : {NoError} \cup ErrorKinds]
  /\ create_parked \in BOOLEAN /\ close_parked \in BOOLEAN
  /\ send_msg \in Seq([type : {"NewStream", "Error", "Close"}, id : Nat])
  /\ pc \in {"sleep", "poll", "requests", "close", "check", "callbacks",
             "stopped", "panic"}
  /\ wakeup \in BOOLEAN /\ registered \in BOOLEAN
  /\ cnx_state \in {"handshake", "ready", "closing", "disconnected"}
  /\ cnx_error \in {NoError} \cup ErrorKinds
  /\ peer_done \subseteq Nat
  /\ DOMAIN handed \subseteq Nat /\ \A i \in DOMAIN handed : handed[i] \in Nat

(* The pointer registered with picoquic points to a live Context, and the  *)
(* Context is dropped (Context::drop unregisters it) with the last of its  *)
(* two references; connection_callback gives picoquic's own reference back *)
(* with the close event and not before.                                    *)
CallbackHasContext ==
  /\ registered <=> (listed \/ raw)
  /\ cnx_state # "disconnected" => raw

(* The assertion of check_create_stream_requests, that a generated id is   *)
(* not in `streams`, never fails, and two requests never get the same id.  *)
FreshStreamIds ==
  /\ pc # "panic"
  /\ \A r, q \in Requests :
       (r # q /\ future[r].state = "Ok" /\ future[q].state = "Ok") =>
         future[r].id # future[q].id

(* A request that waits in the queue of an open connection has notified    *)
(* the event loop: it never sleeps on a request it was not told about.     *)
RequestWakesLoop ==
  (recv_create_stream.queue # <<>> /\ ~closed /\ pc = "sleep") => wakeup

(* "Immediately closes this connection": close_immediately likewise.       *)
CloseWakesLoop == (close_sent /\ ~closed /\ pc = "sleep") => wakeup

(* After a connection error no request is left waiting and none was merely *)
(* canceled: each got its stream or the error, whenever it was made.       *)
ErrorReachesRequests ==
  cnx_error # NoError =>
    \A r \in Requests : future[r].state \notin {"waiting", "Canceled"}

(* "Each `Stream` is a new channel over the `Connection` to the Peer": no  *)
(* two Stream objects are made for one id.                                 *)
EachStreamHandedOutOnce == \A i \in DOMAIN handed : handed[i] <= 1

------------------------------------------------------------------------------
(* Fairness.  The event loop's timer fires after at most 10 s and the loop *)
(* runs to its end; picoquic ends a handshake and a close that it started. *)
(* The application and the peer owe nothing.                               *)
ConnectionEnds(state) ==
  cnx_state = state /\ \E err \in Failures : CloseCallback(err)

Fairness ==
  /\ WF_vars(Wake) /\ WF_vars(Poll) /\ WF_vars(EndOfLoop)
  /\ SF_vars(ConnectionEnds("closing"))
  /\ SF_vars(AlmostReady \/ ConnectionEnds("handshake"))

FairSpec == Spec /\ Fairness

Stopped == pc = "stopped"

(* "A future that resolves to a `Stream`": every NewStreamFuture resolves, *)
(* to a stream or to an error.                                             *)
RequestsResolve ==
  \A r \in Requests :
    (future[r].state = "waiting") ~> (future[r].state # "waiting")

(* The same, as long as the event loop is not shut down.                   *)
RequestsResolveWhileRunning ==
  \A r \in Requests :
    (future[r].state = "waiting") ~> (future[r].state # "waiting" \/ Stopped)

(* The future of an outgoing connection resolves.                          *)
ConnectResolves == (connect = "waiting") ~> (connect # "waiting" \/ Stopped)

(* close_immediately takes effect: picoquic is told and the Context goes.  *)
CloseCompletes == close_sent ~> (~(listed \/ raw) \/ Stopped)
==============================================================================
