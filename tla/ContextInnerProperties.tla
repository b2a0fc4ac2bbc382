----------------------- MODULE ContextInnerProperties ------------------------
(***************************************************************************)
(* What the event loop promises: every packet that picoquic prepares       *)
(* reaches the socket once, the task never sleeps through work it could    *)
(* do, every poll of it returns, and everything that is asked of it is     *)
(* done in the end.                                                        *)
(***************************************************************************)
EXTENDS ContextInner

Packets == 1..prepared

(* The type of every variable of the model.                                *)
TypeOK ==
  /\ context \in {"held", "dropped"}
  /\ future \in [Requests -> {"unused", "queued", "created", "InternalError"}]
  /\ recv_con \in Seq(Incoming) /\ recv_connect \in Seq(Requests)
  /\ data \subseteq Cnxs /\ close_request \subseteq Cnxs
  /\ pc \in {"sleep", "contexts", "time", "dropped", "connect", "receive",
             "stateless", "unsent", "prepare", "wakeup", "ended", "panic"}
  /\ notified \in BOOLEAN /\ loops \in 0..MaxLoops
  /\ parked \subseteq {"contexts", "close", "connect", "read", "write",
                       "timer"}
  /\ prepared \in 0..MaxPackets /\ buffer \in Packets \cup {NoPacket, Received}
  /\ not_send_length \in Packets \cup {NoPacket}
  /\ wire \in Seq([packet : Packets, content : Packets \cup {Received}])
  /\ failed \subseteq Packets /\ writable \in BOOLEAN
  /\ listed \subseteq Cnxs /\ unpolled \subseteq Cnxs
  /\ raw \subseteq Cnxs /\ closed \subseteq Cnxs
  /\ stale \subseteq Cnxs /\ handed \subseteq Cnxs
  /\ arrivals \in 0..MaxArrivals /\ arrived \in 0..arrivals
  /\ io_error \in BOOLEAN
  /\ cnx \in [Cnxs -> {"none", "open", "disconnected", "freed"}]
  /\ wake \in [Cnxs -> {"idle", "later", "fresh", "due"}]
  /\ stateless \in 0..MaxArrivals

(* Every packet that prepare_packet wrote to the buffer has one fate: the  *)
(* socket took it, in the order of preparation and once, the socket        *)
(* reported an error for it, or it is the one of not_send_length.  The     *)
(* early return of send_connection_packets keeps a second packet from      *)
(* being prepared over a refused one.                                      *)
NoPacketForgotten ==
  /\ {wire[i].packet : i \in DOMAIN wire} \cup failed
       \cup ({not_send_length} \ {NoPacket}) = Packets
  /\ \A i, j \in DOMAIN wire : i < j => wire[i].packet < wire[j].packet
  /\ not_send_length # NoPacket => not_send_length = prepared

(* The task sleeps without having been notified only if there is nothing   *)
(* it could do: no request, no dropped Context, nothing from connections,  *)
(* no packet the socket would take, no due connection, and its timer is    *)
(* set.  What may have to wait for the timer is the close of a connection  *)
(* that was accepted in the last turn and, after a turn with an io::Error, *)
(* a datagram or a stateless packet.                                       *)
NothingUnattended ==
  (pc = "sleep" /\ ~notified) =>
    /\ recv_connect = <<>> /\ context = "held"
    /\ (data \cup (close_request \ unpolled)) \cap listed = {}
    /\ not_send_length # NoPacket => ~writable
    /\ ~WakeInstantly
    /\ "timer" \in parked
    /\ ~io_error => arrived = 0 /\ (stateless > 0 => ~writable)

(* A Context that CContext::poll will still poll, and that will then call  *)
(* into picoquic with its cnx, has a cnx that was not deleted: the close   *)
(* event always comes first.                                               *)
PollsLiveConnections ==
  ~Ended => \A c \in listed \ closed : cnx[c] = "open"

(* "We do this before acquiring the current time, to make sure that we     *)
(* send the data in this loop (if permitted)": when the connections have   *)
(* been gone through, and neither a full socket nor a deleted connection   *)
(* ended that early, picoquic was asked for a packet of every connection   *)
(* that had been given data.                                               *)
DataGoesOutThisLoop ==
  [][(pc = "prepare" /\ pc' = "wakeup" /\ not_send_length' = NoPacket
      /\ cnx' = cnx) => handed' = {}]_vars

(* "Data in the buffer that was not send, because the socket was full":    *)
(* what goes out for a packet is what was prepared for it.                 *)
SentIsPrepared == \A i \in DOMAIN wire : wire[i].content = wire[i].packet

(* "Deletes the underlying C pointer!": a Context is dropped, and uses its *)
(* cnx, before the event loop deletes that cnx.                            *)
CnxOutlivesContext == stale = {}

------------------------------------------------------------------------------
(* Fairness.  The task runs when it was notified and a turn runs to its    *)
(* end; a registered timer fires, at most 10 s later; the kernel sends     *)
(* what it has and does not fail every read.  The application and the      *)
(* peers owe nothing.                                                      *)
Fairness ==
  /\ WF_vars(Wake) /\ WF_vars(Poll) /\ SF_vars(Receive)
  /\ WF_vars(TimerFires) /\ WF_vars(SocketDrains)

FairSpec == Spec /\ Fairness

(* "If we reach the maximum loop count, we queue the current task to be    *)
(* woken up again": every poll of the task returns, although picoquic may  *)
(* want to be called instantly each time or the timer always be elapsed.   *)
PollReturns == Running ~> ~Running

(* Every request for a connection is taken up, or its future resolves with *)
(* an error: also when the loop ends or dies over another request.         *)
RequestsAnswered ==
  \A r \in Requests : (future[r] = "queued") ~> (future[r] # "queued")

(* What the application wants of a connection is passed on to picoquic,    *)
(* and picoquic is then asked for the packets, also when the deletion of   *)
(* another connection ends the iteration before it.                        *)
DataServed ==
  \A c \in Cnxs :
    /\ (c \in data \cup close_request) ~>
         (c \notin data \cup close_request \/ Ended)
    /\ (c \in handed) ~> (c \notin handed \/ Ended)

(* A disconnected connection is deleted and its Context leaves the list,   *)
(* whatever else there is to do.                                           *)
ConnectionsGo ==
  /\ \A c \in Cnxs : (cnx[c] = "disconnected") ~> (cnx[c] = "freed")
  /\ \A c \in Cnxs : (c \in closed) ~> (c \notin listed \/ Ended)

(* Nothing is stuck in front of the socket or behind it, although a full   *)
(* or failing socket cuts a turn short.                                    *)
SocketServed ==
  /\ (arrived > 0) ~> (arrived = 0 \/ Ended)
  /\ (stateless > 0) ~> (stateless = 0 \/ Ended)
  /\ (not_send_length # NoPacket) ~> (not_send_length = NoPacket \/ Ended)

(* The drop of the Context ends the event loop.                            *)
LoopEnds == (context = "dropped") ~> Ended
==============================================================================
