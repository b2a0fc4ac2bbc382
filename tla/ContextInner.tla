---------------------------- MODULE ContextInner -----------------------------
(***************************************************************************)
(* The event loop of picoquic-rs: ContextInner and CContext of             *)
(* src/src/context_inner.rs, with the `Context` that the application holds *)
(* (src/src/context.rs).  The loop is a future of one task.  One turn      *)
(* polls the connections, reads the time, and then moves connection        *)
(* requests, received datagrams, stateless packets and the packets of the  *)
(* connections between the application, picoquic and the UDP socket, all   *)
(* through one buffer.  After a turn the task goes round again or sleeps   *)
(* until something it registered with notifies it.                         *)
(*                                                                         *)
(* A connection's Context is module Connection; here it is its references, *)
(* `closed` and whether its application has data for it.  picoquic is      *)
(* external: per connection a state and when it wants to be woken, which   *)
(* is a time seen from the turn's current_time:                            *)
(*   "due"    at or before current_time                                    *)
(*   "fresh"  after current_time, and already past                         *)
(*   "later"  in the future          "idle"  not there                     *)
(***************************************************************************)
EXTENDS Integers, Sequences

CONSTANTS
  Requests,      \* calls of NewConnectionHandle::new_connection
  Incoming,      \* connections that peers open
  CreateResults, \* what Connection::create may do with a request
  SocketErrors,  \* may socket calls fail with an io::Error?
  MaxLoops,      \* max_loops_without_sleep, 50 in the code
  MaxPackets,    \* bound: packets that picoquic prepares
  MaxArrivals    \* bound: datagrams that arrive

ASSUME ContextInnerAssumptions ==
  /\ Requests \cap Incoming = {}
  /\ CreateResults \subseteq {"Ok", "Err", "panic"} /\ SocketErrors \in BOOLEAN
  /\ MaxLoops \in Nat /\ MaxPackets \in Nat /\ MaxArrivals \in Nat

(* A connection that was asked for is named by its request. *)
Cnxs == Requests \cup Incoming

VARIABLES
  (* the application *)
  context,       \* the Context: "held" or "dropped"
  future,        \* the NewConnectionFuture of every request
  recv_con,      \* incoming Connections that the Context was not polled for:
                 \* nobody ever gets them once it is dropped
  data, close_request, \* connections with something for their Context to do
  (* the event loop *)
  pc, notified,
  parked,        \* what will notify the task
  loops,         \* loops_without_sleep
  recv_connect, buffer, not_send_length,
  (* the connections' Contexts: CContext.connections, picoquic's reference *)
  listed, raw, closed,
  unpolled,      \* those that were created after CContext::poll of this turn
  (* the UDP socket *)
  arrived, arrivals,
  writable,      \* the reactor has reported that it can be written to
  (* picoquic *)
  cnx, wake, stateless, prepared,
  (* history *)
  wire,          \* datagrams of connections that the socket took
  failed,        \* packets for which it reported an error
  io_error,      \* did a socket call before send_connection_packets fail in
                 \* this turn?
  handed,        \* connections with data that was not asked for a packet yet
  stale          \* Contexts whose drop used a deleted cnx

appVars    == <<context, future, recv_con, data, close_request>>
loopVars   == <<notified, parked, loops, recv_connect>>
sendVars   == <<buffer, not_send_length, writable, prepared, wire, failed>>
refVars    == <<listed, unpolled, raw, closed, stale>>
socketVars == <<arrived, arrivals, io_error>>
quicVars   == <<cnx, wake, stateless>>
vars == <<appVars, pc, loopVars, sendVars, refVars, socketVars, quicVars,
          handed>>

NoPacket == 0   \* the buffer as allocated; not_send_length = None
Received == -1  \* the buffer after poll_recv_from

Running == pc \notin {"sleep", "ended", "panic"}
Ended == pc \in {"ended", "panic"}

(* Something that the task may have registered with happens. *)
Notify(source) ==
  /\ notified' = (notified \/ source \in parked)
  /\ parked' = parked \ {source}

Park(source) == parked' = parked \cup {source}

------------------------------------------------------------------------------
(* ContextInner::new and Context::new: the spawned task is to be polled.   *)
Init ==
  /\ context = "held" /\ future = [r \in Requests |-> "unused"]
  /\ recv_con = <<>> /\ data = {} /\ close_request = {}
  /\ pc = "sleep" /\ notified = TRUE /\ parked = {} /\ loops = 0
  /\ recv_connect = <<>> /\ buffer = NoPacket /\ not_send_length = NoPacket
  /\ listed = {} /\ unpolled = {} /\ raw = {} /\ closed = {}
  /\ arrived = 0 /\ arrivals = 0 /\ io_error = FALSE /\ writable = FALSE
  /\ cnx = [c \in Cnxs |-> "none"] /\ wake = [c \in Cnxs |-> "idle"]
  /\ stateless = 0 /\ prepared = 0
  /\ wire = <<>> /\ failed = {} /\ handed = {} /\ stale = {}

------------------------------------------------------------------------------
(* The application. *)

(* NewConnectionHandle::new_connection.  Once the receiver is gone the     *)
(* message is dropped with the sender of the future, which resolves with   *)
(* Canceled, an InternalError.                                             *)
NewConnection(r) ==
  /\ future[r] = "unused"
  /\ IF Ended
     THEN /\ future' = [future EXCEPT ![r] = "InternalError"]
          /\ UNCHANGED <<recv_connect, notified, parked>>
     ELSE /\ future' = [future EXCEPT ![r] = "queued"]
          /\ recv_connect' = Append(recv_connect, r)
          /\ Notify("connect")
  /\ UNCHANGED <<context, recv_con, data, close_request, pc, loops, sendVars,
                 refVars, socketVars, quicVars, handed>>

(* Context::poll with an item there.  It answers None, whatever recv_con   *)
(* holds, as soon as the loop has ended.                                   *)
PollContext ==
  /\ context = "held" /\ ~Ended /\ recv_con # <<>>
  /\ recv_con' = Tail(recv_con)
  /\ UNCHANGED <<context, future, data, close_request, pc, loopVars, sendVars,
                 refVars, socketVars, quicVars, handed>>

(* The drop of close_handle, which the loop may be polling. *)
DropContext ==
  /\ context = "held"
  /\ context' = "dropped"
  /\ Notify("close")
  /\ UNCHANGED <<future, recv_con, data, close_request, pc, loops,
                 recv_connect, sendVars, refVars, socketVars, quicVars,
                 handed>>

(* The application has the Connection: its Context was polled for it, or   *)
(* the future of its request has resolved, which takes an answer of the    *)
(* peer to a packet of this turn and so at least another turn.             *)
HasConnection(c) ==
  /\ c \in listed \ closed
  /\ c \in Requests => c \notin unpolled
  /\ \A i \in DOMAIN recv_con : recv_con[i] # c

(* A stream or the connection itself is used: its Context has data to send *)
(* or is told to close (modules Stream and Connection).  The channels that *)
(* data comes through are polled where they are created, inside the task;  *)
(* close_recv is not polled before the first poll of its Context, so that  *)
(* closing a connection which was accepted in this turn notifies nobody.   *)
UseConnection(c, close) ==
  /\ HasConnection(c) /\ c \notin data \cup close_request
  /\ IF close THEN close_request' = close_request \cup {c} /\ UNCHANGED data
              ELSE data' = data \cup {c} /\ UNCHANGED close_request
  /\ IF close /\ c \in unpolled THEN UNCHANGED <<notified, parked>>
     ELSE Notify("contexts")
  /\ UNCHANGED <<context, future, recv_con, pc, loops, recv_connect, sendVars,
                 refVars, socketVars, quicVars, handed>>

------------------------------------------------------------------------------
(* The world outside: the network, the reactor and the clock. *)

Arrive ==
  /\ ~Ended /\ arrivals < MaxArrivals
  /\ arrivals' = arrivals + 1 /\ arrived' = arrived + 1
  /\ Notify("read")
  /\ UNCHANGED <<appVars, pc, loops, recv_connect, sendVars, refVars,
                 quicVars, io_error, handed>>

SocketDrains ==
  /\ ~Ended /\ ~writable
  /\ writable' = TRUE
  /\ Notify("write")
  /\ UNCHANGED <<appVars, pc, loops, recv_connect, buffer, not_send_length,
                 prepared, wire, failed, refVars, socketVars, quicVars,
                 handed>>

TimePasses(c) ==
  /\ ~Ended /\ wake[c] = "later"
  /\ wake' = [wake EXCEPT ![c] = "fresh"]
  /\ UNCHANGED <<appVars, pc, loopVars, sendVars, refVars, socketVars, cnx,
                 stateless, handed>>

(* The Delay that reset_timer set; it is at most max_delay ahead. *)
TimerFires ==
  /\ "timer" \in parked
  /\ Notify("timer")
  /\ UNCHANGED <<appVars, pc, loops, recv_connect, sendVars, refVars,
                 socketVars, quicVars, handed>>

Wake ==
  /\ pc = "sleep" /\ notified
  /\ pc' = "contexts" /\ notified' = FALSE /\ loops' = 0
  /\ UNCHANGED <<appVars, parked, recv_connect, sendVars, refVars, socketVars,
                 quicVars, handed>>

------------------------------------------------------------------------------
(* The start of a turn. *)

(* A Context whose last reference goes is dropped, and Context::drop tells *)
(* picoquic, through its cnx pointer, not to call back any more.           *)
StaleDrops(cs) == {c \in cs : cnx[c] = "freed"}

(* Data makes picoquic want to be woken now, which is after the current    *)
(* time of the turn before and not after the one this turn will read.      *)
WokenAfterTime(cs) ==  \* mutant of WokenBy: the time was read first
  [c \in Cnxs |-> IF c \in cs /\ wake[c] # "due" THEN "later" ELSE wake[c]]
NobodyWoken(cs) == wake  \* mutant of WokenBy
WokenBy(cs) ==
  [c \in Cnxs |-> IF c \in cs /\ wake[c] # "due" THEN "fresh" ELSE wake[c]]

(* CContext::poll polls every Context and retains those that are not done: *)
(* a closed one goes, the others pass on data and requests to close.  The  *)
(* task is then registered with every channel of every one of them.        *)
RetainAll == listed  \* mutant of Retained
Retained == listed \ closed

PollContexts ==
  /\ pc = "contexts" /\ pc' = "time"
  /\ listed' = Retained
  /\ stale' = stale \cup StaleDrops((listed \ Retained) \ raw)
  /\ closed' = closed \cup (close_request \cap Retained)
  /\ wake' = WokenBy((data \cup close_request) \cap Retained)
  /\ handed' = handed \cup (data \cap Retained)
  /\ data' = {} /\ close_request' = {} /\ unpolled' = {}
  /\ io_error' = FALSE
  /\ Park("contexts")
  /\ UNCHANGED <<context, future, recv_con, notified, loops, recv_connect,
                 sendVars, raw, arrived, arrivals, cnx, stateless>>

GetCurrentTime ==
  /\ pc = "time" /\ pc' = "dropped"
  /\ wake' = [c \in Cnxs |-> IF wake[c] = "fresh" THEN "due" ELSE wake[c]]
  /\ UNCHANGED <<appVars, loopVars, sendVars, refVars, socketVars, cnx,
                 stateless, handed>>

(* The future is dropped: ContextInner::drop completes close_handle and    *)
(* the fields go.  picoquic_free closes and deletes every connection; the  *)
(* queued requests go with the senders of their futures; CContext, whose   *)
(* second reference is never given back, stays with its list.              *)
KeepRequests == future  \* mutant of CancelRequests
CancelRequests ==
  [r \in Requests |-> IF future[r] = "queued" THEN "InternalError"
                      ELSE future[r]]

DropInner ==
  /\ recv_connect' = <<>> /\ future' = CancelRequests
  /\ closed' = closed \cup raw /\ raw' = {}
  /\ cnx' = [c \in Cnxs |-> IF cnx[c] = "none" THEN "none" ELSE "freed"]
  /\ parked' = {}
  /\ UNCHANGED <<context, recv_con, data, close_request, notified, loops,
                 sendVars, listed, unpolled, stale, socketVars, wake,
                 stateless, handed>>

(* context_dropped *)
ContextDropped ==
  /\ pc = "dropped" /\ context = "dropped"
  /\ pc' = "ended"
  /\ DropInner

KeepAlways ==  \* mutant of ContextKept
  /\ pc = "dropped" /\ pc' = "connect"
  /\ Park("close")
  /\ UNCHANGED <<appVars, notified, loops, recv_connect, sendVars, refVars,
                 socketVars, quicVars, handed>>

ContextKept ==
  /\ pc = "dropped" /\ context = "held"
  /\ pc' = "connect"
  /\ Park("close")
  /\ UNCHANGED <<appVars, notified, loops, recv_connect, sendVars, refVars,
                 socketVars, quicVars, handed>>

------------------------------------------------------------------------------
(* check_for_new_connection_request *)

(* A server name with a NUL byte, or picoquic's refusal: the sender of the *)
(* future is dropped and the loop goes on.                                 *)
CreateConnection(r, result) ==
  /\ pc = "connect" /\ recv_connect # <<>> /\ r = Head(recv_connect)
  /\ UNCHANGED pc
  /\ recv_connect' = Tail(recv_connect)
  /\ IF result = "Ok"
     THEN /\ future' = [future EXCEPT ![r] = "created"]
          /\ listed' = listed \cup {r} /\ raw' = raw \cup {r}
          /\ unpolled' = unpolled \cup {r}
          /\ cnx' = [cnx EXCEPT ![r] = "open"]
          /\ wake' = [wake EXCEPT ![r] = "due"]
     ELSE /\ future' = [future EXCEPT ![r] = "InternalError"]
          /\ UNCHANGED <<listed, unpolled, raw, cnx, wake>>
  /\ UNCHANGED <<context, recv_con, data, close_request, notified, parked,
                 loops, sendVars, closed, stale, socketVars, stateless,
                 handed>>

(* The assertion that the address is specified fails: the task is gone.    *)
CreatePanics ==
  /\ pc = "connect" /\ recv_connect # <<>>
  /\ pc' = "panic"
  /\ DropInner

NoMoreRequests ==
  /\ pc = "connect" /\ recv_connect = <<>>
  /\ pc' = "receive"
  /\ Park("connect")
  /\ UNCHANGED <<appVars, notified, loops, recv_connect, sendVars, refVars,
                 socketVars, quicVars, handed>>

------------------------------------------------------------------------------
(* check_for_incoming_data.  A datagram is read into the buffer and given  *)
(* to picoquic, which decrypts it in place and may call back.              *)

(* connection_callback with a close event: the Context is closed and       *)
(* picoquic's reference is given back.                                     *)
NotClosed(c) ==  \* mutant of CloseEvent
  raw' = raw \ {c} /\ UNCHANGED <<listed, unpolled, closed, stale>>
CloseEvent(c) ==
  /\ closed' = IF c \in raw THEN closed \cup {c} ELSE closed
  /\ raw' = raw \ {c}
  /\ UNCHANGED <<listed, unpolled, stale>>

(* new_connection_callback, unless the connection is going to close.       *)
AcceptConnection(c, is_going_to_close) ==
  /\ cnx[c] = "none"
  /\ cnx' = [cnx EXCEPT ![c] = "open"] /\ wake' = [wake EXCEPT ![c] = "due"]
  /\ IF is_going_to_close
     THEN UNCHANGED <<listed, unpolled, raw, recv_con>>
     ELSE /\ listed' = listed \cup {c} /\ raw' = raw \cup {c}
          /\ unpolled' = unpolled \cup {c}
          /\ recv_con' = Append(recv_con, c)
  /\ UNCHANGED <<closed, stale, stateless>>

(* A packet of an open connection: it has something to answer, is closed   *)
(* by the peer, or is gone at once.                                        *)
ConnectionPacket(c, state) ==
  /\ cnx[c] = "open"
  /\ wake' = [wake EXCEPT ![c] = "due"]
  /\ IF state = "answer" THEN UNCHANGED <<cnx, refVars>>
     ELSE /\ cnx' = [cnx EXCEPT ![c] = state]
          /\ CloseEvent(c)
  /\ UNCHANGED <<recv_con, stateless>>

UnknownPacket ==
  /\ stateless' = stateless + 1
  /\ UNCHANGED <<cnx, wake, refVars, recv_con>>

Receive ==
  /\ pc = "receive" /\ arrived > 0
  /\ UNCHANGED pc
  /\ arrived' = arrived - 1
  /\ buffer' = Received
  /\ \/ \E c \in Incoming, b \in BOOLEAN : AcceptConnection(c, b)
     \/ \E c \in Cnxs, state \in {"answer", "open", "disconnected"} :
          ConnectionPacket(c, state)
     \/ UnknownPacket
  /\ UNCHANGED <<context, future, data, close_request, loopVars,
                 not_send_length, writable, prepared, wire, failed, arrivals,
                 io_error, handed>>

(* poll_recv_from is NotReady, or fails: only the first registers.         *)
ReceiveEnd(error) ==
  /\ pc = "receive"
  /\ IF error THEN UNCHANGED parked ELSE arrived = 0 /\ Park("read")
  /\ io_error' = error
  /\ pc' = "stateless"
  /\ UNCHANGED <<appVars, notified, loops, recv_connect, sendVars, refVars,
                 arrived, arrivals, quicVars, handed>>

------------------------------------------------------------------------------
(* send_stateless_packets.  The iterator takes a packet from picoquic's    *)
(* queue and deletes it whatever the socket says.                          *)
StatelessUnregistered(error) ==  \* mutant of SendStateless
  /\ pc = "stateless" /\ stateless > 0
  /\ stateless' = stateless - 1
  /\ pc' = IF writable /\ ~error THEN "stateless" ELSE "unsent"
  /\ writable' \in IF writable THEN BOOLEAN ELSE {FALSE}
  /\ io_error' = (io_error \/ (writable /\ error))
  /\ UNCHANGED <<appVars, loopVars, buffer, not_send_length, prepared, wire,
                 failed, refVars, arrived, arrivals, cnx, wake, handed>>
SendStateless(error) ==
  /\ pc = "stateless" /\ stateless > 0
  /\ stateless' = stateless - 1
  /\ \/ /\ writable
        /\ pc' = IF error THEN "unsent" ELSE "stateless"
        /\ writable' \in BOOLEAN
        /\ UNCHANGED parked
     \/ /\ ~writable
        /\ pc' = "unsent"
        /\ Park("write")
        /\ UNCHANGED writable
  /\ io_error' = (io_error \/ (writable /\ error))
  /\ UNCHANGED <<appVars, notified, loops, recv_connect, buffer,
                 not_send_length, prepared, wire, failed, refVars, arrived,
                 arrivals, cnx, wake, handed>>

StatelessEnd ==
  /\ pc = "stateless" /\ stateless = 0
  /\ pc' = "unsent"
  /\ UNCHANGED <<appVars, loopVars, sendVars, refVars, socketVars, quicVars,
                 handed>>

------------------------------------------------------------------------------
(* send_connection_packets *)

(* send_data_in_buffer for packet n.  An error is not told from success.   *)
SendDataInBuffer(n, content, error) ==
  \/ /\ writable
     /\ writable' \in BOOLEAN
     /\ IF error THEN failed' = failed \cup {n} /\ UNCHANGED wire
        ELSE wire' = Append(wire, [packet |-> n, content |-> content])
             /\ UNCHANGED failed
     /\ not_send_length' = NoPacket
     /\ pc' = "prepare"
     /\ UNCHANGED parked
  \/ /\ ~writable
     /\ not_send_length' = n
     /\ pc' = "wakeup"
     /\ Park("write")
     /\ UNCHANGED <<writable, wire, failed>>

SendUnsent(error) ==
  /\ pc = "unsent" /\ not_send_length # NoPacket
  /\ SendDataInBuffer(not_send_length, buffer, error)
  /\ UNCHANGED <<appVars, notified, loops, recv_connect, buffer, prepared,
                 refVars, socketVars, quicVars, handed>>

ForgetUnsent == pc = "unsent"  \* mutant of NothingUnsent
NothingUnsent == pc = "unsent" /\ not_send_length = NoPacket

SkipUnsent ==
  /\ NothingUnsent
  /\ pc' = "prepare"
  /\ UNCHANGED <<appVars, loopVars, sendVars, refVars, socketVars, quicVars,
                 handed>>

(* ordered_connection_iter; a disconnected connection ends the iteration.  *)
BreakWithoutDelete(c) ==  \* mutant of DeleteConnection
  /\ pc = "prepare" /\ wake[c] = "due" /\ cnx[c] = "disconnected"
  /\ pc' = "wakeup"
  /\ UNCHANGED <<appVars, loopVars, sendVars, refVars, socketVars, quicVars,
                 handed>>
DeleteConnection(c) ==
  /\ pc = "prepare" /\ wake[c] = "due" /\ cnx[c] = "disconnected"
  /\ pc' = "wakeup"
  /\ cnx' = [cnx EXCEPT ![c] = "freed"] /\ wake' = [wake EXCEPT ![c] = "idle"]
  /\ handed' = handed \ {c}
  /\ UNCHANGED <<appVars, loopVars, sendVars, refVars, socketVars, stateless>>

(* prepare_packet returns a packet, written to the buffer, ... *)
PreparePacket(c, next, error) ==
  /\ pc = "prepare" /\ wake[c] = "due" /\ cnx[c] = "open"
  /\ prepared < MaxPackets
  /\ prepared' = prepared + 1 /\ buffer' = prepared'
  /\ SendDataInBuffer(prepared', prepared', error)
  /\ wake' = [wake EXCEPT ![c] = next] /\ handed' = handed \ {c}
  /\ UNCHANGED <<appVars, notified, loops, recv_connect, refVars, socketVars,
                 cnx, stateless>>

(* ... no data or an error, ... *)
PrepareNothing(c) ==
  /\ pc = "prepare" /\ wake[c] = "due" /\ cnx[c] = "open"
  /\ wake' = [wake EXCEPT ![c] = "later"] /\ handed' = handed \ {c}
  /\ UNCHANGED <<appVars, pc, loopVars, sendVars, refVars, socketVars, cnx,
                 stateless>>

(* ... or Disconnected: a timeout or the end of a close, with its callback.*)
PrepareDisconnects(c) ==
  /\ pc = "prepare" /\ wake[c] = "due" /\ cnx[c] = "open"
  /\ cnx' = [cnx EXCEPT ![c] = "disconnected"] /\ handed' = handed \ {c}
  /\ CloseEvent(c)
  /\ UNCHANGED <<appVars, pc, loopVars, sendVars, socketVars, wake, stateless>>

NobodyDue ==
  /\ pc = "prepare" /\ \A c \in Cnxs : wake[c] # "due"
  /\ pc' = "wakeup"
  /\ UNCHANGED <<appVars, loopVars, sendVars, refVars, socketVars, quicVars,
                 handed>>

------------------------------------------------------------------------------
(* The end of a turn. *)

(* get_next_wake_up_time returns None. *)
WakeInstantly == \E c \in Cnxs : wake[c] = "due"

GiveUp ==
  /\ pc = "wakeup" /\ loops >= MaxLoops
  /\ pc' = "sleep" /\ notified' = TRUE
  /\ UNCHANGED <<appVars, parked, loops, recv_connect, sendVars, refVars,
                 socketVars, quicVars, handed>>

AgainWithoutBound ==  \* mutant of Again
  /\ pc = "wakeup" /\ pc' = "contexts" /\ loops' = loops + 1
  /\ UNCHANGED <<appVars, notified, parked, recv_connect, sendVars, refVars,
                 socketVars, quicVars, handed>>

AgainUncounted ==  \* mutant of Again
  /\ pc = "wakeup" /\ loops < MaxLoops
  /\ pc' = "contexts"
  /\ UNCHANGED <<appVars, loopVars, sendVars, refVars, socketVars, quicVars,
                 handed>>

(* Again: picoquic wants to be called instantly, or reset_timer found the  *)
(* timer elapsed or failing.                                               *)
Again ==
  /\ pc = "wakeup" /\ loops < MaxLoops
  /\ pc' = "contexts" /\ loops' = loops + 1
  /\ UNCHANGED <<appVars, notified, parked, recv_connect, sendVars, refVars,
                 socketVars, quicVars, handed>>

SleepUnregistered ==  \* mutant of Sleep
  /\ pc = "wakeup" /\ loops < MaxLoops /\ ~WakeInstantly
  /\ pc' = "sleep"
  /\ UNCHANGED <<appVars, loopVars, sendVars, refVars, socketVars, quicVars,
                 handed>>

(* reset_timer registered the task. *)
Sleep ==
  /\ pc = "wakeup" /\ loops < MaxLoops /\ ~WakeInstantly
  /\ pc' = "sleep"
  /\ Park("timer")
  /\ UNCHANGED <<appVars, notified, loops, recv_connect, sendVars, refVars,
                 socketVars, quicVars, handed>>

------------------------------------------------------------------------------
Application ==
  \/ \E r \in Requests : NewConnection(r)
  \/ PollContext \/ DropContext
  \/ \E c \in Cnxs, close \in BOOLEAN : UseConnection(c, close)

Environment ==
  \/ Arrive \/ SocketDrains \/ TimerFires
  \/ \E c \in Cnxs : TimePasses(c)

Errors == IF SocketErrors THEN BOOLEAN ELSE {FALSE}

Poll ==
  \/ PollContexts \/ GetCurrentTime \/ ContextDropped \/ ContextKept
  \/ \E r \in Requests, result \in CreateResults \ {"panic"} :
       CreateConnection(r, result)
  \/ "panic" \in CreateResults /\ CreatePanics
  \/ NoMoreRequests
  \/ Receive
  \/ \E error \in Errors : ReceiveEnd(error)
  \/ \E error \in Errors : SendStateless(error)
  \/ StatelessEnd
  \/ \E error \in Errors : SendUnsent(error)
  \/ SkipUnsent
  \/ \E c \in Cnxs : DeleteConnection(c) \/ PrepareDisconnects(c)
  \/ \E c \in Cnxs, next \in {"due", "later"}, error \in Errors :
       PreparePacket(c, next, error)
  \/ \E c \in Cnxs : PrepareNothing(c)
  \/ NobodyDue \/ GiveUp \/ Again \/ Sleep

Next == Application \/ Environment \/ Wake \/ Poll

Spec == Init /\ [][Next]_vars
==============================================================================
