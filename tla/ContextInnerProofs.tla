------------------------- MODULE ContextInnerProofs --------------------------
(***************************************************************************)
(* Proofs about module ContextInner, for any number of connections, of     *)
(* requests, packets and turns.                                            *)
(***************************************************************************)
EXTENDS ContextInnerProperties, TLAPS

(* The parts of TypeOK, by who owns the variables. *)
AppTypes ==
  /\ context \in {"held", "dropped"}
  /\ future \in [Requests -> {"unused", "queued", "created", "InternalError"}]
  /\ recv_con \in Seq(Incoming) /\ recv_connect \in Seq(Requests)
  /\ data \subseteq Cnxs /\ close_request \subseteq Cnxs

LoopTypes ==
  /\ pc \in {"sleep", "contexts", "time", "dropped", "connect", "receive",
             "stateless", "unsent", "prepare", "wakeup", "ended", "panic"}
  /\ notified \in BOOLEAN /\ loops \in 0..MaxLoops
  /\ parked \subseteq {"contexts", "close", "connect", "read", "write",
                       "timer"}

SendTypes ==
  /\ prepared \in 0..MaxPackets /\ buffer \in Packets \cup {NoPacket, Received}
  /\ not_send_length \in Packets \cup {NoPacket}
  /\ wire \in Seq([packet : Packets, content : Packets \cup {Received}])
  /\ failed \subseteq Packets /\ writable \in BOOLEAN
  /\ not_send_length # NoPacket => buffer # NoPacket

RefTypes ==
  /\ listed \subseteq Cnxs /\ raw \subseteq Cnxs /\ closed \subseteq Cnxs
  /\ stale \subseteq Cnxs /\ handed \subseteq Cnxs /\ unpolled \subseteq Cnxs

(* A datagram becomes at most one stateless packet. *)
QuicTypes ==
  /\ arrivals \in 0..MaxArrivals /\ arrived \in Nat /\ stateless \in Nat
  /\ arrived + stateless <= arrivals /\ io_error \in BOOLEAN
  /\ cnx \in [Cnxs -> {"none", "open", "disconnected", "freed"}]
  /\ wake \in [Cnxs -> {"idle", "later", "fresh", "due"}]

TypeInv == AppTypes /\ LoopTypes /\ SendTypes /\ RefTypes /\ QuicTypes

LEMMA TypeInvOK == TypeInv => TypeOK
<1> SUFFICES ASSUME TypeInv PROVE TypeOK
  OBVIOUS
<1>1. arrived \in 0..arrivals /\ stateless \in 0..MaxArrivals
  BY ContextInnerAssumptions DEF TypeInv, QuicTypes
<1>2. QED
  BY <1>1 DEF TypeInv, AppTypes, LoopTypes, SendTypes, RefTypes, QuicTypes,
     TypeOK

LEMMA TypeInit == Init => TypeInv
<1> SUFFICES ASSUME Init PROVE TypeInv
  OBVIOUS
<1>1. AppTypes
  BY DEF Init, AppTypes
<1>2. LoopTypes
  BY ContextInnerAssumptions DEF Init, LoopTypes
<1>3. SendTypes
  <2>1. prepared \in 0..MaxPackets
    BY ContextInnerAssumptions DEF Init
  <2>2. wire \in Seq([packet : Packets, content : Packets \cup {Received}])
    BY DEF Init
  <2>3. writable \in BOOLEAN
    BY DEF Init
  <2>4. QED
    BY <2>1, <2>2, <2>3 DEF Init, SendTypes
<1>4. RefTypes
  BY DEF Init, RefTypes
<1>5. QuicTypes
  <2>1. io_error \in BOOLEAN
    BY DEF Init
  <2>2. QED
    BY <2>1, ContextInnerAssumptions DEF Init, QuicTypes
<1>6. QED
  BY <1>1, <1>2, <1>3, <1>4, <1>5 DEF TypeInv

(* A sequence over a set is one over every larger set.                     *)
LEMMA SeqMonotonic ==
  ASSUME NEW S, NEW T, S \subseteq T, NEW seq \in Seq(S)
  PROVE  seq \in Seq(T)
OBVIOUS

LEMMA AppendType ==
  ASSUME NEW S, NEW seq \in Seq(S), NEW e \in S
  PROVE  Append(seq, e) \in Seq(S)
OBVIOUS

(* The application's side of the queues between it and the loop.           *)
LEMMA RequestTypes ==
  ASSUME AppTypes, NEW r \in Requests, NewConnection(r)
  PROVE  recv_connect' \in Seq(Requests)
<1>1. recv_connect \in Seq(Requests)
  BY DEF AppTypes
<1>2. recv_connect' = recv_connect \/ recv_connect' = Append(recv_connect, r)
  BY DEF NewConnection
<1>3. QED
  BY <1>1, <1>2, AppendType

LEMMA CreateTypes ==
  ASSUME AppTypes, NEW r \in Requests, NEW result, CreateConnection(r, result)
  PROVE  AppTypes'
<1>1. /\ recv_connect # <<>> /\ recv_connect' = Tail(recv_connect)
      /\ UNCHANGED <<context, recv_con, data, close_request>>
  BY DEF CreateConnection
<1>2. \/ future' = [future EXCEPT ![r] = "created"]
      \/ future' = [future EXCEPT ![r] = "InternalError"]
  BY DEF CreateConnection
<1>3. future' \in [Requests -> {"unused", "queued", "created", "InternalError"}]
  BY <1>2 DEF AppTypes
<1>4. recv_connect' \in Seq(Requests)
  BY <1>1 DEF AppTypes
<1>5. QED
  BY <1>1, <1>3, <1>4 DEF AppTypes

LEMMA ReceiveTypes ==
  ASSUME AppTypes, Receive
  PROVE  AppTypes'
<1>1. UNCHANGED <<context, future, data, close_request, recv_connect>>
  BY DEF Receive, loopVars
<1>2. recv_con' = recv_con \/ \E c \in Incoming : recv_con' = Append(recv_con, c)
  BY DEF Receive, AcceptConnection, ConnectionPacket, UnknownPacket
<1>3. recv_con \in Seq(Incoming)
  BY DEF AppTypes
<1>4. recv_con' \in Seq(Incoming)
  BY <1>2, <1>3, AppendType
<1>5. QED
  BY <1>1, <1>4 DEF AppTypes

(* A packet goes to the socket, or stays in the buffer.                    *)
LEMMA SendFacts ==
  ASSUME NEW n, NEW content, NEW error, SendDataInBuffer(n, content, error)
  PROVE  /\ pc' \in {"prepare", "wakeup"} /\ parked' \subseteq parked \cup {"write"}
         /\ \/ /\ not_send_length' = NoPacket /\ pc' = "prepare" /\ writable
               /\ writable' \in BOOLEAN /\ parked' = parked
               /\ \/ failed' = failed \cup {n} /\ wire' = wire
                  \/ /\ wire' = Append(wire, [packet |-> n, content |-> content])
                     /\ failed' = failed
            \/ /\ not_send_length' = n /\ pc' = "wakeup"
               /\ ~writable /\ parked' = parked \cup {"write"}
               /\ UNCHANGED <<writable, wire, failed>>
BY DEF SendDataInBuffer, Park

LEMMA SendKeepsTypes ==
  ASSUME SendTypes, NEW n \in Nat, n # NoPacket, NEW error,
         NEW content \in Packets' \cup {Received},
         SendDataInBuffer(n, content, error),
         prepared' \in 0..MaxPackets, prepared <= prepared', n <= prepared',
         buffer' \in Packets' \cup {Received}
  PROVE  SendTypes'
<1>1. /\ Packets \subseteq Packets' /\ n \in Packets'
  BY ContextInnerAssumptions DEF SendTypes, Packets, NoPacket
<1>2. wire \in Seq([packet : Packets', content : Packets' \cup {Received}])
  <2>1. [packet : Packets, content : Packets \cup {Received}]
          \subseteq [packet : Packets', content : Packets' \cup {Received}]
    BY <1>1
  <2>2. QED
    BY <2>1, SeqMonotonic DEF SendTypes
<1>3. [packet |-> n, content |-> content]
        \in [packet : Packets', content : Packets' \cup {Received}]
  BY <1>1
<1>4. wire' \in Seq([packet : Packets', content : Packets' \cup {Received}])
  <2>1. \/ wire' = wire
        \/ wire' = Append(wire, [packet |-> n, content |-> content])
    BY SendFacts
  <2>2. Append(wire, [packet |-> n, content |-> content])
          \in Seq([packet : Packets', content : Packets' \cup {Received}])
    BY <1>2, <1>3, AppendType, Zenon
  <2>3. QED
    BY <2>1, <2>2, <1>2, Zenon
<1>5. /\ failed' \subseteq Packets'
      /\ not_send_length' \in Packets' \cup {NoPacket}
  <2>1. /\ failed' \subseteq failed \cup {n}
        /\ not_send_length' \in {n, NoPacket}
    BY SendFacts
  <2>2. QED
    BY <2>1, <1>1 DEF SendTypes
<1>8. writable' \in BOOLEAN
  <2>1. writable' \in BOOLEAN \/ writable' = writable
    BY SendFacts
  <2>2. QED
    BY <2>1 DEF SendTypes
<1>6. buffer' # NoPacket
  BY DEF Packets, NoPacket, Received
<1>7. QED
  BY <1>4, <1>5, <1>6, <1>8 DEF SendTypes

(* Every step keeps the types. *)
LEMMA TypeStep == TypeInv /\ [Next]_vars => TypeInv'
<1> SUFFICES ASSUME TypeInv, [Next]_vars PROVE TypeInv'
  OBVIOUS
<1> USE ContextInnerAssumptions
    DEF TypeInv, AppTypes, LoopTypes, RefTypes, QuicTypes, appVars, loopVars,
        sendVars, refVars, socketVars, quicVars
<1>1. ASSUME NEW r \in Requests, NewConnection(r)
      PROVE  TypeInv'
  <2>1. future' \in [Requests -> {"unused", "queued", "created",
                                  "InternalError"}]
    BY <1>1 DEF NewConnection
  <2>2. recv_connect' \in Seq(Requests)
    BY <1>1, RequestTypes
  <2>3. LoopTypes'
    BY <1>1 DEF NewConnection, Notify
  <2>4. QED
    BY <1>1, <2>1, <2>2, <2>3 DEF NewConnection, SendTypes, Packets
<1>2. CASE PollContext
  BY <1>2 DEF PollContext, SendTypes, Packets
<1>3. CASE DropContext
  BY <1>3 DEF DropContext, Notify, SendTypes, Packets
<1>4. ASSUME NEW c \in Cnxs, NEW close \in BOOLEAN, UseConnection(c, close)
      PROVE  TypeInv'
  <2>1. LoopTypes'
    BY <1>4 DEF UseConnection, Notify
  <2>2. data' \subseteq Cnxs /\ close_request' \subseteq Cnxs
    BY <1>4 DEF UseConnection
  <2>3. QED
    BY <1>4, <2>1, <2>2 DEF UseConnection, SendTypes, Packets
<1>5. CASE Arrive
  BY <1>5 DEF Arrive, Notify, SendTypes, Packets
<1>6. CASE SocketDrains
  BY <1>6 DEF SocketDrains, Notify, SendTypes, Packets
<1>7. CASE TimerFires
  BY <1>7 DEF TimerFires, Notify, SendTypes, Packets
<1>8. ASSUME NEW c \in Cnxs, TimePasses(c)
      PROVE  TypeInv'
  BY <1>8 DEF TimePasses, SendTypes, Packets
<1>9. CASE Wake
  <2>1. notified' \in BOOLEAN
    BY <1>9 DEF Wake
  <2>2. loops' \in 0..MaxLoops
    BY <1>9 DEF Wake
  <2>3. QED
    BY <1>9, <2>1, <2>2 DEF Wake, SendTypes, Packets
<1>10. CASE PollContexts
  BY <1>10 DEF PollContexts, Park, Retained, WokenBy, StaleDrops, SendTypes,
     Packets
<1>11. CASE GetCurrentTime
  BY <1>11 DEF GetCurrentTime, SendTypes, Packets
<1>12. CASE ContextDropped
  BY <1>12 DEF ContextDropped, DropInner, CancelRequests, SendTypes, Packets
<1>13. CASE ContextKept
  BY <1>13 DEF ContextKept, Park, SendTypes, Packets
<1>14. ASSUME NEW r \in Requests, NEW result \in CreateResults,
             CreateConnection(r, result)
      PROVE  TypeInv'
  <2>1. AppTypes'
    BY <1>14, CreateTypes
  <2>6. LoopTypes' /\ SendTypes'
    BY <1>14 DEF CreateConnection, SendTypes, Packets
  <2>2. r \in Cnxs
    BY DEF Cnxs
  <2>3. RefTypes'
    BY <1>14, <2>2 DEF CreateConnection
  <2>4. QuicTypes'
    BY <1>14, <2>2 DEF CreateConnection
  <2>5. QED
    BY <2>1, <2>3, <2>4, <2>6
<1>15. CASE CreatePanics
  BY <1>15 DEF CreatePanics, DropInner, CancelRequests, SendTypes, Packets
<1>16. CASE NoMoreRequests
  BY <1>16 DEF NoMoreRequests, Park, SendTypes, Packets
<1>17. CASE Receive
  <2>1. AppTypes'
    BY <1>17, ReceiveTypes
  <2>2. LoopTypes'
    BY <1>17 DEF Receive
  <2>3. SendTypes'
    <3>1. buffer' = Received /\ buffer' # NoPacket
      BY <1>17 DEF Receive, Received, NoPacket
    <3>2. UNCHANGED <<prepared, not_send_length, wire, failed, writable>>
      BY <1>17 DEF Receive
    <3>3. QED
      BY <3>1, <3>2 DEF SendTypes, Packets
  <2>4. RefTypes'
    BY SMTT(30), <1>17 DEF Receive, AcceptConnection, ConnectionPacket, CloseEvent,
       UnknownPacket, Cnxs
  <2>5. QuicTypes'
    BY SMTT(30), <1>17 DEF Receive, AcceptConnection, ConnectionPacket, CloseEvent,
       UnknownPacket, Cnxs
  <2>6. QED
    BY <2>1, <2>2, <2>3, <2>4, <2>5
<1>18. ASSUME NEW error \in BOOLEAN, ReceiveEnd(error)
      PROVE  TypeInv'
  BY <1>18 DEF ReceiveEnd, Park, SendTypes, Packets
<1>19. ASSUME NEW error, SendStateless(error)
      PROVE  TypeInv'
  <2>1. LoopTypes'
    BY <1>19 DEF SendStateless, Park
  <2>2. SendTypes'
    BY <1>19 DEF SendStateless, SendTypes, Packets
  <2>3. QED
    BY <1>19, <2>1, <2>2 DEF SendStateless
<1>20. CASE StatelessEnd
  BY <1>20 DEF StatelessEnd, SendTypes, Packets
<1>21. ASSUME NEW error, SendUnsent(error)
      PROVE  TypeInv'
  <2>1. SendTypes'
    <3>1. /\ not_send_length \in Nat /\ not_send_length # NoPacket
          /\ not_send_length <= prepared
      BY <1>21 DEF SendUnsent, SendTypes, Packets, NoPacket
    <3>2. buffer' = buffer /\ prepared' = prepared
      BY <1>21 DEF SendUnsent
    <3>3. buffer \in Packets' \cup {Received} /\ prepared <= prepared'
      BY <1>21, <3>2 DEF SendUnsent, SendTypes, Packets
    <3>4. SendDataInBuffer(not_send_length, buffer, error)
      BY <1>21 DEF SendUnsent
    <3>5. prepared' \in 0..MaxPackets
      BY <3>2 DEF SendTypes
    <3>6. QED
      BY <3>1, <3>2, <3>3, <3>4, <3>5, SendKeepsTypes
  <2>2. LoopTypes'
    BY <1>21, SendFacts DEF SendUnsent
  <2>3. QED
    BY <1>21, <2>1, <2>2 DEF SendUnsent
<1>22. CASE SkipUnsent
  BY <1>22 DEF SkipUnsent, NothingUnsent, SendTypes, Packets
<1>23. ASSUME NEW c \in Cnxs, DeleteConnection(c)
      PROVE  TypeInv'
  BY <1>23 DEF DeleteConnection, SendTypes, Packets
<1>24. ASSUME NEW c \in Cnxs, PrepareDisconnects(c)
      PROVE  TypeInv'
  BY <1>24 DEF PrepareDisconnects, CloseEvent, SendTypes, Packets
<1>25. ASSUME NEW c \in Cnxs, NEW next \in {"due", "later"}, NEW error,
             PreparePacket(c, next, error)
      PROVE  TypeInv'
  <2>1. SendTypes'
    <3>1. prepared' = prepared + 1 /\ buffer' = prepared'
      BY <1>25 DEF PreparePacket
    <3>2. /\ prepared' \in 0..MaxPackets /\ prepared' \in Nat
          /\ prepared' # NoPacket /\ prepared <= prepared'
          /\ prepared' <= prepared'
      BY <1>25, <3>1 DEF PreparePacket, SendTypes, NoPacket
    <3>3. buffer' \in Packets' \cup {Received}
      BY <3>1, <3>2 DEF Packets, NoPacket
    <3>4. SendDataInBuffer(prepared', prepared', error)
      BY <1>25 DEF PreparePacket
    <3>5. QED
      BY <3>1, <3>2, <3>3, <3>4, SendKeepsTypes
  <2>2. LoopTypes'
    BY <1>25, SendFacts DEF PreparePacket
  <2>3. QED
    BY <1>25, <2>1, <2>2 DEF PreparePacket
<1>26. ASSUME NEW c \in Cnxs, PrepareNothing(c)
      PROVE  TypeInv'
  BY <1>26 DEF PrepareNothing, SendTypes, Packets
<1>27. CASE NobodyDue
  BY <1>27 DEF NobodyDue, SendTypes, Packets
<1>28. CASE GiveUp
  BY <1>28 DEF GiveUp, SendTypes, Packets
<1>29. CASE Again
  BY <1>29 DEF Again, SendTypes, Packets
<1>30. CASE Sleep
  BY <1>30 DEF Sleep, Park, SendTypes, Packets
<1>31. CASE UNCHANGED vars
  BY <1>31 DEF vars, SendTypes, Packets
<1>32. Errors \subseteq BOOLEAN
  BY DEF Errors
<1>33. QED
  BY <1>1, <1>2, <1>3, <1>4, <1>5, <1>6, <1>7, <1>8, <1>9, <1>10, <1>11,
     <1>12, <1>13, <1>14, <1>15, <1>16, <1>17, <1>18, <1>19, <1>20, <1>21,
     <1>22, <1>23, <1>24, <1>25, <1>26, <1>27, <1>28, <1>29, <1>30, <1>31,
     <1>32 DEF Next, Application, Environment, Poll

(* Every variable of the event loop keeps its type; in particular a        *)
(* datagram becomes at most one stateless packet and the buffer is never   *)
(* sent before something was written to it.                                *)
THEOREM LoopTypesHold == Spec => []TypeOK
<1>1. Init => TypeInv
  BY TypeInit
<1>2. TypeInv /\ [Next]_vars => TypeInv'
  BY TypeStep
<1>3. TypeInv => TypeOK
  BY TypeInvOK
<1>4. QED
  BY <1>1, <1>2, <1>3, PTL DEF Spec

------------------------------------------------------------------------------
(* The packets of the connections. *)

(* Which steps touch the packets that were prepared: everything but        *)
(* send_connection_packets leaves them alone, and only the end of its      *)
(* first half leads to prepare_packet.                                     *)
LEMMA PacketSteps ==
  ASSUME [Next]_vars
  PROVE  \/ \E error : SendUnsent(error)
         \/ SkipUnsent
         \/ \E c \in Cnxs : \E next, error : PreparePacket(c, next, error)
         \/ /\ UNCHANGED <<prepared, wire, failed, not_send_length>>
            /\ pc' = "prepare" => pc = "prepare"
<1> DEFINE Others == /\ UNCHANGED <<prepared, wire, failed, not_send_length>>
                     /\ pc' = "prepare" => pc = "prepare"
<1>1. CASE Application
  BY <1>1 DEF Application, NewConnection, PollContext, DropContext,
     UseConnection, sendVars
<1>2. CASE Environment
  BY <1>2 DEF Environment, Arrive, SocketDrains, TimerFires, TimePasses,
     sendVars
<1>3. CASE Wake
  BY <1>3 DEF Wake, sendVars
<1>4. CASE Poll
  <2>1. CASE PollContexts \/ GetCurrentTime \/ ContextDropped \/ ContextKept
    BY <2>1 DEF PollContexts, GetCurrentTime, ContextDropped, ContextKept,
       DropInner, sendVars
  <2>2. ASSUME NEW r, NEW result, CreateConnection(r, result)
        PROVE  Others
    BY <2>2 DEF CreateConnection, sendVars
  <2>3. CASE CreatePanics \/ NoMoreRequests \/ Receive
    BY <2>3 DEF CreatePanics, DropInner, NoMoreRequests, Receive, sendVars
  <2>4. ASSUME NEW error, ReceiveEnd(error) \/ SendStateless(error)
        PROVE  Others
    BY <2>4 DEF ReceiveEnd, SendStateless, sendVars
  <2>5. ASSUME NEW c, DeleteConnection(c) \/ PrepareDisconnects(c)
                        \/ PrepareNothing(c)
        PROVE  Others
    BY <2>5 DEF DeleteConnection, PrepareDisconnects, PrepareNothing, sendVars
  <2>6. CASE StatelessEnd \/ NobodyDue \/ GiveUp \/ Again \/ Sleep
    BY <2>6 DEF StatelessEnd, NobodyDue, GiveUp, Again, Sleep, sendVars
  <2>7. QED
    BY <1>4, <2>1, <2>2, <2>3, <2>4, <2>5, <2>6 DEF Poll
<1>5. CASE UNCHANGED vars
  BY <1>5 DEF vars, sendVars
<1>6. QED
  BY <1>1, <1>2, <1>3, <1>4, <1>5 DEF Next

(* A packet is prepared only when none is left from before, and one that   *)
(* is left is younger than all that went out.                              *)
PacketInv ==
  /\ NoPacketForgotten
  /\ pc = "prepare" => not_send_length = NoPacket
  /\ not_send_length # NoPacket =>
       \A i \in DOMAIN wire : wire[i].packet < not_send_length

Sent == {wire[i].packet : i \in DOMAIN wire}

LEMMA PacketInit == Init => PacketInv
BY DEF Init, PacketInv, NoPacketForgotten, Packets, NoPacket

(* The socket takes or refuses packet n, the youngest that there is and    *)
(* the only one without a fate.                                            *)
LEMMA PacketSent ==
  ASSUME NEW n \in Nat, n # NoPacket, NEW content, NEW error,
         TypeInv, SendDataInBuffer(n, content, error),
         prepared' = n,
         Sent \cup failed \cup {n} = 1..n,
         \A i, j \in DOMAIN wire : i < j => wire[i].packet < wire[j].packet,
         \A i \in DOMAIN wire : wire[i].packet < n
  PROVE  PacketInv'
<1> DEFINE p == [packet |-> n, content |-> content]
<1>1. wire \in Seq([packet : Packets, content : Packets \cup {Received}])
  BY DEF TypeInv, SendTypes
<1>2. CASE not_send_length' = NoPacket /\ wire' = Append(wire, p)
           /\ failed' = failed
  <2>1. /\ DOMAIN wire' = DOMAIN wire \cup {Len(wire) + 1}
        /\ \A i \in DOMAIN wire : wire'[i] = wire[i] /\ i < Len(wire) + 1
        /\ wire'[Len(wire) + 1] = p /\ Len(wire) + 1 \notin DOMAIN wire
    BY <1>1, <1>2
  <2>2. Sent' = Sent \cup {n}
    BY <2>1 DEF Sent
  <2>3. \A i, j \in DOMAIN wire' : i < j => wire'[i].packet < wire'[j].packet
    <3>1. DOMAIN wire \subseteq Nat /\ Len(wire) \in Nat
      BY <1>1
    <3>2. QED
      BY <2>1, <3>1
  <2>4. QED
    BY <1>2, <2>2, <2>3 DEF PacketInv, NoPacketForgotten, Sent, Packets
<1>3. CASE not_send_length' = NoPacket /\ wire' = wire
           /\ failed' = failed \cup {n}
  BY <1>3 DEF PacketInv, NoPacketForgotten, Sent, Packets
<1>4. CASE not_send_length' = n /\ pc' = "wakeup" /\ wire' = wire
           /\ failed' = failed
  BY <1>4 DEF PacketInv, NoPacketForgotten, Sent, Packets
<1>5. QED
  BY <1>2, <1>3, <1>4, SendFacts

LEMMA PacketStep == TypeInv /\ PacketInv /\ [Next]_vars => PacketInv'
<1> SUFFICES ASSUME TypeInv, PacketInv, [Next]_vars PROVE PacketInv'
  OBVIOUS
<1>1. ASSUME NEW error, SendUnsent(error)
      PROVE  PacketInv'
  <2>1. /\ not_send_length \in Nat /\ not_send_length # NoPacket
        /\ not_send_length = prepared /\ prepared' = prepared
    BY <1>1 DEF SendUnsent, TypeInv, SendTypes, Packets, NoPacket, PacketInv,
       NoPacketForgotten
  <2>2. /\ Sent \cup failed \cup {not_send_length} = 1..not_send_length
        /\ \A i \in DOMAIN wire : wire[i].packet < not_send_length
        /\ \A i, j \in DOMAIN wire :
             i < j => wire[i].packet < wire[j].packet
    BY <2>1 DEF PacketInv, NoPacketForgotten, Sent, Packets
  <2>3. SendDataInBuffer(not_send_length, buffer, error)
    BY <1>1 DEF SendUnsent
  <2>4. QED
    BY <2>1, <2>2, <2>3, PacketSent
<1>2. ASSUME NEW c \in Cnxs, NEW next, NEW error,
             PreparePacket(c, next, error)
      PROVE  PacketInv'
  <2>1. /\ prepared \in Nat /\ prepared' = prepared + 1
        /\ not_send_length = NoPacket
    BY <1>2 DEF PreparePacket, TypeInv, SendTypes, PacketInv
  <2>2. Sent \cup failed = 1..prepared
    BY <2>1 DEF PacketInv, NoPacketForgotten, Sent, Packets
  <2>3. \A i \in DOMAIN wire : wire[i].packet < prepared'
    <3>1. \A i \in DOMAIN wire : wire[i].packet \in 1..prepared
      BY <2>2 DEF Sent
    <3>2. QED
      BY <3>1, <2>1
  <2>4. Sent \cup failed \cup {prepared'} = 1..prepared'
    <3>1. 1..prepared' = (1..prepared) \cup {prepared'}
      BY <2>1
    <3>2. QED
      BY <3>1, <2>2
  <2>5. SendDataInBuffer(prepared', prepared', error)
    BY <1>2 DEF PreparePacket
  <2>6. \A i, j \in DOMAIN wire : i < j => wire[i].packet < wire[j].packet
    BY DEF PacketInv, NoPacketForgotten
  <2>7. prepared' \in Nat /\ prepared' # NoPacket
    BY <2>1 DEF NoPacket
  <2>8. QED
    BY <2>3, <2>4, <2>5, <2>6, <2>7, PacketSent
<1>3. CASE SkipUnsent
  BY <1>3 DEF SkipUnsent, NothingUnsent, sendVars, PacketInv,
     NoPacketForgotten, Packets
<1>4. CASE /\ UNCHANGED <<prepared, wire, failed, not_send_length>>
           /\ pc' = "prepare" => pc = "prepare"
  BY <1>4 DEF PacketInv, NoPacketForgotten, Packets
<1>5. QED
  BY <1>1, <1>2, <1>3, <1>4, PacketSteps

(* Every packet that prepare_packet wrote to the buffer has one fate: the  *)
(* socket took it, once and in order, or failed on it, or it is still the  *)
(* one of not_send_length; it is never overwritten by a younger one.       *)
THEOREM NoPacketIsForgotten == Spec => []NoPacketForgotten
<1>1. Init => TypeInv /\ PacketInv
  BY TypeInit, PacketInit
<1>2. (TypeInv /\ PacketInv) /\ [Next]_vars => (TypeInv /\ PacketInv)'
  BY TypeStep, PacketStep
<1>3. PacketInv => NoPacketForgotten
  BY DEF PacketInv
<1>4. QED
  BY <1>1, <1>2, <1>3, PTL DEF Spec

------------------------------------------------------------------------------
(* The connections' Contexts. *)

(* While the loop runs, picoquic has a reference to every Context that is  *)
(* not closed, and an open connection for it.                              *)
LiveInv ==
  ~Ended => \A c \in listed \ closed : cnx[c] = "open" /\ c \in raw

LEMMA LiveInit == Init => LiveInv
BY DEF Init, LiveInv

LEMMA CloseEventFacts ==
  ASSUME NEW c, CloseEvent(c)
  PROVE  /\ listed' = listed /\ raw' = raw \ {c}
         /\ closed \subseteq closed'
         /\ c \in raw => c \in closed'
BY DEF CloseEvent

LEMMA LiveStep == TypeInv /\ LiveInv /\ [Next]_vars => LiveInv'
<1> SUFFICES ASSUME TypeInv, LiveInv, [Next]_vars, ~Ended' PROVE LiveInv'
  BY DEF LiveInv
<1> USE DEF LiveInv, Ended
<1> DEFINE Others == UNCHANGED <<listed, raw, closed, cnx>>
<1>1. CASE Application
  <2>1. Others /\ pc' = pc
    BY <1>1 DEF Application, NewConnection, PollContext, DropContext,
       UseConnection, refVars, quicVars
  <2>2. QED
    BY <2>1
<1>2. CASE Environment
  <2>1. Others /\ pc' = pc
    BY <1>2 DEF Environment, Arrive, SocketDrains, TimerFires, TimePasses,
       refVars, quicVars
  <2>2. QED
    BY <2>1
<1>3. CASE Wake
  BY <1>3 DEF Wake, refVars, quicVars
<1>4. CASE Poll
  <2>1. CASE PollContexts
    BY <2>1 DEF PollContexts, Retained
  <2>2. CASE GetCurrentTime \/ ContextKept \/ NoMoreRequests \/ StatelessEnd
             \/ SkipUnsent \/ NobodyDue \/ GiveUp \/ Again \/ Sleep
    <3>1. Others /\ ~Ended
      BY <2>2 DEF GetCurrentTime, ContextKept, NoMoreRequests, StatelessEnd,
         SkipUnsent, NothingUnsent, NobodyDue, GiveUp, Again, Sleep, refVars,
         quicVars
    <3>2. QED
      BY <3>1
  <2>3. CASE ContextDropped \/ CreatePanics
    BY <2>3 DEF ContextDropped, CreatePanics
  <2>4. ASSUME NEW r \in Requests, NEW result, CreateConnection(r, result)
        PROVE  LiveInv'
    <3>1. ~Ended /\ r \in Cnxs /\ closed' = closed
      BY <2>4 DEF CreateConnection, Cnxs
    <3>2. CASE result = "Ok"
      <4>1. /\ listed' = listed \cup {r} /\ raw' = raw \cup {r}
            /\ cnx' = [cnx EXCEPT ![r] = "open"]
        BY <2>4, <3>2 DEF CreateConnection
      <4>2. QED
        BY <3>1, <4>1 DEF TypeInv, QuicTypes, RefTypes
    <3>3. CASE result # "Ok"
      BY <2>4, <3>1, <3>3 DEF CreateConnection
    <3>4. QED
      BY <3>2, <3>3
  <2>5. CASE Receive
    <3>1. ~Ended /\ ~Ended'
      BY <2>5 DEF Receive
    <3>2. ASSUME NEW c \in Incoming, NEW b \in BOOLEAN, AcceptConnection(c, b)
          PROVE  LiveInv'
      BY <3>1, <3>2 DEF AcceptConnection, TypeInv, QuicTypes, Cnxs
    <3>3. ASSUME NEW c \in Cnxs, NEW state, ConnectionPacket(c, state)
          PROVE  LiveInv'
      <4>1. CASE state = "answer"
        BY <3>1, <3>3, <4>1 DEF ConnectionPacket, refVars
      <4>2. CASE state # "answer"
        <5>1. CloseEvent(c) /\ cnx' = [cnx EXCEPT ![c] = state]
          BY <3>3, <4>2 DEF ConnectionPacket
        <5>2. QED
          BY <3>1, <5>1, CloseEventFacts DEF TypeInv, QuicTypes, RefTypes
      <4>3. QED
        BY <4>1, <4>2
    <3>4. CASE UnknownPacket
      BY <3>1, <3>4 DEF UnknownPacket, refVars
    <3>5. QED
      BY <2>5, <3>2, <3>3, <3>4 DEF Receive
  <2>6. ASSUME NEW error, ReceiveEnd(error) \/ SendStateless(error)
                            \/ SendUnsent(error)
        PROVE  LiveInv'
    <3>1. Others /\ ~Ended
      BY <2>6 DEF ReceiveEnd, SendStateless, SendUnsent, refVars, quicVars
    <3>2. QED
      BY <3>1
  <2>7. ASSUME NEW c \in Cnxs, DeleteConnection(c)
        PROVE  LiveInv'
    BY <2>7 DEF DeleteConnection, refVars, TypeInv, QuicTypes
  <2>8. ASSUME NEW c \in Cnxs, PrepareDisconnects(c)
        PROVE  LiveInv'
    BY <2>8, CloseEventFacts DEF PrepareDisconnects, TypeInv, QuicTypes
  <2>9. ASSUME NEW c \in Cnxs, NEW next, NEW error,
               PreparePacket(c, next, error) \/ PrepareNothing(c)
        PROVE  LiveInv'
    BY <2>9 DEF PreparePacket, PrepareNothing, refVars
  <2>10. QED
    BY <1>4, <2>1, <2>2, <2>3, <2>4, <2>5, <2>6, <2>7, <2>8, <2>9 DEF Poll
<1>5. CASE UNCHANGED vars
  BY <1>5 DEF vars, refVars, quicVars
<1>6. QED
  BY <1>1, <1>2, <1>3, <1>4, <1>5 DEF Next

(* CContext::poll never polls a Context whose cnx picoquic has deleted:    *)
(* the close event of a connection always comes before its deletion.       *)
THEOREM OnlyLiveConnectionsArePolled == Spec => []PollsLiveConnections
<1>1. Init => TypeInv /\ LiveInv
  BY TypeInit, LiveInit
<1>2. (TypeInv /\ LiveInv) /\ [Next]_vars => (TypeInv /\ LiveInv)'
  BY TypeStep, LiveStep
<1>3. LiveInv => PollsLiveConnections
  BY DEF LiveInv, PollsLiveConnections
<1>4. QED
  BY <1>1, <1>2, <1>3, PTL DEF Spec

------------------------------------------------------------------------------
(* The task does not sleep through work. *)

(* Each source of work is looked at in one phase of a turn.  From the end  *)
(* of that phase until the next turn, unless the task was notified, there  *)
(* is no such work and the task is registered with its source.             *)
FromUnsent    == {"unsent", "prepare", "wakeup", "sleep"}
FromStateless == {"stateless"} \cup FromUnsent
FromReceive   == {"receive"} \cup FromStateless
FromConnect   == {"connect"} \cup FromReceive
FromTime      == {"time", "dropped"} \cup FromConnect

AwaitsContexts ==
  (pc \in FromTime /\ ~notified) =>
    "contexts" \in parked /\ data \cup (close_request \ unpolled) = {}

AwaitsClose ==
  (pc \in FromConnect /\ ~notified) => "close" \in parked /\ context = "held"

AwaitsRequests ==
  (pc \in FromReceive /\ ~notified) =>
    "connect" \in parked /\ recv_connect = <<>>

AwaitsDatagrams ==
  (pc \in FromStateless /\ ~notified /\ ~io_error) =>
    "read" \in parked /\ arrived = 0

(* What the socket refused waits for the socket. *)
AwaitsStateless ==
  (pc \in FromUnsent /\ ~notified /\ ~io_error /\ stateless > 0) =>
    "write" \in parked /\ ~writable

AwaitsUnsent ==
  (pc \in {"wakeup", "sleep"} /\ ~notified /\ not_send_length # NoPacket) =>
    "write" \in parked /\ ~writable

AwaitsTimer ==
  (pc = "sleep" /\ ~notified) => "timer" \in parked /\ ~WakeInstantly

WakeInv ==
  /\ AwaitsContexts /\ AwaitsClose /\ AwaitsRequests /\ AwaitsDatagrams
  /\ AwaitsStateless /\ AwaitsUnsent /\ AwaitsTimer

LEMMA WakeInit == Init => WakeInv
BY DEF Init, WakeInv, AwaitsContexts, AwaitsClose, AwaitsRequests,
   AwaitsDatagrams, AwaitsStateless, AwaitsUnsent, AwaitsTimer

LEMMA WakeStep == TypeInv /\ PacketInv /\ WakeInv /\ [Next]_vars => WakeInv'
<1> SUFFICES ASSUME TypeInv, PacketInv, WakeInv, [Next]_vars PROVE WakeInv'
  OBVIOUS
<1> USE DEF WakeInv, AwaitsContexts, AwaitsClose, AwaitsRequests,
        AwaitsDatagrams, AwaitsStateless, AwaitsUnsent, AwaitsTimer,
        WakeInstantly, FromTime, FromConnect, FromReceive, FromStateless,
        FromUnsent, appVars, loopVars, sendVars, refVars, socketVars, quicVars
<1>1. ASSUME NEW r \in Requests, NewConnection(r)
      PROVE  WakeInv'
  BY <1>1 DEF NewConnection, Notify
<1>2. CASE PollContext
  BY <1>2 DEF PollContext
<1>3. CASE DropContext
  BY <1>3 DEF DropContext, Notify
<1>4. ASSUME NEW c \in Cnxs, NEW close \in BOOLEAN, UseConnection(c, close)
      PROVE  WakeInv'
  BY <1>4 DEF UseConnection, Notify
<1>5. CASE Arrive
  BY <1>5 DEF Arrive, Notify
<1>6. CASE SocketDrains
  BY <1>6 DEF SocketDrains, Notify
<1>7. CASE TimerFires
  BY <1>7 DEF TimerFires, Notify
<1>8. ASSUME NEW c \in Cnxs, TimePasses(c)
      PROVE  WakeInv'
  BY <1>8 DEF TimePasses, TypeInv, QuicTypes
<1>9. CASE Wake
  BY <1>9 DEF Wake
<1>10. CASE PollContexts
  BY <1>10 DEF PollContexts, Park, Retained, WokenBy, StaleDrops
<1>11. CASE GetCurrentTime
  BY <1>11 DEF GetCurrentTime
<1>12. CASE ContextDropped
  BY <1>12 DEF ContextDropped, DropInner, CancelRequests
<1>13. CASE ContextKept
  BY <1>13 DEF ContextKept, Park
<1>14. ASSUME NEW r \in Requests, NEW result \in CreateResults,
             CreateConnection(r, result)
      PROVE  WakeInv'
  BY <1>14 DEF CreateConnection
<1>15. CASE CreatePanics
  BY <1>15 DEF CreatePanics, DropInner, CancelRequests
<1>16. CASE NoMoreRequests
  BY <1>16 DEF NoMoreRequests, Park
<1>17. CASE Receive
  BY <1>17 DEF Receive, AcceptConnection, ConnectionPacket, CloseEvent,
     UnknownPacket, Cnxs
<1>18. ASSUME NEW error \in Errors, ReceiveEnd(error)
      PROVE  WakeInv'
  BY <1>18 DEF ReceiveEnd, Park, Errors
<1>19. ASSUME NEW error \in Errors, SendStateless(error)
      PROVE  WakeInv'
  <2>1. CASE writable
    <3>1. ~io_error' => ~error /\ ~io_error
      BY <1>19, <2>1 DEF SendStateless
    <3>2. QED
      BY <1>19, <2>1, <3>1 DEF SendStateless
  <2>2. CASE ~writable
    <3>1. ~io_error' => ~io_error
      BY <1>19 DEF SendStateless
    <3>2. QED
      BY <1>19, <2>2, <3>1 DEF SendStateless, Park
  <2>3. QED
    BY <2>1, <2>2
<1>20. CASE StatelessEnd
  BY <1>20 DEF StatelessEnd
<1>21. ASSUME NEW error \in Errors, SendUnsent(error)
      PROVE  WakeInv'
  BY <1>21 DEF SendUnsent, SendDataInBuffer, Park
<1>22. CASE SkipUnsent
  BY <1>22 DEF SkipUnsent, NothingUnsent
<1>23. ASSUME NEW c \in Cnxs, DeleteConnection(c)
      PROVE  WakeInv'
  BY <1>23 DEF DeleteConnection, PacketInv
<1>24. ASSUME NEW c \in Cnxs, PrepareDisconnects(c)
      PROVE  WakeInv'
  BY <1>24 DEF PrepareDisconnects, CloseEvent
<1>25. ASSUME NEW c \in Cnxs, NEW next \in {"due", "later"}, NEW error \in Errors,
             PreparePacket(c, next, error)
      PROVE  WakeInv'
  BY <1>25 DEF PreparePacket, SendDataInBuffer, Park, PacketInv
<1>26. ASSUME NEW c \in Cnxs, PrepareNothing(c)
      PROVE  WakeInv'
  BY <1>26 DEF PrepareNothing
<1>27. CASE NobodyDue
  BY <1>27 DEF NobodyDue, PacketInv
<1>28. CASE GiveUp
  BY <1>28 DEF GiveUp
<1>29. CASE Again
  BY <1>29 DEF Again
<1>30. CASE Sleep
  BY <1>30 DEF Sleep, Park
<1>31. CASE UNCHANGED vars
  BY <1>31 DEF vars
<1>32. QED
  BY <1>1, <1>2, <1>3, <1>4, <1>5, <1>6, <1>7, <1>8, <1>9, <1>10, <1>11,
     <1>12, <1>13, <1>14, <1>15, <1>16, <1>17, <1>18, <1>19, <1>20, <1>21,
     <1>22, <1>23, <1>24, <1>25, <1>26, <1>27, <1>28, <1>29, <1>30, <1>31 DEF
     Next, Application, Environment, Poll

(* The task never sleeps, without having been notified, on anything that   *)
(* it could do: every source of work is looked at in each turn, and the    *)
(* task registers with it before it goes on.  The close of a connection    *)
(* that came after CContext::poll of the turn is excepted: its close_recv  *)
(* was not polled yet.                                                     *)
THEOREM NothingIsUnattended == Spec => []NothingUnattended
<1> DEFINE Inv == TypeInv /\ PacketInv /\ WakeInv
<1>1. Init => Inv
  BY TypeInit, PacketInit, WakeInit
<1>2. Inv /\ [Next]_vars => Inv'
  BY TypeStep, PacketStep, WakeStep
<1>3. Inv => NothingUnattended
  BY DEF WakeInv, AwaitsContexts, AwaitsClose, AwaitsRequests,
     AwaitsDatagrams, AwaitsStateless, AwaitsUnsent, AwaitsTimer, FromTime,
     FromConnect, FromReceive, FromStateless, FromUnsent, NothingUnattended
<1> HIDE DEF Inv
<1>4. QED
  BY <1>1, <1>2, <1>3, PTL DEF Spec

------------------------------------------------------------------------------
(* Data goes out in the turn that passes it on. *)

(* A connection that was given data is due as soon as the turn has read    *)
(* the time, and stays so until picoquic is asked for its packet.          *)
HandedInv ==
  \A c \in handed : wake[c] = "due" \/ (wake[c] = "fresh" /\ pc = "time")

LEMMA HandedInit == Init => HandedInv
BY DEF Init, HandedInv

LEMMA HandedStep == TypeInv /\ HandedInv /\ [Next]_vars => HandedInv'
<1> SUFFICES ASSUME TypeInv, HandedInv, [Next]_vars PROVE HandedInv'
  OBVIOUS
<1> USE DEF HandedInv, TypeInv, RefTypes, QuicTypes
<1>1. CASE Application
  <2>1. UNCHANGED <<wake, handed, pc>>
    BY <1>1 DEF Application, NewConnection, PollContext, DropContext,
       UseConnection, quicVars
  <2>2. QED
    BY <2>1
<1>2. CASE Environment
  <2>1. UNCHANGED <<handed, pc>>
    BY <1>2 DEF Environment, Arrive, SocketDrains, TimerFires, TimePasses
  <2>2. \A c \in handed : wake'[c] = wake[c]
    BY <1>2 DEF Environment, Arrive, SocketDrains, TimerFires, TimePasses,
       quicVars
  <2>3. QED
    BY <2>1, <2>2
<1>3. CASE Wake
  BY <1>3 DEF Wake, quicVars
<1>4. CASE Poll
  <2>1. CASE PollContexts
    <3>1. /\ pc' = "time" /\ wake' = WokenBy((data \cup close_request) \cap Retained)
          /\ handed' = handed \cup (data \cap Retained)
      BY <2>1 DEF PollContexts
    <3>2. Retained \subseteq Cnxs
      BY DEF Retained
    <3>3. QED
      BY <3>1, <3>2 DEF WokenBy
  <2>2. CASE GetCurrentTime
    BY <2>2 DEF GetCurrentTime
  <2>3. CASE ContextDropped \/ CreatePanics \/ ContextKept \/ NoMoreRequests
             \/ StatelessEnd \/ SkipUnsent \/ NobodyDue \/ GiveUp \/ Again
             \/ Sleep
    <3>1. UNCHANGED <<wake, handed>> /\ pc # "time"
      BY <2>3 DEF ContextDropped, CreatePanics, DropInner, ContextKept,
         NoMoreRequests, StatelessEnd, SkipUnsent, NothingUnsent, NobodyDue,
         GiveUp, Again, Sleep, quicVars
    <3>2. QED
      BY <3>1
  <2>4. ASSUME NEW r \in Requests, NEW result, CreateConnection(r, result)
        PROVE  HandedInv'
    BY <2>4 DEF CreateConnection, Cnxs
  <2>5. CASE Receive
    <3>1. UNCHANGED <<handed, pc>>
      BY <2>5 DEF Receive
    <3>2. \A c \in handed : wake'[c] = wake[c] \/ wake'[c] = "due"
      BY <2>5 DEF Receive, AcceptConnection, ConnectionPacket, UnknownPacket,
         Cnxs
    <3>3. QED
      BY <3>1, <3>2
  <2>6. ASSUME NEW error, ReceiveEnd(error) \/ SendStateless(error)
                            \/ SendUnsent(error)
        PROVE  HandedInv'
    <3>1. UNCHANGED <<wake, handed>> /\ pc # "time"
      BY <2>6 DEF ReceiveEnd, SendStateless, SendUnsent, quicVars
    <3>2. QED
      BY <3>1
  <2>7. ASSUME NEW c \in Cnxs, NEW next, NEW error,
               \/ DeleteConnection(c) \/ PrepareDisconnects(c)
               \/ PrepareNothing(c) \/ PreparePacket(c, next, error)
        PROVE  HandedInv'
    <3>1. /\ pc # "time" /\ handed' = handed \ {c}
          /\ \A d \in Cnxs \ {c} : wake'[d] = wake[d]
      BY <2>7 DEF DeleteConnection, PrepareDisconnects, PrepareNothing,
         PreparePacket
    <3>2. QED
      BY <3>1
  <2>8. QED
    BY <1>4, <2>1, <2>2, <2>3, <2>4, <2>5, <2>6, <2>7 DEF Poll
<1>5. CASE UNCHANGED vars
  BY <1>5 DEF vars, quicVars
<1>6. QED
  BY <1>1, <1>2, <1>3, <1>4, <1>5 DEF Next

(* How the loop over the connections can end. *)
LEMMA EndOfPrepare ==
  ASSUME TypeInv, [Next]_vars, pc = "prepare", pc' = "wakeup"
  PROVE  \/ NobodyDue
         \/ \E c \in Cnxs : DeleteConnection(c)
         \/ \E c \in Cnxs : \E next, error : PreparePacket(c, next, error)
<1>1. ~Application /\ ~Environment /\ ~Wake
  BY DEF Application, NewConnection, PollContext, DropContext, UseConnection,
     Environment, Arrive, SocketDrains, TimerFires, TimePasses, Wake
<1>2. pc' # pc /\ ~UNCHANGED vars
  BY DEF vars
<1>3. CASE Poll
  BY <1>3, <1>2 DEF Poll, PollContexts, GetCurrentTime, ContextDropped,
     ContextKept, CreateConnection, CreatePanics, NoMoreRequests, Receive,
     ReceiveEnd, SendStateless, StatelessEnd, SendUnsent, SkipUnsent,
     NothingUnsent, PrepareDisconnects, PrepareNothing, GiveUp, Again, Sleep
<1>4. QED
  BY <1>1, <1>2, <1>3 DEF Next

(* When the loop over the connections ends, and neither a refused packet   *)
(* nor a deleted connection ended it, picoquic was asked for a packet of   *)
(* every connection that was given data: the time is read after the        *)
(* Contexts are polled.                                                    *)
THEOREM DataLeavesInItsTurn == Spec => DataGoesOutThisLoop
<1> DEFINE A == (pc = "prepare" /\ pc' = "wakeup"
                 /\ not_send_length' = NoPacket /\ cnx' = cnx) => handed' = {}
<1>1. Init => TypeInv /\ HandedInv
  BY TypeInit, HandedInit
<1>2. (TypeInv /\ HandedInv) /\ [Next]_vars => (TypeInv /\ HandedInv)'
  BY TypeStep, HandedStep
<1>3. TypeInv /\ HandedInv /\ [Next]_vars => [A]_vars
  <2> SUFFICES ASSUME TypeInv, HandedInv, [Next]_vars,
                      pc = "prepare", pc' = "wakeup",
                      not_send_length' = NoPacket, cnx' = cnx
               PROVE  handed' = {}
    OBVIOUS
  <2>1. CASE NobodyDue
    BY <2>1 DEF NobodyDue, HandedInv, TypeInv, RefTypes
  <2>2. ASSUME NEW c \in Cnxs, DeleteConnection(c)
        PROVE  FALSE
    <3>1. cnx'[c] = "freed" /\ cnx[c] = "disconnected"
      BY <2>2 DEF DeleteConnection, TypeInv, QuicTypes
    <3>2. QED
      BY <3>1
  <2>3. ASSUME NEW c \in Cnxs, NEW next, NEW error,
               PreparePacket(c, next, error)
        PROVE  FALSE
    <3>1. not_send_length' = prepared + 1
      BY <2>3, SendFacts DEF PreparePacket
    <3>2. QED
      BY <3>1 DEF TypeInv, SendTypes, NoPacket
  <2>4. QED
    BY <2>1, <2>2, <2>3, EndOfPrepare
<1>4. QED
  BY <1>1, <1>2, <1>3, PTL DEF Spec, DataGoesOutThisLoop
==============================================================================
