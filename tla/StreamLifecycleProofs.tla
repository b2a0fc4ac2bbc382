------------------------ MODULE StreamLifecycleProofs ------------------------
(***************************************************************************)
(* Proofs about how a stream ends: what picoquic is told about its         *)
(* receiving side, when the connection forgets it, and that its sender     *)
(* learns why the connection failed.                                       *)
(***************************************************************************)
EXTENDS StreamProofs

(* The flags of Context and what has happened.  StopSending and the        *)
(* removal of the stream both rest on fin_received_or_recv_msg_dropped     *)
(* saying neither less nor more than it is named for.                      *)
ReceivingOver ==
  peer_done \/ handle # "alive" \/ NeverReceives(id, is_client_con)

SendingOver ==
  \/ fin_sent \/ reset_called \/ peer_stop
  \/ ~HasSendChannel(id, is_client_con)

Told ==
  \/ peer_done \/ NeverReceives(id, is_client_con)
  \/ stop_sending_calls = 1

FlagInv ==
  /\ stop_sending_calls # 0 => fin_received_or_recv_msg_dropped
  /\ peer_done => fin_received_or_recv_msg_dropped
  /\ NeverReceives(id, is_client_con) => fin_received_or_recv_msg_dropped
  /\ fin_received_or_recv_msg_dropped => ReceivingOver
  /\ fin_received_or_recv_msg_dropped => Told
  /\ stop_sending_or_fin_sent => SendingOver
  /\ (pc = "gone" /\ conn = "open") => BothFinished

LEMMA FlagInit == Init => FlagInv
<1> SUFFICES ASSUME Init PROVE FlagInv
  OBVIOUS
<1>1. /\ stop_sending_calls = 0 /\ ~peer_done /\ pc = "idle"
      /\ stop_sending_or_fin_sent = ~HasSendChannel(id, is_client_con)
      /\ fin_received_or_recv_msg_dropped = NeverReceives(id, is_client_con)
  BY DEF Init, ContextNew
<1>2. QED
  BY <1>1 DEF FlagInv, ReceivingOver, SendingOver, Told

(* recv_message_dropped is called when the handle is going. *)
LEMMA FlagRecvDropped ==
  ASSUME FlagInv,
         \/ RecvMessageDropped(handle # "alive")
         \/ RecvMessageDropped(handle \in {"control_dropped", "dropped"})
  PROVE  /\ fin_received_or_recv_msg_dropped =>
              fin_received_or_recv_msg_dropped'
         /\ stop_sending_calls' # 0 => fin_received_or_recv_msg_dropped'
         /\ fin_received_or_recv_msg_dropped' => ReceivingOver
         /\ stop_sending_calls' # stop_sending_calls =>
              /\ stop_sending_calls = 0 /\ stop_sending_calls' = 1
              /\ handle # "alive" /\ ~peer_done
              /\ ~NeverReceives(id, is_client_con)
         /\ fin_received_or_recv_msg_dropped' =>
              \/ peer_done \/ NeverReceives(id, is_client_con)
              \/ stop_sending_calls' = 1
<1>1. \/ /\ fin_received_or_recv_msg_dropped' <=>
              fin_received_or_recv_msg_dropped
         /\ stop_sending_calls' = stop_sending_calls
      \/ /\ handle # "alive" /\ ~fin_received_or_recv_msg_dropped
         /\ fin_received_or_recv_msg_dropped'
         /\ \/ NeverReceives(id, is_client_con)
            \/ stop_sending_calls' = stop_sending_calls + 1
  <2>1. "alive" \notin {"control_dropped", "dropped"}
    OBVIOUS
  <2>2. QED
    BY <2>1, Zenon DEF RecvMessageDropped
<1>2. CASE /\ fin_received_or_recv_msg_dropped' <=>
                fin_received_or_recv_msg_dropped
           /\ stop_sending_calls' = stop_sending_calls
  BY <1>2 DEF FlagInv, ReceivingOver, Told
<1>3. CASE /\ handle # "alive" /\ ~fin_received_or_recv_msg_dropped
           /\ fin_received_or_recv_msg_dropped'
           /\ \/ NeverReceives(id, is_client_con)
              \/ stop_sending_calls' = stop_sending_calls + 1
  <2>1. /\ stop_sending_calls = 0 /\ ~peer_done
        /\ ~NeverReceives(id, is_client_con)
    BY <1>3 DEF FlagInv
  <2>2. stop_sending_calls' = 1
    BY <1>3, <2>1
  <2>3. QED
    BY <1>3, <2>1, <2>2 DEF ReceivingOver
<1>4. QED
  BY <1>1, <1>2, <1>3

LEMMA FlagStep == TypeInv /\ FlagInv /\ [Next]_vars => FlagInv'
<1> SUFFICES ASSUME TypeInv, FlagInv, [Next]_vars PROVE FlagInv'
  OBVIOUS
<1> USE DEF constantVars, handleVars, chanVars, msgVars, dataVars, flagVars,
            localVars, quicVars, peerVars
<1>h. ASSUME UNCHANGED <<id, is_client_con, flagVars, quicVars, peerVars>>,
             pc' = "gone" => pc = "gone" \/ conn # "open" \/ BothFinished,
             handle' = "alive" => handle = "alive"
      PROVE  FlagInv'
  BY <1>h DEF FlagInv, ReceivingOver, SendingOver, Told, BothFinished
<1>1. CASE App
  <2>1. /\ UNCHANGED <<id, is_client_con, flagVars, quicVars, peerVars, pc>>
        /\ handle' = "alive" => handle = "alive"
    BY <1>1 DEF App, StartSend, SetSendChannelSize, Reset, PollRecv, DropStream
  <2>2. QED
    BY <1>h, <2>1
<1>2. CASE Poll
  <2>1. CASE PollStart \/ PollSendDataIdle \/ PollNotReady
    BY <1>h, <2>1 DEF PollStart, PollSendDataIdle, PollNotReady
  <2>2. CASE PollControlReset
    BY <2>2 DEF PollControlReset, ContextReset, FlagInv, ReceivingOver,
       SendingOver, Told
  <2>3. CASE PollControlSwap
    BY <1>h, <2>3 DEF PollControlSwap
  <2>4. CASE PollControlEnd
    <3>1. RecvMessageDropped(handle \in {"control_dropped", "dropped"})
      BY <2>4 DEF PollControlEnd
    <3>2. UNCHANGED <<id, is_client_con, handle, peer_done, peer_stop,
                      fin_sent, reset_called, stop_sending_or_fin_sent>>
          /\ pc' = "send"
      BY <2>4 DEF PollControlEnd
    <3>3. QED
      BY <3>1, <3>2, FlagRecvDropped
      DEF FlagInv, ReceivingOver, SendingOver, Told
  <2>5. CASE PollSendDataItem
    BY <2>5 DEF PollSendDataItem, FlagInv, ReceivingOver, SendingOver, Told
  <2>6. CASE PollSendDataNone
    BY <2>6 DEF PollSendDataNone, FlagInv, ReceivingOver, SendingOver, Told
  <2>7. CASE PollReady
    BY <1>h, <2>7 DEF PollReady, DropContext
  <2>8. QED
    BY <1>2, <2>1, <2>2, <2>3, <2>4, <2>5, <2>6, <2>7 DEF Poll
<1>3. CASE Quic
  <2>1. ASSUME NEW event \in Events, NEW len \in 0..1, Callback(event, len)
        PROVE  FlagInv'
    <3> DEFINE delivers == len > 0 /\ ~fin_received_or_recv_msg_dropped
               ends == event \in {"stream_fin", "stream_reset"}
    <3>1. fin_received_or_recv_msg_dropped' =
            (\/ fin_received_or_recv_msg_dropped
             \/ delivers /\ handle # "alive"
             \/ ends)
      <4>1. (CASE event = "stream_reset" -> <<"Reset">>
               [] event = "stream_fin"   -> <<"Close">>
               [] OTHER                  -> <<>>) # <<>> <=> ends
        <5>1. <<"Reset">> # <<>> /\ <<"Close">> # <<>>
          OBVIOUS
        <5>2. QED
          BY <5>1, Zenon
      <4>2. QED
        BY <2>1, <4>1 DEF Callback
    <3>2. /\ UNCHANGED <<id, is_client_con, handle, fin_sent, reset_called,
                         conn>>
          /\ pc' = "idle" /\ peer_done' = (peer_done \/ ends)
          /\ peer_stop' = (peer_stop \/ event = "stop_sending")
          /\ event # "stop_sending" =>
               stop_sending_or_fin_sent' = stop_sending_or_fin_sent
          /\ stop_sending_calls' = IF delivers /\ handle # "alive"
                                   THEN stop_sending_calls + 1
                                   ELSE stop_sending_calls
      BY <2>1 DEF Callback
    <3>3. /\ stop_sending_calls' # 0 => fin_received_or_recv_msg_dropped'
          /\ peer_done' => fin_received_or_recv_msg_dropped'
          /\ NeverReceives(id, is_client_con)' =>
               fin_received_or_recv_msg_dropped'
      BY <3>1, <3>2 DEF FlagInv
    <3>4. fin_received_or_recv_msg_dropped' => ReceivingOver'
      BY <3>1, <3>2 DEF FlagInv, ReceivingOver
    <3>5. stop_sending_or_fin_sent' => SendingOver'
      BY <3>2 DEF FlagInv, SendingOver
    <3>6. fin_received_or_recv_msg_dropped' => Told'
      <4>1. CASE delivers /\ handle # "alive"
        <5>1. stop_sending_calls = 0
          BY <4>1 DEF FlagInv
        <5>2. stop_sending_calls' = 1
          BY <3>2, <4>1, <5>1
        <5>3. QED
          BY <5>2 DEF Told
      <4>2. CASE ~(delivers /\ handle # "alive")
        <5>1. stop_sending_calls' = stop_sending_calls
          BY <3>2, <4>2
        <5>2. QED
          BY <3>1, <3>2, <4>2, <5>1 DEF FlagInv, Told
      <4>3. QED
        BY <4>1, <4>2
    <3>7. QED
      BY <3>2, <3>3, <3>4, <3>5, <3>6 DEF FlagInv
  <2>2. ASSUME NEW m \in PacketSizes, PrepareToSend(m) PROVE FlagInv'
    BY <1>h, <2>2 DEF PrepareToSend
  <2>3. CASE CollectBuffer
    BY <1>h, <2>3 DEF CollectBuffer
  <2>4. CASE ProvideData
    BY <2>4 DEF ProvideData, FlagInv, ReceivingOver, SendingOver, Told
  <2>5. CASE CopyBuffer
    BY <2>5 DEF CopyBuffer, FlagInv, ReceivingOver, SendingOver, Told
  <2>6. ASSUME NEW err, LocalClose \/ CloseCallback(err) PROVE FlagInv'
    <3>1. RecvMessageDropped(handle # "alive")
      BY <2>6 DEF LocalClose, CloseCallback
    <3>2. /\ UNCHANGED <<id, is_client_con, handle, peer_done, peer_stop,
                         fin_sent, reset_called, stop_sending_or_fin_sent>>
          /\ pc' = "idle"
      BY <2>6 DEF LocalClose, CloseCallback
    <3>3. QED
      BY <3>1, <3>2, FlagRecvDropped
      DEF FlagInv, ReceivingOver, SendingOver, Told
  <2>7. CASE ConnectionDropped
    BY <1>h, <2>7 DEF ConnectionDropped, DropContext
  <2>8. QED
    BY <1>3, <2>1, <2>2, <2>3, <2>4, <2>5, <2>6, <2>7 DEF Quic, SendData
<1>4. CASE UNCHANGED vars
  BY <1>h, <1>4 DEF vars
<1>5. QED
  BY <1>1, <1>2, <1>3, <1>4 DEF Next

(* The connection forgets a stream, while it is open, only when its        *)
(* sending side was finished, reset or stopped and its receiving side was  *)
(* finished by the peer or given up with the handle, and the peer told so. *)
THEOREM AlwaysRemovedOnlyWhenFinished == Spec => []RemovedOnlyWhenFinished
<1>1. Init => TypeInv /\ FlagInv
  BY TypeInit, FlagInit
<1>2. (TypeInv /\ FlagInv) /\ [Next]_vars => (TypeInv /\ FlagInv)'
  BY TypeStep, FlagStep
<1>3. FlagInv => RemovedOnlyWhenFinished
  BY DEF FlagInv, BothFinished, ReceivingOver, SendingOver, Told,
     RemovedOnlyWhenFinished
<1>4. QED
  BY <1>1, <1>2, <1>3, PTL DEF Spec

(* picoquic_stop_sending is called at most once, when the handle is gone,  *)
(* and after no callback with the peer's FIN or reset: the ways to it, a   *)
(* poll that finds the handle gone, data that finds no reader and the end  *)
(* of the connection, never take effect together.  If the FIN is there     *)
(* already, the call is made by the FIN's own callback, for its data.      *)
THEOREM StopSendingAtMostOnce == Spec => StopSendingOnce
<1> DEFINE Once ==
      /\ stop_sending_calls = 0 /\ stop_sending_calls' = 1
      /\ handle # "alive" /\ ~NeverReceives(id, is_client_con)
      /\ ~peer_done /\ (peer_done' => received' > received)
    A == stop_sending_calls' # stop_sending_calls => Once
<1>1. Init => TypeInv /\ FlagInv
  BY TypeInit, FlagInit
<1>2. (TypeInv /\ FlagInv) /\ [Next]_vars => (TypeInv /\ FlagInv)'
  BY TypeStep, FlagStep
<1>3. TypeInv /\ FlagInv /\ [Next]_vars => [A]_vars
  <2> SUFFICES ASSUME TypeInv, FlagInv, Next,
                      stop_sending_calls' # stop_sending_calls
               PROVE  Once
    OBVIOUS
  <2> USE DEF quicVars, peerVars
  <2>1. ~App
    BY DEF App, StartSend, SetSendChannelSize, Reset, PollRecv, DropStream
  <2>2. CASE Poll
    <3>1. CASE PollControlEnd
      BY <3>1, FlagRecvDropped DEF PollControlEnd
    <3>2. QED
      BY <2>2, <3>1 DEF Poll, PollStart, PollControlReset, PollControlSwap,
         PollSendDataItem, PollSendDataNone, PollSendDataIdle, PollNotReady,
         PollReady, DropContext
  <2>3. CASE Quic
    <3>1. ASSUME NEW event \in Events, NEW len \in 0..1, Callback(event, len)
          PROVE  Once
      <4>1. /\ len > 0 /\ ~fin_received_or_recv_msg_dropped
            /\ handle # "alive" /\ received' = received + len
            /\ stop_sending_calls' = stop_sending_calls + 1
        BY <3>1 DEF Callback
      <4>2. received \in Nat /\ stop_sending_calls = 0 /\ ~peer_done
            /\ ~NeverReceives(id, is_client_con)
        BY <4>1 DEF FlagInv, TypeInv, TypeOK
      <4>3. QED
        BY <4>1, <4>2
    <3>2. ASSUME NEW err, LocalClose \/ CloseCallback(err)
          PROVE  Once
      BY <3>2, FlagRecvDropped DEF LocalClose, CloseCallback
    <3>3. QED
      BY <2>3, <3>1, <3>2 DEF Quic, SendData, PrepareToSend, CollectBuffer,
         ProvideData, CopyBuffer, ConnectionDropped, DropContext
  <2>4. QED
    BY <2>1, <2>2, <2>3 DEF Next
<1>4. QED
  BY <1>1, <1>2, <1>3, PTL DEF Spec, StopSendingOnce

------------------------------------------------------------------------------
(* The error of the connection.  While a stream was not resized, stopped   *)
(* or reset, its only channel is the active one, open until the Context    *)
(* goes, so that this is the channel the error is written to.              *)
Untouched == sender # 0 /\ created = 1 /\ ~peer_stop /\ ~reset_requested

OneChannel ==
  /\ control_msg = <<>> /\ swap_to = 0
  /\ pc # "gone" => active = 1 /\ chan[1].open
  /\ conn_error # NoError => chan[1].error = conn_error

ErrorInv ==
  /\ created = 1 => sender \in {0, 1}
  /\ Untouched => OneChannel

(* What the steps may do to the handle, ...                                *)
LEMMA HandleSteps ==
  ASSUME [Next]_vars
  PROVE  /\ reset_requested => reset_requested'
         /\ \/ created' = created /\ sender' \in {sender, 0}
            \/ created' = created + 1 /\ sender' = created' /\ sender # 0
<1> USE DEF handleVars, chanVars
<1>1. CASE App
  <2>1. CASE \E n \in SwapSizes : SetSendChannelSize(n)
    BY <2>1 DEF SetSendChannelSize
  <2>2. CASE (\E n \in ChunkSizes : StartSend(n)) \/ PollRecv \/ DropStream
    <3>1. reset_requested' = reset_requested /\ created' = created
      BY <2>2 DEF StartSend, PollRecv, DropStream
    <3>2. sender' \in {sender, 0}
      BY <2>2 DEF StartSend, PollRecv, DropStream
    <3>3. QED
      BY <3>1, <3>2
  <2>3. CASE Reset
    BY <2>3 DEF Reset
  <2>4. QED
    BY <1>1, <2>1, <2>2, <2>3 DEF App
<1>2. CASE Poll
  BY <1>2 DEF Poll, PollStart, PollControlReset, PollControlSwap,
     PollControlEnd, PollSendDataItem, PollSendDataNone, PollSendDataIdle,
     PollNotReady, PollReady, DropContext
<1>3. CASE Quic
  <2>1. UNCHANGED <<handleVars, created>>
    <3>1. ASSUME NEW event \in Events, NEW len \in 0..1, Callback(event, len)
          PROVE  UNCHANGED <<handleVars, created>>
      BY <3>1 DEF Callback
    <3>2. ASSUME NEW err, CloseCallback(err)
          PROVE  UNCHANGED <<handleVars, created>>
      BY <3>2 DEF CloseCallback
    <3>3. QED
      BY <1>3, <3>1, <3>2 DEF Quic, SendData, PrepareToSend, CollectBuffer,
         ProvideData, CopyBuffer, LocalClose, ConnectionDropped, DropContext
  <2>2. QED
    BY <2>1
<1>4. CASE UNCHANGED vars
  BY <1>4 DEF vars
<1>5. QED
  BY <1>1, <1>2, <1>3, <1>4 DEF Next

(* ... and to what the peer and the connection have done.                  *)
LEMMA PeerSteps ==
  ASSUME [Next]_vars
  PROVE  /\ peer_stop => peer_stop'
         /\ conn' = "open" => conn = "open"
<1> USE DEF peerVars
<1>1. CASE App
  <2>1. UNCHANGED peerVars
    BY <1>1 DEF App, StartSend, SetSendChannelSize, Reset, PollRecv, DropStream
  <2>2. QED
    BY <2>1
<1>2. CASE Poll
  BY <1>2 DEF Poll, PollStart, PollControlReset, PollControlSwap,
     PollControlEnd, PollSendDataItem, PollSendDataNone, PollSendDataIdle,
     PollNotReady, PollReady, DropContext
<1>3. CASE Quic
  <2>1. ASSUME NEW event \in Events, NEW len \in 0..1, Callback(event, len)
        PROVE  (peer_stop => peer_stop') /\ conn' = conn
    BY <2>1 DEF Callback
  <2>2. CASE \/ \E m \in PacketSizes : PrepareToSend(m)
             \/ SendData \/ ConnectionDropped
    BY <2>2 DEF SendData, PrepareToSend, CollectBuffer, ProvideData,
       CopyBuffer, ConnectionDropped, DropContext
  <2>3. ASSUME NEW err, LocalClose \/ CloseCallback(err)
        PROVE  peer_stop' = peer_stop /\ conn' # "open"
    BY <2>3 DEF LocalClose, CloseCallback
  <2>4. QED
    BY <1>3, <2>1, <2>2, <2>3 DEF Quic
<1>4. CASE UNCHANGED vars
  BY <1>4 DEF vars
<1>5. QED
  BY <1>1, <1>2, <1>3, <1>4 DEF Next

LEMMA ErrorInit == Init => ErrorInv
<1> SUFFICES ASSUME Init PROVE ErrorInv
  OBVIOUS
<1>1. 1 \in Channels
  BY StreamAssumptions DEF Channels
<1>2. /\ sender \in {0, 1} /\ active = sender /\ swap_to = 0
      /\ control_msg = <<>> /\ conn_error = NoError
      /\ chan = [k \in Channels |-> NewChannel(DefaultSize)]
  BY DEF Init, StreamNew, ContextNew
<1>3. chan[1].open
  BY <1>1, <1>2 DEF NewChannel
<1>4. QED
  BY <1>2, <1>3 DEF ErrorInv, Untouched, OneChannel

(* A stream that is untouched was so before, and its one channel answers   *)
(* the poll of the SwappableStream, never with None.                       *)
LEMMA OneChannelFacts ==
  ASSUME TypeInv, ErrorInv, Untouched
  PROVE  /\ sender = 1 /\ OneChannel /\ ~Swaps
         /\ ChanAfterSwap = chan /\ SwapToAfterSwap = 0
         /\ PollTarget = active
         /\ pc # "gone" => ~PollIsNone
<1>1. sender = 1 /\ OneChannel
  BY DEF ErrorInv, Untouched
<1>2. ~Swaps
  BY <1>1 DEF OneChannel, Swaps
<1>3. ChanAfterSwap = chan /\ SwapToAfterSwap = 0 /\ PollTarget = active
  BY <1>1, <1>2 DEF OneChannel, ChanAfterSwap, SwapToAfterSwap, PollTarget
<1>4. pc # "gone" => ~PollIsNone
  BY <1>1, <1>3 DEF OneChannel, PollIsNone, Exhausted, SenderAlive
<1>5. QED
  BY <1>1, <1>2, <1>3, <1>4

LEMMA ErrorStep == TypeInv /\ ErrorInv /\ [Next]_vars => ErrorInv'
<1> SUFFICES ASSUME TypeInv, ErrorInv, [Next]_vars PROVE ErrorInv'
  OBVIOUS
<1> USE DEF constantVars, handleVars, chanVars, msgVars, dataVars, flagVars,
            localVars, quicVars, peerVars
<1>t. /\ chan \in [Channels -> ChannelRecords] /\ 1 \in Channels
      /\ created \in Nat /\ created >= 1
      /\ active \in 0..MaxChannels /\ 0 \notin Channels
  BY StreamAssumptions DEF TypeInv, TypeOK, Channels
<1>r. chan[1] \in ChannelRecords
  BY <1>t
<1>s. /\ \/ created' = created /\ sender' \in {sender, 0}
         \/ created' = created + 1 /\ sender' = created' /\ sender # 0
      /\ reset_requested => reset_requested'
      /\ peer_stop => peer_stop'
  BY HandleSteps, PeerSteps
<1>1. created' = 1 => sender' \in {0, 1}
  BY <1>s, <1>t DEF ErrorInv
<1>2. Untouched' => Untouched
  BY <1>s, <1>t DEF Untouched
<1> SUFFICES ASSUME Untouched', Untouched PROVE OneChannel'
  BY <1>1, <1>2 DEF ErrorInv
<1>f. /\ sender = 1 /\ OneChannel
      /\ ChanAfterSwap = chan /\ SwapToAfterSwap = 0 /\ PollTarget = active
      /\ pc # "gone" => ~PollIsNone
  BY OneChannelFacts
<1>h. ASSUME UNCHANGED <<control_msg, swap_to, active, conn_error>>,
             pc' # "gone" => pc # "gone",
             chan'[1].open = chan[1].open, chan'[1].error = chan[1].error
      PROVE  OneChannel'
  BY <1>f, <1>h DEF OneChannel
<1>3. CASE App
  <2>1. ASSUME NEW n \in ChunkSizes, StartSend(n) PROVE OneChannel'
    <3>1. /\ chan'[1].open = chan[1].open /\ chan'[1].error = chan[1].error
      BY <1>t, <1>r, <1>f, <2>1 DEF StartSend, Enqueue, ChannelRecords
    <3>2. QED
      BY <1>h, <2>1, <3>1 DEF StartSend
  <2>2. ~\E n \in SwapSizes : SetSendChannelSize(n)
    BY <1>t DEF SetSendChannelSize, Untouched
  <2>3. ~Reset
    BY DEF Reset, Untouched
  <2>4. CASE PollRecv \/ DropStream
    BY <1>h, <2>4 DEF PollRecv, DropStream
  <2>5. QED
    BY <1>3, <2>1, <2>2, <2>3, <2>4 DEF App
<1>4. CASE Poll
  <2>1. ~PollControlReset /\ ~PollControlSwap
    BY <1>f DEF PollControlReset, PollControlSwap, OneChannel
  <2>2. ~PollSendDataNone
    BY <1>f DEF PollSendDataNone
  <2>3. CASE PollStart \/ PollControlEnd \/ PollSendDataIdle \/ PollNotReady
    <3>1. UNCHANGED <<control_msg, conn_error, chan, active>>
      BY <1>f, <2>3 DEF PollStart, PollControlEnd, PollSendDataIdle,
         PollNotReady
    <3>2. swap_to' = swap_to /\ pc # "gone"
      BY <1>f, <2>3 DEF PollStart, PollControlEnd, PollSendDataIdle,
         PollNotReady, OneChannel
    <3>3. QED
      BY <1>h, <3>1, <3>2
  <2>4. CASE PollSendDataItem
    <3>1. /\ chan' = [chan EXCEPT ![active] = Dequeue(@)]
          /\ UNCHANGED <<control_msg, conn_error, active>> /\ pc # "gone"
          /\ swap_to' = 0
      BY <1>f, <2>4 DEF PollSendDataItem
    <3>2. /\ chan'[1].open = chan[1].open /\ chan'[1].error = chan[1].error
      BY <1>t, <1>r, <3>1 DEF Dequeue, ChannelRecords
    <3>3. QED
      BY <1>f, <1>h, <3>1, <3>2 DEF OneChannel
  <2>5. CASE PollReady
    <3>1. chan'[1].error = chan[1].error
      BY <1>t, <2>5 DEF PollReady, DropContext, DropReceivers, DropReceiver
    <3>2. QED
      BY <1>f, <2>5, <3>1 DEF PollReady, DropContext, OneChannel
  <2>6. QED
    BY <1>4, <2>1, <2>2, <2>3, <2>4, <2>5 DEF Poll
<1>5. CASE Quic
  <2>1. ASSUME NEW event \in Events, NEW len \in 0..1, Callback(event, len)
        PROVE  OneChannel'
    <3>1. event # "stop_sending"
      BY <2>1 DEF Callback, Untouched
    <3>2. QED
      BY <1>h, <2>1, <3>1 DEF Callback
  <2>2. ASSUME NEW m \in PacketSizes, PrepareToSend(m) PROVE OneChannel'
    BY <1>h, <2>2 DEF PrepareToSend
  <2>3. CASE CollectBuffer
    <3>1. /\ chan' = [chan EXCEPT ![active] = Dequeue(@)]
          /\ UNCHANGED <<control_msg, conn_error, active>> /\ pc # "gone"
          /\ swap_to' = 0
      BY <1>f, <2>3 DEF CollectBuffer
    <3>2. /\ chan'[1].open = chan[1].open /\ chan'[1].error = chan[1].error
      BY <1>t, <1>r, <3>1 DEF Dequeue, ChannelRecords
    <3>3. QED
      BY <1>f, <1>h, <3>1, <3>2 DEF OneChannel
  <2>4. CASE ProvideData
    <3>1. UNCHANGED <<control_msg, conn_error, chan, active>> /\ pc # "gone"
      BY <1>f, <2>4 DEF ProvideData
    <3>2. swap_to' = swap_to
      BY <1>f, <2>4 DEF ProvideData, OneChannel
    <3>3. QED
      BY <1>h, <3>1, <3>2
  <2>5. CASE CopyBuffer \/ LocalClose
    BY <1>h, <2>5 DEF CopyBuffer, LocalClose
  <2>6. ASSUME NEW err, CloseCallback(err) PROVE OneChannel'
    <3>1. /\ UNCHANGED <<control_msg, swap_to, active, pc>> /\ pc = "idle"
          /\ conn_error' = err
          /\ chan' = IF err # NoError /\ active # 0
                     THEN [chan EXCEPT ![active] = PropagateError(@, err)]
                     ELSE chan
      BY <2>6 DEF CloseCallback
    <3>2. active = 1 /\ chan[1].open
      BY <1>f, <3>1 DEF OneChannel
    <3>3. chan'[1].open /\ (err # NoError => chan'[1].error = err)
      BY <1>t, <1>r, <3>1, <3>2 DEF PropagateError, ChannelRecords
    <3>4. QED
      BY <1>f, <3>1, <3>2, <3>3 DEF OneChannel
  <2>7. CASE ConnectionDropped
    <3>1. chan'[1].error = chan[1].error
      BY <1>t, <2>7 DEF ConnectionDropped, DropContext, DropReceivers,
         DropReceiver
    <3>2. QED
      BY <1>f, <2>7, <3>1 DEF ConnectionDropped, DropContext, OneChannel
  <2>8. QED
    BY <1>5, <2>1, <2>2, <2>3, <2>4, <2>5, <2>6, <2>7 DEF Quic, SendData
<1>6. CASE UNCHANGED vars
  BY <1>h, <1>6 DEF vars
<1>7. QED
  BY <1>3, <1>4, <1>5, <1>6 DEF Next

(* The sender of a stream that was never resized knows the error of its    *)
(* connection, also after the Context was dropped with the receiver.       *)
THEOREM ErrorAlwaysReachesSender == Spec => []ErrorReachesSender
<1>1. Init => TypeInv /\ ErrorInv
  BY TypeInit, ErrorInit
<1>2. (TypeInv /\ ErrorInv) /\ [Next]_vars => (TypeInv /\ ErrorInv)'
  BY TypeStep, ErrorStep
<1>3. ErrorInv => ErrorReachesSender
  BY DEF ErrorInv, Untouched, OneChannel, ErrorReachesSender
<1>4. QED
  BY <1>1, <1>2, <1>3, PTL DEF Spec
==============================================================================
