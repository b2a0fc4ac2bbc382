---------------------------- MODULE StreamProofs -----------------------------
(***************************************************************************)
(* Proofs about module Stream, for every choice of its constants.          *)
(***************************************************************************)
EXTENDS StreamProperties, TLAPS

(* TypeOK is not inductive by itself: CopyBuffer takes the head of         *)
(* `buffers`, which must not be empty while handle_send_data copies.       *)
TypeInv ==
  /\ TypeOK
  /\ pc = "write" => buffers # <<>>

------------------------------------------------------------------------------
(* What the operators the actions are built from return. *)

LEMMA RangeFacts ==
  ASSUME NEW buf \in Ranges, NEW n \in Nat, n <= Size(buf)
  PROVE  /\ Size(buf) \in Nat
         /\ Advance(buf, n) \in Ranges
         /\ [buf EXCEPT !.hi = buf.lo + n] \in Ranges
BY DEF Ranges, Size, Advance

LEMMA SizeType == \A buf \in Ranges : Size(buf) \in Nat
BY DEF Ranges, Size

LEMMA LeastFacts ==
  ASSUME NEW a \in Nat, NEW b \in Nat
  PROVE  Least(a, b) \in Nat /\ Least(a, b) <= a /\ Least(a, b) <= b
BY DEF Least

LEMMA SeqFacts ==
  ASSUME NEW S, NEW seq \in Seq(S), NEW e \in S
  PROVE  Append(seq, e) \in Seq(S) /\ <<e>> \in Seq(S)
OBVIOUS

LEMMA StreamIdFacts ==
  ASSUME NEW i, NEW client \in BOOLEAN
  PROVE  /\ NeverReceives(i, client) \in BOOLEAN
         /\ HasSendChannel(i, client) \in BOOLEAN
BY DEF NeverReceives, HasSendChannel

LEMMA ChannelFacts ==
  ASSUME NEW c \in ChannelRecords
  PROVE  /\ DropReceiver(c) \in ChannelRecords
         /\ \A buf \in Ranges : Enqueue(c, buf) \in ChannelRecords
         /\ c.queue # <<>> => Dequeue(c) \in ChannelRecords
         /\ c.queue # <<>> => Head(c.queue) \in Ranges
         /\ \A err \in {NoError} \cup ErrorKinds :
              PropagateError(c, err) \in ChannelRecords
<1>1. /\ c.queue \in Seq(Ranges) /\ c.size \in Nat /\ c.open \in BOOLEAN
      /\ c.error \in {NoError} \cup ErrorKinds
  BY DEF ChannelRecords
<1>2. DropReceiver(c) \in ChannelRecords
  BY <1>1 DEF ChannelRecords, DropReceiver
<1>3. ASSUME NEW buf \in Ranges
      PROVE  Enqueue(c, buf) \in ChannelRecords
  <2>1. Append(c.queue, buf) \in Seq(Ranges)
    BY <1>1
  <2>2. QED
    BY <2>1 DEF ChannelRecords, Enqueue
<1>4. ASSUME c.queue # <<>>
      PROVE  Dequeue(c) \in ChannelRecords /\ Head(c.queue) \in Ranges
  <2>1. Tail(c.queue) \in Seq(Ranges) /\ Head(c.queue) \in Ranges
    BY <1>1, <1>4
  <2>2. QED
    BY <2>1 DEF ChannelRecords, Dequeue
<1>5. ASSUME NEW err \in {NoError} \cup ErrorKinds
      PROVE  PropagateError(c, err) \in ChannelRecords
  BY DEF ChannelRecords, PropagateError
<1>6. QED
  BY <1>2, <1>3, <1>4, <1>5

LEMMA NewChannelType == \A n \in Nat : NewChannel(n) \in ChannelRecords
BY DEF ChannelRecords, NewChannel

LEMMA DropReceiversType ==
  ASSUME NEW c \in [Channels -> ChannelRecords], NEW ks
  PROVE  DropReceivers(c, ks) \in [Channels -> ChannelRecords]
BY ChannelFacts DEF DropReceivers

(* SwappableStream::poll answers from one of the two receivers, and an     *)
(* item can be taken from it after the swap.                               *)
LEMMA SwappableFacts ==
  ASSUME TypeOK
  PROVE  /\ PollTarget \in 0..MaxChannels /\ SwapToAfterSwap \in 0..MaxChannels
         /\ ChanAfterSwap \in [Channels -> ChannelRecords]
         /\ PollHasItem =>
              /\ PollTarget \in Channels
              /\ ChanAfterSwap[PollTarget] = chan[PollTarget]
              /\ Head(chan[PollTarget].queue) \in Ranges
              /\ Dequeue(chan[PollTarget]) \in ChannelRecords
<1> USE DEF TypeOK, Channels
<1>1. PollTarget \in 0..MaxChannels /\ SwapToAfterSwap \in 0..MaxChannels
  BY StreamAssumptions DEF PollTarget, SwapToAfterSwap
<1>2. Swaps => active \in Channels
  BY StreamAssumptions DEF Swaps
<1>3. ChanAfterSwap \in [Channels -> ChannelRecords]
  BY <1>2, ChannelFacts DEF ChanAfterSwap
<1>4. ASSUME PollHasItem
      PROVE  /\ PollTarget \in Channels
             /\ ChanAfterSwap[PollTarget] = chan[PollTarget]
  <2>1. PollTarget \in Channels
    BY <1>1, <1>4, StreamAssumptions DEF PollHasItem
  <2>2. Swaps => PollTarget # active
    BY <1>4 DEF PollHasItem, PollTarget, Swaps, Exhausted
  <2>3. QED
    BY <2>1, <2>2 DEF ChanAfterSwap
<1>5. ASSUME PollHasItem
      PROVE  /\ Head(chan[PollTarget].queue) \in Ranges
             /\ Dequeue(chan[PollTarget]) \in ChannelRecords
  <2>1. chan[PollTarget] \in ChannelRecords
    BY <1>4, <1>5
  <2>2. QED
    BY <2>1, <1>5, ChannelFacts DEF PollHasItem
<1>6. QED
  BY <1>1, <1>3, <1>4, <1>5

------------------------------------------------------------------------------
LEMMA TypeInit == Init => TypeInv
<1> SUFFICES ASSUME Init PROVE TypeInv
  OBVIOUS
<1>1. is_client_con \in BOOLEAN /\ DefaultSize \in Nat /\ MaxChannels \in Nat \ {0}
  BY StreamAssumptions DEF Init, StreamNew, ContextNew
<1>2. /\ HasSendChannel(id, is_client_con) \in BOOLEAN
      /\ NeverReceives(id, is_client_con) \in BOOLEAN
  BY <1>1, StreamIdFacts
<1>3. chan \in [Channels -> ChannelRecords]
  BY <1>1, NewChannelType DEF Init, StreamNew, ContextNew
<1>4. sender \in 0..MaxChannels /\ created \in 1..MaxChannels
  BY <1>1 DEF Init, StreamNew, ContextNew
<1>5. /\ control_msg \in Seq(ControlMessages)
      /\ recv_msg \in Seq(RecvMessages)
      /\ active_buffer \in Seq(Ranges) /\ buffers \in Seq(Ranges)
      /\ wire \in Seq(Ranges)
  BY DEF Init, StreamNew, ContextNew
<1>6. /\ stop_sending_or_fin_sent \in BOOLEAN
      /\ fin_received_or_recv_msg_dropped \in BOOLEAN
  BY <1>2 DEF Init, StreamNew, ContextNew
<1>7. sends \in 0..MaxSends /\ received \in 0..MaxRecv
  BY StreamAssumptions DEF Init, StreamNew, ContextNew
<1>8. /\ stream_reset \in BOOLEAN /\ reset_requested \in BOOLEAN
      /\ data_send \in BOOLEAN /\ is_active \in BOOLEAN /\ fin_sent \in BOOLEAN
      /\ reset_called \in BOOLEAN /\ peer_done \in BOOLEAN /\ peer_stop \in BOOLEAN
  BY DEF Init, StreamNew, ContextNew
<1>9. active \in 0..MaxChannels /\ swap_to \in 0..MaxChannels
  BY <1>1, <1>4 DEF Init, StreamNew, ContextNew
<1>10. QED
  BY <1>1, <1>3, <1>4, <1>5, <1>6, <1>7, <1>8, <1>9
  DEF Init, StreamNew, ContextNew, TypeInv, TypeOK

(* The application's calls. *)
LEMMA TypeApp == TypeInv /\ App => TypeInv'
<1> SUFFICES ASSUME TypeInv, App PROVE TypeInv'
  OBVIOUS
<1> USE DEF TypeInv, TypeOK, constantVars, handleVars, chanVars, msgVars,
            dataVars, flagVars, localVars, quicVars, peerVars
<1>1. ASSUME NEW n \in ChunkSizes, StartSend(n) PROVE TypeInv'
  <2>1. sender \in Channels /\ n \in Nat /\ sends + 1 \in 0..MaxSends
    BY <1>1, StreamAssumptions DEF StartSend, Channels
  <2>2. [lo |-> accepted, hi |-> accepted + n] \in Ranges
    BY <2>1 DEF Ranges
  <2>3. chan' \in [Channels -> ChannelRecords]
    BY <1>1, <2>1, <2>2, ChannelFacts DEF StartSend
  <2>4. QED
    BY <1>1, <2>1, <2>3 DEF StartSend
<1>2. ASSUME NEW n \in SwapSizes, SetSendChannelSize(n) PROVE TypeInv'
  <2>1. created + 1 \in Channels /\ n \in Nat
    BY <1>2, StreamAssumptions DEF SetSendChannelSize, Channels
  <2>2. /\ NewChannel(n) \in ChannelRecords
        /\ DropReceiver(NewChannel(n)) \in ChannelRecords
    BY <2>1, NewChannelType, ChannelFacts
  <2>3. chan' \in [Channels -> ChannelRecords]
    BY <1>2, <2>1, <2>2 DEF SetSendChannelSize
  <2>4. SwapSendData(created + 1) \in ControlMessages
    BY <2>1 DEF SwapSendData, ControlMessages, Channels
  <2>5. control_msg' \in Seq(ControlMessages)
    <3> control_msg \in Seq(ControlMessages)
      OBVIOUS
    <3> HIDE DEF TypeInv, TypeOK
    <3>1. \/ control_msg' = control_msg
          \/ control_msg' = Append(control_msg, SwapSendData(created + 1))
      BY <1>2 DEF SetSendChannelSize
    <3>2. QED
      BY <2>4, <3>1
  <2>6. created' \in 1..MaxChannels /\ sender' \in 0..MaxChannels
    BY <1>2, <2>1 DEF SetSendChannelSize, Channels
  <2>7. QED
    BY <1>2, <2>3, <2>5, <2>6 DEF SetSendChannelSize
<1>3. CASE Reset
  <2>1. ResetMsg \in ControlMessages
    BY StreamAssumptions DEF ResetMsg, ControlMessages
  <2>2. control_msg' \in Seq(ControlMessages)
    BY <1>3, <2>1 DEF Reset
  <2>3. QED
    BY <1>3, <2>2 DEF Reset
<1>4. CASE PollRecv
  BY <1>4 DEF PollRecv
<1>5. CASE DropStream
  <2>1. recv_msg' = <<>> \/ recv_msg' = recv_msg
    BY <1>5 DEF DropStream
  <2>2. recv_msg' \in Seq(RecvMessages)
    <3>1. recv_msg \in Seq(RecvMessages) /\ <<>> \in Seq(RecvMessages)
      OBVIOUS
    <3> HIDE DEF TypeInv, TypeOK
    <3> QED
      BY <2>1, <3>1
  <2>3. sender' \in 0..MaxChannels
    BY <1>5, StreamAssumptions DEF DropStream
  <2>4. QED
    BY <1>5, <2>2, <2>3 DEF DropStream
<1>6. QED
  BY <1>1, <1>2, <1>3, <1>4, <1>5 DEF App

(* Messages for the reader, whether it is still there or not. *)
LEMMA RecvMessageType ==
  ASSUME NEW queue \in Seq(RecvMessages), NEW msgs \in Seq(RecvMessages)
  PROVE  RecvMessage(queue, msgs) \in Seq(RecvMessages)
BY DEF RecvMessage

LEMMA DropContextType == TypeInv /\ DropContext => TypeInv'
<1> SUFFICES ASSUME TypeInv, DropContext PROVE TypeInv'
  OBVIOUS
<1>1. chan \in [Channels -> ChannelRecords] /\ recv_msg \in Seq(RecvMessages)
  BY DEF TypeInv, TypeOK
<1>2. chan' \in [Channels -> ChannelRecords]
  BY <1>1, DropReceiversType DEF DropContext
<1>3. <<"Close">> \in Seq(RecvMessages)
  BY DEF RecvMessages
<1>4. recv_msg' \in Seq(RecvMessages)
  BY <1>1, <1>3, RecvMessageType DEF DropContext
<1>5. control_msg' \in Seq(ControlMessages) /\ active_buffer' \in Seq(Ranges)
  BY DEF DropContext
<1>6. active' \in 0..MaxChannels /\ swap_to' \in 0..MaxChannels
  BY StreamAssumptions DEF DropContext
<1>7. /\ pc' = "gone"
      /\ UNCHANGED <<constantVars, handleVars, created, flagVars, localVars,
                     quicVars, peerVars>>
  BY DEF DropContext
<1>8. QED
  BY <1>2, <1>4, <1>5, <1>6, <1>7
  DEF TypeInv, TypeOK, constantVars, handleVars, flagVars, localVars, quicVars,
      peerVars

(* The steps of Context::poll. *)
LEMMA TypePoll == TypeInv /\ Poll => TypeInv'
<1> SUFFICES ASSUME TypeInv, Poll PROVE TypeInv'
  OBVIOUS
<1> USE DEF constantVars, handleVars, chanVars, msgVars, dataVars, flagVars,
            localVars, quicVars, peerVars
<1>t. /\ TypeOK
      /\ chan \in [Channels -> ChannelRecords]
      /\ control_msg \in Seq(ControlMessages)
  BY DEF TypeInv, TypeOK
<1>z. 0 \in 0..MaxChannels
  BY StreamAssumptions
<1>d. ASSUME NEW ks PROVE DropReceivers(chan, ks) \in [Channels -> ChannelRecords]
  BY <1>t, DropReceiversType
<1>1. CASE PollStart
  BY <1>1 DEF PollStart, TypeInv, TypeOK
<1>2. CASE PollControlReset
  <2>1. control_msg' \in Seq(ControlMessages)
    BY <1>t, <1>2 DEF PollControlReset
  <2>2. chan' \in [Channels -> ChannelRecords]
    BY <1>d, <1>2 DEF PollControlReset, ContextReset, CloseSendData
  <2>3. /\ active' \in 0..MaxChannels /\ swap_to' \in 0..MaxChannels
        /\ stop_sending_or_fin_sent' \in BOOLEAN /\ reset_called' \in BOOLEAN
    BY <1>z, <1>2 DEF PollControlReset, ContextReset, CloseSendData
  <2>4. QED
    BY <1>2, <2>1, <2>2, <2>3 DEF PollControlReset, TypeInv, TypeOK
<1>3. CASE PollControlSwap
  <2>1. /\ control_msg' \in Seq(ControlMessages)
        /\ Head(control_msg) \in ControlMessages
    BY <1>t, <1>3 DEF PollControlSwap
  <2>2. chan' \in [Channels -> ChannelRecords]
    BY <1>d, <1>3 DEF PollControlSwap
  <2>3. swap_to' \in 0..MaxChannels
    BY <1>t, <1>3, <2>1 DEF PollControlSwap, ControlMessages, TypeOK
  <2>4. QED
    BY <1>3, <2>1, <2>2, <2>3 DEF PollControlSwap, TypeInv, TypeOK
<1>4. CASE PollControlEnd
  <2>1. /\ fin_received_or_recv_msg_dropped' \in BOOLEAN
        /\ stop_sending_calls' \in Nat
    BY <1>t, <1>4 DEF PollControlEnd, RecvMessageDropped, TypeOK
  <2>2. QED
    BY <1>4, <2>1 DEF PollControlEnd, TypeInv, TypeOK
<1>5. CASE PollSendDataItem
  <2>1. /\ active' \in 0..MaxChannels /\ swap_to' \in 0..MaxChannels
        /\ chan' \in [Channels -> ChannelRecords]
        /\ Head(chan[PollTarget].queue) \in Ranges
    BY <1>t, <1>5, SwappableFacts DEF PollSendDataItem
  <2>2. active_buffer' \in Seq(Ranges)
    BY <1>5, <2>1 DEF PollSendDataItem
  <2>3. QED
    BY <1>5, <2>1, <2>2 DEF PollSendDataItem, TypeInv, TypeOK
<1>6. CASE PollSendDataNone
  <2>1. chan' \in [Channels -> ChannelRecords]
    BY <1>d, <1>6 DEF PollSendDataNone, CloseSendData
  <2>2. /\ is_active' \in BOOLEAN /\ reset_called' \in BOOLEAN
        /\ stop_sending_or_fin_sent' \in BOOLEAN
    BY <1>t, <1>6 DEF PollSendDataNone, TypeOK
  <2>3. active' \in 0..MaxChannels /\ swap_to' \in 0..MaxChannels
    BY <1>z, <1>6 DEF PollSendDataNone, CloseSendData
  <2>4. QED
    BY <1>6, <2>1, <2>2, <2>3 DEF PollSendDataNone, TypeInv, TypeOK
<1>7. CASE PollSendDataIdle
  <2>1. /\ active' \in 0..MaxChannels /\ swap_to' \in 0..MaxChannels
        /\ chan' \in [Channels -> ChannelRecords]
    BY <1>t, <1>7, SwappableFacts DEF PollSendDataIdle, TypeOK
  <2>2. QED
    BY <1>7, <2>1 DEF PollSendDataIdle, TypeInv, TypeOK
<1>8. CASE PollNotReady
  BY <1>8 DEF PollNotReady, TypeInv, TypeOK
<1>9. CASE PollReady
  BY <1>9, DropContextType DEF PollReady
<1>10. QED
  BY <1>1, <1>2, <1>3, <1>4, <1>5, <1>6, <1>7, <1>8, <1>9 DEF Poll

(* The picoquic callbacks and the end of the connection. *)
LEMMA TypeQuic == TypeInv /\ Quic => TypeInv'
<1> SUFFICES ASSUME TypeInv, Quic PROVE TypeInv'
  OBVIOUS
<1> USE DEF constantVars, handleVars, chanVars, msgVars, dataVars, flagVars,
            localVars, quicVars, peerVars
<1>t. /\ TypeOK
      /\ chan \in [Channels -> ChannelRecords]
      /\ recv_msg \in Seq(RecvMessages)
      /\ active_buffer \in Seq(Ranges) /\ buffers \in Seq(Ranges)
      /\ wire \in Seq(Ranges)
      /\ max_length \in Nat /\ size \in Nat /\ length \in Nat
  BY DEF TypeInv, TypeOK
<1>1. ASSUME NEW event \in Events, NEW len \in 0..1, Callback(event, len)
      PROVE  TypeInv'
  <2> DEFINE delivers == len > 0 /\ ~fin_received_or_recv_msg_dropped
             data == IF delivers THEN <<"RecvData">> ELSE <<>>
             end  == CASE event = "stream_reset" -> <<"Reset">>
                       [] event = "stream_fin"   -> <<"Close">>
                       [] OTHER                  -> <<>>
  <2>1. recv_msg' \in Seq(RecvMessages)
    <3>1. recv_msg' = RecvMessage(recv_msg, data \o end)
      BY <1>1 DEF Callback
    <3>2. /\ <<>> \in Seq(RecvMessages) /\ <<"RecvData">> \in Seq(RecvMessages)
          /\ <<"Reset">> \in Seq(RecvMessages) /\ <<"Close">> \in Seq(RecvMessages)
      BY DEF RecvMessages
    <3>3. data \in Seq(RecvMessages) /\ end \in Seq(RecvMessages)
      <4>1. data \in Seq(RecvMessages)
        <5>1. CASE delivers
          BY <3>2, <5>1
        <5>2. CASE ~delivers
          BY <3>2, <5>2
        <5>3. QED
          BY <5>1, <5>2
      <4>2. end \in {<<"Reset">>, <<"Close">>, <<>>}
        BY DEF Events
      <4>3. QED
        BY <3>2, <4>1, <4>2
    <3> HIDE DEF data, end
    <3>4. data \o end \in Seq(RecvMessages)
      BY <3>3
    <3>5. QED
      BY <1>t, <3>1, <3>4, RecvMessageType
  <2>2. /\ received' \in 0..MaxRecv
        /\ peer_done' \in BOOLEAN /\ peer_stop' \in BOOLEAN
        /\ stop_sending_calls' \in Nat
    <3>1. received \in Nat /\ stop_sending_calls \in Nat
      BY <1>t, StreamAssumptions DEF TypeOK
    <3>2. received' \in 0..MaxRecv
      BY <1>1, <3>1, StreamAssumptions DEF Callback
    <3>3. stop_sending_calls' \in {stop_sending_calls, stop_sending_calls + 1}
      BY <1>1 DEF Callback
    <3>4. peer_done' \in BOOLEAN /\ peer_stop' \in BOOLEAN
      BY <1>1 DEF Callback
    <3>5. QED
      BY <3>1, <3>2, <3>3, <3>4
  <2>3. fin_received_or_recv_msg_dropped' \in BOOLEAN
    BY <1>1 DEF Callback
  <2>4. /\ chan' \in [Channels -> ChannelRecords]
        /\ active' \in 0..MaxChannels /\ swap_to' \in 0..MaxChannels
        /\ stop_sending_or_fin_sent' \in BOOLEAN
    <3>1. CASE event = "stop_sending"
      BY SMTT(30), <1>t, <1>1, <3>1, DropReceiversType, StreamAssumptions
      DEF Callback, CloseSendData
    <3>2. CASE event # "stop_sending"
      BY <1>t, <1>1, <3>2 DEF Callback, TypeOK
    <3>3. QED
      BY <3>1, <3>2
  <2>5. QED
    BY <1>1, <2>1, <2>2, <2>3, <2>4 DEF Callback, TypeInv, TypeOK
<1>2. ASSUME NEW m \in PacketSizes, PrepareToSend(m) PROVE TypeInv'
  <2>1. size' \in Nat
    BY <1>t, <1>2, SizeType DEF PrepareToSend
  <2>2. max_length' \in Nat
    BY <1>2, StreamAssumptions DEF PrepareToSend
  <2>3. buffers' \in Seq(Ranges) /\ active_buffer' \in Seq(Ranges)
    BY <1>t, <1>2 DEF PrepareToSend
  <2>4. QED
    BY <1>2, <2>1, <2>2, <2>3 DEF PrepareToSend, TypeInv, TypeOK
<1>3. CASE CollectBuffer
  <2>1. /\ active' \in 0..MaxChannels /\ swap_to' \in 0..MaxChannels
        /\ chan' \in [Channels -> ChannelRecords]
        /\ Head(chan[PollTarget].queue) \in Ranges
    BY <1>t, <1>3, SwappableFacts DEF CollectBuffer
  <2>2. buffers' \in Seq(Ranges) /\ size' \in Nat
    BY <1>t, <1>3, <2>1, SizeType DEF CollectBuffer
  <2>3. QED
    BY <1>3, <2>1, <2>2 DEF CollectBuffer, TypeInv, TypeOK
<1>4. CASE ProvideData
  <2>1. /\ active' \in 0..MaxChannels /\ swap_to' \in 0..MaxChannels
        /\ chan' \in [Channels -> ChannelRecords]
    BY <1>t, <1>4, SwappableFacts DEF ProvideData, TypeOK
  <2>2. /\ is_active' \in BOOLEAN /\ fin_sent' \in BOOLEAN
        /\ stop_sending_or_fin_sent' \in BOOLEAN
    BY <1>4 DEF ProvideData, StillActive, Fin, CollectMore, PollIsNone
  <2>3. data_send' \in BOOLEAN
    BY <1>4 DEF ProvideData
  <2>4. length' \in Nat /\ max_length' \in Nat /\ size' \in Nat
    BY <1>t, <1>4, LeastFacts DEF ProvideData
  <2>5. pc' \in {"idle", "write"} /\ (pc' = "write" => buffers' # <<>>)
    BY <1>4 DEF ProvideData
  <2>6. QED
    BY <1>4, <2>1, <2>2, <2>3, <2>4, <2>5 DEF ProvideData, TypeInv, TypeOK
<1>5. CASE CopyBuffer
  <2> DEFINE buf == Head(buffers)
             n == Least(Size(buf), length)
             rest == Advance(buf, n)
  <2>1. buffers # <<>>
    BY <1>5 DEF CopyBuffer, TypeInv
  <2>2. buf \in Ranges /\ buffers' \in Seq(Ranges)
    BY <1>t, <1>5, <2>1 DEF CopyBuffer
  <2>3. Size(buf) \in Nat
    BY <2>2, SizeType
  <2>4. n \in Nat /\ n <= Size(buf) /\ n <= length
    BY <1>t, <2>3, LeastFacts
  <2>5. rest \in Ranges /\ [buf EXCEPT !.hi = buf.lo + n] \in Ranges
    BY <2>2, <2>4, RangeFacts
  <2>6. wire' \in Seq(Ranges)
    <3>1. \/ wire' = wire
          \/ wire' = Append(wire, [buf EXCEPT !.hi = buf.lo + n])
      BY <1>5 DEF CopyBuffer
    <3>2. Append(wire, [buf EXCEPT !.hi = buf.lo + n]) \in Seq(Ranges)
      BY <1>t, <2>5, SeqFacts
    <3>3. QED
      BY <1>t, <3>1, <3>2
  <2>7. length' \in Nat
    BY <1>t, <1>5, <2>4 DEF CopyBuffer
  <2>8. active_buffer' \in Seq(Ranges)
    <3>1. active_buffer' = active_buffer \/ active_buffer' = <<rest>>
      BY <1>5 DEF CopyBuffer
    <3>2. <<rest>> \in Seq(Ranges)
      BY <1>t, <2>5, SeqFacts
    <3>3. QED
      BY <1>t, <3>1, <3>2
  <2>9. /\ pc' \in {"idle", "write", "panic"}
        /\ pc' = "write" => buffers' # <<>>
    BY <1>5 DEF CopyBuffer
  <2>10. UNCHANGED <<constantVars, handleVars, chanVars, msgVars, dataVars,
                    flagVars, max_length, size, is_active, fin_sent,
                    reset_called, stop_sending_calls, peerVars>>
    BY <1>5 DEF CopyBuffer
  <2> HIDE DEF buf, n, rest
  <2>11. QED
    BY SMTT(30), <2>2, <2>6, <2>7, <2>8, <2>9, <2>10 DEF TypeInv, TypeOK
<1>6. CASE LocalClose
  <2>1. <<"Close">> \in Seq(RecvMessages)
    BY DEF RecvMessages
  <2>2. recv_msg' \in Seq(RecvMessages)
    BY <1>t, <1>6, <2>1, RecvMessageType DEF LocalClose
  <2>3. /\ fin_received_or_recv_msg_dropped' \in BOOLEAN
        /\ stop_sending_calls' \in Nat
    BY <1>t, <1>6 DEF LocalClose, RecvMessageDropped, TypeOK
  <2>4. QED
    BY <1>6, <2>2, <2>3 DEF LocalClose, TypeInv, TypeOK
<1>7. ASSUME NEW err \in ConnectionEnds \ {"local"}, CloseCallback(err)
      PROVE  TypeInv'
  <2>1. err \in {NoError} \cup ErrorKinds
    BY StreamAssumptions DEF NoError, ErrorKinds
  <2>2. <<"Close">> \in Seq(RecvMessages) /\ <<"Error", "Close">> \in Seq(RecvMessages)
    BY DEF RecvMessages
  <2>3. recv_msg' \in Seq(RecvMessages)
    BY <1>t, <1>7, <2>2, RecvMessageType DEF CloseCallback
  <2>4. active # 0 => active \in Channels
    BY <1>t, StreamAssumptions DEF TypeOK, Channels
  <2>5. chan' \in [Channels -> ChannelRecords]
    BY <1>t, <1>7, <2>1, <2>4, ChannelFacts DEF CloseCallback
  <2>6. /\ fin_received_or_recv_msg_dropped' \in BOOLEAN
        /\ stop_sending_calls' \in Nat
    BY <1>t, <1>7 DEF CloseCallback, RecvMessageDropped, TypeOK
  <2>7. QED
    BY <1>7, <2>1, <2>3, <2>5, <2>6 DEF CloseCallback, TypeInv, TypeOK
<1>8. CASE ConnectionDropped
  BY <1>8, DropContextType DEF ConnectionDropped
<1>9. QED
  BY <1>1, <1>2, <1>3, <1>4, <1>5, <1>6, <1>7, <1>8 DEF Quic, SendData

LEMMA TypeStep == TypeInv /\ [Next]_vars => TypeInv'
<1> SUFFICES ASSUME TypeInv, [Next]_vars PROVE TypeInv'
  OBVIOUS
<1>1. CASE UNCHANGED vars
  BY <1>1 DEF vars, constantVars, handleVars, chanVars, msgVars, dataVars,
     flagVars, localVars, quicVars, peerVars, TypeInv, TypeOK
<1>2. QED
  BY <1>1, TypeApp, TypePoll, TypeQuic DEF Next

(* Every variable keeps its type in every behaviour of a stream, and in    *)
(* particular every range of bytes that moves from start_send to the wire  *)
(* stays well formed.                                                      *)
THEOREM TypeCorrect == Spec => []TypeOK
<1>1. TypeInv => TypeOK
  BY DEF TypeInv
<1>2. QED
  BY <1>1, TypeInit, TypeStep, PTL DEF Spec

------------------------------------------------------------------------------
(* A sender that can still send has a receiver.  With the types the        *)
(* property is inductive: a receiver is taken from its place only to be    *)
(* moved to the next one or to be dropped, which closes its channel.       *)

(* The receiver for `sender` is in the Context's hands, or on its way.     *)
Reachable ==
  \/ sender \in {active, swap_to}
  \/ \E i \in DOMAIN control_msg : control_msg[i] = SwapSendData(sender)

LEMMA DropReceiversOpen ==
  ASSUME NEW c, NEW ks, NEW k \in Channels, DropReceivers(c, ks)[k].open
  PROVE  k \notin ks /\ c[k].open
BY DEF DropReceivers, DropReceiver

LEMMA TailKeeps ==
  ASSUME NEW S, NEW seq \in Seq(S), seq # <<>>, NEW i \in DOMAIN seq, i # 1
  PROVE  \E j \in DOMAIN Tail(seq) : Tail(seq)[j] = seq[i]
<1>1. i - 1 \in DOMAIN Tail(seq) /\ Tail(seq)[i - 1] = seq[i]
  OBVIOUS
<1>2. QED
  BY <1>1

LEMMA AppendKeeps ==
  ASSUME NEW S, NEW seq \in Seq(S), NEW e
  PROVE  /\ \A i \in DOMAIN seq : i \in DOMAIN Append(seq, e)
                                  /\ Append(seq, e)[i] = seq[i]
         /\ Len(seq) + 1 \in DOMAIN Append(seq, e)
         /\ Append(seq, e)[Len(seq) + 1] = e
OBVIOUS

(* Dropping the Context closes every channel whose receiver it holds.      *)
LEMMA DropContextSender ==
  TypeInv /\ SenderHasReceiver /\ DropContext => SenderHasReceiver'
<1> SUFFICES ASSUME TypeInv, SenderHasReceiver, DropContext,
                    sender' # 0, chan'[sender'].open
             PROVE  FALSE
  BY DEF SenderHasReceiver
<1> DEFINE ks == {active, swap_to} \cup
                   {control_msg[i].receiver : i \in DOMAIN control_msg}
<1>1. sender' = sender /\ sender \in Channels
  <2>1. sender' = sender
    BY DEF DropContext, handleVars
  <2>2. sender \in 0..MaxChannels /\ MaxChannels \in Nat
    BY StreamAssumptions DEF TypeInv, TypeOK
  <2>3. QED
    BY <2>1, <2>2 DEF Channels
<1>2. chan' = DropReceivers(chan, ks)
  BY DEF DropContext
<1>3. sender \notin ks /\ chan[sender].open
  BY <1>1, <1>2, DropReceiversOpen
<1>4. Reachable
  BY <1>1, <1>3 DEF SenderHasReceiver, Reachable
<1>5. sender \in ks
  BY <1>4 DEF Reachable, SwapSendData
<1>6. QED
  BY <1>3, <1>5

LEMMA SenderApp == TypeInv /\ SenderHasReceiver /\ App => SenderHasReceiver'
<1> SUFFICES ASSUME TypeInv, SenderHasReceiver, App,
                    sender' # 0, chan'[sender'].open
             PROVE  pc' # "gone" /\ Reachable'
  BY DEF SenderHasReceiver, Reachable
<1>t. /\ chan \in [Channels -> ChannelRecords]
      /\ control_msg \in Seq(ControlMessages)
      /\ sender \in 0..MaxChannels /\ MaxChannels \in Nat
  BY StreamAssumptions DEF TypeInv, TypeOK
<1>k. sender # 0 => sender \in Channels
  BY <1>t DEF Channels
<1>u. (sender # 0 /\ chan[sender].open) => pc # "gone" /\ Reachable
  BY DEF SenderHasReceiver, Reachable
<1>1. ASSUME NEW n \in ChunkSizes, StartSend(n)
      PROVE  pc' # "gone" /\ Reachable'
  <2>1. /\ sender' = sender /\ sender # 0 /\ chan[sender].open
        /\ UNCHANGED <<pc, active, swap_to, control_msg>>
    BY <1>1 DEF StartSend, StartSendResult, dataVars, msgVars
  <2>2. QED
    BY <1>u, <2>1 DEF Reachable
<1>2. ASSUME NEW n \in SwapSizes, SetSendChannelSize(n)
      PROVE  pc' # "gone" /\ Reachable'
  <2>1. created + 1 \in Channels /\ sender' = created + 1 /\ pc' = pc
    BY <1>2, StreamAssumptions
    DEF SetSendChannelSize, Channels, TypeInv, TypeOK
  <2>2. pc # "gone"
    <3>1. ASSUME pc = "gone" PROVE FALSE
      <4>1. chan'[sender'] = DropReceiver(NewChannel(n))
        BY <1>t, <1>2, <2>1, <3>1 DEF SetSendChannelSize
      <4>2. QED
        BY <4>1 DEF DropReceiver
    <3>2. QED
      BY <3>1
  <2>3. control_msg' = Append(control_msg, SwapSendData(sender'))
    BY <1>2, <2>1, <2>2 DEF SetSendChannelSize
  <2>4. \E i \in DOMAIN control_msg' : control_msg'[i] = SwapSendData(sender')
    BY <1>t, <2>3, AppendKeeps
  <2>5. QED
    BY <2>1, <2>2, <2>4 DEF Reachable, SwapSendData
<1>3. CASE Reset
  <2>1. /\ UNCHANGED <<sender, chan, pc, active, swap_to>>
        /\ control_msg' = Append(control_msg, ResetMsg)
    BY <1>3 DEF Reset, chanVars, dataVars
  <2>2. pc # "gone" /\ Reachable
    BY <1>u, <2>1
  <2>3. QED
    BY <1>t, <2>1, <2>2, AppendKeeps DEF Reachable, SwapSendData
<1>4. CASE PollRecv
  BY <1>4, <1>u DEF PollRecv, Reachable, chanVars, dataVars, SwapSendData
<1>5. CASE DropStream
  BY <1>5, <1>u DEF DropStream, Reachable, chanVars, dataVars, SwapSendData
<1>6. QED
  BY <1>1, <1>2, <1>3, <1>4, <1>5 DEF App

(* The four places where the SwappableStream is polled leave the sender's  *)
(* receiver where it was or move it to `active`.                           *)
LEMMA SwapKeepsSender ==
  ASSUME TypeInv, SenderHasReceiver,
         UNCHANGED <<sender, control_msg>>, pc # "gone",
         active' = PollTarget, swap_to' = SwapToAfterSwap,
         \A k \in Channels : chan'[k].open = ChanAfterSwap[k].open
  PROVE  (sender' # 0 /\ chan'[sender'].open) => Reachable'
<1> SUFFICES ASSUME sender # 0, chan'[sender].open PROVE Reachable'
  OBVIOUS
<1>1. sender \in Channels /\ chan \in [Channels -> ChannelRecords]
  BY StreamAssumptions DEF TypeInv, TypeOK, Channels
<1>2. ChanAfterSwap[sender].open
  BY <1>1
<1>3. chan[sender].open /\ ~(Swaps /\ sender = active)
  BY <1>1, <1>2 DEF ChanAfterSwap, DropReceiver
<1>4. Reachable
  BY <1>3 DEF SenderHasReceiver, Reachable
<1>5. QED
  BY <1>3, <1>4 DEF Reachable, PollTarget, SwapToAfterSwap, SwapSendData

(* The receivers of the SwappableStream are dropped: if the sender's was   *)
(* one of them its channel is closed.                                      *)
LEMMA CloseKeepsSender ==
  ASSUME TypeInv, SenderHasReceiver, sender' = sender, CloseSendData,
         \A k \in Channels :
           (\E i \in DOMAIN control_msg : control_msg[i] = SwapSendData(k)) =>
             \E i \in DOMAIN control_msg' : control_msg'[i] = SwapSendData(k)
  PROVE  (sender' # 0 /\ chan'[sender'].open) => Reachable'
<1> SUFFICES ASSUME sender # 0, chan'[sender].open PROVE Reachable'
  OBVIOUS
<1>1. sender \in Channels
  BY StreamAssumptions DEF TypeInv, TypeOK, Channels
<1>2. sender \notin {active, swap_to} /\ chan[sender].open
  BY <1>1, DropReceiversOpen DEF CloseSendData
<1>3. QED
  BY <1>1, <1>2 DEF SenderHasReceiver, Reachable, SwapSendData

(* A control message leaves the queue; every other one stays.              *)
LEMMA TailOfControl ==
  ASSUME TypeInv, control_msg # <<>>, control_msg' = Tail(control_msg),
         NEW k, \E i \in DOMAIN control_msg : control_msg[i] = SwapSendData(k),
         Head(control_msg) # SwapSendData(k)
  PROVE  \E i \in DOMAIN control_msg' : control_msg'[i] = SwapSendData(k)
<1>1. control_msg \in Seq(ControlMessages)
  BY DEF TypeInv, TypeOK
<1>2. PICK i \in DOMAIN control_msg : control_msg[i] = SwapSendData(k)
  OBVIOUS
<1>3. i # 1
  BY <1>1, <1>2
<1>4. QED
  BY <1>1, <1>2, <1>3, TailKeeps

(* The steps of Context::poll. *)
LEMMA SenderPoll == TypeInv /\ SenderHasReceiver /\ Poll => SenderHasReceiver'
<1> SUFFICES ASSUME TypeInv, SenderHasReceiver, Poll PROVE SenderHasReceiver'
  OBVIOUS
<1>t. /\ chan \in [Channels -> ChannelRecords]
      /\ sender \in 0..MaxChannels /\ MaxChannels \in Nat
  BY StreamAssumptions DEF TypeInv, TypeOK
<1>k. sender # 0 => sender \in Channels
  BY <1>t DEF Channels
<1>g. pc' # "gone" /\ ((sender' # 0 /\ chan'[sender'].open) => Reachable')
      => SenderHasReceiver'
  BY DEF SenderHasReceiver, Reachable
<1>s. (sender # 0 /\ chan[sender].open) => Reachable
  BY DEF SenderHasReceiver, Reachable
<1>1. CASE PollStart \/ PollControlEnd \/ PollNotReady
  <2>1. /\ UNCHANGED <<sender, chan, control_msg, active, swap_to>>
        /\ pc' # "gone"
    BY <1>1 DEF PollStart, PollControlEnd, PollNotReady, handleVars, chanVars,
       msgVars, dataVars
  <2>2. QED
    BY <1>g, <1>s, <2>1 DEF Reachable, SwapSendData
<1>2. CASE PollControlReset
  <2>1. /\ sender' = sender /\ pc' # "gone" /\ CloseSendData
        /\ control_msg # <<>> /\ control_msg' = Tail(control_msg)
        /\ Head(control_msg) = ResetMsg
    BY <1>2 DEF PollControlReset, ContextReset, handleVars
  <2>2. \A k \in Channels : ResetMsg # SwapSendData(k)
    BY DEF ResetMsg, SwapSendData
  <2>3. QED
    BY <1>g, <2>1, <2>2, TailOfControl, CloseKeepsSender
<1>3. CASE PollControlSwap
  <2> DEFINE new_receiver == Head(control_msg).receiver
  <2>1. /\ sender' = sender /\ pc' # "gone" /\ active' = active
        /\ control_msg # <<>> /\ control_msg' = Tail(control_msg)
        /\ IF active # 0
           THEN swap_to' = new_receiver /\ chan' = DropReceivers(chan, {swap_to})
           ELSE /\ swap_to' = swap_to
                /\ chan' = DropReceivers(chan, {new_receiver})
    BY <1>3 DEF PollControlSwap, handleVars
  <2> SUFFICES ASSUME sender # 0, chan'[sender].open PROVE Reachable'
    BY <1>g, <2>1
  <2>2. chan[sender].open
    BY <1>k, <2>1, DropReceiversOpen
  <2>3. /\ active # 0 => sender # swap_to
        /\ active = 0 => sender # new_receiver
    BY <1>k, <2>1, DropReceiversOpen
  <2>4. CASE sender \in {active, swap_to}
    BY <2>1, <2>3, <2>4 DEF Reachable
  <2>5. CASE \E i \in DOMAIN control_msg : control_msg[i] = SwapSendData(sender)
    <3>1. CASE Head(control_msg) = SwapSendData(sender)
      <4>1. new_receiver = sender
        BY <3>1 DEF SwapSendData
      <4>2. QED
        BY <2>1, <2>3, <4>1 DEF Reachable
    <3>2. CASE Head(control_msg) # SwapSendData(sender)
      <4>1. \E i \in DOMAIN control_msg' : control_msg'[i] = SwapSendData(sender)
        BY <2>1, <2>5, <3>2, TailOfControl
      <4>2. QED
        BY <2>1, <4>1 DEF Reachable, SwapSendData
    <3>3. QED
      BY <3>1, <3>2
  <2>6. QED
    BY <1>s, <2>2, <2>4, <2>5 DEF Reachable
<1>4. CASE PollSendDataItem
  <2>1. /\ UNCHANGED <<sender, control_msg>> /\ pc # "gone" /\ pc' # "gone"
        /\ active' = PollTarget /\ swap_to' = SwapToAfterSwap /\ PollHasItem
        /\ chan' = [ChanAfterSwap EXCEPT ![PollTarget] = Dequeue(@)]
    BY <1>4 DEF PollSendDataItem, handleVars, msgVars
  <2>2. ChanAfterSwap \in [Channels -> ChannelRecords]
    BY SwappableFacts DEF TypeInv
  <2>3. \A k \in Channels : chan'[k].open = ChanAfterSwap[k].open
    BY <2>1, <2>2 DEF Dequeue, ChannelRecords
  <2>4. QED
    BY <1>g, <2>1, <2>3, SwapKeepsSender
<1>5. CASE PollSendDataNone
  BY <1>5, <1>g, CloseKeepsSender DEF PollSendDataNone, handleVars, msgVars
<1>6. CASE PollSendDataIdle
  <2>1. UNCHANGED <<sender, control_msg>> /\ pc # "gone" /\ pc' # "gone"
    BY <1>6 DEF PollSendDataIdle, handleVars, msgVars
  <2>2. CASE UNCHANGED <<chan, dataVars>>
    BY <1>g, <1>s, <2>1, <2>2 DEF dataVars, Reachable, SwapSendData
  <2>3. CASE chan' = ChanAfterSwap /\ active' = PollTarget
             /\ swap_to' = SwapToAfterSwap
    BY <1>g, <2>1, <2>3, SwapKeepsSender
  <2>4. QED
    BY <1>6, <2>2, <2>3 DEF PollSendDataIdle
<1>7. CASE PollReady
  BY <1>7, DropContextSender DEF PollReady
<1>8. QED
  BY <1>1, <1>2, <1>3, <1>4, <1>5, <1>6, <1>7 DEF Poll

(* The callbacks. *)
LEMMA SenderQuic == TypeInv /\ SenderHasReceiver /\ Quic => SenderHasReceiver'
<1> SUFFICES ASSUME TypeInv, SenderHasReceiver, Quic PROVE SenderHasReceiver'
  OBVIOUS
<1>t. /\ chan \in [Channels -> ChannelRecords]
      /\ sender \in 0..MaxChannels /\ MaxChannels \in Nat
  BY StreamAssumptions DEF TypeInv, TypeOK
<1>k. sender # 0 => sender \in Channels
  BY <1>t DEF Channels
<1>g. pc' # "gone" /\ ((sender' # 0 /\ chan'[sender'].open) => Reachable')
      => SenderHasReceiver'
  BY DEF SenderHasReceiver, Reachable
<1>s. (sender # 0 /\ chan[sender].open) => Reachable
  BY DEF SenderHasReceiver, Reachable
<1>h. ASSUME UNCHANGED <<sender, chan, control_msg, active, swap_to>>,
             pc' # "gone"
      PROVE  SenderHasReceiver'
  BY <1>g, <1>s, <1>h DEF Reachable, SwapSendData
<1>1. ASSUME NEW event \in Events, NEW len \in 0..1, Callback(event, len)
      PROVE  SenderHasReceiver'
  <2>1. UNCHANGED <<sender, control_msg>> /\ pc' # "gone"
    BY <1>1 DEF Callback, handleVars
  <2>2. CASE event = "stop_sending"
    BY <1>1, <1>g, <2>1, <2>2, CloseKeepsSender DEF Callback
  <2>3. CASE event # "stop_sending"
    <3>1. UNCHANGED <<chan, active, swap_to>>
      BY <1>1, <2>3 DEF Callback, dataVars
    <3>2. QED
      BY <1>h, <2>1, <3>1
  <2>4. QED
    BY <2>2, <2>3
<1>2. ASSUME NEW m \in PacketSizes, PrepareToSend(m) PROVE SenderHasReceiver'
  BY <1>2, <1>h DEF PrepareToSend, handleVars, chanVars, msgVars, dataVars
<1>3. CASE CollectBuffer
  <2>1. /\ UNCHANGED <<sender, control_msg>> /\ pc # "gone" /\ pc' # "gone"
        /\ active' = PollTarget /\ swap_to' = SwapToAfterSwap
        /\ chan' = [ChanAfterSwap EXCEPT ![PollTarget] = Dequeue(@)]
    BY <1>3 DEF CollectBuffer, handleVars, msgVars
  <2>2. ChanAfterSwap \in [Channels -> ChannelRecords]
    BY SwappableFacts DEF TypeInv
  <2>3. \A k \in Channels : chan'[k].open = ChanAfterSwap[k].open
    BY <2>1, <2>2 DEF Dequeue, ChannelRecords
  <2>4. QED
    BY <1>g, <2>1, <2>3, SwapKeepsSender
<1>4. CASE ProvideData
  <2>1. UNCHANGED <<sender, control_msg>> /\ pc # "gone" /\ pc' # "gone"
    BY <1>4 DEF ProvideData, handleVars, msgVars
  <2>2. CASE UNCHANGED <<chan, dataVars>>
    BY <1>h, <2>1, <2>2 DEF dataVars
  <2>3. CASE chan' = ChanAfterSwap /\ active' = PollTarget
             /\ swap_to' = SwapToAfterSwap
    BY <1>g, <2>1, <2>3, SwapKeepsSender
  <2>4. QED
    BY <1>4, <2>2, <2>3 DEF ProvideData
<1>5. CASE CopyBuffer
  BY <1>5, <1>h DEF CopyBuffer, handleVars, chanVars, msgVars, dataVars
<1>6. CASE LocalClose
  BY <1>6, <1>h DEF LocalClose, handleVars, chanVars, dataVars
<1>7. ASSUME NEW err \in ConnectionEnds \ {"local"}, CloseCallback(err)
      PROVE  SenderHasReceiver'
  <2>1. UNCHANGED <<sender, control_msg, active, swap_to>> /\ pc' # "gone"
    BY <1>7 DEF CloseCallback, handleVars, dataVars
  <2>2. \A k \in Channels : chan'[k].open = chan[k].open
    BY <1>t, <1>7 DEF CloseCallback, PropagateError, ChannelRecords
  <2>3. QED
    BY <1>g, <1>k, <1>s, <2>1, <2>2 DEF Reachable, SwapSendData
<1>8. CASE ConnectionDropped
  BY <1>8, DropContextSender DEF ConnectionDropped
<1>9. QED
  BY <1>1, <1>2, <1>3, <1>4, <1>5, <1>6, <1>7, <1>8 DEF Quic, SendData

LEMMA SenderInit == Init => SenderHasReceiver
BY DEF Init, StreamNew, ContextNew, SenderHasReceiver

LEMMA SenderStep ==
  TypeInv /\ SenderHasReceiver /\ [Next]_vars => SenderHasReceiver'
<1> SUFFICES ASSUME TypeInv, SenderHasReceiver, [Next]_vars
             PROVE  SenderHasReceiver'
  OBVIOUS
<1>1. CASE UNCHANGED vars
  BY <1>1 DEF vars, handleVars, chanVars, msgVars, dataVars,
     SenderHasReceiver, SwapSendData
<1>2. QED
  BY <1>1, SenderApp, SenderPoll, SenderQuic DEF Next

(* A sender that accepts data always has a receiver the Context will poll, *)
(* whatever the order of resizes, drops, polls, callbacks and the end of   *)
(* the connection.                                                         *)
THEOREM SenderAlwaysHasReceiver == Spec => []SenderHasReceiver
BY SenderInit, SenderStep, TypeInit, TypeStep, PTL DEF Spec
==============================================================================
