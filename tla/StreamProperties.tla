-------------------------- MODULE StreamProperties ---------------------------
(***************************************************************************)
(* What a stream promises: the data the application hands over reaches     *)
(* picoquic once, in order and completely; dropping the handle ends the    *)
(* stream gracefully; and everything the event loop holds for the stream   *)
(* is released.                                                            *)
(***************************************************************************)
EXTENDS Stream

Ranges == {r \in [lo : Nat, hi : Nat] : r.lo <= r.hi}
ChannelRecords ==
  [queue : Seq(Ranges), size : Nat, open : BOOLEAN,
   error : {NoError} \cup ErrorKinds]
ControlMessages ==
  [type : {"Reset", "SwapSendData"}, receiver : 0..MaxChannels]

RecvMessages == {"RecvData", "Reset", "Close", "Error"}

(* The type of every variable of the model.                                *)
TypeOK ==
  /\ id \in StreamIdSet /\ is_client_con \in ClientSides
  /\ handle \in {"alive", "recv_dropped", "control_dropped", "dropped"}
  /\ sender \in 0..MaxChannels /\ created \in 1..MaxChannels
  /\ stream_reset \in BOOLEAN /\ reset_requested \in BOOLEAN
  /\ accepted \in Nat /\ sends \in 0..MaxSends
  /\ chan \in [Channels -> ChannelRecords]
  /\ control_msg \in Seq(ControlMessages)
  /\ recv_msg \in Seq(RecvMessages)
  /\ pc \in {"idle", "control", "send", "check", "collect", "write", "panic",
             "gone"}
  /\ active \in 0..MaxChannels /\ swap_to \in 0..MaxChannels
  /\ data_send \in BOOLEAN /\ stop_sending_or_fin_sent \in BOOLEAN
  /\ fin_received_or_recv_msg_dropped \in BOOLEAN
  /\ active_buffer \in Seq(Ranges) /\ buffers \in Seq(Ranges)
  /\ max_length \in Nat /\ size \in Nat /\ length \in Nat
  /\ is_active \in BOOLEAN /\ fin_sent \in BOOLEAN /\ reset_called \in BOOLEAN
  /\ wire \in Seq(Ranges) /\ stop_sending_calls \in Nat
  /\ peer_done \in BOOLEAN /\ peer_stop \in BOOLEAN
  /\ received \in 0..MaxRecv
  /\ conn \in {"open", "closed", "dead"}
  /\ conn_error \in {NoError} \cup ErrorKinds

(* The application, the peer or the connection gave up the stream's data.  *)
Abandoned == reset_requested \/ peer_stop \/ conn # "open"

Covers(seq, b) == \E i \in DOMAIN seq : seq[i].lo <= b /\ b < seq[i].hi

OnWire(b) == Covers(wire, b)

InPipeline(b) ==
  \/ Covers(buffers, b) \/ Covers(active_buffer, b)
  \/ \E k \in Channels : Covers(chan[k].queue, b)

------------------------------------------------------------------------------
(* handle_send_data never finds two remainders ("Active buffer should      *)
(* never be set twice!", stream.rs): collecting stops with the first       *)
(* buffer that does not fit.                                               *)
NoPanic == pc # "panic"

(* The bytes handed to picoquic are in the order in which start_send       *)
(* accepted them, and none is handed over twice: across resizes of the     *)
(* channel, packets smaller than a chunk, and polls between two packets.   *)
WireInOrder ==
  /\ \A i \in DOMAIN wire : wire[i].lo < wire[i].hi /\ wire[i].hi <= accepted
  /\ \A i, j \in DOMAIN wire : i < j => wire[i].hi <= wire[j].lo

(* Every byte that start_send accepted is on the wire or still on its way, *)
(* unless somebody gave the stream up: no poll, swap or drop loses one.    *)
NoAcceptedDataLost ==
  ~Abandoned =>
    \A b \in 0..(accepted - 1) : OnWire(b) \/ (pc # "gone" /\ InPipeline(b))

(* A FIN follows all the data: when picoquic was told `fin`, the sender is *)
(* gone and every accepted byte is on the wire.                            *)
FinCompletesTheStream ==
  (fin_sent /\ pc # "write" /\ ~Abandoned) =>
    sender = 0 /\ \A b \in 0..(accepted - 1) : OnWire(b)

(* Dropping the handle resets only a stream that carried no data (tests    *)
(* empty_stream_reset_and_no_more_send_on_drop and                         *)
(* none_empty_stream_set_fin_bit_on_drop).                                 *)
ResetOnlyWithoutData == (reset_called /\ ~Abandoned) => accepted = 0

(* The connection forgets a stream only when both directions are over: its *)
(* sending side was finished, reset or stopped and its receiving side was  *)
(* finished by the peer, or given up by the application, and then the peer *)
(* was told: no way to the removal, by a poll or by a callback, skips      *)
(* picoquic_stop_sending.                                                  *)
RemovedOnlyWhenFinished ==
  (pc = "gone" /\ conn = "open") =>
    /\ \/ peer_done \/ NeverReceives(id, is_client_con)
       \/ handle # "alive" /\ stop_sending_calls = 1
    /\ \/ fin_sent \/ reset_called \/ peer_stop
       \/ ~HasSendChannel(id, is_client_con)

(* A sender that can still send has a receiver that the Context will poll: *)
(* nothing is accepted into a channel nobody reads.                        *)
SenderHasReceiver ==
  (sender # 0 /\ chan[sender].open) =>
    /\ pc # "gone"
    /\ \/ sender \in {active, swap_to}
       \/ \E i \in DOMAIN control_msg : control_msg[i] = SwapSendData(sender)

(* picoquic_stop_sending is called at most once, for a direction the peer  *)
(* uses, when nobody can read it any more, and not after a callback has    *)
(* brought the peer's FIN or reset.  The one call that comes with the FIN  *)
(* there already is made by that callback itself: it delivers the data     *)
(* that came with the FIN first, and finds the handle gone.                *)
StopSendingOnce ==
  [][stop_sending_calls' # stop_sending_calls =>
       /\ stop_sending_calls = 0 /\ stop_sending_calls' = 1
       /\ handle # "alive" /\ ~NeverReceives(id, is_client_con)
       /\ ~peer_done /\ (peer_done' => received' > received)]_vars

(* propagate_error: "Channel the given error to the `Sender` side": when   *)
(* the connection fails, the sender the application holds learns why.      *)
ConnectionErrorReachesSender ==
  [][(conn_error' # conn_error /\ sender # 0 /\ chan[sender].open) =>
       chan'[sender].error = conn_error']_vars

(* The sender of a stream that was never resized knows the error of its    *)
(* connection from then on, also when the channel is closed and drained    *)
(* afterwards, unless the sending side had been stopped before.            *)
ErrorReachesSender ==
  (/\ conn_error # NoError /\ sender # 0 /\ created = 1
   /\ ~peer_stop /\ ~reset_requested) => chan[sender].error = conn_error

------------------------------------------------------------------------------
(* Fairness.  The event loop polls the Context again and again (every wake *)
(* up, and at least each 10 s) and finishes every callback it starts;      *)
(* picoquic keeps asking an active stream for data (it has credit from     *)
(* time to time).  The application and the peer owe nothing.               *)
Fairness ==
  /\ WF_vars(Poll) /\ WF_vars(SendData) /\ WF_vars(ConnectionDropped)
  /\ SF_vars(\E m \in PacketSizes : PrepareToSend(m))

FairSpec == Spec /\ Fairness

MaxBytes == MaxSends * (CHOOSE n \in ChunkSizes : \A m \in ChunkSizes : m <= n)

(* No resize overtakes another: while a receiver waits in swap_to there is *)
(* no message that would replace it.                                       *)
OneResizeAtATime ==
  swap_to # 0 => \A i \in DOMAIN control_msg : control_msg[i].receiver = 0

(* What start_send accepted is eventually handed to picoquic, unless the   *)
(* stream is given up or a resize overtakes another.                       *)
AcceptedDataIsSent ==
  []OneResizeAtATime =>
    \A b \in 0..(MaxBytes - 1) : (accepted > b) ~> (OnWire(b) \/ Abandoned)

(* Once the handle is dropped, the connection eventually forgets the       *)
(* stream, or ends.                                                        *)
DroppedStreamIsForgotten == (handle = "dropped") ~> (pc = "gone" \/ conn # "open")
==============================================================================
