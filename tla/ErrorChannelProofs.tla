------------------------- MODULE ErrorChannelProofs --------------------------
(***************************************************************************)
(* Proofs about module ErrorChannel, for any number of requests.           *)
(***************************************************************************)
EXTENDS ErrorChannel, TLAPS

(* Where the receiver can be in check_and_handle_error. *)
ToDo == {<<>>, <<"propagate_error", "close", "poll">>, <<"close", "poll">>,
         <<"poll">>, <<"dropped">>}

Channels == [queue : Seq(Requests), size : Nat, open : BOOLEAN,
             error : {NoError} \cup Errors]

TypeInv ==
  /\ chan \in Channels /\ DOMAIN future = Requests
  /\ error \in {NoError} \cup Errors /\ to_do \in ToDo

(* The receiver's side: the channel is closed only after the error was put *)
(* in its slot, and is drained before the Context can be dropped.          *)
ReceiverInv ==
  /\ to_do \notin {<<>>, <<"dropped">>} => error # NoError
  /\ chan.open <=> \/ to_do = <<"propagate_error", "close", "poll">>
                   \/ to_do = <<"close", "poll">>
                   \/ to_do = <<>> /\ error = NoError
  /\ ~chan.open => chan.error = error
  /\ to_do \in {<<>>, <<"close", "poll">>} => chan.error = error
  /\ (to_do = <<>> /\ error # NoError) => chan.queue = <<>>

(* The senders' side: nobody is refused by an open channel.                *)
SendersInv ==
  chan.open => \A r \in Requests :
    future[r] \notin {"refused", "closed", "Normal", "Canceled"}

ErrorInv ==
  TypeInv /\ ReceiverInv /\ SendersInv /\ RefusedRequestLearnsError

LEMMA ErrorInit == Init => ErrorInv
<1> SUFFICES ASSUME Init PROVE ErrorInv
  OBVIOUS
<1>1. TypeInv
  BY DEF Init, TypeInv, Channels, NewChannel, ToDo
<1>2. ReceiverInv /\ SendersInv /\ RefusedRequestLearnsError
  BY DEF Init, ReceiverInv, SendersInv, RefusedRequestLearnsError, NewChannel
<1>3. QED
  BY <1>1, <1>2 DEF ErrorInv

(* What the operations leave of a channel. *)
LEMMA EnqueueFacts ==
  ASSUME NEW c \in Channels, NEW r \in Requests
  PROVE  /\ Enqueue(c, r) \in Channels
         /\ Enqueue(c, r).open = c.open /\ Enqueue(c, r).error = c.error
<1>1. /\ c.queue \in Seq(Requests) /\ c.size \in Nat /\ c.open \in BOOLEAN
      /\ c.error \in {NoError} \cup Errors
  BY DEF Channels
<1>2. Append(c.queue, r) \in Seq(Requests)
  BY <1>1
<1>3. QED
  BY <1>1, <1>2 DEF Enqueue, Channels

LEMMA PropagateFacts ==
  ASSUME NEW c \in Channels, NEW err \in {NoError} \cup Errors
  PROVE  /\ PropagateError(c, err) \in Channels
         /\ PropagateError(c, err).open = c.open
         /\ PropagateError(c, err).error = err
BY DEF PropagateError, Channels

LEMMA ChannelFacts ==
  ASSUME NEW c \in Channels
  PROVE  /\ c.queue # <<>> =>
              /\ Head(c.queue) \in Requests /\ Dequeue(c) \in Channels
              /\ Dequeue(c).open = c.open /\ Dequeue(c).error = c.error
         /\ DropReceiver(c) \in Channels
         /\ DropReceiver(c).open = FALSE /\ DropReceiver(c).error = c.error
         /\ DropReceiver(c).queue = <<>>
         /\ [c EXCEPT !.open = FALSE] \in Channels
         /\ [c EXCEPT !.open = FALSE].open = FALSE
         /\ [c EXCEPT !.open = FALSE].error = c.error
<1>1. /\ c.queue \in Seq(Requests) /\ c.size \in Nat /\ c.open \in BOOLEAN
      /\ c.error \in {NoError} \cup Errors
  BY DEF Channels
<1>2. ASSUME c.queue # <<>>
      PROVE  /\ Head(c.queue) \in Requests /\ Dequeue(c) \in Channels
             /\ Dequeue(c).open = c.open /\ Dequeue(c).error = c.error
  <2>1. Head(c.queue) \in Requests /\ Tail(c.queue) \in Seq(Requests)
    BY <1>1, <1>2
  <2>2. QED
    BY <2>1 DEF Dequeue, Channels
<1>3. /\ DropReceiver(c) \in Channels
      /\ DropReceiver(c).open = FALSE /\ DropReceiver(c).error = c.error
      /\ DropReceiver(c).queue = <<>>
  BY <1>1 DEF DropReceiver, Channels
<1>4. /\ [c EXCEPT !.open = FALSE] \in Channels
      /\ [c EXCEPT !.open = FALSE].open = FALSE
      /\ [c EXCEPT !.open = FALSE].error = c.error
  BY <1>1 DEF Channels
<1>5. QED
  BY <1>2, <1>3, <1>4

(* The answer of one request: the others keep theirs.                      *)
LEMMA AnswerFacts ==
  ASSUME DOMAIN future = Requests, NEW r \in Requests, NEW a, Answer(r, a)
  PROVE  /\ DOMAIN future' = Requests /\ future'[r] = a
         /\ \A q \in Requests : q # r => future'[q] = future[q]
BY DEF Answer

LEMMA SenderStep ==
  ASSUME ErrorInv, NEW r \in Requests,
         StartSend(r) \/ IsClosed(r) \/ CheckForError(r)
  PROVE  ErrorInv'
<1>t. /\ chan \in Channels /\ DOMAIN future = Requests
      /\ UNCHANGED <<error, to_do>>
  BY DEF ErrorInv, TypeInv, StartSend, IsClosed, CheckForError
<1>1. /\ chan' \in Channels
      /\ chan'.open = chan.open /\ chan'.error = chan.error
      /\ ~chan.open => chan' = chan
  <2>1. chan' = chan \/ (chan.open /\ chan' = Enqueue(chan, r))
    BY DEF StartSend, IsClosed, CheckForError
  <2>2. CASE chan' = Enqueue(chan, r) /\ chan.open
    BY <1>t, <2>2, EnqueueFacts
  <2>3. QED
    BY <1>t, <2>1, <2>2
<1>2. (to_do = <<>> /\ error # NoError) => chan'.queue = <<>>
  BY <1>1 DEF ErrorInv, ReceiverInv
<1>3. ReceiverInv'
  BY <1>t, <1>1, <1>2 DEF ErrorInv, ReceiverInv
<1>4. PICK a : Answer(r, a)
  BY DEF StartSend, IsClosed, CheckForError
<1>5. /\ DOMAIN future' = Requests /\ future'[r] = a
      /\ \A q \in Requests : q # r => future'[q] = future[q]
  BY <1>t, <1>4, AnswerFacts
<1>6. CASE StartSend(r)
  <2>1. future'[r] = IF chan.open THEN "waiting" ELSE "refused"
    BY <1>t, <1>6, AnswerFacts DEF StartSend
  <2>2. QED
    BY <1>t, <1>1, <1>3, <1>5, <2>1
    DEF ErrorInv, TypeInv, SendersInv, RefusedRequestLearnsError
<1>7. CASE IsClosed(r)
  <2>1. ~chan.open
    BY <1>7 DEF IsClosed, ErrorInv, SendersInv
  <2>2. future'[r] = "closed"
    BY <1>t, <1>7, <2>1, AnswerFacts DEF IsClosed
  <2>3. QED
    BY <1>t, <1>1, <1>3, <1>5, <2>1, <2>2
    DEF ErrorInv, TypeInv, SendersInv, RefusedRequestLearnsError
<1>8. CASE CheckForError(r)
  <2>1. ~chan.open /\ chan.error = error
    BY <1>8 DEF CheckForError, ErrorInv, SendersInv, ReceiverInv
  <2>2. future'[r] = IF error = NoError THEN "Normal" ELSE error
    BY <1>t, <1>8, <2>1, AnswerFacts DEF CheckForError
  <2>3. error \notin {"Normal", "Canceled"}
    BY ErrorChannelAssumptions DEF ErrorInv, TypeInv, ErrorKinds, NoError
  <2>4. QED
    BY <1>t, <1>1, <1>3, <1>5, <2>1, <2>2, <2>3
    DEF ErrorInv, TypeInv, SendersInv, RefusedRequestLearnsError
<1>9. QED
  BY <1>6, <1>7, <1>8

LEMMA ReceiverStep ==
  ASSUME ErrorInv,
         \/ Receive \/ \E err \in Errors : CheckAndHandleError(err)
         \/ CallPropagateError \/ Close \/ PollRequest \/ PollEnds \/ Drop
  PROVE  ErrorInv'
<1>t. /\ chan \in Channels /\ DOMAIN future = Requests
      /\ error \in {NoError} \cup Errors /\ to_do \in ToDo
      /\ ReceiverInv /\ SendersInv /\ RefusedRequestLearnsError
  BY DEF ErrorInv, TypeInv
<1>n. NoError \notin Errors /\ Errors \cap {"refused", "closed", "Normal", "Canceled"} = {}
  BY ErrorChannelAssumptions DEF ErrorKinds, NoError
<1>1. CASE Receive
  <2>1. /\ chan' \in Channels
        /\ chan'.open = chan.open /\ chan'.error = chan.error
        /\ Head(chan.queue) \in Requests
    BY <1>t, <1>1, ChannelFacts DEF Receive
  <2>2. /\ DOMAIN future' = Requests
        /\ \A q \in Requests : future'[q] = future[q] \/ future'[q] = "Ok"
    BY <1>t, <1>1, <2>1, AnswerFacts DEF Receive
  <2>3. error = NoError /\ UNCHANGED <<error, to_do>>
    BY <1>1 DEF Receive
  <2>4. QED
    BY <1>t, <2>1, <2>2, <2>3
    DEF ErrorInv, TypeInv, ReceiverInv, SendersInv, RefusedRequestLearnsError
<1>2. ASSUME NEW err \in Errors, CheckAndHandleError(err) PROVE ErrorInv'
  <2>1. /\ to_do = <<>> /\ error = NoError /\ error' = err /\ err # NoError
        /\ to_do' = <<"propagate_error", "close", "poll">>
        /\ UNCHANGED <<chan, future>>
    BY <1>n, <1>2 DEF CheckAndHandleError, Order
  <2>2. chan.open
    BY <1>t, <2>1 DEF ReceiverInv
  <2>3. TypeInv'
    BY <1>t, <2>1 DEF TypeInv, ToDo
  <2>4. ReceiverInv'
    BY <2>1, <2>2 DEF ReceiverInv
  <2>5. QED
    BY <1>t, <2>1, <2>2, <2>3, <2>4
    DEF ErrorInv, SendersInv, RefusedRequestLearnsError
<1>3. CASE CallPropagateError
  <2>1. to_do = <<"propagate_error", "close", "poll">>
    BY <1>t, <1>3 DEF CallPropagateError, IsNext, ToDo
  <2>2. /\ to_do' = <<"close", "poll">> /\ UNCHANGED <<future, error>>
        /\ chan' = PropagateError(chan, error)
    BY <1>3, <2>1 DEF CallPropagateError
  <2>3. chan' \in Channels /\ chan'.open = chan.open /\ chan'.error = error
    BY <1>t, <2>2, PropagateFacts DEF TypeInv
  <2>4. chan.open /\ error # NoError
    BY <1>t, <2>1 DEF ReceiverInv
  <2>5. TypeInv' /\ ReceiverInv'
    BY <1>t, <2>2, <2>3, <2>4 DEF TypeInv, ToDo, ReceiverInv
  <2>6. QED
    BY <1>t, <2>2, <2>3, <2>5
    DEF ErrorInv, SendersInv, RefusedRequestLearnsError
<1>4. CASE Close
  <2>1. to_do = <<"close", "poll">>
    BY <1>t, <1>4 DEF Close, IsNext, ToDo
  <2>2. /\ to_do' = <<"poll">> /\ UNCHANGED <<future, error>>
        /\ chan' = [chan EXCEPT !.open = FALSE]
    BY <1>4, <2>1 DEF Close
  <2>3. chan' \in Channels /\ chan'.open = FALSE /\ chan'.error = chan.error
    BY <1>t, <2>2, ChannelFacts
  <2>4. chan.error = error /\ error # NoError
    BY <1>t, <2>1 DEF ReceiverInv
  <2>5. TypeInv' /\ ReceiverInv'
    BY <1>t, <2>2, <2>3, <2>4 DEF TypeInv, ToDo, ReceiverInv
  <2>6. QED
    BY <1>t, <2>2, <2>3, <2>5
    DEF ErrorInv, SendersInv, RefusedRequestLearnsError
<1>5. CASE PollRequest \/ PollEnds
  <2>1. to_do = <<"poll">> /\ error' = error
    BY <1>t, <1>5 DEF PollRequest, PollEnds, IsNext, ToDo
  <2>2. ~chan.open /\ chan.error = error /\ error # NoError
    BY <1>t, <2>1 DEF ReceiverInv
  <2>3. CASE PollRequest
    <3>1. /\ chan' \in Channels /\ ~chan'.open /\ chan'.error = error
          /\ Head(chan.queue) \in Requests /\ to_do' = to_do
      BY <1>t, <2>2, <2>3, ChannelFacts DEF PollRequest
    <3>2. /\ DOMAIN future' = Requests
          /\ \A q \in Requests : future'[q] = future[q] \/ future'[q] = error
      BY <1>t, <2>3, <3>1, AnswerFacts DEF PollRequest
    <3>3. QED
      BY <1>t, <1>n, <2>1, <2>2, <3>1, <3>2
      DEF ErrorInv, TypeInv, ReceiverInv, SendersInv, RefusedRequestLearnsError
  <2>4. CASE PollEnds
    <3>1. /\ to_do' = <<>> /\ UNCHANGED <<chan, future>> /\ chan.queue = <<>>
      BY <2>1, <2>4 DEF PollEnds
    <3>2. QED
      BY <1>t, <2>1, <2>2, <3>1
      DEF ErrorInv, TypeInv, ToDo, ReceiverInv, SendersInv,
          RefusedRequestLearnsError
  <2>5. QED
    BY <1>5, <2>3, <2>4
<1>6. CASE Drop
  <2>1. /\ to_do = <<>> /\ to_do' = <<"dropped">> /\ error' = error
        /\ chan' = DropReceiver(chan) /\ DOMAIN future' = Requests
    BY <1>6 DEF Drop
  <2>2. /\ chan' \in Channels /\ ~chan'.open /\ chan'.error = chan.error
        /\ chan'.queue = <<>>
    BY <1>t, <2>1, ChannelFacts
  <2>3. chan.error = error
    BY <1>t, <2>1 DEF ReceiverInv
  <2>4. ASSUME error # NoError PROVE \A r \in Requests : future'[r] = future[r]
    <3>1. chan.queue = <<>>
      BY <1>t, <2>1, <2>4 DEF ReceiverInv
    <3>2. QED
      BY <1>6, <3>1 DEF Drop
  <2>5. QED
    BY <1>t, <2>1, <2>2, <2>3, <2>4
    DEF ErrorInv, TypeInv, ToDo, ReceiverInv, SendersInv,
        RefusedRequestLearnsError
<1>7. QED
  BY <1>1, <1>2, <1>3, <1>4, <1>5, <1>6

(* A request that races with check_and_handle_error gets its stream or the *)
(* error of the connection, for any number of senders on any threads, in   *)
(* every order of the locks that they and the receiver take.               *)
THEOREM RefusedRequestsLearnError == Spec => []RefusedRequestLearnsError
<1>1. ErrorInv /\ [Next]_vars => ErrorInv'
  <2> SUFFICES ASSUME ErrorInv, [Next]_vars PROVE ErrorInv'
    OBVIOUS
  <2>1. CASE UNCHANGED vars
    BY <2>1 DEF vars, ErrorInv, TypeInv, ReceiverInv, SendersInv,
       RefusedRequestLearnsError
  <2>2. QED
    BY <2>1, SenderStep, ReceiverStep DEF Next
<1>2. ErrorInv => RefusedRequestLearnsError
  BY DEF ErrorInv
<1>3. QED
  BY <1>1, <1>2, ErrorInit, PTL DEF Spec
==============================================================================
