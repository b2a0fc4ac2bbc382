-------------------------- MODULE ConnectionProofs ---------------------------
(***************************************************************************)
(* Proofs about module Connection, for every choice of its constants.      *)
(***************************************************************************)
EXTENDS ConnectionProperties, TLAPS

(* The references to the connection's Context.  Closing the connection in  *)
(* PollCloseRecv needs that the Context was not closed since its poll      *)
(* began, and that an open Context has both of its references.             *)
RefInv ==
  /\ listed \in BOOLEAN /\ raw \in BOOLEAN /\ registered \in BOOLEAN
  /\ closed \in BOOLEAN
  /\ ~closed => listed /\ raw
  /\ pc \in {"requests", "close"} => ~closed
  /\ CallbackHasContext

LEMMA RefInit == Init => RefInv
BY DEF Init, ContextNew, RefInv, CallbackHasContext

(* A close event gives back picoquic's reference.                          *)
LEMMA RefHandleClose ==
  ASSUME NEW err, RefInv, raw, HandleClose(err),
         pc' \notin {"requests", "close"}
  PROVE  RefInv'
<1>1. /\ raw' = FALSE /\ closed' = TRUE /\ listed' = listed
      /\ cnx_state' = "disconnected"
  BY DEF HandleClose
<1>2. registered' = listed
  <2>1. CASE err # NoError
    BY <2>1 DEF HandleClose
  <2>2. CASE err = NoError /\ listed
    BY <2>2 DEF HandleClose, RefInv, CallbackHasContext
  <2>3. CASE err = NoError /\ ~listed
    BY <2>3 DEF HandleClose, DropContext, RefInv
  <2>4. QED
    BY <2>1, <2>2, <2>3
<1>3. QED
  BY <1>1, <1>2 DEF RefInv, CallbackHasContext

LEMMA RefStep == RefInv /\ [Next]_vars => RefInv'
<1> SUFFICES ASSUME RefInv, [Next]_vars PROVE RefInv'
  OBVIOUS
<1>h. ASSUME UNCHANGED <<listed, raw, registered, closed, cnx_state>>,
             pc' \in {"requests", "close"} => ~closed
      PROVE  RefInv'
  BY <1>h DEF RefInv, CallbackHasContext
<1>t. pc \in {"requests", "close"} => ~closed
  BY DEF RefInv
<1> USE DEF appVars, refVars, ctxVars, loopVars, quicVars
<1>1. ASSUME NEW r \in Requests, NEW stype \in StreamTypes, NewStream(r, stype)
      PROVE  RefInv'
  BY <1>h, <1>t, <1>1 DEF NewStream
<1>2. CASE PollConnection \/ \E close \in BOOLEAN : DropConnection(close)
  BY <1>h, <1>t, <1>2 DEF PollConnection, DropConnection
<1>3. CASE Wake \/ PollUnlisted \/ CreateStreamEnd \/ ContextKept \/ EndOfLoop
  BY <1>h, <1>t, <1>3 DEF Wake, PollUnlisted, CreateStreamEnd, ContextKept,
     EndOfLoop
<1>4. CASE PollClosed
  <2>1. /\ raw' = raw /\ closed' = closed /\ listed' = FALSE /\ closed
        /\ cnx_state' = cnx_state /\ pc' = "check"
    BY <1>4 DEF PollClosed, Retained
  <2>2. registered' = raw
    BY <1>4 DEF PollClosed, Retained, DropContext, RefInv, CallbackHasContext
  <2>3. QED
    BY <2>1, <2>2 DEF RefInv, CallbackHasContext
<1>5. ASSUME NEW done, PollStreams(done) PROVE RefInv'
  BY <1>h, <1>5 DEF PollStreams
<1>6. CASE CreateStream
  BY <1>h, <1>t, <1>6 DEF CreateStream
<1>7. CASE PollCloseRecv
  <2>1. UNCHANGED <<listed, raw, registered>> /\ pc' = "check" /\ ~closed
    BY <1>t, <1>7 DEF PollCloseRecv
  <2>2. closed' \in BOOLEAN
    BY <1>7 DEF PollCloseRecv, RefInv
  <2>3. QED
    BY <2>1, <2>2 DEF RefInv, CallbackHasContext
<1>8. CASE ShutDown
  <2>1. CASE raw
    BY <1>8, <2>1, RefHandleClose DEF ShutDown
  <2>2. CASE ~raw
    BY <1>h, <1>8, <2>2 DEF ShutDown
  <2>3. QED
    BY <2>1, <2>2
<1>9. CASE AlmostReady
  <2>1. /\ UNCHANGED <<listed, raw, registered, closed, pc>>
        /\ cnx_state = "handshake"
    BY <1>9 DEF AlmostReady, ReferenceKept
  <2>2. QED
    BY <2>1 DEF RefInv, CallbackHasContext
<1>10. ASSUME NEW id, NEW end \in BOOLEAN, StreamCallback(id, end)
       PROVE  RefInv'
  BY <1>h, <1>t, <1>10 DEF StreamCallback, ReferenceKept
<1>11. ASSUME NEW err \in Failures, CloseCallback(err) PROVE RefInv'
  BY <1>11, RefHandleClose DEF CloseCallback
<1>12. CASE UNCHANGED vars
  BY <1>h, <1>t, <1>12 DEF vars
<1>13. QED
  BY <1>1, <1>2, <1>3, <1>4, <1>5, <1>6, <1>7, <1>8, <1>9, <1>10, <1>11, <1>12
  DEF Next, App, Poll, Callbacks

(* The pointer that picoquic calls back with is valid exactly as long as   *)
(* the Context has a reference, and picoquic's own is there until its      *)
(* close event, in every interleaving of polls, callbacks, close events    *)
(* and the shutdown of the event loop.                                     *)
THEOREM CallbackAlwaysHasContext == Spec => []CallbackHasContext
<1>1. RefInv => CallbackHasContext
  BY DEF RefInv
<1>2. QED
  BY <1>1, RefInit, RefStep, PTL DEF Spec

------------------------------------------------------------------------------
(* Stream ids.  FreshStreamIds is not inductive: the map of streams also    *)
(* gets ids from callbacks.  The strengthening says that every id of this   *)
(* endpoint's parity, wherever it is, came from the counter, which has      *)
(* passed it.                                                               *)
RequestChannels ==
  [queue : Seq([request : Requests, stype : StreamTypes]), size : Nat,
   open : BOOLEAN, error : {NoError} \cup ErrorKinds]

Local(id) == is_client_initiated(id) = is_client

Bounded(id) == id \in Nat /\ (Local(id) => id < 4 * (next_stream_id + 1))

KnownIdsBounded == \A id \in streams \cup DOMAIN handed : Bounded(id)

GivenIdsLocal ==
  \A r \in Requests :
    future[r].state = "Ok" => Local(future[r].id) /\ Bounded(future[r].id)

IdInv ==
  /\ is_client \in BOOLEAN /\ next_stream_id \in Nat
  /\ recv_create_stream \in RequestChannels
  /\ DOMAIN future = Requests
  /\ KnownIdsBounded /\ GivenIdsLocal
  /\ FreshStreamIds

(* generate_stream_id encodes the initiator, and each value of the counter *)
(* has its own four ids.                                                   *)
LEMMA GeneratedId ==
  ASSUME NEW n \in Nat, NEW c \in BOOLEAN, NEW stype
  PROVE  LET id == generate_stream_id(n, c, stype)
         IN /\ id \in Nat /\ 4 * (n + 1) <= id /\ id < 4 * (n + 2)
            /\ is_client_initiated(id) = c
<1> DEFINE id == generate_stream_id(n, c, stype)
<1>1. id \in Nat /\ 4 * (n + 1) <= id /\ id < 4 * (n + 2)
  BY DEF generate_stream_id
<1> DEFINE k == IF stype = "Unidirectional" THEN 2 * (n + 1) + 1 ELSE 2 * (n + 1)
<1>2. k \in Nat /\ id = 2 * k + (IF c THEN 0 ELSE 1)
  BY DEF generate_stream_id
<1> HIDE DEF k, id
<1>3. is_client_initiated(id) = c
  <2>1. CASE c = TRUE
    <3>1. id = 2 * k
      BY <1>2, <2>1
    <3>2. id % 2 = 0
      BY <1>2, <3>1
    <3>3. QED
      BY <2>1, <3>2 DEF is_client_initiated
  <2>2. CASE c = FALSE
    <3>1. id = 2 * k + 1
      BY <1>2, <2>2
    <3>2. id % 2 # 0
      BY <1>2, <3>1
    <3>3. QED
      BY <2>2, <3>2 DEF is_client_initiated
  <2>3. QED
    BY <2>1, <2>2
<1>4. QED
  BY <1>1, <1>3 DEF id

LEMMA HeadTail ==
  ASSUME NEW S, NEW seq \in Seq(S), seq # <<>>
  PROVE  Head(seq) \in S /\ Tail(seq) \in Seq(S)
OBVIOUS

LEMMA RequestChannelFacts ==
  ASSUME NEW c \in RequestChannels
  PROVE  /\ DropReceiver(c) \in RequestChannels
         /\ \A r \in Requests, stype \in StreamTypes :
              Enqueue(c, [request |-> r, stype |-> stype]) \in RequestChannels
         /\ c.queue # <<>> => /\ Dequeue(c) \in RequestChannels
                              /\ Head(c.queue).request \in Requests
         /\ \A err \in {NoError} \cup ErrorKinds :
              CloseWithError(c, err) \in RequestChannels
<1>1. /\ c.queue \in Seq([request : Requests, stype : StreamTypes])
      /\ c.size \in Nat /\ c.error \in {NoError} \cup ErrorKinds
  BY DEF RequestChannels
<1>2. DropReceiver(c) \in RequestChannels
  BY <1>1 DEF RequestChannels, DropReceiver
<1>3. ASSUME NEW r \in Requests, NEW stype \in StreamTypes
      PROVE  Enqueue(c, [request |-> r, stype |-> stype]) \in RequestChannels
  <2>1. Append(c.queue, [request |-> r, stype |-> stype])
          \in Seq([request : Requests, stype : StreamTypes])
    BY <1>1
  <2>2. QED
    BY <2>1 DEF RequestChannels, Enqueue
<1>4. ASSUME c.queue # <<>>
      PROVE  Dequeue(c) \in RequestChannels /\ Head(c.queue).request \in Requests
  <2>1. /\ Tail(c.queue) \in Seq([request : Requests, stype : StreamTypes])
        /\ Head(c.queue) \in [request : Requests, stype : StreamTypes]
    BY <1>1, <1>4, HeadTail
  <2>2. QED
    BY <2>1 DEF RequestChannels, Dequeue
<1>5. ASSUME NEW err \in {NoError} \cup ErrorKinds
      PROVE  CloseWithError(c, err) \in RequestChannels
  BY <1>1 DEF RequestChannels, CloseWithError, DropReceiver, PropagateError
<1>6. QED
  BY <1>2, <1>3, <1>4, <1>5

(* A step that does not advance the counter: futures resolve to errors, or *)
(* not at all, and no unknown id of this endpoint's appears.               *)
LEMMA IdFrame ==
  ASSUME IdInv, UNCHANGED <<is_client, next_stream_id>>,
         recv_create_stream' \in RequestChannels,
         DOMAIN future' = Requests,
         \A r \in Requests : future'[r] = future[r] \/ future'[r].state # "Ok",
         \A id \in (streams \cup DOMAIN handed)' : Bounded(id),
         pc' # "panic"
  PROVE  IdInv'
<1>1. \A id : Bounded(id)' = Bounded(id) /\ Local(id)' = Local(id)
  BY DEF Bounded, Local
<1>2. KnownIdsBounded'
  BY <1>1 DEF KnownIdsBounded, Bounded, Local
<1>3. GivenIdsLocal'
  <2> SUFFICES ASSUME NEW r \in Requests, future'[r].state = "Ok"
               PROVE  Local(future[r].id) /\ Bounded(future[r].id)
                      /\ future'[r] = future[r]
    BY DEF GivenIdsLocal, Bounded, Local
  <2>1. QED
    BY DEF IdInv, GivenIdsLocal
<1>4. FreshStreamIds'
  BY DEF IdInv, FreshStreamIds
<1>5. QED
  BY <1>2, <1>3, <1>4 DEF IdInv

LEMMA IdInit == Init => IdInv
<1> SUFFICES ASSUME Init PROVE IdInv
  OBVIOUS
<1>1. is_client \in BOOLEAN /\ next_stream_id \in Nat
  BY ConnectionAssumptions DEF Init, ContextNew
<1>2. recv_create_stream \in RequestChannels
  BY DEF Init, ContextNew, NewChannel, RequestChannels
<1>3. KnownIdsBounded
  BY DEF Init, ContextNew, KnownIdsBounded
<1>4. DOMAIN future = Requests /\ \A r \in Requests : future[r].state # "Ok"
  BY DEF Init, ContextNew, Unused
<1>5. QED
  BY <1>1, <1>2, <1>3, <1>4
  DEF IdInv, GivenIdsLocal, FreshStreamIds, Init, ContextNew

(* Every future of a queued request resolves to an error. *)
LEMMA ResolveFacts ==
  ASSUME NEW kind, kind # "Ok"
  PROVE  /\ DOMAIN Resolve(kind) = Requests
         /\ \A r \in Requests : Resolve(kind)[r] = future[r]
                                \/ Resolve(kind)[r].state # "Ok"
BY DEF Resolve, Failed

LEMMA IdDropContext ==
  ASSUME IdInv, DropContext, UNCHANGED <<is_client, next_stream_id, handed>>,
         pc' # "panic"
  PROVE  IdInv'
<1>1. recv_create_stream' \in RequestChannels
  BY RequestChannelFacts DEF IdInv, DropContext
<1>2. /\ DOMAIN future' = Requests
      /\ \A r \in Requests : future'[r] = future[r] \/ future'[r].state # "Ok"
  BY ResolveFacts DEF DropContext
<1>3. \A id \in (streams \cup DOMAIN handed)' : Bounded(id)
  BY DEF DropContext, IdInv, KnownIdsBounded
<1>4. QED
  BY <1>1, <1>2, <1>3, IdFrame

LEMMA IdHandleClose ==
  ASSUME NEW err \in {NoError} \cup ErrorKinds, IdInv, HandleClose(err),
         pc' # "panic"
  PROVE  IdInv'
<1>0. UNCHANGED <<is_client, next_stream_id, handed>>
  BY DEF HandleClose
<1>1. CASE err # NoError
  <2>1. recv_create_stream' \in RequestChannels
    BY <1>1, RequestChannelFacts DEF IdInv, HandleClose
  <2>2. /\ DOMAIN future' = Requests
        /\ \A r \in Requests : future'[r] = future[r] \/ future'[r].state # "Ok"
    <3>1. err # "Ok"
      BY <1>1 DEF ErrorKinds
    <3>2. QED
      BY <1>1, <3>1, ResolveFacts DEF HandleClose
  <2>3. streams' \subseteq streams
    BY <1>1 DEF HandleClose
  <2>4. \A id \in (streams \cup DOMAIN handed)' : Bounded(id)
    BY <1>0, <2>3 DEF IdInv, KnownIdsBounded
  <2>5. QED
    BY <1>0, <2>1, <2>2, <2>4, IdFrame
<1>2. CASE err = NoError /\ listed
  <2>1. UNCHANGED <<recv_create_stream, future, streams>>
    BY <1>2 DEF HandleClose
  <2>2. QED
    BY <1>0, <2>1, IdFrame DEF IdInv, KnownIdsBounded
<1>3. CASE err = NoError /\ ~listed
  <2>1. DropContext
    BY <1>3 DEF HandleClose
  <2>2. QED
    BY <1>0, <2>1, IdDropContext
<1>4. QED
  BY <1>1, <1>2, <1>3

(* The assertion of check_create_stream_requests holds, and the new id     *)
(* differs from every one given out before.                                *)
LEMMA IdCreateStream == IdInv /\ CreateStream => IdInv'
<1> SUFFICES ASSUME IdInv, CreateStream PROVE IdInv'
  OBVIOUS
<1>p. PICK req : req = Head(recv_create_stream.queue)
  OBVIOUS
<1>q. PICK new :
        new = generate_stream_id(next_stream_id, is_client, req.stype)
  OBVIOUS
<1>1. /\ is_client \in BOOLEAN /\ next_stream_id \in Nat
      /\ recv_create_stream \in RequestChannels
      /\ DOMAIN future = Requests
      /\ KnownIdsBounded /\ GivenIdsLocal /\ FreshStreamIds
  BY DEF IdInv
<1>2. /\ pc' = IF new \in streams THEN "panic" ELSE "requests"
      /\ streams' = streams \cup {new}
      /\ future' = [future EXCEPT ![req.request] = Ok(new)]
      /\ handed' = HandOut(new)
      /\ recv_create_stream' = Dequeue(recv_create_stream)
      /\ next_stream_id' = next_stream_id + 1 /\ is_client' = is_client
      /\ recv_create_stream.queue # <<>>
  BY <1>p, <1>q DEF CreateStream
<1>3. /\ new \in Nat /\ 4 * (next_stream_id + 1) <= new
      /\ new < 4 * (next_stream_id + 2) /\ Local(new)
  BY <1>1, <1>q, GeneratedId DEF Local
<1>4. req.request \in Requests /\ recv_create_stream' \in RequestChannels
  BY <1>1, <1>2, <1>p, RequestChannelFacts
<1>5. new \notin streams
  BY <1>1, <1>3 DEF KnownIdsBounded, Bounded
<1>6. \A id : Bounded(id) => Bounded(id)'
  BY <1>1, <1>2 DEF Bounded, Local
<1>7. Bounded(new)' /\ \A id : Local(id)' = Local(id)
  BY <1>1, <1>2, <1>3 DEF Bounded, Local
<1>8. KnownIdsBounded'
  <2>1. DOMAIN handed' = DOMAIN handed \cup {new}
    BY <1>2 DEF HandOut
  <2>2. QED
    BY <1>1, <1>2, <1>6, <1>7, <2>1 DEF KnownIdsBounded, Bounded, Local
<1>9. DOMAIN future' = Requests
  BY <1>1, <1>2
<1>10. \A r \in Requests :
         IF r = req.request THEN future'[r].id = new
         ELSE future'[r] = future[r]
  BY <1>1, <1>2 DEF Ok
<1>11. GivenIdsLocal'
  <2> SUFFICES ASSUME NEW r \in Requests, future'[r].state = "Ok"
               PROVE  (Local(future[r].id) /\ Bounded(future[r].id))'
    BY DEF GivenIdsLocal
  <2>1. CASE r = req.request
    BY <1>2, <1>3, <1>7, <1>10, <2>1 DEF Bounded, Local
  <2>2. CASE r # req.request
    BY <1>1, <1>2, <1>6, <1>10, <2>2 DEF GivenIdsLocal, Bounded, Local
  <2>3. QED
    BY <2>1, <2>2
<1>12. \A r \in Requests :
         (r # req.request /\ future[r].state = "Ok") => future[r].id # new
  BY <1>1, <1>3 DEF GivenIdsLocal, Bounded
<1>13. FreshStreamIds'
  BY <1>1, <1>2, <1>5, <1>10, <1>12 DEF FreshStreamIds
<1>14. QED
  BY <1>1, <1>2, <1>4, <1>8, <1>9, <1>11, <1>13 DEF IdInv

LEMMA IdStep == IdInv /\ [Next]_vars => IdInv'
<1> SUFFICES ASSUME IdInv, [Next]_vars PROVE IdInv'
  OBVIOUS
<1> USE DEF appVars, refVars, ctxVars, loopVars, quicVars
<1>t. /\ recv_create_stream \in RequestChannels /\ DOMAIN future = Requests
      /\ \A id \in streams \cup DOMAIN handed : Bounded(id)
      /\ pc # "panic"
  BY DEF IdInv, KnownIdsBounded, FreshStreamIds
<1>h. ASSUME UNCHANGED <<is_client, next_stream_id, recv_create_stream, future,
                         handed>>,
             streams' \subseteq streams, pc' # "panic"
      PROVE  IdInv'
  BY <1>t, <1>h, IdFrame
<1>1. ASSUME NEW r \in Requests, NEW stype \in StreamTypes, NewStream(r, stype)
      PROVE  IdInv'
  <2>1. recv_create_stream' \in RequestChannels
    BY <1>t, <1>1, RequestChannelFacts DEF NewStream
  <2>2. SendErrorKind # "Ok"
    BY <1>t DEF SendErrorKind, RequestChannels, ErrorKinds, NoError
  <2>3. \/ future' = [future EXCEPT ![r] = Waiting]
        \/ future' = [future EXCEPT ![r] = Failed(SendErrorKind)]
    BY <1>1 DEF NewStream
  <2>4. /\ DOMAIN future' = Requests
        /\ \A q \in Requests : future'[q] = future[q] \/ future'[q].state # "Ok"
    BY <1>t, <2>2, <2>3 DEF Waiting, Failed
  <2>5. UNCHANGED <<is_client, next_stream_id, streams, handed, pc>>
    BY <1>1 DEF NewStream
  <2>6. QED
    BY <1>t, <2>1, <2>4, <2>5, IdFrame
<1>2. CASE PollConnection
  BY <1>t, <1>h, <1>2 DEF PollConnection
<1>3. ASSUME NEW close \in BOOLEAN, DropConnection(close) PROVE IdInv'
  BY <1>t, <1>h, <1>3 DEF DropConnection
<1>4. CASE Wake \/ PollUnlisted \/ CreateStreamEnd \/ ContextKept
  BY <1>h, <1>4 DEF Wake, PollUnlisted, CreateStreamEnd, ContextKept
<1>5. CASE EndOfLoop
  BY <1>h, <1>5 DEF EndOfLoop
<1>6. CASE PollClosed
  <2>1. UNCHANGED <<is_client, next_stream_id, handed>> /\ pc' # "panic"
    BY <1>6 DEF PollClosed
  <2>2. CASE DropContext
    BY <2>1, <2>2, IdDropContext
  <2>3. CASE UNCHANGED <<streams, recv_create_stream, future>>
    BY <1>h, <2>1, <2>3
  <2>4. QED
    BY <1>6, <2>2, <2>3 DEF PollClosed
<1>7. ASSUME NEW done, PollStreams(done) PROVE IdInv'
  BY <1>h, <1>7 DEF PollStreams
<1>8. CASE CreateStream
  BY <1>8, IdCreateStream
<1>9. CASE PollCloseRecv
  BY <1>h, <1>9 DEF PollCloseRecv
<1>10. CASE ShutDown
  <2>1. pc' # "panic"
    BY <1>10 DEF ShutDown
  <2>2. CASE raw
    BY <1>10, <2>1, <2>2, IdHandleClose DEF ShutDown
  <2>3. CASE ~raw
    BY <1>h, <1>10, <2>1, <2>3 DEF ShutDown
  <2>4. QED
    BY <2>2, <2>3
<1>11. CASE AlmostReady
  BY <1>t, <1>h, <1>11 DEF AlmostReady
<1>12. ASSUME NEW id \in PeerIds, NEW end \in BOOLEAN, StreamCallback(id, end)
       PROVE  IdInv'
  <2>1. UNCHANGED <<is_client, next_stream_id, recv_create_stream, future, pc>>
    BY <1>12 DEF StreamCallback
  <2>2. Bounded(id)
    <3>1. CASE id \in DOMAIN handed
      BY <1>t, <3>1
    <3>2. CASE id \in PeerStreams /\ is_client_initiated(id) # is_client
      BY <3>2, ConnectionAssumptions DEF Bounded, Local
    <3>3. QED
      BY <3>1, <3>2 DEF PeerIds
  <2>3. /\ streams' \subseteq streams \cup {id}
        /\ DOMAIN handed' \subseteq DOMAIN handed \cup {id}
    BY <1>12 DEF StreamCallback, HandOut
  <2>4. \A i \in (streams \cup DOMAIN handed)' : Bounded(i)
    BY <1>t, <2>2, <2>3
  <2>5. QED
    BY <1>t, <2>1, <2>4, IdFrame
<1>13. ASSUME NEW err \in Failures, CloseCallback(err) PROVE IdInv'
  <2>1. err \in {NoError} \cup ErrorKinds
    BY ConnectionAssumptions
  <2>2. QED
    BY <1>t, <1>13, <2>1, IdHandleClose DEF CloseCallback
<1>14. CASE UNCHANGED vars
  BY <1>t, <1>h, <1>14 DEF vars
<1>15. QED
  BY <1>1, <1>2, <1>3, <1>4, <1>5, <1>6, <1>7, <1>8, <1>9, <1>10, <1>11, <1>12,
     <1>13, <1>14
  DEF Next, App, Poll, Callbacks

(* A generated id is never in the map of streams, so that the assertion of *)
(* check_create_stream_requests cannot fail, and no two requests get the   *)
(* same id: for any number of requests, whatever streams the peer opens    *)
(* and whichever streams were forgotten and came back.                     *)
THEOREM StreamIdsAlwaysFresh == Spec => []FreshStreamIds
<1>1. IdInv => FreshStreamIds
  BY DEF IdInv
<1>2. QED
  BY <1>1, IdInit, IdStep, PTL DEF Spec

------------------------------------------------------------------------------
(* Types.  RefInv and IdInv have those of the references, of the requests  *)
(* and of the ids; these are the others.                                   *)
ApplicationTypes ==
  /\ is_client \in Roles
  /\ connect \in {"none", "waiting", "Ok", "Canceled"} \cup ErrorKinds
  /\ handle \in {"builder", "held", "dropped", "never"}
  /\ future \in [Requests -> [state : Results, id : Nat]]

FlagTypes ==
  /\ close_sent \in BOOLEAN /\ wait_for_ready_state \in BOOLEAN
  /\ create_parked \in BOOLEAN /\ close_parked \in BOOLEAN
  /\ wakeup \in BOOLEAN

Messages == [type : {"NewStream", "Error", "Close"}, id : Nat]

OtherTypes ==
  /\ send_msg \in Seq(Messages)
  /\ pc \in {"sleep", "poll", "requests", "close", "check", "callbacks",
             "stopped", "panic"}
  /\ cnx_state \in {"handshake", "ready", "closing", "disconnected"}
  /\ cnx_error \in {NoError} \cup ErrorKinds
  /\ peer_done \subseteq Nat
  /\ \A i \in DOMAIN handed : handed[i] \in Nat

TypeInv == ApplicationTypes /\ FlagTypes /\ OtherTypes

LEMMA TypeInit == Init => TypeInv
<1> SUFFICES ASSUME Init PROVE TypeInv
  OBVIOUS
<1>1. is_client \in BOOLEAN
  BY ConnectionAssumptions DEF Init
<1>2. future \in [Requests -> [state : Results, id : Nat]]
  BY DEF Init, Unused, Results
<1>3. ApplicationTypes
  BY <1>2 DEF Init, ApplicationTypes
<1>4. FlagTypes
  BY <1>1 DEF Init, ContextNew, FlagTypes, ParkedAtStart
<1>5. OtherTypes
  BY DEF Init, ContextNew, OtherTypes
<1>6. QED
  BY <1>3, <1>4, <1>5 DEF TypeInv

LEMMA FailedType ==
  ASSUME NEW kind \in {"Canceled"} \cup ErrorKinds
  PROVE  Failed(kind) \in [state : Results, id : Nat]
BY DEF Failed, Results

LEMMA ResolveType ==
  ASSUME ApplicationTypes, NEW kind \in {"Canceled"} \cup ErrorKinds
  PROVE  Resolve(kind) \in [Requests -> [state : Results, id : Nat]]
BY FailedType DEF Resolve, ApplicationTypes

LEMMA SendMsgType ==
  ASSUME NEW queue \in Seq(Messages), NEW m \in Messages
  PROVE  SendMsg(queue, m) \in Seq(Messages)
BY DEF SendMsg

LEMMA HandOutType ==
  ASSUME NEW id, \A i \in DOMAIN handed : handed[i] \in Nat
  PROVE  \A i \in DOMAIN HandOut(id) : HandOut(id)[i] \in Nat
BY DEF HandOut, Count

(* The senders of the futures and the ConnectionBuilder go.                *)
LEMMA LoseBuilderTypes ==
  ASSUME TypeInv, NEW result \in {"Canceled"} \cup ErrorKinds,
         LoseBuilder(result)
  PROVE  /\ connect' \in {"none", "waiting", "Ok", "Canceled"} \cup ErrorKinds
         /\ handle' \in {"builder", "held", "dropped", "never"}
         /\ wait_for_ready_state' \in BOOLEAN
BY DEF LoseBuilder, TypeInv, ApplicationTypes

LEMMA DropContextTypes ==
  ASSUME TypeInv, DropContext, UNCHANGED is_client
  PROVE  ApplicationTypes' /\ wait_for_ready_state' \in BOOLEAN
<1>1. future' \in [Requests -> [state : Results, id : Nat]]
  BY ResolveType DEF TypeInv, DropContext
<1>2. QED
  BY <1>1, LoseBuilderTypes DEF TypeInv, ApplicationTypes, DropContext

LEMMA HandleCloseTypes ==
  ASSUME TypeInv, NEW err \in {NoError} \cup ErrorKinds, HandleClose(err),
         pc' \in {"callbacks", "stopped"}
  PROVE  TypeInv'
<1>1. ApplicationTypes' /\ wait_for_ready_state' \in BOOLEAN
  <2>1. CASE err # NoError
    <3>1. err \in ErrorKinds /\ is_client' = is_client
      BY <2>1 DEF HandleClose
    <3>2. future' \in [Requests -> [state : Results, id : Nat]]
      BY <2>1, <3>1, ResolveType DEF TypeInv, HandleClose
    <3>3. LoseBuilder(err)
      BY <2>1 DEF HandleClose
    <3>4. QED
      BY <3>1, <3>2, <3>3, LoseBuilderTypes DEF TypeInv, ApplicationTypes
  <2>2. CASE err = NoError /\ listed
    BY <2>2 DEF HandleClose, TypeInv, ApplicationTypes, FlagTypes
  <2>3. CASE err = NoError /\ ~listed
    BY <2>3, DropContextTypes DEF HandleClose
  <2>4. QED
    BY <2>1, <2>2, <2>3
<1>2. FlagTypes'
  BY <1>1 DEF HandleClose, TypeInv, FlagTypes
<1>3. send_msg' \in Seq(Messages)
  <2>1. Msg("Error", 0) \in Messages /\ Msg("Close", 0) \in Messages
    BY DEF Msg, Messages
  <2>2. \E told \in {send_msg, SendMsg(send_msg, Msg("Error", 0))} :
          send_msg' = SendMsg(told, Msg("Close", 0))
    BY DEF HandleClose
  <2>3. QED
    BY <2>1, <2>2, SendMsgType DEF TypeInv, OtherTypes
<1>4. OtherTypes'
  BY <1>3 DEF HandleClose, TypeInv, OtherTypes
<1>5. QED
  BY <1>1, <1>2, <1>4 DEF TypeInv

LEMMA TypeStep == TypeInv /\ IdInv /\ [Next]_vars => TypeInv'
<1> SUFFICES ASSUME TypeInv, IdInv, [Next]_vars PROVE TypeInv'
  OBVIOUS
<1> USE DEF appVars, refVars, ctxVars, loopVars, quicVars
<1>t. ApplicationTypes /\ FlagTypes /\ OtherTypes
  BY DEF TypeInv
<1>a. ASSUME UNCHANGED <<is_client, connect, handle, future>>
      PROVE  ApplicationTypes'
  BY <1>t, <1>a DEF ApplicationTypes
<1>f. ASSUME UNCHANGED <<close_sent, wait_for_ready_state, create_parked,
                         close_parked, wakeup>>
      PROVE  FlagTypes'
  BY <1>t, <1>f DEF FlagTypes
<1>1. ASSUME NEW r \in Requests, NEW stype \in StreamTypes, NewStream(r, stype)
      PROVE  TypeInv'
  <2>1. SendErrorKind \in ErrorKinds
    BY DEF SendErrorKind, IdInv, RequestChannels, ErrorKinds
  <2>2. /\ Waiting \in [state : Results, id : Nat]
        /\ Failed(SendErrorKind) \in [state : Results, id : Nat]
    BY <2>1, FailedType DEF Waiting, Results
  <2>3. \/ future' = [future EXCEPT ![r] = Waiting]
        \/ future' = [future EXCEPT ![r] = Failed(SendErrorKind)]
    BY <1>1 DEF NewStream
  <2>4. ApplicationTypes'
    BY <1>1, <1>t, <2>2, <2>3 DEF NewStream, ApplicationTypes
  <2>5. FlagTypes'
    BY <1>1, <1>t DEF NewStream, FlagTypes
  <2>6. OtherTypes'
    BY <1>1, <1>t DEF NewStream, OtherTypes
  <2>7. QED
    BY <2>4, <2>5, <2>6 DEF TypeInv
<1>2. CASE PollConnection
  <2>1. send_msg' \in Seq(Messages)
    BY <1>2, <1>t, HeadTail DEF PollConnection, OtherTypes
  <2>2. OtherTypes'
    BY <1>2, <1>t, <2>1 DEF PollConnection, OtherTypes
  <2>3. QED
    BY <1>2, <1>a, <1>f, <2>2 DEF PollConnection, TypeInv
<1>3. ASSUME NEW close \in BOOLEAN, DropConnection(close) PROVE TypeInv'
  <2>1. FlagTypes'
    BY <1>3, <1>t DEF DropConnection, FlagTypes
  <2>2. ApplicationTypes' /\ OtherTypes'
    BY <1>3, <1>t DEF DropConnection, ApplicationTypes, OtherTypes
  <2>3. QED
    BY <2>1, <2>2 DEF TypeInv
<1>4. CASE Wake
  <2>1. FlagTypes'
    BY <1>4, <1>t DEF Wake, FlagTypes
  <2>2. OtherTypes'
    BY <1>4, <1>t DEF Wake, OtherTypes
  <2>3. QED
    BY <1>4, <1>a, <2>1, <2>2 DEF Wake, TypeInv
<1>5. CASE PollUnlisted \/ ContextKept \/ EndOfLoop
  <2>1. OtherTypes'
    BY <1>5, <1>t DEF PollUnlisted, ContextKept, EndOfLoop, OtherTypes
  <2>2. QED
    BY <1>5, <1>a, <1>f, <2>1 DEF PollUnlisted, ContextKept, EndOfLoop, TypeInv
<1>6. CASE PollClosed
  <2>1. ApplicationTypes' /\ wait_for_ready_state' \in BOOLEAN
    <3>1. CASE DropContext
      BY <1>6, <3>1, DropContextTypes DEF PollClosed
    <3>2. CASE UNCHANGED <<future, connect, handle, wait_for_ready_state>>
      BY <1>6, <1>t, <3>2 DEF PollClosed, ApplicationTypes, FlagTypes
    <3>3. QED
      BY <1>6, <3>1, <3>2 DEF PollClosed
  <2>2. FlagTypes'
    BY <1>6, <1>t, <2>1 DEF PollClosed, FlagTypes
  <2>3. OtherTypes'
    BY <1>6, <1>t DEF PollClosed, OtherTypes
  <2>4. QED
    BY <2>1, <2>2, <2>3 DEF TypeInv
<1>7. ASSUME NEW done, PollStreams(done) PROVE TypeInv'
  <2>1. OtherTypes'
    BY <1>7, <1>t DEF PollStreams, OtherTypes
  <2>2. QED
    BY <1>7, <1>a, <1>f, <2>1 DEF PollStreams, TypeInv
<1>8. CASE CreateStream
  <2>p. PICK req : req = Head(recv_create_stream.queue)
    OBVIOUS
  <2>q. PICK new :
          new = generate_stream_id(next_stream_id, is_client, req.stype)
    OBVIOUS
  <2>1. /\ pc' \in {"panic", "requests"}
        /\ future' = [future EXCEPT ![req.request] = Ok(new)]
        /\ handed' = HandOut(new)
    BY <1>8, <2>p, <2>q DEF CreateStream
  <2>2. new \in Nat
    BY <2>q, GeneratedId DEF IdInv
  <2>3. Ok(new) \in [state : Results, id : Nat]
    BY <2>2 DEF Ok, Results
  <2>4. ApplicationTypes'
    <3>1. future' \in [Requests -> [state : Results, id : Nat]]
      BY <1>t, <2>1, <2>3 DEF ApplicationTypes
    <3>2. UNCHANGED <<is_client, connect, handle>>
      BY <1>8 DEF CreateStream
    <3>3. QED
      BY <1>t, <3>1, <3>2 DEF ApplicationTypes
  <2>5. OtherTypes'
    BY <1>8, <1>t, <2>1, HandOutType DEF CreateStream, OtherTypes
  <2>6. QED
    BY <1>8, <1>f, <2>4, <2>5 DEF CreateStream, TypeInv
<1>9. CASE CreateStreamEnd
  <2>1. FlagTypes'
    BY <1>9, <1>t DEF CreateStreamEnd, FlagTypes
  <2>2. OtherTypes'
    BY <1>9, <1>t DEF CreateStreamEnd, OtherTypes
  <2>3. QED
    BY <1>9, <1>a, <2>1, <2>2 DEF CreateStreamEnd, TypeInv
<1>10. CASE PollCloseRecv
  <2>1. Msg("Close", 0) \in Messages
    BY DEF Msg, Messages
  <2>2. OtherTypes'
    BY <1>10, <1>t, <2>1, SendMsgType DEF PollCloseRecv, OtherTypes
  <2>3. FlagTypes'
    BY <1>10, <1>t DEF PollCloseRecv, FlagTypes
  <2>4. QED
    BY <1>10, <1>a, <2>2, <2>3 DEF PollCloseRecv, TypeInv
<1>11. CASE ShutDown
  <2>1. CASE raw
    BY <1>11, <2>1, HandleCloseTypes DEF ShutDown
  <2>2. CASE ~raw
    <3>1. OtherTypes'
      BY <1>11, <1>t, <2>2 DEF ShutDown, OtherTypes
    <3>2. QED
      BY <1>11, <1>a, <1>f, <2>2, <3>1 DEF ShutDown, TypeInv
  <2>3. QED
    BY <2>1, <2>2
<1>12. CASE AlmostReady
  <2>1. ApplicationTypes' /\ OtherTypes'
    BY <1>12, <1>t DEF AlmostReady, ApplicationTypes, OtherTypes
  <2>2. FlagTypes'
    BY <1>12, <1>t DEF AlmostReady, FlagTypes
  <2>3. QED
    BY <2>1, <2>2 DEF TypeInv
<1>13. ASSUME NEW id \in PeerIds, NEW end \in BOOLEAN, StreamCallback(id, end)
       PROVE  TypeInv'
  <2>1. id \in Nat
    BY ConnectionAssumptions DEF PeerIds, IdInv, KnownIdsBounded, Bounded
  <2>2. Msg("NewStream", id) \in Messages
    BY <2>1 DEF Msg, Messages
  <2>3. /\ send_msg' \in Seq(Messages)
        /\ \A i \in DOMAIN handed' : handed'[i] \in Nat
    BY <1>13, <1>t, <2>2, SendMsgType, HandOutType
    DEF StreamCallback, OtherTypes
  <2>4. OtherTypes'
    BY <1>13, <1>t, <2>1, <2>3 DEF StreamCallback, OtherTypes
  <2>5. QED
    BY <1>13, <1>a, <1>f, <2>4 DEF StreamCallback, TypeInv
<1>14. ASSUME NEW err \in Failures, CloseCallback(err) PROVE TypeInv'
  <2>1. err \in {NoError} \cup ErrorKinds /\ pc' = "callbacks"
    BY <1>14, ConnectionAssumptions DEF CloseCallback
  <2>2. QED
    BY <1>14, <2>1, HandleCloseTypes DEF CloseCallback
<1>15. CASE UNCHANGED vars
  <2>1. OtherTypes'
    BY <1>15, <1>t DEF vars, OtherTypes
  <2>2. QED
    BY <1>15, <1>a, <1>f, <2>1 DEF vars, TypeInv
<1>16. QED
  BY <1>1, <1>2, <1>3, <1>4, <1>5, <1>6, <1>7, <1>8, <1>9, <1>10, <1>11, <1>12,
     <1>13, <1>14, <1>15
  DEF Next, App, Poll, Callbacks

(* Every variable of the connection keeps its type, whatever ids the peer  *)
(* uses and however the connection ends.                                   *)
THEOREM ConnectionTypes == Spec => []TypeOK
<1> DEFINE Inv == RefInv /\ IdInv /\ TypeInv
<1>1. Init => Inv
  BY RefInit, IdInit, TypeInit
<1>2. Inv /\ [Next]_vars => Inv'
  BY RefStep, IdStep, TypeStep
<1>3. Inv => TypeOK
  <2> SUFFICES ASSUME Inv PROVE TypeOK
    OBVIOUS
  <2>1. streams \subseteq Nat /\ DOMAIN handed \subseteq Nat
    BY DEF IdInv, KnownIdsBounded, Bounded
  <2>2. QED
    BY <2>1 DEF RefInv, IdInv, RequestChannels, TypeInv, ApplicationTypes,
       FlagTypes, OtherTypes, Messages, TypeOK
<1> HIDE DEF Inv
<1>4. QED
  BY <1>1, <1>2, <1>3, PTL DEF Spec

------------------------------------------------------------------------------
(* The event loop and the requests. *)

(* From the end of check_create_stream_requests until the next poll, an    *)
(* open connection has no request and the loop waits on their channel, or  *)
(* the loop was notified.                                                  *)
QueueInv ==
  (pc \in {"close", "check", "callbacks", "sleep"} /\ ~closed) =>
    wakeup \/ (create_parked /\ recv_create_stream.queue = <<>>)

LEMMA QueueInit == Init => QueueInv
BY DEF Init, ContextNew, QueueInv, ParkedAtStart, NewChannel

LEMMA QueueStep == RefInv /\ QueueInv /\ [Next]_vars => QueueInv'
<1> SUFFICES ASSUME RefInv, QueueInv, [Next]_vars PROVE QueueInv'
  OBVIOUS
<1> USE DEF QueueInv, appVars, refVars, ctxVars, loopVars, quicVars
<1>1. ASSUME NEW r \in Requests, NEW stype \in StreamTypes, NewStream(r, stype)
      PROVE  QueueInv'
  BY <1>1 DEF NewStream
<1>2. CASE PollConnection
  BY <1>2 DEF PollConnection
<1>3. ASSUME NEW close \in BOOLEAN, DropConnection(close) PROVE QueueInv'
  BY <1>3 DEF DropConnection
<1>4. CASE Wake \/ ContextKept \/ EndOfLoop
  BY <1>4 DEF Wake, ContextKept, EndOfLoop
<1>5. CASE PollUnlisted \/ PollClosed
  <2>1. closed'
    BY <1>5 DEF PollUnlisted, PollClosed, RefInv
  <2>2. QED
    BY <2>1
<1>6. ASSUME NEW done, PollStreams(done) PROVE QueueInv'
  BY <1>6 DEF PollStreams
<1>7. CASE CreateStream
  BY <1>7 DEF CreateStream
<1>8. CASE CreateStreamEnd
  BY <1>8 DEF CreateStreamEnd
<1>9. CASE PollCloseRecv
  BY <1>9 DEF PollCloseRecv
<1>10. CASE ShutDown
  BY <1>10 DEF ShutDown
<1>11. CASE AlmostReady
  BY <1>11 DEF AlmostReady
<1>12. ASSUME NEW id, NEW end \in BOOLEAN, StreamCallback(id, end)
       PROVE  QueueInv'
  BY <1>12 DEF StreamCallback
<1>13. ASSUME NEW err \in Failures, CloseCallback(err) PROVE QueueInv'
  BY <1>13 DEF CloseCallback, HandleClose
<1>14. CASE UNCHANGED vars
  BY <1>14 DEF vars
<1>15. QED
  BY <1>1, <1>2, <1>3, <1>4, <1>5, <1>6, <1>7, <1>8, <1>9, <1>10, <1>11, <1>12,
     <1>13, <1>14
  DEF Next, App, Poll, Callbacks

(* The event loop never sleeps on a queued request that it was not told    *)
(* about, for any number of requests: it was polled once at the start, and *)
(* waits on the channel again after it has emptied it.                     *)
THEOREM RequestAlwaysWakesLoop == Spec => []RequestWakesLoop
<1> DEFINE Inv == RefInv /\ QueueInv
<1>1. Init => Inv
  BY RefInit, QueueInit
<1>2. Inv /\ [Next]_vars => Inv'
  BY RefStep, QueueStep
<1>3. Inv => RequestWakesLoop
  BY DEF QueueInv, RequestWakesLoop
<1> HIDE DEF Inv
<1>4. QED
  BY <1>1, <1>2, <1>3, PTL DEF Spec

------------------------------------------------------------------------------
(* The futures of the requests.  A waiting one has its sender in the       *)
(* queue, it is canceled only with the Context, and an error empties and   *)
(* closes the channel together with picoquic's reference.                  *)
WaitingIsQueued ==
  \A r \in Requests : future[r].state = "waiting" => Queued(r)

CanceledOnlyAtEnd ==
  registered => \A r \in Requests : future[r].state # "Canceled"

ErrorClosesChannel ==
  cnx_error # NoError =>
    ~raw /\ ~recv_create_stream.open /\ recv_create_stream.queue = <<>>

FutureInv ==
  /\ WaitingIsQueued /\ CanceledOnlyAtEnd /\ ErrorClosesChannel
  /\ ErrorReachesRequests

LEMMA FutureInit == Init => FutureInv
<1> SUFFICES ASSUME Init PROVE FutureInv
  OBVIOUS
<1>1. /\ \A r \in Requests : future[r].state = "unused"
      /\ cnx_error = NoError
  BY DEF Init, Unused
<1>2. QED
  BY <1>1 DEF FutureInv, WaitingIsQueued, CanceledOnlyAtEnd,
     ErrorClosesChannel, ErrorReachesRequests

(* What a resolved future is. *)
LEMMA Resolved ==
  ASSUME NEW kind, kind # "waiting", WaitingIsQueued, NEW r \in Requests
  PROVE  /\ Resolve(kind)[r].state # "waiting"
         /\ Resolve(kind)[r].state \in {kind, future[r].state}
         /\ ~Queued(r) => Resolve(kind)[r] = future[r]
BY DEF Resolve, Failed, WaitingIsQueued

(* The futures that are left when the Context is dropped. *)
LEMMA FutureDropContext ==
  ASSUME FutureInv, DropContext, cnx_error' \in {cnx_error, NoError},
         raw' \in {raw, FALSE}
  PROVE  FutureInv'
<1>1. /\ future' = Resolve("Canceled") /\ registered' = FALSE
      /\ recv_create_stream'.queue = <<>> /\ ~recv_create_stream'.open
  BY DEF DropContext, DropReceiver
<1>2. \A r \in Requests : future'[r].state # "waiting"
  BY <1>1, Resolved DEF FutureInv
<1>3. ASSUME cnx_error' # NoError
      PROVE  ~raw' /\ \A r \in Requests : future'[r].state # "Canceled"
  <2>1. cnx_error # NoError
    BY <1>3
  <2>2. \A r \in Requests : ~Queued(r) /\ future[r].state # "Canceled"
    BY <2>1 DEF FutureInv, ErrorClosesChannel, ErrorReachesRequests, Queued
  <2>3. ~raw'
    BY <2>1 DEF FutureInv, ErrorClosesChannel
  <2>4. \A r \in Requests : future'[r] = future[r]
    BY <1>1, <2>2, Resolved DEF FutureInv
  <2>5. QED
    BY <2>2, <2>3, <2>4
<1>4. QED
  BY <1>1, <1>2, <1>3 DEF FutureInv, WaitingIsQueued, CanceledOnlyAtEnd,
     ErrorClosesChannel, ErrorReachesRequests

(* check_and_handle_error answers everybody who waits.                     *)
LEMMA FutureHandleClose ==
  ASSUME NEW err \in {NoError} \cup ErrorKinds, FutureInv, RefInv, raw,
         HandleClose(err)
  PROVE  FutureInv'
<1>1. raw' = FALSE /\ cnx_error' = err /\ registered
  BY DEF HandleClose, RefInv, CallbackHasContext
<1>2. CASE err # NoError
  <2>1. /\ future' = Resolve(err)
        /\ recv_create_stream'.queue = <<>> /\ ~recv_create_stream'.open
    BY <1>2 DEF HandleClose, CloseWithError, DropReceiver
  <2>2. err # "waiting" /\ err # "Canceled"
    BY <1>2 DEF ErrorKinds
  <2>3. \A r \in Requests : future'[r].state \notin {"waiting", "Canceled"}
    BY <1>1, <2>1, <2>2, Resolved DEF FutureInv, CanceledOnlyAtEnd
  <2>4. QED
    BY <1>1, <2>1, <2>3 DEF FutureInv, WaitingIsQueued, CanceledOnlyAtEnd,
       ErrorClosesChannel, ErrorReachesRequests
<1>3. CASE err = NoError /\ listed
  <2>1. UNCHANGED <<recv_create_stream, future, registered>>
    BY <1>3 DEF HandleClose
  <2>2. QED
    BY <1>1, <1>3, <2>1 DEF FutureInv, WaitingIsQueued, Queued,
       CanceledOnlyAtEnd, ErrorClosesChannel, ErrorReachesRequests
<1>4. CASE err = NoError /\ ~listed
  BY <1>1, <1>4, FutureDropContext DEF HandleClose
<1>5. QED
  BY <1>2, <1>3, <1>4

LEMMA FutureStep ==
  RefInv /\ IdInv /\ FutureInv /\ [Next]_vars => FutureInv'
<1> SUFFICES ASSUME RefInv, IdInv, FutureInv, [Next]_vars PROVE FutureInv'
  OBVIOUS
<1> USE DEF appVars, refVars, ctxVars, loopVars, quicVars
<1>t. /\ recv_create_stream \in RequestChannels /\ DOMAIN future = Requests
      /\ recv_create_stream.queue
           \in Seq([request : Requests, stype : StreamTypes])
  BY DEF IdInv, RequestChannels
<1>h. ASSUME UNCHANGED <<future, recv_create_stream, registered, cnx_error,
                         raw>>
      PROVE  FutureInv'
  BY <1>h DEF FutureInv, WaitingIsQueued, Queued, CanceledOnlyAtEnd,
     ErrorClosesChannel, ErrorReachesRequests
<1>1. ASSUME NEW r \in Requests, NEW stype \in StreamTypes, NewStream(r, stype)
      PROVE  FutureInv'
  <2>1. UNCHANGED <<registered, cnx_error, raw>>
    BY <1>1 DEF NewStream
  <2>2. CASE recv_create_stream.open
    <3> DEFINE m == [request |-> r, stype |-> stype]
    <3>1. /\ recv_create_stream' = Enqueue(recv_create_stream, m)
          /\ future' = [future EXCEPT ![r] = Waiting]
      BY <1>1, <2>2 DEF NewStream
    <3>2. recv_create_stream'.queue = Append(recv_create_stream.queue, m)
      BY <1>t, <3>1 DEF Enqueue, RequestChannels
    <3>3. Queued(r)' /\ \A q \in Requests : Queued(q) => Queued(q)'
      <4> DEFINE old == recv_create_stream.queue
                 new == recv_create_stream'.queue
      <4>1. /\ Len(old) + 1 \in DOMAIN new /\ new[Len(old) + 1] = m
            /\ \A i \in DOMAIN old : i \in DOMAIN new /\ new[i] = old[i]
        BY <1>t, <3>2
      <4>2. QED
        BY <4>1 DEF Queued
    <3>4. WaitingIsQueued'
      BY <1>t, <3>1, <3>3 DEF FutureInv, WaitingIsQueued
    <3>5. cnx_error = NoError
      BY <2>2 DEF FutureInv, ErrorClosesChannel
    <3>6. \A q \in Requests : future'[q].state \in {future[q].state, "waiting"}
      BY <1>t, <3>1 DEF Waiting
    <3>7. QED
      BY <2>1, <3>4, <3>5, <3>6 DEF FutureInv, CanceledOnlyAtEnd,
         ErrorClosesChannel, ErrorReachesRequests
  <2>3. CASE ~recv_create_stream.open
    <3>1. /\ future' = [future EXCEPT ![r] = Failed(SendErrorKind)]
          /\ recv_create_stream' = recv_create_stream
      BY <1>1, <2>3 DEF NewStream
    <3>2. SendErrorKind \notin {"waiting", "Canceled"}
      BY <1>t DEF SendErrorKind, RequestChannels, ErrorKinds, NoError
    <3>3. \A q \in Requests : \/ future'[q] = future[q]
                             \/ future'[q].state \notin {"waiting", "Canceled"}
      BY <1>t, <3>1, <3>2 DEF Failed
    <3>4. QED
      BY <2>1, <3>1, <3>3 DEF FutureInv, WaitingIsQueued, Queued,
         CanceledOnlyAtEnd, ErrorClosesChannel, ErrorReachesRequests
  <2>4. QED
    BY <2>2, <2>3
<1>2. CASE PollConnection
  BY <1>h, <1>2 DEF PollConnection
<1>3. ASSUME NEW close \in BOOLEAN, DropConnection(close) PROVE FutureInv'
  BY <1>h, <1>3 DEF DropConnection
<1>4. CASE Wake \/ PollUnlisted \/ CreateStreamEnd \/ ContextKept \/ EndOfLoop
  BY <1>h, <1>4 DEF Wake, PollUnlisted, CreateStreamEnd, ContextKept,
     EndOfLoop
<1>5. CASE PollClosed
  <2>1. UNCHANGED <<cnx_error, raw>>
    BY <1>5 DEF PollClosed
  <2>2. CASE DropContext
    BY <2>1, <2>2, FutureDropContext
  <2>3. CASE UNCHANGED <<registered, recv_create_stream, future>>
    BY <1>h, <2>1, <2>3
  <2>4. QED
    BY <1>5, <2>2, <2>3 DEF PollClosed
<1>6. ASSUME NEW done, PollStreams(done) PROVE FutureInv'
  BY <1>h, <1>6 DEF PollStreams
<1>7. CASE CreateStream
  <2>p. PICK req : req = Head(recv_create_stream.queue)
    OBVIOUS
  <2>1. /\ UNCHANGED <<registered, cnx_error, raw>>
        /\ recv_create_stream.queue # <<>>
        /\ recv_create_stream' = Dequeue(recv_create_stream)
    BY <1>7 DEF CreateStream
  <2>2. PICK id : future' = [future EXCEPT ![req.request] = Ok(id)]
    BY <1>7, <2>p DEF CreateStream
  <2>3. req.request \in Requests
    BY <1>t, <2>p, <2>1, RequestChannelFacts
  <2>4. \A q \in Requests : future'[q].state \in {future[q].state, "Ok"}
    BY <1>t, <2>2 DEF Ok
  <2>5. cnx_error = NoError
    BY <2>1 DEF FutureInv, ErrorClosesChannel
  <2>6. ASSUME NEW q \in Requests, future'[q].state = "waiting"
        PROVE  Queued(q)'
    <3> DEFINE old == recv_create_stream.queue
               new == recv_create_stream'.queue
    <3>1. q # req.request /\ future[q].state = "waiting"
      BY <1>t, <2>2, <2>3, <2>6 DEF Ok
    <3>2. PICK i \in DOMAIN old : old[i].request = q
      BY <3>1 DEF FutureInv, WaitingIsQueued, Queued
    <3>3. new = Tail(old)
      BY <1>t, <2>1 DEF Dequeue, RequestChannels
    <3>4. i # 1
      BY <1>t, <2>p, <2>1, <3>1, <3>2
    <3>5. i - 1 \in DOMAIN new /\ new[i - 1] = old[i]
      BY <1>t, <2>1, <3>2, <3>3, <3>4
    <3>6. QED
      BY <3>2, <3>5 DEF Queued
  <2>7. QED
    BY <2>1, <2>4, <2>5, <2>6 DEF FutureInv, WaitingIsQueued,
       CanceledOnlyAtEnd, ErrorClosesChannel, ErrorReachesRequests
<1>8. CASE PollCloseRecv
  BY <1>h, <1>8 DEF PollCloseRecv
<1>9. CASE ShutDown
  <2>1. CASE raw
    BY <1>9, <2>1, FutureHandleClose DEF ShutDown
  <2>2. CASE ~raw
    BY <1>h, <1>9, <2>2 DEF ShutDown
  <2>3. QED
    BY <2>1, <2>2
<1>10. CASE AlmostReady
  BY <1>h, <1>10 DEF AlmostReady, ReferenceKept
<1>11. ASSUME NEW id, NEW end \in BOOLEAN, StreamCallback(id, end)
       PROVE  FutureInv'
  BY <1>h, <1>11 DEF StreamCallback, ReferenceKept
<1>12. ASSUME NEW err \in Failures, CloseCallback(err) PROVE FutureInv'
  <2>1. err \in {NoError} \cup ErrorKinds
    BY ConnectionAssumptions
  <2>2. QED
    BY <1>12, <2>1, FutureHandleClose DEF CloseCallback
<1>13. CASE UNCHANGED vars
  BY <1>h, <1>13 DEF vars
<1>14. QED
  BY <1>1, <1>2, <1>3, <1>4, <1>5, <1>6, <1>7, <1>8, <1>9, <1>10, <1>11, <1>12,
     <1>13
  DEF Next, App, Poll, Callbacks

(* After a connection error no request waits any more and none was merely  *)
(* canceled, whether it was made before the error, between the error and   *)
(* the drop of the Context, or after that.                                 *)
THEOREM ErrorReachesEveryRequest == Spec => []ErrorReachesRequests
<1> DEFINE Inv == RefInv /\ IdInv /\ FutureInv
<1>1. Init => Inv
  BY RefInit, IdInit, FutureInit
<1>2. Inv /\ [Next]_vars => Inv'
  BY RefStep, IdStep, FutureStep
<1>3. Inv => ErrorReachesRequests
  BY DEF FutureInv
<1> HIDE DEF Inv
<1>4. QED
  BY <1>1, <1>2, <1>3, PTL DEF Spec
==============================================================================
