-------------------------- MODULE StreamDataProofs ---------------------------
(***************************************************************************)
(* Proofs about the data of a stream: handle_send_data never holds two     *)
(* remainders, the bytes reach picoquic in order and completely, the FIN   *)
(* and the reset come only when they may, and the sending side as a whole  *)
(* implements a pipe of bytes.                                             *)
(***************************************************************************)
EXTENDS StreamLifecycleProofs, StreamRefinement

------------------------------------------------------------------------------
(* The buffers of handle_send_data.  f[i] is the size of the first i       *)
(* buffers of seq together: the sum is stated by its equations.            *)
IsTotals(f, seq) ==
  /\ f \in [0..Len(seq) -> Nat] /\ f[0] = 0
  /\ \A i \in 1..Len(seq) : f[i] = f[i - 1] + Size(seq[i])
  /\ \A i, j \in 0..Len(seq) : i <= j => f[i] <= f[j]

LEMMA SingletonSeq ==
  ASSUME NEW S, NEW seq \in Seq(S), seq # <<>>, Len(seq) <= 1
  PROVE  seq = <<seq[1]>> /\ seq[1] \in S
<1>1. Len(seq) = 1
  <2>1. Len(seq) \in Nat /\ Len(seq) # 0
    OBVIOUS
  <2>2. QED
    BY <2>1
<1>2. DOMAIN seq = 1..1 /\ seq[1] \in S
  BY <1>1
<1>3. seq = <<seq[1]>>
  BY <1>1, <1>2
<1>4. QED
  BY <1>2, <1>3

LEMMA TotalsOfFew ==
  /\ \E f : IsTotals(f, <<>>) /\ f[0] = 0
  /\ \A buf \in Ranges :
       \E f : IsTotals(f, <<buf>>) /\ f[0] = 0 /\ f[1] = Size(buf)
<1>1. IsTotals([i \in 0..0 |-> 0], <<>>)
  BY DEF IsTotals
<1>2. ASSUME NEW buf \in Ranges
      PROVE  \E f : IsTotals(f, <<buf>>) /\ f[0] = 0 /\ f[1] = Size(buf)
  <2> DEFINE g == [i \in 0..1 |-> IF i = 0 THEN 0 ELSE Size(buf)]
  <2>1. Size(buf) \in Nat /\ Len(<<buf>>) = 1 /\ <<buf>>[1] = buf
    BY SizeType
  <2>2. g \in [0..1 -> Nat] /\ g[0] = 0 /\ g[1] = Size(buf)
    BY <2>1
  <2> HIDE DEF g
  <2>3. IsTotals(g, <<buf>>)
    BY <2>1, <2>2 DEF IsTotals
  <2>4. QED
    BY <2>2, <2>3
<1>3. QED
  BY <1>1, <1>2

LEMMA TotalsOfAppend ==
  ASSUME NEW seq \in Seq(Ranges), NEW buf \in Ranges,
         NEW f, IsTotals(f, seq)
  PROVE  \E g : /\ IsTotals(g, Append(seq, buf))
                /\ g[Len(seq)] = f[Len(seq)]
                /\ g[Len(seq) + 1] = f[Len(seq)] + Size(buf)
<1> DEFINE n == Len(seq)
           g == [i \in 0..(n + 1) |-> IF i = n + 1 THEN f[n] + Size(buf) ELSE f[i]]
           seq2 == Append(seq, buf)
<1>1. Size(buf) \in Nat /\ n \in Nat /\ f \in [0..n -> Nat]
  BY SizeType DEF IsTotals
<1>2. /\ g \in [0..(n + 1) -> Nat] /\ g[n + 1] = f[n] + Size(buf)
      /\ \A i \in 0..n : g[i] = f[i]
  BY <1>1
<1>3. /\ Len(seq2) = n + 1 /\ seq2[n + 1] = buf
      /\ \A i \in 1..n : seq2[i] = seq[i]
  OBVIOUS
<1>f. /\ \A i \in 1..n : f[i] = f[i - 1] + Size(seq[i])
      /\ \A i, j \in 0..n : i <= j => f[i] <= f[j]
      /\ f[0] = 0
  BY DEF IsTotals
<1> HIDE DEF g, seq2, n
<1>4. ASSUME NEW i \in 1..(n + 1) PROVE g[i] = g[i - 1] + Size(seq2[i])
  <2>1. CASE i = n + 1
    BY <1>1, <1>2, <1>3, <2>1
  <2>2. CASE i # n + 1
    BY <1>1, <1>2, <1>3, <1>f, <2>2
  <2>3. QED
    BY <2>1, <2>2
<1>5. ASSUME NEW i \in 0..(n + 1), NEW j \in 0..(n + 1), i <= j
      PROVE  g[i] <= g[j]
  <2>1. CASE j = n + 1
    <3>1. i # n + 1 => g[i] = f[i] /\ f[i] <= f[n] /\ f[i] \in Nat
      BY <1>1, <1>2, <1>f
    <3>2. f[n] \in Nat /\ g[j] = f[n] + Size(buf)
      BY <1>1, <1>2, <2>1
    <3>3. i = n + 1 => g[i] = f[n] + Size(buf)
      BY <1>2
    <3>4. CASE i = n + 1
      BY <1>1, <3>2, <3>3, <3>4
    <3>5. CASE i # n + 1
      BY <1>1, <3>1, <3>2, <3>5
    <3>6. QED
      BY <3>4, <3>5
  <2>2. CASE j # n + 1
    <3>1. i \in 0..n /\ j \in 0..n
      BY <1>1, <1>5, <2>2
    <3>2. g[i] = f[i] /\ g[j] = f[j] /\ f[i] <= f[j]
      BY <1>2, <1>5, <1>f, <3>1
    <3>3. QED
      BY <3>2
  <2>3. QED
    BY <2>1, <2>2
<1>6. IsTotals(g, seq2) /\ g[n] = f[n] /\ g[n + 1] = f[n] + Size(buf)
  BY <1>1, <1>2, <1>3, <1>4, <1>5, <1>f DEF IsTotals
<1>7. QED
  BY <1>6 DEF seq2, n

LEMMA TotalsOfTail ==
  ASSUME NEW seq \in Seq(Ranges), seq # <<>>, NEW f, IsTotals(f, seq)
  PROVE  /\ f[1] = Size(Head(seq))
         /\ \E g : /\ IsTotals(g, Tail(seq))
                   /\ \A i \in 0..(Len(seq) - 1) : g[i] = f[i + 1] - f[1]
<1> DEFINE n == Len(seq)
           g == [i \in 0..(n - 1) |-> f[i + 1] - f[1]]
           seq2 == Tail(seq)
<1>1. n \in Nat /\ n >= 1 /\ f \in [0..n -> Nat]
  BY DEF IsTotals
<1>2. /\ Len(seq2) = n - 1 /\ \A i \in 1..(n - 1) : seq2[i] = seq[i + 1]
      /\ Head(seq) = seq[1] /\ \A i \in 1..n : Size(seq[i]) \in Nat
  BY SizeType
<1>3. f[1] = Size(Head(seq))
  BY <1>1, <1>2 DEF IsTotals
<1>4. \A i \in 0..(n - 1) : f[i + 1] \in Nat /\ f[1] <= f[i + 1]
  BY <1>1 DEF IsTotals
<1>5. g \in [0..(n - 1) -> Nat] /\ \A i \in 0..(n - 1) : g[i] = f[i + 1] - f[1]
  BY <1>1, <1>4
<1> HIDE DEF g, seq2
<1>6. ASSUME NEW i \in 1..(n - 1) PROVE g[i] = g[i - 1] + Size(seq2[i])
  <2>1. /\ i + 1 \in 1..n /\ i \in 0..(n - 1) /\ i - 1 \in 0..(n - 1)
        /\ (i + 1) - 1 = i /\ (i - 1) + 1 = i
    BY <1>1
  <2>2. f[i + 1] = f[i] + Size(seq[i + 1])
    BY <2>1 DEF IsTotals
  <2>3. g[i] = f[i + 1] - f[1] /\ g[i - 1] = f[i] - f[1]
    BY <1>5, <2>1
  <2>4. f[i + 1] \in Nat /\ f[i] \in Nat /\ f[1] \in Nat
    BY <1>1, <2>1
  <2>5. Size(seq2[i]) = Size(seq[i + 1]) /\ Size(seq[i + 1]) \in Nat
    BY <1>2, <2>1
  <2>6. QED
    BY <2>2, <2>3, <2>4, <2>5
<1>7. \A i, j \in 0..(n - 1) : i <= j => g[i] <= g[j]
  BY <1>1, <1>4, <1>5 DEF IsTotals
<1>8. IsTotals(g, seq2)
  BY <1>1, <1>2, <1>5, <1>6, <1>7 DEF IsTotals
<1>9. QED
  BY <1>3, <1>5, <1>8 DEF seq2

(* What handle_send_data has collected: all but the last buffer fit.       *)
Collected ==
  \E f : /\ IsTotals(f, buffers) /\ size = f[Len(buffers)]
         /\ buffers # <<>> => f[Len(buffers) - 1] <= max_length

(* What it has still to copy: all but the last buffer fit into what is     *)
(* left, and the last too when the data ends with a FIN.                   *)
Copyable ==
  \E f : /\ IsTotals(f, buffers) /\ f[Len(buffers) - 1] <= length
         /\ fin_sent => f[Len(buffers)] <= length

BufferInv ==
  /\ pc # "panic"
  /\ Len(active_buffer) <= 1
  /\ pc \in {"collect", "write"} => active_buffer = <<>>
  /\ pc \notin {"collect", "write"} => buffers = <<>>
  /\ pc = "collect" => Collected /\ ~fin_sent
  /\ pc = "write" => Copyable

LEMMA BufferInit == Init => BufferInv
<1> SUFFICES ASSUME Init PROVE BufferInv
  OBVIOUS
<1>1. pc = "idle" /\ active_buffer = <<>> /\ buffers = <<>>
  BY DEF Init, ContextNew
<1>2. QED
  BY <1>1 DEF BufferInv

(* Copying takes the first buffer: whole, unless it is the last one.       *)
LEMMA CopyFacts ==
  ASSUME TypeInv, BufferInv, pc = "write",
         NEW n, n = Least(Size(Head(buffers)), length)
  PROVE  /\ buffers \in Seq(Ranges) /\ buffers # <<>> /\ active_buffer = <<>>
         /\ Head(buffers) \in Ranges /\ n \in Nat /\ n <= Size(Head(buffers))
         /\ Size(Advance(Head(buffers), n)) = Size(Head(buffers)) - n
         /\ Tail(buffers) # <<>> => n = Size(Head(buffers))
         /\ fin_sent => n = Size(Head(buffers))
         /\ Tail(buffers) # <<>> =>
              \E g : /\ IsTotals(g, Tail(buffers))
                     /\ g[Len(Tail(buffers)) - 1] <= length - n
                     /\ fin_sent => g[Len(Tail(buffers))] <= length - n
<1>1. /\ buffers \in Seq(Ranges) /\ buffers # <<>> /\ active_buffer = <<>>
      /\ length \in Nat
  BY DEF TypeInv, TypeOK, BufferInv
<1>2. Head(buffers) \in Ranges /\ Size(Head(buffers)) \in Nat
  BY <1>1, SizeType
<1>3. n \in Nat /\ n <= Size(Head(buffers)) /\ n <= length
  BY <1>1, <1>2, LeastFacts
<1>4. Size(Advance(Head(buffers), n)) = Size(Head(buffers)) - n
  BY <1>2, <1>3 DEF Ranges, Size, Advance
<1>5. PICK f : /\ IsTotals(f, buffers) /\ f[Len(buffers) - 1] <= length
               /\ fin_sent => f[Len(buffers)] <= length
  BY DEF BufferInv, Copyable
<1>6. PICK g : /\ IsTotals(g, Tail(buffers))
               /\ \A i \in 0..(Len(buffers) - 1) : g[i] = f[i + 1] - f[1]
  BY <1>1, <1>5, TotalsOfTail
<1>7. f[1] = Size(Head(buffers))
  BY <1>1, <1>5, TotalsOfTail
<1>8. /\ Len(buffers) \in Nat /\ Len(buffers) >= 1
      /\ Len(Tail(buffers)) = Len(buffers) - 1
      /\ Tail(buffers) # <<>> => Len(buffers) >= 2
  BY <1>1
<1>9. /\ f \in [0..Len(buffers) -> Nat]
      /\ \A i, j \in 0..Len(buffers) : i <= j => f[i] <= f[j]
  BY <1>5 DEF IsTotals
<1>10. ASSUME Tail(buffers) # <<>> PROVE f[1] <= length
  <2>1. f[1] <= f[Len(buffers) - 1]
    BY <1>8, <1>9, <1>10
  <2>2. f[1] \in Nat /\ f[Len(buffers) - 1] \in Nat
    BY <1>8, <1>9
  <2>3. QED
    BY <1>1, <1>5, <2>1, <2>2
<1>11. ASSUME fin_sent PROVE f[1] <= length
  BY <1>1, <1>5, <1>8, <1>9, <1>11
<1>12. f[1] <= length => n = Size(Head(buffers))
  BY <1>1, <1>2, <1>7 DEF Least
<1>13. ASSUME Tail(buffers) # <<>>
       PROVE  /\ g[Len(Tail(buffers)) - 1] <= length - n
              /\ fin_sent => g[Len(Tail(buffers))] <= length - n
  <2>1. n = f[1]
    BY <1>7, <1>10, <1>12, <1>13
  <2>2. /\ g[Len(buffers) - 2] = f[Len(buffers) - 1] - f[1]
        /\ g[Len(buffers) - 1] = f[Len(buffers)] - f[1]
    BY <1>6, <1>8, <1>13
  <2>3. f[Len(buffers) - 1] \in Nat /\ f[Len(buffers)] \in Nat /\ f[1] \in Nat
    BY <1>8, <1>9
  <2>4. QED
    BY <1>1, <1>5, <1>8, <2>1, <2>2, <2>3
<1>14. QED
  BY <1>1, <1>2, <1>3, <1>4, <1>6, <1>10, <1>11, <1>12, <1>13

LEMMA BufferStep == TypeInv /\ BufferInv /\ [Next]_vars => BufferInv'
<1> SUFFICES ASSUME TypeInv, BufferInv, [Next]_vars PROVE BufferInv'
  OBVIOUS
<1> USE DEF localVars, quicVars
<1> DEFINE Sending == {"collect", "write"}
<1>t. /\ buffers \in Seq(Ranges) /\ active_buffer \in Seq(Ranges)
      /\ chan \in [Channels -> ChannelRecords]
      /\ max_length \in Nat /\ size \in Nat /\ length \in Nat
      /\ fin_sent \in BOOLEAN
  BY DEF TypeInv, TypeOK
<1>h. ASSUME UNCHANGED <<active_buffer, localVars, fin_sent>>,
             (pc' = pc) \/ (pc \notin Sending /\ pc' \notin Sending \cup {"panic"})
      PROVE  BufferInv'
  BY <1>h DEF BufferInv, Collected, Copyable, IsTotals
<1>d. ASSUME active_buffer' = <<>>, buffers' = <<>>, pc' = "gone"
      PROVE  BufferInv'
  BY <1>d DEF BufferInv
<1>1. CASE App
  BY <1>h, <1>1 DEF App, StartSend, SetSendChannelSize, Reset, PollRecv,
     DropStream
<1>2. CASE Poll
  <2>1. CASE PollStart \/ PollControlReset \/ PollControlSwap
    BY <1>h, <2>1 DEF PollStart, PollControlReset, PollControlSwap
  <2>2. CASE PollControlEnd \/ PollSendDataNone
    BY <1>h, <2>2 DEF PollControlEnd, PollSendDataNone
  <2>3. CASE PollSendDataIdle \/ PollNotReady
    BY <1>h, <2>3 DEF PollSendDataIdle, PollNotReady
  <2>4. CASE PollSendDataItem
    <3>1. /\ active_buffer' = <<Head(chan[PollTarget].queue)>>
          /\ buffers' = buffers /\ pc = "send" /\ pc' = "check"
      BY <2>4 DEF PollSendDataItem
    <3>2. Len(active_buffer') = 1
      BY <3>1
    <3>3. QED
      BY <3>1, <3>2 DEF BufferInv
  <2>5. CASE PollReady
    BY <1>d, <2>5 DEF PollReady, DropContext, BufferInv
  <2>6. QED
    BY <1>2, <2>1, <2>2, <2>3, <2>4, <2>5 DEF Poll
<1>3. CASE Quic
  <2>1. ASSUME NEW event \in Events, NEW len \in 0..1, Callback(event, len)
        PROVE  BufferInv'
    BY <1>h, <2>1 DEF Callback
  <2>2. ASSUME NEW m \in PacketSizes, PrepareToSend(m) PROVE BufferInv'
    <3>1. /\ pc' = "collect" /\ active_buffer' = <<>> /\ max_length' = m
          /\ buffers' = active_buffer /\ ~fin_sent' /\ m \in Nat
          /\ size' = IF active_buffer = <<>> THEN 0 ELSE Size(active_buffer[1])
      BY <2>2, StreamAssumptions DEF PrepareToSend
    <3>2. CASE active_buffer = <<>>
      <4>1. PICK f : IsTotals(f, <<>>) /\ f[0] = 0
        BY TotalsOfFew
      <4>2. Collected'
        BY <3>1, <3>2, <4>1 DEF Collected
      <4>3. QED
        BY <3>1, <4>2 DEF BufferInv
    <3>3. CASE active_buffer # <<>>
      <4>1. Len(active_buffer) <= 1
        BY DEF BufferInv
      <4>2. active_buffer = <<active_buffer[1]>> /\ active_buffer[1] \in Ranges
        BY <1>t, <3>3, <4>1, SingletonSeq
      <4>3. PICK f : /\ IsTotals(f, <<active_buffer[1]>>)
                     /\ f[0] = 0 /\ f[1] = Size(active_buffer[1])
        BY <4>2, TotalsOfFew
      <4>4. IsTotals(f, buffers') /\ Len(buffers') = 1
        BY <3>1, <4>2, <4>3
      <4>5. size' = f[Len(buffers')] /\ f[Len(buffers') - 1] <= max_length'
        BY <3>1, <3>3, <4>3, <4>4
      <4>6. Collected'
        BY <4>4, <4>5 DEF Collected
      <4>7. QED
        BY <3>1, <4>6 DEF BufferInv
    <3>4. QED
      BY <3>2, <3>3
  <2>3. CASE CollectBuffer
    <3> DEFINE buf == Head(chan[PollTarget].queue)
    <3>1. /\ pc = "collect" /\ pc' = "collect" /\ size <= max_length
          /\ buffers' = Append(buffers, buf) /\ size' = size + Size(buf)
          /\ UNCHANGED <<active_buffer, max_length, fin_sent>>
      BY <2>3 DEF CollectBuffer, CollectMore
    <3>2. buf \in Ranges
      BY <2>3, SwappableFacts DEF CollectBuffer, TypeInv
    <3>3. PICK f : IsTotals(f, buffers) /\ size = f[Len(buffers)]
      BY <3>1 DEF BufferInv, Collected
    <3> HIDE DEF buf
    <3>4. PICK g : /\ IsTotals(g, Append(buffers, buf))
                   /\ g[Len(buffers)] = f[Len(buffers)]
                   /\ g[Len(buffers) + 1] = f[Len(buffers)] + Size(buf)
      BY <1>t, <3>2, <3>3, TotalsOfAppend
    <3>5. Len(buffers') = Len(buffers) + 1 /\ Len(buffers) \in Nat
      BY <1>t, <3>1, <3>2
    <3>6. /\ IsTotals(g, buffers') /\ size' = g[Len(buffers')]
          /\ g[Len(buffers') - 1] <= max_length'
      BY <3>1, <3>3, <3>4, <3>5
    <3>7. Collected'
      BY <3>6 DEF Collected
    <3>8. QED
      BY <3>1, <3>7 DEF BufferInv
  <2>4. CASE ProvideData
    <3>1. /\ pc = "collect" /\ UNCHANGED <<active_buffer, buffers>>
          /\ pc' = IF buffers = <<>> THEN "idle" ELSE "write"
          /\ fin_sent' = Fin /\ length' = Least(max_length, size)
      BY <2>4 DEF ProvideData
    <3>2. CASE buffers = <<>>
      BY <3>1, <3>2 DEF BufferInv
    <3>3. CASE buffers # <<>>
      <4>1. PICK f : /\ IsTotals(f, buffers) /\ size = f[Len(buffers)]
                     /\ f[Len(buffers) - 1] <= max_length
        BY <3>1, <3>3 DEF BufferInv, Collected
      <4>2. Len(buffers) \in Nat /\ Len(buffers) >= 1
        BY <1>t, <3>3
      <4>3. /\ f[Len(buffers) - 1] <= f[Len(buffers)]
            /\ f[Len(buffers) - 1] \in Nat
        BY <4>1, <4>2 DEF IsTotals
      <4>4. f[Len(buffers) - 1] <= length'
        BY <1>t, <3>1, <4>1, <4>3 DEF Least
      <4>5. fin_sent' => f[Len(buffers)] <= length'
        <5>1. fin_sent' => size <= max_length
          BY <3>1 DEF Fin, CollectMore
        <5>2. size <= max_length => size <= length'
          BY <1>t, <3>1 DEF Least
        <5>3. QED
          BY <4>1, <5>1, <5>2
      <4>6. Copyable'
        BY <3>1, <4>1, <4>4, <4>5 DEF Copyable
      <4>7. QED
        BY <3>1, <3>3, <4>6 DEF BufferInv
    <3>4. QED
      BY <3>2, <3>3
  <2>5. CASE CopyBuffer
    <3> DEFINE n == Least(Size(Head(buffers)), length)
               rest == Advance(Head(buffers), n)
    <3>1. /\ pc = "write" /\ length' = length - n /\ buffers' = Tail(buffers)
          /\ fin_sent' = fin_sent
      BY <2>5 DEF CopyBuffer
    <3>2. IF Size(rest) # 0 /\ active_buffer # <<>>
          THEN pc' = "panic" /\ UNCHANGED active_buffer
          ELSE /\ pc' = IF Tail(buffers) = <<>> THEN "idle" ELSE "write"
               /\ active_buffer' = IF Size(rest) # 0 THEN <<rest>>
                                   ELSE active_buffer
      BY <2>5 DEF CopyBuffer
    <3> HIDE DEF n
    <3>3. /\ active_buffer = <<>> /\ buffers \in Seq(Ranges) /\ buffers # <<>>
          /\ Head(buffers) \in Ranges /\ n \in Nat
          /\ Size(rest) = Size(Head(buffers)) - n
          /\ Tail(buffers) # <<>> => n = Size(Head(buffers))
          /\ Tail(buffers) # <<>> =>
               \E g : /\ IsTotals(g, Tail(buffers))
                      /\ g[Len(Tail(buffers)) - 1] <= length - n
                      /\ fin_sent => g[Len(Tail(buffers))] <= length - n
      BY <3>1, CopyFacts DEF n
    <3> HIDE DEF rest
    <3>4. CASE Tail(buffers) = <<>>
      <4>1. pc' = "idle" /\ active_buffer' \in {<<rest>>, <<>>}
        BY <3>2, <3>3, <3>4
      <4>2. Len(active_buffer') <= 1
        BY <4>1
      <4>3. QED
        BY <3>1, <3>4, <4>1, <4>2 DEF BufferInv
    <3>5. CASE Tail(buffers) # <<>>
      <4>1. Size(rest) = 0
        BY <3>3, <3>5
      <4>2. pc' = "write" /\ active_buffer' = <<>>
        BY <3>2, <3>3, <3>5, <4>1
      <4>3. Copyable'
        BY <3>1, <3>3, <3>5 DEF Copyable
      <4>4. QED
        BY <4>2, <4>3 DEF BufferInv
    <3>6. QED
      BY <3>4, <3>5
  <2>6. CASE LocalClose
    BY <1>h, <2>6 DEF LocalClose
  <2>7. ASSUME NEW err, CloseCallback(err) PROVE BufferInv'
    BY <1>h, <2>7 DEF CloseCallback
  <2>8. CASE ConnectionDropped
    BY <1>d, <2>8 DEF ConnectionDropped, DropContext, BufferInv
  <2>9. QED
    BY <1>3, <2>1, <2>2, <2>3, <2>4, <2>5, <2>6, <2>7, <2>8 DEF Quic, SendData
<1>4. CASE UNCHANGED vars
  BY <1>h, <1>4 DEF vars
<1>5. QED
  BY <1>1, <1>2, <1>3, <1>4 DEF Next

(* handle_send_data never finds a second remainder, for every sequence of  *)
(* chunk and packet sizes.                                                 *)
THEOREM NeverPanics == Spec => []NoPanic
<1>1. Init => TypeInv /\ BufferInv
  BY TypeInit, BufferInit
<1>2. (TypeInv /\ BufferInv) /\ [Next]_vars => (TypeInv /\ BufferInv)'
  BY TypeStep, BufferStep
<1>3. BufferInv => NoPanic
  BY DEF BufferInv, NoPanic
<1>4. QED
  BY <1>1, <1>2, <1>3, PTL DEF Spec

------------------------------------------------------------------------------
(* Where the receivers are.  Channels are numbered as they are created,    *)
(* and their receivers stay in that order on their way through the control *)
(* channel, swap_to and active; a channel with data has its receiver       *)
(* somewhere on this way.                                                  *)
Held(k) ==
  \/ k \in {active, swap_to}
  \/ \E i \in DOMAIN control_msg : control_msg[i].receiver = k

(* The messages not yet processed: resets, and receivers in order.         *)
MessagesInOrder ==
  /\ \A i \in DOMAIN control_msg :
       \/ control_msg[i] = ResetMsg
       \/ /\ control_msg[i] = SwapSendData(control_msg[i].receiver)
          /\ active < control_msg[i].receiver
          /\ swap_to < control_msg[i].receiver
          /\ control_msg[i].receiver <= created
  /\ \A i, j \in DOMAIN control_msg :
       (i < j /\ control_msg[i].receiver # 0 /\ control_msg[j].receiver # 0) =>
         control_msg[i].receiver < control_msg[j].receiver

ReceiversInOrder ==
  /\ sender \in {0, created}
  /\ active <= created /\ swap_to <= created
  /\ active = 0 => swap_to = 0
  /\ swap_to # 0 => active < swap_to
  /\ pc = "gone" => active = 0 /\ control_msg = <<>>

DataIsHeld ==
  /\ \A k \in Channels : k > created => chan[k].queue = <<>>
  /\ \A k \in Channels : chan[k].queue # <<>> => Held(k)

PlaceInv == MessagesInOrder /\ ReceiversInOrder /\ DataIsHeld

LEMMA PlaceTypes ==
  ASSUME TypeInv
  PROVE  /\ active \in Nat /\ swap_to \in Nat /\ created \in Nat /\ created >= 1
         /\ created <= MaxChannels /\ MaxChannels \in Nat
         /\ sender \in Nat /\ control_msg \in Seq(ControlMessages)
         /\ active # 0 => active \in Channels
         /\ swap_to # 0 => swap_to \in Channels
         /\ sender # 0 => sender \in Channels
         /\ chan \in [Channels -> ChannelRecords] /\ 0 \notin Channels
         /\ \A i \in DOMAIN control_msg : control_msg[i].receiver \in Nat
<1>1. control_msg \in Seq(ControlMessages)
  BY DEF TypeInv, TypeOK
<1>2. ASSUME NEW i \in DOMAIN control_msg PROVE control_msg[i].receiver \in Nat
  <2>1. control_msg[i] \in ControlMessages
    BY <1>1
  <2>2. QED
    BY <2>1, StreamAssumptions DEF ControlMessages
<1>3. QED
  BY <1>1, <1>2, StreamAssumptions DEF TypeInv, TypeOK, Channels

LEMMA PlaceInit == Init => PlaceInv
<1> SUFFICES ASSUME Init PROVE PlaceInv
  OBVIOUS
<1>1. /\ sender \in {0, 1} /\ created = 1 /\ active = sender /\ swap_to = 0
      /\ control_msg = <<>> /\ pc = "idle"
      /\ chan = [k \in Channels |-> NewChannel(DefaultSize)]
  BY DEF Init, StreamNew, ContextNew
<1>2. \A k \in Channels : chan[k].queue = <<>>
  BY <1>1 DEF NewChannel
<1>3. QED
  BY <1>1, <1>2 DEF PlaceInv, MessagesInOrder, ReceiversInOrder, DataIsHeld

(* A message is taken: the others move up and stay in order.               *)
LEMMA TailOfMessages ==
  ASSUME TypeInv, control_msg # <<>>, control_msg' = Tail(control_msg),
         NEW i \in DOMAIN control_msg'
  PROVE  /\ i \in Nat /\ i + 1 \in DOMAIN control_msg /\ 1 < i + 1
         /\ control_msg'[i] = control_msg[i + 1]
<1>1. control_msg \in Seq(ControlMessages)
  BY DEF TypeInv, TypeOK
<1>2. QED
  BY <1>1

LEMMA MessagesOfTail ==
  ASSUME TypeInv, PlaceInv, control_msg # <<>>,
         control_msg' = Tail(control_msg)
  PROVE  \A i, j \in DOMAIN control_msg' :
           (/\ i < j /\ control_msg'[i].receiver # 0
            /\ control_msg'[j].receiver # 0) =>
             control_msg'[i].receiver < control_msg'[j].receiver
<1> SUFFICES ASSUME NEW i \in DOMAIN control_msg', NEW j \in DOMAIN control_msg',
                    i < j, control_msg'[i].receiver # 0,
                    control_msg'[j].receiver # 0
             PROVE  control_msg'[i].receiver < control_msg'[j].receiver
  OBVIOUS
<1>1. /\ i \in Nat /\ i + 1 \in DOMAIN control_msg
      /\ control_msg'[i] = control_msg[i + 1]
  BY TailOfMessages
<1>2. /\ j \in Nat /\ j + 1 \in DOMAIN control_msg
      /\ control_msg'[j] = control_msg[j + 1]
  BY TailOfMessages
<1>3. i + 1 < j + 1
  BY <1>1, <1>2
<1>4. QED
  BY <1>1, <1>2, <1>3 DEF PlaceInv, MessagesInOrder

(* What a poll of the SwappableStream does to the queues: a swap drops an  *)
(* exhausted one, and an item comes from the first that is not empty.      *)
LEMMA SwapFacts ==
  ASSUME TypeInv
  PROVE  \A k \in Channels : ChanAfterSwap[k].queue = chan[k].queue
<1>1. chan \in [Channels -> ChannelRecords]
  BY PlaceTypes
<1>2. QED
  BY <1>1 DEF ChanAfterSwap, Swaps, Exhausted, DropReceiver

LEMMA TakeFacts ==
  ASSUME TypeInv, PollHasItem,
         chan' = [ChanAfterSwap EXCEPT ![PollTarget] = Dequeue(@)]
  PROVE  /\ PollTarget \in Channels /\ active # 0
         /\ chan[PollTarget].queue \in Seq(Ranges)
         /\ chan[PollTarget].queue # <<>>
         /\ chan'[PollTarget].queue = Tail(chan[PollTarget].queue)
         /\ \A k \in Channels \ {PollTarget} : chan'[k].queue = chan[k].queue
         /\ \A k \in Channels : chan'[k].queue # <<>> => chan[k].queue # <<>>
<1>1. /\ PollTarget \in Channels
      /\ ChanAfterSwap[PollTarget] = chan[PollTarget]
      /\ ChanAfterSwap \in [Channels -> ChannelRecords]
  BY SwappableFacts DEF TypeInv
<1>2. chan[PollTarget] \in ChannelRecords
  BY <1>1
<1>3. chan[PollTarget].queue # <<>> /\ chan[PollTarget].queue \in Seq(Ranges)
  BY <1>2 DEF PollHasItem, ChannelRecords
<1>4. active # 0
  BY <1>1, PlaceTypes DEF PollTarget, Swaps
<1>5. chan'[PollTarget].queue = Tail(chan[PollTarget].queue)
  BY <1>1, <1>2 DEF Dequeue, ChannelRecords
<1>6. \A k \in Channels \ {PollTarget} : chan'[k].queue = chan[k].queue
  BY <1>1, SwapFacts
<1>7. QED
  BY <1>1, <1>3, <1>4, <1>5, <1>6

(* Steps that move no receiver and add no data.                            *)
LEMMA PlaceKept ==
  ASSUME PlaceInv, UNCHANGED <<created, active, swap_to, control_msg>>,
         sender' \in {sender, 0}, pc' = "gone" => pc = "gone",
         \A k \in Channels : chan'[k].queue # <<>> => chan[k].queue # <<>>
  PROVE  PlaceInv'
<1>1. MessagesInOrder'
  BY DEF PlaceInv, MessagesInOrder, ResetMsg, SwapSendData
<1>2. ReceiversInOrder'
  BY DEF PlaceInv, ReceiversInOrder
<1>3. DataIsHeld'
  BY DEF PlaceInv, DataIsHeld, Held
<1>4. QED
  BY <1>1, <1>2, <1>3 DEF PlaceInv

(* SwappableStream::poll moves swap_to to active when active is exhausted. *)
LEMMA PlaceSwap ==
  ASSUME TypeInv, PlaceInv, UNCHANGED <<sender, created, control_msg>>,
         active # 0, pc' # "gone",
         active' = PollTarget, swap_to' = SwapToAfterSwap,
         \A k \in Channels : chan'[k].queue # <<>> => chan[k].queue # <<>>
  PROVE  PlaceInv'
<1>t. active \in Nat /\ swap_to \in Nat /\ created \in Nat
      /\ \A i \in DOMAIN control_msg : control_msg[i].receiver \in Nat
  BY PlaceTypes
<1>1. CASE ~Swaps
  <2>1. UNCHANGED <<active, swap_to>>
    BY <1>1 DEF PollTarget, SwapToAfterSwap
  <2>2. QED
    BY <2>1, PlaceKept
<1>2. CASE Swaps
  <2>1. /\ active' = swap_to /\ swap_to' = 0 /\ swap_to # 0
        /\ chan[active].queue = <<>>
    BY <1>2 DEF PollTarget, SwapToAfterSwap, Swaps, Exhausted
  <2>2. active < swap_to
    BY <2>1 DEF PlaceInv, ReceiversInOrder
  <2>3. ReceiversInOrder'
    BY <1>t, <2>1 DEF PlaceInv, ReceiversInOrder
  <2>4. MessagesInOrder'
    <3>1. \A i \in DOMAIN control_msg :
            \/ control_msg[i] = ResetMsg
            \/ /\ control_msg[i] = SwapSendData(control_msg[i].receiver)
               /\ swap_to < control_msg[i].receiver
               /\ 0 < control_msg[i].receiver
               /\ control_msg[i].receiver <= created
      BY <1>t DEF PlaceInv, MessagesInOrder
    <3>2. QED
      BY <2>1, <3>1 DEF PlaceInv, MessagesInOrder, ResetMsg, SwapSendData
  <2>5. DataIsHeld'
    BY <2>1 DEF PlaceInv, DataIsHeld, Held
  <2>6. QED
    BY <2>3, <2>4, <2>5 DEF PlaceInv
<1>3. QED
  BY <1>1, <1>2

(* close_send_data, with or without a Reset message taken before.          *)
LEMMA PlaceClose ==
  ASSUME TypeInv, PlaceInv, UNCHANGED <<sender, created>>, pc' # "gone",
         CloseSendData,
         \/ control_msg' = control_msg
         \/ /\ control_msg # <<>> /\ Head(control_msg) = ResetMsg
            /\ control_msg' = Tail(control_msg)
  PROVE  PlaceInv'
<1>t. /\ active \in Nat /\ swap_to \in Nat /\ created \in Nat
      /\ control_msg \in Seq(ControlMessages)
      /\ \A i \in DOMAIN control_msg : control_msg[i].receiver \in Nat
  BY PlaceTypes
<1>1. active' = 0 /\ swap_to' = 0
  BY DEF CloseSendData
<1>2. \A k \in Channels :
        chan'[k].queue # <<>> =>
          k \notin {active, swap_to} /\ chan[k].queue # <<>>
  BY DEF CloseSendData, DropReceivers, DropReceiver
<1>m. \A i \in DOMAIN control_msg' :
        \E j \in DOMAIN control_msg : control_msg'[i] = control_msg[j]
  BY <1>t
<1>3. ReceiversInOrder'
  BY <1>t, <1>1 DEF PlaceInv, ReceiversInOrder
<1>4. MessagesInOrder'
  <2>1. \A i \in DOMAIN control_msg' :
          \/ control_msg'[i] = ResetMsg
          \/ /\ control_msg'[i] = SwapSendData(control_msg'[i].receiver)
             /\ 0 < control_msg'[i].receiver
             /\ control_msg'[i].receiver <= created
    BY <1>t, <1>m DEF PlaceInv, MessagesInOrder
  <2>2. \A i, j \in DOMAIN control_msg' :
          (/\ i < j /\ control_msg'[i].receiver # 0
           /\ control_msg'[j].receiver # 0) =>
            control_msg'[i].receiver < control_msg'[j].receiver
    <3>1. CASE control_msg' = control_msg
      BY <3>1 DEF PlaceInv, MessagesInOrder
    <3>2. CASE control_msg # <<>> /\ control_msg' = Tail(control_msg)
      BY <3>2, MessagesOfTail
    <3>3. QED
      BY <3>1, <3>2
  <2>3. QED
    BY <1>1, <2>1, <2>2 DEF MessagesInOrder, ResetMsg, SwapSendData
<1>5. DataIsHeld'
  <2>1. ASSUME NEW k \in Channels, chan'[k].queue # <<>>
        PROVE  Held(k)'
    <3>1. \E i \in DOMAIN control_msg : control_msg[i].receiver = k
      BY <1>2, <2>1 DEF PlaceInv, DataIsHeld, Held
    <3>2. PICK i \in DOMAIN control_msg : control_msg[i].receiver = k
      BY <3>1
    <3>3. CASE control_msg' = control_msg
      BY <3>2, <3>3 DEF Held
    <3>4. CASE /\ control_msg # <<>> /\ Head(control_msg) = ResetMsg
               /\ control_msg' = Tail(control_msg)
      <4>1. k # 0
        BY PlaceTypes
      <4>2. i # 1
        BY <1>t, <3>2, <3>4, <4>1 DEF ResetMsg
      <4>3. \E j \in DOMAIN control_msg' : control_msg'[j] = control_msg[i]
        BY <1>t, <3>4, <4>2, TailKeeps
      <4>4. QED
        BY <3>2, <4>3 DEF Held
    <3>5. QED
      BY <3>3, <3>4
  <2>2. \A k \in Channels : k > created' => chan'[k].queue = <<>>
    BY <1>2 DEF PlaceInv, DataIsHeld
  <2>3. QED
    BY <2>1, <2>2 DEF DataIsHeld
<1>6. QED
  BY <1>3, <1>4, <1>5 DEF PlaceInv

(* DropContext leaves no receiver and no data.                             *)
LEMMA PlaceDrop == TypeInv /\ PlaceInv /\ DropContext => PlaceInv'
<1> SUFFICES ASSUME TypeInv, PlaceInv, DropContext PROVE PlaceInv'
  OBVIOUS
<1> DEFINE ks == {active, swap_to} \cup
                   {control_msg[i].receiver : i \in DOMAIN control_msg}
<1>1. /\ active' = 0 /\ swap_to' = 0 /\ control_msg' = <<>>
      /\ sender' = sender /\ created' = created
      /\ chan' = DropReceivers(chan, ks)
  BY DEF DropContext, handleVars
<1>2. \A k \in Channels : chan'[k].queue = <<>>
  <2>1. \A k \in Channels : k \in ks => chan'[k].queue = <<>>
    BY <1>1 DEF DropReceivers, DropReceiver
  <2>2. \A k \in Channels : k \notin ks => chan[k].queue = <<>>
    BY DEF PlaceInv, DataIsHeld, Held
  <2>3. \A k \in Channels : k \notin ks => chan'[k] = chan[k]
    BY <1>1 DEF DropReceivers
  <2>4. QED
    BY <2>1, <2>2, <2>3
<1>3. created \in Nat
  BY PlaceTypes
<1>4. QED
  BY <1>1, <1>2, <1>3
  DEF PlaceInv, MessagesInOrder, ReceiversInOrder, DataIsHeld

(* The application's steps. *)
LEMMA PlaceApp == TypeInv /\ SenderHasReceiver /\ PlaceInv /\ App => PlaceInv'
<1> SUFFICES ASSUME TypeInv, SenderHasReceiver, PlaceInv, App PROVE PlaceInv'
  OBVIOUS
<1> USE DEF handleVars, chanVars, msgVars, dataVars
<1>t. /\ active \in Nat /\ swap_to \in Nat /\ created \in Nat /\ sender \in Nat
      /\ control_msg \in Seq(ControlMessages)
      /\ sender # 0 => sender \in Channels
      /\ chan \in [Channels -> ChannelRecords] /\ 0 \notin Channels
      /\ \A i \in DOMAIN control_msg : control_msg[i].receiver \in Nat
  BY PlaceTypes
<1>1. ASSUME NEW n \in ChunkSizes, StartSend(n) PROVE PlaceInv'
  <2>1. /\ sender # 0 /\ chan[sender].open
        /\ UNCHANGED <<sender, created, active, swap_to, control_msg, pc>>
    BY <1>1 DEF StartSend, StartSendResult
  <2>2. \A k \in Channels : k # sender => chan'[k] = chan[k]
    BY <1>1, <1>t DEF StartSend
  <2>3. Held(sender)
    BY <2>1 DEF SenderHasReceiver, Held, SwapSendData
  <2>4. sender = created
    BY <2>1 DEF PlaceInv, ReceiversInOrder
  <2>5. DataIsHeld'
    BY <1>t, <2>1, <2>2, <2>3, <2>4 DEF PlaceInv, DataIsHeld, Held
  <2>6. MessagesInOrder'
    BY <2>1 DEF PlaceInv, MessagesInOrder, ResetMsg, SwapSendData
  <2>7. ReceiversInOrder'
    BY <2>1 DEF PlaceInv, ReceiversInOrder
  <2>8. QED
    BY <2>5, <2>6, <2>7 DEF PlaceInv
<1>2. ASSUME NEW n \in SwapSizes, SetSendChannelSize(n) PROVE PlaceInv'
  <2>1. /\ created' = created + 1 /\ sender' = created + 1
        /\ UNCHANGED <<active, swap_to, pc>>
        /\ created + 1 \in Channels
    BY <1>2, <1>t, StreamAssumptions DEF SetSendChannelSize, Channels
  <2>2. \A k \in Channels :
          /\ k # created + 1 => chan'[k] = chan[k]
          /\ k = created + 1 => chan'[k].queue = <<>>
    BY <1>2, <1>t, <2>1 DEF SetSendChannelSize, NewChannel, DropReceiver
  <2>3. CASE pc = "gone"
    <3>1. control_msg' = control_msg
      BY <1>2, <2>3 DEF SetSendChannelSize
    <3>2. ReceiversInOrder'
      BY <1>t, <2>1, <3>1 DEF PlaceInv, ReceiversInOrder
    <3>3. MessagesInOrder'
      BY <2>3, <3>1 DEF PlaceInv, ReceiversInOrder, MessagesInOrder
    <3>4. DataIsHeld'
      BY <1>t, <2>1, <2>2, <3>1 DEF PlaceInv, DataIsHeld, Held
    <3>5. QED
      BY <3>2, <3>3, <3>4 DEF PlaceInv
  <2>4. CASE pc # "gone"
    <3> DEFINE m == SwapSendData(created + 1)
               last == Len(control_msg) + 1
    <3>1. control_msg' = Append(control_msg, m)
      BY <1>2, <2>4 DEF SetSendChannelSize
    <3>2. /\ DOMAIN control_msg = 1..Len(control_msg) /\ Len(control_msg) \in Nat
          /\ DOMAIN control_msg' = 1..last /\ control_msg'[last] = m
          /\ \A i \in DOMAIN control_msg : control_msg'[i] = control_msg[i]
      BY <1>t, <3>1
    <3>3. m.receiver = created + 1 /\ m = SwapSendData(m.receiver)
      BY DEF SwapSendData
    <3> HIDE DEF m, last
    <3>4. ReceiversInOrder'
      BY <1>t, <2>1, <2>4 DEF PlaceInv, ReceiversInOrder
    <3>5. DataIsHeld'
      <4>1. ASSUME NEW k \in Channels, chan'[k].queue # <<>>
            PROVE  Held(k)' /\ k <= created
        <5>1. chan[k].queue # <<>>
          BY <2>2, <4>1
        <5>2. Held(k)
          BY <5>1 DEF PlaceInv, DataIsHeld
        <5>3. Held(k)'
          BY <2>1, <3>2, <5>2 DEF Held, last
        <5>4. QED
          BY <1>t, <5>1, <5>3 DEF PlaceInv, DataIsHeld, Channels
      <4>2. QED
        BY <1>t, <2>1, <4>1 DEF DataIsHeld, Channels
    <3>6. MessagesInOrder'
      <4>1. active < created + 1 /\ swap_to < created + 1
        BY <1>t DEF PlaceInv, ReceiversInOrder
      <4>2. ASSUME NEW i \in DOMAIN control_msg'
            PROVE  \/ control_msg'[i] = ResetMsg
                   \/ /\ control_msg'[i] = SwapSendData(control_msg'[i].receiver)
                      /\ active < control_msg'[i].receiver
                      /\ swap_to < control_msg'[i].receiver
                      /\ control_msg'[i].receiver <= created + 1
        <5>1. CASE i = last
          BY <1>t, <3>2, <3>3, <4>1, <5>1
        <5>2. CASE i # last
          <6>1. i \in DOMAIN control_msg /\ control_msg'[i] = control_msg[i]
            BY <3>2, <5>2 DEF last
          <6>2. QED
            BY <1>t, <6>1 DEF PlaceInv, MessagesInOrder
        <5>3. QED
          BY <5>1, <5>2
      <4>3. ASSUME NEW i \in DOMAIN control_msg', NEW j \in DOMAIN control_msg',
                   i < j, control_msg'[i].receiver # 0,
                   control_msg'[j].receiver # 0
            PROVE  control_msg'[i].receiver < control_msg'[j].receiver
        <5>1. i \in DOMAIN control_msg /\ control_msg'[i] = control_msg[i]
          BY <3>2, <4>3 DEF last
        <5>2. CASE j = last
          <6>1. control_msg[i].receiver <= created
            BY <1>t, <4>3, <5>1 DEF PlaceInv, MessagesInOrder, ResetMsg
          <6>2. QED
            BY <1>t, <3>2, <3>3, <5>1, <5>2, <6>1
        <5>3. CASE j # last
          <6>1. j \in DOMAIN control_msg /\ control_msg'[j] = control_msg[j]
            BY <3>2, <5>3 DEF last
          <6>2. QED
            BY <4>3, <5>1, <6>1 DEF PlaceInv, MessagesInOrder
        <5>4. QED
          BY <5>2, <5>3
      <4>4. QED
        BY <2>1, <4>2, <4>3 DEF MessagesInOrder, ResetMsg, SwapSendData
    <3>7. QED
      BY <3>4, <3>5, <3>6 DEF PlaceInv
  <2>5. QED
    BY <2>3, <2>4
<1>3. CASE Reset
  <2> DEFINE last == Len(control_msg) + 1
  <2>1. /\ UNCHANGED <<sender, created, active, swap_to, pc, chan>>
        /\ pc # "gone" /\ control_msg' = Append(control_msg, ResetMsg)
    BY <1>3 DEF Reset
  <2>2. /\ DOMAIN control_msg = 1..Len(control_msg) /\ Len(control_msg) \in Nat
        /\ DOMAIN control_msg' = 1..last /\ control_msg'[last] = ResetMsg
        /\ \A i \in DOMAIN control_msg : control_msg'[i] = control_msg[i]
    BY <1>t, <2>1
  <2>3. ResetMsg.receiver = 0
    BY DEF ResetMsg
  <2> HIDE DEF last
  <2>4. \A i \in DOMAIN control_msg' : i # last => i \in DOMAIN control_msg
    BY <2>2 DEF last
  <2>5. MessagesInOrder'
    <3>1. \A i \in DOMAIN control_msg' :
            \/ control_msg'[i] = ResetMsg
            \/ /\ control_msg'[i] = SwapSendData(control_msg'[i].receiver)
               /\ active < control_msg'[i].receiver
               /\ swap_to < control_msg'[i].receiver
               /\ control_msg'[i].receiver <= created
      BY <2>2, <2>4 DEF PlaceInv, MessagesInOrder
    <3>2. \A i, j \in DOMAIN control_msg' :
            (/\ i < j /\ control_msg'[i].receiver # 0
             /\ control_msg'[j].receiver # 0) =>
              control_msg'[i].receiver < control_msg'[j].receiver
      BY <2>2, <2>3, <2>4 DEF PlaceInv, MessagesInOrder
    <3>3. QED
      BY <2>1, <3>1, <3>2 DEF MessagesInOrder, ResetMsg, SwapSendData
  <2>6. ReceiversInOrder'
    BY <2>1 DEF PlaceInv, ReceiversInOrder
  <2>7. \A k : Held(k) => Held(k)'
    BY <2>1, <2>2 DEF Held, last
  <2>8. DataIsHeld'
    BY <2>1, <2>7 DEF PlaceInv, DataIsHeld
  <2>9. QED
    BY <2>5, <2>6, <2>8 DEF PlaceInv
<1>4. CASE PollRecv \/ DropStream
  <2>1. /\ UNCHANGED <<created, active, swap_to, control_msg, chan, pc>>
    BY <1>4 DEF PollRecv, DropStream
  <2>2. sender' \in {sender, 0}
    BY <1>4 DEF PollRecv, DropStream
  <2>3. QED
    BY <2>1, <2>2, PlaceKept
<1>5. QED
  BY <1>1, <1>2, <1>3, <1>4 DEF App

(* The steps of Context::poll. *)
LEMMA PlacePoll == TypeInv /\ PlaceInv /\ Poll => PlaceInv'
<1> SUFFICES ASSUME TypeInv, PlaceInv, Poll PROVE PlaceInv'
  OBVIOUS
<1> USE DEF handleVars, chanVars, msgVars, dataVars
<1>t. /\ active \in Nat /\ swap_to \in Nat /\ created \in Nat /\ sender \in Nat
      /\ control_msg \in Seq(ControlMessages)
      /\ \A i \in DOMAIN control_msg : control_msg[i].receiver \in Nat
  BY PlaceTypes
<1>1. CASE PollStart \/ PollControlEnd \/ PollNotReady
  <2>1. /\ UNCHANGED <<sender, created, active, swap_to, control_msg, chan>>
        /\ pc' # "gone"
    BY <1>1 DEF PollStart, PollControlEnd, PollNotReady
  <2>2. QED
    BY <2>1, PlaceKept
<1>2. CASE PollControlReset
  BY <1>2, PlaceClose DEF PollControlReset, ContextReset
<1>3. CASE PollControlSwap
  <2> DEFINE new_receiver == Head(control_msg).receiver
  <2>1. /\ UNCHANGED <<sender, created, active>> /\ pc' # "gone"
        /\ control_msg # <<>> /\ control_msg' = Tail(control_msg)
        /\ Head(control_msg) # ResetMsg
        /\ IF active # 0
           THEN swap_to' = new_receiver /\ chan' = DropReceivers(chan, {swap_to})
           ELSE /\ swap_to' = swap_to
                /\ chan' = DropReceivers(chan, {new_receiver})
    BY <1>3 DEF PollControlSwap
  <2>2. 1 \in DOMAIN control_msg /\ control_msg[1] = Head(control_msg)
    BY <1>t, <2>1
  <2>3. /\ new_receiver \in Nat /\ active < new_receiver /\ swap_to < new_receiver
        /\ new_receiver <= created /\ new_receiver # 0
    BY <1>t, <2>1, <2>2 DEF PlaceInv, MessagesInOrder
  <2>4. ReceiversInOrder'
    BY <1>t, <2>1, <2>3 DEF PlaceInv, ReceiversInOrder
  <2>5. MessagesInOrder'
    <3>1. ASSUME NEW i \in DOMAIN control_msg'
          PROVE  \/ control_msg'[i] = ResetMsg
                 \/ /\ control_msg'[i] = SwapSendData(control_msg'[i].receiver)
                    /\ active < control_msg'[i].receiver
                    /\ swap_to' < control_msg'[i].receiver
                    /\ control_msg'[i].receiver <= created
      <4>1. /\ i + 1 \in DOMAIN control_msg /\ 1 < i + 1
            /\ control_msg'[i] = control_msg[i + 1]
        BY <2>1, TailOfMessages
      <4>2. CASE control_msg[i + 1] = ResetMsg
        BY <4>1, <4>2
      <4>3. CASE control_msg[i + 1] # ResetMsg
        <5>1. /\ control_msg[i + 1] = SwapSendData(control_msg[i + 1].receiver)
              /\ active < control_msg[i + 1].receiver
              /\ swap_to < control_msg[i + 1].receiver
              /\ control_msg[i + 1].receiver <= created
              /\ control_msg[i + 1].receiver # 0
          BY <1>t, <4>1, <4>3 DEF PlaceInv, MessagesInOrder
        <5>2. new_receiver < control_msg[i + 1].receiver
          BY <2>2, <2>3, <4>1, <5>1 DEF PlaceInv, MessagesInOrder
        <5>3. QED
          BY <2>1, <4>1, <5>1, <5>2
      <4>4. QED
        BY <4>2, <4>3
    <3>2. QED
      BY <2>1, <3>1, MessagesOfTail DEF PlaceInv, MessagesInOrder
  <2>6. DataIsHeld'
    <3>1. ASSUME NEW k \in Channels, chan'[k].queue # <<>>
          PROVE  Held(k)' /\ chan[k].queue # <<>>
      <4>1. /\ chan[k].queue # <<>>
            /\ active # 0 => k # swap_to
            /\ active = 0 => k # new_receiver
        BY <2>1, <3>1 DEF DropReceivers, DropReceiver
      <4>2. Held(k) /\ k # 0
        BY <4>1, PlaceTypes DEF PlaceInv, DataIsHeld
      <4>3. CASE k \in {active, swap_to}
        BY <2>1, <4>1, <4>2, <4>3 DEF Held, PlaceInv, ReceiversInOrder
      <4>4. CASE k \notin {active, swap_to}
        <5>1. PICK i \in DOMAIN control_msg : control_msg[i].receiver = k
          BY <4>2, <4>4 DEF Held
        <5>2. CASE i = 1
          BY <2>1, <2>2, <4>1, <5>1, <5>2 DEF Held
        <5>3. CASE i # 1
          <6>1. \E j \in DOMAIN control_msg' : control_msg'[j] = control_msg[i]
            BY <1>t, <2>1, <5>3, TailKeeps
          <6>2. QED
            BY <4>1, <5>1, <6>1 DEF Held
        <5>4. QED
          BY <5>2, <5>3
      <4>5. QED
        BY <4>3, <4>4
    <3>2. QED
      BY <2>1, <3>1 DEF PlaceInv, DataIsHeld
  <2>7. QED
    BY <2>4, <2>5, <2>6 DEF PlaceInv
<1>4. CASE PollSendDataItem
  <2>1. /\ UNCHANGED <<sender, created, control_msg>> /\ pc' # "gone"
        /\ active' = PollTarget /\ swap_to' = SwapToAfterSwap /\ PollHasItem
        /\ chan' = [ChanAfterSwap EXCEPT ![PollTarget] = Dequeue(@)]
    BY <1>4 DEF PollSendDataItem
  <2>2. QED
    BY <2>1, TakeFacts, PlaceSwap
<1>5. CASE PollSendDataNone
  BY <1>5, PlaceClose DEF PollSendDataNone
<1>6. CASE PollSendDataIdle
  <2>1. /\ UNCHANGED <<sender, created, control_msg>> /\ pc' # "gone"
    BY <1>6 DEF PollSendDataIdle
  <2>2. CASE UNCHANGED <<chan, dataVars>>
    BY <2>1, <2>2, PlaceKept
  <2>3. CASE /\ active # 0 /\ chan' = ChanAfterSwap
             /\ active' = PollTarget /\ swap_to' = SwapToAfterSwap
    BY <2>1, <2>3, SwapFacts, PlaceSwap
  <2>4. QED
    BY <1>6, <2>2, <2>3 DEF PollSendDataIdle
<1>7. CASE PollReady
  BY <1>7, PlaceDrop DEF PollReady
<1>8. QED
  BY <1>1, <1>2, <1>3, <1>4, <1>5, <1>6, <1>7 DEF Poll

LEMMA PlaceQuic == TypeInv /\ PlaceInv /\ Quic => PlaceInv'
<1> SUFFICES ASSUME TypeInv, PlaceInv, Quic PROVE PlaceInv'
  OBVIOUS
<1> USE DEF handleVars, chanVars, msgVars, dataVars
<1>1. ASSUME NEW event \in Events, NEW len \in 0..1, Callback(event, len)
      PROVE  PlaceInv'
  <2>1. UNCHANGED <<sender, created, control_msg>> /\ pc' # "gone"
    BY <1>1 DEF Callback
  <2>2. CASE event = "stop_sending"
    BY <1>1, <2>1, <2>2, PlaceClose DEF Callback
  <2>3. CASE event # "stop_sending"
    <3>1. UNCHANGED <<chan, active, swap_to>>
      BY <1>1, <2>3 DEF Callback
    <3>2. QED
      BY <2>1, <3>1, PlaceKept
  <2>4. QED
    BY <2>2, <2>3
<1>2. ASSUME NEW m \in PacketSizes, PrepareToSend(m) PROVE PlaceInv'
  BY <1>2, PlaceKept DEF PrepareToSend
<1>3. CASE CollectBuffer
  <2>1. /\ UNCHANGED <<sender, created, control_msg>> /\ pc' # "gone"
        /\ active' = PollTarget /\ swap_to' = SwapToAfterSwap /\ PollHasItem
        /\ chan' = [ChanAfterSwap EXCEPT ![PollTarget] = Dequeue(@)]
    BY <1>3 DEF CollectBuffer
  <2>2. QED
    BY <2>1, TakeFacts, PlaceSwap
<1>4. CASE ProvideData
  <2>1. UNCHANGED <<sender, created, control_msg>> /\ pc' # "gone"
    BY <1>4 DEF ProvideData
  <2>2. CASE UNCHANGED <<chan, dataVars>>
    BY <2>1, <2>2, PlaceKept
  <2>3. CASE /\ active # 0 /\ chan' = ChanAfterSwap
             /\ active' = PollTarget /\ swap_to' = SwapToAfterSwap
    BY <2>1, <2>3, SwapFacts, PlaceSwap
  <2>4. QED
    BY <1>4, <2>2, <2>3 DEF ProvideData
<1>5. CASE CopyBuffer
  <2>1. /\ UNCHANGED <<sender, created, control_msg, chan, active, swap_to>>
        /\ pc' # "gone"
    BY <1>5 DEF CopyBuffer
  <2>2. QED
    BY <2>1, PlaceKept
<1>6. CASE LocalClose
  BY <1>6, PlaceKept DEF LocalClose
<1>7. ASSUME NEW err, CloseCallback(err) PROVE PlaceInv'
  <2>1. UNCHANGED <<sender, created, control_msg, active, swap_to, pc>>
    BY <1>7 DEF CloseCallback
  <2>2. \A k \in Channels : chan'[k].queue = chan[k].queue
    BY <1>7, PlaceTypes DEF CloseCallback, PropagateError, ChannelRecords
  <2>3. QED
    BY <2>1, <2>2, PlaceKept
<1>8. CASE ConnectionDropped
  BY <1>8, PlaceDrop DEF ConnectionDropped
<1>9. QED
  BY <1>1, <1>2, <1>3, <1>4, <1>5, <1>6, <1>7, <1>8 DEF Quic, SendData

LEMMA PlaceStep ==
  TypeInv /\ SenderHasReceiver /\ PlaceInv /\ [Next]_vars => PlaceInv'
<1>1. UNCHANGED vars /\ PlaceInv => PlaceInv'
  BY PlaceKept DEF vars, handleVars, chanVars, msgVars, dataVars
<1>2. QED
  BY <1>1, PlaceApp, PlacePoll, PlaceQuic DEF Next

------------------------------------------------------------------------------
(* The order of the bytes.  Between the channels and picoquic there is one *)
(* sequence of buffers: those handle_send_data works on, or the one a poll *)
(* or the last packet left behind.                                         *)
Front == IF pc \in {"collect", "write"} THEN buffers ELSE active_buffer

(* The ranges of seq are in order, between the positions a and b.          *)
Within(seq, a, b) ==
  /\ \A i \in DOMAIN seq : a <= seq[i].lo /\ seq[i].hi <= b
  /\ \A i, j \in DOMAIN seq : i < j => seq[i].hi <= seq[j].lo

(* The positions c cut the accepted bytes into what is on the wire, what   *)
(* is in front of it and what is in each of the channels.                  *)
CutsBytes(c) ==
  /\ c \in [0..(MaxChannels + 1) -> Nat]
  /\ \A i, j \in 0..(MaxChannels + 1) : i <= j => c[i] <= c[j]
  /\ c[MaxChannels + 1] <= accepted
  /\ Within(wire, 0, c[0]) /\ Within(Front, c[0], c[1])
  /\ \A k \in Channels : Within(chan[k].queue, c[k], c[k + 1])

OrderInv ==
  /\ \A i \in DOMAIN wire : wire[i].lo < wire[i].hi
  /\ \E c : CutsBytes(c)

LEMMA WithinEmpty == \A a, b : Within(<<>>, a, b)
BY DEF Within

LEMMA WithinWider ==
  ASSUME NEW seq \in Seq(Ranges), NEW a \in Nat, NEW b \in Nat,
         NEW a2 \in Nat, NEW b2 \in Nat, Within(seq, a, b), a2 <= a, b <= b2
  PROVE  Within(seq, a2, b2)
<1>1. \A i \in DOMAIN seq : seq[i].lo \in Nat /\ seq[i].hi \in Nat
  BY DEF Ranges
<1>2. QED
  BY <1>1 DEF Within

LEMMA WithinAppend ==
  ASSUME NEW seq \in Seq(Ranges), NEW a \in Nat, NEW b \in Nat,
         Within(seq, a, b), a <= b, NEW buf \in Ranges, b <= buf.lo
  PROVE  Within(Append(seq, buf), a, buf.hi)
<1> DEFINE seq2 == Append(seq, buf)
           n == Len(seq) + 1
<1>1. /\ \A i \in DOMAIN seq : seq[i].lo \in Nat /\ seq[i].hi \in Nat
      /\ buf.lo \in Nat /\ buf.hi \in Nat /\ buf.lo <= buf.hi
  BY DEF Ranges
<1>2. /\ n \in Nat /\ seq2[n] = buf
      /\ \A i \in DOMAIN seq2 :
           \/ i = n
           \/ i \in DOMAIN seq /\ i < n /\ seq2[i] = seq[i]
      /\ DOMAIN seq2 \subseteq Nat
  OBVIOUS
<1> HIDE DEF seq2, n
<1>3. ASSUME NEW i \in DOMAIN seq2 PROVE a <= seq2[i].lo /\ seq2[i].hi <= buf.hi
  <2>1. CASE i = n
    BY <1>1, <1>2, <2>1
  <2>2. CASE i # n
    <3>1. i \in DOMAIN seq /\ seq2[i] = seq[i]
      BY <1>2, <2>2
    <3>2. a <= seq[i].lo /\ seq[i].hi <= b
      BY <3>1 DEF Within
    <3>3. QED
      BY <1>1, <3>1, <3>2
  <2>3. QED
    BY <2>1, <2>2
<1>4. ASSUME NEW i \in DOMAIN seq2, NEW j \in DOMAIN seq2, i < j
      PROVE  seq2[i].hi <= seq2[j].lo
  <2>1. i \in DOMAIN seq /\ seq2[i] = seq[i]
    <3>1. i \in Nat /\ j \in Nat /\ j <= n
      BY <1>2
    <3>2. i # n
      BY <1>4, <3>1, <1>2
    <3>3. QED
      BY <1>2, <3>2
  <2>2. CASE j = n
    <3>1. seq[i].hi <= b
      BY <2>1 DEF Within
    <3>2. QED
      BY <1>1, <1>2, <2>1, <2>2, <3>1
  <2>3. CASE j # n
    <3>1. j \in DOMAIN seq /\ seq2[j] = seq[j]
      BY <1>2, <2>3
    <3>2. QED
      BY <1>4, <2>1, <3>1 DEF Within
  <2>4. QED
    BY <2>2, <2>3
<1>5. Within(seq2, a, buf.hi)
  BY <1>3, <1>4 DEF Within
<1>6. QED
  BY <1>5 DEF seq2

LEMMA WithinTail ==
  ASSUME NEW seq \in Seq(Ranges), seq # <<>>, NEW a \in Nat, NEW b \in Nat,
         Within(seq, a, b)
  PROVE  /\ a <= Head(seq).lo /\ Head(seq).hi <= b
         /\ Tail(seq) \in Seq(Ranges)
         /\ Within(Tail(seq), Head(seq).hi, b)
<1> DEFINE seq2 == Tail(seq)
<1>1. /\ 1 \in DOMAIN seq /\ Head(seq) = seq[1] /\ seq2 \in Seq(Ranges)
      /\ \A i \in DOMAIN seq2 :
           i \in Nat /\ i + 1 \in DOMAIN seq /\ 1 < i + 1 /\ seq2[i] = seq[i + 1]
  OBVIOUS
<1> HIDE DEF seq2
<1>2. a <= Head(seq).lo /\ Head(seq).hi <= b
  BY <1>1 DEF Within
<1>3. ASSUME NEW i \in DOMAIN seq2
      PROVE  Head(seq).hi <= seq2[i].lo /\ seq2[i].hi <= b
  BY <1>1 DEF Within
<1>4. ASSUME NEW i \in DOMAIN seq2, NEW j \in DOMAIN seq2, i < j
      PROVE  seq2[i].hi <= seq2[j].lo
  <2>1. /\ i + 1 \in DOMAIN seq /\ j + 1 \in DOMAIN seq /\ i + 1 < j + 1
        /\ seq2[i] = seq[i + 1] /\ seq2[j] = seq[j + 1]
    BY <1>1, <1>4
  <2>2. QED
    BY <2>1 DEF Within
<1>5. QED
  BY <1>1, <1>2, <1>3, <1>4 DEF Within, seq2

LEMMA OrderTypes ==
  ASSUME TypeInv
  PROVE  /\ Front \in Seq(Ranges) /\ wire \in Seq(Ranges) /\ accepted \in Nat
         /\ \A k \in Channels : chan[k].queue \in Seq(Ranges)
         /\ MaxChannels \in Nat /\ Channels = 1..MaxChannels
<1>1. chan \in [Channels -> ChannelRecords]
  BY PlaceTypes
<1>2. \A k \in Channels : chan[k].queue \in Seq(Ranges)
  BY <1>1 DEF ChannelRecords
<1>3. QED
  BY <1>2, StreamAssumptions DEF TypeInv, TypeOK, Front, Channels

LEMMA OrderInit == Init => OrderInv
<1> SUFFICES ASSUME Init PROVE OrderInv
  OBVIOUS
<1> DEFINE c == [i \in 0..(MaxChannels + 1) |-> 0]
<1>1. /\ wire = <<>> /\ pc = "idle" /\ active_buffer = <<>> /\ accepted = 0
      /\ chan = [k \in Channels |-> NewChannel(DefaultSize)]
  BY DEF Init, StreamNew, ContextNew
<1>2. Front = <<>> /\ \A k \in Channels : chan[k].queue = <<>>
  BY <1>1 DEF Front, NewChannel
<1>3. /\ c \in [0..(MaxChannels + 1) -> Nat]
      /\ \A i \in 0..(MaxChannels + 1) : c[i] = 0
      /\ MaxChannels + 1 \in 0..(MaxChannels + 1)
  BY StreamAssumptions
<1> HIDE DEF c
<1>4. CutsBytes(c)
  BY <1>1, <1>2, <1>3, WithinEmpty DEF CutsBytes
<1>5. QED
  BY <1>1, <1>4 DEF OrderInv

(* Steps that move no byte; some may be dropped.                           *)
LEMMA OrderKept ==
  ASSUME OrderInv, UNCHANGED <<accepted, wire>>, Front' \in {Front, <<>>},
         \A k \in Channels : chan'[k].queue \in {chan[k].queue, <<>>}
  PROVE  OrderInv'
<1>1. PICK c : CutsBytes(c)
  BY DEF OrderInv
<1>2. Within(Front', c[0], c[1])
  BY <1>1, WithinEmpty DEF CutsBytes
<1>3. \A k \in Channels : Within(chan'[k].queue, c[k], c[k + 1])
  BY <1>1, WithinEmpty DEF CutsBytes
<1>4. CutsBytes(c)'
  BY <1>1, <1>2, <1>3 DEF CutsBytes
<1>5. QED
  BY <1>4 DEF OrderInv

(* start_send adds the next bytes to the newest channel.                   *)
LEMMA OrderPut ==
  ASSUME TypeInv, PlaceInv, OrderInv, NEW n \in ChunkSizes, StartSend(n)
  PROVE  OrderInv'
<1> DEFINE buf == [lo |-> accepted, hi |-> accepted + n]
<1>t. /\ accepted \in Nat /\ MaxChannels \in Nat /\ Channels = 1..MaxChannels
      /\ \A k \in Channels : chan[k].queue \in Seq(Ranges)
      /\ chan \in [Channels -> ChannelRecords] /\ created \in Channels
      /\ n \in Nat
  BY OrderTypes, PlaceTypes, StreamAssumptions DEF Channels
<1>b. buf \in Ranges /\ buf.lo = accepted /\ buf.hi = accepted + n
  BY <1>t DEF Ranges
<1>1. /\ sender # 0 /\ accepted' = accepted + n
      /\ UNCHANGED <<wire, Front>>
      /\ chan' = [chan EXCEPT ![sender] = Enqueue(@, buf)]
  BY DEF StartSend, Front, quicVars, localVars
<1>2. sender = created
  BY <1>1 DEF PlaceInv, ReceiversInOrder
<1> HIDE DEF buf
<1>3. /\ chan'[created].queue = Append(chan[created].queue, buf)
      /\ \A k \in Channels \ {created} : chan'[k].queue = chan[k].queue
  <2>1. chan[created] \in ChannelRecords
    BY <1>t
  <2>2. chan' = [chan EXCEPT ![created] = Enqueue(chan[created], buf)]
    BY <1>1, <1>2
  <2>3. Enqueue(chan[created], buf).queue = Append(chan[created].queue, buf)
    BY <2>1 DEF Enqueue, ChannelRecords
  <2>4. QED
    BY <1>t, <2>2, <2>3
<1>r. \A k \in Channels : k \in Nat
  BY <1>t
<1>4. \A k \in Channels : k > created => chan'[k].queue = <<>>
  <2>1. \A k \in Channels : k > created => chan[k].queue = <<>> /\ k # created
    BY <1>r, <1>t DEF PlaceInv, DataIsHeld
  <2>2. QED
    BY <1>3, <2>1
<1>5. PICK c : CutsBytes(c)
  BY DEF OrderInv
<1>c. /\ c \in [0..(MaxChannels + 1) -> Nat]
      /\ \A i, j \in 0..(MaxChannels + 1) : i <= j => c[i] <= c[j]
      /\ c[MaxChannels + 1] <= accepted
  BY <1>5 DEF CutsBytes
<1>d. PICK d : d = [i \in 0..(MaxChannels + 1) |->
                      IF i > created THEN accepted + n ELSE c[i]]
  OBVIOUS
<1>6. /\ d \in [0..(MaxChannels + 1) -> Nat]
      /\ \A i \in 0..(MaxChannels + 1) :
           /\ i > created => d[i] = accepted + n
           /\ i <= created => d[i] = c[i]
  BY <1>t, <1>c, <1>d
<1>7. \A i \in 0..(MaxChannels + 1) : c[i] <= accepted /\ c[i] \in Nat
  <2> SUFFICES ASSUME NEW i \in 0..(MaxChannels + 1)
               PROVE  c[i] <= accepted /\ c[i] \in Nat
    OBVIOUS
  <2>1. /\ c[i] \in Nat /\ c[MaxChannels + 1] \in Nat
        /\ c[i] <= c[MaxChannels + 1]
    BY <1>t, <1>c
  <2>2. QED
    BY <1>t, <1>c, <2>1
<1>8. ASSUME NEW i \in 0..(MaxChannels + 1), NEW j \in 0..(MaxChannels + 1),
             i <= j
      PROVE  d[i] <= d[j]
  <2>1. CASE j > created
    <3>1. d[j] = accepted + n
      BY <1>6, <2>1
    <3>2. d[i] = accepted + n \/ d[i] = c[i]
      BY <1>t, <1>6
    <3>3. QED
      BY <1>t, <1>7, <3>1, <3>2
  <2>2. CASE j <= created
    <3>1. d[i] = c[i] /\ d[j] = c[j]
      BY <1>t, <1>6, <1>8, <2>2
    <3>2. QED
      BY <1>8, <1>c, <3>1
  <2>3. QED
    BY <1>t, <2>1, <2>2
<1>9. ASSUME NEW k \in Channels PROVE Within(chan'[k].queue, d[k], d[k + 1])
  <2>1. CASE k > created
    BY <1>4, <2>1, WithinEmpty
  <2>2. CASE k < created
    <3>1. d[k] = c[k] /\ d[k + 1] = c[k + 1] /\ chan'[k].queue = chan[k].queue
      <4>1. /\ k \in 0..(MaxChannels + 1) /\ k + 1 \in 0..(MaxChannels + 1)
            /\ k <= created /\ k + 1 <= created /\ k # created
        BY <1>t, <2>2
      <4>2. QED
        BY <1>3, <1>6, <4>1
    <3>2. QED
      BY <1>5, <3>1 DEF CutsBytes
  <2>3. CASE k = created
    <3>1. /\ d[k] = c[k] /\ d[k + 1] = accepted + n
          /\ c[k] \in Nat /\ c[k + 1] \in Nat /\ c[k] <= c[k + 1]
          /\ c[k + 1] <= accepted
      BY <1>t, <1>6, <1>7, <1>c, <2>3
    <3>2. Within(chan[k].queue, c[k], c[k + 1])
      BY <1>5 DEF CutsBytes
    <3>3. Within(Append(chan[k].queue, buf), c[k], buf.hi)
      BY <1>t, <1>b, <3>1, <3>2, WithinAppend
    <3>4. QED
      BY <1>3, <1>b, <2>3, <3>1, <3>3
  <2>4. QED
    BY <1>t, <2>1, <2>2, <2>3
<1>10. Within(wire, 0, d[0]) /\ Within(Front, d[0], d[1])
  <2>1. d[0] = c[0] /\ d[1] = c[1]
    BY <1>t, <1>6
  <2>2. QED
    BY <1>5, <2>1 DEF CutsBytes
<1>11. CutsBytes(d)'
  <2>1. d[MaxChannels + 1] <= accepted'
    BY <1>t, <1>1, <1>6
  <2>2. Within(wire', 0, d[0]) /\ Within(Front', d[0], d[1])
    BY <1>1, <1>10
  <2>3. /\ d \in [0..(MaxChannels + 1) -> Nat]
        /\ \A i, j \in 0..(MaxChannels + 1) : i <= j => d[i] <= d[j]
    BY <1>6, <1>8
  <2>4. QED
    BY <1>9, <2>1, <2>2, <2>3 DEF CutsBytes
<1>12. QED
  BY <1>1, <1>11 DEF OrderInv

(* A poll takes an item: from the first channel that has data.             *)
LEMMA FirstChannel ==
  ASSUME TypeInv, PlaceInv, PollHasItem
  PROVE  \A k \in Channels : k < PollTarget => chan[k].queue = <<>>
<1> SUFFICES ASSUME NEW k \in Channels, k < PollTarget, chan[k].queue # <<>>
             PROVE  FALSE
  OBVIOUS
<1>t. /\ active \in Nat /\ swap_to \in Nat /\ created \in Nat /\ k \in Nat
      /\ k # 0
      /\ \A i \in DOMAIN control_msg : control_msg[i].receiver \in Nat
  BY PlaceTypes DEF Channels
<1>1. PollTarget \in {active, swap_to} /\ PollTarget # 0
  BY DEF PollTarget, PollHasItem
<1>2. Held(k)
  BY DEF PlaceInv, DataIsHeld
<1>3. CASE k = active
  <2>1. Swaps
    BY <1>t, <1>3 DEF PollTarget
  <2>2. QED
    BY <1>3, <2>1 DEF Swaps, Exhausted
<1>4. CASE k = swap_to
  <2>1. active < swap_to
    BY <1>t, <1>4 DEF PlaceInv, ReceiversInOrder
  <2>2. QED
    BY <1>t, <1>1, <1>4, <2>1
<1>5. CASE \E i \in DOMAIN control_msg : control_msg[i].receiver = k
  <2>1. PICK i \in DOMAIN control_msg : control_msg[i].receiver = k
    BY <1>5
  <2>2. control_msg[i] # ResetMsg
    BY <1>t, <2>1 DEF ResetMsg
  <2>3. active < k /\ swap_to < k
    BY <2>1, <2>2 DEF PlaceInv, MessagesInOrder
  <2>4. QED
    BY <1>t, <1>1, <2>3
<1>6. QED
  BY <1>2, <1>3, <1>4, <1>5 DEF Held

LEMMA OrderTake ==
  ASSUME TypeInv, PlaceInv, OrderInv, PollHasItem,
         UNCHANGED <<accepted, wire>>,
         chan' = [ChanAfterSwap EXCEPT ![PollTarget] = Dequeue(@)],
         Front' = Append(Front, Head(chan[PollTarget].queue))
  PROVE  OrderInv'
<1> DEFINE t == PollTarget
           buf == Head(chan[t].queue)
<1>t. /\ accepted \in Nat /\ MaxChannels \in Nat /\ Channels = 1..MaxChannels
      /\ Front \in Seq(Ranges)
      /\ \A k \in Channels : chan[k].queue \in Seq(Ranges)
  BY OrderTypes
<1>1. /\ t \in Channels /\ chan[t].queue # <<>>
      /\ chan'[t].queue = Tail(chan[t].queue)
      /\ \A k \in Channels \ {t} : chan'[k].queue = chan[k].queue
  BY TakeFacts
<1>2. \A k \in Channels : k < t => chan'[k].queue = <<>>
  BY <1>t, <1>1, FirstChannel
<1>b. buf \in Ranges /\ buf.lo \in Nat /\ buf.hi \in Nat /\ buf.lo <= buf.hi
  BY <1>t, <1>1 DEF Ranges
<1>f. Front' = Append(Front, buf)
  OBVIOUS
<1> HIDE DEF t
<1>5. PICK c : CutsBytes(c)
  BY DEF OrderInv
<1>c. /\ c \in [0..(MaxChannels + 1) -> Nat]
      /\ \A i, j \in 0..(MaxChannels + 1) : i <= j => c[i] <= c[j]
  BY <1>5 DEF CutsBytes
<1>6. /\ t \in 0..(MaxChannels + 1) /\ t + 1 \in 0..(MaxChannels + 1)
      /\ 0 \in 0..(MaxChannels + 1) /\ 1 \in 0..(MaxChannels + 1)
      /\ t \in Nat /\ 1 <= t
  BY <1>t, <1>1
<1>7. /\ c[t] <= buf.lo /\ buf.hi <= c[t + 1]
      /\ Within(Tail(chan[t].queue), buf.hi, c[t + 1])
  <2>1. Within(chan[t].queue, c[t], c[t + 1])
    BY <1>1, <1>5 DEF CutsBytes
  <2>2. c[t] \in Nat /\ c[t + 1] \in Nat
    BY <1>6, <1>c
  <2>3. QED
    BY <1>t, <1>1, <2>1, <2>2, WithinTail
<1> HIDE DEF buf
<1>d. PICK d : d = [i \in 0..(MaxChannels + 1) |->
                      IF i = 0 \/ i > t THEN c[i] ELSE buf.hi]
  OBVIOUS
<1>8. /\ d \in [0..(MaxChannels + 1) -> Nat]
      /\ \A i \in 0..(MaxChannels + 1) :
           /\ (i = 0 \/ i > t) => d[i] = c[i]
           /\ (i # 0 /\ i <= t) => d[i] = buf.hi
  BY <1>b, <1>c, <1>d, <1>6
<1>9. ASSUME NEW i \in 0..(MaxChannels + 1), NEW j \in 0..(MaxChannels + 1),
             i <= j
      PROVE  d[i] <= d[j]
  <2>1. c[i] \in Nat /\ c[j] \in Nat /\ c[t] \in Nat /\ c[t + 1] \in Nat
    BY <1>6, <1>c
  <2>2. CASE i # 0 /\ i <= t
    <3>1. d[i] = buf.hi
      BY <1>8, <2>2
    <3>2. CASE j <= t
      BY <1>8, <1>9, <1>b, <2>2, <3>1, <3>2
    <3>3. CASE j > t
      <4>1. d[j] = c[j] /\ c[t + 1] <= c[j]
        BY <1>t, <1>6, <1>8, <1>c, <3>3
      <4>2. QED
        BY <1>7, <1>b, <2>1, <3>1, <4>1
    <3>4. QED
      BY <1>6, <3>2, <3>3
  <2>3. CASE i > t
    BY <1>6, <1>8, <1>9, <1>c, <2>3
  <2>4. CASE i = 0
    <3>1. d[i] = c[0] /\ c[0] <= c[j] /\ c[0] <= c[t]
      BY <1>6, <1>8, <1>9, <1>c, <2>4
    <3>2. d[j] = c[j] \/ d[j] = buf.hi
      BY <1>6, <1>8
    <3>3. c[0] \in Nat /\ c[0] <= buf.hi
      BY SMTT(30), <1>6, <1>7, <1>b, <1>c, <2>1, <3>1
    <3>4. QED
      BY <3>1, <3>2, <3>3
  <2>5. QED
    BY <1>6, <2>2, <2>3, <2>4
<1>10. Within(wire, 0, d[0]) /\ Within(Front', d[0], d[1])
  <2>1. d[0] = c[0] /\ d[1] = buf.hi
    BY <1>6, <1>8
  <2>2. Within(wire, 0, c[0]) /\ Within(Front, c[0], c[1])
    BY <1>5 DEF CutsBytes
  <2>3. c[0] \in Nat /\ c[1] \in Nat /\ c[0] <= c[1] /\ c[1] <= c[t]
        /\ c[t] \in Nat
    BY <1>6, <1>c
  <2>4. c[1] <= buf.lo
    BY <1>7, <1>b, <2>3
  <2>5. Within(Append(Front, buf), c[0], buf.hi)
    BY <1>t, <1>b, <2>2, <2>3, <2>4, WithinAppend
  <2>6. QED
    BY <1>f, <2>1, <2>2, <2>5
<1>11. ASSUME NEW k \in Channels PROVE Within(chan'[k].queue, d[k], d[k + 1])
  <2>1. CASE k < t
    BY <1>2, <2>1, WithinEmpty
  <2>2. CASE k = t
    <3>1. d[k] = buf.hi /\ d[k + 1] = c[t + 1]
      BY <1>6, <1>8, <2>2
    <3>2. QED
      BY <1>1, <1>7, <2>2, <3>1
  <2>3. CASE k > t
    <3>1. chan'[k].queue = chan[k].queue
      <4>1. k # t
        BY <1>t, <1>6, <2>3
      <4>2. QED
        BY <1>1, <4>1
    <3>2. d[k] = c[k] /\ d[k + 1] = c[k + 1]
      <4>1. /\ k \in 0..(MaxChannels + 1) /\ k + 1 \in 0..(MaxChannels + 1)
            /\ k > t /\ k + 1 > t
        BY <1>t, <1>6, <2>3
      <4>2. QED
        BY <1>8, <4>1
    <3>3. QED
      BY <1>5, <3>1, <3>2 DEF CutsBytes
  <2>4. QED
    BY <1>t, <1>6, <2>1, <2>2, <2>3
<1>12. d[MaxChannels + 1] <= accepted'
  <2>1. MaxChannels + 1 > t /\ MaxChannels + 1 \in 0..(MaxChannels + 1)
    BY <1>t, <1>1
  <2>2. QED
    BY <1>5, <1>8, <2>1 DEF CutsBytes
<1>13. CutsBytes(d)'
  <2>1. Within(wire', 0, d[0])
    BY <1>10
  <2>2. /\ d \in [0..(MaxChannels + 1) -> Nat]
        /\ \A i, j \in 0..(MaxChannels + 1) : i <= j => d[i] <= d[j]
    BY <1>8, <1>9
  <2>3. QED
    BY <1>10, <1>11, <1>12, <2>1, <2>2 DEF CutsBytes
<1>14. QED
  BY <1>13 DEF OrderInv

(* What CopyBuffer does to the wire and to what is in front of it: it cuts *)
(* the first buffer at `at`.                                               *)
LEMMA CopyMoves ==
  ASSUME TypeInv, BufferInv, CopyBuffer
  PROVE  \E n \in Nat :
           LET buf == Head(Front)
               at == buf.lo + n
           IN /\ Front # <<>> /\ buf \in Ranges /\ n <= Size(buf)
              /\ wire' = IF n > 0 THEN Append(wire, [lo |-> buf.lo, hi |-> at])
                         ELSE wire
              /\ \/ Front' = Tail(Front) /\ at = buf.hi
                 \/ /\ Tail(Front) = <<>> /\ Front' = <<[lo |-> at, hi |-> buf.hi]>>
                    /\ ~fin_sent
<1> DEFINE buf == Head(buffers)
           n == Least(Size(buf), length)
           rest == Advance(buf, n)
<1>1. /\ pc = "write" /\ buffers' = Tail(buffers) /\ fin_sent' = fin_sent
      /\ wire' = IF n > 0 THEN Append(wire, [buf EXCEPT !.hi = buf.lo + n])
                 ELSE wire
  BY DEF CopyBuffer
<1>2. IF Size(rest) # 0 /\ active_buffer # <<>>
      THEN pc' = "panic" /\ UNCHANGED active_buffer
      ELSE /\ pc' = IF Tail(buffers) = <<>> THEN "idle" ELSE "write"
           /\ active_buffer' = IF Size(rest) # 0 THEN <<rest>>
                               ELSE active_buffer
  BY DEF CopyBuffer
<1>3. /\ active_buffer = <<>> /\ buffers \in Seq(Ranges) /\ buffers # <<>>
      /\ buf \in Ranges /\ n \in Nat /\ n <= Size(buf)
      /\ Size(rest) = Size(buf) - n
      /\ Tail(buffers) # <<>> => n = Size(buf)
      /\ fin_sent => n = Size(buf)
  BY <1>1, CopyFacts
<1>4. /\ Front = buffers
      /\ pc' = IF Tail(buffers) = <<>> THEN "idle" ELSE "write"
      /\ active_buffer' = IF Size(rest) # 0 THEN <<rest>> ELSE <<>>
  BY <1>1, <1>2, <1>3 DEF Front
<1>5. /\ [buf EXCEPT !.hi = buf.lo + n] = [lo |-> buf.lo, hi |-> buf.lo + n]
      /\ rest = [lo |-> buf.lo + n, hi |-> buf.hi]
      /\ buf.lo \in Nat /\ buf.hi \in Nat /\ Size(buf) = buf.hi - buf.lo
  BY <1>3 DEF Ranges, Advance, Size
<1> HIDE DEF n, rest
<1>6. CASE Tail(buffers) # <<>>
  <2>1. Front' = Tail(Front) /\ buf.lo + n = buf.hi
    BY <1>1, <1>3, <1>4, <1>5, <1>6 DEF Front
  <2>2. QED
    BY <1>1, <1>3, <1>4, <1>5, <2>1
<1>7. CASE Tail(buffers) = <<>>
  <2>1. Front' = active_buffer'
    BY <1>4, <1>7 DEF Front
  <2>2. CASE Size(rest) = 0
    <3>1. Front' = Tail(Front) /\ buf.lo + n = buf.hi
      BY <1>3, <1>4, <1>5, <1>7, <2>1, <2>2
    <3>2. QED
      BY <1>1, <1>3, <1>4, <1>5, <3>1
  <2>3. CASE Size(rest) # 0
    <3>1. Front' = <<[lo |-> buf.lo + n, hi |-> buf.hi]>> /\ ~fin_sent
      BY <1>3, <1>4, <1>5, <2>1, <2>3
    <3>2. QED
      BY <1>1, <1>3, <1>4, <1>5, <1>7, <3>1
  <2>4. QED
    BY <2>2, <2>3
<1>8. QED
  BY <1>6, <1>7

LEMMA OrderCopy ==
  ASSUME TypeInv, BufferInv, OrderInv, CopyBuffer
  PROVE  OrderInv'
<1>t. /\ Front \in Seq(Ranges) /\ wire \in Seq(Ranges) /\ MaxChannels \in Nat
      /\ Front' \in Seq(Ranges)
  <2>1. TypeInv'
    BY TypeStep DEF Next, Quic, SendData
  <2>2. Front' \in Seq(Ranges)
    BY <2>1 DEF TypeInv, TypeOK, Front
  <2>3. QED
    BY <2>2, OrderTypes
<1> DEFINE buf == Head(Front)
<1>1. PICK n \in Nat :
        /\ Front # <<>> /\ buf \in Ranges /\ n <= Size(buf)
        /\ wire' = IF n > 0 THEN Append(wire, [lo |-> buf.lo, hi |-> buf.lo + n])
                   ELSE wire
        /\ \/ Front' = Tail(Front) /\ buf.lo + n = buf.hi
           \/ Tail(Front) = <<>> /\ Front' = <<[lo |-> buf.lo + n, hi |-> buf.hi]>>
  BY CopyMoves
<1>2. PICK c : CutsBytes(c)
  BY DEF OrderInv
<1>c. /\ c \in [0..(MaxChannels + 1) -> Nat]
      /\ \A i, j \in 0..(MaxChannels + 1) : i <= j => c[i] <= c[j]
      /\ Within(wire, 0, c[0]) /\ Within(Front, c[0], c[1])
  BY <1>2 DEF CutsBytes
<1>3. c[0] \in Nat /\ c[1] \in Nat
  BY <1>t, <1>c
<1>4. /\ c[0] <= buf.lo /\ buf.hi <= c[1]
      /\ Within(Tail(Front), buf.hi, c[1])
  BY <1>t, <1>c, <1>1, <1>3, WithinTail
<1>5. PICK at \in Nat :
        /\ at = buf.lo + n /\ buf.lo <= at /\ at <= buf.hi
        /\ buf.lo \in Nat /\ buf.hi \in Nat
  BY <1>1 DEF Ranges, Size
<1> HIDE DEF buf
<1>6. Within(wire', 0, at)
  <2>1. CASE n > 0
    <3> DEFINE new == [lo |-> buf.lo, hi |-> at]
    <3>1. wire' = Append(wire, new)
      BY <1>1, <1>5, <2>1
    <3>2. new \in Ranges /\ new.lo = buf.lo /\ new.hi = at
      BY <1>5 DEF Ranges
    <3> HIDE DEF new
    <3>3. Within(Append(wire, new), 0, new.hi)
      BY <1>t, <1>c, <1>3, <1>4, <3>2, WithinAppend
    <3>4. QED
      BY <3>1, <3>2, <3>3
  <2>2. CASE n = 0
    <3>1. wire' = wire /\ c[0] <= at
      BY <1>1, <1>3, <1>4, <1>5, <2>2
    <3>2. QED
      BY <1>t, <1>c, <1>3, <3>1, WithinWider
  <2>3. QED
    BY <1>1, <2>1, <2>2
<1>7. Within(Front', at, c[1])
  <2>1. CASE Front' = Tail(Front) /\ at = buf.hi
    BY <1>4, <2>1
  <2>2. CASE Front' = <<[lo |-> at, hi |-> buf.hi]>>
    <3>1. /\ DOMAIN Front' = 1..1 /\ Front'[1].lo = at /\ Front'[1].hi = buf.hi
      BY <2>2
    <3>2. QED
      BY <1>4, <1>5, <3>1 DEF Within
  <2>3. QED
    BY <1>1, <1>5, <2>1, <2>2
<1>8. \A i \in DOMAIN wire' : wire'[i].lo < wire'[i].hi
  <2>1. CASE n > 0
    <3>1. wire' = Append(wire, [lo |-> buf.lo, hi |-> at]) /\ buf.lo < at
      BY <1>1, <1>5, <2>1
    <3>2. QED
      BY <1>t, <3>1 DEF OrderInv
  <2>2. CASE n = 0
    BY <1>1, <2>2 DEF OrderInv
  <2>3. QED
    BY <1>1, <2>1, <2>2
<1>d. PICK d : d = [c EXCEPT ![0] = at]
  OBVIOUS
<1>9. /\ d \in [0..(MaxChannels + 1) -> Nat]
      /\ d[0] = at /\ d[1] = c[1]
      /\ \A i \in 0..(MaxChannels + 1) : i # 0 => d[i] = c[i]
  BY <1>t, <1>c, <1>d
<1>10. at <= c[1]
  BY <1>3, <1>4, <1>5
<1>11. ASSUME NEW i \in 0..(MaxChannels + 1), NEW j \in 0..(MaxChannels + 1),
              i <= j
       PROVE  d[i] <= d[j]
  <2>1. CASE i # 0
    <3>1. d[i] = c[i] /\ d[j] = c[j]
      BY <1>9, <1>11, <2>1
    <3>2. QED
      BY <1>11, <1>c, <3>1
  <2>2. CASE i = 0 /\ j # 0
    <3>1. d[j] = c[j] /\ c[1] <= c[j] /\ c[j] \in Nat
      BY <1>t, <1>9, <1>c, <2>2
    <3>2. QED
      BY <1>3, <1>9, <1>10, <2>2, <3>1
  <2>3. CASE i = 0 /\ j = 0
    BY <1>9, <2>3
  <2>4. QED
    BY <2>1, <2>2, <2>3
<1>12. \A k \in Channels : Within(chan'[k].queue, d[k], d[k + 1])
  <2> SUFFICES ASSUME NEW k \in Channels
               PROVE  Within(chan'[k].queue, d[k], d[k + 1])
    OBVIOUS
  <2>1. /\ k \in 0..(MaxChannels + 1) /\ k + 1 \in 0..(MaxChannels + 1)
        /\ k # 0 /\ k + 1 # 0
    BY <1>t DEF Channels
  <2>2. d[k] = c[k] /\ d[k + 1] = c[k + 1]
    BY <1>9, <2>1
  <2>3. chan' = chan
    BY DEF CopyBuffer, chanVars
  <2>4. QED
    BY <1>2, <2>2, <2>3 DEF CutsBytes
<1>13. d[MaxChannels + 1] <= accepted'
  <2>1. MaxChannels + 1 \in 0..(MaxChannels + 1) /\ MaxChannels + 1 # 0
    BY <1>t
  <2>2. accepted' = accepted
    BY DEF CopyBuffer, handleVars
  <2>3. QED
    BY <1>2, <1>9, <2>1, <2>2 DEF CutsBytes
<1>14. CutsBytes(d)'
  BY <1>6, <1>7, <1>9, <1>11, <1>12, <1>13 DEF CutsBytes
<1>15. QED
  BY <1>8, <1>14 DEF OrderInv

(* What the steps do to the data: most leave it where it is, ...           *)
DataStays ==
  /\ UNCHANGED <<accepted, wire, Front>>
  /\ \A k \in Channels : chan'[k].queue = chan[k].queue

(* ... some drop queues with their receivers, or the Context's buffer, ... *)
DataIsDropped ==
  /\ UNCHANGED <<accepted, wire>> /\ Front' \in {Front, <<>>}
  /\ \A k \in Channels : chan'[k].queue \in {chan[k].queue, <<>>}

(* ... and polls of the SwappableStream take an item.                      *)
DataIsTaken ==
  /\ UNCHANGED <<accepted, wire>> /\ PollHasItem
  /\ chan' = [ChanAfterSwap EXCEPT ![PollTarget] = Dequeue(@)]
  /\ Front' = Append(Front, Head(chan[PollTarget].queue))

LEMMA DataOfResize ==
  ASSUME TypeInv, PlaceInv, NEW n \in SwapSizes, SetSendChannelSize(n)
  PROVE  DataStays
<1>t. chan \in [Channels -> ChannelRecords] /\ created \in Nat
  BY PlaceTypes
<1>1. UNCHANGED <<accepted, wire, Front>>
  BY DEF SetSendChannelSize, quicVars, localVars, Front
<1>2. \/ chan' = [chan EXCEPT ![created + 1] = DropReceiver(NewChannel(n))]
      \/ chan' = [chan EXCEPT ![created + 1] = NewChannel(n)]
  BY DEF SetSendChannelSize
<1>3. \A k \in Channels : k # created + 1 => chan'[k] = chan[k]
  BY <1>t, <1>2
<1>4. \A k \in Channels :
        k = created + 1 => chan'[k].queue = <<>> /\ chan[k].queue = <<>>
  BY <1>t, <1>2 DEF NewChannel, DropReceiver, PlaceInv, DataIsHeld
<1>5. QED
  BY <1>1, <1>3, <1>4 DEF DataStays

LEMMA DataOfApp ==
  ASSUME TypeInv, PlaceInv, App
  PROVE  (\E n \in ChunkSizes : StartSend(n)) \/ DataStays
<1>1. CASE Reset \/ PollRecv \/ DropStream
  <2>1. UNCHANGED <<accepted, wire, pc, buffers, active_buffer, chan>>
    BY <1>1 DEF Reset, PollRecv, DropStream, handleVars, quicVars, localVars,
       chanVars
  <2>2. QED
    BY <2>1 DEF DataStays, Front
<1>2. QED
  BY <1>1, DataOfResize DEF App

LEMMA DataOfDrop == DropContext /\ BufferInv => DataIsDropped
<1> SUFFICES ASSUME DropContext, BufferInv PROVE DataIsDropped
  OBVIOUS
<1>1. UNCHANGED <<accepted, wire>> /\ Front' = <<>>
  BY DEF DropContext, handleVars, quicVars, Front
<1>2. \E ks : chan' = DropReceivers(chan, ks)
  BY DEF DropContext
<1>3. \A k \in Channels : chan'[k].queue \in {chan[k].queue, <<>>}
  BY <1>2 DEF DropReceivers, DropReceiver
<1>4. QED
  BY <1>1, <1>3 DEF DataIsDropped

LEMMA DataOfPoll ==
  ASSUME TypeInv, BufferInv, Poll
  PROVE  /\ DataStays \/ DataIsDropped \/ DataIsTaken
         /\ PollSendDataItem => DataIsTaken
         /\ (PollStart \/ PollControlEnd \/ PollSendDataIdle \/ PollNotReady) =>
              DataStays
         /\ (PollControlReset \/ PollSendDataNone \/ PollControlSwap) =>
              DataIsDropped /\ Front' = Front
<1> USE DEF handleVars, chanVars, localVars, quicVars
<1>1. ASSUME UNCHANGED <<accepted, wire, active_buffer>>,
             pc \notin {"collect", "write"}, pc' \notin {"collect", "write"}
      PROVE  UNCHANGED <<accepted, wire, Front>>
  BY <1>1 DEF Front
<1>2. ASSUME PollStart \/ PollControlEnd \/ PollSendDataIdle \/ PollNotReady
      PROVE  DataStays
  <2>1. UNCHANGED <<accepted, wire, Front>>
    BY <1>1, <1>2 DEF PollStart, PollControlEnd, PollSendDataIdle, PollNotReady
  <2>2. chan' = chan \/ chan' = ChanAfterSwap
    BY <1>2 DEF PollStart, PollControlEnd, PollSendDataIdle, PollNotReady
  <2>3. QED
    BY <2>1, <2>2, SwapFacts DEF DataStays
<1>3. ASSUME PollControlReset \/ PollSendDataNone \/ PollControlSwap
      PROVE  DataIsDropped /\ Front' = Front
  <2>1. UNCHANGED <<accepted, wire, Front>>
    BY <1>1, <1>3 DEF PollControlReset, PollSendDataNone, PollControlSwap
  <2>2. \E ks : chan' = DropReceivers(chan, ks)
    BY <1>3 DEF PollControlReset, PollSendDataNone, PollControlSwap,
       ContextReset, CloseSendData
  <2>3. \A k \in Channels : chan'[k].queue \in {chan[k].queue, <<>>}
    BY <2>2 DEF DropReceivers, DropReceiver
  <2>4. QED
    BY <2>1, <2>3 DEF DataIsDropped
<1>4. ASSUME PollSendDataItem PROVE DataIsTaken
  <2>1. /\ UNCHANGED <<accepted, wire>> /\ PollHasItem
        /\ pc = "send" /\ pc' = "check" /\ active_buffer = <<>>
        /\ active_buffer' = <<Head(chan[PollTarget].queue)>>
        /\ chan' = [ChanAfterSwap EXCEPT ![PollTarget] = Dequeue(@)]
    BY <1>4 DEF PollSendDataItem
  <2>2. Front = <<>> /\ Front' = <<Head(chan[PollTarget].queue)>>
    BY <2>1 DEF Front
  <2>3. Front' = Append(Front, Head(chan[PollTarget].queue))
    BY <2>2
  <2>4. QED
    BY <2>1, <2>3 DEF DataIsTaken
<1>5. ASSUME DropContext PROVE DataIsDropped
  BY <1>5, DataOfDrop
<1>6. QED
  BY <1>2, <1>3, <1>4, <1>5 DEF Poll, PollReady

LEMMA DataOfQuic ==
  ASSUME TypeInv, BufferInv, Quic
  PROVE  /\ DataStays \/ DataIsDropped \/ DataIsTaken \/ CopyBuffer
         /\ CollectBuffer => DataIsTaken
         /\ (ProvideData \/ \E m \in PacketSizes : PrepareToSend(m)) =>
              DataStays
<1> USE DEF handleVars, chanVars, localVars, quicVars
<1>1. ASSUME NEW event \in Events, NEW len \in 0..1, Callback(event, len)
      PROVE  DataIsDropped
  <2>1. UNCHANGED <<accepted, wire, Front>>
    BY <1>1 DEF Callback, Front
  <2>2. chan' = chan \/ \E ks : chan' = DropReceivers(chan, ks)
    BY <1>1 DEF Callback, CloseSendData
  <2>3. \A k \in Channels : chan'[k].queue \in {chan[k].queue, <<>>}
    BY <2>2 DEF DropReceivers, DropReceiver
  <2>4. QED
    BY <2>1, <2>3 DEF DataIsDropped
<1>2. ASSUME NEW m \in PacketSizes, PrepareToSend(m) PROVE DataStays
  BY <1>2 DEF PrepareToSend, DataStays, Front
<1>3. ASSUME CollectBuffer PROVE DataIsTaken
  BY <1>3 DEF CollectBuffer, DataIsTaken, Front
<1>4. ASSUME ProvideData PROVE DataStays
  <2>1. UNCHANGED <<accepted, wire, active_buffer, buffers>> /\ pc = "collect"
        /\ pc' = IF buffers = <<>> THEN "idle" ELSE "write"
    BY <1>4 DEF ProvideData
  <2>2. UNCHANGED <<accepted, wire, Front>>
    BY <2>1 DEF BufferInv, Front
  <2>3. chan' = chan \/ chan' = ChanAfterSwap
    BY <1>4 DEF ProvideData
  <2>4. QED
    BY <2>2, <2>3, SwapFacts DEF DataStays
<1>5. ASSUME LocalClose PROVE DataStays
  BY <1>5 DEF LocalClose, DataStays, Front
<1>6. ASSUME NEW err, CloseCallback(err) PROVE DataStays
  <2>1. UNCHANGED <<accepted, wire, Front>>
    BY <1>6 DEF CloseCallback, Front
  <2>2. \A k \in Channels : chan'[k].queue = chan[k].queue
    BY <1>6, PlaceTypes DEF CloseCallback, PropagateError, ChannelRecords
  <2>3. QED
    BY <2>1, <2>2 DEF DataStays
<1>7. QED
  BY <1>1, <1>2, <1>3, <1>4, <1>5, <1>6, DataOfDrop
  DEF Quic, SendData, ConnectionDropped

LEMMA OrderStep ==
  TypeInv /\ PlaceInv /\ BufferInv /\ OrderInv /\ [Next]_vars => OrderInv'
<1> SUFFICES ASSUME TypeInv, PlaceInv, BufferInv, OrderInv, [Next]_vars
             PROVE  OrderInv'
  OBVIOUS
<1>1. DataStays => OrderInv'
  BY OrderKept DEF DataStays
<1>2. DataIsDropped => OrderInv'
  BY OrderKept DEF DataIsDropped
<1>3. DataIsTaken => OrderInv'
  BY OrderTake DEF DataIsTaken
<1>4. CASE App
  BY <1>1, <1>4, DataOfApp, OrderPut
<1>5. CASE Poll
  BY <1>1, <1>2, <1>3, <1>5, DataOfPoll
<1>6. CASE Quic
  BY <1>1, <1>2, <1>3, <1>6, DataOfQuic, OrderCopy
<1>7. CASE UNCHANGED vars
  <2>1. DataStays
    BY <1>7 DEF vars, DataStays, Front, handleVars, chanVars, localVars, quicVars
  <2>2. QED
    BY <1>1, <2>1
<1>8. QED
  BY <1>4, <1>5, <1>6, <1>7 DEF Next

(* The invariants that hold whatever the application, the peer and the     *)
(* connection do.                                                          *)
DataInv ==
  TypeInv /\ SenderHasReceiver /\ BufferInv /\ PlaceInv /\ OrderInv

LEMMA DataInvariant ==
  (Init => DataInv) /\ (DataInv /\ [Next]_vars => DataInv')
<1>1. Init => SenderHasReceiver
  BY SenderInit
<1>2. TypeInv /\ SenderHasReceiver /\ [Next]_vars => SenderHasReceiver'
  BY SenderStep
<1>3. QED
  BY <1>1, <1>2, TypeInit, TypeStep, BufferInit, BufferStep, PlaceInit,
     PlaceStep, OrderInit, OrderStep DEF DataInv

LEMMA DataInOrder == DataInv => WireInOrder
<1> SUFFICES ASSUME DataInv PROVE WireInOrder
  OBVIOUS
<1>1. PICK c : CutsBytes(c)
  BY DEF DataInv, OrderInv
<1>2. /\ c[0] \in Nat /\ c[MaxChannels + 1] \in Nat /\ accepted \in Nat
      /\ c[0] <= c[MaxChannels + 1] /\ c[MaxChannels + 1] <= accepted
      /\ Within(wire, 0, c[0])
  BY <1>1, StreamAssumptions DEF CutsBytes, DataInv, TypeInv, TypeOK
<1>3. wire \in Seq(Ranges)
  BY DEF DataInv, TypeInv, TypeOK
<1>4. \A i \in DOMAIN wire : wire[i].hi <= c[0] /\ wire[i].hi \in Nat
  BY <1>2, <1>3 DEF Within, Ranges
<1>5. \A i \in DOMAIN wire : wire[i].hi <= accepted
  BY <1>2, <1>4
<1>6. QED
  BY <1>2, <1>5 DEF WireInOrder, Within, DataInv, OrderInv

(* What picoquic gets is in the order of start_send, without repetition,   *)
(* for any number of resizes, chunks and packets of any size.              *)
THEOREM WireAlwaysInOrder == Spec => []WireInOrder
BY DataInOrder, DataInvariant, PTL DEF Spec

------------------------------------------------------------------------------
(* The flags of the sending side: a stream without data_send has put       *)
(* nothing on the wire, a reset that is pending was asked for, and data is *)
(* copied after a FIN only when it was provided together with it.          *)
FinInv ==
  /\ (\E i \in DOMAIN control_msg : control_msg[i] = ResetMsg) =>
       reset_requested
  /\ wire # <<>> => data_send
  /\ (pc = "write" /\ length > 0) => data_send
  /\ (reset_called \/ fin_sent) => stop_sending_or_fin_sent
  /\ pc = "collect" => ~fin_sent
  /\ pc \in {"collect", "write"} => ~reset_called
  /\ (pc = "write" /\ stop_sending_or_fin_sent) => fin_sent

LEMMA FinInit == Init => FinInv
<1> SUFFICES ASSUME Init PROVE FinInv
  OBVIOUS
<1>1. /\ control_msg = <<>> /\ wire = <<>> /\ pc = "idle"
      /\ ~reset_called /\ ~fin_sent
  BY DEF Init, StreamNew
<1>2. QED
  BY <1>1 DEF FinInv

LEMMA FinStep == TypeInv /\ BufferInv /\ FinInv /\ [Next]_vars => FinInv'
<1> SUFFICES ASSUME TypeInv, BufferInv, FinInv, [Next]_vars PROVE FinInv'
  OBVIOUS
<1> USE DEF handleVars, msgVars, flagVars, localVars, quicVars
<1> DEFINE Sending == {"collect", "write"}
           Asked == \E i \in DOMAIN control_msg : control_msg[i] = ResetMsg
<1>t. /\ control_msg \in Seq(ControlMessages) /\ wire \in Seq(Ranges)
      /\ max_length \in Nat /\ size \in Nat /\ length \in Nat
  BY DEF TypeInv, TypeOK
<1>h. ASSUME UNCHANGED <<wire, data_send, length, reset_called, fin_sent,
                         stop_sending_or_fin_sent>>,
             pc' = pc \/ pc' \notin Sending, Asked' => reset_requested'
      PROVE  FinInv'
  BY <1>h DEF FinInv
<1>k. ASSUME UNCHANGED <<control_msg, reset_requested>>
      PROVE  Asked' => reset_requested'
  BY <1>k DEF FinInv
<1>s. \A m : ResetMsg # SwapSendData(m)
  BY DEF ResetMsg, SwapSendData
<1>1. CASE App
  <2>1. UNCHANGED <<wire, data_send, length, reset_called, fin_sent,
                    stop_sending_or_fin_sent, pc>>
    BY <1>1 DEF App, StartSend, SetSendChannelSize, Reset, PollRecv, DropStream
  <2>2. Asked' => reset_requested'
    <3>1. CASE Reset
      BY <3>1 DEF Reset
    <3>2. ASSUME NEW n \in SwapSizes, SetSendChannelSize(n)
          PROVE  Asked' => reset_requested'
      <4>1. /\ reset_requested' = reset_requested
            /\ \/ control_msg' = control_msg
               \/ control_msg' = Append(control_msg, SwapSendData(created + 1))
        BY <3>2 DEF SetSendChannelSize
      <4>2. Asked' => Asked
        <5>1. CASE control_msg' = control_msg
          BY <5>1 DEF ResetMsg
        <5>2. CASE control_msg' = Append(control_msg, SwapSendData(created + 1))
          <6>1. ASSUME NEW i \in DOMAIN control_msg', control_msg'[i] = ResetMsg
                PROVE  i \in DOMAIN control_msg /\ control_msg[i] = ResetMsg
            BY <1>t, <1>s, <5>2, <6>1
          <6>2. QED
            BY <6>1 DEF ResetMsg
        <5>3. QED
          BY <4>1, <5>1, <5>2
      <4>3. QED
        BY <4>1, <4>2 DEF FinInv
    <3>3. CASE \/ \E n \in ChunkSizes : StartSend(n)
               \/ PollRecv \/ DropStream
      BY <1>k, <3>3 DEF StartSend, PollRecv, DropStream
    <3>4. QED
      BY <1>1, <3>1, <3>2, <3>3 DEF App
  <2>3. QED
    BY <1>h, <2>1, <2>2
<1>2. CASE Poll
  <2>1. CASE PollStart \/ PollSendDataItem \/ PollSendDataIdle \/ PollNotReady
    BY <1>h, <1>k, <2>1 DEF PollStart, PollSendDataItem, PollSendDataIdle,
       PollNotReady
  <2>2. CASE PollControlEnd
    BY <1>h, <1>k, <2>2 DEF PollControlEnd
  <2>3. ASSUME control_msg # <<>>, control_msg' = Tail(control_msg),
               reset_requested' = reset_requested
        PROVE  Asked' => reset_requested'
    BY <2>3, TailOfMessages DEF FinInv, ResetMsg
  <2>4. CASE PollControlReset
    BY <2>3, <2>4 DEF PollControlReset, ContextReset, FinInv
  <2>5. CASE PollControlSwap
    BY <1>h, <2>3, <2>5 DEF PollControlSwap
  <2>6. CASE PollSendDataNone
    BY <1>k, <2>6 DEF PollSendDataNone, FinInv
  <2>7. CASE PollReady
    BY <1>h, <2>7 DEF PollReady, DropContext
  <2>8. QED
    BY <1>2, <2>1, <2>2, <2>4, <2>5, <2>6, <2>7 DEF Poll
<1>3. CASE Quic
  <2>1. ASSUME NEW event \in Events, NEW len \in 0..1, Callback(event, len)
        PROVE  FinInv'
    <3>1. /\ UNCHANGED <<wire, data_send, length, reset_called, fin_sent>>
          /\ pc' = "idle"
          /\ stop_sending_or_fin_sent => stop_sending_or_fin_sent'
      BY <2>1 DEF Callback
    <3>2. Asked' => reset_requested'
      BY <1>k, <2>1 DEF Callback
    <3>3. QED
      BY <3>1, <3>2 DEF FinInv
  <2>2. ASSUME NEW m \in PacketSizes, PrepareToSend(m) PROVE FinInv'
    BY <1>k, <2>2 DEF PrepareToSend, FinInv
  <2>3. CASE CollectBuffer
    BY <1>h, <1>k, <2>3 DEF CollectBuffer
  <2>4. CASE ProvideData
    <3>1. /\ pc = "collect" /\ pc' # "collect" /\ UNCHANGED <<wire, reset_called>>
          /\ fin_sent' = Fin /\ stop_sending_or_fin_sent' = Fin
          /\ data_send' = (data_send \/ size > 0)
          /\ length' = Least(max_length, size)
      BY <2>4 DEF ProvideData
    <3>2. length' > 0 => size > 0
      <4>1. Least(max_length, size) \in Nat /\ Least(max_length, size) <= size
        BY <1>t, LeastFacts
      <4>2. QED
        BY <1>t, <3>1, <4>1
    <3>3. Asked' => reset_requested'
      BY <1>k, <2>4 DEF ProvideData
    <3>4. QED
      BY <3>1, <3>2, <3>3 DEF FinInv
  <2>5. CASE CopyBuffer
    <3> DEFINE n == Least(Size(Head(buffers)), length)
    <3>1. /\ pc = "write" /\ pc' # "collect" /\ length' = length - n
          /\ UNCHANGED <<data_send, reset_called, fin_sent,
                         stop_sending_or_fin_sent>>
          /\ wire' # wire => n > 0
      BY <2>5 DEF CopyBuffer
    <3>2. n \in Nat /\ n <= length
      <4>1. Size(Head(buffers)) \in Nat
        BY <3>1, SizeType, CopyFacts
      <4>2. QED
        BY <1>t, <4>1, LeastFacts
    <3>3. (wire' # wire \/ length' > 0) => length > 0
      BY <1>t, <3>1, <3>2
    <3>4. Asked' => reset_requested'
      BY <1>k, <2>5 DEF CopyBuffer
    <3>5. QED
      BY <3>1, <3>3, <3>4 DEF FinInv
  <2>6. CASE LocalClose
    BY <1>h, <1>k, <2>6 DEF LocalClose
  <2>7. ASSUME NEW err, CloseCallback(err) PROVE FinInv'
    BY <1>h, <1>k, <2>7 DEF CloseCallback
  <2>8. CASE ConnectionDropped
    BY <1>h, <2>8 DEF ConnectionDropped, DropContext
  <2>9. QED
    BY <1>3, <2>1, <2>2, <2>3, <2>4, <2>5, <2>6, <2>7, <2>8 DEF Quic, SendData
<1>4. CASE UNCHANGED vars
  BY <1>h, <1>k, <1>4 DEF vars
<1>5. QED
  BY <1>1, <1>2, <1>3, <1>4 DEF Next

------------------------------------------------------------------------------
(* No byte is lost.  The one place where the code drops a receiver that    *)
(* still has data although nobody gave the stream up is set_swap_to: when  *)
(* another channel is still waiting for its turn.  Everything below is     *)
(* proved as long as this does not happen (OneResizeAtATime); run          *)
(* stream_two_resizes shows what does when it happens.                     *)

Covered(b) ==
  \/ OnWire(b) \/ Covers(Front, b)
  \/ \E k \in Channels : Covers(chan[k].queue, b)

AllCovered == \A b \in Nat : b < accepted => Covered(b)

QueuesEmpty == \A k \in Channels : chan[k].queue = <<>>

(* While the Context has its receivers, every accepted byte is on its way, *)
(* and each of the channels after the active one will get its turn.        *)
OpenInv ==
  active # 0 =>
    /\ AllCovered
    /\ \A k \in Channels : (active <= k /\ k <= created) => chan[k].open
    /\ \A k \in Channels : (active < k /\ k <= created) => Held(k)

(* What the Context has taken follows what is on the wire without a gap,   *)
(* also after it gave up its receivers.                                    *)
PrefixInv ==
  \A i \in DOMAIN Front : \A b \in Nat :
    b < Front[i].lo => OnWire(b) \/ Covers(Front, b)

(* If nobody gave the stream up, the Context lets its receivers go and     *)
(* ends the sending side only when the sender is gone and has left nothing *)
(* behind.                                                                 *)
OverInv ==
  ~Abandoned =>
    /\ active = 0 => sender = 0 /\ QueuesEmpty /\ AllCovered
    /\ stop_sending_or_fin_sent =>
         sender = 0 /\ QueuesEmpty /\ (pc # "write" => Front = <<>>)
    /\ reset_called => accepted = 0

LEMMA CoversEmpty == \A b : ~Covers(<<>>, b)
BY DEF Covers

LEMMA CoversAppend ==
  ASSUME NEW seq \in Seq(Ranges), NEW buf \in Ranges, NEW b \in Nat
  PROVE  /\ Covers(seq, b) => Covers(Append(seq, buf), b)
         /\ (buf.lo <= b /\ b < buf.hi) => Covers(Append(seq, buf), b)
<1>1. ASSUME Covers(seq, b) PROVE Covers(Append(seq, buf), b)
  <2>1. PICK i \in DOMAIN seq : seq[i].lo <= b /\ b < seq[i].hi
    BY <1>1 DEF Covers
  <2>2. i \in DOMAIN Append(seq, buf) /\ Append(seq, buf)[i] = seq[i]
    BY AppendKeeps
  <2>3. QED
    BY <2>1, <2>2 DEF Covers
<1>2. ASSUME buf.lo <= b, b < buf.hi PROVE Covers(Append(seq, buf), b)
  <2>1. /\ Len(seq) + 1 \in DOMAIN Append(seq, buf)
        /\ Append(seq, buf)[Len(seq) + 1] = buf
    BY AppendKeeps
  <2>2. QED
    BY <1>2, <2>1 DEF Covers
<1>3. QED
  BY <1>1, <1>2

LEMMA CoversTail ==
  ASSUME NEW seq \in Seq(Ranges), seq # <<>>, NEW b \in Nat, Covers(seq, b)
  PROVE  (Head(seq).lo <= b /\ b < Head(seq).hi) \/ Covers(Tail(seq), b)
<1>1. PICK i \in DOMAIN seq : seq[i].lo <= b /\ b < seq[i].hi
  BY DEF Covers
<1>2. CASE i = 1
  BY <1>1, <1>2
<1>3. CASE i # 1
  <2>1. \E j \in DOMAIN Tail(seq) : Tail(seq)[j] = seq[i]
    BY <1>3, TailKeeps
  <2>2. QED
    BY <1>1, <2>1 DEF Covers
<1>4. QED
  BY <1>2, <1>3

(* How each kind of step keeps the bytes covered.                          *)
LEMMA CoverStays == ASSUME DataStays, NEW b PROVE Covered(b) => Covered(b)'
<1>1. Covers(wire, b) => Covers(wire', b)
  BY DEF DataStays
<1>2. Covers(Front, b) => Covers(Front', b)
  BY DEF DataStays
<1>3. \A k \in Channels : Covers(chan[k].queue, b) => Covers(chan'[k].queue, b)
  BY DEF DataStays
<1>4. QED
  BY <1>1, <1>2, <1>3 DEF Covered, OnWire, Covers

LEMMA CoverTake ==
  ASSUME TypeInv, DataIsTaken, NEW b \in Nat
  PROVE  /\ Covered(b) => Covered(b)'
         /\ Covers(Front, b) => Covers(Front', b)
<1> DEFINE t == PollTarget
           buf == Head(chan[t].queue)
<1>t. /\ Front \in Seq(Ranges)
      /\ \A k \in Channels : chan[k].queue \in Seq(Ranges)
  BY OrderTypes
<1>1. /\ t \in Channels /\ chan[t].queue # <<>>
      /\ chan'[t].queue = Tail(chan[t].queue)
      /\ \A k \in Channels \ {t} : chan'[k].queue = chan[k].queue
  BY TakeFacts DEF DataIsTaken
<1>2. buf \in Ranges
  BY <1>t, <1>1
<1>3. wire' = wire /\ Front' = Append(Front, buf)
  BY DEF DataIsTaken
<1> HIDE DEF t, buf
<1>4. Covers(Front, b) => Covers(Front', b)
  BY <1>t, <1>2, <1>3, CoversAppend
<1>5. ASSUME NEW k \in Channels, Covers(chan[k].queue, b)
      PROVE  Covers(Front', b) \/ Covers(chan'[k].queue, b)
  <2>1. CASE k # t
    BY <1>1, <1>5, <2>1
  <2>2. CASE k = t
    <3>1. (buf.lo <= b /\ b < buf.hi) \/ Covers(Tail(chan[t].queue), b)
      BY <1>t, <1>1, <1>5, <2>2, CoversTail DEF buf
    <3>2. QED
      BY <1>t, <1>1, <1>2, <1>3, <2>2, <3>1, CoversAppend
  <2>3. QED
    BY <2>1, <2>2
<1>6. Covers(wire, b) => Covers(wire', b)
  BY <1>3
<1>7. Covered(b) => (\/ Covers(wire', b) \/ Covers(Front', b)
                     \/ \E k \in Channels : Covers(chan'[k].queue, b))
  BY <1>4, <1>5, <1>6 DEF Covered, OnWire
<1>8. QED
  BY <1>4, <1>7 DEF Covered, OnWire, Covers

LEMMA CoverCopy ==
  ASSUME TypeInv, BufferInv, CopyBuffer, NEW b \in Nat
  PROVE  /\ OnWire(b) => OnWire(b)'
         /\ Covers(Front, b) => OnWire(b)' \/ Covers(Front', b)
         /\ Covered(b) => Covered(b)'
<1>t. Front \in Seq(Ranges) /\ wire \in Seq(Ranges)
  BY OrderTypes
<1> DEFINE buf == Head(Front)
<1>1. PICK n \in Nat :
        /\ Front # <<>> /\ buf \in Ranges /\ n <= Size(buf)
        /\ wire' = IF n > 0 THEN Append(wire, [lo |-> buf.lo, hi |-> buf.lo + n])
                   ELSE wire
        /\ \/ Front' = Tail(Front) /\ buf.lo + n = buf.hi
           \/ Tail(Front) = <<>> /\ Front' = <<[lo |-> buf.lo + n, hi |-> buf.hi]>>
  BY CopyMoves
<1>2. PICK at \in Nat :
        /\ at = buf.lo + n /\ buf.lo <= at /\ at <= buf.hi
        /\ buf.lo \in Nat /\ buf.hi \in Nat
  BY <1>1 DEF Ranges, Size
<1>f. ASSUME Covers(Front, b)
      PROVE  (buf.lo <= b /\ b < buf.hi) \/ Covers(Tail(Front), b)
  BY <1>t, <1>1, <1>f, CoversTail
<1> HIDE DEF buf
<1>3. /\ Covers(wire, b) => Covers(wire', b)
      /\ (buf.lo <= b /\ b < at) => Covers(wire', b)
  <2>1. CASE n > 0
    <3> DEFINE new == [lo |-> buf.lo, hi |-> at]
    <3>1. wire' = Append(wire, new)
      BY <1>1, <1>2, <2>1
    <3>2. new \in Ranges /\ new.lo = buf.lo /\ new.hi = at
      BY <1>2 DEF Ranges
    <3> HIDE DEF new
    <3>3. QED
      BY <1>t, <3>1, <3>2, CoversAppend
  <2>2. CASE n = 0
    <3>1. wire' = wire /\ at = buf.lo
      BY <1>1, <1>2, <2>2
    <3>2. QED
      BY <1>2, <3>1
  <2>3. QED
    BY <1>1, <2>1, <2>2
<1>4. ASSUME Covers(Front, b) PROVE Covers(wire', b) \/ Covers(Front', b)
  <2>1. CASE Front' = Tail(Front) /\ at = buf.hi
    BY <1>3, <1>4, <1>f, <2>1
  <2>2. CASE Tail(Front) = <<>> /\ Front' = <<[lo |-> at, hi |-> buf.hi]>>
    <3>1. buf.lo <= b /\ b < buf.hi
      BY <1>4, <1>f, <2>2, CoversEmpty
    <3>2. CASE b < at
      BY <1>3, <3>1, <3>2
    <3>3. CASE at <= b
      <4>1. /\ 1 \in DOMAIN Front' /\ Front'[1].lo = at /\ Front'[1].hi = buf.hi
        BY <2>2
      <4>2. QED
        BY <3>1, <3>3, <4>1 DEF Covers
    <3>4. QED
      BY <1>2, <3>2, <3>3
  <2>3. QED
    BY <1>1, <1>2, <2>1, <2>2
<1>5. \A k \in Channels : Covers(chan[k].queue, b) => Covers(chan'[k].queue, b)
  BY DEF CopyBuffer, chanVars
<1>6. QED
  BY <1>3, <1>4, <1>5 DEF Covered, OnWire, Covers

(* No byte before the one a poll takes is still in a channel.              *)
LEMMA TakeIsFirst ==
  ASSUME TypeInv, PlaceInv, OrderInv, PollHasItem, NEW b \in Nat,
         b < Head(chan[PollTarget].queue).lo
  PROVE  /\ b < accepted
         /\ \A k \in Channels : ~Covers(chan[k].queue, b)
<1> DEFINE t == PollTarget
           buf == Head(chan[t].queue)
<1>t. /\ accepted \in Nat /\ MaxChannels \in Nat /\ Channels = 1..MaxChannels
      /\ \A k \in Channels : chan[k].queue \in Seq(Ranges)
  BY OrderTypes
<1>1. t \in Channels /\ chan[t].queue # <<>>
  BY SwappableFacts DEF TypeInv, PollHasItem
<1>2. \A k \in Channels : k < t => chan[k].queue = <<>>
  BY FirstChannel
<1>3. /\ buf \in Ranges /\ buf.lo \in Nat /\ buf.hi \in Nat /\ buf.lo <= buf.hi
      /\ 1 \in DOMAIN chan[t].queue /\ chan[t].queue[1] = buf
  <2>1. chan[t].queue \in Seq(Ranges)
    BY <1>t, <1>1
  <2>2. buf \in Ranges
    BY <1>1, <2>1
  <2>3. 1 \in DOMAIN chan[t].queue /\ chan[t].queue[1] = buf
    BY <1>1, <2>1
  <2>4. QED
    BY <2>2, <2>3 DEF Ranges
<1>b. b < buf.lo
  OBVIOUS
<1> HIDE DEF t, buf
<1>4. PICK c : CutsBytes(c)
  BY DEF OrderInv
<1>5. /\ c \in [0..(MaxChannels + 1) -> Nat]
      /\ \A i, j \in 0..(MaxChannels + 1) : i <= j => c[i] <= c[j]
      /\ c[MaxChannels + 1] <= accepted
      /\ \A k \in Channels : Within(chan[k].queue, c[k], c[k + 1])
  BY <1>4 DEF CutsBytes
<1>6. buf.hi <= c[t + 1]
  BY <1>1, <1>3, <1>5 DEF Within
<1>7. /\ c[t + 1] \in Nat /\ c[MaxChannels + 1] \in Nat
      /\ c[t + 1] <= c[MaxChannels + 1]
  BY <1>t, <1>1, <1>5
<1>8. b < accepted
  BY <1>t, <1>3, <1>5, <1>6, <1>7, <1>b
<1>9. ASSUME NEW k \in Channels, NEW i \in DOMAIN chan[k].queue
      PROVE  ~(chan[k].queue[i].lo <= b)
  <2>1. chan[k].queue[i].lo \in Nat /\ i \in Nat /\ i >= 1
    <3>1. chan[k].queue \in Seq(Ranges)
      BY <1>t
    <3>2. chan[k].queue[i] \in Ranges /\ i \in Nat /\ i >= 1
      BY <3>1
    <3>3. QED
      BY <3>2 DEF Ranges
  <2>2. CASE k < t
    BY <1>2, <2>2
  <2>3. CASE k = t
    <3>1. i # 1 => buf.hi <= chan[k].queue[i].lo
      BY <1>3, <1>5, <2>1, <2>3 DEF Within
    <3>2. QED
      BY <1>3, <1>b, <2>1, <2>3, <3>1
  <2>4. CASE k > t
    <3>1. c[k] <= chan[k].queue[i].lo
      BY <1>5 DEF Within
    <3>2. c[k] \in Nat /\ c[t + 1] <= c[k]
      BY <1>t, <1>1, <1>5, <2>4
    <3>3. QED
      BY <1>3, <1>6, <1>7, <1>b, <2>1, <3>1, <3>2
  <2>5. QED
    BY <1>t, <1>1, <2>2, <2>3, <2>4
<1>10. QED
  BY <1>8, <1>9 DEF Covers

LEMMA PrefixStep ==
  DataInv /\ OpenInv /\ PrefixInv /\ [Next]_vars => PrefixInv'
<1> SUFFICES ASSUME DataInv, OpenInv, PrefixInv, [Next]_vars PROVE PrefixInv'
  OBVIOUS
<1> USE DEF DataInv
<1>t. Front \in Seq(Ranges) /\ wire \in Seq(Ranges)
  BY OrderTypes
<1>1. ASSUME wire' = wire, Front' \in {Front, <<>>} PROVE PrefixInv'
  <2>1. ASSUME NEW i \in DOMAIN Front', NEW b \in Nat, b < Front'[i].lo
        PROVE  Covers(wire', b) \/ Covers(Front', b)
    <3>1. Front' = Front
      BY <1>1, <2>1
    <3>2. OnWire(b) \/ Covers(Front, b)
      BY <2>1, <3>1 DEF PrefixInv
    <3>3. QED
      BY <1>1, <3>1, <3>2 DEF OnWire
  <2>2. QED
    BY <2>1 DEF PrefixInv, OnWire, Covers
<1>2. ASSUME DataIsTaken PROVE PrefixInv'
  <2> DEFINE buf == Head(chan[PollTarget].queue)
  <2>1. /\ active # 0 /\ chan[PollTarget].queue \in Seq(Ranges)
        /\ chan[PollTarget].queue # <<>>
    BY <1>2, TakeFacts DEF DataIsTaken
  <2>2. /\ wire' = wire /\ Front' = Append(Front, buf) /\ buf \in Ranges
        /\ PollHasItem
    BY <1>2, <2>1 DEF DataIsTaken
  <2>3. ASSUME NEW i \in DOMAIN Front', NEW b \in Nat, b < Front'[i].lo
        PROVE  Covers(wire', b) \/ Covers(Front', b)
    <3>1. CASE i \in DOMAIN Front
      <4>1. Front'[i] = Front[i]
        BY <1>t, <2>2, <3>1, AppendKeeps
      <4>2. OnWire(b) \/ Covers(Front, b)
        BY <2>3, <3>1, <4>1 DEF PrefixInv
      <4>3. QED
        BY <1>2, <2>2, <4>2, CoverTake DEF OnWire
    <3>2. CASE i \notin DOMAIN Front
      <4>1. Front'[i] = buf
        BY <1>t, <2>2, <3>2
      <4>2. b < buf.lo
        BY <2>3, <4>1
      <4>3. b < accepted /\ \A k \in Channels : ~Covers(chan[k].queue, b)
        BY <2>2, <4>2, TakeIsFirst
      <4>4. Covered(b)
        BY <2>1, <4>3 DEF OpenInv, AllCovered
      <4>5. OnWire(b) \/ Covers(Front, b)
        BY <4>3, <4>4 DEF Covered
      <4>6. QED
        BY <1>2, <2>2, <4>5, CoverTake DEF OnWire
    <3>3. QED
      BY <3>1, <3>2
  <2>4. QED
    BY <2>3 DEF PrefixInv, OnWire, Covers
<1>3. ASSUME CopyBuffer PROVE PrefixInv'
  <2> DEFINE buf == Head(Front)
  <2>1. PICK n \in Nat :
          /\ Front # <<>> /\ buf \in Ranges /\ n <= Size(buf)
          /\ \/ Front' = Tail(Front)
             \/ Front' = <<[lo |-> buf.lo + n, hi |-> buf.hi]>>
    BY <1>3, CopyMoves
  <2>2. /\ buf.lo \in Nat /\ buf.hi \in Nat /\ buf.lo + n <= buf.hi
        /\ 1 \in DOMAIN Front /\ Front[1] = buf
    BY <1>t, <2>1 DEF Ranges, Size
  <2> HIDE DEF buf
  <2>3. ASSUME NEW i \in DOMAIN Front', NEW b \in Nat, b < Front'[i].lo
        PROVE  OnWire(b) \/ Covers(Front, b)
    <3>1. CASE Front' = Tail(Front)
      <4>1. i + 1 \in DOMAIN Front /\ Front'[i] = Front[i + 1]
        BY <1>t, <2>1, <3>1
      <4>2. QED
        BY <2>3, <4>1 DEF PrefixInv
    <3>2. CASE Front' = <<[lo |-> buf.lo + n, hi |-> buf.hi]>>
      <4>1. b < buf.lo + n
        BY <2>3, <3>2
      <4>2. CASE b < buf.lo
        BY <2>2, <4>2 DEF PrefixInv
      <4>3. CASE buf.lo <= b
        BY <2>1, <2>2, <4>1, <4>3 DEF Covers
      <4>4. QED
        BY <2>2, <4>2, <4>3
    <3>3. QED
      BY <2>1, <3>1, <3>2
  <2>4. ASSUME NEW i \in DOMAIN Front', NEW b \in Nat, b < Front'[i].lo
        PROVE  Covers(wire', b) \/ Covers(Front', b)
    BY <1>3, <2>3, <2>4, CoverCopy DEF OnWire, Covers
  <2>5. QED
    BY <2>4 DEF PrefixInv, OnWire, Covers
<1>4. DataStays \/ DataIsDropped => PrefixInv'
  BY <1>1 DEF DataStays, DataIsDropped
<1>5. ASSUME NEW n \in ChunkSizes, StartSend(n) PROVE PrefixInv'
  <2>1. wire' = wire /\ Front' = Front
    BY <1>5 DEF StartSend, Front, quicVars, localVars
  <2>2. QED
    BY <1>1, <2>1
<1>6. CASE UNCHANGED vars
  <2>1. DataStays
    BY <1>6 DEF vars, DataStays, Front, handleVars, chanVars, localVars, quicVars
  <2>2. QED
    BY <1>4, <2>1
<1>7. QED
  BY <1>2, <1>3, <1>4, <1>5, <1>6, DataOfApp, DataOfPoll, DataOfQuic DEF Next

LEMMA CoverPut ==
  ASSUME DataInv, NEW n \in ChunkSizes, StartSend(n), AllCovered
  PROVE  AllCovered'
<1> DEFINE buf == [lo |-> accepted, hi |-> accepted + n]
<1> USE DEF DataInv
<1>t. /\ chan \in [Channels -> ChannelRecords] /\ accepted \in Nat /\ n \in Nat
      /\ \A k \in Channels : chan[k].queue \in Seq(Ranges)
      /\ sender \in Channels
  BY OrderTypes, PlaceTypes, StreamAssumptions DEF StartSend
<1>1. /\ accepted' = accepted + n /\ UNCHANGED <<wire, Front>>
      /\ chan' = [chan EXCEPT ![sender] = Enqueue(@, buf)]
  BY DEF StartSend, Front, quicVars, localVars
<1>2. buf \in Ranges /\ buf.lo = accepted /\ buf.hi = accepted + n
  BY <1>t DEF Ranges
<1> HIDE DEF buf
<1>3. /\ chan'[sender].queue = Append(chan[sender].queue, buf)
      /\ \A k \in Channels \ {sender} : chan'[k].queue = chan[k].queue
  BY <1>t, <1>1 DEF Enqueue, ChannelRecords
<1>4. ASSUME NEW b \in Nat, b < accepted'
      PROVE  \/ Covers(wire', b) \/ Covers(Front', b)
             \/ \E k \in Channels : Covers(chan'[k].queue, b)
  <2>1. CASE b < accepted
    <3>1. Covered(b)
      BY <2>1 DEF AllCovered
    <3>2. ASSUME NEW k \in Channels, Covers(chan[k].queue, b)
          PROVE  Covers(chan'[k].queue, b)
      <4>1. CASE k = sender
        <5>1. chan[sender].queue \in Seq(Ranges)
          BY <1>t
        <5>2. QED
          BY <1>2, <1>3, <3>2, <4>1, <5>1, CoversAppend
      <4>2. CASE k # sender
        BY <1>3, <3>2, <4>2
      <4>3. QED
        BY <4>1, <4>2
    <3>3. QED
      BY <1>1, <3>1, <3>2 DEF Covered, OnWire
  <2>2. CASE accepted <= b
    <3>1. buf.lo <= b /\ b < buf.hi
      BY <1>1, <1>2, <1>4, <2>2
    <3>2. Covers(chan'[sender].queue, b)
      BY <1>t, <1>2, <1>3, <3>1, CoversAppend
    <3>3. QED
      BY <1>t, <3>2
  <2>3. QED
    BY <1>t, <2>1, <2>2
<1>5. QED
  BY <1>4 DEF AllCovered, Covered, OnWire, Covers

LEMMA CoverKept ==
  ASSUME AllCovered, accepted' = accepted,
         \A b \in Nat : Covered(b) => Covered(b)'
  PROVE  AllCovered'
BY DEF AllCovered

LEMMA OpenKept ==
  ASSUME OpenInv, UNCHANGED <<active, swap_to, created, control_msg>>,
         AllCovered => AllCovered',
         \A k \in Channels : chan'[k].open = chan[k].open
  PROVE  OpenInv'
<1>1. \A k : Held(k) => Held(k)'
  BY DEF Held
<1>2. QED
  BY <1>1 DEF OpenInv

(* A swap closes the old channel only, and the next one takes its place.   *)
LEMMA OpenSwap ==
  ASSUME DataInv, OpenInv, active # 0, UNCHANGED <<created, control_msg>>,
         active' = PollTarget, swap_to' = SwapToAfterSwap,
         AllCovered => AllCovered',
         \A k \in Channels : chan'[k].open = ChanAfterSwap[k].open
  PROVE  OpenInv'
<1> USE DEF DataInv
<1>t. /\ active \in Nat /\ swap_to \in Nat /\ created \in Nat
      /\ active \in Channels /\ Channels \subseteq Nat
      /\ chan \in [Channels -> ChannelRecords]
  BY PlaceTypes DEF Channels
<1>1. CASE ~Swaps
  <2>1. UNCHANGED <<active, swap_to>> /\ ChanAfterSwap = chan
    BY <1>1 DEF PollTarget, SwapToAfterSwap, ChanAfterSwap
  <2>2. QED
    BY <2>1, OpenKept
<1>2. CASE Swaps
  <2>1. /\ active' = swap_to /\ swap_to' = 0 /\ swap_to # 0
        /\ ChanAfterSwap = [chan EXCEPT ![active] = DropReceiver(@)]
    BY <1>2 DEF PollTarget, SwapToAfterSwap, ChanAfterSwap, Swaps
  <2>2. active < swap_to
    BY <2>1 DEF PlaceInv, ReceiversInOrder
  <2>3. ASSUME NEW k \in Channels, swap_to <= k, k <= created
        PROVE  chan'[k].open
    BY <1>t, <2>1, <2>2, <2>3 DEF OpenInv
  <2>4. ASSUME NEW k \in Channels, swap_to < k, k <= created
        PROVE  Held(k)'
    <3>1. Held(k) /\ k # active /\ k # swap_to
      BY <1>t, <2>2, <2>4 DEF OpenInv
    <3>2. QED
      BY <3>1 DEF Held
  <2>5. QED
    BY <2>1, <2>3, <2>4 DEF OpenInv
<1>3. QED
  BY <1>1, <1>2

LEMMA TakeOpen ==
  ASSUME TypeInv, DataIsTaken
  PROVE  /\ active # 0
         /\ \A k \in Channels : chan'[k].open = ChanAfterSwap[k].open
<1>1. ChanAfterSwap \in [Channels -> ChannelRecords]
  BY SwappableFacts DEF TypeInv
<1>2. QED
  BY <1>1, TakeFacts DEF DataIsTaken, Dequeue, ChannelRecords

LEMMA OpenApp == DataInv /\ OpenInv /\ App => OpenInv'
<1> SUFFICES ASSUME DataInv, OpenInv, App PROVE OpenInv'
  OBVIOUS
<1> USE DEF DataInv, handleVars, chanVars, msgVars, dataVars
<1>t. /\ active \in Nat /\ created \in Nat /\ Channels \subseteq Nat
      /\ chan \in [Channels -> ChannelRecords]
      /\ control_msg \in Seq(ControlMessages)
  BY PlaceTypes DEF Channels
<1>d. DataStays => (AllCovered => AllCovered')
  BY CoverStays, CoverKept DEF DataStays
<1>1. ASSUME NEW n \in ChunkSizes, StartSend(n) PROVE OpenInv'
  <2>1. UNCHANGED <<active, swap_to, created, control_msg>>
    BY <1>1 DEF StartSend
  <2>2. \A k \in Channels : chan'[k].open = chan[k].open
    BY <1>1, <1>t DEF StartSend, Enqueue, ChannelRecords
  <2>3. QED
    BY <1>1, <2>1, <2>2, CoverPut, OpenKept
<1>2. ASSUME NEW n \in SwapSizes, SetSendChannelSize(n), active # 0
      PROVE  OpenInv'
  <2>1. pc # "gone"
    BY <1>2 DEF PlaceInv, ReceiversInOrder
  <2>2. /\ UNCHANGED <<active, swap_to>> /\ created' = created + 1
        /\ chan' = [chan EXCEPT ![created + 1] = NewChannel(n)]
        /\ control_msg' = Append(control_msg, SwapSendData(created + 1))
    BY <1>2, <2>1 DEF SetSendChannelSize
  <2>3. AllCovered'
    BY <1>2, <1>d, DataOfResize DEF OpenInv
  <2>4. ASSUME NEW k \in Channels, active <= k, k <= created + 1
        PROVE  chan'[k].open
    BY <1>t, <1>2, <2>2, <2>4 DEF OpenInv, NewChannel
  <2>5. ASSUME NEW k \in Channels, active < k, k <= created + 1
        PROVE  Held(k)'
    <3>1. CASE k = created + 1
      <4>1. /\ Len(control_msg) + 1 \in DOMAIN control_msg'
            /\ control_msg'[Len(control_msg) + 1] = SwapSendData(created + 1)
        BY <1>t, <2>2, AppendKeeps
      <4>2. control_msg'[Len(control_msg) + 1].receiver = k
        BY <3>1, <4>1 DEF SwapSendData
      <4>3. QED
        BY <4>1, <4>2 DEF Held
    <3>2. CASE k # created + 1
      <4>1. Held(k)
        BY <1>t, <1>2, <2>5, <3>2 DEF OpenInv
      <4>2. \A i \in DOMAIN control_msg :
              i \in DOMAIN control_msg' /\ control_msg'[i] = control_msg[i]
        BY <1>t, <2>2, AppendKeeps
      <4>3. QED
        BY <2>2, <4>1, <4>2 DEF Held
    <3>3. QED
      BY <3>1, <3>2
  <2>6. QED
    BY <2>2, <2>3, <2>4, <2>5 DEF OpenInv
<1>3. ASSUME NEW n \in SwapSizes, SetSendChannelSize(n), active = 0
      PROVE  OpenInv'
  BY <1>3 DEF SetSendChannelSize, OpenInv
<1>4. CASE Reset
  <2>1. /\ UNCHANGED <<active, swap_to, created, chan>>
        /\ control_msg' = Append(control_msg, ResetMsg)
    BY <1>4 DEF Reset
  <2>2. AllCovered => AllCovered'
    <3>1. DataStays
      BY <1>4 DEF Reset, DataStays, Front, quicVars, localVars
    <3>2. QED
      BY <1>d, <3>1
  <2>3. \A k : Held(k) => Held(k)'
    BY <1>t, <2>1, AppendKeeps DEF Held
  <2>4. QED
    BY <2>1, <2>2, <2>3 DEF OpenInv
<1>5. CASE PollRecv \/ DropStream
  <2>1. UNCHANGED <<active, swap_to, created, control_msg, chan>>
    BY <1>5 DEF PollRecv, DropStream
  <2>2. DataStays
    BY <1>5 DEF PollRecv, DropStream, DataStays, Front, quicVars, localVars
  <2>3. QED
    BY <1>d, <2>1, <2>2, OpenKept
<1>6. QED
  BY <1>1, <1>2, <1>3, <1>4, <1>5 DEF App

LEMMA OpenPoll == DataInv /\ OneResizeAtATime /\ OpenInv /\ Poll => OpenInv'
<1> SUFFICES ASSUME DataInv, OneResizeAtATime, OpenInv, Poll PROVE OpenInv'
  OBVIOUS
<1> USE DEF DataInv, handleVars, chanVars, msgVars, dataVars
<1>t. /\ chan \in [Channels -> ChannelRecords] /\ 0 \notin Channels
      /\ control_msg \in Seq(ControlMessages) /\ active \in Nat
  BY PlaceTypes
<1>d. DataStays => (AllCovered => AllCovered')
  BY CoverStays, CoverKept DEF DataStays
<1>e. DataIsTaken => (AllCovered => AllCovered')
  BY CoverTake, CoverKept DEF DataIsTaken
<1>0. active' = 0 => OpenInv'
  BY DEF OpenInv
<1>1. CASE PollStart \/ PollControlEnd \/ PollNotReady
  <2>1. UNCHANGED <<active, swap_to, created, control_msg, chan>>
    BY <1>1 DEF PollStart, PollControlEnd, PollNotReady
  <2>2. QED
    BY <1>1, <1>d, <2>1, DataOfPoll, OpenKept
<1>2. CASE PollControlReset \/ PollSendDataNone
  BY <1>0, <1>2 DEF PollControlReset, PollSendDataNone, ContextReset,
     CloseSendData
<1>3. CASE PollReady
  BY <1>0, <1>3 DEF PollReady, DropContext
<1>4. CASE PollControlSwap
  <2> SUFFICES ASSUME active # 0 PROVE OpenInv'
    BY <1>0, <1>4 DEF PollControlSwap
  <2>1. /\ UNCHANGED <<active, created>> /\ control_msg # <<>>
        /\ Head(control_msg) # ResetMsg /\ control_msg' = Tail(control_msg)
        /\ swap_to' = Head(control_msg).receiver
        /\ chan' = DropReceivers(chan, {swap_to})
    BY <1>4 DEF PollControlSwap
  <2>2. 1 \in DOMAIN control_msg /\ control_msg[1] = Head(control_msg)
    BY <1>t, <2>1
  <2>3. Head(control_msg).receiver # 0
    BY <1>t, <2>1, <2>2, PlaceTypes DEF PlaceInv, MessagesInOrder
  <2>4. swap_to = 0
    BY <2>2, <2>3 DEF OneResizeAtATime
  <2>5. \A k \in Channels : chan'[k] = chan[k]
    BY <1>t, <2>1, <2>4 DEF DropReceivers
  <2>6. AllCovered'
    <3>1. Front' = Front /\ accepted' = accepted /\ wire' = wire
      BY <1>4, DataOfPoll DEF DataIsDropped
    <3>2. DataStays
      BY <2>5, <3>1 DEF DataStays
    <3>3. QED
      BY <1>d, <3>2 DEF OpenInv
  <2>7. ASSUME NEW k \in Channels, active < k, k <= created PROVE Held(k)'
    <3>1. Held(k) /\ k # active /\ k # 0
      BY <1>t, <2>7, PlaceTypes DEF OpenInv, Channels
    <3>2. PICK i \in DOMAIN control_msg : control_msg[i].receiver = k
      BY <2>4, <3>1 DEF Held
    <3>3. CASE i = 1
      BY <2>1, <2>2, <3>2, <3>3 DEF Held
    <3>4. CASE i # 1
      <4>1. \E j \in DOMAIN control_msg' : control_msg'[j] = control_msg[i]
        BY <1>t, <2>1, <3>4, TailKeeps
      <4>2. QED
        BY <3>2, <4>1 DEF Held
    <3>5. QED
      BY <3>3, <3>4
  <2>8. QED
    BY <2>1, <2>5, <2>6, <2>7 DEF OpenInv
<1>5. CASE PollSendDataItem
  <2>1. DataIsTaken
    BY <1>5, DataOfPoll
  <2>2. /\ UNCHANGED <<created, control_msg>>
        /\ active' = PollTarget /\ swap_to' = SwapToAfterSwap
    BY <1>5 DEF PollSendDataItem
  <2>3. QED
    BY <1>e, <2>1, <2>2, TakeOpen, OpenSwap
<1>6. CASE PollSendDataIdle
  <2>1. UNCHANGED <<created, control_msg>> /\ DataStays
    BY <1>6, DataOfPoll DEF PollSendDataIdle
  <2>2. CASE UNCHANGED <<chan, dataVars>>
    BY <1>d, <2>1, <2>2, OpenKept
  <2>3. CASE /\ active # 0 /\ chan' = ChanAfterSwap
             /\ active' = PollTarget /\ swap_to' = SwapToAfterSwap
    BY <1>d, <2>1, <2>3, OpenSwap
  <2>4. QED
    BY <1>6, <2>2, <2>3 DEF PollSendDataIdle
<1>7. QED
  BY <1>1, <1>2, <1>3, <1>4, <1>5, <1>6 DEF Poll

LEMMA OpenQuic == DataInv /\ OpenInv /\ Quic => OpenInv'
<1> SUFFICES ASSUME DataInv, OpenInv, Quic PROVE OpenInv'
  OBVIOUS
<1> USE DEF DataInv, handleVars, chanVars, msgVars, dataVars
<1>t. chan \in [Channels -> ChannelRecords]
  BY PlaceTypes
<1>d. DataStays => (AllCovered => AllCovered')
  BY CoverStays, CoverKept DEF DataStays
<1>0. active' = 0 => OpenInv'
  BY DEF OpenInv
<1>1. ASSUME NEW event \in Events, NEW len \in 0..1, Callback(event, len)
      PROVE  OpenInv'
  <2>1. CASE event = "stop_sending"
    BY <1>0, <1>1, <2>1 DEF Callback, CloseSendData
  <2>2. CASE event # "stop_sending"
    <3>1. UNCHANGED <<active, swap_to, created, control_msg, chan>>
      BY <1>1, <2>2 DEF Callback
    <3>2. DataStays
      BY <1>1, <3>1 DEF Callback, DataStays, Front, localVars
    <3>3. QED
      BY <1>d, <3>1, <3>2, OpenKept
  <2>3. QED
    BY <2>1, <2>2
<1>2. ASSUME NEW m \in PacketSizes, PrepareToSend(m) PROVE OpenInv'
  <2>1. UNCHANGED <<active, swap_to, created, control_msg, chan>>
    BY <1>2 DEF PrepareToSend
  <2>2. QED
    BY <1>2, <1>d, <2>1, DataOfQuic, OpenKept
<1>3. CASE CollectBuffer
  <2>1. DataIsTaken
    BY <1>3, DataOfQuic
  <2>2. /\ UNCHANGED <<created, control_msg>>
        /\ active' = PollTarget /\ swap_to' = SwapToAfterSwap
    BY <1>3 DEF CollectBuffer
  <2>3. AllCovered => AllCovered'
    BY <2>1, CoverTake, CoverKept DEF DataIsTaken
  <2>4. QED
    BY <2>1, <2>2, <2>3, TakeOpen, OpenSwap
<1>4. CASE ProvideData
  <2>1. UNCHANGED <<created, control_msg>> /\ DataStays
    BY <1>4, DataOfQuic DEF ProvideData
  <2>2. CASE UNCHANGED <<chan, dataVars>>
    BY <1>d, <2>1, <2>2, OpenKept
  <2>3. CASE /\ active # 0 /\ chan' = ChanAfterSwap
             /\ active' = PollTarget /\ swap_to' = SwapToAfterSwap
    BY <1>d, <2>1, <2>3, OpenSwap
  <2>4. QED
    BY <1>4, <2>2, <2>3 DEF ProvideData
<1>5. CASE CopyBuffer
  <2>1. UNCHANGED <<active, swap_to, created, control_msg, chan, accepted>>
    BY <1>5 DEF CopyBuffer
  <2>2. QED
    BY <1>5, <2>1, CoverCopy, CoverKept, OpenKept
<1>6. CASE LocalClose
  <2>1. UNCHANGED <<active, swap_to, created, control_msg, chan>>
    BY <1>6 DEF LocalClose
  <2>2. DataStays
    BY <1>6 DEF LocalClose, DataStays, Front, localVars
  <2>3. QED
    BY <1>d, <2>1, <2>2, OpenKept
<1>7. ASSUME NEW err, CloseCallback(err) PROVE OpenInv'
  <2>1. UNCHANGED <<active, swap_to, created, control_msg>>
    BY <1>7 DEF CloseCallback
  <2>2. \A k \in Channels : chan'[k].queue = chan[k].queue
                            /\ chan'[k].open = chan[k].open
    BY <1>7, <1>t DEF CloseCallback, PropagateError, ChannelRecords
  <2>3. DataStays
    BY <1>7, <2>2 DEF CloseCallback, DataStays, Front, localVars
  <2>4. QED
    BY <1>d, <2>1, <2>2, <2>3, OpenKept
<1>8. CASE ConnectionDropped
  BY <1>0, <1>8 DEF ConnectionDropped, DropContext
<1>9. QED
  BY <1>1, <1>2, <1>3, <1>4, <1>5, <1>6, <1>7, <1>8 DEF Quic, SendData

LEMMA OpenStep == DataInv /\ OneResizeAtATime /\ OpenInv /\ [Next]_vars => OpenInv'
<1> SUFFICES ASSUME DataInv, OneResizeAtATime, OpenInv, [Next]_vars
             PROVE  OpenInv'
  OBVIOUS
<1>1. CASE UNCHANGED vars
  <2>1. DataStays /\ UNCHANGED <<active, swap_to, created, control_msg, chan>>
    BY <1>1 DEF vars, DataStays, Front, handleVars, chanVars, localVars,
       quicVars, dataVars, msgVars
  <2>2. AllCovered => AllCovered'
    BY <2>1, CoverStays, CoverKept DEF DataStays
  <2>3. QED
    BY <2>1, <2>2, OpenKept
<1>2. QED
  BY <1>1, OpenApp, OpenPoll, OpenQuic DEF Next

LEMMA OpenInit == Init => OpenInv /\ PrefixInv /\ OverInv
<1> SUFFICES ASSUME Init PROVE OpenInv /\ PrefixInv /\ OverInv
  OBVIOUS
<1>t. 1 \in Channels /\ Channels \subseteq Nat
  BY StreamAssumptions DEF Channels
<1>1. /\ sender = IF HasSendChannel(id, is_client_con) THEN 1 ELSE 0
      /\ created = 1 /\ active = sender /\ accepted = 0 /\ pc = "idle"
      /\ chan = [k \in Channels |-> NewChannel(DefaultSize)]
      /\ active_buffer = <<>> /\ ~reset_called
      /\ stop_sending_or_fin_sent = ~HasSendChannel(id, is_client_con)
  BY DEF Init, StreamNew, ContextNew
<1>2. AllCovered
  BY <1>1 DEF AllCovered
<1>3. Front = <<>>
  BY <1>1 DEF Front
<1>4. QueuesEmpty /\ \A k \in Channels : chan[k].open
  BY <1>1 DEF QueuesEmpty, NewChannel
<1>5. OpenInv
  BY <1>t, <1>1, <1>2, <1>4 DEF OpenInv
<1>6. PrefixInv
  BY <1>3 DEF PrefixInv
<1>7. OverInv
  BY <1>1, <1>2, <1>3, <1>4 DEF OverInv
<1>8. QED
  BY <1>5, <1>6, <1>7

(* When the SwappableStream ends, every sender is gone, the one of the     *)
(* handle and those in the messages, and the last channel is drained.      *)
LEMMA NoneMeansOver ==
  ASSUME DataInv, OpenInv, active # 0, PollIsNone
  PROVE  sender = 0 /\ QueuesEmpty
<1> USE DEF DataInv
<1>t. /\ active \in Nat /\ swap_to \in Nat /\ created \in Nat /\ sender \in Nat
      /\ active \in Channels /\ (swap_to # 0 => swap_to \in Channels)
      /\ MaxChannels \in Nat /\ created <= MaxChannels
      /\ Channels = 1..MaxChannels
  BY PlaceTypes DEF Channels
<1>1. PICK t \in Channels :
        /\ t = PollTarget /\ chan[t].queue = <<>>
        /\ ~SenderAlive(t) \/ ~chan[t].open
        /\ (Swaps /\ t = swap_to /\ chan[active].queue = <<>>) \/ (~Swaps /\ t = active)
  BY <1>t DEF PollIsNone, PollTarget, Swaps, Exhausted
<1>2. /\ active <= created /\ swap_to <= created /\ sender \in {0, created}
      /\ swap_to # 0 => active < swap_to
  BY DEF PlaceInv, ReceiversInOrder
<1>3. /\ active <= t /\ t <= created
      /\ ~Swaps => swap_to = 0
  <2>1. t \in {active, swap_to} /\ (t = swap_to => active < t)
    BY <1>t, <1>1, <1>2 DEF Swaps
  <2>2. ~Swaps => swap_to = 0
    BY <1>1 DEF PollIsNone, Swaps
  <2>3. QED
    BY <1>t, <1>2, <2>1, <2>2
<1>4. ~SenderAlive(t)
  BY <1>1, <1>3 DEF OpenInv
<1>5. ASSUME NEW i \in DOMAIN control_msg, control_msg[i].receiver # 0
      PROVE  /\ control_msg[i] = SwapSendData(control_msg[i].receiver)
             /\ t < control_msg[i].receiver /\ control_msg[i].receiver <= created
  BY <1>1, <1>5 DEF PlaceInv, MessagesInOrder, ResetMsg
<1>6. t = created
  <2> SUFFICES ASSUME t # created PROVE FALSE
    OBVIOUS
  <2> DEFINE k == t + 1
  <2>1. k \in Channels /\ active < k /\ k <= created
    BY <1>t, <1>1, <1>3
  <2>2. Held(k)
    BY <2>1 DEF OpenInv
  <2>3. k \notin {active, swap_to}
    BY <1>t, <1>1, <1>3, <2>1
  <2>4. PICK i \in DOMAIN control_msg : control_msg[i].receiver = k
    BY <2>2, <2>3 DEF Held
  <2>5. control_msg[i] = SwapSendData(t + 1)
    BY <1>t, <1>5, <2>1, <2>4
  <2>6. QED
    BY <1>4, <2>5 DEF SenderAlive
<1>7. sender = 0
  BY <1>2, <1>4, <1>6 DEF SenderAlive
<1>8. ASSUME NEW k \in Channels PROVE chan[k].queue = <<>>
  <2> SUFFICES ASSUME chan[k].queue # <<>> PROVE FALSE
    OBVIOUS
  <2>1. Held(k)
    BY DEF PlaceInv, DataIsHeld
  <2>2. k \notin {active, swap_to}
    BY <1>t, <1>1, <1>3
  <2>3. PICK i \in DOMAIN control_msg : control_msg[i].receiver = k
    BY <2>1, <2>2 DEF Held
  <2>4. t < k /\ k <= created
    BY <1>t, <1>5, <2>3
  <2>5. QED
    BY <1>t, <1>6, <2>4
<1>9. QED
  BY <1>7, <1>8 DEF QueuesEmpty

LEMMA OverKept ==
  ASSUME OverInv, ~Abandoned' => ~Abandoned, active' = 0 => active = 0,
         stop_sending_or_fin_sent' => stop_sending_or_fin_sent,
         reset_called' => reset_called, accepted' = accepted,
         sender' \in {sender, 0},
         \A k \in Channels : chan'[k].queue \in {chan[k].queue, <<>>},
         (pc' # "write" /\ stop_sending_or_fin_sent) =>
            Front' = <<>> \/ (Front' = Front /\ pc # "write"),
         active' = 0 => (AllCovered => AllCovered')
  PROVE  OverInv'
<1>1. QueuesEmpty => QueuesEmpty'
  BY DEF QueuesEmpty
<1>2. sender = 0 => sender' = 0
  OBVIOUS
<1> SUFFICES ASSUME ~Abandoned'
             PROVE  /\ active' = 0 => sender' = 0 /\ QueuesEmpty' /\ AllCovered'
                    /\ stop_sending_or_fin_sent' =>
                         /\ sender' = 0 /\ QueuesEmpty'
                         /\ pc' # "write" => Front' = <<>>
                    /\ reset_called' => accepted' = 0
  BY DEF OverInv
<1>3. QED
  BY <1>1, <1>2 DEF OverInv

LEMMA OverApp == DataInv /\ FinInv /\ OverInv /\ App => OverInv'
<1> SUFFICES ASSUME DataInv, FinInv, OverInv, App, ~Abandoned' PROVE OverInv'
  BY DEF OverInv
<1> USE DEF DataInv, handleVars, chanVars, msgVars, dataVars, flagVars, quicVars
<1>a. ~Abandoned
  BY HandleSteps, PeerSteps DEF Next, Abandoned
<1>1. CASE (\E n \in ChunkSizes : StartSend(n)) \/ \E n \in SwapSizes : SetSendChannelSize(n)
  <2>1. /\ sender # 0
        /\ UNCHANGED <<active, stop_sending_or_fin_sent, reset_called>>
    BY <1>1 DEF StartSend, SetSendChannelSize
  <2>2. active # 0 /\ ~stop_sending_or_fin_sent /\ ~reset_called
    BY <1>a, <2>1 DEF OverInv, FinInv
  <2>3. QED
    BY <2>1, <2>2 DEF OverInv
<1>2. CASE Reset
  BY <1>2 DEF Reset, Abandoned
<1>3. CASE PollRecv \/ DropStream
  <2>1. /\ UNCHANGED <<active, stop_sending_or_fin_sent, reset_called, pc>>
        /\ sender' \in {sender, 0}
    BY <1>3 DEF PollRecv, DropStream
  <2>2. DataStays
    BY <1>3 DEF PollRecv, DropStream, DataStays, Front, localVars
  <2>3. AllCovered => AllCovered'
    BY <2>2, CoverStays, CoverKept DEF DataStays
  <2>4. stop_sending_or_fin_sent /\ pc' # "write" => Front' = Front /\ pc # "write"
    BY <2>1, <2>2 DEF DataStays
  <2>5. QED
    BY <1>a, <2>1, <2>2, <2>3, <2>4, OverKept DEF DataStays
<1>4. QED
  BY <1>1, <1>2, <1>3 DEF App

(* Nothing changes when the data is drained and what it is drained from is *)
(* dropped.                                                                *)
LEMMA DropWhenEmpty ==
  ASSUME QueuesEmpty, DataIsDropped, Front' = Front
  PROVE  DataStays /\ QueuesEmpty' /\ (AllCovered => AllCovered')
<1>1. DataStays
  BY DEF QueuesEmpty, DataIsDropped, DataStays
<1>2. QED
  BY <1>1, CoverStays, CoverKept DEF DataStays, QueuesEmpty

LEMMA OverPoll == DataInv /\ FinInv /\ OpenInv /\ OverInv /\ Poll => OverInv'
<1> SUFFICES ASSUME DataInv, FinInv, OpenInv, OverInv, Poll, ~Abandoned'
             PROVE  OverInv'
  BY DEF OverInv
<1> USE DEF DataInv, handleVars, chanVars, msgVars, dataVars, flagVars, quicVars,
            peerVars
<1>a. ~Abandoned
  BY HandleSteps, PeerSteps DEF Next, Abandoned
<1>t. /\ chan \in [Channels -> ChannelRecords] /\ 0 \notin Channels
      /\ control_msg \in Seq(ControlMessages) /\ accepted \in Nat
  BY PlaceTypes, OrderTypes
<1>d. DataStays => (AllCovered => AllCovered')
  BY CoverStays, CoverKept DEF DataStays
<1>k. ASSUME DataStays, active' = 0 => active = 0,
             UNCHANGED <<stop_sending_or_fin_sent, reset_called, sender>>,
             pc # "write"
      PROVE  OverInv'
  BY <1>a, <1>d, <1>k, OverKept DEF DataStays
<1>1. CASE PollStart \/ PollControlEnd \/ PollNotReady
  <2>1. /\ UNCHANGED <<active, stop_sending_or_fin_sent, reset_called, sender>>
        /\ pc # "write"
    BY <1>1 DEF PollStart, PollControlEnd, PollNotReady
  <2>2. QED
    BY <1>1, <1>k, <2>1, DataOfPoll
<1>2. CASE PollSendDataIdle
  <2>1. /\ UNCHANGED <<stop_sending_or_fin_sent, reset_called, sender>>
        /\ pc # "write"
    BY <1>2 DEF PollSendDataIdle
  <2>2. active' = 0 => active = 0
    BY <1>2 DEF PollSendDataIdle, PollTarget, Swaps
  <2>3. QED
    BY <1>2, <1>k, <2>1, <2>2, DataOfPoll
<1>3. CASE PollControlReset
  <2>1. 1 \in DOMAIN control_msg /\ control_msg[1] = ResetMsg
    BY <1>3, <1>t DEF PollControlReset
  <2>2. QED
    BY <1>a, <2>1 DEF FinInv, Abandoned
<1>4. CASE PollControlSwap
  <2>1. /\ UNCHANGED <<active, stop_sending_or_fin_sent, reset_called, sender, pc>>
        /\ pc # "write"
    BY <1>4 DEF PollControlSwap
  <2>2. DataIsDropped /\ Front' = Front
    BY <1>4, DataOfPoll
  <2>3. active' = 0 => (AllCovered => AllCovered')
    BY <1>a, <2>1, <2>2, DropWhenEmpty DEF OverInv
  <2>4. QED
    BY <1>a, <2>1, <2>2, <2>3, OverKept DEF DataIsDropped
<1>5. CASE PollSendDataItem
  <2>1. /\ UNCHANGED <<stop_sending_or_fin_sent, reset_called>>
        /\ active' = PollTarget /\ PollHasItem
    BY <1>5 DEF PollSendDataItem
  <2>2. PollTarget \in Channels
    BY <2>1, SwappableFacts DEF TypeInv, PollHasItem
  <2>3. active' # 0 /\ ~QueuesEmpty
    BY <1>t, <2>1, <2>2 DEF PollHasItem, QueuesEmpty
  <2>4. ~stop_sending_or_fin_sent /\ ~reset_called
    BY <1>a, <2>3 DEF OverInv, FinInv
  <2>5. QED
    BY <2>1, <2>3, <2>4 DEF OverInv
<1>6. CASE PollSendDataNone
  <2>1. /\ active # 0 /\ PollIsNone /\ sender' = sender /\ accepted' = accepted
        /\ active_buffer = <<>> /\ pc = "send"
    BY <1>6 DEF PollSendDataNone, PollIsNone, PollTarget, Swaps
  <2>2. sender = 0 /\ QueuesEmpty /\ AllCovered
    BY <2>1, NoneMeansOver DEF OpenInv
  <2>3. DataIsDropped /\ Front' = Front /\ Front = <<>>
    BY <1>6, <2>1, DataOfPoll DEF Front
  <2>4. QueuesEmpty' /\ AllCovered'
    BY <2>2, <2>3, DropWhenEmpty
  <2>5. ASSUME ~reset_called, reset_called' PROVE accepted' = 0
    <3>1. ~data_send
      BY <1>6, <2>5 DEF PollSendDataNone, CarriedNoData
    <3>2. wire = <<>>
      BY <3>1 DEF FinInv
    <3>3. ~Covered(0)
      BY <2>2, <2>3, <3>2, CoversEmpty DEF Covered, OnWire, QueuesEmpty
    <3>4. QED
      BY <1>t, <2>1, <2>2, <3>3 DEF AllCovered
  <2>6. reset_called => accepted' = 0
    BY <1>a, <2>1 DEF OverInv
  <2>7. QED
    BY <2>1, <2>2, <2>3, <2>4, <2>5, <2>6 DEF OverInv
<1>7. CASE PollReady
  <2>1. /\ stop_sending_or_fin_sent /\ pc = "check" /\ DropContext
        /\ UNCHANGED <<reset_called, sender, accepted>>
    BY <1>7 DEF PollReady, BothFinished, DropContext
  <2>2. sender = 0 /\ QueuesEmpty /\ Front = <<>> /\ AllCovered
    BY <1>a, <2>1 DEF OverInv, OpenInv
  <2>3. DataIsDropped
    BY <2>1, DataOfDrop
  <2>4. Front' = <<>>
    BY <2>2, <2>3 DEF DataIsDropped
  <2>5. QueuesEmpty' /\ AllCovered'
    BY <2>2, <2>3, <2>4, DropWhenEmpty
  <2>6. QED
    BY <1>a, <2>1, <2>2, <2>4, <2>5 DEF OverInv
<1>8. QED
  BY <1>1, <1>2, <1>3, <1>4, <1>5, <1>6, <1>7 DEF Poll

LEMMA OverQuic == DataInv /\ FinInv /\ OpenInv /\ OverInv /\ Quic => OverInv'
<1> SUFFICES ASSUME DataInv, FinInv, OpenInv, OverInv, Quic, ~Abandoned'
             PROVE  OverInv'
  BY DEF OverInv
<1> USE DEF DataInv, handleVars, chanVars, msgVars, dataVars, flagVars, quicVars,
            peerVars
<1>a. ~Abandoned
  BY HandleSteps, PeerSteps DEF Next, Abandoned
<1>t. chan \in [Channels -> ChannelRecords] /\ 0 \notin Channels
  BY PlaceTypes
<1>d. DataStays => (AllCovered => AllCovered')
  BY CoverStays, CoverKept DEF DataStays
<1>k. ASSUME DataStays, active' = active,
             UNCHANGED <<stop_sending_or_fin_sent, reset_called, sender>>,
             pc # "write"
      PROVE  OverInv'
  BY <1>a, <1>d, <1>k, OverKept DEF DataStays
<1>1. ASSUME NEW event \in Events, NEW len \in 0..1, Callback(event, len)
      PROVE  OverInv'
  <2>1. CASE event = "stop_sending"
    BY <1>1, <2>1 DEF Callback, Abandoned
  <2>2. CASE event # "stop_sending"
    <3>1. /\ UNCHANGED <<active, chan, stop_sending_or_fin_sent, reset_called, sender>>
          /\ pc # "write"
      BY <1>1, <2>2 DEF Callback
    <3>2. DataStays
      BY <1>1, <3>1 DEF Callback, DataStays, Front, localVars
    <3>3. QED
      BY <1>k, <3>1, <3>2
  <2>3. QED
    BY <2>1, <2>2
<1>2. ASSUME NEW m \in PacketSizes, PrepareToSend(m) PROVE OverInv'
  <2>1. /\ UNCHANGED <<active, stop_sending_or_fin_sent, reset_called, sender>>
        /\ pc # "write"
    BY <1>2 DEF PrepareToSend
  <2>2. QED
    BY <1>2, <1>k, <2>1, DataOfQuic
<1>3. CASE CollectBuffer
  <2>1. /\ UNCHANGED <<stop_sending_or_fin_sent, reset_called>>
        /\ active' = PollTarget /\ PollHasItem
    BY <1>3 DEF CollectBuffer
  <2>2. PollTarget \in Channels
    BY <2>1, SwappableFacts DEF TypeInv, PollHasItem
  <2>3. active' # 0 /\ ~QueuesEmpty
    BY <1>t, <2>1, <2>2 DEF PollHasItem, QueuesEmpty
  <2>4. ~stop_sending_or_fin_sent /\ ~reset_called
    BY <1>a, <2>3 DEF OverInv, FinInv
  <2>5. QED
    BY <2>1, <2>3, <2>4 DEF OverInv
<1>4. CASE ProvideData
  <2>1. /\ UNCHANGED <<reset_called, sender, accepted, active_buffer>>
        /\ stop_sending_or_fin_sent' = Fin /\ pc = "collect"
        /\ pc' = IF buffers = <<>> THEN "idle" ELSE "write"
    BY <1>4 DEF ProvideData
  <2>2. active' = 0 => active = 0
    BY <1>4 DEF ProvideData, PollTarget, Swaps
  <2>3. DataStays
    BY <1>4, DataOfQuic
  <2>4. QueuesEmpty => QueuesEmpty'
    BY <2>3 DEF DataStays, QueuesEmpty
  <2>5. active = 0 => sender = 0 /\ QueuesEmpty /\ AllCovered
    BY <1>a DEF OverInv
  <2>6. Fin => sender = 0 /\ QueuesEmpty
    BY <2>5, NoneMeansOver DEF Fin
  <2>7. pc' # "write" => Front' = <<>>
    BY <2>1 DEF Front, BufferInv
  <2>8. reset_called' => accepted' = 0
    BY <1>a, <2>1 DEF OverInv
  <2>9. active' = 0 => AllCovered'
    BY <1>d, <2>2, <2>3, <2>5
  <2>10. QED
    BY <2>1, <2>2, <2>4, <2>5, <2>6, <2>7, <2>8, <2>9 DEF OverInv
<1>5. CASE CopyBuffer
  <2>1. /\ UNCHANGED <<active, chan, stop_sending_or_fin_sent, reset_called,
                       sender, accepted>>
        /\ pc = "write" /\ buffers' = Tail(buffers)
    BY <1>5 DEF CopyBuffer
  <2>2. AllCovered => AllCovered'
    BY <1>5, <2>1, CoverCopy, CoverKept
  <2>3. ASSUME pc' # "write", stop_sending_or_fin_sent PROVE Front' = <<>>
    <3>1. fin_sent
      BY <2>1, <2>3 DEF FinInv
    <3>2. Front' = Tail(Front)
      BY <1>5, <3>1, CopyMoves
    <3>3. Front = buffers
      BY <2>1 DEF Front
    <3>4. BufferInv' /\ pc' \notin {"collect", "write"}
      BY <1>5, <2>3, BufferStep DEF Next, Quic, SendData, CopyBuffer
    <3>5. QED
      BY <2>1, <3>2, <3>3, <3>4 DEF BufferInv
  <2>4. QED
    BY <1>a, <2>1, <2>2, <2>3, OverKept
<1>6. CASE LocalClose
  BY <1>6 DEF LocalClose, Abandoned
<1>7. ASSUME NEW err, CloseCallback(err) PROVE OverInv'
  BY <1>7 DEF CloseCallback, Abandoned
<1>8. CASE ConnectionDropped
  BY <1>a, <1>8 DEF ConnectionDropped, Abandoned
<1>9. QED
  BY <1>1, <1>2, <1>3, <1>4, <1>5, <1>6, <1>7, <1>8 DEF Quic, SendData

LEMMA OverStep ==
  DataInv /\ FinInv /\ OpenInv /\ OverInv /\ [Next]_vars => OverInv'
<1> SUFFICES ASSUME DataInv, FinInv, OpenInv, OverInv, UNCHANGED vars
             PROVE  OverInv'
  BY OverApp, OverPoll, OverQuic DEF Next
<1>1. /\ UNCHANGED <<active, swap_to, stop_sending_or_fin_sent, reset_called, sender,
                     accepted, chan, pc, reset_requested, peer_stop, conn>>
      /\ DataStays
  BY DEF vars, DataStays, Front, handleVars, chanVars, localVars, quicVars,
     dataVars, flagVars, peerVars
<1>2. AllCovered => AllCovered'
  BY <1>1, CoverStays, CoverKept DEF DataStays
<1>3. ~Abandoned' => ~Abandoned
  BY <1>1 DEF Abandoned
<1>4. QED
  BY <1>1, <1>2, <1>3, OverKept DEF DataStays

(* All of it together.                                                     *)
SendInv ==
  DataInv /\ FlagInv /\ FinInv /\ OpenInv /\ PrefixInv /\ OverInv

LEMMA SendInvariant ==
  /\ Init => SendInv
  /\ SendInv /\ OneResizeAtATime /\ [Next]_vars => SendInv'
<1>1. Init => SendInv
  BY DataInvariant, FlagInit, FinInit, OpenInit DEF SendInv
<1>2. SendInv /\ OneResizeAtATime /\ [Next]_vars => SendInv'
  <2> SUFFICES ASSUME SendInv, OneResizeAtATime, [Next]_vars PROVE SendInv'
    OBVIOUS
  <2>1. DataInv /\ FlagInv /\ FinInv /\ OpenInv /\ PrefixInv /\ OverInv
    BY DEF SendInv
  <2>2. DataInv' /\ FlagInv' /\ FinInv'
    BY <2>1, DataInvariant, FlagStep, FinStep DEF DataInv
  <2>3. OpenInv' /\ PrefixInv' /\ OverInv'
    BY <2>1, OpenStep, PrefixStep, OverStep
  <2>4. QED
    BY <2>2, <2>3 DEF SendInv
<1>3. QED
  BY <1>1, <1>2

(* When nobody gave the stream up, everything that was accepted is on its  *)
(* way, and on the wire once nothing is on its way any more.               *)
LEMMA SendFacts ==
  ASSUME SendInv, ~Abandoned
  PROVE  /\ AllCovered
         /\ stop_sending_or_fin_sent /\ pc # "write" =>
              sender = 0 /\ \A b \in Nat : b < accepted => OnWire(b)
<1>1. AllCovered
  BY DEF SendInv, OverInv, OpenInv
<1>2. ASSUME stop_sending_or_fin_sent, pc # "write", NEW b \in Nat, b < accepted
      PROVE  OnWire(b)
  <2>1. QueuesEmpty /\ Front = <<>>
    BY <1>2 DEF SendInv, OverInv
  <2>2. Covered(b)
    BY <1>1, <1>2 DEF AllCovered
  <2>3. QED
    BY <2>1, <2>2, CoversEmpty DEF Covered, QueuesEmpty
<1>3. QED
  BY <1>1, <1>2 DEF SendInv, OverInv

LEMMA SendProperties ==
  SendInv => NoAcceptedDataLost /\ FinCompletesTheStream /\ ResetOnlyWithoutData
<1> SUFFICES ASSUME SendInv
             PROVE  NoAcceptedDataLost /\ FinCompletesTheStream /\ ResetOnlyWithoutData
  OBVIOUS
<1>t. accepted \in Nat
  BY OrderTypes DEF SendInv, DataInv
<1>1. NoAcceptedDataLost
  <2> SUFFICES ASSUME ~Abandoned, NEW b \in 0..(accepted - 1)
               PROVE  OnWire(b) \/ (pc # "gone" /\ InPipeline(b))
    BY DEF NoAcceptedDataLost
  <2>1. b \in Nat /\ b < accepted
    BY <1>t
  <2>2. CASE pc = "gone"
    <3>1. stop_sending_or_fin_sent
      BY <2>2 DEF SendInv, FlagInv, Abandoned, BothFinished
    <3>2. QED
      BY <2>1, <2>2, <3>1, SendFacts
  <2>3. CASE pc # "gone"
    <3>1. Covered(b)
      BY <2>1, SendFacts DEF AllCovered
    <3>2. Covers(Front, b) => Covers(buffers, b) \/ Covers(active_buffer, b)
      BY DEF Front
    <3>3. QED
      BY <2>3, <3>1, <3>2 DEF Covered, InPipeline
  <2>4. QED
    BY <2>2, <2>3
<1>2. FinCompletesTheStream
  <2> SUFFICES ASSUME fin_sent, pc # "write", ~Abandoned
               PROVE  sender = 0 /\ \A b \in 0..(accepted - 1) : OnWire(b)
    BY DEF FinCompletesTheStream
  <2>1. stop_sending_or_fin_sent
    BY DEF SendInv, FinInv
  <2>2. sender = 0 /\ \A b \in Nat : b < accepted => OnWire(b)
    BY <2>1, SendFacts
  <2>3. QED
    BY <1>t, <2>2
<1>3. ResetOnlyWithoutData
  BY DEF SendInv, OverInv, ResetOnlyWithoutData
<1>4. QED
  BY <1>1, <1>2, <1>3

(* As long as a resize finds the one before it finished, no byte that      *)
(* start_send accepted is lost by a poll, a swap, a drop of the handle or  *)
(* the end of the Context, for any number of resizes.                      *)
THEOREM AcceptedDataIsKept ==
  Spec /\ []OneResizeAtATime => []NoAcceptedDataLost
BY SendInvariant, SendProperties, PTL DEF Spec

(* As long as a resize finds the one before it finished, picoquic is told  *)
(* `fin` only when the sender is gone, with or after the last of the bytes *)
(* that start_send accepted.                                               *)
THEOREM FinAlwaysComplete ==
  Spec /\ []OneResizeAtATime => []FinCompletesTheStream
BY SendInvariant, SendProperties, PTL DEF Spec

(* As long as a resize finds the one before it finished, dropping the      *)
(* handle resets a stream only if start_send never accepted a byte on it.  *)
THEOREM ResetNeverLosesData ==
  Spec /\ []OneResizeAtATime => []ResetOnlyWithoutData
BY SendInvariant, SendProperties, PTL DEF Spec

(* A stream that is resized at most once needs no hypothesis: its one      *)
(* resize finds nothing waiting.                                           *)
LEMMA OneResizeIsEnough ==
  MaxChannels <= 2 /\ DataInv => OneResizeAtATime
<1> SUFFICES ASSUME MaxChannels <= 2, DataInv, swap_to # 0,
                    NEW i \in DOMAIN control_msg, control_msg[i].receiver # 0
             PROVE  FALSE
  BY DEF OneResizeAtATime
<1>1. /\ active \in Nat /\ swap_to \in Nat /\ created \in Nat
      /\ created <= MaxChannels /\ MaxChannels \in Nat
      /\ control_msg[i].receiver \in Nat
  BY PlaceTypes DEF DataInv
<1>2. /\ swap_to < control_msg[i].receiver /\ control_msg[i].receiver <= created
      /\ active # 0 /\ active < swap_to
  BY DEF DataInv, PlaceInv, MessagesInOrder, ReceiversInOrder, ResetMsg
<1>3. QED
  BY <1>1, <1>2

(* A stream that is resized at most once loses no accepted byte, sends its *)
(* FIN behind all of them and is reset on drop only when there were none,  *)
(* whatever the application, the peer and the event loop do.               *)
THEOREM ResizedOnceKeepsAll ==
  ASSUME MaxChannels <= 2
  PROVE  Spec => [](NoAcceptedDataLost /\ FinCompletesTheStream
                    /\ ResetOnlyWithoutData)
<1>1. DataInv => OneResizeAtATime
  BY OneResizeIsEnough
<1>2. SendInv => OneResizeAtATime
  BY <1>1 DEF SendInv
<1>3. QED
  BY <1>2, SendInvariant, SendProperties, PTL DEF Spec

------------------------------------------------------------------------------
(* The refinement of BytePipe. *)

LEMMA OutcomeFacts ==
  /\ Abandoned => PipeOutcome = "aborted"
  /\ ~Abandoned /\ SendingIsOver => PipeOutcome = "finished"
  /\ ~Abandoned /\ ~SendingIsOver => PipeOutcome = "open"
BY Zenon DEF PipeOutcome

LEMMA OutcomeNextFacts ==
  /\ Abandoned' => PipeOutcome' = "aborted"
  /\ ~Abandoned' /\ SendingIsOver' => PipeOutcome' = "finished"
  /\ ~Abandoned' /\ ~SendingIsOver' => PipeOutcome' = "open"
BY Zenon DEF PipeOutcome

(* The last position on the wire bounds everything that is on it.          *)
LEMMA DeliveredFacts ==
  ASSUME TypeInv, WireInOrder
  PROVE  /\ Pipe!Delivered(wire) \in Nat /\ Pipe!Delivered(wire) <= accepted
         /\ \A b \in Nat : OnWire(b) => b < Pipe!Delivered(wire)
<1>t. wire \in Seq(Ranges) /\ accepted \in Nat
  BY OrderTypes
<1>1. CASE wire = <<>>
  <2>1. Pipe!Delivered(wire) = 0
    BY <1>1 DEF Pipe!Delivered
  <2>2. QED
    BY <1>t, <1>1, <2>1, CoversEmpty DEF OnWire
<1>2. CASE wire # <<>>
  <2> DEFINE n == Len(wire)
  <2>1. n \in DOMAIN wire /\ n \in Nat
    BY <1>t, <1>2
  <2>2. Pipe!Delivered(wire) = wire[n].hi
    BY <1>2 DEF Pipe!Delivered
  <2>3. \A i \in DOMAIN wire : wire[i].lo \in Nat /\ wire[i].hi \in Nat
    BY <1>t DEF Ranges
  <2>4. ASSUME NEW i \in DOMAIN wire PROVE wire[i].hi <= wire[n].hi
    <3>1. i = n \/ i < n
      BY <1>t
    <3>2. CASE i = n
      BY <2>1, <2>3, <3>2
    <3>3. CASE i < n
      <4>1. wire[i].hi <= wire[n].lo /\ wire[n].lo < wire[n].hi
        BY <2>1, <3>3 DEF WireInOrder
      <4>2. QED
        BY <2>1, <2>3, <4>1
    <3>4. QED
      BY <3>1, <3>2, <3>3
  <2>5. ASSUME NEW b \in Nat, OnWire(b) PROVE b < wire[n].hi
    <3>1. PICK i \in DOMAIN wire : b < wire[i].hi
      BY <2>5 DEF OnWire, Covers
    <3>2. QED
      BY <2>1, <2>3, <2>4, <3>1
  <2>6. QED
    BY <2>1, <2>2, <2>3, <2>5 DEF WireInOrder
<1>3. QED
  BY <1>1, <1>2

(* When all the accepted bytes are on the wire, the last one is the last.  *)
LEMMA DeliveredAll ==
  ASSUME TypeInv, WireInOrder, \A b \in Nat : b < accepted => OnWire(b)
  PROVE  Pipe!Delivered(wire) = accepted
<1> DEFINE d == Pipe!Delivered(wire)
<1>1. d \in Nat /\ d <= accepted /\ ~OnWire(d) /\ accepted \in Nat
  BY DeliveredFacts, OrderTypes
<1>2. QED
  BY <1>1

(* What follows on the wire is what the Context has in front.              *)
LEMMA FrontFollows ==
  ASSUME DataInv, PrefixInv, Front # <<>>
  PROVE  Head(Front).lo = Pipe!Delivered(wire)
<1> USE DEF DataInv
<1>t. Front \in Seq(Ranges) /\ wire \in Seq(Ranges) /\ MaxChannels \in Nat
  BY OrderTypes
<1>1. PICK d \in Nat : /\ d = Pipe!Delivered(wire)
                       /\ \A b \in Nat : OnWire(b) => b < d
  BY DataInOrder, DeliveredFacts
<1>2. /\ 1 \in DOMAIN Front /\ Front[1] = Head(Front)
      /\ \A i \in DOMAIN Front : /\ Front[i].lo \in Nat /\ Front[i].hi \in Nat
                                 /\ Front[i].lo <= Front[i].hi
                                 /\ i \in Nat /\ i >= 1
  BY <1>t DEF Ranges
<1>3. PICK c : CutsBytes(c)
  BY DEF OrderInv
<1>4. c[0] \in Nat /\ Within(wire, 0, c[0]) /\ Within(Front, c[0], c[1])
  BY <1>t, <1>3 DEF CutsBytes
<1>5. d <= c[0]
  <2>1. CASE wire = <<>>
    BY <1>1, <1>4, <2>1 DEF Pipe!Delivered
  <2>2. CASE wire # <<>>
    <3>1. Len(wire) \in DOMAIN wire
      BY <1>t, <2>2
    <3>2. QED
      BY <1>1, <1>4, <2>2, <3>1 DEF Pipe!Delivered, Within
  <2>3. QED
    BY <2>1, <2>2
<1>6. c[0] <= Front[1].lo
  BY <1>2, <1>4 DEF Within
<1>7. ~(d < Front[1].lo)
  <2> SUFFICES ASSUME d < Front[1].lo PROVE FALSE
    OBVIOUS
  <2>1. ~OnWire(d)
    BY <1>1
  <2>2. Covers(Front, d)
    BY <1>2, <2>1 DEF PrefixInv
  <2>3. PICK i \in DOMAIN Front : Front[i].lo <= d
    BY <2>2 DEF Covers
  <2>4. i # 1 => Front[1].hi <= Front[i].lo
    BY <1>2, <1>4 DEF Within
  <2>5. QED
    BY <1>2, <2>3, <2>4
<1>8. QED
  BY <1>1, <1>2, <1>4, <1>5, <1>6, <1>7

(* The sending side stays over.                                            *)
LEMMA OverIsStable ==
  ASSUME FinInv, [Next]_vars, SendingIsOver
  PROVE  SendingIsOver'
<1> USE DEF quicVars, localVars
<1>h. ASSUME fin_sent' = fin_sent, reset_called => reset_called',
             pc' = "write" => pc = "write"
      PROVE  SendingIsOver'
  BY <1>h DEF SendingIsOver
<1>1. CASE App
  <2>1. UNCHANGED <<fin_sent, reset_called, pc>>
    BY <1>1 DEF App, StartSend, SetSendChannelSize, Reset, PollRecv, DropStream
  <2>2. QED
    BY <1>h, <2>1
<1>2. CASE Poll
  <2>1. fin_sent' = fin_sent /\ (reset_called => reset_called')
    BY <1>2 DEF Poll, PollStart, PollControlReset, PollControlSwap,
       PollControlEnd, PollSendDataItem, PollSendDataNone, PollSendDataIdle,
       PollNotReady, PollReady, DropContext, ContextReset
  <2>2. pc' # "write"
    BY <1>2 DEF Poll, PollStart, PollControlReset, PollControlSwap,
       PollControlEnd, PollSendDataItem, PollSendDataNone, PollSendDataIdle,
       PollNotReady, PollReady, DropContext
  <2>3. QED
    BY <1>h, <2>1, <2>2
<1>3. CASE Quic
  <2>1. CASE ProvideData
    BY <2>1 DEF ProvideData, FinInv, SendingIsOver
  <2>2. ASSUME NEW event, NEW len, Callback(event, len) PROVE SendingIsOver'
    BY <1>h, <2>2 DEF Callback
  <2>3. ASSUME NEW m, PrepareToSend(m) PROVE SendingIsOver'
    BY <1>h, <2>3 DEF PrepareToSend
  <2>4. CASE CollectBuffer \/ CopyBuffer
    BY <1>h, <2>4 DEF CollectBuffer, CopyBuffer
  <2>5. ASSUME NEW err, CloseCallback(err) PROVE SendingIsOver'
    BY <1>h, <2>5 DEF CloseCallback
  <2>6. CASE LocalClose \/ ConnectionDropped
    BY <1>h, <2>6 DEF LocalClose, ConnectionDropped, DropContext
  <2>7. QED
    BY <1>3, <2>1, <2>2, <2>3, <2>4, <2>5, <2>6 DEF Quic, SendData
<1>4. CASE UNCHANGED vars
  BY <1>h, <1>4 DEF vars
<1>5. QED
  BY <1>1, <1>2, <1>3, <1>4 DEF Next

(* When the sending side is over and was not given up, all is delivered.   *)
LEMMA OverMeansDelivered ==
  ASSUME SendInv, ~Abandoned, SendingIsOver
  PROVE  Pipe!Delivered(wire) = accepted
<1>1. stop_sending_or_fin_sent /\ pc # "write"
  BY DEF SendInv, FinInv, SendingIsOver
<1>2. QED
  BY <1>1, SendFacts, DataInOrder, DeliveredAll DEF SendInv, DataInv

LEMMA SubSeqOfAppend ==
  ASSUME NEW seq \in Seq(Ranges), NEW e \in Ranges
  PROVE  /\ Append(seq, e) \in Seq(Ranges)
         /\ Len(Append(seq, e)) = Len(seq) + 1
         /\ SubSeq(Append(seq, e), 1, Len(seq)) = seq
         /\ Append(seq, e)[Len(seq) + 1] = e
OBVIOUS

LEMMA PipeStep ==
  SendInv /\ SendInv' /\ [Next]_vars => [Pipe!Next]_(Pipe!vars)
<1> SUFFICES ASSUME SendInv, SendInv', [Next]_vars
             PROVE  Pipe!Next \/ UNCHANGED <<accepted, wire, PipeOutcome>>
  BY DEF Pipe!vars
<1> USE DEF SendInv, DataInv
<1>t. wire \in Seq(Ranges) /\ accepted \in Nat /\ wire' \in Seq(Ranges)
      /\ accepted' \in Nat
  <2>1. TypeInv'
    OBVIOUS
  <2>2. wire' \in Seq(Ranges) /\ accepted' \in Nat
    BY <2>1 DEF TypeInv, TypeOK
  <2>3. QED
    BY <2>2, OrderTypes
<1>a. Abandoned => Abandoned'
  BY HandleSteps, PeerSteps DEF Abandoned
<1>d. ~Abandoned' /\ SendingIsOver' => Pipe!Delivered(wire') = accepted'
  <2>1. (SendInv /\ ~Abandoned /\ SendingIsOver => Pipe!Delivered(wire) = accepted)'
    BY OverMeansDelivered, PTL
  <2>2. QED
    BY <2>1 DEF Pipe!Delivered
<1>1. ASSUME NEW n \in ChunkSizes, StartSend(n) PROVE Pipe!Put
  <2>1. /\ wire' = wire /\ accepted' = accepted + n /\ n \in Nat /\ sender # 0
        /\ UNCHANGED <<pc, fin_sent, reset_called, reset_requested, peer_stop, conn>>
    BY <1>1, StreamAssumptions DEF StartSend, quicVars, peerVars
  <2>2. (Abandoned' <=> Abandoned) /\ (SendingIsOver' <=> SendingIsOver)
    BY <2>1 DEF Abandoned, SendingIsOver
  <2>3. PipeOutcome' = PipeOutcome
    BY <2>2, OutcomeFacts, OutcomeNextFacts
  <2>4. ~Abandoned => ~SendingIsOver
    BY <2>1 DEF OverInv, FinInv, SendingIsOver
  <2>5. PipeOutcome # "finished"
    BY <2>4, OutcomeFacts
  <2>6. QED
    BY <1>t, <2>1, <2>3, <2>5 DEF Pipe!Put
<1>2. ASSUME CopyBuffer, wire' # wire PROVE Pipe!Get
  <2>1. /\ UNCHANGED <<accepted, reset_called, fin_sent, reset_requested, peer_stop,
                       conn>>
        /\ pc = "write"
    BY <1>2 DEF CopyBuffer, handleVars, peerVars
  <2>2. ~SendingIsOver /\ (Abandoned' <=> Abandoned)
    BY <2>1 DEF FinInv, SendingIsOver, Abandoned
  <2>3. PipeOutcome # "finished"
    BY <2>2, OutcomeFacts
  <2>4. \/ PipeOutcome' = PipeOutcome
        \/ /\ PipeOutcome = "open" /\ PipeOutcome' = "finished"
           /\ Pipe!Delivered(wire') = accepted
    <3>1. CASE Abandoned \/ ~SendingIsOver'
      BY <2>2, <3>1, OutcomeFacts, OutcomeNextFacts
    <3>2. CASE ~Abandoned /\ SendingIsOver'
      BY <1>d, <2>1, <2>2, <3>2, OutcomeFacts, OutcomeNextFacts
    <3>3. QED
      BY <3>1, <3>2
  <2>5. PICK m \in Nat :
          /\ Front # <<>> /\ Head(Front) \in Ranges
          /\ wire' = IF m > 0
                     THEN Append(wire, [lo |-> Head(Front).lo,
                                        hi |-> Head(Front).lo + m])
                     ELSE wire
    BY <1>2, CopyMoves
  <2>6. PICK new \in Ranges :
          /\ wire' = Append(wire, new) /\ new.lo = Head(Front).lo
    <3>1. /\ wire' = Append(wire, [lo |-> Head(Front).lo, hi |-> Head(Front).lo + m])
          /\ Head(Front).lo \in Nat
      BY <1>2, <2>5 DEF Ranges
    <3>2. [lo |-> Head(Front).lo, hi |-> Head(Front).lo + m] \in Ranges
      BY <3>1 DEF Ranges
    <3>3. QED
      BY <3>1, <3>2
  <2>7. /\ Len(wire') = Len(wire) + 1 /\ SubSeq(wire', 1, Len(wire)) = wire
        /\ wire'[Len(wire')] = new /\ Len(wire') \in DOMAIN wire'
    BY <1>t, <2>6, SubSeqOfAppend
  <2>8. new.lo = Pipe!Delivered(wire)
    BY <2>5, <2>6, FrontFollows
  <2>9. new.lo < new.hi /\ new.hi <= accepted
    <3>1. WireInOrder'
      <4>1. (DataInv => WireInOrder)'
        BY DataInOrder, PTL
      <4>2. QED
        BY <4>1
    <3>2. QED
      BY <2>1, <2>7, <3>1 DEF WireInOrder
  <2>10. QED
    BY <2>1, <2>3, <2>4, <2>7, <2>8, <2>9 DEF Pipe!Get
<1>3. ASSUME accepted' = accepted, wire' = wire
      PROVE  Pipe!Abort \/ Pipe!Finish \/ PipeOutcome' = PipeOutcome
  <2>1. CASE Abandoned'
    BY <1>3, <2>1, OutcomeNextFacts DEF Pipe!Abort
  <2>2. CASE ~Abandoned'
    <3>1. SendingIsOver => SendingIsOver'
      BY OverIsStable
    <3>2. CASE SendingIsOver' <=> SendingIsOver
      BY <1>a, <2>2, <3>2, OutcomeFacts, OutcomeNextFacts
    <3>3. CASE ~SendingIsOver /\ SendingIsOver'
      <4>1. PipeOutcome = "open" /\ PipeOutcome' = "finished"
        BY <1>a, <2>2, <3>3, OutcomeFacts, OutcomeNextFacts
      <4>2. Pipe!Delivered(wire) = accepted
        BY <1>3, <1>d, <2>2, <3>3
      <4>3. QED
        BY <1>3, <4>1, <4>2 DEF Pipe!Finish
    <3>4. QED
      BY <3>1, <3>2, <3>3
  <2>3. QED
    BY <2>1, <2>2
<1>4. \/ \E n \in ChunkSizes : StartSend(n)
      \/ CopyBuffer
      \/ accepted' = accepted /\ wire' = wire
  <2>1. DataStays \/ DataIsDropped \/ DataIsTaken =>
          accepted' = accepted /\ wire' = wire
    BY DEF DataStays, DataIsDropped, DataIsTaken
  <2>2. CASE UNCHANGED vars
    BY <2>2 DEF vars, handleVars, quicVars
  <2>3. QED
    BY <2>1, <2>2, DataOfApp, DataOfPoll, DataOfQuic DEF Next
<1>5. CopyBuffer => accepted' = accepted
  BY DEF CopyBuffer, handleVars
<1>6. QED
  BY <1>1, <1>2, <1>3, <1>4, <1>5 DEF Pipe!Next

(* The sending side implements BytePipe as long as no resize overtakes     *)
(* another: what start_send takes comes out in order, without a gap, and   *)
(* the stream is finished only when all of it has.                         *)
THEOREM SendingSideIsAPipe == Spec /\ []OneResizeAtATime => ImplementsPipe
<1>1. Init => Pipe!Init
  <2> SUFFICES ASSUME Init PROVE Pipe!Init
    OBVIOUS
  <2>1. /\ accepted = 0 /\ wire = <<>> /\ ~fin_sent /\ ~reset_called
        /\ ~reset_requested /\ ~peer_stop /\ conn = "open"
    BY DEF Init, StreamNew
  <2>2. ~Abandoned /\ ~SendingIsOver
    BY <2>1 DEF Abandoned, SendingIsOver
  <2>3. QED
    BY <2>1, <2>2, OutcomeFacts DEF Pipe!Init
<1>2. QED
  BY <1>1, PipeStep, SendInvariant, PTL DEF Spec, ImplementsPipe, Pipe!Spec

(* The sending side of a stream that is resized at most once implements    *)
(* BytePipe, whatever the application, the peer and the event loop do.     *)
THEOREM ResizedOnceIsAPipe ==
  ASSUME MaxChannels <= 2 PROVE Spec => ImplementsPipe
<1>1. SendInv => OneResizeAtATime
  BY OneResizeIsEnough DEF SendInv
<1>2. Spec => []OneResizeAtATime
  BY <1>1, SendInvariant, PTL DEF Spec
<1>3. QED
  BY <1>2, SendingSideIsAPipe, PTL
==============================================================================
