------------------------------ MODULE StreamIds ------------------------------
(***************************************************************************)
(* Stream identifiers (src/src/ffi/connection.rs generate_stream_id and    *)
(* the predicates at the end of src/src/stream.rs).  The two low bits of   *)
(* an id carry the initiator (bit 0, set for the server) and the direction *)
(* (bit 1, set for a unidirectional stream); the rest is the counter of    *)
(* the connection plus one.                                                *)
(***************************************************************************)
EXTENDS Integers

(* `id & 2 != 0` *)
is_unidirectional(id) == (id \div 2) % 2 = 1

(* `id & 1 == 0` *)
is_client_initiated(id) == id % 2 = 0

(* Is this endpoint the sending side of the unidirectional stream `id`? *)
is_unidirectional_send_allowed(id, is_client_con) ==
  IF is_client_initiated(id) THEN is_client_con ELSE ~is_client_con

(* create_send_and_recv_data returns a channel, and not (None, None). *)
HasSendChannel(id, is_client_con) ==
  ~(is_unidirectional(id) /\ ~is_unidirectional_send_allowed(id, is_client_con))

(* The initial value of Context.fin_received_or_recv_msg_dropped: this     *)
(* endpoint never receives on the stream.                                  *)
NeverReceives(id, is_client_con) ==
  is_unidirectional(id) /\ is_unidirectional_send_allowed(id, is_client_con)

(* Connection::generate_stream_id: `(next_id + 1) << 2`, then the two bits. *)
(* The u64 does not overflow: a connection would have to open 2^62 streams. *)
ReusedId(next_id, is_client, stype) ==  \* mutant of generate_stream_id
  4 * ((next_id \div 2) + 1) + (IF is_client THEN 0 ELSE 1)
    + (IF stype = "Unidirectional" THEN 2 ELSE 0)
generate_stream_id(next_id, is_client, stype) ==
  4 * (next_id + 1) + (IF is_client THEN 0 ELSE 1)
    + (IF stype = "Unidirectional" THEN 2 ELSE 0)

StreamTypes == {"Unidirectional", "Bidirectional"}
==============================================================================
