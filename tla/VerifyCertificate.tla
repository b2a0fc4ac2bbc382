-------------------------- MODULE VerifyCertificate --------------------------
(***************************************************************************)
(* The certificate callbacks of src/src/ffi/verify_certificate.rs during   *)
(* the handshakes of several connections.  One boxed handler is lent to    *)
(* every handshake through a raw pointer; each accepted certificate leaves *)
(* a boxed public key behind another raw pointer, for the callback that    *)
(* checks the peer's signature.  Boxes live at addresses, and an address   *)
(* that was freed may be given out again.  What the certificates, the      *)
(* handler and OpenSSL answer are inputs; picotls, which calls the         *)
(* callbacks, is external: it calls verify_sign once with the signed data  *)
(* and the peer's signature, whatever that is, or once with empty          *)
(* arguments when a connection goes before that.                           *)
(***************************************************************************)
EXTENDS Naturals, FiniteSets, Sequences

CONSTANTS
  Connections, Addresses,
  MaxCerts  \* bound: certificates that a peer presents

None == "none"            \* the null pointer
Unchecked == "unchecked"  \* accepted without a look at the key

ASSUME VerifyCertificateAssumptions ==
  /\ IsFiniteSet(Addresses) /\ IsFiniteSet(Connections)
  /\ Cardinality(Addresses) >= Cardinality(Connections)
  /\ {None, Unchecked} \cap (Addresses \cup Connections) = {}
  /\ MaxCerts \in Nat

(* What a peer presents: certificates that X509::from_der takes or not.    *)
Chains == UNION {[1..n -> {"der", "garbage"}] : n \in 0..MaxCerts}

(* What handler.verify returns.  "empty" is an ErrorStack with no error.   *)
Errors == {"OUT_OF_MEM", "CERT_REVOKED", "CERT_HAS_EXPIRED", "other", "empty"}
Answers == {"true", "false"} \cup Errors

(* What verify_sign_callback makes of the signature.  An empty one, or one *)
(* of no data, is answered with 0 before a Verifier is made.               *)
Signatures == {"valid", "empty", "invalid", "library error"}

VARIABLES
  quic,        \* does the picoquic context exist?
  handler,     \* is there a boxed handler at verify_certificate_ctx?
  heap,        \* the key at every address: of a connection, or None
  state,       \* a handshake: "start", "verify", "accepted", an error, "gone"
  verify_sign, \* verify_sign_ctx of a connection, None without a callback
  approved,    \* connections for which the handler answered Ok(true)
  signed,      \* the key that the accepted signature was checked against
  bad_free     \* was a box used or freed that was not there?

vars == <<quic, handler, heap, state, verify_sign, approved, signed, bad_free>>

(* setup_callback *)
Init ==
  /\ quic = TRUE /\ handler = TRUE
  /\ heap = [a \in Addresses |-> None]
  /\ state = [c \in Connections |-> "start"]
  /\ verify_sign = [c \in Connections |-> None]
  /\ approved = {} /\ signed = [c \in Connections |-> None]
  /\ bad_free = FALSE

------------------------------------------------------------------------------
NoErrorIsZero(err) ==  \* mutant of ssl_error_to_error_code
  IF err = "empty" THEN "0" ELSE "ALERT_CERTIFICATE_UNKNOWN"
ssl_error_to_error_code(err) ==
  CASE err = "OUT_OF_MEM"          -> "ERROR_NO_MEMORY"
    [] err = "CERT_REVOKED"        -> "ALERT_CERTIFICATE_REVOKED"
    [] err = "CERT_HAS_EXPIRED"    -> "ALERT_CERTIFICATE_EXPIRED"
    [] err \in {"other", "empty"}  -> "ALERT_CERTIFICATE_UNKNOWN"

HandlerDropped == FALSE  \* mutant of HandlerAfterCall
(* mem::forget leaves the handler where it is. *)
HandlerAfterCall == handler

(* verify_certificate_callback returned an error: picotls gives up.        *)
Fails(c, code) ==
  /\ state' = [state EXCEPT ![c] = code]
  /\ UNCHANGED <<heap, verify_sign>>

(* The key is boxed at some free address, which picotls keeps. *)
KeyDropped(c) ==  \* mutant of BoxKey: a pointer to a local
  \E a \in Addresses :
    /\ heap[a] = None /\ UNCHANGED heap
    /\ verify_sign' = [verify_sign EXCEPT ![c] = a]
BoxKey(c) ==
  \E a \in Addresses :
    /\ heap[a] = None /\ heap' = [heap EXCEPT ![a] = c]
    /\ verify_sign' = [verify_sign EXCEPT ![c] = a]

(* verify_certificate_callback and its _impl, from the call of             *)
(* handler.verify on.                                                      *)
IgnoreAnswer(answer) == "true"  \* mutant of Accepts
Accepts(answer) == answer

HandlerVerify(c, answer, key) ==
  /\ approved' = IF answer = "true" THEN approved \cup {c} ELSE approved
  /\ CASE Accepts(answer) = "false" -> Fails(c, "ALERT_CERTIFICATE_UNKNOWN")
       [] Accepts(answer) \in Errors ->
            Fails(c, ssl_error_to_error_code(answer))
       [] Accepts(answer) = "true" /\ key \in Errors ->
            Fails(c, ssl_error_to_error_code(key))
       [] Accepts(answer) = "true" /\ key = "ok" ->
            /\ BoxKey(c) /\ state' = [state EXCEPT ![c] = "verify"]

(* The first certificate and the chain after it must all parse.            *)
extract_certificates(certs) == \A i \in DOMAIN certs : certs[i] = "der"

VerifyCertificateCallback(c, certs, answer, key) ==
  /\ quic /\ state[c] = "start"
  /\ bad_free' = (bad_free \/ ~handler)
  /\ handler' = HandlerAfterCall
  /\ CASE certs = <<>> ->
            Fails(c, "ALERT_CERTIFICATE_UNKNOWN") /\ UNCHANGED approved
       [] certs # <<>> /\ ~extract_certificates(certs) ->
            Fails(c, "ALERT_BAD_CERTIFICATE") /\ UNCHANGED approved
       [] certs # <<>> /\ extract_certificates(certs) ->
            HandlerVerify(c, answer, key)
  /\ UNCHANGED <<quic, signed>>

------------------------------------------------------------------------------
(* verify_sign_callback takes the key's box back first, and frees it on    *)
(* every path.                                                             *)
KeyOf(c) == heap[verify_sign[c]]

FreeKeys(cs) == [a \in Addresses |->
  IF \E c \in cs : verify_sign[c] = a THEN None ELSE heap[a]]

WithKey(cs) == {c \in cs : verify_sign[c] # None}

KeysAreThere(cs) == \A c \in WithKey(cs) : KeyOf(c) # None

(* picotls calls verify_sign once, if there is one, and forgets it.        *)
VerifySignCallback(c, signature) ==
  /\ quic /\ state[c] = "verify"
  /\ bad_free' = (bad_free \/ ~KeysAreThere({c}))
  /\ heap' = FreeKeys(WithKey({c}))
  /\ verify_sign' = [verify_sign EXCEPT ![c] = None]
  /\ signed' = [signed EXCEPT ![c] =
       CASE signature = "valid" /\ verify_sign[c] # None -> KeyOf(c)
         [] signature = "empty"                          -> Unchecked
         [] OTHER                                        -> @]
  /\ state' = [state EXCEPT ![c] =
       CASE signature \in {"valid", "empty"} -> "accepted"
         [] signature = "invalid"            -> "ALERT_DECRYPT_ERROR"
         [] signature = "library error"      -> "ERROR_LIBRARY"]
  /\ UNCHANGED <<quic, handler, approved>>

(* picotls frees connections: verify_sign is called with empty arguments,  *)
(* for the box to be freed.                                                *)
KeepKeys(cs) == heap  \* mutant of Release: returns before get_pkey
Release(cs) == FreeKeys(WithKey(cs))

FreeConnections(cs) ==
  /\ heap' = Release(cs)
  /\ verify_sign' = [c \in Connections |->
       IF c \in cs THEN None ELSE verify_sign[c]]
  /\ state' = [c \in Connections |-> IF c \in cs THEN "gone" ELSE state[c]]
  /\ UNCHANGED <<approved, signed>>

DeleteConnection(c) ==
  /\ quic /\ state[c] # "gone"
  /\ bad_free' = (bad_free \/ ~KeysAreThere({c}))
  /\ FreeConnections({c}) /\ UNCHANGED <<quic, handler>>

(* QuicCtx::drop: picoquic_free deletes the connections that are left and  *)
(* calls free_ctx.                                                         *)
Drop ==
  /\ quic /\ quic' = FALSE
  /\ bad_free' = (bad_free \/ ~KeysAreThere(Connections) \/ ~handler)
  /\ FreeConnections(Connections)
  /\ handler' = FALSE

Next ==
  \/ \E c \in Connections :
       \/ \E certs \in Chains, answer \in Answers, key \in {"ok"} \cup Errors :
            VerifyCertificateCallback(c, certs, answer, key)
       \/ \E signature \in Signatures : VerifySignCallback(c, signature)
       \/ DeleteConnection(c)
  \/ Drop

Spec == Init /\ [][Next]_vars

------------------------------------------------------------------------------
Codes == {"ERROR_NO_MEMORY", "ERROR_LIBRARY", "ALERT_BAD_CERTIFICATE",
          "ALERT_CERTIFICATE_REVOKED", "ALERT_CERTIFICATE_EXPIRED",
          "ALERT_CERTIFICATE_UNKNOWN", "ALERT_DECRYPT_ERROR"}

(* The type of every variable of the model.                                *)
TypeOK ==
  /\ quic \in BOOLEAN /\ handler \in BOOLEAN /\ bad_free \in BOOLEAN
  /\ heap \in [Addresses -> Connections \cup {None}]
  /\ state \in [Connections -> Codes \cup
                   {"start", "verify", "accepted", "gone"}]
  /\ verify_sign \in [Connections -> Addresses \cup {None}]
  /\ approved \subseteq Connections
  /\ signed \in [Connections -> Connections \cup {None, Unchecked}]

(* A peer is accepted only if the application's handler answered Ok(true)  *)
(* for it, and no signature is ever checked against a key other than that  *)
(* of the peer's own certificate, whatever the handshakes of other         *)
(* connections do to the heap meanwhile.  Whether it was checked at all is *)
(* SignatureIsVerified.                                                    *)
PeerIsApproved ==
  \A c \in Connections : state[c] = "accepted" =>
    c \in approved /\ signed[c] \in {c, Unchecked}

(* "Will be called by picoquic to verify the signed data": a peer whose    *)
(* signature verify_sign_callback answers with 0 has signed with the key   *)
(* of its certificate.  It does not hold: an empty signature is answered   *)
(* with 0 as well.                                                         *)
SignatureIsVerified ==
  \A c \in Connections : state[c] = "accepted" => signed[c] = c

(* "Will be called by picoquic to free the handler context": neither the   *)
(* handler nor a key is used or freed when it is no longer there.          *)
NoUseAfterFree == ~bad_free

(* Every boxed key belongs to the handshake that waits for its signature,  *)
(* and the handler goes with the picoquic context: no path leaks a box.    *)
NothingLeaks ==
  /\ ~quic => ~handler
  /\ \A a \in Addresses : heap[a] # None =>
       verify_sign[heap[a]] = a /\ state[heap[a]] = "verify"
==============================================================================
