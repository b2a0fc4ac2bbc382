----------------------- MODULE VerifyCertificateProofs -----------------------
(***************************************************************************)
(* Proofs about module VerifyCertificate, for any number of connections    *)
(* and addresses.                                                          *)
(***************************************************************************)
EXTENDS VerifyCertificate, TLAPS

(* A handshake that waits for its signature and the box of its key belong  *)
(* to each other, although an address that was freed is used again; and    *)
(* only an approved handshake waits.                                       *)
OwnInv ==
  /\ TypeOK
  /\ handler = quic
  /\ \A c \in Connections :
       /\ state[c] = "verify" <=> verify_sign[c] # None
       /\ verify_sign[c] # None => heap[verify_sign[c]] = c
       /\ state[c] = "verify" => c \in approved
  /\ PeerIsApproved /\ NoUseAfterFree /\ NothingLeaks

LEMMA OwnInit == Init => OwnInv
BY VerifyCertificateAssumptions
DEF Init, OwnInv, TypeOK, PeerIsApproved, NoUseAfterFree, NothingLeaks

(* Every kind of error becomes one of the codes that end a handshake.      *)
LEMMA CodeType == \A err \in Errors : ssl_error_to_error_code(err) \in Codes
BY DEF Errors, ssl_error_to_error_code, Codes

LEMMA FailsInv ==
  ASSUME OwnInv, NEW c \in Connections, NEW code \in Codes, Fails(c, code),
         state[c] = "start", approved \subseteq approved',
         approved' \subseteq Connections,
         UNCHANGED <<quic, handler, signed, bad_free>>
  PROVE  OwnInv'
<1>1. /\ state' = [state EXCEPT ![c] = code] /\ UNCHANGED <<heap, verify_sign>>
      /\ code \notin {"verify", "accepted"}
  BY DEF Fails, Codes
<1>2. TypeOK'
  BY <1>1 DEF OwnInv, TypeOK
<1>3. \A d \in Connections : d # c => state'[d] = state[d]
  BY <1>1 DEF OwnInv, TypeOK
<1>4. state'[c] = code
  BY <1>1 DEF OwnInv, TypeOK
<1>5. \A d \in Connections :
       /\ state'[d] = "verify" <=> verify_sign'[d] # None
       /\ verify_sign'[d] # None => heap'[verify_sign'[d]] = d
       /\ state'[d] = "verify" => d \in approved'
  BY <1>1, <1>3, <1>4 DEF OwnInv
<1>6. PeerIsApproved' /\ NoUseAfterFree'
  BY <1>1, <1>3, <1>4 DEF OwnInv, PeerIsApproved, NoUseAfterFree
<1>7. NothingLeaks'
  BY <1>1, <1>3, <1>4 DEF OwnInv, NothingLeaks, TypeOK
<1>8. QED
  BY <1>2, <1>5, <1>6, <1>7 DEF OwnInv

LEMMA BoxKeyInv ==
  ASSUME OwnInv, NEW c \in Connections, BoxKey(c), state[c] = "start",
         state' = [state EXCEPT ![c] = "verify"],
         approved' = approved \cup {c},
         UNCHANGED <<quic, handler, signed, bad_free>>
  PROVE  OwnInv'
<1>1. PICK a \in Addresses :
        /\ heap[a] = None /\ heap' = [heap EXCEPT ![a] = c]
        /\ verify_sign' = [verify_sign EXCEPT ![c] = a]
  BY DEF BoxKey
<1>2. a # None /\ c # None
  BY VerifyCertificateAssumptions
<1>3. TypeOK'
  BY <1>1 DEF OwnInv, TypeOK
<1>4. /\ state'[c] = "verify" /\ verify_sign'[c] = a /\ heap'[a] = c
      /\ \A d \in Connections :
           d # c => state'[d] = state[d] /\ verify_sign'[d] = verify_sign[d]
      /\ \A b \in Addresses : b # a => heap'[b] = heap[b]
  BY <1>1 DEF OwnInv, TypeOK
<1>5. ASSUME NEW d \in Connections
      PROVE  /\ state'[d] = "verify" <=> verify_sign'[d] # None
             /\ verify_sign'[d] # None => heap'[verify_sign'[d]] = d
             /\ state'[d] = "verify" => d \in approved'
  <2>1. CASE d = c
    BY <1>2, <1>4, <2>1
  <2>2. CASE d # c
    <3>1. /\ verify_sign[d] # None =>
               verify_sign[d] \in Addresses /\ verify_sign[d] # a
      BY <1>1, VerifyCertificateAssumptions DEF OwnInv, TypeOK
    <3>2. QED
      BY <1>4, <2>2, <3>1 DEF OwnInv
  <2>3. QED
    BY <2>1, <2>2
<1>6. PeerIsApproved' /\ NoUseAfterFree'
  BY <1>4 DEF OwnInv, PeerIsApproved, NoUseAfterFree
<1>7. NothingLeaks'
  <2>1. ASSUME NEW b \in Addresses, heap'[b] # None
        PROVE  verify_sign'[heap'[b]] = b /\ state'[heap'[b]] = "verify"
    <3>1. CASE b = a
      BY <1>4, <3>1
    <3>2. CASE b # a
      <4>1. /\ heap[b] # None /\ heap[b] \in Connections
            /\ state[heap[b]] = "verify" /\ verify_sign[heap[b]] = b
        BY <1>4, <2>1, <3>2 DEF OwnInv, TypeOK, NothingLeaks
      <4>2. heap[b] # c
        BY <4>1
      <4>3. QED
        BY <1>4, <3>2, <4>1, <4>2
    <3>3. QED
      BY <3>1, <3>2
  <2>2. QED
    BY <2>1 DEF OwnInv, NothingLeaks
<1>8. QED
  BY <1>3, <1>5, <1>6, <1>7 DEF OwnInv

LEMMA CertificateStep ==
  ASSUME OwnInv, NEW c \in Connections, NEW certs, NEW answer \in Answers,
         NEW key \in {"ok"} \cup Errors,
         VerifyCertificateCallback(c, certs, answer, key)
  PROVE  OwnInv'
<1>1. /\ state[c] = "start" /\ UNCHANGED <<quic, handler, signed>>
      /\ bad_free' = bad_free /\ quic
  BY DEF VerifyCertificateCallback, HandlerAfterCall, OwnInv, TypeOK
<1>2. \/ \E code \in Codes : Fails(c, code) /\ approved' = approved
      \/ HandlerVerify(c, answer, key)
  BY DEF VerifyCertificateCallback, Codes
<1>3. ASSUME NEW code \in Codes, Fails(c, code), approved' = approved
      PROVE  OwnInv'
  BY <1>1, <1>3, FailsInv DEF OwnInv, TypeOK
<1>4. CASE HandlerVerify(c, answer, key)
  <2>1. approved' = IF answer = "true" THEN approved \cup {c} ELSE approved
    BY <1>4 DEF HandlerVerify
  <2>2. approved \subseteq approved' /\ approved' \subseteq Connections
    BY <2>1 DEF OwnInv, TypeOK
  <2>3. \/ \E code \in Codes : Fails(c, code)
        \/ /\ answer = "true" /\ BoxKey(c)
           /\ state' = [state EXCEPT ![c] = "verify"]
    <3>1. CASE answer = "false"
      BY <1>4, <3>1 DEF HandlerVerify, Accepts, Codes, Errors
    <3>2. CASE answer \in Errors
      BY <1>4, <3>2, CodeType DEF HandlerVerify, Accepts, Errors
    <3>3. CASE answer = "true"
      BY <1>4, <3>3, CodeType DEF HandlerVerify, Accepts, Errors
    <3>4. QED
      BY <3>1, <3>2, <3>3 DEF Answers
  <2>4. QED
    BY <1>1, <2>1, <2>2, <2>3, FailsInv, BoxKeyInv
<1>5. QED
  BY <1>2, <1>3, <1>4

(* The keys are where verify_sign says they are.                           *)
LEMMA KeysThere == OwnInv => \A cs \in SUBSET Connections : KeysAreThere(cs)
BY VerifyCertificateAssumptions DEF OwnInv, KeysAreThere, WithKey, KeyOf

(* Freeing the keys of some connections leaves the keys of the others.     *)
LEMMA FreeKeysInv ==
  ASSUME OwnInv, NEW cs \in SUBSET Connections,
         heap' = FreeKeys(WithKey(cs)),
         verify_sign' = [c \in Connections |->
                           IF c \in cs THEN None ELSE verify_sign[c]],
         state' \in [Connections -> Codes \cup
                       {"start", "verify", "accepted", "gone"}],
         \A c \in Connections : c \notin cs => state'[c] = state[c],
         \A c \in cs : state'[c] # "verify",
         \A c \in Connections : state'[c] = "accepted" =>
            c \in approved /\ signed'[c] \in {c, Unchecked},
         signed' \in [Connections -> Connections \cup {None, Unchecked}],
         quic' \in BOOLEAN, handler' = quic',
         UNCHANGED <<approved, bad_free>>
  PROVE  OwnInv'
<1>1. \A a \in Addresses : heap'[a] = IF \E c \in cs : verify_sign[c] = a
                                      THEN None ELSE heap[a]
  BY VerifyCertificateAssumptions DEF FreeKeys, WithKey
<1>2. heap' \in [Addresses -> Connections \cup {None}]
  BY DEF FreeKeys, OwnInv, TypeOK
<1>3. TypeOK'
  BY <1>2 DEF OwnInv, TypeOK
<1>4. ASSUME NEW d \in Connections
      PROVE  /\ state'[d] = "verify" <=> verify_sign'[d] # None
             /\ verify_sign'[d] # None => heap'[verify_sign'[d]] = d
             /\ state'[d] = "verify" => d \in approved'
  <2>1. CASE d \in cs
    BY <2>1
  <2>2. CASE d \notin cs
    <3>1. /\ verify_sign'[d] = verify_sign[d] /\ state'[d] = state[d]
      BY <2>2
    <3>2. ASSUME verify_sign[d] # None
          PROVE  heap'[verify_sign[d]] = d
      <4>1. verify_sign[d] \in Addresses /\ heap[verify_sign[d]] = d
        BY <3>2 DEF OwnInv, TypeOK
      <4>2. \A c \in cs : verify_sign[c] # verify_sign[d]
        BY <2>2, <3>2, <4>1 DEF OwnInv
      <4>3. QED
        BY <1>1, <4>1, <4>2
    <3>3. QED
      BY <3>1, <3>2 DEF OwnInv
  <2>3. QED
    BY <2>1, <2>2
<1>5. PeerIsApproved' /\ NoUseAfterFree'
  BY DEF OwnInv, PeerIsApproved, NoUseAfterFree
<1>6. ASSUME NEW a \in Addresses, heap'[a] # None
      PROVE  verify_sign'[heap'[a]] = a /\ state'[heap'[a]] = "verify"
  <2>1. heap'[a] = heap[a] /\ \A c \in cs : verify_sign[c] # a
    BY <1>1, <1>6
  <2>2. /\ heap[a] \in Connections
        /\ verify_sign[heap[a]] = a /\ state[heap[a]] = "verify"
    BY <1>6, <2>1 DEF OwnInv, TypeOK, NothingLeaks
  <2>3. heap[a] \notin cs
    BY <2>1, <2>2
  <2>4. QED
    BY <2>1, <2>2, <2>3
<1>7. NothingLeaks'
  BY <1>6 DEF NothingLeaks
<1>8. QED
  BY <1>3, <1>4, <1>5, <1>7 DEF OwnInv

LEMMA SignatureStep ==
  ASSUME OwnInv, NEW c \in Connections, NEW signature \in Signatures,
         VerifySignCallback(c, signature)
  PROVE  OwnInv'
<1>1. KeysAreThere({c}) /\ bad_free' = bad_free
  BY KeysThere DEF VerifySignCallback, OwnInv, TypeOK
<1>2. verify_sign[c] # None /\ KeyOf(c) = c /\ c \in approved
  BY DEF VerifySignCallback, OwnInv, KeyOf
<1>3. verify_sign' = [d \in Connections |->
                        IF d \in {c} THEN None ELSE verify_sign[d]]
  BY DEF VerifySignCallback, OwnInv, TypeOK
<1> DEFINE new == CASE signature \in {"valid", "empty"} -> "accepted"
                    [] signature = "invalid"       -> "ALERT_DECRYPT_ERROR"
                    [] signature = "library error" -> "ERROR_LIBRARY"
<1>4. /\ state' = [state EXCEPT ![c] = new]
      /\ new \in Codes \cup {"accepted"}
      /\ new = "accepted" => signature \in {"valid", "empty"}
  BY DEF VerifySignCallback, Signatures, Codes
<1> HIDE DEF new
<1>5. /\ state' \in [Connections -> Codes \cup
                       {"start", "verify", "accepted", "gone"}]
      /\ \A d \in Connections : d # c => state'[d] = state[d]
      /\ state'[c] = new
  BY <1>4 DEF OwnInv, TypeOK
<1>6. /\ signed' \in [Connections -> Connections \cup {None, Unchecked}]
      /\ \A d \in Connections : d # c => signed'[d] = signed[d]
      /\ signature \in {"valid", "empty"} => signed'[c] \in {c, Unchecked}
  BY <1>2 DEF VerifySignCallback, OwnInv, TypeOK
<1>7. \A d \in Connections : state'[d] = "accepted" =>
        d \in approved /\ signed'[d] \in {d, Unchecked}
  BY <1>2, <1>4, <1>5, <1>6 DEF OwnInv, PeerIsApproved
<1>8. new # "verify"
  BY <1>4 DEF Codes
<1>9. /\ heap' = FreeKeys(WithKey({c})) /\ UNCHANGED <<quic, handler, approved>>
      /\ quic \in BOOLEAN /\ handler = quic
  BY DEF VerifySignCallback, OwnInv, TypeOK
<1>10. QED
  BY <1>1, <1>3, <1>5, <1>6, <1>7, <1>8, <1>9, FreeKeysInv

LEMMA FreeConnectionsInv ==
  ASSUME OwnInv, NEW cs \in SUBSET Connections, FreeConnections(cs),
         quic' \in BOOLEAN, handler' = quic', bad_free' = bad_free
  PROVE  OwnInv'
<1>1. state' \in [Connections -> Codes \cup
                    {"start", "verify", "accepted", "gone"}]
  BY DEF FreeConnections, OwnInv, TypeOK
<1>2. \A c \in Connections :
        state'[c] = IF c \in cs THEN "gone" ELSE state[c]
  BY DEF FreeConnections
<1>3. \A c \in Connections : state'[c] = "accepted" =>
        c \in approved /\ signed'[c] \in {c, Unchecked}
  BY <1>2 DEF FreeConnections, OwnInv, PeerIsApproved
<1>4. signed' \in [Connections -> Connections \cup {None, Unchecked}]
  BY DEF FreeConnections, OwnInv, TypeOK
<1>5. /\ heap' = FreeKeys(WithKey(cs)) /\ approved' = approved
      /\ verify_sign' = [c \in Connections |->
                           IF c \in cs THEN None ELSE verify_sign[c]]
  BY DEF FreeConnections, Release
<1>6. QED
  BY <1>1, <1>2, <1>3, <1>4, <1>5, FreeKeysInv

LEMMA OwnStep == OwnInv /\ [Next]_vars => OwnInv'
<1> SUFFICES ASSUME OwnInv, [Next]_vars PROVE OwnInv'
  OBVIOUS
<1>1. ASSUME NEW c \in Connections, NEW certs \in Chains,
             NEW answer \in Answers, NEW key \in {"ok"} \cup Errors,
             VerifyCertificateCallback(c, certs, answer, key)
      PROVE  OwnInv'
  BY <1>1, CertificateStep
<1>2. ASSUME NEW c \in Connections, NEW signature \in Signatures,
             VerifySignCallback(c, signature)
      PROVE  OwnInv'
  BY <1>2, SignatureStep
<1>3. ASSUME NEW c \in Connections, DeleteConnection(c) PROVE OwnInv'
  <2>1. bad_free' = bad_free /\ UNCHANGED <<quic, handler>>
    BY <1>3, KeysThere DEF DeleteConnection, OwnInv, TypeOK
  <2>2. QED
    BY <1>3, <2>1, FreeConnectionsInv DEF DeleteConnection, OwnInv, TypeOK
<1>4. CASE Drop
  <2>1. bad_free' = bad_free
    BY <1>4, KeysThere DEF Drop, OwnInv, TypeOK
  <2>2. QED
    BY <1>4, <2>1, FreeConnectionsInv DEF Drop
<1>5. CASE UNCHANGED vars
  BY <1>5 DEF vars, OwnInv, TypeOK, PeerIsApproved, NoUseAfterFree, NothingLeaks
<1>6. QED
  BY <1>1, <1>2, <1>3, <1>4, <1>5 DEF Next

------------------------------------------------------------------------------
LEMMA OwnAlways == Spec => []OwnInv
BY OwnInit, OwnStep, PTL DEF Spec

(* Every handshake is in one of its states, and every pointer is null or   *)
(* an address: no error of OpenSSL is without a code for picotls.          *)
THEOREM HandshakeTypes == Spec => []TypeOK
<1>1. OwnInv => TypeOK
  BY DEF OwnInv
<1>2. QED
  BY <1>1, OwnAlways, PTL

(* A peer is accepted only if verify_certificate_callback's handler said   *)
(* Ok(true) for it, and verify_sign_callback checks a signature with the   *)
(* key of that very certificate or, when the signature is empty, with none *)
(* at all, for any number of handshakes and any reuse of freed addresses.  *)
THEOREM AcceptedPeersAreApproved == Spec => []PeerIsApproved
<1>1. OwnInv => PeerIsApproved
  BY DEF OwnInv
<1>2. QED
  BY <1>1, OwnAlways, PTL

(* The handler and the keys are there whenever a callback takes them back  *)
(* from their raw pointers, and no box is freed twice.                     *)
THEOREM NeverUsedAfterFree == Spec => []NoUseAfterFree
<1>1. OwnInv => NoUseAfterFree
  BY DEF OwnInv
<1>2. QED
  BY <1>1, OwnAlways, PTL

(* Every boxed key belongs to a handshake that waits for its signature and *)
(* the handler goes with QuicCtx.                                          *)
THEOREM NoBoxLeaks == Spec => []NothingLeaks
<1>1. OwnInv => NothingLeaks
  BY DEF OwnInv
<1>2. QED
  BY <1>1, OwnAlways, PTL
==============================================================================
