---------------------------- MODULE ContextSetup -----------------------------
(***************************************************************************)
(* From a Config to a running event loop: the setters of                   *)
(* src/src/config.rs, Context::new (src/src/context.rs),                   *)
(* ContextInner::new (src/src/context_inner.rs) and QuicCtx::new           *)
(* (src/src/ffi/quic_ctx.rs).  Every step of it may return early, and then *)
(* drops what it has so far.  Credentials are a file name, or bytes in     *)
(* memory in one of two formats; of both only what the steps look at is    *)
(* kept.  What picoquic, OpenSSL and the system answer is an input.        *)
(***************************************************************************)
EXTENDS Naturals

CONSTANTS
  FileNames, \* "none", "file", "missing" or "nonUnicode", which does exist
  Memories   \* "none", "DER", "PEM" or "badPEM": does not parse

ASSUME SetupAssumptions ==
  /\ FileNames \subseteq {"none", "file", "missing", "nonUnicode"}
  /\ Memories \subseteq {"none", "DER", "PEM", "badPEM"}

Credentials == {"chain", "key", "root"}
Roles == {"Server", "Client"}

VARIABLES
  config,
  pc, result,    \* where Context::new is, and what it returned
  c_ctx,         \* references to CContext
  quic,          \* the picoquic context: "none", "live" or "freed"
  in_effect,     \* where the credentials that picoquic uses come from
  client_auth,
  handler,       \* who owns the verify_certificate_handler
  socket,        \* "none", "bound" or "closed"
  keep_alive     \* the roles whose connections get the keep alive interval

vars == <<config, pc, result, c_ctx, quic, in_effect, client_auth, handler,
          socket, keep_alive>>
setupVars == <<c_ctx, quic, in_effect, client_auth, handler, socket,
               keep_alive>>

(* Config::default *)
Default ==
  [file |-> [k \in Credentials |-> "none"],
   memory |-> [k \in Credentials |-> "none"],
   keep_alive_interval |-> FALSE, keep_alive_sender |-> "Client",
   client_authentication |-> FALSE]

Init ==
  /\ config = Default /\ handler = "none"
  /\ pc = "config" /\ result = "none" /\ c_ctx = 0 /\ quic = "none"
  /\ in_effect = [k \in Credentials |-> {}] /\ client_auth = FALSE
  /\ socket = "none" /\ keep_alive = {}

------------------------------------------------------------------------------
(* The setters of Config. *)

Configure(new, owner) ==
  /\ pc = "config" /\ config' = new /\ handler' = owner
  /\ UNCHANGED <<pc, result, c_ctx, quic, in_effect, client_auth, socket,
                 keep_alive>>

SetFilename(k, f) ==
  f # "none" /\ Configure([config EXCEPT !.file[k] = f], handler)

SetMemory(k, m) ==
  m # "none" /\ Configure([config EXCEPT !.memory[k] = m], handler)

EnableKeepAlive ==
  Configure([config EXCEPT !.keep_alive_interval = TRUE], handler)

SetKeepAliveSender(role) ==
  Configure([config EXCEPT !.keep_alive_sender = role], handler)

EnableClientAuthentication ==
  Configure([config EXCEPT !.client_authentication = TRUE], handler)

SetVerifyCertificateHandler == Configure(config, "config")

(* Config::clone_from keeps everything but the handler. *)
CloneFrom == Configure(config, "none")

------------------------------------------------------------------------------
(* Early returns.  The locals are dropped: the socket, QuicCtx, whose drop *)
(* is picoquic_free with the handler that was given to it, the Config, and *)
(* one of CContext's references.                                           *)
KeepQuic == quic  \* mutant of FreeQuic
FreeQuic == IF quic = "live" THEN "freed" ELSE quic

Return(err) ==
  /\ pc' = "done" /\ result' = err
  /\ quic' = FreeQuic
  /\ handler' = IF handler \in {"config", "picoquic"} THEN "freed" ELSE handler
  /\ socket' = IF socket = "bound" THEN "closed" ELSE socket
  /\ c_ctx' = IF c_ctx = 2 THEN 1 ELSE c_ctx
  /\ UNCHANGED <<config, in_effect, client_auth, keep_alive>>

Goto(from, to) == pc = from /\ pc' = to /\ UNCHANGED <<config, result>>

(* Config::verify *)
IsSet(k) == config.file[k] # "none" \/ config.memory[k] # "none"
KeyAndChainAgree == IsSet("key") = IsSet("chain")
FilesExist == \A k \in Credentials : config.file[k] # "missing"

Verify ==
  /\ pc = "config"
  /\ IF KeyAndChainAgree /\ FilesExist
     THEN pc' = "ccontext" /\ UNCHANGED <<config, result, setupVars>>
     ELSE Return("Custom")

(* ContextInner::new up to QuicCtx::new: the keep alive interval goes to   *)
(* the connections of one role, and CContext is referred to by `context`   *)
(* and by the pointer for the callback.                                    *)
KeepAliveRoles ==
  IF config.keep_alive_interval THEN {config.keep_alive_sender} ELSE {}

NewCContext ==
  /\ Goto("ccontext", "create")
  /\ keep_alive' = KeepAliveRoles
  /\ c_ctx' = 2
  /\ UNCHANGED <<quic, in_effect, client_auth, handler, socket>>

(* create_cstring of the three names, and picoquic_create, which reads the *)
(* files.  A null pointer is a failed assertion.                           *)
FromFile(k) == IF config.file[k] = "none" THEN {} ELSE {"file"}

CreateQuic ==
  /\ pc = "create"
  /\ IF \E k \in Credentials : config.file[k] = "nonUnicode"
     THEN Return("NoneUnicode")
     ELSE /\ Goto("create", "auth")
          /\ quic' = "live"
          /\ in_effect' = [k \in Credentials |-> FromFile(k)]
          /\ UNCHANGED <<c_ctx, client_auth, handler, socket, keep_alive>>

CreateFails ==
  /\ pc = "create" /\ \A k \in Credentials : config.file[k] # "nonUnicode"
  /\ Return("panic")

SetClientAuthentication ==
  /\ Goto("auth", "chain")
  /\ client_auth' = config.client_authentication
  /\ UNCHANGED <<c_ctx, quic, in_effect, handler, socket, keep_alive>>

(* set_tls_certificate_chain, set_tls_private_key and                      *)
(* set_tls_root_certificates: PEM is converted, which may fail; picoquic   *)
(* takes the chain as it is but may refuse a key or a root.  A chain or a  *)
(* key takes the place of the one from the file.  Roots are added to those *)
(* from the file ("Error at adding a root certificate, maybe a             *)
(* duplicate?"), which nothing takes away again.                           *)
After(k) == CASE k = "chain" -> "key" [] k = "key" -> "root"
              [] k = "root" -> "handler"

InEffect(k) ==
  [in_effect EXCEPT ![k] = IF k = "root" THEN @ \cup {"memory"} ELSE {"memory"}]

IgnoreRefusal(k) ==  \* mutant of Refused: the result is dropped
  k # "chain" /\ Goto(k, After(k)) /\ UNCHANGED setupVars
Refused(k) ==
  k # "chain" /\ Return(IF k = "key" THEN "Unknown" ELSE "Custom")

SetCredential(k, refused) ==
  /\ pc = k
  /\ refused => config.memory[k] # "none"
  /\ CASE config.memory[k] = "none" ->
            Goto(k, After(k)) /\ UNCHANGED setupVars
       [] config.memory[k] = "badPEM" -> Return("OpenSSLError")
       [] config.memory[k] \in {"DER", "PEM"} /\ refused -> Refused(k)
       [] config.memory[k] \in {"DER", "PEM"} /\ ~refused ->
            /\ Goto(k, After(k))
            /\ in_effect' = InEffect(k)
            /\ UNCHANGED <<c_ctx, quic, client_auth, handler, socket,
                           keep_alive>>

(* verify_certificate::setup_callback: picoquic owns the boxed handler,    *)
(* unless it is out of memory: then nobody does.                           *)
SetupCallback ==
  /\ Goto("handler", "bind")
  /\ handler' = IF handler = "config" THEN "picoquic" ELSE handler
  /\ UNCHANGED <<c_ctx, quic, in_effect, client_auth, socket, keep_alive>>

SetupCallbackFails ==
  /\ pc = "handler" /\ handler = "config"
  /\ pc' = "done" /\ result' = "OutOfMemoryError"
  /\ handler' = "leaked" /\ quic' = FreeQuic /\ c_ctx' = 1
  /\ UNCHANGED <<config, in_effect, client_auth, socket, keep_alive>>

(* The rest of ContextInner::new and of Context::new. *)
Bind(ok) ==
  /\ pc = "bind"
  /\ IF ok THEN /\ Goto("bind", "spawn") /\ socket' = "bound"
                /\ UNCHANGED <<c_ctx, quic, in_effect, client_auth, handler,
                               keep_alive>>
     ELSE Return("NetworkError")

Spawn(ok) ==
  /\ pc = "spawn"
  /\ IF ok THEN /\ pc' = "done" /\ result' = "Ok"
                /\ UNCHANGED <<config, setupVars>>
     ELSE Return("Spawn")

------------------------------------------------------------------------------
Setters ==
  \/ \E k \in Credentials, f \in FileNames : SetFilename(k, f)
  \/ \E k \in Credentials, m \in Memories : SetMemory(k, m)
  \/ EnableKeepAlive \/ \E role \in Roles : SetKeepAliveSender(role)
  \/ EnableClientAuthentication \/ SetVerifyCertificateHandler \/ CloneFrom

Next ==
  \/ Setters
  \/ Verify \/ NewCContext \/ CreateQuic \/ CreateFails
  \/ SetClientAuthentication
  \/ \E k \in Credentials, refused \in BOOLEAN : SetCredential(k, refused)
  \/ SetupCallback \/ SetupCallbackFails
  \/ \E ok \in BOOLEAN : Bind(ok) \/ Spawn(ok)

Spec == Init /\ [][Next]_vars

------------------------------------------------------------------------------
(* The type of every variable of the model.                                *)
TypeOK ==
  /\ config \in [file : [Credentials -> {"none"} \cup FileNames],
                 memory : [Credentials -> {"none"} \cup Memories],
                 keep_alive_interval : BOOLEAN, keep_alive_sender : Roles,
                 client_authentication : BOOLEAN]
  /\ pc \in Credentials \cup {"config", "ccontext", "create", "auth",
                              "handler", "bind", "spawn", "done"}
  /\ result \in {"none", "Ok", "Custom", "NoneUnicode", "OpenSSLError",
                 "Unknown", "OutOfMemoryError", "NetworkError", "Spawn",
                 "panic"}
  /\ c_ctx \in 0..2 /\ quic \in {"none", "live", "freed"}
  /\ in_effect \in [Credentials -> SUBSET {"file", "memory"}]
  /\ client_auth \in BOOLEAN /\ keep_alive \subseteq Roles
  /\ handler \in {"none", "config", "picoquic", "freed", "leaked"}
  /\ socket \in {"none", "bound", "closed"}

(* Whichever step returns early, the picoquic context, the socket and the  *)
(* handler are gone when Context::new has failed (a handler that picoquic  *)
(* had no memory for excepted), and all there when it has not.  CContext   *)
(* keeps the two references that ContextInner::new asserts to the end: a   *)
(* failure gives `context` back, and once only; the pointer that was for   *)
(* the callback is leaked.                                                 *)
FailedSetupIsUndone ==
  pc = "done" =>
    IF result = "Ok"
    THEN /\ quic = "live" /\ socket = "bound" /\ c_ctx = 2
         /\ handler \in {"none", "picoquic"}
    ELSE /\ quic # "live" /\ socket # "bound"
         /\ c_ctx \in 0..1
         /\ handler \in {"none", "freed"} \/ result = "OutOfMemoryError"

(* A Context that was created uses every credential it was configured      *)
(* with: whatever the order of the setters and whichever step refused,     *)
(* none is lost on the way, the memory that "will overwrite                *)
(* `set_certificate_chain_filename`" (and the key's likewise) does, and    *)
(* what Config::verify asks of the Config is true of picoquic: there is a  *)
(* key if and only if there is a chain, from whichever source each comes.  *)
CredentialsTakeEffect ==
  result = "Ok" =>
    /\ \A k \in Credentials : IsSet(k) <=> in_effect[k] # {}
    /\ \A k \in Credentials :
         config.memory[k] # "none" => "memory" \in in_effect[k]
    /\ \A k \in Credentials \ {"root"} :
         config.memory[k] # "none" => "file" \notin in_effect[k]
    /\ in_effect["key"] # {} <=> in_effect["chain"] # {}

(* "This option will overwrite `set_root_certificate_filename`": of root   *)
(* certificates in memory and in a file, only those in memory are used.    *)
(* It does not hold: picoquic_create gets the file in any case, and those  *)
(* in memory are added.                                                    *)
RootsAreOverwritten ==
  result = "Ok" /\ config.memory["root"] # "none" =>
    in_effect["root"] = {"memory"}
==============================================================================
