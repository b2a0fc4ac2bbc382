------------------------- MODULE ContextSetupProofs --------------------------
(***************************************************************************)
(* Proofs about module ContextSetup, for every set of file names and of    *)
(* credentials in memory.                                                  *)
(***************************************************************************)
EXTENDS ContextSetup, TLAPS

(* The steps of QuicCtx::new after picoquic_create, and those after it.    *)
Created == {"auth", "chain", "key", "root", "handler", "bind", "spawn"}
Verified == {"ccontext", "create"} \cup Created

(* What Context::new holds at each step, for an early return to drop.      *)
ResourceInv ==
  /\ pc = "done" <=> result # "none"
  /\ pc \in {"config", "ccontext", "create"} => quic = "none"
  /\ pc \in Created => quic = "live"
  /\ pc \notin {"spawn", "done"} => socket = "none"
  /\ pc = "spawn" => socket = "bound"
  /\ pc \notin {"bind", "spawn", "done"} => handler \in {"none", "config"}
  /\ pc \in {"bind", "spawn"} => handler \in {"none", "picoquic"}
  /\ pc \in {"create"} \cup Created => c_ctx = 2

Sources == SUBSET {"file", "memory"}

Effective(k) ==
  IF config.memory[k] = "none" THEN FromFile(k)
  ELSE IF k = "root" THEN FromFile(k) \cup {"memory"} ELSE {"memory"}

(* The credentials whose set_tls_* call is over. *)
Applied ==
  {k \in Credentials : \/ pc \in {"handler", "bind", "spawn"}
                       \/ pc = "key" /\ k = "chain"
                       \/ pc = "root" /\ k # "root"}

(* How far the configuration has taken effect at each step.                *)
ConfigInv ==
  /\ pc \in Verified => KeyAndChainAgree /\ FilesExist
  /\ pc \in Created =>
       /\ \A k \in Credentials : config.file[k] \in {"none", "file"}
       /\ \A k \in Credentials :
            in_effect[k] = IF k \in Applied THEN Effective(k)
                           ELSE FromFile(k)

SetupInv ==
  /\ TypeOK /\ ResourceInv /\ ConfigInv
  /\ FailedSetupIsUndone /\ CredentialsTakeEffect

LEMMA SetupInit == Init => SetupInv
<1> SUFFICES ASSUME Init PROVE SetupInv
  OBVIOUS
<1>1. TypeOK
  <2>1. [k \in Credentials |-> "none"] \in [Credentials -> {"none"} \cup FileNames]
        /\ [k \in Credentials |-> "none"] \in [Credentials -> {"none"} \cup Memories]
    OBVIOUS
  <2>2. Default \in [file : [Credentials -> {"none"} \cup FileNames],
                    memory : [Credentials -> {"none"} \cup Memories],
                    keep_alive_interval : BOOLEAN, keep_alive_sender : Roles,
                    client_authentication : BOOLEAN]
    BY <2>1 DEF Default, Roles
  <2>3. in_effect = [k \in Credentials |-> {}] /\ config = Default
    BY DEF Init
  <2>4. in_effect \in [Credentials -> SUBSET {"file", "memory"}]
    BY <2>3
  <2>5. client_auth \in BOOLEAN
    BY DEF Init
  <2>6. QED
    BY <2>2, <2>3, <2>4, <2>5 DEF Init, TypeOK
<1>2. ResourceInv /\ ConfigInv
  BY DEF Init, ResourceInv, ConfigInv, Verified, Created
<1>3. FailedSetupIsUndone /\ CredentialsTakeEffect
  BY DEF Init, FailedSetupIsUndone, CredentialsTakeEffect
<1>4. QED
  BY <1>1, <1>2, <1>3 DEF SetupInv

(* A setter of Config only has to keep the types.                          *)
Configs == [file : [Credentials -> {"none"} \cup FileNames],
            memory : [Credentials -> {"none"} \cup Memories],
            keep_alive_interval : BOOLEAN, keep_alive_sender : Roles,
            client_authentication : BOOLEAN]

LEMMA ConfigureInv ==
  ASSUME SetupInv, NEW new \in Configs, NEW owner \in {"none", "config"},
         Configure(new, owner)
  PROVE  SetupInv'
<1>1. /\ pc = "config" /\ config' = new /\ handler' = owner
      /\ UNCHANGED <<pc, result, c_ctx, quic, in_effect, client_auth, socket,
                     keep_alive>>
  BY DEF Configure
<1>2. TypeOK'
  BY <1>1 DEF SetupInv, TypeOK, Configs
<1>3. ResourceInv' /\ ConfigInv'
  BY <1>1 DEF SetupInv, ResourceInv, ConfigInv, Verified, Created
<1>4. FailedSetupIsUndone' /\ CredentialsTakeEffect'
  BY <1>1 DEF SetupInv, ResourceInv, FailedSetupIsUndone,
              CredentialsTakeEffect
<1>5. QED
  BY <1>2, <1>3, <1>4 DEF SetupInv

LEMMA SettersStep == SetupInv /\ Setters => SetupInv'
<1> SUFFICES ASSUME SetupInv, Setters PROVE SetupInv'
  OBVIOUS
<1>t. config \in Configs
  BY DEF SetupInv, TypeOK, Configs
<1>u. pc = "config" => handler \in {"none", "config"}
  BY DEF SetupInv, ResourceInv
<1>1. ASSUME NEW k \in Credentials, NEW f \in FileNames, SetFilename(k, f)
      PROVE  SetupInv'
  <2>1. [config EXCEPT !.file[k] = f] \in Configs
    BY <1>t DEF Configs
  <2>2. QED
    BY <1>u, <1>1, <2>1, ConfigureInv DEF SetFilename, Configure
<1>2. ASSUME NEW k \in Credentials, NEW m \in Memories, SetMemory(k, m)
      PROVE  SetupInv'
  <2>1. [config EXCEPT !.memory[k] = m] \in Configs
    BY <1>t DEF Configs
  <2>2. QED
    BY <1>u, <1>2, <2>1, ConfigureInv DEF SetMemory, Configure
<1>3. CASE EnableKeepAlive
  <2>1. [config EXCEPT !.keep_alive_interval = TRUE] \in Configs
    BY <1>t DEF Configs
  <2>2. QED
    BY <1>u, <1>3, <2>1, ConfigureInv DEF EnableKeepAlive, Configure
<1>4. ASSUME NEW role \in Roles, SetKeepAliveSender(role) PROVE SetupInv'
  <2>1. [config EXCEPT !.keep_alive_sender = role] \in Configs
    BY <1>t DEF Configs
  <2>2. QED
    BY <1>u, <1>4, <2>1, ConfigureInv DEF SetKeepAliveSender, Configure
<1>5. CASE EnableClientAuthentication
  <2>1. [config EXCEPT !.client_authentication = TRUE] \in Configs
    BY <1>t DEF Configs
  <2>2. QED
    BY <1>u, <1>5, <2>1, ConfigureInv DEF EnableClientAuthentication, Configure
<1>6. CASE SetVerifyCertificateHandler \/ CloneFrom
  BY <1>t, <1>6, ConfigureInv DEF SetVerifyCertificateHandler, CloneFrom
<1>7. QED
  BY <1>1, <1>2, <1>3, <1>4, <1>5, <1>6 DEF Setters

(* Every early return drops what there is. *)
Failures == {"Custom", "NoneUnicode", "OpenSSLError", "Unknown",
             "NetworkError", "Spawn", "panic"}

LEMMA ReturnInv ==
  ASSUME SetupInv, pc # "done", NEW err \in Failures, Return(err)
  PROVE  SetupInv'
<1>1. /\ pc' = "done" /\ result' = err /\ err \notin {"none", "Ok"}
      /\ quic' = IF quic = "live" THEN "freed" ELSE quic
      /\ socket' = IF socket = "bound" THEN "closed" ELSE socket
      /\ handler' = IF handler \in {"config", "picoquic"} THEN "freed"
                    ELSE handler
      /\ c_ctx' = IF c_ctx = 2 THEN 1 ELSE c_ctx
      /\ UNCHANGED <<config, in_effect, client_auth, keep_alive>>
  BY DEF Return, FreeQuic, Failures
<1>2. TypeOK'
  BY <1>1 DEF SetupInv, TypeOK, Failures
<1>3. ResourceInv' /\ ConfigInv'
  BY <1>1 DEF ResourceInv, ConfigInv, Verified, Created
<1>4. handler \in {"none", "config", "picoquic"}
  BY DEF SetupInv, TypeOK, ResourceInv
<1>5. c_ctx' \in 0..1
  BY <1>1 DEF SetupInv, TypeOK
<1>6. FailedSetupIsUndone' /\ CredentialsTakeEffect'
  BY <1>1, <1>4, <1>5 DEF FailedSetupIsUndone, CredentialsTakeEffect
<1>7. QED
  BY <1>2, <1>3, <1>6 DEF SetupInv

(* One set_tls_* call fails, has nothing to do, or takes effect.           *)
LEMMA SetCredentialCases ==
  ASSUME SetupInv, NEW k \in Credentials, NEW refused \in BOOLEAN,
         SetCredential(k, refused)
  PROVE  /\ pc = k
         /\ \/ \E err \in Failures : Return(err)
            \/ /\ config.memory[k] = "none"
               /\ Goto(k, After(k)) /\ UNCHANGED setupVars
            \/ /\ config.memory[k] # "none"
               /\ Goto(k, After(k)) /\ in_effect' = InEffect(k)
               /\ UNCHANGED <<c_ctx, quic, client_auth, handler, socket,
                              keep_alive>>
<1>1. config.memory[k] \in {"none", "DER", "PEM", "badPEM"}
  BY SetupAssumptions DEF SetupInv, TypeOK
<1>2. {"OpenSSLError", "Unknown", "Custom"} \subseteq Failures
  BY DEF Failures
<1>3. CASE config.memory[k] = "none"
  BY <1>3, Zenon DEF SetCredential
<1>4. CASE config.memory[k] = "badPEM"
  BY <1>2, <1>4, Zenon DEF SetCredential
<1>5. CASE config.memory[k] \in {"DER", "PEM"} /\ refused
  BY <1>2, <1>5, Zenon DEF SetCredential, Refused
<1>6. CASE config.memory[k] \in {"DER", "PEM"} /\ ~refused
  BY <1>6, Zenon DEF SetCredential
<1>7. QED
  BY <1>1, <1>3, <1>4, <1>5, <1>6

LEMMA AfterValues ==
  After("chain") = "key" /\ After("key") = "root" /\ After("root") = "handler"
BY DEF After

LEMMA SetCredentialStep ==
  ASSUME SetupInv, NEW k \in Credentials, NEW refused \in BOOLEAN,
         SetCredential(k, refused)
  PROVE  SetupInv'
<1>1. pc = k /\ pc \in {"chain", "key", "root"}
  BY SetCredentialCases DEF Credentials
<1>2. ASSUME NEW err \in Failures, Return(err) PROVE SetupInv'
  BY <1>1, <1>2, ReturnInv
<1>3. ASSUME Goto(k, After(k)), in_effect' \in [Credentials -> Sources],
             in_effect'[k] = Effective(k),
             \A j \in Credentials : j # k => in_effect'[j] = in_effect[j],
             UNCHANGED <<c_ctx, quic, client_auth, handler, socket, keep_alive>>
      PROVE  SetupInv'
  <2>1. /\ pc' = After(k) /\ UNCHANGED <<config, result>>
        /\ pc' \in {"key", "root", "handler"}
    BY <1>1, <1>3, AfterValues DEF Goto
  <2>2. TypeOK'
    BY <1>3, <2>1 DEF SetupInv, TypeOK, Credentials, Sources
  <2>3. ResourceInv'
    BY <1>1, <1>3, <2>1 DEF SetupInv, ResourceInv, Created
  <2>4. \A j \in Credentials : j \in Applied' <=> j \in Applied \/ j = k
    BY <1>1, <2>1, AfterValues DEF Applied, Credentials
  <2>5. \A j \in Credentials :
          in_effect'[j] = IF j \in Applied' THEN Effective(j)
                          ELSE FromFile(j)
    BY <1>1, <1>3, <2>4 DEF SetupInv, ConfigInv, Created
  <2>6. ConfigInv'
    BY <1>1, <1>3, <2>1, <2>5
    DEF SetupInv, ConfigInv, Created, Verified, Effective, FromFile,
        KeyAndChainAgree, FilesExist, IsSet
  <2>7. FailedSetupIsUndone' /\ CredentialsTakeEffect'
    BY <1>1, <2>1 DEF SetupInv, ResourceInv, FailedSetupIsUndone,
                      CredentialsTakeEffect
  <2>8. QED
    BY <2>2, <2>3, <2>6, <2>7 DEF SetupInv
<1>4. in_effect[k] = FromFile(k) /\ in_effect \in [Credentials -> Sources]
  BY <1>1 DEF SetupInv, ConfigInv, Created, Applied, TypeOK, Sources
<1>5. CASE /\ config.memory[k] = "none"
           /\ Goto(k, After(k)) /\ UNCHANGED setupVars
  BY <1>3, <1>4, <1>5 DEF Effective, setupVars
<1>6. CASE /\ config.memory[k] # "none"
           /\ Goto(k, After(k)) /\ in_effect' = InEffect(k)
           /\ UNCHANGED <<c_ctx, quic, client_auth, handler, socket,
                          keep_alive>>
  <2>1. in_effect' \in [Credentials -> Sources]
    BY <1>4, <1>6 DEF InEffect, Sources
  <2>2. /\ in_effect'[k] = Effective(k)
        /\ \A j \in Credentials : j # k => in_effect'[j] = in_effect[j]
    BY <1>4, <1>6 DEF InEffect, Effective
  <2>3. QED
    BY <1>3, <1>6, <2>1, <2>2
<1>7. QED
  BY <1>2, <1>5, <1>6, SetCredentialCases

LEMMA SetupStep == SetupInv /\ [Next]_vars => SetupInv'
<1> SUFFICES ASSUME SetupInv, [Next]_vars PROVE SetupInv'
  OBVIOUS
<1>r. ASSUME NEW err \in Failures, Return(err), pc # "done" PROVE SetupInv'
  BY <1>r, ReturnInv
<1>1. CASE Verify
  <2>1. CASE KeyAndChainAgree /\ FilesExist
    <3>1. pc = "config" /\ pc' = "ccontext" /\ UNCHANGED <<config, result, setupVars>>
      BY <1>1, <2>1 DEF Verify
    <3>2. TypeOK'
      BY <3>1 DEF SetupInv, TypeOK, setupVars
    <3>3. ResourceInv' /\ ConfigInv'
      BY <2>1, <3>1 DEF SetupInv, ResourceInv, ConfigInv, Created, Verified,
         setupVars, KeyAndChainAgree, FilesExist, IsSet
    <3>4. FailedSetupIsUndone' /\ CredentialsTakeEffect'
      BY <3>1 DEF SetupInv, ResourceInv, FailedSetupIsUndone,
                  CredentialsTakeEffect
    <3>5. QED
      BY <3>2, <3>3, <3>4 DEF SetupInv
  <2>2. CASE ~(KeyAndChainAgree /\ FilesExist)
    BY <1>1, <1>r, <2>2 DEF Verify, Failures
  <2>3. QED
    BY <2>1, <2>2
<1>2. CASE NewCContext
  <2>1. /\ pc = "ccontext" /\ pc' = "create" /\ keep_alive' = KeepAliveRoles
        /\ c_ctx' = 2
        /\ UNCHANGED <<config, result, quic, in_effect, client_auth, handler,
                       socket>>
    BY <1>2 DEF NewCContext, Goto
  <2>2. TypeOK'
    BY <2>1 DEF SetupInv, TypeOK, KeepAliveRoles
  <2>3. ResourceInv' /\ ConfigInv'
    BY <2>1 DEF SetupInv, ResourceInv, ConfigInv, Created, Verified,
       KeyAndChainAgree, FilesExist, IsSet
  <2>4. FailedSetupIsUndone' /\ CredentialsTakeEffect'
    BY <2>1 DEF SetupInv, ResourceInv, FailedSetupIsUndone,
                CredentialsTakeEffect
  <2>5. QED
    BY <2>2, <2>3, <2>4 DEF SetupInv
<1>3. CASE CreateQuic
  <2>1. CASE \E k \in Credentials : config.file[k] = "nonUnicode"
    BY <1>3, <1>r, <2>1 DEF CreateQuic, Failures
  <2>2. CASE \A k \in Credentials : config.file[k] # "nonUnicode"
    <3>1. /\ pc = "create" /\ pc' = "auth" /\ quic' = "live"
          /\ in_effect' = [k \in Credentials |-> FromFile(k)]
          /\ UNCHANGED <<config, result, c_ctx, client_auth, handler, socket,
                         keep_alive>>
      BY <1>3, <2>2 DEF CreateQuic, Goto
    <3>2. config.file \in [Credentials -> {"none", "file"}]
      <4>1. config.file \in [Credentials -> {"none"} \cup FileNames]
        BY DEF SetupInv, TypeOK
      <4>2. \A k \in Credentials : config.file[k] # "missing"
        BY <3>1 DEF SetupInv, ConfigInv, Verified, FilesExist
      <4>3. QED
        BY <2>2, <4>1, <4>2, SetupAssumptions
    <3>3. TypeOK'
      BY <3>1 DEF SetupInv, TypeOK, FromFile
    <3>4. ResourceInv'
      BY <3>1 DEF SetupInv, ResourceInv, Created
    <3>5. Applied' = {}
      BY <3>1 DEF Applied
    <3>6. ConfigInv'
      BY <3>1, <3>2, <3>5 DEF SetupInv, ConfigInv, Created, Verified,
         FromFile, KeyAndChainAgree, FilesExist, IsSet
    <3>7. FailedSetupIsUndone' /\ CredentialsTakeEffect'
      BY <3>1 DEF SetupInv, ResourceInv, FailedSetupIsUndone,
                  CredentialsTakeEffect
    <3>8. QED
      BY <3>3, <3>4, <3>6, <3>7 DEF SetupInv
  <2>3. QED
    BY <2>1, <2>2
<1>4. CASE CreateFails
  BY <1>4, <1>r DEF CreateFails, Failures
(* The steps between picoquic_create and the end that leave the            *)
(* credentials alone.                                                      *)
<1>h. ASSUME pc \in Created, pc' \in Created, Applied' = Applied, TypeOK',
             ResourceInv', UNCHANGED <<config, in_effect>>
      PROVE  SetupInv'
  <2>1. ConfigInv'
    BY <1>h DEF SetupInv, ConfigInv, Created, Verified, Effective, FromFile,
       KeyAndChainAgree, FilesExist, IsSet
  <2>2. FailedSetupIsUndone' /\ CredentialsTakeEffect'
    BY <1>h DEF ResourceInv, Created, FailedSetupIsUndone,
                CredentialsTakeEffect
  <2>3. QED
    BY <1>h, <2>1, <2>2 DEF SetupInv
<1>5. CASE SetClientAuthentication
  <2>1. /\ pc = "auth" /\ pc' = "chain"
        /\ client_auth' = config.client_authentication
        /\ UNCHANGED <<config, result, c_ctx, quic, in_effect, handler,
                       socket, keep_alive>>
    BY <1>5 DEF SetClientAuthentication, Goto
  <2>2. TypeOK'
    BY <2>1 DEF SetupInv, TypeOK, Credentials
  <2>3. ResourceInv' /\ Applied' = Applied
    BY <2>1 DEF SetupInv, ResourceInv, Created, Applied
  <2>4. QED
    BY <1>h, <2>1, <2>2, <2>3 DEF Created
<1>6. ASSUME NEW k \in Credentials, NEW refused \in BOOLEAN,
             SetCredential(k, refused)
      PROVE  SetupInv'
  BY <1>6, SetCredentialStep
<1>7. CASE SetupCallback
  <2>1. /\ pc = "handler" /\ pc' = "bind"
        /\ handler' = IF handler = "config" THEN "picoquic" ELSE handler
        /\ UNCHANGED <<config, result, c_ctx, quic, in_effect, client_auth,
                       socket, keep_alive>>
    BY <1>7 DEF SetupCallback, Goto
  <2>2. TypeOK'
    BY <2>1 DEF SetupInv, TypeOK
  <2>3. ResourceInv' /\ Applied' = Applied
    BY <2>1 DEF SetupInv, ResourceInv, Created, Applied
  <2>4. QED
    BY <1>h, <2>1, <2>2, <2>3 DEF Created
<1>8. CASE SetupCallbackFails
  <2>1. /\ pc = "handler" /\ pc' = "done" /\ result' = "OutOfMemoryError"
        /\ handler' = "leaked" /\ quic' = "freed" /\ c_ctx' = 1
        /\ UNCHANGED <<config, in_effect, client_auth, socket, keep_alive>>
        /\ socket = "none"
    BY <1>8 DEF SetupCallbackFails, FreeQuic, SetupInv, ResourceInv, Created
  <2>2. TypeOK'
    BY <2>1 DEF SetupInv, TypeOK
  <2>3. ResourceInv' /\ ConfigInv'
    BY <2>1 DEF ResourceInv, ConfigInv, Created, Verified
  <2>4. FailedSetupIsUndone' /\ CredentialsTakeEffect'
    BY <2>1 DEF FailedSetupIsUndone, CredentialsTakeEffect
  <2>5. QED
    BY <2>2, <2>3, <2>4 DEF SetupInv
<1>9. ASSUME NEW ok \in BOOLEAN, Bind(ok) PROVE SetupInv'
  <2>1. CASE ok
    <3>1. /\ pc = "bind" /\ pc' = "spawn" /\ socket' = "bound"
          /\ UNCHANGED <<config, result, c_ctx, quic, in_effect, client_auth,
                         handler, keep_alive>>
      BY <1>9, <2>1 DEF Bind, Goto
    <3>2. TypeOK'
      BY <3>1 DEF SetupInv, TypeOK
    <3>3. ResourceInv' /\ Applied' = Applied
      BY <3>1 DEF SetupInv, ResourceInv, Created, Applied
    <3>4. QED
      BY <1>h, <3>1, <3>2, <3>3 DEF Created
  <2>2. CASE ~ok
    BY <1>9, <1>r, <2>2 DEF Bind, Failures
  <2>3. QED
    BY <2>1, <2>2
<1>10. ASSUME NEW ok \in BOOLEAN, Spawn(ok) PROVE SetupInv'
  <2>1. CASE ok
    <3>1. /\ pc = "spawn" /\ pc' = "done" /\ result' = "Ok"
          /\ UNCHANGED <<config, setupVars>>
      BY <1>10, <2>1 DEF Spawn
    <3>2. TypeOK'
      BY <3>1 DEF SetupInv, TypeOK, setupVars
    <3>3. ResourceInv' /\ ConfigInv'
      BY <3>1 DEF ResourceInv, ConfigInv, Created, Verified
    <3>4. FailedSetupIsUndone'
      BY <3>1 DEF SetupInv, ResourceInv, Created, FailedSetupIsUndone,
                  setupVars
    <3>5. /\ \A k \in Credentials : in_effect[k] = Effective(k)
          /\ KeyAndChainAgree
      BY <3>1 DEF SetupInv, ConfigInv, Created, Verified, Applied
    <3>6. \A k \in Credentials : IsSet(k) <=> in_effect[k] # {}
      BY <3>5 DEF Effective, FromFile, IsSet
    <3>7. "key" \in Credentials /\ "chain" \in Credentials
      BY DEF Credentials
    <3>8. in_effect["key"] # {} <=> in_effect["chain"] # {}
      BY <3>5, <3>6, <3>7 DEF KeyAndChainAgree
    <3>9. ASSUME NEW k \in Credentials, config.memory[k] # "none"
          PROVE  /\ "memory" \in in_effect[k]
                 /\ k # "root" => "file" \notin in_effect[k]
      <4>1. in_effect[k] = IF k = "root" THEN FromFile(k) \cup {"memory"}
                           ELSE {"memory"}
        BY <3>5, <3>9 DEF Effective
      <4>2. QED
        BY <4>1
    <3>10. CredentialsTakeEffect'
      BY <3>1, <3>6, <3>8, <3>9 DEF CredentialsTakeEffect, IsSet, setupVars
    <3>11. QED
      BY <3>2, <3>3, <3>4, <3>10 DEF SetupInv
  <2>2. CASE ~ok
    BY <1>10, <1>r, <2>2 DEF Spawn, Failures
  <2>3. QED
    BY <2>1, <2>2
<1>11. CASE UNCHANGED vars
  <2>1. /\ UNCHANGED <<config, pc, result, c_ctx, quic, in_effect>>
        /\ UNCHANGED <<client_auth, handler, socket, keep_alive>>
    BY <1>11 DEF vars
  <2>2. TypeOK' /\ ResourceInv'
    BY <2>1 DEF SetupInv, TypeOK, ResourceInv
  <2>3. ConfigInv'
    BY <2>1 DEF SetupInv, ConfigInv, Applied, Effective, FromFile,
       KeyAndChainAgree, FilesExist, IsSet
  <2>4. FailedSetupIsUndone' /\ CredentialsTakeEffect'
    BY <2>1 DEF SetupInv, FailedSetupIsUndone, CredentialsTakeEffect, IsSet
  <2>5. QED
    BY <2>2, <2>3, <2>4 DEF SetupInv
<1>12. QED
  BY <1>1, <1>2, <1>3, <1>4, <1>5, <1>6, <1>7, <1>8, <1>9, <1>10, <1>11,
     SettersStep
  DEF Next

------------------------------------------------------------------------------
LEMMA SetupAlways == Spec => []SetupInv
BY SetupInit, SetupStep, PTL DEF Spec

(* Every variable of the setup keeps its type: CContext never has more     *)
(* than the two references that ContextInner::new asserts, and picoquic    *)
(* gets no name of a file that does not exist.                             *)
THEOREM SetupTypes == Spec => []TypeOK
<1>1. SetupInv => TypeOK
  BY DEF SetupInv
<1>2. QED
  BY <1>1, SetupAlways, PTL

(* Whichever of the steps of Context::new returns early, the picoquic      *)
(* context, the socket, the handler and the reference `context` are gone;  *)
(* all are there when it succeeds.                                         *)
THEOREM FailedSetupAlwaysUndone == Spec => []FailedSetupIsUndone
<1>1. SetupInv => FailedSetupIsUndone
  BY DEF SetupInv
<1>2. QED
  BY <1>1, SetupAlways, PTL

(* A Context that was created uses every credential of its Config, in      *)
(* memory before the file for the chain and the key, and has a key if and  *)
(* only if it has a chain, whatever the order of the setters and whatever  *)
(* picoquic and OpenSSL refused on the way.                                *)
THEOREM CredentialsAlwaysTakeEffect == Spec => []CredentialsTakeEffect
<1>1. SetupInv => CredentialsTakeEffect
  BY DEF SetupInv
<1>2. QED
  BY <1>1, SetupAlways, PTL
==============================================================================
