---------------------------- MODULE LogSettings ----------------------------
(***************************************************************************)
(* The start of the transparency log (crates/services/transparency-log/src:*)
(* settings.rs, tls.rs, main.rs): which environments it starts in, and with*)
(* which keys.  A key that is absent closes the path that needs it; one    *)
(* that is present and bad ends the process.                               *)
(***************************************************************************)

Material == {"absent", "bad", "good"}

LogEnv ==
    [prod : BOOLEAN,        \* QORCH_ENV, untrimmed, is prod or production
     sth : Material,        \* the seed that signs tree heads
     kernelKey : Material,  \* the kernel's public key
     apiKey : Material,
     tls : Material,
     db : Material,         \* absent: the memory store
     ed25519 : Material,    \* the seed of the wave-session key
     hmac : Material,       \* the shared wave-session HMAC key
     mcp : Material,        \* the public key of POST /v1/audit/mcp
     drift : Material]      \* the public key of POST /v1/audit/drift

Present(x) == x # "absent"

\* Settings::from_env_source.
FromEnvSource(e) ==
    /\ Present(e.sth) /\ Present(e.kernelKey)
    /\ e.prod => \A x \in {e.apiKey, e.tls, e.db, e.ed25519, e.mcp} : Present(x)

\* The seed and the kernel's key are 32 bytes each.
KeysDecode(e) == e.sth = "good" /\ e.kernelKey = "good"

\* The pool connects and the migrations run, or there is no database.
StoreOpens(e) == e.db # "bad"

\* The optional keys are installed, or were not given.
KeysInstalled(e) == \A x \in {e.hmac, e.ed25519, e.mcp, e.drift} : x # "bad"

\* The certificate chain, the key and the client CAs are read and accepted.
BuildServerConfig(e) == e.tls = "good"

\* With TLS, or in plaintext.
Listens(e) == Present(e.tls) => BuildServerConfig(e)

LogBoots(e) ==
    FromEnvSource(e) /\ KeysDecode(e) /\ StoreOpens(e) /\ KeysInstalled(e) /\ Listens(e)
=============================================================================
