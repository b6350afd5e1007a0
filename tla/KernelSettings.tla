--------------------------- MODULE KernelSettings ---------------------------
(***************************************************************************)
(* The start of the kernel (crates/services/safety-kernel/src: settings.rs,*)
(* key_backend.rs, transparency_client.rs, tls.rs, main.rs): which         *)
(* environments it starts in, and whether it then has a client for the     *)
(* transparency log.  A secret, an address or a PEM file is present or not,*)
(* and good or bad where the code looks inside.                            *)
(***************************************************************************)

Material == {"absent", "bad", "good"}

KernelEnv ==
    [prod : BOOLEAN,                     \* QORCH_ENV, trimmed, is prod or production
     backend : {"env", "gcp", "other"},  \* KERNEL_KEY_BACKEND
     gcp : BOOLEAN,                      \* its project and secret are named
     seed : Material,                    \* what the backend yields
     pepper : Material,                  \* QORCH_KERNEL_AUDIT_PEPPER_B64
     callers : BOOLEAN,                  \* the keys of worker and api
     operator : BOOLEAN,                 \* the key of the operator
     flag : {"unset", "on", "off"},      \* QORCH_KERNEL_TRANSPARENCY_ENABLED
     logUrl : BOOLEAN,
     logKey : BOOLEAN,
     cert : Material,                    \* the client certificate for the log
     certKey : BOOLEAN,                  \* and its key
     tls : Material]                     \* the listener's certificate and key

TransparencyEnabled(e) == e.flag = "on" \/ (e.flag = "unset" /\ e.prod)

\* The backend is implemented and configured; a raw seed in the environment
\* is forbidden in production.
KeyBackendConfigured(e) ==
    \/ e.backend = "env" /\ ~e.prod /\ e.seed # "absent"
    \/ e.backend = "gcp" /\ e.gcp

SecretsConfigured(e) ==
    /\ e.pepper # "absent"
    /\ e.callers
    /\ e.prod => e.operator

\* Production with the log needs its address, its key and a client identity.
LogConfigured(e) ==
    TransparencyEnabled(e) /\ e.prod =>
        e.logUrl /\ e.logKey /\ e.cert # "absent" /\ e.certKey

\* Settings::from_env.
FromEnv(e) == KeyBackendConfigured(e) /\ SecretsConfigured(e) /\ LogConfigured(e)

\* The secret manager answers with a seed; there is no fall-back.
FetchGcpSecret(e) == e.seed # "absent"

ResolveSigningKey(e) == e.backend = "gcp" => FetchGcpSecret(e)

\* 32 bytes, and a pepper that decodes.
KeysDecode(e) == e.seed = "good" /\ e.pepper = "good"

\* new_with_client_cert reads and parses both files, or fails.
NewWithClientCert(e) == IF e.cert = "good" THEN "mtls" ELSE "error"

\* build_optional_client.
BuildOptionalClient(e) ==
    CASE ~TransparencyEnabled(e) \/ ~e.logUrl \/ ~e.logKey -> "none"
      [] TransparencyEnabled(e) /\ e.logUrl /\ e.logKey ->
            IF e.cert # "absent" /\ e.certKey THEN NewWithClientCert(e) ELSE "api_key"

\* Either the client exists, or no production kernel wanted it.
ClientBuilt(e) ==
    /\ BuildOptionalClient(e) # "error"
    /\ e.prod /\ TransparencyEnabled(e) => BuildOptionalClient(e) # "none"

\* The certificate chain, the key and the client CAs are read and accepted.
BuildServerConfig(e) == e.tls = "good"

\* Plaintext only outside production.
Listens(e) == IF e.tls = "absent" THEN ~e.prod ELSE BuildServerConfig(e)

\* main reaches the point where requests are served.
Boots(e) == FromEnv(e) /\ ResolveSigningKey(e) /\ KeysDecode(e) /\ ClientBuilt(e) /\ Listens(e)

HasClient(e) == BuildOptionalClient(e) # "none"

Booted == {e \in KernelEnv : Boots(e)}

\* A production kernel that has not been told to do without the log.
Obliged(e) == e.prod /\ e.flag # "off"

\* The clients that obliged kernels come up with.
ObligedClients == {HasClient(e) : e \in {x \in Booted : Obliged(x)}}
=============================================================================
