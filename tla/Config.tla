------------------------------- MODULE Config -------------------------------
(***************************************************************************)
(* The configuration snapshot: defaults, the file over them, the allowed   *)
(* environment variables over both, and the rules a candidate must meet.   *)
(*   src/internal/config/config.go                                         *)
(* Durations are milliseconds, the sample ratio is a percentage. An issuer *)
(* is what url.Parse makes of it; an address or a file is a name or Unset. *)
(* A layer maps <<section, key>> to a value.                               *)
(***************************************************************************)
EXTENDS Integers

Second == 1000
Minute == 60 * Second
Hour   == 60 * Minute
MiB    == 1024 * 1024

Unset == ""

Clients == {"control", "knowledge", "mcp"}
Owners  == {"knowledge", "mcp"}
----------------------------------------------------------------------------
(* The sections of a snapshot.                                             *)

HTTP == [listen : STRING, read_header_timeout : Int, body_limit_bytes : Int,
         shutdown_timeout : Int]

\* A client section with its identity block: mode and the files it names.
Control == [address : STRING, mode : STRING, cert_file : STRING, key_file : STRING,
            ca_file : STRING, server_name : STRING]
Owner   == [address : STRING, mode : STRING, cert_file : STRING, key_file : STRING,
            ca_file : STRING, server_name : STRING, timeout : Int]

Identity == [cert_file : STRING, key_file : STRING, ca_file : STRING, reload_interval : Int]

ClientTLS == [mode : STRING, cert_file : STRING, key_file : STRING, ca_file : STRING,
              server_name : STRING]

Auth == [mode : STRING, principals_file : STRING]
OIDC == [issuer : STRING, audience : STRING, algorithms : SUBSET STRING, clock_skew : Int,
         ca_file : STRING, timeout : Int, tenant : STRING, project : STRING,
         actor : STRING, roles : STRING]

SSE == [heartbeat_interval : Int, frame_buffer : Int, slow_consumer_grace : Int,
        write_timeout : Int, max_streams : Int, max_streams_per_principal : Int,
        retry_base : Int]

Telemetry == [otlp_endpoint : STRING, sample_ratio : Int, metrics_listen : STRING]

Snapshot ==
    [development : [enabled : BOOLEAN], identity : Identity, telemetry : Telemetry,
     otlp_tls : ClientTLS, http : HTTP, control : Control, auth : Auth, oidc : OIDC,
     sse : SSE, artifacts : [transfer_window : Int], preparations : [profile : STRING],
     knowledge : Owner, mcp : Owner]

FileKeys == {"cert_file", "key_file", "ca_file"}

\* The reviewed baseline; what it leaves out is the zero value.
defaults ==
    [development |-> [enabled |-> FALSE],
     identity |-> [cert_file |-> Unset, key_file |-> Unset, ca_file |-> Unset,
                   reload_interval |-> 5 * Second],
     telemetry |-> [otlp_endpoint |-> Unset, sample_ratio |-> 100, metrics_listen |-> Unset],
     otlp_tls |-> [mode |-> "tls", cert_file |-> Unset, key_file |-> Unset, ca_file |-> Unset,
                   server_name |-> Unset],
     http |-> [listen |-> "127.0.0.1:9100", read_header_timeout |-> 10 * Second,
               body_limit_bytes |-> 256 * 1024, shutdown_timeout |-> 20 * Second],
     control |-> [address |-> Unset, mode |-> "mtls", cert_file |-> Unset, key_file |-> Unset,
                  ca_file |-> Unset, server_name |-> Unset],
     auth |-> [mode |-> "oidc", principals_file |-> Unset],
     oidc |-> [issuer |-> Unset, audience |-> "anvilkit-agent-api",
               algorithms |-> {"RS256", "ES256"}, clock_skew |-> 30 * Second,
               ca_file |-> Unset, timeout |-> 10 * Second, tenant |-> "tenant",
               project |-> "project", actor |-> "sub", roles |-> "roles"],
     sse |-> [heartbeat_interval |-> 15 * Second, frame_buffer |-> 64,
              slow_consumer_grace |-> 5 * Second, write_timeout |-> 10 * Second,
              max_streams |-> 512, max_streams_per_principal |-> 32,
              retry_base |-> 3 * Second],
     artifacts |-> [transfer_window |-> 15 * Minute],
     preparations |-> [profile |-> "preparation-v1"],
     knowledge |-> [address |-> Unset, mode |-> "mtls", cert_file |-> Unset, key_file |-> Unset,
                    ca_file |-> Unset, server_name |-> Unset, timeout |-> 30 * Second],
     mcp |-> [address |-> Unset, mode |-> "mtls", cert_file |-> Unset, key_file |-> Unset,
              ca_file |-> Unset, server_name |-> Unset, timeout |-> 60 * Second]]

envOverrides_Guard ==   \* mutant: the development guard can be set by a variable
    [CONTROL_ADDRESS |-> <<"control", "address">>, AUTH_MODE |-> <<"auth", "mode">>,
     DEVELOPMENT_ENABLED |-> <<"development", "enabled">>]

\* The environment variables of a placement, by their name after ANVILKIT_API_.
envOverrides ==
    [LISTEN |-> <<"http", "listen">>, CONTROL_ADDRESS |-> <<"control", "address">>,
     AUTH_MODE |-> <<"auth", "mode">>, PRINCIPALS_FILE |-> <<"auth", "principals_file">>,
     AUTH_OIDC_ISSUER |-> <<"oidc", "issuer">>, AUTH_OIDC_AUDIENCE |-> <<"oidc", "audience">>,
     AUTH_OIDC_CA_FILE |-> <<"oidc", "ca_file">>,
     KNOWLEDGE_ADDRESS |-> <<"knowledge", "address">>, MCP_ADDRESS |-> <<"mcp", "address">>,
     TELEMETRY_OTLP_ENDPOINT |-> <<"telemetry", "otlp_endpoint">>,
     TELEMETRY_METRICS_LISTEN |-> <<"telemetry", "metrics_listen">>,
     IDENTITY_CERT_FILE |-> <<"identity", "cert_file">>,
     IDENTITY_KEY_FILE |-> <<"identity", "key_file">>,
     IDENTITY_CA_FILE |-> <<"identity", "ca_file">>]
----------------------------------------------------------------------------
(* The rules of a candidate.                                               *)

Within(v, lo, hi) == lo <= v /\ v <= hi

signingAlgorithms == {"RS256", "RS384", "RS512", "ES256", "ES384", "ES512",
                      "PS256", "PS384", "PS512", "EdDSA"}

\* A client's files: its own, else those of the process.
Resolved(c, client) ==
    [f \in FileKeys |-> IF c[client][f] # Unset THEN c[client][f] ELSE c.identity[f]]

validateTLS(t, development) ==
    \/ t.mode = "development" /\ development
    \/ t.mode = "tls" /\ t.ca_file # Unset
    \/ t.mode = "mtls" /\ t.ca_file # Unset /\ t.cert_file # Unset /\ t.key_file # Unset

\* An issuer is "https" or "http" when it is an absolute URL of that scheme
\* with a host and no user, query or fragment.
validateOIDC(o, development) ==
    /\ o.issuer \in {"https", "http"}
    /\ o.issuer = "http" => development
    /\ o.audience # Unset
    /\ o.algorithms # {} /\ o.algorithms \subseteq signingAlgorithms
    /\ Within(o.clock_skew, 0, 5 * Minute)
    /\ Within(o.timeout, Second, Minute)
    /\ o.tenant # Unset /\ o.actor # Unset

\* The connections the process will open: Control and the placed owners.
Placed(c) == {"control"} \cup {o \in Owners : c[o].address # Unset}

validateIdentity(c) ==
    /\ Within(c.identity.reload_interval, 100, Hour)
    /\ \A client \in Placed(c) :
         \/ c[client].mode = "mtls" /\ \A f \in FileKeys : Resolved(c, client)[f] # Unset
         \/ c[client].mode = "development" /\ c.development.enabled
    /\ c.telemetry.otlp_endpoint # Unset => validateTLS(c.otlp_tls, c.development.enabled)

MaxShutdownTimeout == 5 * Minute

validateSSE(s) ==
    /\ Within(s.heartbeat_interval, Second, 5 * Minute)
    /\ Within(s.frame_buffer, 1, 4096)
    /\ Within(s.slow_consumer_grace, 100, Minute)
    /\ Within(s.write_timeout, 100, Minute)
    /\ s.write_timeout <= s.slow_consumer_grace + s.heartbeat_interval
    /\ Within(s.max_streams, 1, 65536)
    /\ Within(s.max_streams_per_principal, 1, s.max_streams)
    /\ Within(s.retry_base, Second, Minute)

validateAuth(c) ==
    \/ c.auth.mode = "oidc" /\ validateOIDC(c.oidc, c.development.enabled)
    \/ c.auth.mode = "fixture" /\ c.development.enabled /\ c.auth.principals_file # Unset

MaxBodyLimit == 16 * MiB

validateHTTP(h) ==
    /\ h.listen # Unset
    /\ Within(h.read_header_timeout, Second, Minute)
    /\ Within(h.body_limit_bytes, 1024, MaxBodyLimit)
    /\ Within(h.shutdown_timeout, Second, MaxShutdownTimeout)

validateTelemetry(t, listen) ==
    /\ Within(t.sample_ratio, 0, 100)
    /\ t.metrics_listen # Unset => t.metrics_listen # listen

validate(c) ==
    /\ c.control.address # Unset
    /\ validateTelemetry(c.telemetry, c.http.listen)
    /\ \A o \in Owners : Within(c[o].timeout, Second, 10 * Minute)
    /\ validateHTTP(c.http)
    /\ validateAuth(c)
    /\ validateSSE(c.sse)
    /\ c.preparations.profile # Unset
    /\ Within(c.artifacts.transfer_window, Minute, 24 * Hour)
    /\ validateIdentity(c)
----------------------------------------------------------------------------
(* Loading.                                                                *)

Keys == UNION {{<<s, k>> : k \in DOMAIN defaults[s]} : s \in DOMAIN defaults}

Overlay(c, layer) ==
    [s \in DOMAIN c |-> [k \in DOMAIN c[s] |->
        IF <<s, k>> \in DOMAIN layer THEN layer[<<s, k>>] ELSE c[s][k]]]

applyEnv(c, env) ==
    [s \in DOMAIN c |-> [k \in DOMAIN c[s] |->
        LET names == {n \in DOMAIN env \cap DOMAIN envOverrides : envOverrides[n] = <<s, k>>} IN
        IF names # {} THEN env[CHOOSE n \in names : TRUE] ELSE c[s][k]]]

\* The snapshot of a file and an environment, and whether it is accepted: no
\* unknown variable, no unknown key, a value of each key's type, every rule met.
LoadFrom(file, env) == applyEnv(Overlay(defaults, file), env)

Accepted(file, env) ==
    /\ DOMAIN env \subseteq DOMAIN envOverrides
    /\ DOMAIN file \subseteq Keys
    /\ LoadFrom(file, env) \in Snapshot
    /\ validate(LoadFrom(file, env))
=============================================================================
