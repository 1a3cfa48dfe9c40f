----------------------------- MODULE MCLifecycle ----------------------------
(* Values of the constants of Lifecycle for TLC. The files are a production *)
(* one, a development one and what differs from them in one or two keys:    *)
(* every numeric rule at its bounds and just outside, every mode, files     *)
(* named by a client itself, placements present and absent.                 *)
EXTENDS Lifecycle, TLC

CONSTANTS h1, h2

K(s, k) == <<s, k>>
With(file, s, k, v) == (K(s, k) :> v) @@ file

Production ==
    (K("control", "address") :> "ctl") @@ (K("identity", "cert_file") :> "crt")
    @@ (K("identity", "key_file") :> "key") @@ (K("identity", "ca_file") :> "ca")
    @@ (K("oidc", "issuer") :> "https")

Development ==
    (K("control", "address") :> "ctl") @@ (K("development", "enabled") :> TRUE)
    @@ (K("control", "mode") :> "development") @@ (K("auth", "mode") :> "fixture")
    @@ (K("auth", "principals_file") :> "principals")

\* Section, key, least and greatest value the rules accept.
Ranges ==
    {<<"http", "read_header_timeout", Second, Minute>>,
     <<"http", "body_limit_bytes", 1024, 16 * 1024 * 1024>>,
     <<"http", "shutdown_timeout", Second, MaxShutdownTimeout>>,
     <<"oidc", "clock_skew", 0, 5 * Minute>>, <<"oidc", "timeout", Second, Minute>>,
     <<"sse", "frame_buffer", 1, 4096>>, <<"sse", "max_streams_per_principal", 1, 512>>,
     <<"sse", "slow_consumer_grace", 100, Minute>>, <<"sse", "write_timeout", 100, 20 * Second>>,
     <<"sse", "retry_base", Second, Minute>>, <<"identity", "reload_interval", 100, Hour>>,
     <<"artifacts", "transfer_window", Minute, 24 * Hour>>, <<"mcp", "timeout", Second, 10 * Minute>>,
     <<"telemetry", "sample_ratio", 0, 100>>}

AtBounds ==
    UNION {{With(Production, r[1], r[2], v) : v \in {r[3] - 1, r[3], r[4], r[4] + 1}} : r \in Ranges}

\* Production with a collector, a metrics listener and both owners.
Full ==
    (K("telemetry", "otlp_endpoint") :> "otlp") @@ (K("otlp_tls", "mode") :> "mtls")
    @@ (K("otlp_tls", "cert_file") :> "crt") @@ (K("otlp_tls", "key_file") :> "key")
    @@ (K("otlp_tls", "ca_file") :> "ca") @@ (K("otlp_tls", "server_name") :> "collector")
    @@ (K("telemetry", "metrics_listen") :> "metrics")
    @@ (K("knowledge", "address") :> "kno") @@ (K("mcp", "address") :> "mcp") @@ Production

Files ==
    {Production, Development, Full, Unreadable,
     With(Full, "mcp", "cert_file", "crt2"), With(Full, "control", "ca_file", "ca2"),
     With(Full, "otlp_tls", "mode", "tls"), With(Full, "otlp_tls", "mode", "development"),
     With(Full, "otlp_tls", "server_name", ""), With(Full, "otlp_tls", "key_file", ""),
     With(Full, "knowledge", "mode", "development"), With(Full, "mcp", "mode", "other"),
     With(Full, "telemetry", "metrics_listen", "127.0.0.1:9100"),
     With(Full, "http", "shutdown_timeout", MaxShutdownTimeout),
     With(Production, "oidc", "issuer", "http"), With(Production, "oidc", "issuer", "ftp"),
     With(Production, "oidc", "algorithms", {"HS256"}), With(Production, "identity", "key_file", ""),
     With(Production, "auth", "mode", "fixture"), With(Production, "sse", "max_streams", 8),
     With(Production, "sse", "unknown", "x"), With(Production, "development", "enabled", FALSE),
     With(Development, "control", "mode", "mtls"),
     With(With(Development, "auth", "mode", "oidc"), "oidc", "issuer", "http")}

Environs ==
    {<<>>, "CONTROL_ADDRESS" :> "", "AUTH_MODE" :> "fixture", "AUTH_OIDC_ISSUER" :> "http",
     "DEVELOPMENT_ENABLED" :> TRUE, "IDENTITY_CA_FILE" :> "ca3",
     ("DEVELOPMENT_ENABLED" :> TRUE) @@ ("AUTH_MODE" :> "fixture")}

MCInputs == [file : Files, env : Environs] \cup [file : AtBounds, env : {<<>>}]
=============================================================================
