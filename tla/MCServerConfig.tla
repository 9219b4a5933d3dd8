--------------------------- MODULE MCServerConfig ---------------------------
(***************************************************************************)
(* webpkgserver with the default configuration, changed in two fields.     *)
(***************************************************************************)
EXTENDS Integers, Sequences

VARIABLES config, phase, errors, request, route

P(a, b) == <<"", a, b>>
URL(scheme, host, path) == [parses |-> TRUE, scheme |-> scheme, host |-> host, path |-> path]
Hours(h, unsafe) == [parses |-> TRUE, hours |-> h, unsafe |-> unsafe]
Empty == URL("", FALSE, <<"">>)
Data == URL("data", FALSE, <<"">>)
Sign(domain, path, query) == [domain |-> domain, path |-> path, query |-> query]

Default ==
  [Port |-> 8080, TLSPEMFile |-> FALSE, TLSKeyFile |-> FALSE,
   DocPath |-> P("priv", "doc"), CertPath |-> P("webpkg", "cert"),
   ValidityPath |-> P("webpkg", "validity"), HealthPath |-> <<"", "healthz">>, SignParam |-> TRUE,
   Expiry |-> Hours(168, FALSE), JSExpiry |-> Hours(24, FALSE),
   CertURLBase |-> URL("", FALSE, P("webpkg", "cert")),
   ValidityURL |-> URL("", FALSE, P("webpkg", "validity")),
   PEMFile |-> TRUE, KeyFile |-> TRUE, CacheDir |-> TRUE,
   Enable |-> FALSE, CSRFile |-> TRUE, DiscoveryURL |-> URL("https", TRUE, P("acme", "directory")),
   Email |-> TRUE, Challenges |-> {"HTTPChallengePort"},
   Sign |-> <<Sign(TRUE, "good", "good")>>, SizeLimit |-> 4194304]

\* Values that the comments of the example configuration rule out.
BadPaths == {<<"">>, <<"a">>, P("a", "."), P("a", "..") \o <<"b">>, <<"", "", "">>, P("", "a")}
BadDurations ==
  {[Hours(1, FALSE) EXCEPT !.parses = FALSE], Hours(0, FALSE), Hours(-1, FALSE), Hours(169, FALSE)}
BadURLs ==
  {Empty, [Empty EXCEPT !.parses = FALSE], URL("http", TRUE, P("a", "b")),
   URL("", TRUE, P("a", "b")), URL("", FALSE, <<"a">>)}
Bad ==
  [Port |-> {-1, 65536}, DocPath |-> BadPaths, CertPath |-> BadPaths, ValidityPath |-> BadPaths,
   SignParam |-> {FALSE}, Expiry |-> BadDurations \cup {Hours(24, TRUE)},
   JSExpiry |-> BadDurations \cup {Hours(25, FALSE), Hours(169, TRUE)},
   CertURLBase |-> BadURLs, ValidityURL |-> BadURLs \cup {Data}, PEMFile |-> {FALSE},
   KeyFile |-> {FALSE}, CSRFile |-> {FALSE}, Email |-> {FALSE}, Challenges |-> {{}},
   DiscoveryURL |-> BadURLs \cup {Data, URL("", FALSE, P("a", "b"))},
   Sign |-> {<<Sign(FALSE, "good", "good")>>, <<Sign(TRUE, "good", "good"), Sign(TRUE, "bad", "good")>>,
             <<Sign(TRUE, "good", "bad")>>},
   SizeLimit |-> {0, -1}]

Good ==
  [Port |-> {0, 65535}, TLSPEMFile |-> {TRUE}, TLSKeyFile |-> {TRUE},
   DocPath |-> {P("priv", "doc") \o <<"">>, P("webpkg", "validity")},
   CertPath |-> {P("webpkg", "cert") \o <<"">>, P("webpkg", "validity") \o <<"cert">>,
                 P("priv", "doc") \o <<"cert">>},
   ValidityPath |-> {P("webpkg", "")},
   HealthPath |-> {P("webpkg", "health")}, Expiry |-> {Hours(1, FALSE)},
   JSExpiry |-> {Hours(1, FALSE), Hours(25, TRUE), Hours(168, TRUE), Hours(1, TRUE)},
   CertURLBase |-> {Data, URL("https", TRUE, P("a", "b"))},
   ValidityURL |-> {URL("https", TRUE, P("a", "b"))}, CacheDir |-> {FALSE}, Enable |-> {TRUE},
   Sign |-> UNION {[1..n -> [domain : {TRUE}, path : {"good", "open quote"}, query : {"good"}]] : n \in 0..2},
   SizeLimit |-> {1}]

Values(f) ==
  (IF f \in DOMAIN Bad THEN Bad[f] ELSE {}) \cup (IF f \in DOMAIN Good THEN Good[f] ELSE {})
AllConfigs ==
  UNION {UNION {{[Default EXCEPT ![f] = v, ![g] = w] : v \in Values(f), w \in Values(g)}
                  : g \in DOMAIN Default} : f \in DOMAIN Default}
AllDocuments == {<<"https:", "", "example.com", "">>, <<"https:", "", "example.com", "..", "a">>}

INSTANCE ServerConfig WITH Configs <- AllConfigs, Documents <- AllDocuments

-----------------------------------------------------------------------------
ACMEFields == {"CSRFile", "DiscoveryURL", "Email", "Challenges"}

\* A configuration is rejected exactly when a comment of the example file rules
\* one of its values out, and the error is about every such value.
EveryBadFieldReported ==
  phase # "read" =>
    errors = {f \in DOMAIN Bad : config[f] \in Bad[f] /\ (f \in ACMEFields => config.Enable)}
               \cup (IF config.TLSPEMFile = config.TLSKeyFile THEN {} ELSE {"TLS"})

\* "be sure to call Verify on the tomlconfig.Config embedding; otherwise
\* FromTOMLConfig may panic with invalid config values": with verified values the
\* getters of durations and URLs do not panic. What Verify lets pass and panics are
\* two endpoints with one path, and a regular expression that compiles by itself
\* but not between the \A(?: and )\z that the getters put around it.
Endpoints(c) == <<Clean(c.DocPath), Append(Clean(c.CertPath), ""), Clean(c.ValidityPath), Clean(c.HealthPath)>>
VerifiedNeverPanics ==
  phase = "panic" =>
    \/ \E i, j \in 1..4 : i < j /\ Endpoints(config)[i] = Endpoints(config)[j]
    \/ \E s \in {config.Sign[i] : i \in DOMAIN config.Sign} : "open quote" \in {s.path, s.query}

\* Requests as the comments show them reach the endpoints that the configuration
\* names, document URLs with the double slash of https:// and with dots among
\* them. (An endpoint below DocPath is out of reach.)
RequestsReachEndpoints ==
  route = request.to \/ (route = "doc" /\ IsPrefix(config.DocPath, request.path))

=============================================================================
