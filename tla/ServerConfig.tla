---------------------------- MODULE ServerConfig ----------------------------
(***************************************************************************)
(* How webpkgserver starts: the TOML file is unmarshaled and verified      *)
(* (tomlconfig), a Server is built from it (server.FromTOMLConfig and      *)
(* NewHandler), main listens and serves, and requests are routed to the    *)
(* endpoints that the file names.                                          *)
(*                                                                         *)
(* A configuration is a record of the fields that decide something: a file *)
(* name is whether it is given, a duration is in hours, a path is as in    *)
(* Paths and a regular expression is a model of how it compiles.           *)
(***************************************************************************)
EXTENDS Integers, FiniteSets, Paths

CONSTANTS
  Configs,    \* what toml.Unmarshal may yield
  Documents   \* URLs to be signed, split at their slashes

VARIABLES
  config,
  phase,      \* "read", then "rejected", or "verified" and on to "serving"
  errors,     \* the fields that Verify's error is about
  request,    \* the last request: [to, path], and where it went
  route

vars == <<config, phase, errors, request, route>>

-----------------------------------------------------------------------------
(* tomlconfig *)

maxExpiry == 168
maxJSExpiry == 24

\* parseExpiry. A duration is [parses, hours, unsafe]; with a prefix it does not
\* parse.
parseExpiry(d) == d.parses /\ ~d.unsafe /\ d.hours > 0 /\ d.hours <= maxExpiry

parseJSExpiry(d) ==
  parseExpiry([d EXCEPT !.unsafe = FALSE]) /\ (d.hours > maxJSExpiry => d.unsafe)

\* A URL is [parses, scheme, host, path].
EmptyURL == [parses |-> TRUE, scheme |-> "", host |-> FALSE, path |-> <<"">>]

verifyAbsoluteURL(u) ==
  u # EmptyURL /\ u.parses /\ u.scheme = "https" /\ verifyServePath(u.path)

verifyURLImpl(u) ==
  /\ u # EmptyURL /\ u.parses
  /\ \/ u.scheme = "" /\ ~u.host /\ Rooted(u.path)
     \/ u.scheme = "https"
  /\ verifyServePath(u.path)

verifyValidityURL(u) == verifyURLImpl(u)
DataURL == [EmptyURL EXCEPT !.scheme = "data"]
verifyCertURL(u) == u = DataURL \/ verifyURLImpl(u)

\* A regular expression is how it compiles: "good" and "bad" ones do so whatever
\* they are enclosed in; an "open quote", \Q without \E, is good by itself and
\* takes what follows it for a part of the quoted text.
Compiles(re) == re # "bad"
CompilesEnclosed(re) == re = "good"

Unless(good, field) == IF good THEN {} ELSE {field}

Listen_verify(c) ==
  Unless(c.Port >= 0 /\ c.Port < 65536, "Port")
    \cup Unless(c.TLSPEMFile <=> c.TLSKeyFile, "TLS")
Server_verify(c) ==
  UNION {Unless(verifyServePath(c[f]), f) : f \in {"DocPath", "CertPath", "ValidityPath"}}
    \cup Unless(c.SignParam, "SignParam")
Cert_verify(c) == Unless(c.PEMFile, "PEMFile") \cup Unless(c.KeyFile, "KeyFile")
ACME_verify(c) ==
  IF ~c.Enable THEN {}
  ELSE Unless(c.CSRFile, "CSRFile") \cup Unless(verifyAbsoluteURL(c.DiscoveryURL), "DiscoveryURL")
         \cup Unless(c.Email, "Email") \cup Unless(c.Challenges # {}, "Challenges")
SXG_verify(c) ==
  Unless(parseExpiry(c.Expiry), "Expiry") \cup Unless(parseJSExpiry(c.JSExpiry), "JSExpiry")
    \cup Unless(verifyCertURL(c.CertURLBase), "CertURLBase")
    \cup Unless(verifyValidityURL(c.ValidityURL), "ValidityURL")
    \cup Cert_verify(c) \cup ACME_verify(c)
Sign_verify(c) ==
  Unless(\A i \in DOMAIN c.Sign : c.Sign[i].domain /\ Compiles(c.Sign[i].path) /\ Compiles(c.Sign[i].query),
         "Sign")
Processor_verify(c) == Unless(c.SizeLimit > 0, "SizeLimit")

\* Mutant: the first section with an error ends the verification.
Verify_First(c) ==
  LET sections == <<Listen_verify(c), Server_verify(c), SXG_verify(c), Sign_verify(c), Processor_verify(c)>>
      i == SelectInSeq(sections, LAMBDA s : s # {})
  IN  IF i = 0 THEN {} ELSE sections[i]

\* Config.Verify: the errors of all sections.
Verify(c) ==
  Listen_verify(c) \cup Server_verify(c) \cup SXG_verify(c) \cup Sign_verify(c) \cup Processor_verify(c)

-----------------------------------------------------------------------------
(* server.FromTOMLConfig *)

\* The getters of values that do not parse panic.
GetExpiry(c) == parseExpiry(c.Expiry)

\* Mutant: the prefix is left to time.ParseDuration.
GetJSExpiry_Untrimmed(c) == parseExpiry(c.JSExpiry)

GetJSExpiry(c) == parseJSExpiry(c.JSExpiry)
GetCertURLBase(c) == c.CertURLBase.parses
GetValidityURL(c) == c.ValidityURL.parses
GetREs(c) == \A i \in DOMAIN c.Sign : CompilesEnclosed(c.Sign[i].path) /\ CompilesEnclosed(c.Sign[i].query)

\* NewHandler discards trailing slashes.
Cleaned(c) ==
  [c EXCEPT !.DocPath = Clean(@), !.CertPath = Clean(@), !.ValidityPath = Clean(@),
            !.HealthPath = Clean(@)]

\* The patterns that NewHandler registers; http.ServeMux panics when two are the
\* same.
Patterns(c) ==
  <<[to |-> "cert", pattern |-> Append(c.CertPath, "")], [to |-> "doc", pattern |-> c.DocPath],
    [to |-> "validity", pattern |-> c.ValidityPath], [to |-> "health", pattern |-> c.HealthPath]>>
Registers(c) ==
  \A i, j \in DOMAIN Patterns(c) : i # j => Patterns(c)[i].pattern # Patterns(c)[j].pattern

\* Files and services that makeTLSConfig, makeCertManager and ReadPrivateKeyFile
\* use; each may fail.
Uses(c) ==
  {"private key"} \cup (IF c.TLSPEMFile THEN {"TLS key pair"} ELSE {})
    \cup (IF c.Enable THEN {"CSR", "ACME client"} ELSE {})
    \cup (IF c.CacheDir THEN {"cache directory"} ELSE {})

FromTOMLConfig ==
  /\ phase = "verified"
  /\ \E failed \in {{}} \cup {{x} : x \in Uses(config)} :
       phase' = CASE ~GetCertURLBase(config) -> "panic"
                  [] failed # {} -> "failed"
                  [] ~(GetREs(config) /\ GetValidityURL(config) /\ GetJSExpiry(config) /\ GetExpiry(config)) -> "panic"
                  [] ~Registers(Cleaned(config)) -> "panic"
                  [] OTHER -> "built"
  /\ config' = IF phase' = "built" THEN Cleaned(config) ELSE config
  /\ UNCHANGED <<errors, request, route>>

-----------------------------------------------------------------------------
(* main *)

NoRequest == [to |-> "none", path |-> <<>>]

Init ==
  /\ config \in Configs
  /\ phase = "read" /\ errors = {} /\ request = NoRequest /\ route = "none"

\* ParseConfig.
ParseConfig ==
  /\ phase = "read"
  /\ errors' = Verify(config)
  /\ phase' = IF errors' = {} THEN "verified" ELSE "rejected"
  /\ UNCHANGED <<config, request, route>>

\* run: net.Listen, then Serve or ServeTLS.
ListenAndServe ==
  /\ phase = "built"
  /\ phase' \in {"failed", IF config.TLSPEMFile THEN "serving TLS" ELSE "serving"}
  /\ UNCHANGED <<config, errors, request, route>>

-----------------------------------------------------------------------------
(* Handler.ServeHTTP: documents go by the prefix, the rest to the mux. *)

MuxClean(p) == IF Last(p) = "" /\ Clean(p) # Slash THEN Append(Clean(p), "") ELSE Clean(p)

\* http.ServeMux: a cleaned path, the exact pattern, else the longest one that
\* ends in a slash.
Mux(patterns, p) ==
  LET At(i) == patterns[i].pattern
      Matches(i) ==
        \/ At(i) = p
        \/ /\ Last(At(i)) = "" /\ Len(p) >= Len(At(i))
           /\ SubSeq(p, 1, Len(At(i)) - 1) = Front(At(i))
      matching == {i \in DOMAIN patterns : Matches(i)}
  IN  IF MuxClean(p) # p THEN "redirect"
      ELSE IF matching = {} THEN "not found"
      ELSE patterns[CHOOSE i \in matching : \A j \in matching : Len(At(j)) <= Len(At(i))].to

\* Mutant: documents go by the mux as well.
Route_Mux(c, p) == Mux(Patterns(c), p)

Route(c, p) ==
  IF Len(p) > Len(c.DocPath) /\ SubSeq(p, 1, Len(c.DocPath)) = c.DocPath
  THEN "doc" ELSE Mux(Patterns(c), p)

\* A request as the comments of the example configuration show them.
Requests(c) ==
  {[to |-> "doc", path |-> Clean(c.DocPath)], [to |-> "cert", path |-> Clean(c.CertPath) \o <<"digest">>],
   [to |-> "validity", path |-> Clean(c.ValidityPath)], [to |-> "health", path |-> Clean(c.HealthPath)]}
    \cup {[to |-> "doc", path |-> Clean(c.DocPath) \o d] : d \in Documents}

ServeHTTP ==
  /\ phase \in {"serving", "serving TLS"}
  /\ \E r \in Requests(config) : request' = r /\ route' = Route(config, r.path)
  /\ UNCHANGED <<config, phase, errors>>

Next == ParseConfig \/ FromTOMLConfig \/ ListenAndServe \/ ServeHTTP

Spec == Init /\ [][Next]_vars

=============================================================================
