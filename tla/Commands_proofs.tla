------------------------- MODULE Commands_proofs -------------------------
(***************************************************************************)
(* Proofs about the two commands, for anything they may be given. The      *)
(* webpackager command does what MCCommandLine says of it for any command  *)
(* line: any number of URLs and headers, files of any length, any numbers  *)
(* and durations. webpkgserver starts with any configuration that Verify   *)
(* accepts, but for the two cases that MCServerConfig names.               *)
(***************************************************************************)
EXTENDS MCCommandLine, FiniteSetTheorems, TLAPS

Amount == [parses : BOOLEAN, value : Int]
URLFile == [given : BOOLEAN, opens : BOOLEAN, reads : BOOLEAN, lines : Seq(STRING)]

CommandLines ==
  [url : Seq(STRING), url_file : URLFile,
   request_header : Seq(BOOLEAN), version : STRING, mi_record_size : Amount,
   cert_url : STRING, cert_cbor : STRING, private_key : STRING, size_limit : Amount,
   expiry : Amount, js_expiry : Amount, insecure_js_expiry : BOOLEAN, validity_dir : BOOLEAN,
   date : STRING]

AnyCommand ==
  /\ flags \in CommandLines
  /\ pc = "urls" /\ urls = <<>> /\ date = NoDate /\ done = <<>> /\ errors = {}

IsSeq(s) == Len(s) \in Nat /\ s = [i \in 1..Len(s) |-> s[i]]

CommandTypes ==
  /\ flags \in CommandLines
  /\ pc \in {"urls", "config", "date", "package", "exit"}
  /\ done \in Seq(BOOLEAN) /\ IsSeq(urls)
  /\ pc \in {"config", "date", "package"} => Len(urls) > 0
  /\ pc \in {"urls", "config", "date"} => done = <<>> /\ errors = {}

\* The configuration has no errors from the date on, and the date is not to come.
ConfigGood == pc \in {"date", "package"} \/ done # <<>> => Bad(flags) = {}
DateGood == pc = "package" \/ done # <<>> => date \in Int /\ date # NoDate /\ date <= Now

\* The URLs that are done are those before the current one, and there are errors
\* when one of them failed.
Progress ==
  /\ pc = "package" => Len(done) < Len(urls)
  /\ pc = "exit" => done = <<>> \/ Len(done) = Len(urls)
  /\ done # <<>> \/ pc # "exit" => (errors = {} <=> \A i \in DOMAIN done : done[i])
  /\ pc = "exit" /\ done = <<>> => errors # {}

Reported ==
  pc = "exit" /\ urls # <<>> /\ done = <<>> /\ errors \cap {"date"} = {} => Bad(flags) \subseteq errors

CommandInv == CommandTypes /\ ConfigGood /\ DateGood /\ Progress /\ Reported

-----------------------------------------------------------------------------
\* The lines that readLines keeps are a sequence.
LEMMA ReadLinesSeq ==
  ASSUME NEW lines \in Seq(STRING)
  PROVE  IsSeq(readLines(lines))
<1> DEFINE kept == {i \in DOMAIN lines : lines[i] # ""}
           Line(n) == CHOOSE i \in kept : Cardinality({j \in kept : j <= i}) = n
           K == Cardinality(kept)
           read == [n \in 1..K |-> lines[Line(n)]]
<1>1. IsFiniteSet(1..Len(lines)) /\ kept \subseteq 1..Len(lines)
  <2>1. 0 \in Int /\ 1 \in Int /\ Len(lines) \in Int /\ DOMAIN lines = 1..Len(lines)
    OBVIOUS
  <2>2. IsFiniteSet(1..Len(lines))
    BY ONLY <2>1, FS_Interval
  <2> QED BY <2>1, <2>2
<1>2. IsFiniteSet(kept)
  BY ONLY <1>1, FS_Subset
<1>3. K \in Nat
  BY <1>2, FS_CardinalityType
<1>4. readLines(lines) = read
  BY DEF readLines
<1> HIDE DEF K, Line
<1>5. read \in Seq({lines[Line(n)] : n \in 1..K})
  BY <1>3
<1>6. Len(read) = K
  BY <1>3, <1>5
<1> HIDE DEF read
<1>7. read = [i \in 1..K |-> read[i]]
  BY <1>3 DEF read
<1> QED
  BY <1>3, <1>4, <1>6, <1>7 DEF IsSeq

\* getURLListFromFlags goes on with one URL at least.
LEMMA ListStep ==
  ASSUME CommandInv, getURLListFromFlags
  PROVE  CommandInv'
<1> DEFINE list == getURLStringList(flags)
<1>1. flags \in CommandLines /\ flags.url \in Seq(STRING) /\ flags.url_file.lines \in Seq(STRING)
  BY DEF CommandInv, CommandTypes, CommandLines, URLFile
<1>2. IsSeq(list.urls)
  <2>1. IsSeq(flags.url) /\ IsSeq(<<>>)
    BY <1>1 DEF IsSeq
  <2> QED BY <1>1, <2>1, ReadLinesSeq DEF getURLStringList
<1>3. pc = "urls" /\ done = <<>> /\ flags' = flags /\ done' = done /\ date' = date
  BY DEF getURLListFromFlags, CommandInv, CommandTypes
<1>4. \/ pc' = "exit" /\ urls' = <<>> /\ errors' # {}
      \/ pc' = "config" /\ urls' = list.urls /\ urls' # <<>> /\ errors' = {}
  <2> HIDE DEF list
  <2> QED BY DEF getURLListFromFlags, list, Unless
<1> QED
  <2>0. IsSeq(<<>>) /\ \A s : IsSeq(s) /\ s # <<>> => Len(s) > 0
    BY DEF IsSeq
  <2>1. CommandTypes'
    BY <1>1, <1>2, <1>3, <1>4, <2>0 DEF CommandTypes
  <2>2. ConfigGood' /\ DateGood' /\ Progress' /\ Reported'
    BY <1>3, <1>4 DEF ConfigGood, DateGood, Progress, Reported
  <2> QED BY <2>1, <2>2 DEF CommandInv

\* getConfigFromFlags reports every wrong flag.
LEMMA BadReported ==
  ASSUME NEW f \in CommandLines, NEW fetched \in BOOLEAN
  PROVE  Bad(f) \subseteq AllErrors(f, fetched)
<1> DEFINE E == AllErrors(f, fetched)
<1>1. Unless(f.private_key = "good", "private_key") \subseteq E
  BY DEF AllErrors, getExchangeFactoryFromFlags
<1>2. Unless(f.cert_url = "https", "cert_url") \subseteq E
  <2>1. f.cert_url # "" /\ parseCertURL(f.cert_url) => f.cert_url = "https"
    BY DEF parseCertURL
  <2> QED BY <2>1 DEF AllErrors, getExchangeFactoryFromFlags, Unless
<1>3. Unless(f.expiry.parses /\ f.expiry.value \in 1..168, "expiry") \subseteq E
  <2>1. parseDuration(f.expiry, maxExpiry) => f.expiry.parses /\ f.expiry.value \in 1..168
    <3>1. f.expiry.value \in Int
      BY DEF CommandLines, Amount
    <3> QED BY <3>1 DEF parseDuration, maxExpiry
  <2> QED BY <2>1 DEF AllErrors, getValidPeriodRuleFromFlags, Unless
<1>4. Unless(f.js_expiry.parses /\ f.js_expiry.value \in 1..(IF f.insecure_js_expiry THEN 168 ELSE 24), "js_expiry")
        \subseteq E
  <2> DEFINE max == IF f.insecure_js_expiry THEN maxExpiry ELSE maxGoodJSExpiry
  <2>1. parseDuration(f.js_expiry, max)
          => f.js_expiry.parses /\ f.js_expiry.value \in 1..(IF f.insecure_js_expiry THEN 168 ELSE 24)
    BY DEF parseDuration, maxExpiry, maxGoodJSExpiry, CommandLines, Amount
  <2> QED BY <2>1 DEF AllErrors, getValidPeriodRuleFromFlags, Unless
<1>5. Unless(f.size_limit = NoLimit \/ (f.size_limit.parses /\ f.size_limit.value > 0), "size_limit") \subseteq E
  <2>1. parseSizeLimit(f.size_limit) => f.size_limit = NoLimit \/ (f.size_limit.parses /\ f.size_limit.value > 0)
    BY DEF parseSizeLimit, NoSizeLimit, NoLimit, parseByteSize
  <2> QED BY <2>1 DEF AllErrors, getProcessorFromFlags, Unless
<1>6. Unless(f.mi_record_size.parses /\ f.mi_record_size.value > 0, "mi_record_size") \subseteq E
  BY DEF AllErrors, getExchangeFactoryFromFlags, parseByteSize
<1> QED
  <2> DEFINE key == Unless(f.private_key = "good", "private_key")
             url == Unless(f.cert_url = "https", "cert_url")
             expiry == Unless(f.expiry.parses /\ f.expiry.value \in 1..168, "expiry")
             js == Unless(f.js_expiry.parses /\ f.js_expiry.value \in 1..(IF f.insecure_js_expiry THEN 168 ELSE 24),
                          "js_expiry")
             limit == Unless(f.size_limit = NoLimit \/ (f.size_limit.parses /\ f.size_limit.value > 0), "size_limit")
             size == Unless(f.mi_record_size.parses /\ f.mi_record_size.value > 0, "mi_record_size")
  <2>1. Bad(f) = key \cup url \cup expiry \cup js \cup limit \cup size
    BY DEF Bad
  <2>2. key \subseteq E /\ url \subseteq E /\ expiry \subseteq E /\ js \subseteq E /\ limit \subseteq E /\ size \subseteq E
    BY <1>1, <1>2, <1>3, <1>4, <1>5, <1>6
  <2>3. Bad(f) \subseteq E
    <3> HIDE DEF E, key, url, expiry, js, limit, size
    <3> QED BY <2>1, <2>2
  <2> QED BY <2>3

LEMMA ConfigStep ==
  ASSUME CommandInv, getConfigFromFlags
  PROVE  CommandInv'
<1>1. flags \in CommandLines /\ done = <<>> /\ pc = "config" /\ done \in Seq(BOOLEAN) /\ IsSeq(urls) /\ Len(urls) > 0
  BY DEF CommandInv, CommandTypes, getConfigFromFlags
<1>2. flags' = flags /\ done' = done /\ date' = date /\ urls' = urls
  BY DEF getConfigFromFlags
<1>3. Bad(flags) \subseteq errors'
  BY <1>1, BadReported DEF getConfigFromFlags
<1>4. (pc' = "date" /\ errors' = {}) \/ (pc' = "exit" /\ errors' # {})
  BY DEF getConfigFromFlags
<1>5. CommandTypes'
  BY <1>1, <1>2, <1>4 DEF CommandTypes
<1>6. Bad(flags') = Bad(flags)
  BY <1>2
<1>7. ConfigGood'
  BY <1>1, <1>2, <1>3, <1>4, <1>6 DEF ConfigGood
<1>8. DateGood' /\ Progress' /\ Reported'
  BY <1>1, <1>2, <1>3, <1>4, <1>6 DEF DateGood, Progress, Reported
<1> QED BY <1>5, <1>7, <1>8 DEF CommandInv

LEMMA DateStep ==
  ASSUME CommandInv, getDateFromFlags, Now \in Nat \ {0}
  PROVE  CommandInv'
<1>1. flags \in CommandLines /\ done = <<>> /\ pc = "date" /\ done \in Seq(BOOLEAN) /\ IsSeq(urls) /\ Len(urls) > 0
      /\ Bad(flags) = {}
  BY DEF CommandInv, CommandTypes, ConfigGood, getDateFromFlags
<1>2. flags' = flags /\ done' = done /\ urls' = urls
  BY DEF getDateFromFlags
<1>3. \/ pc' = "package" /\ errors' = {} /\ date' \in Int /\ date' # NoDate /\ date' <= Now
      \/ pc' = "exit" /\ errors' = {"date"}
  BY DEF getDateFromFlags, Unless, NoDate
<1>4. CommandTypes'
  BY <1>1, <1>2, <1>3 DEF CommandTypes
<1>5. Bad(flags') = Bad(flags) /\ DOMAIN done' = {} /\ Len(done') = 0
  BY <1>1, <1>2
<1>6. ConfigGood' /\ Reported'
  BY <1>1, <1>2, <1>3, <1>5 DEF ConfigGood, Reported
<1>7. DateGood' /\ Progress'
  BY <1>1, <1>2, <1>3, <1>5 DEF DateGood, Progress
<1> QED BY <1>4, <1>6, <1>7 DEF CommandInv

\* run goes on after a failure.
LEMMA PackageStep ==
  ASSUME CommandInv, Package
  PROVE  CommandInv'
<1>1. /\ flags \in CommandLines /\ pc = "package" /\ done \in Seq(BOOLEAN) /\ IsSeq(urls)
      /\ Len(done) < Len(urls) /\ Len(urls) \in Nat
      /\ Bad(flags) = {} /\ date \in Int /\ date # NoDate /\ date <= Now
      /\ errors = {} <=> \A i \in DOMAIN done : done[i]
  BY DEF CommandInv, CommandTypes, ConfigGood, DateGood, Progress, Package, IsSeq
<1>2. flags' = flags /\ date' = date /\ urls' = urls
  BY DEF Package
<1>3. PICK ok \in BOOLEAN :
        /\ done' = Append(done, ok)
        /\ errors' = errors \cup Unless(ok, <<"url", Len(done')>>)
        /\ pc' = IF Remaining(Len(done'), ok) THEN "package" ELSE "exit"
  BY DEF Package
<1>4. done' \in Seq(BOOLEAN) /\ Len(done') = Len(done) + 1 /\ done' # <<>>
  BY <1>1, <1>3
<1>5. \/ pc' = "package" /\ Len(done') < Len(urls)
      \/ pc' = "exit" /\ Len(done') = Len(urls)
  BY <1>1, <1>3, <1>4 DEF Remaining
<1>6. errors' = {} <=> \A i \in DOMAIN done' : done'[i]
  <2>1. errors' = {} <=> errors = {} /\ ok
    BY <1>3 DEF Unless
  <2>2. (\A i \in DOMAIN done' : done'[i]) <=> (\A i \in DOMAIN done : done[i]) /\ ok
    <3>1. DOMAIN done' = DOMAIN done \cup {Len(done) + 1} /\ \A i \in DOMAIN done : done'[i] = done[i]
      BY <1>1, <1>3
    <3>2. done'[Len(done) + 1] = ok
      BY <1>1, <1>3
    <3> QED BY <3>1, <3>2, Zenon
  <2> QED BY <1>1, <2>1, <2>2
<1>7. CommandTypes'
  BY <1>1, <1>2, <1>4, <1>5 DEF CommandTypes
<1>8. ConfigGood' /\ DateGood' /\ Progress' /\ Reported'
  BY <1>1, <1>2, <1>4, <1>5, <1>6 DEF ConfigGood, DateGood, Progress, Reported
<1> QED BY <1>7, <1>8 DEF CommandInv

\* For any command line, wrong flags are all reported and nothing is packaged with
\* one; otherwise run packages every URL and fails exactly if one of them does.
THEOREM CommandCompletes ==
  ASSUME Now \in Nat \ {0}
  PROVE  AnyCommand /\ [][Next]_vars => [](WrongFlagsReported /\ EveryURLPackaged)
<1>1. AnyCommand => CommandInv
  BY DEF AnyCommand, CommandInv, CommandTypes, IsSeq, ConfigGood, DateGood, Progress, Reported
<1>2. CommandInv /\ [Next]_vars => CommandInv'
  <2>1. CommandInv /\ UNCHANGED vars => CommandInv'
    BY DEF vars, CommandInv, CommandTypes, IsSeq, ConfigGood, DateGood, Progress, Reported
  <2> QED BY <2>1, ListStep, ConfigStep, DateStep, PackageStep DEF Next
<1>3. CommandInv => WrongFlagsReported /\ EveryURLPackaged
  <2> SUFFICES ASSUME CommandInv PROVE WrongFlagsReported /\ EveryURLPackaged
    OBVIOUS
  <2>1. WrongFlagsReported
    BY DEF CommandInv, ConfigGood, DateGood, Reported, WrongFlagsReported
  <2>2. EveryURLPackaged
    BY DEF CommandInv, Progress, EveryURLPackaged
  <2> QED BY <2>1, <2>2
<1> QED BY <1>1, <1>2, <1>3, PTL

-----------------------------------------------------------------------------
(* webpkgserver. *)

VARIABLES config, phase, configErrors, request, route

Config == INSTANCE MCServerConfig WITH errors <- configErrors

AnyPath == Seq(STRING)
AnyURL == [parses : BOOLEAN, scheme : STRING, host : BOOLEAN, path : AnyPath]
AnyDuration == [parses : BOOLEAN, hours : Int, unsafe : BOOLEAN]
AnyRE == {"good", "bad", "open quote"}

Configurations ==
  [Port : Int, TLSPEMFile : BOOLEAN, TLSKeyFile : BOOLEAN,
   DocPath : AnyPath, CertPath : AnyPath, ValidityPath : AnyPath, HealthPath : AnyPath,
   SignParam : BOOLEAN, Expiry : AnyDuration, JSExpiry : AnyDuration,
   CertURLBase : AnyURL, ValidityURL : AnyURL, PEMFile : BOOLEAN, KeyFile : BOOLEAN,
   CacheDir : BOOLEAN, Enable : BOOLEAN, CSRFile : BOOLEAN, DiscoveryURL : AnyURL,
   Email : BOOLEAN, Challenges : SUBSET STRING,
   Sign : Seq([domain : BOOLEAN, path : AnyRE, query : AnyRE]), SizeLimit : Int]

AnyConfig ==
  /\ config \in Configurations
  /\ phase = "read" /\ configErrors = {} /\ request = Config!NoRequest /\ route = "none"

ConfigInv ==
  /\ phase \in {"read", "verified"} => config \in Configurations
  /\ phase = "verified" => Config!Verify(config) = {}
  /\ Config!VerifiedNeverPanics

\* The values that the getters parse again have been parsed by Verify.
LEMMA GettersParse ==
  ASSUME NEW c \in Configurations, Config!Verify(c) = {}
  PROVE  Config!GetCertURLBase(c) /\ Config!GetValidityURL(c) /\ Config!GetExpiry(c) /\ Config!GetJSExpiry(c)
<1>1. Config!SXG_verify(c) = {}
  BY DEF Config!Verify
<1>2. Config!parseExpiry(c.Expiry) /\ Config!parseJSExpiry(c.JSExpiry) /\ Config!verifyCertURL(c.CertURLBase) /\ Config!verifyValidityURL(c.ValidityURL)
  BY <1>1, Zenon DEF Config!SXG_verify, Config!Unless
<1>3. c.CertURLBase.parses
  BY <1>2 DEF Config!verifyCertURL, Config!DataURL, Config!EmptyURL, Config!verifyURLImpl
<1>4. c.ValidityURL.parses
  BY <1>2 DEF Config!verifyValidityURL, Config!verifyURLImpl
<1> QED BY <1>2, <1>3, <1>4 DEF Config!GetCertURLBase, Config!GetValidityURL, Config!GetExpiry, Config!GetJSExpiry

\* A regular expression that Verify accepts compiles in the getters unless it has
\* an open quotation.
LEMMA GettersCompile ==
  ASSUME NEW c \in Configurations, Config!Verify(c) = {}, ~Config!GetREs(c)
  PROVE  \E s \in {c.Sign[i] : i \in DOMAIN c.Sign} : "open quote" \in {s.path, s.query}
<1>1. Config!Sign_verify(c) = {}
  BY DEF Config!Verify
<1>2. \A i \in DOMAIN c.Sign : Config!Compiles(c.Sign[i].path) /\ Config!Compiles(c.Sign[i].query)
  BY <1>1, Zenon DEF Config!Sign_verify, Config!Unless
<1>3. \A i \in DOMAIN c.Sign : c.Sign[i].path \in AnyRE /\ c.Sign[i].query \in AnyRE
  <2> DEFINE Section == [domain : BOOLEAN, path : AnyRE, query : AnyRE]
  <2>1. c.Sign \in Seq(Section)
    BY DEF Configurations
  <2>2. \A s \in Section : s.path \in AnyRE /\ s.query \in AnyRE
    OBVIOUS
  <2> HIDE DEF Section
  <2>3. \A i \in DOMAIN c.Sign : c.Sign[i] \in Section
    BY <2>1
  <2> QED BY <2>2, <2>3
<1>4. PICK i \in DOMAIN c.Sign : ~(Config!CompilesEnclosed(c.Sign[i].path) /\ Config!CompilesEnclosed(c.Sign[i].query))
  BY DEF Config!GetREs
<1>5. "open quote" \in {c.Sign[i].path, c.Sign[i].query}
  BY <1>2, <1>3, <1>4 DEF AnyRE, Config!Compiles, Config!CompilesEnclosed
<1> QED BY <1>5

\* The mux registers four patterns unless two are the same.
LEMMA PatternsCollide ==
  ASSUME NEW c \in Configurations, ~Config!Registers(Config!Cleaned(c))
  PROVE  \E i, j \in 1..4 : i < j /\ Config!Endpoints(c)[i] = Config!Endpoints(c)[j]
<1> DEFINE d == Config!Clean(c.DocPath)
           e == Append(Config!Clean(c.CertPath), "")
           v == Config!Clean(c.ValidityPath)
           h == Config!Clean(c.HealthPath)
           P4 == <<[to |-> "cert", pattern |-> e], [to |-> "doc", pattern |-> d],
                   [to |-> "validity", pattern |-> v], [to |-> "health", pattern |-> h]>>
<1>1. Config!Patterns(Config!Cleaned(c)) = P4
  <2>1. /\ Config!Cleaned(c).DocPath = d /\ Config!Cleaned(c).CertPath = Config!Clean(c.CertPath)
        /\ Config!Cleaned(c).ValidityPath = v /\ Config!Cleaned(c).HealthPath = h
    BY DEF Config!Cleaned, Configurations
  <2> QED BY <2>1 DEF Config!Patterns
<1>2. Config!Endpoints(c) = <<d, e, v, h>>
  BY DEF Config!Endpoints
<1> HIDE DEF d, e, v, h
<1>3. DOMAIN P4 = 1..4 /\ 1..4 = {1, 2, 3, 4}
  OBVIOUS
<1>4. P4[1].pattern = e /\ P4[2].pattern = d /\ P4[3].pattern = v /\ P4[4].pattern = h
  OBVIOUS
<1> HIDE DEF P4
<1>5. e = d \/ e = v \/ e = h \/ d = v \/ d = h \/ v = h
  <2>1. PICK i \in DOMAIN P4, j \in DOMAIN P4 : i # j /\ P4[i].pattern = P4[j].pattern
    BY <1>1 DEF Config!Registers
  <2>2. i \in {1, 2, 3, 4} /\ j \in {1, 2, 3, 4}
    BY ONLY <1>3, <2>1
  <2> QED BY ONLY <1>4, <2>1, <2>2
<1> DEFINE E == <<d, e, v, h>>
<1>6. E[1] = d /\ E[2] = e /\ E[3] = v /\ E[4] = h
  OBVIOUS
<1> HIDE DEF E
<1>7. \E i, j \in 1..4 : i < j /\ E[i] = E[j]
  BY <1>5, <1>6
<1> QED BY <1>2, <1>7 DEF E

\* FromTOMLConfig.
LEMMA BuildStep ==
  ASSUME ConfigInv, Config!FromTOMLConfig
  PROVE  ConfigInv'
<1>1. config \in Configurations /\ Config!Verify(config) = {} /\ phase = "verified"
  BY DEF ConfigInv, Config!FromTOMLConfig
<1>2. Config!GetCertURLBase(config) /\ Config!GetValidityURL(config) /\ Config!GetExpiry(config) /\ Config!GetJSExpiry(config)
  BY <1>1, GettersParse
<1>3. /\ phase' \in {"panic", "failed", "built"} 
      /\ phase' = "panic" => ~Config!GetREs(config) \/ ~Config!Registers(Config!Cleaned(config))
      /\ phase' # "built" => config' = config
  BY <1>2 DEF Config!FromTOMLConfig
<1>4. Config!VerifiedNeverPanics'
  <2> SUFFICES ASSUME phase' = "panic" PROVE Config!VerifiedNeverPanics'
    BY DEF Config!VerifiedNeverPanics
  <2>1. config' = config
    BY <1>3
  <2>2. CASE ~Config!GetREs(config)
    BY <1>1, <2>1, <2>2, GettersCompile DEF Config!VerifiedNeverPanics
  <2>3. CASE ~Config!Registers(Config!Cleaned(config))
    <3>1. \E i, j \in 1..4 : i < j /\ Config!Endpoints(config)[i] = Config!Endpoints(config)[j]
      BY <1>1, <2>3, PatternsCollide
    <3>2. Config!Endpoints(config') = Config!Endpoints(config)
      BY <2>1
    <3> QED BY <3>1, <3>2 DEF Config!VerifiedNeverPanics
  <2> QED BY <1>3, <2>2, <2>3
<1> QED BY <1>3, <1>4 DEF ConfigInv

\* With any configuration that Verify has accepted, FromTOMLConfig panics only when
\* two endpoints have one path or a regular expression has an open quotation.
THEOREM VerifiedStarts == AnyConfig /\ [][Config!Next]_(Config!vars) => []Config!VerifiedNeverPanics
<1>1. AnyConfig => ConfigInv
  BY DEF AnyConfig, ConfigInv, Config!VerifiedNeverPanics
<1>2. ConfigInv /\ [Config!Next]_(Config!vars) => ConfigInv'
  <2> SUFFICES ASSUME ConfigInv, [Config!Next]_(Config!vars) PROVE ConfigInv'
    OBVIOUS
  <2>1. CASE Config!ParseConfig
    BY <2>1 DEF Config!ParseConfig, ConfigInv, Config!VerifiedNeverPanics
  <2>2. CASE Config!FromTOMLConfig
    BY <2>2, BuildStep
  <2>3. CASE Config!ListenAndServe
    BY <2>3 DEF Config!ListenAndServe, ConfigInv, Config!VerifiedNeverPanics
  <2>4. CASE Config!ServeHTTP
    BY <2>4 DEF Config!ServeHTTP, ConfigInv, Config!VerifiedNeverPanics
  <2>5. CASE UNCHANGED Config!vars
    BY <2>5 DEF Config!vars, ConfigInv, Config!VerifiedNeverPanics
  <2> QED BY <2>1, <2>2, <2>3, <2>4, <2>5 DEF Config!Next
<1>3. ConfigInv => Config!VerifiedNeverPanics
  BY DEF ConfigInv
<1> QED BY <1>1, <1>2, <1>3, PTL

=============================================================================
