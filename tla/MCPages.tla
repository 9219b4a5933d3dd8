------------------------------- MODULE MCPages -------------------------------
(***************************************************************************)
(* Instances for TLC of the parts that only transform what they are given: *)
(* responses, Link headers, URL paths, document URLs, the server's         *)
(* configuration file and the command line. They share no state: a         *)
(* behaviour is about one of them, and the variables of the others are     *)
(* Idle. The properties are explained where they are defined.              *)
(***************************************************************************)
EXTENDS Integers

CONSTANTS
  GoodStatusCodes, MaxContentLength, DefaultMaxContentLength, MaxNumPreloads,
  PreloadCSS, PreloadJS, Expiry, JSExpiry, MaxHead, MaxBody, MaxElements,
  Chars, MaxRel, MaxLength, Keys,
  Names, MaxSegments,
  MaxRequests, MaxHostLength,
  Now

ASSUME NowAssumption == Now \in Nat \ {0}

VARIABLES
  part,                                          \* what the behaviour is about
  fetched, resp, step, lifetime,                 \* Processors
  header, link, text, again,                     \* Links
  path, phys, file, validityURL,                 \* Paths
  asked, requests, active, reply,                \* Fetching
  config, phase, errors, request, route,         \* ServerConfig
  flags, pc, urls, date, done, flagErrors        \* CommandLine

processorVars == <<fetched, resp, step, lifetime>>
linkVars == <<header, link, text, again>>
pathVars == <<path, phys, file, validityURL>>
fetchVars == <<asked, requests, active, reply>>
configVars == <<config, phase, errors, request, route>>
flagVars == <<flags, pc, urls, date, done, flagErrors>>
vars == <<part, processorVars, linkVars, pathVars, fetchVars, configVars, flagVars>>

Processing == INSTANCE MCProcessors
Linking == INSTANCE Links
Mapping == INSTANCE MCPaths WITH request <- path
Fetch == INSTANCE MCFetching
Config == INSTANCE MCServerConfig
Command == INSTANCE MCCommandLine WITH errors <- flagErrors

Idle == "idle"
IdleProcessors == fetched = Idle /\ resp = Idle /\ step = Idle /\ lifetime = Idle
IdleLinks == header = Idle /\ link = Idle /\ text = Idle /\ again = Idle
IdlePaths == path = Idle /\ phys = Idle /\ file = Idle /\ validityURL = Idle
IdleFetching == asked = Idle /\ requests = Idle /\ active = Idle /\ reply = Idle
IdleConfig == config = Idle /\ phase = Idle /\ errors = Idle /\ request = Idle /\ route = Idle
IdleCommand ==
  flags = Idle /\ pc = Idle /\ urls = Idle /\ date = Idle /\ done = Idle /\ flagErrors = Idle

Init ==
  /\ part \in {"response", "link", "path", "document", "config", "command"}
  /\ IF part = "response" THEN Processing!Init ELSE IdleProcessors
  /\ IF part = "link" THEN Linking!Init ELSE IdleLinks
  /\ IF part = "path" THEN Mapping!Init ELSE IdlePaths
  /\ IF part = "document" THEN Fetch!Init ELSE IdleFetching
  /\ IF part = "config" THEN Config!Init ELSE IdleConfig
  /\ IF part = "command" THEN Command!Init ELSE IdleCommand

Next ==
  /\ \/ /\ part = "response" /\ Processing!Next
        /\ UNCHANGED <<linkVars, pathVars, fetchVars, configVars, flagVars>>
     \/ /\ part = "link" /\ Linking!Next
        /\ UNCHANGED <<processorVars, pathVars, fetchVars, configVars, flagVars>>
     \/ /\ part = "path" /\ Mapping!Next
        /\ UNCHANGED <<processorVars, linkVars, fetchVars, configVars, flagVars>>
     \/ /\ part = "document" /\ Fetch!Next
        /\ UNCHANGED <<processorVars, linkVars, pathVars, configVars, flagVars>>
     \/ /\ part = "config" /\ Config!Next
        /\ UNCHANGED <<processorVars, linkVars, pathVars, fetchVars, flagVars>>
     \/ /\ part = "command" /\ Command!Next
        /\ UNCHANGED <<processorVars, linkVars, pathVars, fetchVars, configVars>>
  /\ UNCHANGED part

Spec == Init /\ [][Next]_vars

-----------------------------------------------------------------------------
\* What the comprehensive processor leaves to be signed: preloads within the limit
\* for Link headers, each once, among them the blocking scripts before the first
\* content and the stylesheets of <head>; and no header that must not be signed.
ProcessedAsPromised ==
  part = "response" =>
    /\ Processing!HeaderPreloadsLimited /\ Processing!NoDuplicatePreloads
    /\ Processing!TopScriptsPreloaded /\ Processing!StylesheetsPreloaded
    /\ Processing!SignableHeaders

\* PerContentType applies JSExpiry to what ExtractSubContentTypes found to be JavaScript.
JSGetsJSExpiry == part = "response" => Processing!JSGetsJSExpiry

\* httplink: a link is written the same way in whatever order Go iterates its
\* parameters, is parsed as an equal link, and is a preload before and after.
LinksReadBack ==
  part = "link" => Linking!ReadsBack /\ Linking!WrittenOneWay /\ Linking!PreloadRecognized

\* urlrewrite and filewrite give every request URL a file below the base directory,
\* directories their index file; tomlconfig accepts exactly the normalized paths.
PathsAreMapped ==
  part = "path" =>
    /\ Mapping!AlwaysMapped /\ Mapping!StaysBelowBase
    /\ Mapping!DirectoriesGetIndex /\ Mapping!ServePathExact

\* parseSignURL and the selector let nothing be fetched that [[Sign]] does not allow.
FetchesAreConfined == part = "document" => Fetch!FetchesAreConfined

\* The request tweakers: a subresource is requested on behalf of the resource that
\* preloads it, with the copied headers of the main resource, at any depth.
RequestsFollowParents ==
  part = "document" => Fetch!RefererIsParent /\ Fetch!HeadersAreInherited

\* tomlconfig's Verify rejects every value that the example file rules out, all at once.
EveryBadFieldReported == part = "config" => Config!EveryBadFieldReported

\* FromTOMLConfig panics with verified values in two cases only.
VerifiedNeverPanics == part = "config" => Config!VerifiedNeverPanics

\* Handler.ServeHTTP routes requests to the endpoints that the configuration names.
RequestsReachEndpoints == part = "config" => Config!RequestsReachEndpoints

\* The webpackager command reports all wrong flags and packages nothing with one;
\* otherwise it packages every URL and fails exactly if one of them does.
CommandDoesAll == part = "command" => Command!WrongFlagsReported /\ Command!EveryURLPackaged

=============================================================================
