------------------------------ MODULE Packager ------------------------------
(***************************************************************************)
(* Packager.Run: a task runner makes the signed exchange of a URL and,     *)
(* before it, those of the resources it preloads, depth first, through the *)
(* resource cache (task.go, exchange, resource, resource/cache). Several   *)
(* runners share one Packager, as the server's request handlers do; the    *)
(* command line has one runner.                                            *)
(***************************************************************************)
EXTENDS Naturals, Sequences, FiniteSets, FiniteSetsExt, Functions

CONSTANTS
  URLs,
  Runners,     \* what may call Run at the same time
  CacheSize,   \* entries of the bounded cache
  Lifetime,    \* of a signed exchange (ValidPeriodRule)
  Setups       \* the configurations and bounds to consider; see setup

\* The command line, which alone writes files, makes one call of Run after the other,
\* with one certificate and --date.
ASSUME SetupAssumption ==
  /\ IsFiniteSet(URLs) /\ IsFiniteSet(Runners) /\ CacheSize \in Nat
  /\ \A s \in Setups :
       /\ s.cache \in {"nil", "memory", "bounded", "file"} /\ {s.keep, s.writeErrors} \subseteq BOOLEAN
       /\ s.cache = "file" => s.runners = 1 /\ s.certs = 0 /\ s.time = 0

VARIABLES
  setup,     \* the configuration: cache ("nil", "memory", "bounded" or "file"), keep
             \* (KeepNonSXGPreloads), writeErrors (files may fail to be written); and
             \* bounds: runners, pages, preloads per page, versions, certs, time, runs
  site,      \* the URLs each URL preloads, in the order of its links
  content,   \* the version of each URL's content upstream
  cert,      \* the certificate of the chain that ExchangeFactory.Get returns
  now,
  cache,     \* ResourceCache: URL -> Resource
  files,     \* the signed exchanges on disk: URL -> exchange
  runner,    \* the state of each call of Run
  runs,      \* how many calls there were
  reported   \* the URLs whose file could not be written, as Run has reported

vars == <<setup, site, content, cert, now, cache, files, runner, runs, reported>>
world == <<setup, site, content, cert, now>>

-----------------------------------------------------------------------------
NoExchange == [kind |-> "none"]
TornFile == [kind |-> "torn"]

\* The header integrity covers the response headers: the digest of the content
\* and the links. It is empty as long as SetExchange was not called.
NoIntegrity == <<>>
Integrity(e) == IF e = NoExchange THEN NoIntegrity ELSE <<e.url, e.version, e.links>>

\* Fields of resource.Resource; for the URLs, whether they are set.
NewResource ==
  [redirectURL |-> FALSE, physicalURL |-> FALSE, validityURL |-> FALSE, exchange |-> NoExchange]

\* Factory.NewExchange with the valid period [date, date + Lifetime].
NewExchange(f, sxgCert, date) ==
  [kind |-> "sxg", url |-> f.url, version |-> f.version, links |-> f.links,
   cert |-> sxgCert, date |-> date, expires |-> date + Lifetime]

\* Mutant: only the valid period is checked.
Verify_NoCert(e, sxgCert, date) == e.date <= date /\ date <= e.expires

\* Factory.Verify: signed by the current certificate and in its valid period.
Verify(e, sxgCert, date) == e.cert = sxgCert /\ e.date <= date /\ date <= e.expires

\* Response.GetFullHeader's links for one preload.
PreloadLinks(u, integrity) ==
  IF integrity # NoIntegrity
  THEN <<[rel |-> "allowed-alt-sxg", url |-> u, integrity |-> integrity],
         [rel |-> "preload", url |-> u]>>
  ELSE IF setup.keep THEN <<[rel |-> "preload", url |-> u]>> ELSE <<>>

-----------------------------------------------------------------------------
(* A runner is a stack of tasks, the main resource's at the bottom. The set *)
(* runner.active of the code is the set of the URLs on the stack.           *)

Idle == [state |-> "idle"]
NewTask(u) ==
  [url |-> u, pc |-> "lookup", version |-> 0, preload |-> 1, links |-> <<>>, r |-> NewResource]
NewTaskRunner(u) ==
  [state |-> "running", main |-> u, cert |-> cert, date |-> now, stack |-> <<NewTask(u)>>,
   errs |-> {}, result |-> NewResource]

\* A stack of tasks ends with the one in progress. (SequencesExt, which has these two,
\* would bring the theorems of Bags into every proof obligation.)
Last(s) == s[Len(s)]
Front(s) == SubSeq(s, 1, Len(s) - 1)

Running(p) == runner[p].state = "running"
Top(p) == Last(runner[p].stack)
At(p, pc) == Running(p) /\ Top(p).pc = pc
Active(p) == {f.url : f \in Range(runner[p].stack)}

SetTop(p, f) == runner' = [runner EXCEPT ![p].stack = Append(Front(@), f)]

\* The preload f.preload of task f ended with resource r.
Preloaded(f, u, r) ==
  [f EXCEPT !.preload = @ + 1, !.links = @ \o PreloadLinks(u, Integrity(r.exchange))]

\* packagerTaskRunner.run after the task ended with resource r and errors err.
Return(p, r, err) ==
  LET R == runner[p]
      rest == Front(R.stack)
      errs == R.errs \cup {[url |-> Top(p).url, kind |-> k] : k \in err}
  IN  runner' = [runner EXCEPT ![p] =
        IF rest = <<>> THEN [R EXCEPT !.state = "done", !.stack = <<>>, !.errs = errs, !.result = r]
        ELSE [R EXCEPT !.errs = errs,
                       !.stack = Append(Front(rest), Preloaded(Last(rest), Top(p).url, r))]]

\* Packager.RunForRequest. (An ExchangeFactory that fails ends the call at once,
\* with nothing changed: Server's GetFactory.)
Run(p, u) ==
  /\ runner[p] = Idle /\ runs < setup.runs
  /\ runner' = [runner EXCEPT ![p] = NewTaskRunner(u)]
  /\ runs' = runs + 1
  /\ UNCHANGED <<world, cache, files, reported>>

\* The caller takes the result.
Finish(p) ==
  /\ runner[p].state = "done"
  /\ runner' = [runner EXCEPT ![p] = Idle]
  /\ UNCHANGED <<world, cache, files, runs, reported>>

Cached(u) == u \in DOMAIN cache

\* Mutant: the cache is not consulted.
Lookup_Never(p) ==
  /\ At(p, "lookup")
  /\ SetTop(p, [Top(p) EXCEPT !.pc = "fetch"])
  /\ UNCHANGED <<world, cache, files, runs, reported>>

\* packagerTask.run up to the fetch. RequestTweaker does not fail for GET requests.
Lookup(p) ==
  LET u == Top(p).url IN
  /\ At(p, "lookup")
  /\ IF Cached(u) /\ Verify(cache[u].exchange, runner[p].cert, runner[p].date)
     THEN Return(p, cache[u], {})
     ELSE SetTop(p, [Top(p) EXCEPT !.pc = "fetch"])
  /\ UNCHANGED <<world, cache, files, runs, reported>>

Redirected(p) == Return(p, [Top(p).r EXCEPT !.redirectURL = TRUE], {"redirect"})

\* FetchClient.Do and what follows it up to the preloads: the request fails or
\* is not allowed; a redirect; NewResponse, Process or ValidityURLRule fails; or
\* the response is ready, with its preloads.
Fetch(p) ==
  LET f == Top(p) IN
  /\ At(p, "fetch")
  /\ \/ Return(p, f.r, {"fetch"})
     \/ Redirected(p)
     \/ Return(p, [f.r EXCEPT !.physicalURL = TRUE], {"process"})
     \/ SetTop(p, [f EXCEPT !.pc = "preload", !.version = content[f.url],
                            !.r.physicalURL = TRUE, !.r.validityURL = TRUE])
  /\ UNCHANGED <<world, cache, files, runs, reported>>

Preloads(p) == At(p, "preload") /\ Top(p).preload <= Len(site[Top(p).url])

\* Mutant: the loop ends the preloads without moving past the active one.
Preload_Stays(p) ==
  LET u == site[Top(p).url][Top(p).preload] IN
  /\ Preloads(p)
  /\ IF u \in Active(p)
     THEN runner' = [runner EXCEPT ![p].errs = @ \cup {[url |-> u, kind |-> "loop"]}]
     ELSE runner' = [runner EXCEPT ![p].stack = Append(@, NewTask(u))]
  /\ UNCHANGED <<world, cache, files, runs, reported>>

\* packagerTaskRunner.run for the next preload: errReferenceLoop if its URL is active.
Preload(p) ==
  LET f == Top(p)
      u == site[f.url][f.preload]
  IN
  /\ Preloads(p)
  /\ IF u \in Active(p)
     THEN runner' = [runner EXCEPT
            ![p].errs = @ \cup {[url |-> u, kind |-> "loop"]},
            ![p].stack = Append(Front(@), Preloaded(f, u, NewResource))]
     ELSE runner' = [runner EXCEPT ![p].stack = Append(@, NewTask(u))]
  /\ UNCHANGED <<world, cache, files, runs, reported>>

Without(c, u) == [v \in DOMAIN c \ {u} |-> c[v]]
With(c, u, r) == [v \in DOMAIN c \cup {u} |-> IF v = u THEN r ELSE c[v]]

\* Mutant: the limit is compared before the new entry is counted.
StoreInMemory_OffByOne(u, r) ==
  IF Cardinality(DOMAIN cache) <= CacheSize THEN {With(cache, u, r)}
  ELSE {With(Without(cache, v), u, r) : v \in DOMAIN cache \ {u}}

\* The caches that Store may leave: the bounded cache evicts other entries when
\* it would grow past its size.
StoreInMemory(u, r) ==
  CASE setup.cache = "nil" -> {cache}
    [] setup.cache = "bounded" ->
         IF Cardinality(DOMAIN cache \cup {u}) <= CacheSize THEN {With(cache, u, r)}
         ELSE {With(Without(cache, v), u, r) : v \in DOMAIN cache \ {u}}
    [] OTHER -> {With(cache, u, r)}

\* Mutant: the error of writing the file is dropped.
Store_Silent(p, r) ==
  LET u == Top(p).url IN
  /\ cache' \in StoreInMemory(u, r)
  /\ \/ files' = IF setup.cache = "file" THEN With(files, u, r.exchange) ELSE files
     \/ setup.cache = "file" /\ setup.writeErrors /\ files' = files
  /\ Return(p, r, {})
  /\ UNCHANGED reported

\* fileWriteCache.Store: the base cache first, then the file, which is truncated
\* before it is written. A failure leaves no new file, or a truncated one.
Store(p, r) ==
  LET u == Top(p).url IN
  /\ cache' \in StoreInMemory(u, r)
  /\ \/ /\ files' = IF setup.cache = "file" THEN With(files, u, r.exchange) ELSE files
        /\ Return(p, r, {})
        /\ UNCHANGED reported
     \/ /\ setup.cache = "file" /\ setup.writeErrors
        /\ files' \in {files, With(files, u, TornFile)}
        /\ Return(p, r, {"store"})
        /\ reported' = reported \cup {u}

\* Mutant: an error with a preload fails the resource.
Sign_Strict(p) ==
  LET r == [Top(p).r EXCEPT !.exchange = NewExchange(Top(p), runner[p].cert, runner[p].date)] IN
  /\ At(p, "preload") /\ ~Preloads(p)
  /\ \/ Return(p, Top(p).r, {"sign"}) /\ UNCHANGED <<cache, files, reported>>
     \/ runner[p].errs # {} /\ Return(p, Top(p).r, {"preload"}) /\ UNCHANGED <<cache, files, reported>>
     \/ runner[p].errs = {} /\ Store(p, r)
  /\ UNCHANGED <<world, runs>>

\* createExchange after the preloads, SetExchange and Store. NewExchange fails
\* when the payload cannot be encoded or signed.
Sign(p) ==
  LET r == [Top(p).r EXCEPT !.exchange = NewExchange(Top(p), runner[p].cert, runner[p].date)] IN
  /\ At(p, "preload") /\ ~Preloads(p)
  /\ \/ Return(p, Top(p).r, {"sign"}) /\ UNCHANGED <<cache, files, reported>>
     \/ Verify(r.exchange, runner[p].cert, runner[p].date) /\ Store(p, r)
  /\ UNCHANGED <<world, runs>>

Step(p) == Lookup(p) \/ Fetch(p) \/ Preload(p) \/ Sign(p)

-----------------------------------------------------------------------------
(* The world outside the Packager. *)

ContentChanges(u) ==
  /\ content[u] < setup.versions
  /\ content' = [content EXCEPT ![u] = @ + 1]
  /\ UNCHANGED <<setup, site, cert, now, cache, files, runner, runs, reported>>

CertRotates ==
  /\ cert < setup.certs
  /\ cert' = cert + 1
  /\ UNCHANGED <<setup, site, content, now, cache, files, runner, runs, reported>>

Tick ==
  /\ now < setup.time
  /\ now' = now + 1
  /\ UNCHANGED <<setup, site, content, cert, cache, files, runner, runs, reported>>

Environment == (\E u \in DOMAIN site : ContentChanges(u)) \/ CertRotates \/ Tick

\* Response.AddPreload leaves no two preloads with the same link; that two links
\* differ in attributes only is left out.
PreloadSeqs(pages) ==
  {s \in UNION {[1..n -> pages] : n \in 0..setup.preloads} : Cardinality(Range(s)) = Len(s)}

Init ==
  /\ setup \in Setups
  /\ \E pages \in kSubset(setup.pages, URLs) :
       site \in [pages -> PreloadSeqs(pages)]
  /\ content = [u \in DOMAIN site |-> 0] /\ cert = 0 /\ now = 0
  /\ cache = <<>> /\ files = <<>>
  /\ \E ps \in kSubset(setup.runners, Runners) : runner = [p \in ps |-> Idle]
  /\ runs = 0 /\ reported = {}

Next ==
  \/ \E p \in DOMAIN runner : (\E u \in DOMAIN site : Run(p, u)) \/ Step(p) \/ Finish(p)
  \/ Environment

Spec == Init /\ [][Next]_vars

=============================================================================
