------------------------------- MODULE Server -------------------------------
(***************************************************************************)
(* The HTTP server (server): Serve starts and stops the certificate        *)
(* manager around http.Server.Serve, whose goroutines answer requests with *)
(* Handler. The manager is what ChainFeed promises; Packager.Run is what   *)
(* Packager shows of it (SubresourcesMayFail, RunTerminates).              *)
(***************************************************************************)
EXTENDS ChainFeed

CONSTANTS
  Handlers,     \* goroutines serving requests
  Chains,
  MaxAugs,      \* bound: augmented chains the manager gets
  MaxRequests   \* bound: requests accepted

VARIABLES
  nullCache,  \* no CacheDir is configured: Manager.Cache is certmanager.NullCache
  srv,        \* Server.Serve: "new", "starting", "serving", "returned"
  stopped,    \* calls of CertManager.Stop
  started,    \* CertManager.Start returned without an error
  unwritten,  \* digests whose Cache.Write has not returned
  written,    \* digests whose Cache.Write returned without an error
  failed,     \* digests whose Cache.Write returned an error
  req,        \* the request each handler serves
  requests,
  newest      \* history: the newest chain that signed a reply so far

serverVars == <<nullCache, srv, stopped, started, unwritten, written, failed, req, requests, newest>>
vars == <<held, phase, serverVars>>

\* Augmented chains; the constant Feed of ChainFeed is set to this.
Augs == {ac \in [rawChain : Chains, ocspResp : [chain : Chains, n : 1..MaxAugs]] : IsPair(ac)}

ASSUME ServerAssumption ==
  Feed \subseteq Augs /\ Nothing \notin Feed /\ MaxAugs \in Nat /\ MaxRequests \in Nat

\* The record r with the fields of f added, or replacing those it has.
Updated(r, f) ==
  [x \in DOMAIN f \cup DOMAIN r |-> IF x \in DOMAIN f THEN f[x] ELSE r[x]]

Idle == [pc |-> "idle"]

-----------------------------------------------------------------------------
(* Server.ListenAndServe, ListenAndServeTLS, Serve and ServeTLS. *)

Serve ==
  /\ srv = "new"
  /\ srv' = "starting"
  /\ UNCHANGED <<held, phase, nullCache, stopped, started, unwritten, written, failed, req, requests, newest>>

\* CertManager.Start fails: Serve returns its error.
StartFails ==
  /\ srv = "starting"
  /\ srv' = "returned"
  /\ UNCHANGED <<held, phase, nullCache, stopped, started, unwritten, written, failed, req, requests, newest>>

\* Mutant: http.Server.Serve is called while the manager is still starting.
StartReturns_Early ==
  /\ srv = "starting"
  /\ srv' = "serving" /\ started' = TRUE
  /\ UNCHANGED <<held, phase, nullCache, stopped, unwritten, written, failed, req, requests, newest>>

StartReturns ==
  /\ srv = "starting"
  /\ Open
  /\ srv' = "serving" /\ started' = TRUE
  /\ unwritten' = unwritten \cup {held'.rawChain}
  /\ UNCHANGED <<nullCache, stopped, written, failed, req, requests, newest>>

\* http.Server.Serve returns (Shutdown, Close or a listener error) and the
\* deferred Stop runs. Handlers go on.
ServeReturns ==
  /\ srv = "serving"
  /\ Close
  /\ srv' = "returned" /\ stopped' = stopped + 1
  /\ UNCHANGED <<nullCache, started, unwritten, written, failed, req, requests, newest>>

-----------------------------------------------------------------------------
(* The manager's goroutines. *)

ChainReplaced ==
  /\ Replace
  /\ unwritten' = unwritten \cup {held'.rawChain}
  /\ UNCHANGED <<nullCache, srv, stopped, started, written, failed, req, requests, newest>>

ChainWithdrawn == Withdraw /\ UNCHANGED serverVars

\* Cache.Write returns; on an error, which NullCache never has, the digest is not
\* cached.
CacheWrite(d) ==
  /\ d \in unwritten
  /\ unwritten' = unwritten \ {d}
  /\ \/ written' = written \cup {d} /\ UNCHANGED failed
     \/ ~nullCache /\ failed' = failed \cup {d} /\ UNCHANGED written
  /\ UNCHANGED <<held, phase, nullCache, srv, stopped, started, req, requests, newest>>

-----------------------------------------------------------------------------
(* Handler. *)

Reply(h, status) == req' = [req EXCEPT ![h] = Updated(@, [pc |-> "replied", status |-> status])]
Serving(h, pc) == req[h].pc = pc
handlerFrame == <<held, phase, nullCache, srv, stopped, started, unwritten, written, failed>>

\* ServeHTTP up to the routing: methods other than GET are refused.
ServeHTTP(h) ==
  /\ req[h] = Idle /\ srv = "serving" /\ requests < MaxRequests
  /\ requests' = requests + 1
  /\ \E kind \in {"method", "doc", "cert", "validity", "health"} :
       req' = [req EXCEPT ![h] = IF kind = "method"
                 THEN [pc |-> "replied", kind |-> kind, status |-> 405]
                 ELSE [pc |-> kind, kind |-> kind, after |-> newest]]
  /\ UNCHANGED <<handlerFrame, newest>>

\* Mutant: only the chain that the manager holds is served.
handleCert_HeldOnly(h, d) ==
  /\ Serving(h, "cert")
  /\ Reply(h, IF d \in written /\ held # Nothing /\ d = held.rawChain THEN 200 ELSE 404)
  /\ UNCHANGED <<handlerFrame, requests, newest>>

\* handleCert: Cache.Read of the digest in the path, which may fail.
handleCert(h, d) ==
  /\ Serving(h, "cert")
  /\ \/ Reply(h, IF d \in written /\ ~nullCache THEN 200 ELSE 404)
     \/ ~nullCache /\ Reply(h, 500)
  /\ UNCHANGED <<handlerFrame, requests, newest>>

handleValidity(h) ==
  /\ Serving(h, "validity")
  /\ Reply(h, 200)
  /\ UNCHANGED <<handlerFrame, requests, newest>>

\* handleHealth: VerifyAll of the held chain may fail.
handleHealth(h) ==
  /\ Serving(h, "health")
  /\ \E verifies \in BOOLEAN :
       Reply(h, IF held = Nothing THEN 404 ELSE IF verifies THEN 200 ELSE 500)
  /\ UNCHANGED <<handlerFrame, requests, newest>>

\* handleDocImpl up to the Packager: verifyAcceptHeader, parseSignURL, NewRequest.
handleDoc(h) ==
  /\ Serving(h, "doc")
  /\ \/ \E status \in {400, 500} : Reply(h, status)
     \/ req' = [req EXCEPT ![h].pc = "get"]
  /\ UNCHANGED <<handlerFrame, requests, newest>>

\* Mutant: the request waits for a chain.
GetFactory_Waits(h) ==
  /\ Serving(h, "get") /\ held # Nothing
  /\ req' = [req EXCEPT ![h] = Updated(@, [pc |-> "run", chain |-> held])]
  /\ UNCHANGED <<handlerFrame, requests, newest>>

\* newTaskRunner: ExchangeMetaFactory.Get takes the manager's current chain and
\* dereferences it. Encoding it in a data: URL may fail.
GetFactory(h) ==
  /\ Serving(h, "get")
  /\ \/ req' = [req EXCEPT ![h] =
          Updated(@, [pc |-> IF held = Nothing THEN "panicked" ELSE "run", chain |-> held])]
     \/ held # Nothing /\ Reply(h, 500)
  /\ UNCHANGED <<handlerFrame, requests, newest>>

\* The outcomes of Packager.Run: an exchange unless the main resource failed; the
\* errors of subresources; and for the main resource also a reference loop.
MainFailures == {{"mismatch"}, {"status"}, {"other"}}
Outcomes ==
  {[exchange |-> FALSE, main |-> e, sub |-> s] :
     e \in MainFailures \cup {{"loop", "other"}}, s \in BOOLEAN}
    \cup {[exchange |-> TRUE, main |-> e, sub |-> s] : e \in {{}, {"loop"}}, s \in BOOLEAN}

\* Mutant: any error of a subresource is taken for the main resource's.
filterError_All(o) == o.main \cup (IF o.sub THEN {"other"} ELSE {})

\* filterError: the errors with the URL of the main resource.
filterError(o) == o.main

\* handleDocImpl after the Packager: Exchange.Write may fail. The errors are
\* webpackager.Errors, so none is an HTTPStatusError itself.
Packaged(h) ==
  /\ Serving(h, "run")
  /\ \E o \in Outcomes, serializes \in BOOLEAN :
       LET errs == filterError(o)
           ok == errs = {} /\ o.exchange /\ serializes
       IN
       /\ req' = [req EXCEPT ![h] =
            Updated(@,
              [outcome |-> o, serializes |-> serializes,
               pc |-> IF errs = {} /\ ~o.exchange THEN "panicked" ELSE "replied",
               status |-> IF errs = {"mismatch"} THEN 400 ELSE IF ok THEN 200 ELSE 500])]
       /\ newest' = IF ok /\ req[h].chain.ocspResp.n > newest
                    THEN req[h].chain.ocspResp.n ELSE newest
  /\ UNCHANGED <<handlerFrame, requests>>

Answer(h) ==
  \/ handleDoc(h) \/ GetFactory(h) \/ Packaged(h)
  \/ (\E d \in Chains : handleCert(h, d)) \/ handleValidity(h) \/ handleHealth(h)

\* The goroutine takes its next request.
Done(h) ==
  /\ Serving(h, "replied")
  /\ req' = [req EXCEPT ![h] = Idle]
  /\ UNCHANGED <<handlerFrame, requests, newest>>

-----------------------------------------------------------------------------
Init ==
  /\ FeedInit
  /\ nullCache \in BOOLEAN
  /\ srv = "new" /\ stopped = 0 /\ started = FALSE
  /\ unwritten = {} /\ written = {} /\ failed = {}
  /\ req = [h \in Handlers |-> Idle] /\ requests = 0 /\ newest = 0

Next ==
  \/ Serve \/ StartFails \/ StartReturns \/ ServeReturns
  \/ ChainReplaced \/ ChainWithdrawn \/ \E d \in Chains : CacheWrite(d)
  \/ \E h \in Handlers : ServeHTTP(h) \/ Answer(h) \/ Done(h)

Spec == Init /\ [][Next]_vars

\* Goroutines of requests run on, and Packager.Run returns (RunTerminates).
FairSpec == Spec /\ \A h \in Handlers : WF_vars(Answer(h))

-----------------------------------------------------------------------------
\* A signed exchange is never signed with an older chain than one that was
\* replied before its request came: chains read by requests do not go back.
NeverOlderChain ==
  \A h \in Handlers :
    Serving(h, "replied") /\ req[h].kind = "doc" /\ req[h].status = 200 =>
      req[h].chain.ocspResp.n >= req[h].after

\* Whether a request fails is up to the errors of its main resource: the exchange
\* that handleDocImpl writes is there when filterError has left no error (no nil is
\* dereferenced), and errors with subresources alone do not keep it from being sent.
MainErrorsDecide ==
  \A h \in Handlers :
    "outcome" \in DOMAIN req[h] =>
      /\ Serving(h, "replied")
      /\ req[h].outcome.main = {} => (req[h].status = 200 <=> req[h].serializes)

\* Every request is answered unless its goroutine panics.
RequestsAnswered ==
  \A h \in Handlers : Serving(h, "doc") ~> Serving(h, "replied") \/ Serving(h, "panicked")

\* The manager runs exactly as long as http.Server.Serve does: Stop, which
\* dereferences what Start made, is called only after a Start that succeeded, and
\* once; and until then every document request finds a chain to sign with. (After
\* it the chain is withdrawn, and ExchangeMetaFactory.Get dereferences nil in a
\* handler that is still at work.)
ManagerWhileServing ==
  /\ stopped > 0 => started /\ stopped = 1
  /\ \A h \in Handlers : Serving(h, "panicked") => srv = "returned" /\ stopped = 1

\* A signed exchange has been replied whose signature names the certificate d.
SignedWith(h, d) ==
  Serving(h, "replied") /\ req[h].kind = "doc" /\ req[h].status = 200 /\ req[h].chain.rawChain = d

\* The cert handler finds a chain once the manager has written it to its Cache
\* without an error, also after the manager has gone on to other chains. So the
\* certificate of a signed exchange that has been replied is found, unless the
\* manager is still writing it or has failed to. (With NullCache none is, ever.)
WrittenIsServed ==
  [][\A h \in Handlers, d \in Chains :
       handleCert(h, d) /\ ~nullCache /\ req'[h].status = 404 =>
         /\ d \notin written
         /\ (\E g \in Handlers : SignedWith(g, d)) => d \in unwritten \cup failed]_vars

=============================================================================
