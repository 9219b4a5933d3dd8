---------------------------- MODULE Server_proofs ----------------------------
(***************************************************************************)
(* The safety of the server's request handlers, for any number of          *)
(* handlers, requests and chains.                                          *)
(***************************************************************************)
EXTENDS Server, TLAPS

\* When the OCSP response of ac was issued, among all of them.
n(ac) == ac.ocspResp.n

\* The manager's life is Serve's: nothing is held, replied or asked for before
\* Start has returned, and a chain is held as long as the server serves.
LifeInv ==
  /\ srv \in {"new", "starting"} => ~started
  /\ srv = "serving" => phase = "on"
  /\ ~started => phase = "off" /\ stopped = 0 /\ newest = 0 /\ \A h \in Handlers : req[h] = Idle
  /\ started => phase # "off" /\ srv \in {"serving", "returned"}
  /\ started => stopped = (IF srv = "returned" THEN 1 ELSE 0)
  /\ phase \in {"off", "on", "closing"}
  /\ phase = "off" => held = Nothing
  /\ phase = "on" => held # Nothing
  /\ held \in Feed \cup {Nothing}
  /\ started \in BOOLEAN

\* The request r when the newest reply so far is signed with chain number new and
\* the manager holds cur: what it has read is no older than the replies before it,
\* and no newer than what the manager holds.
RequestInv(r, new, cur) ==
  /\ r.pc \in {"idle", "doc", "get", "run", "cert", "validity", "health", "replied", "panicked"}
  /\ r.pc \in {"doc", "get", "cert", "validity", "health"} =>
       DOMAIN r = {"pc", "kind", "after"} /\ r.after \in Nat /\ r.after <= new
  /\ r.pc \in {"doc", "get"} => r.kind = "doc"
  /\ r.pc \in {"cert", "validity", "health"} => r.kind = r.pc
  /\ r.pc = "run" =>
       /\ DOMAIN r = {"pc", "kind", "after", "chain"} /\ r.kind = "doc"
       /\ r.chain \in Feed /\ r.after \in Nat /\ r.after <= n(r.chain)
       /\ cur # Nothing => n(r.chain) <= n(cur)
  /\ r.pc = "replied" /\ r.kind = "doc" /\ r.status = 200 => n(r.chain) >= r.after
  /\ "outcome" \in DOMAIN r =>
       r.pc = "replied" /\ (r.outcome.main = {} => (r.status = 200 <=> r.serializes))

ServerInv ==
  /\ LifeInv
  /\ newest \in Nat /\ (held # Nothing => newest <= n(held))
  /\ req \in [Handlers -> {req[h] : h \in Handlers}]
  /\ \A h \in Handlers : RequestInv(req[h], newest, held)
  /\ \A h \in Handlers : req[h].pc = "panicked" => srv = "returned" /\ stopped = 1

\* The number of an OCSP response is a natural number.
LEMMA FeedNumbers == \A ac \in Feed : n(ac) \in Nat
BY ServerAssumption DEF Augs, n

\* Requests are kept when newest grows and the manager moves on to newer chains.
LEMMA RequestKept ==
  ASSUME NEW r, NEW new \in Nat, NEW new1 \in Nat, new <= new1,
         NEW cur \in Feed \cup {Nothing}, NEW cur1 \in Feed \cup {Nothing},
         cur1 # Nothing => cur # Nothing /\ n(cur) <= n(cur1),
         RequestInv(r, new, cur)
  PROVE  RequestInv(r, new1, cur1)
<1>1. r.pc \in {"doc", "get", "cert", "validity", "health"} => r.after <= new1
  BY DEF RequestInv
<1>2. r.pc = "run" /\ cur1 # Nothing => n(r.chain) <= n(cur1)
  BY FeedNumbers DEF RequestInv
<1> QED BY <1>1, <1>2 DEF RequestInv

\* A handler that serves no request is in order.
LEMMA IdleInv == ASSUME NEW new, NEW cur PROVE RequestInv(Idle, new, cur)
BY DEF RequestInv, Idle

\* The fields of a record that is updated.
LEMMA UpdatedFields ==
  ASSUME NEW r, NEW f
  PROVE  /\ \A x \in DOMAIN f : Updated(r, f)[x] = f[x]
         /\ \A x \in DOMAIN r \ DOMAIN f : Updated(r, f)[x] = r[x]
BY DEF Updated

\* Reply answers a request that has not run the Packager.
LEMMA ReplyInv ==
  ASSUME NEW r, NEW new, NEW cur, NEW status, RequestInv(r, new, cur),
         r.pc \in {"doc", "get", "cert", "validity", "health"},
         status = 200 => r.pc \notin {"doc", "get"}
  PROVE  LET q == Updated(r, [pc |-> "replied", status |-> status])
         IN  RequestInv(q, new, cur) /\ q.pc = "replied"
<1> DEFINE q == Updated(r, [pc |-> "replied", status |-> status])
<1>1. /\ q.pc = "replied" /\ q.status = status /\ q.kind = r.kind
      /\ DOMAIN q = {"pc", "kind", "after", "status"}
  BY DEF Updated, RequestInv
<1>2. status = 200 => q.kind # "doc"
  BY <1>1 DEF RequestInv
<1> HIDE DEF q
<1>3. RequestInv(q, new, cur)
  BY <1>1, <1>2 DEF RequestInv
<1> QED BY <1>1, <1>3 DEF q

\* The invariant holds before Serve is called.
LEMMA InitInv == Init => ServerInv
<1> SUFFICES ASSUME Init PROVE ServerInv
  OBVIOUS
<1>1. \A h \in Handlers : req[h] = Idle /\ RequestInv(req[h], newest, held)
  BY IdleInv DEF Init
<1>2. Idle.pc # "panicked"
  BY DEF Idle
<1> QED BY <1>1, <1>2, ZenonT(30) DEF Init, FeedInit, ServerInv, LifeInv

\* A step of Serve or the manager: it leaves the requests alone.
LEMMA ManagerStep ==
  ASSUME ServerInv, LifeInv', UNCHANGED <<req, newest>>,
         held' # Nothing => \/ held = Nothing /\ ~started
                            \/ held # Nothing /\ n(held) <= n(held'),
         srv = "returned" /\ stopped = 1 => srv' = "returned" /\ stopped' = 1
  PROVE  ServerInv'
<1>1. newest \in Nat /\ held \in Feed \cup {Nothing} /\ held' \in Feed \cup {Nothing}
  BY DEF ServerInv, LifeInv
<1>2. held' # Nothing => newest <= n(held')
  <2>1. CASE held = Nothing /\ ~started
    BY <2>1, <1>1, FeedNumbers DEF ServerInv, LifeInv
  <2>2. CASE held # Nothing /\ n(held) <= n(held')
    BY <2>2, <1>1, FeedNumbers DEF ServerInv
  <2> QED BY <2>1, <2>2
<1>3. ASSUME NEW h \in Handlers PROVE RequestInv(req[h], newest, held')
  <2>1. CASE held' # Nothing /\ held = Nothing /\ ~started
    BY <2>1, IdleInv DEF ServerInv, LifeInv
  <2>2. CASE held' # Nothing => held # Nothing /\ n(held) <= n(held')
    BY <2>2, <1>1, RequestKept DEF ServerInv
  <2> QED BY <2>1, <2>2
<1> QED BY <1>1, <1>2, <1>3 DEF ServerInv

\* A step of a handler: its request becomes q.
LEMMA HandlerStep ==
  ASSUME ServerInv, started, UNCHANGED handlerFrame,
         NEW h \in Handlers, NEW q, req' = [req EXCEPT ![h] = q],
         newest' \in Nat, newest <= newest', held # Nothing => newest' <= n(held),
         RequestInv(q, newest', held),
         q.pc = "panicked" => srv = "returned" /\ stopped = 1
  PROVE  ServerInv'
<1>1. LifeInv'
  BY DEF ServerInv, LifeInv, handlerFrame
<1>2. newest \in Nat /\ held \in Feed \cup {Nothing}
  BY DEF ServerInv, LifeInv
<1>3. \A g \in Handlers : req'[g] = IF g = h THEN q ELSE req[g]
  BY DEF ServerInv
<1>4. \A g \in Handlers : RequestInv(req'[g], newest', held')
  <2> TAKE g \in Handlers
  <2>1. CASE g = h
    BY <2>1, <1>3 DEF handlerFrame
  <2>2. CASE g # h
    <3>1. held # Nothing => n(held) <= n(held)
      BY <1>2, FeedNumbers
    <3>2. RequestInv(req[g], newest', held)
      BY <3>1, <1>2, RequestKept DEF ServerInv
    <3> QED BY <2>2, <3>2, <1>3 DEF handlerFrame
  <2> QED BY <2>1, <2>2
<1>5. req' \in [Handlers -> {req'[g] : g \in Handlers}]
  BY DEF ServerInv
<1>6. \A g \in Handlers : req'[g].pc = "panicked" => srv' = "returned" /\ stopped' = 1
  BY <1>3 DEF ServerInv, handlerFrame
<1> QED BY <1>1, <1>4, <1>5, <1>6 DEF ServerInv, handlerFrame

\* A request that is answered without the Packager.
LEMMA ReplyStep ==
  ASSUME ServerInv, UNCHANGED handlerFrame, newest' = newest,
         NEW h \in Handlers, NEW status, Reply(h, status),
         req[h].pc \in {"doc", "get", "cert", "validity", "health"},
         status = 200 => req[h].pc \notin {"doc", "get"}
  PROVE  ServerInv'
<1> DEFINE q == Updated(req[h], [pc |-> "replied", status |-> status])
<1>1. RequestInv(req[h], newest, held) /\ newest \in Nat /\ started
  BY DEF ServerInv, LifeInv, Idle
<1>2. RequestInv(q, newest, held) /\ q.pc = "replied"
  BY <1>1, ReplyInv
<1>3. req' = [req EXCEPT ![h] = q]
  BY DEF Reply
<1> HIDE DEF q
<1>4. newest' \in Nat /\ newest <= newest' /\ (held # Nothing => newest' <= n(held))
  BY <1>1 DEF ServerInv
<1>5. RequestInv(q, newest', held) /\ q.pc # "panicked"
  BY <1>2
<1> QED BY <1>1, <1>3, <1>4, <1>5, HandlerStep, ZenonT(30)

\* Every step of Serve, the manager and the handlers preserves it.
LEMMA NextInv == ServerInv /\ [Next]_vars => ServerInv'
<1> SUFFICES ASSUME ServerInv, [Next]_vars PROVE ServerInv'
  OBVIOUS
<1>0. /\ LifeInv /\ newest \in Nat /\ newest <= newest
      /\ held \in Feed \cup {Nothing} /\ (held # Nothing => newest <= n(held))
      /\ held # Nothing => n(held) <= n(held)
      /\ \A h \in Handlers : RequestInv(req[h], newest, held)
  BY FeedNumbers DEF ServerInv, LifeInv
<1>1. CASE UNCHANGED vars
  <2>1. LifeInv' BY <1>0, <1>1 DEF LifeInv, vars, serverVars
  <2>2. UNCHANGED <<held, srv, stopped, req, newest>> BY <1>1 DEF vars, serverVars
  <2> QED BY <2>1, <2>2, <1>0, ManagerStep
<1>2. CASE Serve
  <2>1. LifeInv' BY <1>0, <1>2 DEF LifeInv, Serve
  <2> QED BY <2>1, <1>0, <1>2, ManagerStep DEF Serve
<1>3. CASE StartFails
  <2>1. LifeInv' BY <1>0, <1>3 DEF LifeInv, StartFails
  <2> QED BY <2>1, <1>0, <1>3, ManagerStep DEF StartFails
<1>4. CASE StartReturns
  <2>1. /\ srv = "starting" /\ ~started /\ held' \in Feed /\ held' # Nothing
        /\ phase' = "on" /\ srv' = "serving" /\ started' = TRUE
        /\ UNCHANGED <<stopped, req, newest>>
    BY <1>0, <1>4, ServerAssumption DEF LifeInv, StartReturns, Open
  <2>2. LifeInv' BY <1>0, <2>1 DEF LifeInv
  <2>3. held = Nothing BY <1>0, <2>1 DEF LifeInv
  <2> QED BY <2>1, <2>2, <2>3, ManagerStep
<1>5. CASE ServeReturns
  <2>1. LifeInv' BY <1>0, <1>5 DEF LifeInv, ServeReturns, Close
  <2>2. UNCHANGED <<held, req, newest>> /\ srv = "serving"
    BY <1>5 DEF ServeReturns, Close
  <2> QED BY <2>1, <2>2, <1>0, ManagerStep
<1>6. CASE ChainReplaced
  <2>1. /\ held # Nothing /\ held' \in Feed /\ held' # Nothing /\ n(held') > n(held)
        /\ UNCHANGED <<phase, srv, stopped, started, req, newest>>
    BY <1>6, ServerAssumption DEF ChainReplaced, Replace, Newer, n
  <2>2. LifeInv' BY <1>0, <2>1 DEF LifeInv
  <2>3. n(held) <= n(held') BY <2>1, <1>0, FeedNumbers
  <2> QED BY <2>1, <2>2, <2>3, ManagerStep
<1>7. CASE ChainWithdrawn
  <2>1. LifeInv' BY <1>0, <1>7 DEF LifeInv, ChainWithdrawn, Withdraw, serverVars
  <2> QED BY <2>1, <1>7, ManagerStep DEF ChainWithdrawn, Withdraw, serverVars
<1>8. ASSUME NEW d \in Chains, CacheWrite(d) PROVE ServerInv'
  <2>1. LifeInv' BY <1>0, <1>8 DEF LifeInv, CacheWrite
  <2> QED BY <2>1, <1>0, <1>8, ManagerStep DEF CacheWrite
<1>9. ASSUME NEW h \in Handlers, ServeHTTP(h) PROVE ServerInv'
  <2>1. started /\ UNCHANGED handlerFrame /\ newest' = newest
    BY <1>0, <1>9 DEF ServeHTTP, LifeInv
  <2>2. PICK kind \in {"method", "doc", "cert", "validity", "health"} :
          req' = [req EXCEPT ![h] = IF kind = "method"
                    THEN [pc |-> "replied", kind |-> kind, status |-> 405]
                    ELSE [pc |-> kind, kind |-> kind, after |-> newest]]
    BY <1>9, ZenonT(30) DEF ServeHTTP
  <2>3. CASE kind = "method"
    <3> DEFINE q == [pc |-> "replied", kind |-> "method", status |-> 405]
    <3>1. RequestInv(q, newest, held) /\ q.pc # "panicked" BY DEF RequestInv
    <3>2. req' = [req EXCEPT ![h] = q] BY <2>2, <2>3
    <3> HIDE DEF q
    <3> QED BY <1>0, <2>1, <3>1, <3>2, HandlerStep, ZenonT(30)
  <2>4. CASE kind # "method"
    <3> DEFINE q == [pc |-> kind, kind |-> kind, after |-> newest]
    <3>1. RequestInv(q, newest, held) /\ q.pc # "panicked"
      BY <1>0, <2>4 DEF RequestInv
    <3>2. req' = [req EXCEPT ![h] = q] BY <2>2, <2>4
    <3> HIDE DEF q
    <3> QED BY <1>0, <2>1, <3>1, <3>2, HandlerStep, ZenonT(30)
  <2> QED BY <2>3, <2>4
<1>10. ASSUME NEW h \in Handlers, handleDoc(h) PROVE ServerInv'
  <2>1. req[h].pc = "doc" /\ UNCHANGED handlerFrame /\ newest' = newest
    BY <1>10 DEF handleDoc, Serving
  <2>2. ASSUME NEW status \in {400, 500}, Reply(h, status) PROVE ServerInv'
    BY <2>1, <2>2, ReplyStep
  <2>3. CASE req' = [req EXCEPT ![h].pc = "get"]
    <3> DEFINE q == [req[h] EXCEPT !.pc = "get"]
    <3>1. started BY <1>0, <2>1 DEF LifeInv, Idle
    <3>2. RequestInv(q, newest, held) /\ q.pc # "panicked"
      BY <1>0, <2>1 DEF RequestInv
    <3>3. req' = [req EXCEPT ![h] = q] BY <2>3
    <3> HIDE DEF q
    <3> QED BY <1>0, <2>1, <3>1, <3>2, <3>3, HandlerStep, ZenonT(30)
  <2> QED BY <1>10, <2>2, <2>3 DEF handleDoc
<1>11. ASSUME NEW h \in Handlers, GetFactory(h) PROVE ServerInv'
  <2>1. req[h].pc = "get" /\ UNCHANGED handlerFrame /\ newest' = newest
    BY <1>11 DEF GetFactory, Serving
  <2>2. CASE Reply(h, 500)
    BY <2>1, <2>2, ReplyStep
  <2>3. ASSUME req' = [req EXCEPT ![h] = Updated(@,
                 [pc |-> IF held = Nothing THEN "panicked" ELSE "run", chain |-> held])]
        PROVE  ServerInv'
    <3> DEFINE p == IF held = Nothing THEN "panicked" ELSE "run"
               q == Updated(req[h], [pc |-> p, chain |-> held])
    <3>1. started BY <1>0, <2>1 DEF LifeInv, Idle
    <3>2. /\ DOMAIN req[h] = {"pc", "kind", "after"} /\ req[h].kind = "doc"
          /\ req[h].after \in Nat /\ req[h].after <= newest
      BY <1>0, <2>1 DEF RequestInv
    <3>3. /\ q.pc = p /\ q.chain = held /\ q.kind = "doc" /\ q.after = req[h].after
          /\ DOMAIN q = {"pc", "kind", "after", "chain"}
      BY <3>2 DEF Updated
    <3>4. req' = [req EXCEPT ![h] = q] BY <2>3
    <3> HIDE DEF q
    <3>5. held # Nothing => q.after <= n(q.chain) /\ held \in Feed
      BY <1>0, <3>2, <3>3, FeedNumbers
    <3>6. RequestInv(q, newest, held)
      BY <1>0, <3>2, <3>3, <3>5 DEF RequestInv
    <3>7. q.pc = "panicked" => srv = "returned" /\ stopped = 1
      BY <1>0, <3>1, <3>3 DEF LifeInv
    <3> QED BY <1>0, <2>1, <3>1, <3>4, <3>6, <3>7, HandlerStep, ZenonT(30)
  <2> QED BY <1>11, <2>2, <2>3 DEF GetFactory
<1>12. ASSUME NEW h \in Handlers, Packaged(h) PROVE ServerInv'
  <2>1. req[h].pc = "run" /\ UNCHANGED handlerFrame
    BY <1>12 DEF Packaged, Serving
  <2>2. PICK o \in Outcomes, serializes \in BOOLEAN :
          LET ok == o.main = {} /\ o.exchange /\ serializes IN
          /\ req' = [req EXCEPT ![h] = Updated(@,
               [outcome |-> o, serializes |-> serializes,
                pc |-> IF o.main = {} /\ ~o.exchange THEN "panicked" ELSE "replied",
                status |-> IF o.main = {"mismatch"} THEN 400 ELSE IF ok THEN 200 ELSE 500])]
          /\ newest' = IF ok /\ req[h].chain.ocspResp.n > newest
                       THEN req[h].chain.ocspResp.n ELSE newest
    BY <1>12, SMTT(30) DEF Packaged, filterError
  <2>3. o.exchange \in BOOLEAN /\ (o.main = {} => o.exchange)
    <3>1. CASE \E e \in MainFailures \cup {{"loop", "other"}}, s \in BOOLEAN :
                 o = [exchange |-> FALSE, main |-> e, sub |-> s]
      <4>1. \A e \in MainFailures \cup {{"loop", "other"}} : e # {}
        BY DEF MainFailures
      <4> QED BY <3>1, <4>1
    <3>2. CASE \E e \in {{}, {"loop"}}, s \in BOOLEAN :
                 o = [exchange |-> TRUE, main |-> e, sub |-> s]
      BY <3>2
    <3> QED BY <3>1, <3>2 DEF Outcomes
  <2> DEFINE ok == o.main = {} /\ o.exchange /\ serializes
             status == IF o.main = {"mismatch"} THEN 400 ELSE IF ok THEN 200 ELSE 500
             f == [outcome |-> o, serializes |-> serializes, pc |-> "replied", status |-> status]
             q == Updated(req[h], f)
  <2>4. req' = [req EXCEPT ![h] = q]
    BY <2>2, <2>3, ZenonT(30)
  <2>5. /\ DOMAIN req[h] = {"pc", "kind", "after", "chain"} /\ req[h].kind = "doc"
        /\ req[h].chain \in Feed /\ req[h].after \in Nat /\ req[h].after <= n(req[h].chain)
        /\ held # Nothing => n(req[h].chain) <= n(held)
        /\ n(req[h].chain) \in Nat
    BY <1>0, <2>1, FeedNumbers DEF RequestInv
  <2>6. /\ q.pc = "replied" /\ q.status = status /\ q.outcome = o /\ q.serializes = serializes
        /\ q.chain = req[h].chain /\ q.after = req[h].after /\ q.kind = "doc"
    <3> HIDE DEF ok, status
    <3>1. /\ DOMAIN f = {"outcome", "serializes", "pc", "status"}
          /\ f.pc = "replied" /\ f.status = status /\ f.outcome = o /\ f.serializes = serializes
      OBVIOUS
    <3> HIDE DEF f
    <3>2. /\ q.pc = f.pc /\ q.status = f.status /\ q.outcome = f.outcome
          /\ q.serializes = f.serializes
      BY ONLY <3>1, UpdatedFields
    <3>3. q.chain = req[h].chain /\ q.after = req[h].after /\ q.kind = req[h].kind
      BY ONLY <2>5, <3>1, UpdatedFields
    <3> QED BY ONLY <2>5, <3>1, <3>2, <3>3
  <2>7. o.main = {} => (status = 200 <=> serializes)
    BY <2>3
  <2>8. started BY ONLY h \in Handlers, <1>0, <2>1 DEF LifeInv, Idle
  <2> HIDE DEF q, status, f, ok
  <2>9. /\ newest' \in Nat /\ newest <= newest'
        /\ held # Nothing => newest' <= n(held)
    <3>1. newest' = newest \/ (newest' = n(req[h].chain) /\ n(req[h].chain) > newest)
      BY ONLY <2>2 DEF n
    <3>2. held # Nothing => n(held) \in Nat
      BY <1>0, FeedNumbers
    <3> QED BY ONLY <1>0, <2>5, <3>1, <3>2
  <2>10. RequestInv(q, newest', held)
    BY <2>5, <2>6, <2>7 DEF RequestInv
  <2> QED BY <2>1, <2>4, <2>6, <2>8, <2>9, <2>10, HandlerStep, ZenonT(30)
<1>13. ASSUME NEW h \in Handlers, NEW d \in Chains, handleCert(h, d) PROVE ServerInv'
  <2>1. /\ req[h].pc = "cert" /\ UNCHANGED handlerFrame /\ newest' = newest
        /\ \E status \in {200, 404, 500} : Reply(h, status)
    BY <1>13 DEF handleCert, Serving
  <2> QED BY <2>1, ReplyStep
<1>14. ASSUME NEW h \in Handlers, handleValidity(h) PROVE ServerInv'
  BY <1>14, ReplyStep DEF handleValidity, Serving
<1>15. ASSUME NEW h \in Handlers, handleHealth(h) PROVE ServerInv'
  <2>1. /\ req[h].pc = "health" /\ UNCHANGED handlerFrame /\ newest' = newest
        /\ \E status \in {200, 404, 500} : Reply(h, status)
    BY <1>15 DEF handleHealth, Serving
  <2> QED BY <2>1, ReplyStep
<1>16. ASSUME NEW h \in Handlers, Done(h) PROVE ServerInv'
  <2>1. /\ req[h].pc = "replied" /\ UNCHANGED handlerFrame /\ newest' = newest
        /\ req' = [req EXCEPT ![h] = Idle]
    BY <1>16 DEF Done, Serving
  <2>2. started BY <1>0, <2>1 DEF LifeInv, Idle
  <2>3. RequestInv(Idle, newest, held) /\ Idle.pc # "panicked"
    BY IdleInv DEF Idle
  <2> QED BY <1>0, <2>1, <2>2, <2>3, HandlerStep, ZenonT(30)
<1> QED
  BY <1>1, <1>2, <1>3, <1>4, <1>5, <1>6, <1>7, <1>8, <1>9, <1>10, <1>11, <1>12, <1>13,
     <1>14, <1>15, <1>16 DEF Next, Answer

\* It holds as long as the process runs.
LEMMA ServerInvariant == Spec => []ServerInv
BY InitInv, NextInv, PTL DEF Spec

\* For any handlers, chains and bounds: no document is signed with an older chain
\* than one replied before its request came (handleDocImpl with
\* ExchangeMetaFactory.Get on a manager that behaves as ChainFeed promises).
THEOREM ChainsNeverGoBack == Spec => []NeverOlderChain
<1>1. ServerInv => NeverOlderChain
  BY DEF ServerInv, RequestInv, NeverOlderChain, Serving, n
<1> QED BY <1>1, ServerInvariant, PTL

\* For any handlers, chains and bounds: Stop is called once, after a Start that
\* succeeded, and no handler dereferences a missing chain before it (Server.Serve).
THEOREM ServeOwnsManager == Spec => []ManagerWhileServing
<1>1. ServerInv => ManagerWhileServing
  BY DEF ServerInv, LifeInv, ManagerWhileServing, Serving
<1> QED BY <1>1, ServerInvariant, PTL

\* For any handlers and bounds: what handleDocImpl replies after Packager.Run is
\* decided by the main resource's errors, and it never writes a nil exchange.
THEOREM MainResourceDecides == Spec => []MainErrorsDecide
<1>1. ServerInv => MainErrorsDecide
  BY DEF ServerInv, RequestInv, MainErrorsDecide, Serving
<1> QED BY <1>1, ServerInvariant, PTL


-----------------------------------------------------------------------------
(* The certificates of signed exchanges.                                     *)
(*                                                                           *)
(* The manager starts to write a chain in the step in which it takes it, so  *)
(* what a request has read from the manager is never unknown to the cache.   *)

\* The chains whose Cache.Write has been called.
Cached == unwritten \cup written \cup failed

CertInv ==
  /\ held # Nothing => held.rawChain \in Cached
  /\ \A h \in Handlers : req[h].pc = "run" => req[h].chain.rawChain \in Cached
  /\ \A h \in Handlers, d \in Chains : SignedWith(h, d) => d \in Cached

\* Steps of Serve and of the manager's goroutines.
LEMMA CertManagerStep ==
  ASSUME CertInv, req' = req, Cached \subseteq Cached',
         held' # Nothing => held' = held \/ held'.rawChain \in Cached'
  PROVE  CertInv'
BY DEF CertInv, SignedWith, Serving

\* Steps of a handler.
LEMMA CertHandlerStep ==
  ASSUME ServerInv, CertInv, UNCHANGED handlerFrame,
         NEW h \in Handlers, NEW q, req' = [req EXCEPT ![h] = q],
         q.pc = "run" => q.chain.rawChain \in Cached,
         q.pc = "replied" /\ q.kind = "doc" /\ q.status = 200 => q.chain.rawChain \in Cached
  PROVE  CertInv'
<1>1. req'[h] = q /\ \A g \in Handlers : g # h => req'[g] = req[g]
  BY DEF ServerInv
<1>2. Cached' = Cached /\ held' = held
  BY DEF handlerFrame, Cached
<1> QED BY <1>1, <1>2 DEF CertInv, SignedWith, Serving

\* Reply, for a request that has not run the Packager.
LEMMA CertReplyStep ==
  ASSUME ServerInv, CertInv, UNCHANGED handlerFrame,
         NEW h \in Handlers, NEW status, Reply(h, status),
         req[h].pc \in {"doc", "get", "cert", "validity", "health"},
         status = 200 => req[h].pc \notin {"doc", "get"}
  PROVE  CertInv'
<1> DEFINE q == Updated(req[h], [pc |-> "replied", status |-> status])
<1>1. req' = [req EXCEPT ![h] = q]
  BY DEF Reply
<1>2. RequestInv(req[h], newest, held)
  BY DEF ServerInv
<1>3. q.pc = "replied" /\ q.status = status /\ q.kind = req[h].kind
  BY <1>2, UpdatedFields DEF RequestInv
<1>4. req[h].kind = "doc" => req[h].pc \in {"doc", "get"}
  BY <1>2 DEF RequestInv
<1> HIDE DEF q
<1> QED BY <1>1, <1>3, <1>4, CertHandlerStep, Zenon

LEMMA CertNext == ServerInv /\ CertInv /\ [Next]_vars => CertInv'
<1> SUFFICES ASSUME ServerInv, CertInv, [Next]_vars PROVE CertInv'
  OBVIOUS
<1>1. CASE Serve \/ StartFails \/ ServeReturns \/ ChainWithdrawn \/ UNCHANGED vars
  <2>1. req' = req /\ Cached' = Cached /\ (held' = held \/ held' = Nothing)
    BY <1>1 DEF Serve, StartFails, ServeReturns, Close, ChainWithdrawn, Withdraw, vars, serverVars, Cached
  <2> QED BY <2>1, CertManagerStep
<1>2. CASE StartReturns \/ ChainReplaced
  <2>1. req' = req /\ unwritten' = unwritten \cup {held'.rawChain} /\ UNCHANGED <<written, failed>>
    BY <1>2 DEF StartReturns, ChainReplaced
  <2> QED BY <2>1, CertManagerStep DEF Cached
<1>3. ASSUME NEW d \in Chains, CacheWrite(d) PROVE CertInv'
  <2>1. req' = req /\ held' = held /\ Cached \subseteq Cached'
    BY <1>3 DEF CacheWrite, Cached
  <2> QED BY <2>1, CertManagerStep
<1>4. ASSUME NEW h \in Handlers, ServeHTTP(h) PROVE CertInv'
  <2>1. PICK kind \in {"method", "doc", "cert", "validity", "health"} :
          req' = [req EXCEPT ![h] = IF kind = "method"
                    THEN [pc |-> "replied", kind |-> kind, status |-> 405]
                    ELSE [pc |-> kind, kind |-> kind, after |-> newest]]
    BY <1>4, Zenon DEF ServeHTTP
  <2> DEFINE q == IF kind = "method" THEN [pc |-> "replied", kind |-> kind, status |-> 405]
                  ELSE [pc |-> kind, kind |-> kind, after |-> newest]
  <2>2. q.pc # "run" /\ ~(q.pc = "replied" /\ q.kind = "doc")
    OBVIOUS
  <2>3. req' = [req EXCEPT ![h] = q] /\ UNCHANGED handlerFrame
    BY <1>4, <2>1, Zenon DEF ServeHTTP
  <2> HIDE DEF q
  <2> QED BY <2>2, <2>3, CertHandlerStep, Zenon
<1>5. ASSUME NEW h \in Handlers, handleDoc(h) PROVE CertInv'
  <2>1. req[h].pc = "doc" /\ UNCHANGED handlerFrame
    BY <1>5 DEF handleDoc, Serving
  <2>2. CASE \E status \in {400, 500} : Reply(h, status)
    BY <2>1, <2>2, CertReplyStep
  <2>3. CASE req' = [req EXCEPT ![h].pc = "get"]
    <3> DEFINE q == [req[h] EXCEPT !.pc = "get"]
    <3>1. "pc" \in DOMAIN req[h]
      BY <2>1 DEF ServerInv, RequestInv
    <3>2. q.pc = "get" /\ req' = [req EXCEPT ![h] = q]
      BY <2>3, <3>1
    <3> HIDE DEF q
    <3> QED BY <2>1, <3>2, CertHandlerStep, Zenon
  <2> QED BY <1>5, <2>2, <2>3 DEF handleDoc
<1>6. ASSUME NEW h \in Handlers, GetFactory(h) PROVE CertInv'
  <2>1. req[h].pc = "get" /\ UNCHANGED handlerFrame
    BY <1>6 DEF GetFactory, Serving
  <2>2. CASE Reply(h, 500)
    BY <2>1, <2>2, CertReplyStep
  <2>3. CASE req' = [req EXCEPT ![h] =
                Updated(@, [pc |-> IF held = Nothing THEN "panicked" ELSE "run", chain |-> held])]
    <3> DEFINE pc == IF held = Nothing THEN "panicked" ELSE "run"
               q == Updated(req[h], [pc |-> pc, chain |-> held])
    <3>1. q.pc = pc /\ q.chain = held
      BY UpdatedFields
    <3>2. req' = [req EXCEPT ![h] = q]
      BY <2>3
    <3> HIDE DEF q
    <3> QED BY <2>1, <3>1, <3>2, CertHandlerStep, Zenon DEF CertInv
  <2> QED BY <1>6, <2>2, <2>3 DEF GetFactory
<1>7. ASSUME NEW h \in Handlers, Packaged(h) PROVE CertInv'
  <2>1. req[h].pc = "run" /\ UNCHANGED handlerFrame
    BY <1>7 DEF Packaged, Serving
  <2>2. "chain" \in DOMAIN req[h]
    BY <2>1, SMTT(30) DEF ServerInv, RequestInv
  <2>3. PICK o \in Outcomes, serializes \in BOOLEAN :
          LET errs == filterError(o)
              ok == errs = {} /\ o.exchange /\ serializes
          IN  req' = [req EXCEPT ![h] =
                Updated(@,
                  [outcome |-> o, serializes |-> serializes,
                   pc |-> IF errs = {} /\ ~o.exchange THEN "panicked" ELSE "replied",
                   status |-> IF errs = {"mismatch"} THEN 400 ELSE IF ok THEN 200 ELSE 500])]
    BY <1>7, SMTT(30) DEF Packaged
  <2> DEFINE pc == IF filterError(o) = {} /\ ~o.exchange THEN "panicked" ELSE "replied"
             status == IF filterError(o) = {"mismatch"} THEN 400
                       ELSE IF filterError(o) = {} /\ o.exchange /\ serializes THEN 200 ELSE 500
             f == [outcome |-> o, serializes |-> serializes, pc |-> pc, status |-> status]
             q == Updated(req[h], f)
  <2>8. pc # "run"
    OBVIOUS
  <2>6. req' = [req EXCEPT ![h] = q]
    BY <2>3, Zenon
  <2> HIDE DEF pc, status
  <2>4. DOMAIN f = {"outcome", "serializes", "pc", "status"} /\ f.pc = pc
    OBVIOUS
  <2> HIDE DEF f
  <2>5. q.pc = pc /\ q.chain = req[h].chain
    BY <2>2, <2>4, UpdatedFields
  <2>7. req[h].chain.rawChain \in Cached
    BY <2>1 DEF CertInv
  <2> HIDE DEF q
  <2> QED BY <2>1, <2>8, <2>5, <2>6, <2>7, CertHandlerStep, Zenon
<1>8. ASSUME NEW h \in Handlers, NEW d \in Chains, handleCert(h, d) PROVE CertInv'
  <2>1. req[h].pc = "cert" /\ UNCHANGED handlerFrame /\ \E status \in {200, 404, 500} : Reply(h, status)
    BY <1>8 DEF handleCert, Serving
  <2> QED BY <2>1, CertReplyStep
<1>9. ASSUME NEW h \in Handlers, handleValidity(h) PROVE CertInv'
  BY <1>9, CertReplyStep DEF handleValidity, Serving
<1>10. ASSUME NEW h \in Handlers, handleHealth(h) PROVE CertInv'
  <2>1. req[h].pc = "health" /\ UNCHANGED handlerFrame /\ \E status \in {200, 404, 500} : Reply(h, status)
    BY <1>10 DEF handleHealth, Serving
  <2> QED BY <2>1, CertReplyStep
<1>11. ASSUME NEW h \in Handlers, Done(h) PROVE CertInv'
  <2>1. Idle.pc # "run" /\ Idle.pc # "replied"
    BY DEF Idle
  <2> QED BY <1>11, <2>1, CertHandlerStep, Zenon DEF Done
<1> QED
  BY <1>1, <1>2, <1>3, <1>4, <1>5, <1>6, <1>7, <1>8, <1>9, <1>10, <1>11 DEF Next, Answer

\* For any handlers, chains and bounds: the cert handler finds what the manager has
\* written, and the certificate of a signed exchange that has been replied unless
\* its Cache.Write is still running or has failed.
THEOREM SignersAreServed == Spec => WrittenIsServed
<1>1. Init => CertInv
  <2>1. Idle.pc # "run" /\ Idle.pc # "replied"
    BY DEF Idle
  <2> QED BY <2>1 DEF Init, FeedInit, CertInv, SignedWith, Serving
<1>2. ServerInv /\ CertInv /\ [Next]_vars =>
        [\A h \in Handlers, d \in Chains :
           handleCert(h, d) /\ ~nullCache /\ req'[h].status = 404 =>
             /\ d \notin written
             /\ (\E g \in Handlers : SignedWith(g, d)) => d \in unwritten \cup failed]_vars
  <2> SUFFICES ASSUME ServerInv, CertInv, NEW h \in Handlers, NEW d \in Chains,
                      handleCert(h, d), ~nullCache, req'[h].status = 404
               PROVE  d \notin written /\ ((\E g \in Handlers : SignedWith(g, d)) => d \in unwritten \cup failed)
    OBVIOUS
  <2>1. ASSUME NEW status, Reply(h, status) PROVE req'[h].status = status
    <3> DEFINE q == Updated(req[h], [pc |-> "replied", status |-> status])
    <3>1. q.status = status
      BY UpdatedFields
    <3>2. req'[h] = q
      BY <2>1 DEF Reply, ServerInv
    <3> QED BY <3>1, <3>2
  <2>2. d \notin written
    BY <2>1 DEF handleCert
  <2> QED BY <2>2 DEF CertInv, Cached
<1> QED BY <1>1, <1>2, ServerInvariant, CertNext, PTL DEF Spec, WrittenIsServed
====
