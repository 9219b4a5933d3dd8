----------------------------- MODULE CertSources -----------------------------
(***************************************************************************)
(* Where the certificate and its OCSP response come from, over time: the   *)
(* RawChainSources LocalCertFile and acmeclient.Client, the OCSPClient,    *)
(* and the Augmentor's daemon that calls them when their events are due    *)
(* (from a successful Start on). Time is a number of ticks.                *)
(*                                                                         *)
(* The certificate authority, the operator who replaces the certificate    *)
(* file and the OCSP responder form the environment. While it is "up" they *)
(* answer as they should, while it is "down" they fail or hand out defects.*)
(***************************************************************************)
EXTENDS CertValidity, FiniteSetsExt

CONSTANTS
  certRenewalInterval,  \* 9 days: how early the ACME client renews
  FetchInterval,        \* 1 hour: FetchHourly
  BackoffMin, BackoffMax,
  CertDuration,         \* validity of the certificates that are issued
  SXGLifetime,          \* 7 days: the longest life of a signed exchange
  MaxAge,               \* how old a response of the responder may be
  MaxOutage,            \* bound: how long the environment stays down
  MinUp,                \* bound: how long it stays up in between
  MaxTime               \* bound: the end of time

\* The margins. An outage, the wait for the next run after it and the time since
\* the last run before it fit in what certRenewalInterval leaves when SXGLifetime is
\* taken off, and in the second half of a response's update period; the environment
\* is up for long enough to be met by a run.
ASSUME TimingAssumption ==
  /\ {MaxCertDuration, MaxOCSPResponseDuration, certRenewalInterval, FetchInterval, BackoffMin,
      BackoffMax, CertDuration, SXGLifetime, MaxAge, MaxOutage, MinUp, MaxTime} \subseteq Nat
  /\ FetchInterval > 0 /\ BackoffMin > 0 /\ BackoffMin <= BackoffMax /\ MaxOutage > 0
  /\ CertDuration > 0 /\ CertDuration <= MaxCertDuration /\ certRenewalInterval <= CertDuration
  /\ MaxOCSPResponseDuration > 0 /\ MaxAge <= MaxOCSPResponseDuration
  /\ FetchInterval <= MinUp /\ BackoffMax <= MinUp
  /\ SXGLifetime + MaxOutage + 2 * FetchInterval <= certRenewalInterval + 1
  /\ SXGLifetime + MaxOutage + FetchInterval + BackoffMax <= certRenewalInterval + 1
  /\ MaxOutage + BackoffMax <= MaxOCSPResponseDuration - MaxOCSPResponseDuration \div 2 + 1

VARIABLES
  source,         \* "file" or "acme"
  allowTestCert,  \* the configuration flag
  now,
  env,      \* the environment: [up, since]
  file,     \* the content of the certificate file
  chain,    \* a.rawChain
  held,     \* the AugmentedChain last published
  rcAt,     \* when rcNext occurs
  orAt,     \* when orNext occurs
  attempt   \* c.RetryPolicy: failures since the last Reset

setup == <<source, allowTestCert>>
vars == <<setup, now, env, file, chain, held, rcAt, orAt, attempt>>

Never == MaxTime + 1
maxAttempt == 2      \* the wait is at BackoffMax from here on

-----------------------------------------------------------------------------
(* The environment. *)

Root == [serial |-> 1, subject |-> "ca", issuer |-> "ca", key |-> "RSA", canSign |-> FALSE,
         notBefore |-> 0, notAfter |-> 10 * MaxTime, ocsp |-> FALSE, sct |-> FALSE]
GoodLeaf(t) == [serial |-> t + 2, subject |-> "site", issuer |-> "ca", key |-> "P256",
                canSign |-> TRUE, notBefore |-> t, notAfter |-> t + CertDuration,
                ocsp |-> TRUE, sct |-> TRUE]
Issue(t) == IF source = "file" /\ allowTestCert
            THEN <<[GoodLeaf(t) EXCEPT !.canSign = FALSE, !.ocsp = FALSE], Root>>
            ELSE <<GoodLeaf(t), Root>>

DefectiveChains(t) ==
  {NilChain}
  \cup {<<leaf, Root>> : leaf \in
          {[GoodLeaf(t) EXCEPT !.key = "RSA"],
           [GoodLeaf(t) EXCEPT !.canSign = FALSE],
           [GoodLeaf(t) EXCEPT !.issuer = "elsewhere"],
           [GoodLeaf(t) EXCEPT !.notBefore = t + 1],
           [GoodLeaf(t) EXCEPT !.notAfter = t + MaxCertDuration + 1]}}

GoodResponse(c, t) ==
  [serial |-> Leaf(c).serial, signer |-> Issuer(c).subject, status |-> "good",
   thisUpdate |-> t, nextUpdate |-> t + MaxOCSPResponseDuration, sct |-> FALSE]

DefectiveResponses(c, t) ==
  LET r == GoodResponse(c, t)
  IN  {NilResponse,
       [r EXCEPT !.serial = @ + 1],
       [r EXCEPT !.signer = "other"],
       [r EXCEPT !.status = "revoked"],
       [r EXCEPT !.thisUpdate = t + 1],
       [r EXCEPT !.thisUpdate = t - 2, !.nextUpdate = t - 1],
       [r EXCEPT !.nextUpdate = @ + 1]}

CAAnswers == IF env.up THEN {Issue(now)} ELSE DefectiveChains(now)
OCSPAnswers(c) ==
  IF env.up THEN {GoodResponse(c, now - a) : a \in {a \in 0..MaxAge : a <= now}}
  ELSE DefectiveResponses(c, now)

-----------------------------------------------------------------------------
(* RawChainSource.Fetch: the new chain, or NilChain with an error. *)

LocalCertFileFetch(content, t) ==
  LET c == NewRawChain(content)
  IN  IF \/ c = NilChain
         \/ VerifyChain(c, t) # {}
         \/ ~allowTestCert /\ VerifySXGCriteria(c) # {}
      THEN NilChain ELSE c

\* Its errors, for a time outside the validity period, are in shouldRenewCert.
getDurationToExpiry(cert, t) == cert.notAfter - t

\* Mutant: the two days of grace are not there.
shouldRenewCert_Late(c, t) ==
  c = NilChain \/ getDurationToExpiry(Leaf(c), t) < SXGLifetime

shouldRenewCert(c, t) ==
  \/ c = NilChain
  \/ Leaf(c).notBefore > t \/ Leaf(c).notAfter < t
  \/ getDurationToExpiry(Leaf(c), t) < certRenewalInterval

AcmeFetch(c, answer, t) ==
  LET new == NewRawChain(answer)
  IN  IF ~shouldRenewCert(c, t) THEN c
      ELSE IF new = NilChain \/ VerifyChain(new, t) # {} \/ VerifySXGCriteria(new) # {}
      THEN NilChain ELSE new

\* What rcSource.Fetch may return now.
Fetch ==
  IF source = "file" THEN {LocalCertFileFetch(file, now)}
  ELSE {AcmeFetch(chain, answer, now) : answer \in CAAnswers}

-----------------------------------------------------------------------------
(* OCSPClient.Fetch. *)

\* c.RetryPolicy.Duration(), jittered.
RetryWaits == {w \in BackoffMin..BackoffMax : w <= BackoffMin * 2^attempt}

\* The cache expiry of the HTTP response (0: not cacheable), or the middle of
\* the update period.
nextRunAt(resp, expiry) ==
  LET midpoint == resp.thisUpdate + (resp.nextUpdate - resp.thisUpdate) \div 2
  IN  IF resp.thisUpdate < expiry /\ expiry < midpoint THEN expiry ELSE midpoint

Acceptable(resp, c) ==
  /\ ParseOCSPResponseForRawChain(resp, c) # NilResponse
  /\ VerifyForRawChain(resp, now, c) = {}
  /\ OCSPVerifySXGCriteria(resp) = {}

\* maintainOCSPResp with a.rawChain = c: a response that is accepted is
\* published with c; otherwise the next run is a retry.
OCSPFetch(c) ==
  \/ /\ allowTestCert /\ ~Leaf(c).ocsp
     /\ held' = [chain |-> c, resp |-> DummyOCSPResponse, sctList |-> FALSE]
     /\ orAt' = Never
     /\ attempt' = Min({attempt + 1, maxAttempt})
  \/ /\ ~(allowTestCert /\ ~Leaf(c).ocsp)
     /\ \E resp \in OCSPAnswers(c), expiry \in {0, now + 1, now + MaxOCSPResponseDuration},
           wait \in RetryWaits :
          IF Acceptable(resp, c)
          THEN /\ held' = [chain |-> c, resp |-> resp, sctList |-> FALSE]
               /\ orAt' = nextRunAt(resp, expiry)
               /\ attempt' = 0
          ELSE /\ orAt' = now + wait
               /\ attempt' = Min({attempt + 1, maxAttempt})
               /\ UNCHANGED held

-----------------------------------------------------------------------------
Init ==
  /\ source \in {"file", "acme"}
  /\ allowTestCert \in BOOLEAN
  /\ now = 0
  /\ env = [up |-> TRUE, since |-> 0]
  /\ file = Issue(0)
  /\ chain = Issue(0)
  /\ held = [chain |-> chain, sctList |-> FALSE,
             resp |-> IF Leaf(chain).ocsp THEN GoodResponse(chain, 0) ELSE DummyOCSPResponse]
  /\ rcAt = FetchInterval
  /\ orAt = IF Leaf(chain).ocsp THEN nextRunAt(GoodResponse(chain, 0), 0) ELSE Never
  /\ attempt = 0

\* rcNext occurs. A chain with another digest replaces a.rawChain, and its
\* OCSP response is fetched at once; an error changes nothing.
ChainEvent ==
  /\ rcAt <= now
  /\ rcAt' = now + FetchInterval
  /\ \E new \in Fetch :
       \/ new \in {NilChain, chain} /\ UNCHANGED <<chain, held, orAt, attempt>>
       \/ new \notin {NilChain, chain} /\ chain' = new /\ OCSPFetch(new)
  /\ UNCHANGED <<setup, now, env, file>>

\* orNext occurs.
OCSPEvent ==
  /\ orAt <= now
  /\ OCSPFetch(chain)
  /\ UNCHANGED <<setup, now, env, file, chain, rcAt>>

\* Time passes when nothing is due. The operator renews the file as early as
\* the ACME client would and mistakes are undone when the environment is up.
Tick ==
  /\ now < MaxTime /\ rcAt > now /\ orAt > now
  /\ now' = now + 1
  /\ \/ env.up /\ env.since >= MinUp /\ env' = [up |-> FALSE, since |-> 1]
     \/ ~env.up /\ env' = [up |-> TRUE, since |-> 1]
     \/ /\ env.up \/ env.since < MaxOutage
        /\ env' = [env EXCEPT !.since = Min({@ + 1, MinUp + MaxOutage})]
  /\ file' \in IF source # "file" THEN {file}
               ELSE IF ~env'.up THEN {file} \cup DefectiveChains(now')
               ELSE IF LocalCertFileFetch(file, now') # NilChain /\ ~shouldRenewCert(file, now')
               THEN {file, Issue(now')} ELSE {Issue(now')}
  /\ UNCHANGED <<setup, chain, held, rcAt, orAt, attempt>>

Next == ChainEvent \/ OCSPEvent \/ Tick

Spec == Init /\ [][Next]_vars

-----------------------------------------------------------------------------
(* Properties. *)

\* The flag excuses certificates from VerifySXGCriteria and from having OCSP.
Excused == source = "file" /\ allowTestCert
NoOCSP == Excused /\ ~Leaf(held.chain).ocsp

\* As long as no outage is longer than MaxOutage, whatever defects the
\* authority, the operator and the responder hand out in between, the chain
\* and the response being served are usable at every instant: neither ever
\* expires in use, for the code renews in time and retries in time. This goes
\* for test certificates too, but for the criteria the flag excuses them from.
\* Moreover, a signed exchange created now with the longest lifetime does not
\* outlive its certificate (the reason given for certRenewalInterval, client.go:46).
HeldIsUsable ==
  /\ Leaf(held.chain).notAfter - now >= SXGLifetime
  /\ IF Excused THEN VerifyChain(held.chain, now) = {} ELSE UsableCert(held.chain, now)
  /\ NoOCSP \/ UsableResp(held.resp, held.chain, now)

\* The served chain survives its own serialisation: a reader of WriteCBOR's
\* output gets the same chain and response back, with ErrInvalidOCSPValue for
\* the dummy response of a certificate without OCSP and for no other.
ReadsBack ==
  ReadAugmentedChain(held) =
    [ac |-> held, err |-> IF NoOCSP THEN "ErrInvalidOCSPValue" ELSE "none"]

\* The health check, with the flag handler.go passes (inProduction =
\* !AllowTestCert), finds nothing wrong with what the sources accepted, except
\* that it does ask a certificate for the criteria that the flag excuses.
HealthCheckAgrees ==
  VerifyAll(held, now, ~allowTestCert) \subseteq
    IF Excused THEN {"key", "canSignHttpExchanges", "duration"} ELSE {}

=============================================================================
