------------------------- MODULE CertSources_proofs -------------------------
(***************************************************************************)
(* Proof that what the sources have produced is usable at every instant,   *)
(* for all durations within TimingAssumption.                              *)
(*                                                                         *)
(* The inductive invariant dates what is held. Start is the instant the    *)
(* environment went up, or down. A run (of the chain's event, or of the    *)
(* OCSP response's) that meets the environment up does its work, one that  *)
(* meets it down changes nothing that is held; and while the environment   *)
(* is up, a run is either done since Start or due soon after it.           *)
(***************************************************************************)
EXTENDS CertSources, TLAPS

Start == now - env.since + 1

\* A run that is due within wait of the last instant before Start.
DueSinceStart(at, wait) == at <= Start - 1 + wait

\* A chain that the environment may hand out: defects apart that only the checks
\* find out.
Shaped(ch) ==
  /\ Len(ch) = 2 /\ ch[2] = Root
  /\ ch[1].serial \in Nat \ {0} /\ ch[1].notBefore \in Int /\ ch[1].notAfter \in Int
  /\ ch[1].ocsp \in BOOLEAN /\ ch[1].sct = TRUE
  /\ ~ch[1].ocsp => Excused

\* A chain that has passed the checks.
Accepted(ch) ==
  /\ Shaped(ch) /\ ch[1].issuer = "ca" /\ ch[1].notBefore <= now
  /\ Excused \/ VerifySXGCriteria(ch) = {}

Published == held.chain = chain

\* The last run of the chain's event left a chain that was not due for renewal.
Recent == chain[1].notAfter >= rcAt - FetchInterval + certRenewalInterval

\* Otherwise, a run did so before the last outage.
FromBefore(ch) ==
  ch[1].notAfter >= Start - FetchInterval + certRenewalInterval - (IF env.up THEN MaxOutage ELSE 0)

Midpoint == held.resp.thisUpdate + MaxOCSPResponseDuration \div 2

TypeInv ==
  /\ source \in {"file", "acme"} /\ allowTestCert \in BOOLEAN
  /\ now \in 0..MaxTime
  /\ env = [up |-> env.up, since |-> env.since]
  /\ env.up \in BOOLEAN /\ env.since \in 0..now
  /\ rcAt \in Int /\ orAt \in Int
  /\ held = [chain |-> held.chain, resp |-> held.resp, sctList |-> FALSE]

\* No event is overdue, except for a response already past its middle when it came.
ClockInv ==
  /\ ~env.up => env.since \in 1..MaxOutage
  /\ now <= rcAt /\ rcAt <= now + FetchInterval
  /\ orAt < now => env.up /\ Published /\ now <= held.resp.nextUpdate

FileInv ==
  source = "file" =>
    /\ file = NilChain \/ (Shaped(file) /\ file[1].notAfter >= Start - 1 + certRenewalInterval)
    /\ env.up => /\ LocalCertFileFetch(file, now) # NilChain
                 /\ file[1].notAfter >= now + certRenewalInterval

ChainInv ==
  /\ Accepted(chain) /\ Accepted(held.chain)
  /\ \/ FromBefore(chain) /\ FromBefore(held.chain)
     \/ env.up /\ Recent /\ Published
  /\ env.up => /\ Recent \/ DueSinceStart(rcAt, FetchInterval)
               /\ Published \/ DueSinceStart(orAt, BackoffMax)

RespInv ==
  IF held.chain[1].ocsp
  THEN /\ held.resp = GoodResponse(held.chain, held.resp.thisUpdate)
       /\ held.resp.thisUpdate \in Int /\ held.resp.thisUpdate <= now
       /\ \/ orAt <= Midpoint
          \/ env.up /\ DueSinceStart(orAt, BackoffMax) /\ Start <= Midpoint + MaxOutage
          \/ ~env.up /\ orAt <= now + BackoffMax /\ Start <= Midpoint
  ELSE held.resp = DummyOCSPResponse

\* While the environment is down, a response that could not be had is asked for again.
RetryInv == ~env.up /\ ~Published => orAt <= now + BackoffMax

SourcesInv == TypeInv /\ ClockInv /\ FileInv /\ ChainInv /\ RespInv /\ RetryInv

-----------------------------------------------------------------------------
(* The checks of certchain, on the chains and responses of the environment. *)

\* The durations are natural numbers.
LEMMA Durations ==
  /\ MaxCertDuration \in Nat /\ MaxOCSPResponseDuration \in Nat /\ certRenewalInterval \in Nat
  /\ FetchInterval \in Nat /\ BackoffMin \in Nat /\ BackoffMax \in Nat /\ CertDuration \in Nat
  /\ SXGLifetime \in Nat /\ MaxAge \in Nat /\ MaxOutage \in Nat /\ MinUp \in Nat /\ MaxTime \in Nat
  /\ MaxOCSPResponseDuration \div 2 \in Nat
BY TimingAssumption

\* NewRawChain takes a chain whose leaf names the issuer, VerifyChain one that is
\* within its validity period.
LEMMA ChainChecks ==
  ASSUME NEW ch, Shaped(ch), NEW t \in 0..MaxTime
  PROVE  /\ ch # NilChain
         /\ ch[1].issuer = "ca" => NewRawChain(ch) = ch
         /\ ch[1].issuer # "ca" => NewRawChain(ch) = NilChain
         /\ VerifyChain(ch, t) = {} <=> ch[1].notBefore <= t /\ t <= ch[1].notAfter
<1>0. Len(ch) = 2
  BY DEF Shaped
<1>1. ch # NilChain /\ 1 .. Len(ch) - 1 = {1} /\ 1..Len(ch) = {1, 2}
  BY ONLY <1>0 DEF NilChain
<1>2. ch[1 + 1].subject = "ca" /\ 0 <= t /\ t <= 10 * MaxTime
      /\ ch[2].notBefore = 0 /\ ch[2].notAfter = 10 * MaxTime
  BY Durations DEF Shaped, Root
<1>3. /\ ch[1].issuer = "ca" => NewRawChain(ch) = ch
      /\ ch[1].issuer # "ca" => NewRawChain(ch) = NilChain
  BY <1>1, <1>2 DEF NewRawChain
<1>4. VerifyChain(ch, t) = {} <=> \A i \in 1..Len(ch) : ~(t < ch[i].notBefore \/ t > ch[i].notAfter)
  BY DEF VerifyChain
<1>5. VerifyChain(ch, t) = {} <=> ch[1].notBefore <= t /\ t <= ch[1].notAfter
  BY <1>1, <1>2, <1>4, Durations DEF Shaped
<1> QED BY <1>1, <1>3, <1>5

\* What the authority issues.
LEMMA IssuedChain ==
  ASSUME TypeInv, NEW t \in 0..MaxTime
  PROVE  /\ Shaped(Issue(t)) /\ Issue(t)[1].issuer = "ca"
         /\ Issue(t)[1].notBefore = t /\ Issue(t)[1].notAfter = t + CertDuration
         /\ Excused \/ VerifySXGCriteria(Issue(t)) = {}
         /\ VerifyChain(Issue(t), t) = {}
<1> DEFINE ch == Issue(t)
<1>1. Shaped(ch) /\ ch[1].issuer = "ca" /\ ch[1].notBefore = t /\ ch[1].notAfter = t + CertDuration
  BY Durations DEF TypeInv, Issue, GoodLeaf, Shaped, Excused
<1>2. Excused \/ VerifySXGCriteria(ch) = {}
  <2>1. ~Excused => ch[1] = GoodLeaf(t)
    BY DEF Issue, Excused
  <2> QED BY <1>1, <2>1, Durations, TimingAssumption
       DEF VerifySXGCriteria, verifyPublicKey, verifyExtensions, verifyCertDuration, Leaf, GoodLeaf
<1>3. VerifyChain(ch, t) = {}
  BY <1>1, ChainChecks, Durations
<1> HIDE DEF ch
<1> QED BY <1>1, <1>2, <1>3 DEF ch

\* What it hands out while it is down.
LEMMA DefectiveChain ==
  ASSUME TypeInv, NEW t \in 0..MaxTime, NEW ch \in DefectiveChains(t)
  PROVE  ch = NilChain \/ (Shaped(ch) /\ ch[1].notAfter >= t + certRenewalInterval)
<1>1. CASE ch = NilChain
  BY <1>1
<1>2. CASE ch # NilChain
  <2>1. PICK leaf \in {[GoodLeaf(t) EXCEPT !.key = "RSA"],
                       [GoodLeaf(t) EXCEPT !.canSign = FALSE],
                       [GoodLeaf(t) EXCEPT !.issuer = "elsewhere"],
                       [GoodLeaf(t) EXCEPT !.notBefore = t + 1],
                       [GoodLeaf(t) EXCEPT !.notAfter = t + MaxCertDuration + 1]} : ch = <<leaf, Root>>
    BY <1>2 DEF DefectiveChains
  <2>2. /\ leaf.serial = t + 2 /\ leaf.notBefore \in {t, t + 1} /\ leaf.ocsp = TRUE /\ leaf.sct = TRUE
        /\ leaf.notAfter \in {t + CertDuration, t + MaxCertDuration + 1}
    BY <2>1 DEF GoodLeaf
  <2>3. Len(ch) = 2 /\ ch[1] = leaf /\ ch[2] = Root
    BY <2>1
  <2>4. /\ leaf.serial \in Nat \ {0} /\ leaf.notBefore \in Int /\ leaf.notAfter \in Int
        /\ leaf.notAfter >= t + certRenewalInterval
    <3>1. t \in Nat /\ CertDuration \in Nat /\ MaxCertDuration \in Nat /\ certRenewalInterval \in Nat
          /\ certRenewalInterval <= CertDuration /\ CertDuration <= MaxCertDuration
      BY Durations, TimingAssumption
    <3> QED BY ONLY <2>2, <3>1
  <2> QED BY ONLY <2>2, <2>3, <2>4, Zenon DEF Shaped
<1> QED BY <1>1, <1>2

\* LocalCertFile.Fetch returns the chain of the file exactly if it passes the checks.
LEMMA FileFetch ==
  ASSUME NEW f, NEW t \in 0..MaxTime, source = "file", f = NilChain \/ Shaped(f)
  PROVE  LocalCertFileFetch(f, t) =
           IF /\ f # NilChain /\ f[1].issuer = "ca"
              /\ f[1].notBefore <= t /\ t <= f[1].notAfter
              /\ Excused \/ VerifySXGCriteria(f) = {}
           THEN f ELSE NilChain
<1>1. CASE f = NilChain
  <2>1. NewRawChain(f) = NilChain
    BY <1>1 DEF NewRawChain
  <2> QED BY <1>1, <2>1 DEF LocalCertFileFetch
<1>2. CASE Shaped(f)
  <2>1. /\ f # NilChain
        /\ f[1].issuer = "ca" => NewRawChain(f) = f
        /\ f[1].issuer # "ca" => NewRawChain(f) = NilChain
        /\ VerifyChain(f, t) = {} <=> f[1].notBefore <= t /\ t <= f[1].notAfter
    BY <1>2, ChainChecks
  <2>2. Excused <=> allowTestCert
    BY DEF Excused
  <2> QED BY <2>1, <2>2 DEF LocalCertFileFetch
<1> QED BY <1>1, <1>2

\* acmeclient.Client.Fetch returns the chain it was given, nothing, or a chain that
\* passes the checks; with what the authority issues it returns a chain that is not
\* due for renewal.
LEMMA ClientFetch ==
  ASSUME TypeInv, source = "acme", Accepted(chain), NEW answer \in CAAnswers
  PROVE  LET new == AcmeFetch(chain, answer, now) IN
         /\ new \in {NilChain, chain} \/ (Accepted(new) /\ new[1].notAfter >= now + certRenewalInterval)
         /\ env.up => new # NilChain /\ new[1].notAfter >= now + certRenewalInterval
<1> DEFINE new == AcmeFetch(chain, answer, now)
<1>1. answer = NilChain \/ (Shaped(answer) /\ answer[1].notAfter >= now + certRenewalInterval)
  <2>1. CASE env.up
    BY <2>1, IssuedChain, Durations, TimingAssumption DEF CAAnswers, TypeInv
  <2>2. CASE ~env.up
    BY <2>2, DefectiveChain DEF CAAnswers, TypeInv
  <2> QED BY <2>1, <2>2
<1>2. chain # NilChain
  BY ChainChecks DEF Accepted, TypeInv
<1>3. CASE ~shouldRenewCert(chain, now)
  <2>1. new = chain
    BY <1>3 DEF AcmeFetch
  <2>2. chain[1].notAfter >= now + certRenewalInterval
    BY <1>3, Durations DEF shouldRenewCert, getDurationToExpiry, Leaf, Accepted, Shaped, TypeInv
  <2> QED BY <1>2, <2>1, <2>2
<1>4. CASE shouldRenewCert(chain, now)
  <2>1. CASE answer = NilChain
    <3>1. NewRawChain(answer) = NilChain
      BY <2>1 DEF NewRawChain
    <3>2. new = NilChain
      BY <1>4, <3>1 DEF AcmeFetch
    <3>3. ~env.up
      <4> SUFFICES ASSUME env.up PROVE FALSE
        OBVIOUS
      <4>1. answer = Issue(now) /\ now \in 0..MaxTime
        BY DEF CAAnswers, TypeInv
      <4> QED BY <2>1, <4>1, IssuedChain, ChainChecks
    <3> QED BY <3>2, <3>3
  <2>2. CASE answer # NilChain
    <3>1. Shaped(answer) /\ answer[1].notAfter >= now + certRenewalInterval
      BY <1>1, <2>2
    <3>2. /\ answer[1].issuer = "ca" => NewRawChain(answer) = answer
          /\ answer[1].issuer # "ca" => NewRawChain(answer) = NilChain
          /\ VerifyChain(answer, now) = {} <=> answer[1].notBefore <= now /\ now <= answer[1].notAfter
      BY <3>1, ChainChecks DEF TypeInv
    <3>3. new = IF /\ answer[1].issuer = "ca" /\ VerifyChain(answer, now) = {}
                   /\ VerifySXGCriteria(answer) = {}
                THEN answer ELSE NilChain
      BY <1>4, <2>2, <3>2 DEF AcmeFetch
    <3>4. new # NilChain => Accepted(new) /\ new[1].notAfter >= now + certRenewalInterval
      BY <3>1, <3>2, <3>3 DEF Accepted
    <3>5. env.up => new # NilChain
      <4> SUFFICES ASSUME env.up PROVE new # NilChain
        OBVIOUS
      <4>1. answer = Issue(now) /\ now \in 0..MaxTime
        BY DEF CAAnswers, TypeInv
      <4>2. ~Excused
        BY DEF Excused
      <4> QED BY <2>2, <3>3, <4>1, <4>2, IssuedChain
    <3> QED BY <3>4, <3>5
  <2> QED BY <2>1, <2>2
<1> QED BY <1>3, <1>4

\* What rcSource.Fetch may return: nothing, the chain in use, or another that
\* passes the checks. While the environment is up it is one that lasts.
LEMMA FetchOutcome ==
  ASSUME SourcesInv, NEW new \in Fetch
  PROVE  /\ new \in {NilChain, chain} \/ (Accepted(new) /\ new[1].notAfter >= Start - 1 + certRenewalInterval)
         /\ env.up => new # NilChain /\ new[1].notAfter >= now + certRenewalInterval
<1> USE DEF SourcesInv
<1>0. Start - 1 <= now /\ Start \in Int /\ now \in 0..MaxTime /\ now \in Int /\ certRenewalInterval \in Nat
  BY Durations DEF TypeInv, Start
<1>1. CASE source = "file"
  <2>1. new = LocalCertFileFetch(file, now)
    BY <1>1 DEF Fetch
  <2>2. /\ file = NilChain \/ (Shaped(file) /\ file[1].notAfter >= Start - 1 + certRenewalInterval)
        /\ env.up => /\ LocalCertFileFetch(file, now) # NilChain
                     /\ file[1].notAfter >= now + certRenewalInterval
    BY <1>1 DEF FileInv
  <2>3. new = NilChain \/ (new = file /\ Accepted(file))
    BY <1>0, <1>1, <2>1, <2>2, FileFetch DEF Accepted
  <2> QED BY <2>1, <2>2, <2>3, <1>0, ChainChecks DEF Accepted
<1>2. CASE source = "acme"
  <2>1. PICK answer \in CAAnswers : new = AcmeFetch(chain, answer, now)
    BY <1>2 DEF Fetch
  <2>2. /\ new \in {NilChain, chain} \/ (Accepted(new) /\ new[1].notAfter >= now + certRenewalInterval)
        /\ env.up => new # NilChain /\ new[1].notAfter >= now + certRenewalInterval
    BY <1>2, <2>1, ClientFetch DEF ChainInv
  <2>3. Accepted(new) => new[1].notAfter \in Int
    BY DEF Accepted, Shaped
  <2> QED BY <1>0, <2>2, <2>3
<1> QED BY <1>1, <1>2 DEF TypeInv

\* OCSPClient.Fetch accepts every response that it gets while the environment is up
\* and none of those that it gets while it is down.
LEMMA Responses ==
  ASSUME TypeInv, NEW ch, Accepted(ch), NEW resp \in OCSPAnswers(ch)
  PROVE  IF env.up
         THEN /\ Acceptable(resp, ch)
              /\ resp = GoodResponse(ch, resp.thisUpdate)
              /\ resp.thisUpdate \in Int /\ resp.thisUpdate <= now /\ now <= resp.nextUpdate
         ELSE ~Acceptable(resp, ch)
<1> DEFINE serial == ch[1].serial
           Good(t) == [serial |-> serial, signer |-> "ca", status |-> "good", thisUpdate |-> t,
                       nextUpdate |-> t + MaxOCSPResponseDuration, sct |-> FALSE]
<1>1. serial \in Nat \ {0} /\ now \in Int /\ MaxOCSPResponseDuration \in Nat
      /\ MaxOCSPResponseDuration > 0
  BY Durations, TimingAssumption DEF Accepted, Shaped, TypeInv
<1>2. Leaf(ch).serial = serial /\ Issuer(ch).subject = "ca"
  BY DEF Accepted, Shaped, Leaf, Issuer, Root
<1>3. \A t : GoodResponse(ch, t) = Good(t)
  BY <1>2 DEF GoodResponse
<1>4. Acceptable(resp, ch) <=>
        /\ ParseOCSPResponseForRawChain(resp, ch) # NilResponse
        /\ VerifyForRawChain(resp, now, ch) = {}
        /\ OCSPVerifySXGCriteria(resp) = {}
  BY DEF Acceptable
<1> HIDE DEF serial
<1>5. CASE env.up
  <2>1. PICK a \in {a \in 0..MaxAge : a <= now} : resp = Good(now - a)
    BY <1>3, <1>5 DEF OCSPAnswers
  <2>2. /\ resp.serial = serial /\ resp.signer = "ca" /\ resp.status = "good"
        /\ resp.thisUpdate = now - a /\ resp.nextUpdate = now - a + MaxOCSPResponseDuration
    BY <2>1
  <2>3. a \in Int /\ 0 <= a /\ a <= MaxOCSPResponseDuration
    BY TimingAssumption, Durations
  <2>4. resp = Good(resp.thisUpdate)
    BY <2>1, <2>2
  <2>5. resp.thisUpdate \in Int /\ resp.thisUpdate <= now /\ now <= resp.nextUpdate
        /\ resp.thisUpdate < resp.nextUpdate
        /\ resp.nextUpdate - resp.thisUpdate = MaxOCSPResponseDuration
    BY <1>1, <2>2, <2>3
  <2>6. resp # NilResponse /\ resp # DummyOCSPResponse
    BY <2>2 DEF NilResponse, DummyOCSPResponse
  <2>7. ParseOCSPResponseForRawChain(resp, ch) = resp
    BY <1>2, <2>2 DEF ParseOCSPResponseForRawChain
  <2>8. verifyWithTime(resp, now) = {}
    BY <1>1, <2>2, <2>5 DEF verifyWithTime
  <2>9. VerifyForRawChain(resp, now, ch) = {}
    BY <1>2, <2>2, <2>6, <2>7, <2>8 DEF VerifyForRawChain, verifyWithRawChain
  <2>10. OCSPVerifySXGCriteria(resp) = {}
    BY <1>1, <2>2, <2>5, <2>6 DEF OCSPVerifySXGCriteria
  <2> QED BY <1>3, <1>4, <1>5, <2>4, <2>5, <2>6, <2>7, <2>9, <2>10, Zenon
<1>6. CASE ~env.up
  <2> SUFFICES ~Acceptable(resp, ch)
    BY <1>6
  <2>1. resp \in {NilResponse,
                  [Good(now) EXCEPT !.serial = @ + 1],
                  [Good(now) EXCEPT !.signer = "other"],
                  [Good(now) EXCEPT !.status = "revoked"],
                  [Good(now) EXCEPT !.thisUpdate = now + 1],
                  [Good(now) EXCEPT !.thisUpdate = now - 2, !.nextUpdate = now - 1],
                  [Good(now) EXCEPT !.nextUpdate = @ + 1]}
    BY <1>3, <1>6, Zenon DEF OCSPAnswers, DefectiveResponses
  <2>2. CASE resp = NilResponse
    BY <1>4, <2>2 DEF ParseOCSPResponseForRawChain
  <2>3. CASE resp = [Good(now) EXCEPT !.serial = @ + 1]
    <3>1. resp.serial # serial
      BY <1>1, <2>3
    <3> QED BY <1>2, <1>4, <3>1 DEF ParseOCSPResponseForRawChain
  <2>4. CASE resp = [Good(now) EXCEPT !.signer = "other"]
    BY <1>2, <1>4, <2>4 DEF ParseOCSPResponseForRawChain
  <2>5. CASE resp = [Good(now) EXCEPT !.status = "revoked"]
    <3>1. resp.status # "good"
      BY <2>5
    <3> QED BY <1>4, <3>1 DEF OCSPVerifySXGCriteria
  <2>6. CASE resp = [Good(now) EXCEPT !.thisUpdate = now + 1]
    <3>1. resp.thisUpdate = now + 1
      BY <2>6
    <3>2. verifyWithTime(resp, now) # {}
      BY <1>1, <3>1 DEF verifyWithTime
    <3> QED BY <1>4, <3>2 DEF VerifyForRawChain
  <2>7. CASE resp = [Good(now) EXCEPT !.thisUpdate = now - 2, !.nextUpdate = now - 1]
    <3>1. resp.thisUpdate = now - 2 /\ resp.nextUpdate = now - 1
      BY <2>7
    <3>2. verifyWithTime(resp, now) # {}
      BY <1>1, <3>1 DEF verifyWithTime
    <3> QED BY <1>4, <3>2 DEF VerifyForRawChain
  <2>8. CASE resp = [Good(now) EXCEPT !.nextUpdate = @ + 1]
    <3>1. resp.thisUpdate = now /\ resp.nextUpdate = now + MaxOCSPResponseDuration + 1
      BY <2>8
    <3>2. resp.nextUpdate - resp.thisUpdate > MaxOCSPResponseDuration
      BY <1>1, <3>1
    <3> QED BY <1>4, <3>2 DEF OCSPVerifySXGCriteria
  <2> QED BY <2>1, <2>2, <2>3, <2>4, <2>5, <2>6, <2>7, <2>8, Zenon
<1> QED BY <1>5, <1>6

\* maintainOCSPResp publishes the chain, with a response that lasts or with the
\* dummy response of a certificate without OCSP; or it will try again soon.
PublishesChain(ch) ==
  /\ held' = [chain |-> ch, resp |-> held'.resp, sctList |-> FALSE]
  /\ IF ch[1].ocsp
     THEN /\ env.up
          /\ held'.resp = GoodResponse(ch, held'.resp.thisUpdate)
          /\ held'.resp.thisUpdate \in Int /\ held'.resp.thisUpdate <= now
          /\ now <= held'.resp.nextUpdate
          /\ orAt' \in Int /\ orAt' <= held'.resp.thisUpdate + MaxOCSPResponseDuration \div 2
     ELSE held'.resp = DummyOCSPResponse /\ orAt' = Never

TriesAgain == ~env.up /\ UNCHANGED held /\ orAt' \in now + 1 .. now + BackoffMax

LEMMA OCSPOutcome ==
  ASSUME TypeInv, NEW ch, Accepted(ch), OCSPFetch(ch)
  PROVE  PublishesChain(ch) \/ TriesAgain
<1>1. CASE allowTestCert /\ ~Leaf(ch).ocsp
  <2>1. held' = [chain |-> ch, resp |-> DummyOCSPResponse, sctList |-> FALSE] /\ orAt' = Never
    BY <1>1 DEF OCSPFetch
  <2> QED BY <1>1, <2>1 DEF PublishesChain, Leaf
<1>2. CASE ~(allowTestCert /\ ~Leaf(ch).ocsp)
  <2>0. ch[1].ocsp
    BY <1>2 DEF Accepted, Shaped, Excused, Leaf
  <2>1. PICK resp \in OCSPAnswers(ch), expiry \in {0, now + 1, now + MaxOCSPResponseDuration},
             wait \in RetryWaits :
          IF Acceptable(resp, ch)
          THEN /\ held' = [chain |-> ch, resp |-> resp, sctList |-> FALSE]
               /\ orAt' = nextRunAt(resp, expiry)
          ELSE orAt' = now + wait /\ UNCHANGED held
    BY <1>2 DEF OCSPFetch
  <2>2. CASE env.up
    <3>1. /\ Acceptable(resp, ch)
          /\ resp = GoodResponse(ch, resp.thisUpdate)
          /\ resp.thisUpdate \in Int /\ resp.thisUpdate <= now /\ now <= resp.nextUpdate
      BY <2>2, Responses
    <3>2. held' = [chain |-> ch, resp |-> resp, sctList |-> FALSE] /\ orAt' = nextRunAt(resp, expiry)
      BY <2>1, <3>1
    <3>3. held'.resp = resp
      BY <3>2
    <3>4. resp.nextUpdate = resp.thisUpdate + MaxOCSPResponseDuration
      BY <3>1 DEF GoodResponse
    <3>5. expiry \in Int
      BY Durations DEF TypeInv
    <3>6. orAt' \in Int /\ orAt' <= resp.thisUpdate + MaxOCSPResponseDuration \div 2
      <4> DEFINE half == MaxOCSPResponseDuration \div 2
      <4>1. half \in Int /\ MaxOCSPResponseDuration \in Int
        BY Durations
      <4>2. resp.nextUpdate - resp.thisUpdate = MaxOCSPResponseDuration
        BY <3>1, <3>4, <4>1
      <4> HIDE DEF half
      <4>3. orAt' = IF resp.thisUpdate < expiry /\ expiry < resp.thisUpdate + half
                    THEN expiry ELSE resp.thisUpdate + half
        BY <3>2, <4>2 DEF nextRunAt, half
      <4>4. orAt' \in Int /\ orAt' <= resp.thisUpdate + half
        BY <3>1, <3>5, <4>1, <4>3
      <4> QED BY <4>4 DEF half
    <3> QED BY <2>0, <2>2, <3>1, <3>2, <3>3, <3>6 DEF PublishesChain
  <2>3. CASE ~env.up
    <3>1. ~Acceptable(resp, ch)
      BY <2>3, Responses
    <3>2. orAt' = now + wait /\ UNCHANGED held
      BY <2>1, <3>1
    <3>3. wait \in 1..BackoffMax
      BY Durations, TimingAssumption DEF RetryWaits
    <3> QED BY <2>3, <3>2, <3>3, Durations DEF TriesAgain, TypeInv
  <2> QED BY <2>2, <2>3
<1> QED BY <1>1, <1>2

-----------------------------------------------------------------------------
(* The steps. *)

\* What an event leaves, with a chain that lasts or that was there before.
LEMMA AfterEvent ==
  ASSUME SourcesInv, UNCHANGED <<setup, now, env, file>>,
         Accepted(chain'), PublishesChain(chain') \/ TriesAgain,
         rcAt' \in Int, now <= rcAt', rcAt' <= now + FetchInterval,
         FromBefore(chain') \/ (env.up /\ Recent'),
         env.up => Recent' \/ DueSinceStart(rcAt', FetchInterval)
  PROVE  SourcesInv'
<1> USE DEF SourcesInv
<1>0. /\ now' = now /\ env' = env /\ source' = source /\ allowTestCert' = allowTestCert /\ file' = file
      /\ Start' = Start /\ (Excused' <=> Excused)
  BY DEF setup, Start, Excused
<1>1. /\ now \in Int /\ now <= MaxTime /\ Start \in Int /\ env.up \in BOOLEAN
      /\ orAt \in Int /\ BackoffMax \in Nat /\ MaxTime \in Nat /\ FetchInterval \in Nat
      /\ MaxOCSPResponseDuration \div 2 \in Nat
  BY Durations DEF TypeInv, Start
<1>2. \A ch : (Shaped(ch)' <=> Shaped(ch)) /\ (Accepted(ch)' <=> Accepted(ch))
              /\ (FromBefore(ch)' <=> FromBefore(ch))
  BY <1>0 DEF Shaped, Accepted, FromBefore
<1>3. CASE PublishesChain(chain')
  <2>1. /\ held' = [chain |-> chain', resp |-> held'.resp, sctList |-> FALSE]
        /\ held'.chain = chain' /\ Published'
    BY <1>3 DEF PublishesChain, Published
  <2>2. chain'[1].ocsp \in BOOLEAN
    BY DEF Accepted, Shaped
  <2>3. /\ orAt' \in Int
        /\ orAt' < now => env.up /\ now <= held'.resp.nextUpdate
    BY <1>1, <1>3, <2>2 DEF PublishesChain, Never
  <2>4. TypeInv'
    BY <1>0, <2>1, <2>3 DEF TypeInv
  <2>5. ClockInv'
    BY <1>0, <2>1, <2>3 DEF ClockInv
  <2>6. FileInv'
    BY <1>0, <1>2 DEF FileInv, LocalCertFileFetch
  <2>7. ChainInv'
    BY <1>0, <1>2, <2>1 DEF ChainInv, DueSinceStart
  <2>8. RespInv'
    BY <1>0, <1>3, <2>1 DEF RespInv, PublishesChain, Midpoint, GoodResponse
  <2> QED BY <2>1, <2>4, <2>5, <2>6, <2>7, <2>8 DEF RetryInv
<1>4. CASE TriesAgain
  <2>1. ~env.up /\ held' = held /\ orAt' \in Int /\ now < orAt' /\ orAt' <= now + BackoffMax
    BY <1>1, <1>4 DEF TriesAgain
  <2>2. TypeInv'
    BY <1>0, <2>1 DEF TypeInv
  <2>3. ClockInv'
    BY <1>0, <1>1, <2>1 DEF ClockInv
  <2>4. FileInv'
    BY <1>0, <1>2 DEF FileInv, LocalCertFileFetch
  <2>5. ChainInv'
    BY <1>0, <1>2, <2>1 DEF ChainInv
  <2>6. RespInv'
    <3>1. Start <= now
      BY <1>1, <2>1 DEF ClockInv, Start
    <3>2. now <= orAt
      BY <1>1, <2>1 DEF ClockInv
    <3>3. Midpoint' = Midpoint
      BY <2>1 DEF Midpoint
    <3>4. ASSUME held.chain[1].ocsp PROVE Start <= Midpoint
      <4>1. Midpoint \in Int
        BY <1>1, <3>4 DEF RespInv, Midpoint
      <4> QED BY <1>1, <2>1, <3>1, <3>2, <3>4, <4>1 DEF RespInv
    <3> QED BY <1>0, <2>1, <3>3, <3>4 DEF RespInv, GoodResponse
  <2>7. RetryInv'
    BY <1>0, <2>1 DEF RetryInv
  <2> QED BY <2>2, <2>3, <2>4, <2>5, <2>6, <2>7
<1> QED BY <1>3, <1>4

\* rcNext occurs.
LEMMA ChainEventStep == SourcesInv /\ ChainEvent => SourcesInv'
<1> SUFFICES ASSUME SourcesInv, ChainEvent PROVE SourcesInv'
  OBVIOUS
<1> USE DEF SourcesInv
<1>0. /\ now \in 0..MaxTime /\ now \in Int /\ Start \in Int /\ Start - 1 <= now /\ FetchInterval \in Nat
      /\ FetchInterval > 0 /\ MaxOutage \in Nat /\ certRenewalInterval \in Nat /\ rcAt \in Int
      /\ env.up \in BOOLEAN
  BY Durations, TimingAssumption DEF TypeInv, Start
<1>1. /\ rcAt <= now /\ rcAt' = now + FetchInterval /\ UNCHANGED <<setup, now, env, file>>
  BY DEF ChainEvent
<1>2. rcAt' \in Int /\ now <= rcAt' /\ rcAt' <= now + FetchInterval
  BY <1>0, <1>1
<1>3. PICK new \in Fetch :
        \/ new \in {NilChain, chain} /\ UNCHANGED <<chain, held, orAt, attempt>>
        \/ new \notin {NilChain, chain} /\ chain' = new /\ OCSPFetch(new)
  BY DEF ChainEvent
<1>4. /\ new \in {NilChain, chain} \/ (Accepted(new) /\ new[1].notAfter >= Start - 1 + certRenewalInterval)
      /\ env.up => new # NilChain /\ new[1].notAfter >= now + certRenewalInterval
  BY FetchOutcome
<1>5. Accepted(chain) /\ chain[1].notAfter \in Int
  BY DEF ChainInv, Accepted, Shaped
<1>6. CASE new \in {NilChain, chain} /\ UNCHANGED <<chain, held, orAt, attempt>>
  <2>1. /\ now' = now /\ env' = env /\ source' = source /\ allowTestCert' = allowTestCert
        /\ file' = file /\ chain' = chain /\ held' = held /\ orAt' = orAt
        /\ Start' = Start /\ (Excused' <=> Excused) /\ (Published' <=> Published)
    BY <1>1, <1>6 DEF setup, Start, Excused, Published
  <2>2. env.up => Recent'
    <3>1. env.up => chain[1].notAfter >= now + certRenewalInterval
      BY <1>4, <1>6
    <3>2. rcAt' - FetchInterval = now
      BY <1>0, <1>1
    <3> QED BY <2>1, <3>1, <3>2 DEF Recent
  <2>3. \A ch : (Shaped(ch)' <=> Shaped(ch)) /\ (Accepted(ch)' <=> Accepted(ch))
                /\ (FromBefore(ch)' <=> FromBefore(ch))
    BY <2>1 DEF Shaped, Accepted, FromBefore
  <2>4. TypeInv' /\ RetryInv'
    BY <1>2, <2>1 DEF TypeInv, RetryInv
  <2>5. ClockInv'
    BY <1>2, <2>1 DEF ClockInv
  <2>6. FileInv'
    BY <2>1, <2>3, SMTT(30) DEF FileInv, LocalCertFileFetch
  <2>7. ChainInv'
    BY <2>1, <2>2, <2>3 DEF ChainInv, DueSinceStart
  <2>8. RespInv'
    BY <2>1 DEF RespInv, Midpoint, DueSinceStart, GoodResponse
  <2> QED BY <2>4, <2>5, <2>6, <2>7, <2>8
<1>7. CASE new \notin {NilChain, chain} /\ chain' = new /\ OCSPFetch(new)
  <2>1. Accepted(new) /\ new[1].notAfter >= Start - 1 + certRenewalInterval /\ new[1].notAfter \in Int
    BY <1>4, <1>7 DEF Accepted, Shaped
  <2>2. PublishesChain(new) \/ TriesAgain
    BY <1>7, <2>1, OCSPOutcome
  <2>3. FromBefore(new)
    BY <1>0, <2>1 DEF FromBefore
  <2>4. env.up => Recent'
    <3>1. rcAt' - FetchInterval = now
      BY <1>0, <1>1
    <3> QED BY <1>4, <1>7, <3>1 DEF Recent
  <2> QED BY <1>1, <1>2, <1>7, <2>1, <2>2, <2>3, <2>4, AfterEvent
<1> QED BY <1>3, <1>6, <1>7

\* orNext occurs.
LEMMA OCSPEventStep == SourcesInv /\ OCSPEvent => SourcesInv'
<1> SUFFICES ASSUME SourcesInv, OCSPEvent PROVE SourcesInv'
  OBVIOUS
<1>1. /\ OCSPFetch(chain) /\ UNCHANGED <<setup, now, env, file>>
      /\ chain' = chain /\ rcAt' = rcAt
  BY DEF OCSPEvent
<1>2. Accepted(chain) /\ TypeInv
  BY DEF SourcesInv, ChainInv
<1>3. PublishesChain(chain) \/ TriesAgain
  BY <1>1, <1>2, OCSPOutcome
<1>4. rcAt' \in Int /\ now <= rcAt' /\ rcAt' <= now + FetchInterval
  BY <1>1 DEF SourcesInv, TypeInv, ClockInv
<1>5. Recent' <=> Recent
  BY <1>1 DEF Recent
<1>6. /\ FromBefore(chain') \/ (env.up /\ Recent')
      /\ env.up => Recent' \/ DueSinceStart(rcAt', FetchInterval)
  BY <1>1, <1>5 DEF SourcesInv, ChainInv
<1> QED BY <1>1, <1>2, <1>3, <1>4, <1>6, AfterEvent

\* Min of two numbers.
LEMMA MinOfTwo ==
  ASSUME NEW a \in Int, NEW b \in Int
  PROVE  Min({a, b}) = IF a <= b THEN a ELSE b
BY DEF Min

\* How the environment, and with it Start, moves on.
Fails(k) == env.up /\ k >= MinUp /\ ~env'.up /\ env'.since = 1 /\ Start' = now + 1
Recovers == ~env.up /\ env'.up /\ env'.since = 1 /\ Start' = now + 1
StaysUp(k) == env.up /\ env'.up /\ env'.since \in 0..k + 1 /\ Start <= Start' /\ (Start' = Start \/ k >= MinUp)
StaysDown(k) == ~env.up /\ ~env'.up /\ k < MaxOutage /\ env'.since = k + 1 /\ Start' = Start

LEMMA EnvironmentStep ==
  ASSUME TypeInv, Tick
  PROVE  /\ env' = [up |-> env'.up, since |-> env'.since] /\ env'.up \in BOOLEAN
         /\ env'.since \in Nat /\ env'.since <= env.since + 1 /\ Start' \in Int
         /\ \/ Fails(env.since) \/ Recovers \/ StaysUp(env.since) \/ StaysDown(env.since)
<1> DEFINE k == env.since
           cap == MinUp + MaxOutage
<1>1. /\ k \in Int /\ 0 <= k /\ now \in Int /\ MinUp \in Nat /\ MaxOutage \in Nat /\ now' = now + 1
      /\ env.up \in BOOLEAN /\ env = [up |-> env.up, since |-> k]
  BY Durations DEF TypeInv, Tick
<1>2. Start' = now' - env'.since + 1 /\ Start = now - k + 1
  BY DEF Start
<1>3. CASE env.up /\ env.since >= MinUp /\ env' = [up |-> FALSE, since |-> 1]
  BY <1>1, <1>2, <1>3 DEF Fails
<1>4. CASE ~env.up /\ env' = [up |-> TRUE, since |-> 1]
  BY <1>1, <1>2, <1>4 DEF Recovers
<1>5. CASE /\ env.up \/ env.since < MaxOutage
           /\ env' = [env EXCEPT !.since = Min({@ + 1, MinUp + MaxOutage})]
  <2>1. env' = [up |-> env.up, since |-> Min({k + 1, cap})]
    BY <1>1, <1>5
  <2>2. Min({k + 1, cap}) = IF k + 1 <= cap THEN k + 1 ELSE cap
    BY <1>1, MinOfTwo
  <2>3. env'.up = env.up /\ env'.since = IF k + 1 <= cap THEN k + 1 ELSE cap
    BY <2>1, <2>2
  <2> HIDE DEF cap
  <2>4. CASE env.up
    BY <1>1, <1>2, <2>1, <2>3, <2>4 DEF StaysUp, cap
  <2>5. CASE ~env.up
    BY <1>1, <1>2, <1>5, <2>1, <2>3, <2>5 DEF StaysDown, cap
  <2> QED BY <1>1, <2>4, <2>5
<1> QED BY <1>3, <1>4, <1>5 DEF Tick

\* While the environment is up for longer than the runs take, they are done.
LEMMA SettledWhenUp ==
  ASSUME SourcesInv, env.up, env.since >= MinUp, rcAt > now, orAt > now
  PROVE  Recent /\ Published /\ (held.chain[1].ocsp => orAt <= Midpoint)
<1>1. /\ now \in Int /\ env.since \in Int /\ rcAt \in Int /\ orAt \in Int /\ FetchInterval \in Nat
      /\ BackoffMax \in Nat /\ MinUp \in Nat /\ FetchInterval <= MinUp /\ BackoffMax <= MinUp
  BY Durations, TimingAssumption DEF SourcesInv, TypeInv
<1>2. ~DueSinceStart(rcAt, FetchInterval) /\ ~DueSinceStart(orAt, BackoffMax)
  BY <1>1 DEF DueSinceStart, Start
<1> QED BY <1>2 DEF SourcesInv, ChainInv, RespInv

\* What lies far enough after now does so after any earlier time.
LEMMA NotBefore ==
  ASSUME NEW a \in Int, NEW n \in Int, NEW s \in Int, NEW r \in Nat, a >= n + r, s - 1 <= n
  PROVE  a >= s - 1 + r
OBVIOUS

\* The operator's part of the passing of time.
LEMMA FileStep == ASSUME SourcesInv, Tick PROVE FileInv'
<1> SUFFICES ASSUME source = "file"
             PROVE  /\ file' = NilChain \/ (Shaped(file') /\ file'[1].notAfter >= Start' - 1 + certRenewalInterval)
                    /\ env'.up => /\ LocalCertFileFetch(file', now') # NilChain
                                  /\ file'[1].notAfter >= now' + certRenewalInterval
  <2>1. source' = source /\ allowTestCert' = allowTestCert
    BY DEF Tick, setup
  <2> QED BY <2>1, Zenon DEF FileInv, Shaped, Excused, LocalCertFileFetch
<1>1. /\ TypeInv /\ now' = now + 1 /\ now' \in Nat /\ now \in Int /\ now' \in Int
      /\ certRenewalInterval \in Nat /\ CertDuration \in Nat /\ certRenewalInterval <= CertDuration
  BY Durations, TimingAssumption DEF SourcesInv, TypeInv, Tick
<1>6. now' \in 0..MaxTime
  BY Durations DEF Tick, SourcesInv, TypeInv
<1>2. file = NilChain \/ (Shaped(file) /\ file[1].notAfter >= Start - 1 + certRenewalInterval)
  BY DEF SourcesInv, FileInv
<1>3. Start' \in Int /\ Start' - 1 <= now' /\ Start \in Int
  BY <1>1, EnvironmentStep DEF Start, TypeInv
<1>4. CASE env'.up
  <2>1. \/ file' = Issue(now')
        \/ /\ file' = file /\ LocalCertFileFetch(file, now') # NilChain
           /\ ~shouldRenewCert(file, now')
    BY <1>4 DEF Tick
  <2>2. CASE file' = Issue(now')
    <3>1. /\ Shaped(Issue(now')) /\ Issue(now')[1].issuer = "ca"
          /\ Issue(now')[1].notBefore = now' /\ Issue(now')[1].notAfter = now' + CertDuration
          /\ Excused \/ VerifySXGCriteria(Issue(now')) = {}
      BY <1>1, <1>6, IssuedChain
    <3>2. Issue(now') # NilChain
      BY <1>1, <1>6, <3>1, ChainChecks
    <3>3. LocalCertFileFetch(Issue(now'), now') # NilChain
      BY <1>1, <1>6, <3>1, <3>2, FileFetch
    <3>5. Issue(now')[1].notAfter \in Int /\ Issue(now')[1].notAfter >= now' + certRenewalInterval
      BY ONLY <1>1, <3>1
    <3>4. Issue(now')[1].notAfter >= Start' - 1 + certRenewalInterval
      BY ONLY <1>1, <1>3, <3>5, NotBefore, Zenon
    <3> QED BY ONLY <2>2, <3>1, <3>3, <3>4, <3>5
  <2>3. CASE /\ file' = file /\ LocalCertFileFetch(file, now') # NilChain
             /\ ~shouldRenewCert(file, now')
    <3>1. file # NilChain
      BY <2>3 DEF shouldRenewCert
    <3>2. file[1].notAfter >= now' + certRenewalInterval /\ file[1].notAfter \in Int
      BY <1>1, <1>2, <2>3, <3>1 DEF shouldRenewCert, getDurationToExpiry, Leaf, Shaped
    <3>3. file[1].notAfter >= Start' - 1 + certRenewalInterval
      BY ONLY <1>1, <1>3, <3>2, NotBefore, Zenon
    <3> QED BY ONLY <1>2, <2>3, <3>1, <3>2, <3>3
  <2> QED BY <2>1, <2>2, <2>3
<1>5. CASE ~env'.up
  <2>1. file' = file \/ file' \in DefectiveChains(now')
    BY <1>5 DEF Tick
  <2>2. CASE file' \in DefectiveChains(now')
    <3>1. file' = NilChain \/ (Shaped(file') /\ file'[1].notAfter >= now' + certRenewalInterval)
      BY <1>1, <1>6, <2>2, DefectiveChain
    <3>2. Shaped(file') => file'[1].notAfter \in Int
      BY DEF Shaped
    <3>3. Shaped(file') /\ file'[1].notAfter >= now' + certRenewalInterval
            => file'[1].notAfter >= Start' - 1 + certRenewalInterval
      BY ONLY <1>1, <1>3, <3>2, NotBefore, Zenon
    <3> QED BY ONLY <1>5, <3>1, <3>3
  <2>3. CASE file' = file
    <3>1. CASE env.up
      <4>1. file[1].notAfter >= now + certRenewalInterval
        BY <3>1 DEF SourcesInv, FileInv
      <4>2. Start' = now + 1
        BY <1>1, <1>5, <3>1, EnvironmentStep DEF Fails, Recovers, StaysUp, StaysDown
      <4> QED BY <1>1, <1>2, <1>5, <2>3, <4>1, <4>2
    <3>2. CASE ~env.up
      <4>1. Start' = Start
        BY <1>1, <1>5, <3>2, EnvironmentStep DEF Fails, Recovers, StaysUp, StaysDown
      <4> QED BY <1>2, <1>5, <2>3, <4>1
    <3> QED BY <3>1, <3>2
  <2> QED BY <2>1, <2>2, <2>3
<1> QED BY <1>4, <1>5

\* Time passes.
LEMMA TickStep == SourcesInv /\ Tick => SourcesInv'
<1> SUFFICES ASSUME SourcesInv, Tick PROVE SourcesInv'
  OBVIOUS
<1>1. /\ now' = now + 1 /\ now' <= MaxTime /\ rcAt > now /\ orAt > now
      /\ source' = source /\ allowTestCert' = allowTestCert
      /\ chain' = chain /\ held' = held /\ rcAt' = rcAt /\ orAt' = orAt
      /\ (Published' <=> Published) /\ (Recent' <=> Recent) /\ Midpoint' = Midpoint
      /\ (Excused' <=> Excused)
  BY Durations DEF Tick, setup, Published, Recent, Midpoint, Excused, SourcesInv, TypeInv
<1>2. /\ now \in Int /\ env.since \in Int /\ rcAt \in Int /\ orAt \in Int /\ Start \in Int
      /\ Start = now - env.since + 1 /\ 0 <= env.since
      /\ FetchInterval \in Nat /\ BackoffMax \in Nat /\ MaxOutage \in Nat /\ certRenewalInterval \in Nat
      /\ MaxOutage > 0 /\ env.up \in BOOLEAN
      /\ chain[1].notAfter \in Int /\ held.chain[1].notAfter \in Int
  BY Durations, TimingAssumption DEF SourcesInv, TypeInv, ChainInv, Accepted, Shaped, Start
<1>3. /\ env' = [up |-> env'.up, since |-> env'.since] /\ env'.up \in BOOLEAN
      /\ env'.since \in Nat /\ env'.since <= env.since + 1 /\ Start' \in Int
      /\ Fails(env.since) \/ Recovers \/ StaysUp(env.since) \/ StaysDown(env.since)
  BY EnvironmentStep DEF SourcesInv
<1>4. TypeInv'
  BY <1>1, <1>2, <1>3 DEF SourcesInv, TypeInv
<1>5. /\ ~env.up => env.since <= MaxOutage
      /\ rcAt <= now + FetchInterval
  BY DEF SourcesInv, ClockInv
<1>6. ClockInv'
  BY <1>1, <1>2, <1>3, <1>5 DEF ClockInv, Fails, Recovers, StaysUp, StaysDown
<1>7. FileInv'
  BY FileStep
<1>8. Accepted(chain)' /\ Accepted(held.chain)'
  BY <1>1, <1>2, SMTT(30) DEF SourcesInv, ChainInv, Accepted, Shaped
<1>9. CASE Fails(env.since)
  <2>1. Recent /\ Published /\ (held.chain[1].ocsp => orAt <= Midpoint)
    BY <1>1, <1>9, SettledWhenUp DEF Fails
  <2>2. FromBefore(chain)' /\ FromBefore(held.chain)'
    BY <1>1, <1>2, <1>9, <2>1 DEF Fails, FromBefore, Recent, Published
  <2>3. ChainInv'
    BY <1>8, <1>9, <2>2 DEF ChainInv, Fails
  <2>4. RespInv' /\ RetryInv'
    BY <1>1, <1>2, <2>1 DEF SourcesInv, RespInv, RetryInv, GoodResponse
  <2> QED BY <1>4, <1>6, <1>7, <2>3, <2>4 DEF SourcesInv
<1>10. CASE Recovers
  <2>1. FromBefore(chain) /\ FromBefore(held.chain)
    BY <1>10 DEF SourcesInv, ChainInv, Recovers
  <2>2. FromBefore(chain)' /\ FromBefore(held.chain)'
    BY <1>1, <1>2, <1>5, <1>10, <2>1 DEF Recovers, FromBefore
  <2>3. Published \/ orAt <= now + BackoffMax
    BY <1>10 DEF SourcesInv, RetryInv, Recovers
  <2>4. ChainInv'
    BY <1>1, <1>2, <1>5, <1>8, <1>10, <2>2, <2>3 DEF ChainInv, Recovers, DueSinceStart
  <2>5. RespInv'
    <3>1. ASSUME held.chain[1].ocsp
          PROVE  orAt <= Midpoint \/ (DueSinceStart(orAt, BackoffMax)' /\ Start' <= Midpoint + MaxOutage)
      <4>1. /\ held.resp.thisUpdate \in Int
            /\ orAt <= Midpoint \/ (orAt <= now + BackoffMax /\ Start <= Midpoint)
        BY <1>10, <3>1 DEF SourcesInv, RespInv, Recovers
      <4>2. Midpoint \in Int
        BY <4>1, Durations DEF Midpoint
      <4> QED BY <1>1, <1>2, <1>5, <1>10, <4>1, <4>2 DEF Recovers, DueSinceStart
    <3> QED BY <1>1, <1>2, <1>10, <3>1 DEF SourcesInv, RespInv, Recovers, GoodResponse
  <2>6. RetryInv'
    BY <1>10 DEF RetryInv, Recovers
  <2> QED BY <1>4, <1>6, <1>7, <2>4, <2>5, <2>6 DEF SourcesInv
<1>11. CASE StaysUp(env.since)
  <2>1. CASE Start' = Start
    <3>1. ChainInv'
      BY <1>1, <1>8, <1>11, <2>1 DEF SourcesInv, ChainInv, StaysUp, FromBefore, DueSinceStart
    <3>2. RespInv' /\ RetryInv'
      BY <1>1, <1>2, <1>11, <2>1 DEF SourcesInv, RespInv, RetryInv, StaysUp, DueSinceStart, GoodResponse
    <3> QED BY <1>4, <1>6, <1>7, <3>1, <3>2 DEF SourcesInv
  <2>2. CASE Start' # Start
    <3>1. Recent /\ Published /\ (held.chain[1].ocsp => orAt <= Midpoint)
      BY <1>1, <1>11, <2>2, SettledWhenUp DEF StaysUp
    <3>2. ChainInv'
      BY <1>1, <1>8, <1>11, <3>1 DEF ChainInv, StaysUp
    <3>3. RespInv' /\ RetryInv'
      BY <1>1, <1>2, <3>1 DEF SourcesInv, RespInv, RetryInv, GoodResponse
    <3> QED BY <1>4, <1>6, <1>7, <3>2, <3>3 DEF SourcesInv
  <2> QED BY <2>1, <2>2
<1>12. CASE StaysDown(env.since)
  <2>1. ChainInv'
    BY <1>1, <1>8, <1>12 DEF SourcesInv, ChainInv, StaysDown, FromBefore
  <2>2. RespInv'
    BY <1>1, <1>2, <1>12, SMTT(30) DEF SourcesInv, RespInv, StaysDown, GoodResponse
  <2>3. RetryInv'
    BY <1>1, <1>2, <1>12 DEF SourcesInv, RetryInv, StaysDown
  <2> QED BY <1>4, <1>6, <1>7, <2>1, <2>2, <2>3 DEF SourcesInv
<1> QED BY <1>3, <1>9, <1>10, <1>11, <1>12

\* It starts with a certificate and a response just obtained.
LEMMA InitInv == Init => SourcesInv
<1> SUFFICES ASSUME Init PROVE SourcesInv
  OBVIOUS
<1>1. /\ source \in {"file", "acme"} /\ allowTestCert \in BOOLEAN /\ now = 0
      /\ env = [up |-> TRUE, since |-> 0] /\ file = Issue(0) /\ chain = Issue(0)
      /\ rcAt = FetchInterval
      /\ orAt = IF chain[1].ocsp THEN nextRunAt(GoodResponse(chain, 0), 0) ELSE Never
  BY DEF Init, Leaf
<1>2. held = [chain |-> chain, sctList |-> FALSE,
              resp |-> IF chain[1].ocsp THEN GoodResponse(chain, 0) ELSE DummyOCSPResponse]
  BY DEF Init, Leaf
<1>3. held.chain = chain /\ held = [chain |-> held.chain, resp |-> held.resp, sctList |-> FALSE]
      /\ held.resp = IF chain[1].ocsp THEN GoodResponse(chain, 0) ELSE DummyOCSPResponse
  BY ONLY <1>2
<1>4. GoodResponse(chain, 0).thisUpdate = 0
      /\ GoodResponse(chain, 0).nextUpdate = 0 + MaxOCSPResponseDuration
  BY DEF GoodResponse
<1>5. nextRunAt(GoodResponse(chain, 0), 0) = MaxOCSPResponseDuration \div 2
  BY <1>4, Durations DEF nextRunAt
<1>6. orAt \in Nat /\ env.up = TRUE /\ env.since = 0 /\ 0 \in 0..MaxTime /\ Start = 1
  BY <1>1, <1>5, Durations DEF Never, Start
<1>7. TypeInv
  BY <1>1, <1>3, <1>6, Durations DEF TypeInv
<1>8. /\ Shaped(chain) /\ chain[1].issuer = "ca"
      /\ chain[1].notBefore = 0 /\ chain[1].notAfter = 0 + CertDuration
      /\ Excused \/ VerifySXGCriteria(chain) = {}
  BY <1>1, <1>6, <1>7, IssuedChain
<1>9. /\ now \in Int /\ certRenewalInterval \in Nat /\ CertDuration \in Nat /\ FetchInterval \in Nat
      /\ certRenewalInterval <= CertDuration /\ MaxTime \in Nat
  BY <1>1, Durations, TimingAssumption
<1>10. ClockInv
  BY <1>1, <1>6, <1>9 DEF ClockInv
<1>11. FileInv
  <2>1. source = "file" => LocalCertFileFetch(file, now) # NilChain
    <3>1. chain # NilChain
      BY <1>6, <1>8, ChainChecks
    <3> QED BY <1>1, <1>6, <1>8, <1>9, <3>1, FileFetch
  <2>2. file[1].notAfter >= Start - 1 + certRenewalInterval /\ file[1].notAfter >= now + certRenewalInterval
    BY ONLY <1>1, <1>6, <1>8, <1>9
  <2> QED BY <1>1, <1>8, <2>1, <2>2 DEF FileInv
<1>12. ChainInv
  <2>1. Accepted(chain) /\ Published
    BY <1>1, <1>3, <1>8 DEF Accepted, Published
  <2>2. Recent
    BY <1>1, <1>8, <1>9 DEF Recent
  <2> QED BY <1>3, <1>6, <2>1, <2>2 DEF ChainInv
<1>13. RespInv
  <2>1. CASE chain[1].ocsp
    <3>1. held.resp = GoodResponse(chain, 0) /\ held.resp.thisUpdate = 0
      BY <1>3, <1>4, <2>1
    <3>2. orAt <= Midpoint
      BY <1>1, <1>5, <2>1, <3>1, Durations DEF Midpoint
    <3> QED BY <1>1, <1>3, <2>1, <3>1, <3>2 DEF RespInv
  <2>2. CASE ~chain[1].ocsp
    BY <1>3, <2>2 DEF RespInv
  <2> QED BY <2>1, <2>2
<1>14. RetryInv
  BY <1>6 DEF RetryInv
<1> QED BY <1>7, <1>10, <1>11, <1>12, <1>13, <1>14 DEF SourcesInv

\* Nothing happens.
LEMMA StutterStep == SourcesInv /\ UNCHANGED vars => SourcesInv'
<1> SUFFICES ASSUME SourcesInv, UNCHANGED vars PROVE SourcesInv'
  OBVIOUS
<1>1. /\ source' = source /\ allowTestCert' = allowTestCert /\ now' = now /\ env' = env /\ file' = file
      /\ chain' = chain /\ held' = held /\ rcAt' = rcAt /\ orAt' = orAt
  BY DEF vars, setup
<1>2. Start' = Start /\ Midpoint' = Midpoint /\ (Excused' <=> Excused)
      /\ (Published' <=> Published) /\ (Recent' <=> Recent)
  BY <1>1 DEF Start, Midpoint, Excused, Published, Recent
<1>3. TypeInv' /\ ClockInv'
  BY <1>1, <1>2 DEF SourcesInv, TypeInv, ClockInv
<1>4. FileInv'
  BY <1>1, <1>2 DEF SourcesInv, FileInv, Shaped, LocalCertFileFetch
<1>5. Accepted(chain)' /\ Accepted(held.chain)'
  BY <1>1, <1>2, SMTT(30) DEF SourcesInv, ChainInv, Accepted, Shaped
<1>6. ChainInv'
  BY <1>1, <1>2, <1>5 DEF SourcesInv, ChainInv, FromBefore, DueSinceStart
<1>7. RespInv' /\ RetryInv'
  BY <1>1, <1>2 DEF SourcesInv, RespInv, RetryInv, GoodResponse, DueSinceStart
<1> QED BY <1>3, <1>4, <1>6, <1>7 DEF SourcesInv

\* SourcesInv holds in every reachable state.
THEOREM Dated == Spec => []SourcesInv
<1>1. SourcesInv /\ [Next]_vars => SourcesInv'
  BY StutterStep, ChainEventStep, OCSPEventStep, TickStep DEF Next
<1> QED BY InitInv, <1>1, PTL DEF Spec

-----------------------------------------------------------------------------
(* What the invariant says of the chain and the response being served. *)

\* The certificates of a chain of the environment.
LEMMA ShapedChain ==
  ASSUME NEW ch, Shaped(ch)
  PROVE  /\ Leaf(ch) = ch[1] /\ Issuer(ch).subject = "ca" /\ ch[2].subject = "ca"
         /\ Len(ch) = 2 /\ ch[2] = Root /\ ch[1].serial # 0
         /\ ch[1].notBefore \in Int /\ ch[1].notAfter \in Int
         /\ ch[1].ocsp \in BOOLEAN /\ ch[1].sct = TRUE /\ (~ch[1].ocsp => Excused)
<1>1. Len(ch) = 2 /\ ch[2] = Root /\ ch[1].serial \in Nat \ {0}
      /\ ch[1].notBefore \in Int /\ ch[1].notAfter \in Int
  BY DEF Shaped
<1>2. ch[1].ocsp \in BOOLEAN /\ ch[1].sct = TRUE /\ (~ch[1].ocsp => Excused)
  BY Zenon DEF Shaped
<1>3. Root.subject = "ca"
  BY ONLY DEF Root
<1>4. ch[2].subject = "ca"
  BY ONLY <1>1, <1>3
<1>5. Issuer(ch) = ch[2] /\ Leaf(ch) = ch[1]
  BY ONLY <1>1 DEF Issuer, Leaf
<1>6. ch[1].serial # 0
  BY ONLY <1>1
<1> QED BY ONLY <1>1, <1>2, <1>4, <1>5, <1>6

\* The certificate is good for the longest signed exchange.
LEMMA CertInTime ==
  ASSUME SourcesInv
  PROVE  /\ Accepted(held.chain) /\ now \in 0..MaxTime /\ held.chain[1].notAfter \in Int
         /\ held.chain[1].notAfter - now >= SXGLifetime
<1> DEFINE na == held.chain[1].notAfter
<1>1. /\ Accepted(held.chain) /\ now \in 0..MaxTime /\ na \in Int
  BY DEF SourcesInv, ChainInv, TypeInv, Accepted, Shaped
<1>2. /\ now \in Int /\ env.since \in Int /\ rcAt \in Int /\ orAt \in Int
      /\ Start = now - env.since + 1 /\ Start \in Int /\ now <= rcAt
      /\ ~env.up => env.since <= MaxOutage
      /\ ~Published => now <= orAt
  BY Durations DEF SourcesInv, TypeInv, ClockInv, Start
<1>3. /\ FetchInterval \in Nat /\ BackoffMax \in Nat /\ certRenewalInterval \in Nat /\ SXGLifetime \in Nat
      /\ MaxOutage \in Nat /\ FetchInterval > 0 /\ MaxOutage > 0
      /\ SXGLifetime + MaxOutage + 2 * FetchInterval <= certRenewalInterval + 1
      /\ SXGLifetime + MaxOutage + FetchInterval + BackoffMax <= certRenewalInterval + 1
  BY Durations, TimingAssumption
<1>4. CASE Recent /\ Published
  <2>1. na >= rcAt - FetchInterval + certRenewalInterval
    BY <1>4, Zenon DEF Recent, Published
  <2> QED BY ONLY <1>1, <1>2, <1>3, <2>1
<1>5. CASE ~env.up
  <2>1. na >= Start - FetchInterval + certRenewalInterval
    BY <1>1, <1>2, <1>3, <1>5 DEF SourcesInv, ChainInv, FromBefore
  <2>2. env.since <= MaxOutage
    BY <1>2, <1>5
  <2> QED BY ONLY <1>1, <1>2, <1>3, <2>1, <2>2
<1>6. CASE env.up /\ ~(Recent /\ Published)
  <2>1. na >= Start - FetchInterval + certRenewalInterval - MaxOutage
    BY <1>6 DEF SourcesInv, ChainInv, FromBefore
  <2>2. CASE ~Recent
    <3>1. rcAt <= Start - 1 + FetchInterval
      BY <1>6, <2>2 DEF SourcesInv, ChainInv, DueSinceStart
    <3> QED BY ONLY <1>1, <1>2, <1>3, <2>1, <3>1
  <2>3. CASE ~Published
    <3>1. orAt <= Start - 1 + BackoffMax /\ now <= orAt
      BY <1>2, <1>6, <2>3 DEF SourcesInv, ChainInv, DueSinceStart
    <3> QED BY ONLY <1>1, <1>2, <1>3, <2>1, <3>1
  <2> QED BY <1>6, <2>2, <2>3
<1> QED BY <1>4, <1>5, <1>6

\* The response is within its update period.
LEMMA RespInTime ==
  ASSUME SourcesInv, held.chain[1].ocsp
  PROVE  LET r == held.resp IN
         /\ r.serial = held.chain[1].serial /\ r.signer = "ca" /\ r.status = "good"
         /\ r.thisUpdate \in Int /\ r.nextUpdate = r.thisUpdate + MaxOCSPResponseDuration
         /\ r.thisUpdate <= now /\ now <= r.nextUpdate
<1> DEFINE r == held.resp
           half == MaxOCSPResponseDuration \div 2
<1>1. r = GoodResponse(held.chain, r.thisUpdate) /\ r.thisUpdate \in Int /\ r.thisUpdate <= now
  BY DEF SourcesInv, RespInv
<1>2. Leaf(held.chain) = held.chain[1] /\ Issuer(held.chain).subject = "ca"
  BY ShapedChain, Zenon DEF SourcesInv, ChainInv, Accepted
<1>3. /\ r.serial = held.chain[1].serial /\ r.signer = "ca" /\ r.status = "good"
      /\ r.nextUpdate = r.thisUpdate + MaxOCSPResponseDuration
  BY <1>1, <1>2 DEF GoodResponse
<1>4. /\ now \in Int /\ env.since \in Int /\ orAt \in Int /\ Start = now - env.since + 1
      /\ orAt < now => now <= r.nextUpdate
      /\ ~env.up => env.since <= MaxOutage
  BY DEF SourcesInv, TypeInv, ClockInv, Start
<1>5. /\ BackoffMax \in Nat /\ MaxOutage \in Nat /\ MaxOCSPResponseDuration \in Nat /\ half \in Nat
      /\ BackoffMax > 0 /\ half <= MaxOCSPResponseDuration
      /\ MaxOutage + BackoffMax <= MaxOCSPResponseDuration - half + 1
  BY Durations, TimingAssumption
<1> HIDE DEF half
<1>6. Midpoint = r.thisUpdate + half
  BY DEF Midpoint, half
<1>7. now <= r.nextUpdate
  <2>1. CASE orAt <= Midpoint
    BY ONLY <1>1, <1>3, <1>4, <1>5, <1>6, <2>1
  <2>2. CASE env.up /\ DueSinceStart(orAt, BackoffMax) /\ Start <= Midpoint + MaxOutage
    <3>1. orAt <= Start - 1 + BackoffMax
      BY <2>2 DEF DueSinceStart
    <3>2. Start <= Midpoint + MaxOutage
      BY <2>2
    <3> QED BY ONLY <1>1, <1>3, <1>4, <1>5, <1>6, <3>1, <3>2
  <2>3. CASE ~env.up /\ orAt <= now + BackoffMax /\ Start <= Midpoint
    <3>1. Start <= Midpoint /\ env.since <= MaxOutage
      BY <1>4, <2>3
    <3> QED BY ONLY <1>1, <1>3, <1>4, <1>5, <1>6, <3>1
  <2> QED BY <2>1, <2>2, <2>3 DEF SourcesInv, RespInv
<1> QED BY <1>1, <1>3, <1>7

\* An accepted chain is a chain of NewRawChain.
LEMMA HeldChain ==
  ASSUME SourcesInv
  PROVE  /\ held.chain # NilChain /\ NewRawChain(held.chain) = held.chain
         /\ VerifyChain(held.chain, now) = {}
         /\ Excused \/ VerifySXGCriteria(held.chain) = {}
         /\ ~held.chain[1].ocsp => Excused
         /\ held.chain[1].ocsp \in BOOLEAN /\ held.chain[1].sct = TRUE
         /\ held.chain[1].serial # 0
         /\ Leaf(held.chain) = held.chain[1] /\ Issuer(held.chain).subject = "ca"
         /\ Len(held.chain) = 2 /\ held.chain[2].subject = "ca" /\ held.chain[1].issuer = "ca"
<1>1. Accepted(held.chain) /\ now \in 0..MaxTime /\ now \in Int /\ SXGLifetime \in Nat
      /\ held.chain[1].notAfter \in Int /\ held.chain[1].notAfter - now >= SXGLifetime
  BY CertInTime, Durations
<1>2. Shaped(held.chain) /\ held.chain[1].issuer = "ca" /\ held.chain[1].notBefore <= now
      /\ (Excused \/ VerifySXGCriteria(held.chain) = {})
  BY <1>1 DEF Accepted
<1>3. now <= held.chain[1].notAfter
  BY ONLY <1>1
<1>4. held.chain # NilChain /\ NewRawChain(held.chain) = held.chain /\ VerifyChain(held.chain, now) = {}
  BY <1>1, <1>2, <1>3, ChainChecks
<1>5. /\ Leaf(held.chain) = held.chain[1] /\ Issuer(held.chain).subject = "ca" /\ held.chain[2].subject = "ca"
      /\ Len(held.chain) = 2 /\ held.chain[1].serial # 0
      /\ held.chain[1].ocsp \in BOOLEAN /\ held.chain[1].sct = TRUE /\ (~held.chain[1].ocsp => Excused)
  BY <1>2, ShapedChain, Zenon
<1> QED BY ONLY <1>2, <1>4, <1>5, Zenon

\* VerifySXGCriteria and VerifyChain together are the reference's conditions.
LEMMA ChecksSuffice ==
  ASSUME NEW ch, NEW t \in 0..MaxTime, Shaped(ch), ch[1].issuer = "ca",
         VerifyChain(ch, t) = {}, VerifySXGCriteria(ch) = {}
  PROVE  UsableCert(ch, t)
<1> DEFINE cert == ch[1]
<1>1. /\ Leaf(ch) = cert /\ Len(ch) = 2 /\ ch[2].subject = "ca" /\ ch[2] = Root
      /\ cert.notBefore \in Int /\ cert.notAfter \in Int
  BY ShapedChain, Zenon
<1>2. ch # NilChain /\ cert.notBefore <= t /\ t <= cert.notAfter
  BY ChainChecks
<1>3. t \in Int /\ 0 <= t /\ t <= 10 * MaxTime /\ MaxCertDuration \in Nat /\ MaxTime \in Nat
  BY Durations
<1> HIDE DEF cert
<1>4. verifyPublicKey(cert) = {} /\ verifyExtensions(cert) = {} /\ verifyCertDuration(cert) = {}
  BY <1>1, Zenon DEF VerifySXGCriteria
<1>5. cert.key \in {"P256", "P384"} /\ cert.canSign
  BY ONLY <1>4, Zenon DEF verifyPublicKey, verifyExtensions
<1>6. ~(cert.notAfter - cert.notBefore <= 0 \/ cert.notAfter - cert.notBefore > MaxCertDuration)
  BY ONLY <1>4 DEF verifyCertDuration
<1>7. cert.notAfter \in cert.notBefore + 1 .. cert.notBefore + MaxCertDuration
      /\ t \in cert.notBefore .. cert.notAfter
  BY ONLY <1>1, <1>2, <1>3, <1>6
<1>8. t \in ch[2].notBefore .. ch[2].notAfter
  <2>1. Root.notBefore = 0 /\ Root.notAfter = 10 * MaxTime
    BY ONLY DEF Root
  <2> QED BY ONLY <1>1, <1>3, <2>1
<1>9. 1..Len(ch) = {1, 2} /\ 2..Len(ch) = {2} /\ 2 - 1 = 1
  BY ONLY <1>1
<1>10. \A i \in 1..Len(ch) : t \in ch[i].notBefore .. ch[i].notAfter
  BY ONLY <1>7, <1>8, <1>9 DEF cert
<1>11. \A i \in 2..Len(ch) : ch[i].subject = ch[i - 1].issuer
  BY <1>1, <1>9, Zenon
<1> QED BY ONLY <1>2, <1>5, <1>7, <1>10, <1>11, Zenon DEF UsableCert, cert

\* For all durations within TimingAssumption, the chain that renewal and retries leave
\* being served is usable at every instant, with a response that is, and will outlive an
\* exchange signed now.
THEOREM ServedIsUsable == Spec => []HeldIsUsable
<1>1. SourcesInv => HeldIsUsable
  <2> SUFFICES ASSUME SourcesInv PROVE HeldIsUsable
    OBVIOUS
  <2>1. Leaf(held.chain).notAfter - now >= SXGLifetime
    BY CertInTime DEF Leaf
  <2>2. IF Excused THEN VerifyChain(held.chain, now) = {} ELSE UsableCert(held.chain, now)
    BY HeldChain, CertInTime, ChecksSuffice DEF Accepted
  <2>3. ASSUME ~NoOCSP
        PROVE  UsableResp(held.resp, held.chain, now)
    <3>1. held.chain[1].ocsp
      BY <2>3, HeldChain DEF NoOCSP
    <3>2. /\ held.resp.serial = held.chain[1].serial /\ held.resp.signer = "ca" /\ held.resp.status = "good"
          /\ held.resp.thisUpdate \in Int
          /\ held.resp.nextUpdate = held.resp.thisUpdate + MaxOCSPResponseDuration
          /\ held.resp.thisUpdate <= now /\ now <= held.resp.nextUpdate
      BY <3>1, RespInTime
    <3>3. now \in Int /\ MaxOCSPResponseDuration \in Nat /\ MaxOCSPResponseDuration > 0
      BY Durations, TimingAssumption DEF SourcesInv, TypeInv
    <3>4. /\ held.resp.thisUpdate < held.resp.nextUpdate
          /\ now \in held.resp.thisUpdate .. held.resp.nextUpdate
          /\ held.resp.nextUpdate \in held.resp.thisUpdate .. held.resp.thisUpdate + MaxOCSPResponseDuration
      BY ONLY <3>2, <3>3
    <3>5. Len(held.chain) = 2 /\ held.chain[2].subject = "ca"
      BY HeldChain
    <3> QED BY <3>2, <3>4, <3>5 DEF UsableResp
  <2> QED BY <2>1, <2>2, <2>3 DEF HeldIsUsable
<1> QED BY <1>1, Dated, PTL

\* What parsing and verification say of the response being served.
LEMMA HeldResponse ==
  ASSUME SourcesInv
  PROVE  /\ held.chain[1].ocsp =>
              /\ ParseOCSPResponseForRawChain(held.resp, held.chain) = held.resp
              /\ held.resp # NilResponse
              /\ VerifyForRawChain(held.resp, now, held.chain) = {}
              /\ OCSPVerifySXGCriteria(held.resp) = {}
         /\ ~held.chain[1].ocsp =>
              /\ held.resp = DummyOCSPResponse
              /\ ParseOCSPResponseForRawChain(held.resp, held.chain) = NilResponse
<1>1. ASSUME held.chain[1].ocsp
      PROVE  /\ ParseOCSPResponseForRawChain(held.resp, held.chain) = held.resp
             /\ held.resp # NilResponse
             /\ VerifyForRawChain(held.resp, now, held.chain) = {}
             /\ OCSPVerifySXGCriteria(held.resp) = {}
  <2>1. /\ held.resp.serial = held.chain[1].serial /\ held.resp.signer = "ca" /\ held.resp.status = "good"
        /\ held.resp.thisUpdate \in Int
        /\ held.resp.nextUpdate = held.resp.thisUpdate + MaxOCSPResponseDuration
        /\ held.resp.thisUpdate <= now /\ now <= held.resp.nextUpdate
    BY <1>1, RespInTime
  <2>2. now \in Int /\ MaxOCSPResponseDuration \in Nat /\ MaxOCSPResponseDuration > 0
    BY Durations, TimingAssumption DEF SourcesInv, TypeInv
  <2>3. held.resp # NilResponse /\ held.resp # DummyOCSPResponse
    BY <2>1 DEF NilResponse, DummyOCSPResponse
  <2>4. Leaf(held.chain) = held.chain[1] /\ Issuer(held.chain).subject = "ca"
    BY HeldChain
  <2>5. ParseOCSPResponseForRawChain(held.resp, held.chain) = held.resp
    BY <2>1, <2>4 DEF ParseOCSPResponseForRawChain
  <2>6. verifyWithTime(held.resp, now) = {}
    BY <2>1, <2>2 DEF verifyWithTime
  <2>7. VerifyForRawChain(held.resp, now, held.chain) = {}
    BY <2>1, <2>3, <2>4, <2>5, <2>6 DEF VerifyForRawChain, verifyWithRawChain
  <2>8. ~(held.resp.nextUpdate - held.resp.thisUpdate > MaxOCSPResponseDuration)
    BY ONLY <2>1, <2>2
  <2>9. OCSPVerifySXGCriteria(held.resp) = {}
    BY <2>1, <2>3, <2>8 DEF OCSPVerifySXGCriteria
  <2> QED BY <2>3, <2>5, <2>7, <2>9
<1>2. ASSUME ~held.chain[1].ocsp
      PROVE  /\ held.resp = DummyOCSPResponse
             /\ ParseOCSPResponseForRawChain(held.resp, held.chain) = NilResponse
  <2>1. held.resp = DummyOCSPResponse
    BY <1>2 DEF SourcesInv, RespInv
  <2>2. held.resp.serial # Leaf(held.chain).serial
    BY <2>1, HeldChain, SMTT(30) DEF DummyOCSPResponse
  <2> QED BY <2>1, <2>2 DEF ParseOCSPResponseForRawChain
<1> QED BY <1>1, <1>2

\* A reader of what WriteCBOR writes of the chain being served gets it back, whatever the
\* sources went through.
THEOREM ServedReadsBack == Spec => []ReadsBack
<1>1. SourcesInv => ReadsBack
  <2> SUFFICES ASSUME SourcesInv PROVE ReadsBack
    OBVIOUS
  <2>1. /\ NewRawChain(held.chain) = held.chain /\ held.chain # NilChain
        /\ Leaf(held.chain) = held.chain[1] /\ (~held.chain[1].ocsp => Excused)
    BY HeldChain, SMTT(30)
  <2>2. held = [chain |-> held.chain, resp |-> held.resp, sctList |-> FALSE]
    BY DEF SourcesInv, TypeInv
  <2>3. CASE held.chain[1].ocsp
    BY <2>1, <2>3, HeldResponse DEF ReadsBack, ReadAugmentedChain, NoOCSP
  <2>4. CASE ~held.chain[1].ocsp
    <3>1. [held EXCEPT !.resp = DummyOCSPResponse] = held
      BY <2>2, <2>4, HeldResponse
    <3> QED BY <2>1, <2>4, <3>1, HeldResponse DEF ReadsBack, ReadAugmentedChain, NoOCSP
  <2> QED BY <2>3, <2>4
<1> QED BY <1>1, Dated, PTL

\* The health check never finds fault with a chain the sources accepted, but for the
\* criteria AllowTestCert excuses.
THEOREM HealthCheckIsRight == Spec => []HealthCheckAgrees
<1>1. SourcesInv => HealthCheckAgrees
  <2> SUFFICES ASSUME SourcesInv PROVE HealthCheckAgrees
    OBVIOUS
  <2>1. /\ VerifyChain(held.chain, now) = {} /\ (Excused \/ VerifySXGCriteria(held.chain) = {})
        /\ (~held.chain[1].ocsp => Excused) /\ Leaf(held.chain) = held.chain[1]
        /\ held.chain[1].sct = TRUE
    BY HeldChain, Zenon
  <2>2. VerifySXGCriteria(held.chain) \subseteq {"key", "canSignHttpExchanges", "duration"}
    BY DEF VerifySXGCriteria, verifyPublicKey, verifyExtensions, verifyCertDuration
  <2>3. ~allowTestCert => ~Excused /\ held.chain[1].ocsp
    BY <2>1 DEF Excused
  <2>4. HasSCTList(held)
    BY <2>1 DEF HasSCTList
  <2>5. ~allowTestCert => VerifyAll(held, now, ~allowTestCert) = {}
    BY <2>1, <2>3, <2>4, HeldResponse DEF VerifyAll
  <2>6. allowTestCert => VerifyAll(held, now, ~allowTestCert) = VerifySXGCriteria(held.chain)
    BY <2>1 DEF VerifyAll
  <2> QED BY <2>1, <2>2, <2>5, <2>6 DEF HealthCheckAgrees
<1> QED BY <1>1, Dated, PTL

=============================================================================
