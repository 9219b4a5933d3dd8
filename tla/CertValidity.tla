---------------------------- MODULE CertValidity ----------------------------
(***************************************************************************)
(* Package certchain: what makes a certificate chain, an OCSP response and *)
(* the two together fit for signed exchanges. A check returns the set of   *)
(* its complaints (the code's multierror), empty when it succeeds.         *)
(*                                                                         *)
(* A RawChain is the sequence of its certificates, the end-entity          *)
(* certificate first; the sequence itself stands for its Digest. Names and *)
(* keys are one thing here: a certificate is issued, and signed, by the    *)
(* entity that issuer names.                                               *)
(***************************************************************************)
EXTENDS Integers, Sequences

CONSTANTS
  MaxCertDuration,          \* 90 days
  MaxOCSPResponseDuration   \* 7 days

NilChain == <<>>
Leaf(c) == c[1]
Issuer(c) == IF Len(c) >= 2 THEN c[2] ELSE c[1]

\* Mutant: names are matched the wrong way round.
NewRawChain_Swapped(certs) ==
  IF \A i \in 1 .. Len(certs) - 1 : certs[i].subject = certs[i + 1].issuer
  THEN certs ELSE NilChain

\* NewRawChain and NewRawChainFromPEM: a chain of that is not nil, or nil for
\* PEM bytes that do not parse (certs = NilChain) and for broken chains.
NewRawChain(certs) ==
  IF \A i \in 1 .. Len(certs) - 1 : certs[i].issuer = certs[i + 1].subject
  THEN certs ELSE NilChain

\* x509's Verify with the last certificate as the only root: every
\* certificate on the path is within its validity period.
VerifyChain(c, t) ==
  {"expired" : i \in {i \in 1..Len(c) : t < c[i].notBefore \/ t > c[i].notAfter}}

verifyPublicKey(cert) ==
  IF cert.key \in {"P256", "P384"} THEN {} ELSE {"key"}

verifyExtensions(cert) ==
  IF cert.canSign THEN {} ELSE {"canSignHttpExchanges"}

verifyCertDuration(cert) ==
  LET d == cert.notAfter - cert.notBefore
  IN  IF d <= 0 \/ d > MaxCertDuration THEN {"duration"} ELSE {}

VerifySXGCriteria(c) ==
  verifyPublicKey(Leaf(c)) \cup verifyExtensions(Leaf(c)) \cup verifyCertDuration(Leaf(c))

-----------------------------------------------------------------------------
(* An OCSP response, signed by the entity signer. *)

DummyOCSPResponse == [serial |-> 0, signer |-> "dummy", status |-> "dummy",
                      thisUpdate |-> 0, nextUpdate |-> 0, sct |-> FALSE]
NilResponse == [DummyOCSPResponse EXCEPT !.signer = "nil"]

\* The bytes parse, for the certificate in question and with its issuer's
\* signature; NilResponse stands for bytes that do not parse at all.
ParseOCSPResponseForRawChain(resp, c) ==
  IF resp.serial = Leaf(c).serial /\ resp.signer = Issuer(c).subject THEN resp ELSE NilResponse

verifyWithRawChain(resp, c) ==
  IF resp.serial # Leaf(c).serial THEN {"serial"}
  ELSE IF ParseOCSPResponseForRawChain(resp, c) = NilResponse THEN {"signer"} ELSE {}

verifyWithTime(resp, t) ==
  IF resp.thisUpdate >= resp.nextUpdate THEN {"corrupted"}
  ELSE IF t < resp.thisUpdate THEN {"future"}
  ELSE IF t > resp.nextUpdate THEN {"past"} ELSE {}

VerifyForRawChain(resp, t, c) ==
  IF resp = DummyOCSPResponse THEN {"dummy"}
  ELSE verifyWithRawChain(resp, c) \cup verifyWithTime(resp, t)

OCSPVerifySXGCriteria(resp) ==
  IF resp = DummyOCSPResponse THEN {"dummy"}
  ELSE (IF resp.status # "good" THEN {"status"} ELSE {})
         \cup (IF resp.nextUpdate - resp.thisUpdate > MaxOCSPResponseDuration
               THEN {"interval"} ELSE {})

-----------------------------------------------------------------------------
(* AugmentedChain. *)

\* Mutant: embedded SCTs do not count.
HasSCTList_ListOnly(ac) == ac.sctList

HasSCTList(ac) == Leaf(ac.chain).sct \/ ac.resp.sct \/ ac.sctList

\* VerifyAll: the checks on the certificate always, the ones on the OCSP
\* response and the SCTs in production only.
VerifyAll(ac, t, inProduction) ==
  VerifyChain(ac.chain, t) \cup VerifySXGCriteria(ac.chain)
    \cup (IF inProduction
          THEN VerifyForRawChain(ac.resp, t, ac.chain) \cup OCSPVerifySXGCriteria(ac.resp)
                 \cup (IF HasSCTList(ac) THEN {} ELSE {"scts"})
          ELSE {})

\* ReadAugmentedChain on what WriteCBOR wrote, with the error it returns: an
\* ocsp value that does not fit the chain is replaced by the dummy response.
ReadAugmentedChain(ac) ==
  LET c    == NewRawChain(ac.chain)
      resp == ParseOCSPResponseForRawChain(ac.resp, c)
  IN  IF c = NilChain THEN [ac |-> ac, err |-> "chain"]
      ELSE IF resp = NilResponse
      THEN [ac |-> [ac EXCEPT !.resp = DummyOCSPResponse], err |-> "ErrInvalidOCSPValue"]
      ELSE [ac |-> ac, err |-> "none"]

-----------------------------------------------------------------------------
(* Reference: what the signed exchange specification asks of a certificate   *)
(* chain and its OCSP response at time t.                                    *)
UsableCert(c, t) ==
  /\ c # NilChain
  /\ \A i \in 1..Len(c) : t \in c[i].notBefore .. c[i].notAfter
  /\ \A i \in 2..Len(c) : c[i].subject = c[i - 1].issuer
  /\ c[1].key \in {"P256", "P384"} /\ c[1].canSign
  /\ c[1].notAfter \in c[1].notBefore + 1 .. c[1].notBefore + MaxCertDuration

UsableResp(resp, c, t) ==
  /\ resp.serial = c[1].serial /\ resp.status = "good"
  /\ resp.signer = IF Len(c) = 1 THEN c[1].subject ELSE c[2].subject
  /\ resp.thisUpdate < resp.nextUpdate
  /\ t \in resp.thisUpdate .. resp.nextUpdate
  /\ resp.nextUpdate \in resp.thisUpdate .. resp.thisUpdate + MaxOCSPResponseDuration

=============================================================================
