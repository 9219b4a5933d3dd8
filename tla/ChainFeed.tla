------------------------------ MODULE ChainFeed ------------------------------
(***************************************************************************)
(* What Manager promises to the request handlers, which only ever call     *)
(* GetAugmentedChain: once Start has returned there is a chain to sign     *)
(* with, its OCSP response is a response for that very chain, and it is    *)
(* only ever replaced by a newer one.  After Stop has been called the      *)
(* chain may be withdrawn, for good.                                       *)
(***************************************************************************)
EXTENDS Naturals

CONSTANTS
  Feed,     \* the augmented chains
  Nothing   \* no chain

VARIABLES held, phase

feedVars == <<held, phase>>

IsPair(ac) == ac.ocspResp.chain = ac.rawChain
Newer(ac, old) == ac.ocspResp.n > old.ocspResp.n

FeedInit == held = Nothing /\ phase = "off"

Open ==
  /\ phase = "off"
  /\ \E ac \in Feed : IsPair(ac) /\ held' = ac
  /\ phase' = "on"

\* Mutant: a chain that arrives late replaces a newer one.
Replace_Late ==
  /\ held # Nothing
  /\ \E ac \in Feed : IsPair(ac) /\ held' = ac
  /\ UNCHANGED phase

Replace ==
  /\ held # Nothing
  /\ \E ac \in Feed : IsPair(ac) /\ Newer(ac, held) /\ held' = ac
  /\ UNCHANGED phase

Close ==
  /\ phase = "on"
  /\ phase' = "closing"
  /\ UNCHANGED held

Withdraw ==
  /\ phase = "closing"
  /\ held' = Nothing
  /\ UNCHANGED phase

FeedNext == Open \/ Replace \/ Close \/ Withdraw

FeedSpec == FeedInit /\ [][FeedNext]_feedVars

=============================================================================
