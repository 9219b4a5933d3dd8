---------------------------- MODULE MCCertManager ----------------------------
(* Instances of CertManager for TLC. *)
EXTENDS CertManager, TLC

\* Chains are only compared for equality.
ChainSymmetry == Permutations(Chains)

\* The part of the state that NoSendOnClosedChannel depends on. Left out are the
\* operands of send, fetch and select statements that no goroutine is executing
\* (they are assigned again before they are read), and the chains handed to the
\* handlers and to Cache, which no guard reads, except a nil to be written.
While(f, at, label) == [p \in DOMAIN f |-> IF at[p] = label THEN <<f[p]>> ELSE <<>>]

ChannelState ==
  <<pc, startVars, pairVars, chanVars, killVars, mPc, mKiller, mKilled,
    crashed, NoAugmentedChain \in writers, While(arg, pc, "fetchOCSP"), While(sendCh, pc, "send"),
    While(sendVal, pc, "send"), While(selKiller, pc, "select"),
    While(selCh, mPc, "select"), While(mSelKiller, mPc, "select")>>

=============================================================================
