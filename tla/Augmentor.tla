------------------------------ MODULE Augmentor ------------------------------
(***************************************************************************)
(* The certificate producer of package certmanager (augmentor.go): Start   *)
(* produces a first AugmentedChain and spawns a daemon goroutine that      *)
(* refetches the raw chain and the OCSP response whenever one of its two   *)
(* future events fires, and publishes every new pair on channel out.       *)
(* Stop kills the daemon and closes the channel.                           *)
(*                                                                         *)
(* Goroutines: Caller runs Start and Stop (in that order, as Server.Serve  *)
(* does), goroutine d is the daemon that the d-th call of Start spawned.   *)
(* Killers and channels are named by the Start that made them; 0 is nil.   *)
(* The state of the RWMutex outMu is a function of the program counters:   *)
(* readers are the goroutines at "send", a writer is waiting when the      *)
(* caller is at "startLock" or "stopLock", and (as in Go) no new reader    *)
(* enters while a writer waits.                                            *)
(***************************************************************************)
EXTENDS Naturals, Sequences

CONSTANTS
  Chains,        \* the raw certificate chains, by digest
  NoChain,       \* a nil *RawChain
  MaxResponses,  \* bound: OCSP responses the source ever hands out
  MaxStarts      \* bound: calls of Start

ASSUME AugmentorAssumption ==
  /\ Chains # {}
  /\ NoChain \notin Chains
  /\ MaxResponses \in Nat
  /\ MaxStarts \in Nat

Caller == 0
Runs == 1..MaxStarts
Goroutines == {Caller} \cup Runs

maxRetryCount == 3
outCapacity == 1

(* The n-th OCSP response issued; it was requested, and verified, for chain. *)
OCSPResponse == [chain : Chains, n : 1..MaxResponses]
NoResp == [chain |-> NoChain, n |-> 0]

AugmentedChain == [rawChain : Chains, ocspResp : OCSPResponse]
NoAugmentedChain == [rawChain |-> NoChain, ocspResp |-> NoResp]

VARIABLES
  pc,         \* what each goroutine does next
  starts,     \* calls of Start so far
  retryCount, \* OCSP attempts of the current Start
  rawChain,   \* a.rawChain
  ocspResp,   \* a.ocspResp
  issued,     \* OCSP responses handed out by the source so far
  out,        \* a.out
  chan,       \* every channel ever made: its buffer, and whether it is closed
  killer,     \* a.killer
  killed,     \* the killers whose channel is closed
  arg,        \* per goroutine: the chain passed to orSource.Fetch
  sendCh,     \* per goroutine: the channel operand of the send in progress
  sendVal,    \* per goroutine: the value operand of the send in progress
  selKiller   \* per daemon: the killer its select is listening to

startVars == <<starts, retryCount>>
pairVars == <<rawChain, ocspResp, issued>>
chanVars == <<out, chan>>
killVars == <<killer, killed>>
sendVars == <<sendCh, sendVal>>
augVars == <<pc, startVars, pairVars, chanVars, killVars, arg, sendVars,
                 selKiller>>

Readers == {p \in Goroutines : pc[p] = "send"}
WriterWaiting == pc[Caller] \in {"startLock", "stopLock"}

AugInit ==
  /\ pc = [p \in Goroutines |-> IF p = Caller THEN "idle" ELSE "off"]
  /\ starts = 0
  /\ retryCount = 0
  /\ rawChain = NoChain
  /\ ocspResp = NoResp
  /\ issued = 0
  /\ out = 0
  /\ chan = [d \in Runs |-> [buf |-> <<>>, closed |-> FALSE]]
  /\ killer = 0
  /\ killed = {}
  /\ arg = [p \in Goroutines |-> NoChain]
  /\ sendCh = [p \in Goroutines |-> 0]
  /\ sendVal = [p \in Goroutines |-> NoAugmentedChain]
  /\ selKiller = [d \in Runs |-> 0]

Goto(p, label) == pc' = [pc EXCEPT ![p] = label]

-----------------------------------------------------------------------------
(* Start, up to the first chain. *)

\* Start is called and asks for outMu.
StartLock ==
  /\ pc[Caller] \in {"idle", "stopped"}
  /\ starts < MaxStarts
  /\ Goto(Caller, "startLock")
  /\ UNCHANGED <<startVars, pairVars, chanVars, killVars, arg, sendVars,
                 selKiller>>

\* outMu is free of readers: a new channel and a new killer.
StartMake ==
  /\ pc[Caller] = "startLock"
  /\ Readers = {}
  /\ starts' = starts + 1
  /\ out' = starts + 1
  /\ killer' = starts + 1
  /\ retryCount' = 0
  /\ Goto(Caller, "startFetchChain")
  /\ UNCHANGED <<pairVars, chan, killed, arg, sendVars,
                 selKiller>>

\* The goroutine p enters maintainOCSPResp with a.rawChain = c.
CallFetchOCSP(p, c) ==
  /\ arg' = [arg EXCEPT ![p] = c]
  /\ Goto(p, "fetchOCSP")

\* maintainRawChain in Start: any chain the source returns becomes (or, with
\* the same digest, stays) a.rawChain, and the OCSP loop is entered.
StartFetchChain ==
  /\ pc[Caller] = "startFetchChain"
  /\ \E c \in Chains :
       /\ rawChain' = c
       /\ CallFetchOCSP(Caller, c)
  /\ UNCHANGED <<startVars, ocspResp, issued, chanVars, killVars, sendVars,
                 selKiller>>

\* maintainRawChain fails in Start, which returns the error.
StartFetchChainErr ==
  /\ pc[Caller] = "startFetchChain"
  /\ Goto(Caller, "idle")
  /\ UNCHANGED <<startVars, pairVars, chanVars, killVars, arg, sendVars,
                 selKiller>>

\* Mutant: the attempts are not counted.
StartFetchOCSPErr_Uncounted ==
  /\ pc[Caller] = "fetchOCSP"
  /\ Goto(Caller, IF retryCount + 1 >= maxRetryCount THEN "idle" ELSE "retryWait")
  /\ UNCHANGED <<startVars, pairVars, chanVars, killVars, arg, sendVars,
                 selKiller>>

\* maintainOCSPResp fails in Start: wait for the retry event, or give up.
StartFetchOCSPErr ==
  /\ pc[Caller] = "fetchOCSP"
  /\ retryCount' = retryCount + 1
  /\ Goto(Caller, IF retryCount + 1 >= maxRetryCount THEN "idle" ELSE "retryWait")
  /\ UNCHANGED <<starts, pairVars, chanVars, killVars, arg, sendVars,
                 selKiller>>

\* The retry event fires.
StartRetry ==
  /\ pc[Caller] = "retryWait"
  /\ CallFetchOCSP(Caller, rawChain)
  /\ UNCHANGED <<startVars, pairVars, chanVars, killVars, sendVars,
                 selKiller>>

-----------------------------------------------------------------------------
(* The rest of maintainOCSPResp, run by Start and by the daemons. *)

\* orSource.Fetch returns a response for the chain it was called with.
FetchOCSP(p) ==
  /\ pc[p] = "fetchOCSP"
  /\ issued < MaxResponses
  /\ issued' = issued + 1
  /\ ocspResp' = [chain |-> arg[p], n |-> issued + 1]
  /\ Goto(p, "rlock")
  /\ UNCHANGED <<startVars, rawChain, chanVars, killVars, arg, sendVars,
                 selKiller>>

\* outMu.RLock, and the operands of the send statement are evaluated.
RLock(p) ==
  /\ pc[p] = "rlock"
  /\ ~WriterWaiting
  /\ sendCh' = [sendCh EXCEPT ![p] = out]
  /\ sendVal' = [sendVal EXCEPT ![p] = [rawChain |-> rawChain, ocspResp |-> ocspResp]]
  /\ Goto(p, "send")
  /\ UNCHANGED <<startVars, pairVars, chanVars, killVars, arg, selKiller>>

\* Mutant: the send does not block on a full channel.
Send_NeverBlocks(p) ==
  /\ pc[p] = "send"
  /\ sendCh[p] # 0
  /\ chan' = [chan EXCEPT ![sendCh[p]].buf = Append(@, sendVal[p])]
  /\ pc' = IF p = Caller
           THEN [pc EXCEPT ![Caller] = "started", ![starts] = "loop"]
           ELSE [pc EXCEPT ![p] = "loop"]
  /\ UNCHANGED <<startVars, pairVars, out, killVars, arg, sendVars,
                 selKiller>>

\* The send blocks on a nil or a full channel; then outMu.RUnlock. Start goes
\* on to spawn the daemon, a daemon goes back to the head of its loop.
Send(p) ==
  /\ pc[p] = "send"
  /\ sendCh[p] # 0
  /\ Len(chan[sendCh[p]].buf) < outCapacity
  /\ chan' = [chan EXCEPT ![sendCh[p]].buf = Append(@, sendVal[p])]
  /\ pc' = IF p = Caller
           THEN [pc EXCEPT ![Caller] = "started", ![starts] = "loop"]
           ELSE [pc EXCEPT ![p] = "loop"]
  /\ UNCHANGED <<startVars, pairVars, out, killVars, arg, sendVars,
                 selKiller>>

-----------------------------------------------------------------------------
(* The daemon. *)

\* The operands of select are evaluated: the current a.killer among them.
EnterSelect(d) ==
  /\ pc[d] = "loop"
  /\ selKiller' = [selKiller EXCEPT ![d] = killer]
  /\ Goto(d, "select")
  /\ UNCHANGED <<startVars, pairVars, chanVars, killVars, arg, sendVars>>

\* rcNext fires: maintainRawChain is called.
ChainEventFires(d) ==
  /\ pc[d] = "select"
  /\ Goto(d, "fetchChain")
  /\ UNCHANGED <<startVars, pairVars, chanVars, killVars, arg, sendVars,
                 selKiller>>

\* Mutant: the OCSP response is requested for the chain just replaced.
ChainUpdated_OldRequest(d) ==
  /\ pc[d] = "fetchChain"
  /\ \E c \in Chains \ {rawChain} :
       /\ rawChain' = c
       /\ CallFetchOCSP(d, rawChain)
  /\ UNCHANGED <<startVars, ocspResp, issued, chanVars, killVars, sendVars,
                 selKiller>>

\* rcSource.Fetch returns a new chain: it replaces a.rawChain, orNext is
\* cancelled and an OCSP response for the new chain is requested.
ChainUpdated(d) ==
  /\ pc[d] = "fetchChain"
  /\ \E c \in Chains \ {rawChain} :
       /\ rawChain' = c
       /\ CallFetchOCSP(d, c)
  /\ UNCHANGED <<startVars, ocspResp, issued, chanVars, killVars, sendVars,
                 selKiller>>

\* rcSource.Fetch fails, or returns a chain with the digest of a.rawChain.
ChainNotUpdated(d) ==
  /\ pc[d] = "fetchChain"
  /\ Goto(d, "loop")
  /\ UNCHANGED <<startVars, pairVars, chanVars, killVars, arg, sendVars,
                 selKiller>>

\* orNext fires: maintainOCSPResp is called.
OCSPEventFires(d) ==
  /\ pc[d] = "select"
  /\ CallFetchOCSP(d, rawChain)
  /\ UNCHANGED <<startVars, pairVars, chanVars, killVars, sendVars,
                 selKiller>>

\* orSource.Fetch fails in the daemon; orNext becomes the retry event.
FetchOCSPErr(d) ==
  /\ pc[d] = "fetchOCSP"
  /\ Goto(d, "loop")
  /\ UNCHANGED <<startVars, pairVars, chanVars, killVars, arg, sendVars,
                 selKiller>>

\* The kill signal: both events are cancelled and the daemon returns.
DaemonKilled(d) ==
  /\ pc[d] = "select"
  /\ selKiller[d] \in killed
  /\ Goto(d, "done")
  /\ UNCHANGED <<startVars, pairVars, chanVars, killVars, arg, sendVars,
                 selKiller>>

-----------------------------------------------------------------------------
(* Stop. *)

\* Stop asks for outMu.
StopLock ==
  /\ pc[Caller] = "stopping"
  /\ Goto(Caller, "stopLock")
  /\ UNCHANGED <<startVars, pairVars, chanVars, killVars, arg, sendVars,
                 selKiller>>

\* Mutant: the channel is closed without waiting for the readers of outMu.
StopClose_Unlocked ==
  /\ pc[Caller] = "stopLock"
  /\ Goto(Caller, "stopped")
  /\ IF out = 0
     THEN UNCHANGED <<killed, chan>>
     ELSE /\ killed' = killed \cup {killer}
          /\ chan' = [chan EXCEPT ![out].closed = TRUE]
  /\ out' = 0
  /\ UNCHANGED <<startVars, pairVars, killer, arg, sendVars,
                 selKiller>>

\* Mutant: the daemon is not told.
StopClose_NoKill ==
  /\ pc[Caller] = "stopLock"
  /\ Readers = {}
  /\ Goto(Caller, "stopped")
  /\ chan' = IF out = 0 THEN chan ELSE [chan EXCEPT ![out].closed = TRUE]
  /\ out' = 0
  /\ UNCHANGED <<startVars, pairVars, killVars, arg, sendVars, selKiller>>

\* outMu is free of readers: kill the daemon, close the channel, forget it.
StopClose ==
  /\ pc[Caller] = "stopLock"
  /\ Readers = {}
  /\ Goto(Caller, "stopped")
  /\ IF out = 0
     THEN UNCHANGED <<killed, chan>>
     ELSE /\ killed' = killed \cup {killer}
          /\ chan' = [chan EXCEPT ![out].closed = TRUE]
  /\ out' = 0
  /\ UNCHANGED <<startVars, pairVars, killer, arg, sendVars,
                 selKiller>>

-----------------------------------------------------------------------------
Daemon(d) ==
  \/ EnterSelect(d) \/ ChainEventFires(d) \/ ChainUpdated(d)
  \/ ChainNotUpdated(d) \/ OCSPEventFires(d) \/ FetchOCSPErr(d)
  \/ DaemonKilled(d)

AugNext ==
  \/ StartLock \/ StartMake \/ StartFetchChain \/ StartFetchChainErr
  \/ StartFetchOCSPErr \/ StartRetry
  \/ \E p \in Goroutines : FetchOCSP(p) \/ RLock(p) \/ Send(p)
  \/ \E d \in Runs : Daemon(d)
  \/ StopLock \/ StopClose

=============================================================================
