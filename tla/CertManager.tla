----------------------------- MODULE CertManager -----------------------------
(***************************************************************************)
(* Manager (manager.go) on top of its producer, the Augmentor: it holds    *)
(* the newest AugmentedChain for the request handlers and hands every      *)
(* chain it receives to a goroutine of its own that writes it to Cache.    *)
(*                                                                         *)
(* Cache is a disk cache, seen from its interface: Write is atomic (it     *)
(* serialises writers with a file lock; MultiCertDiskCache has the detail) *)
(* or fails without effect, and it dereferences its argument, so a nil     *)
(* chain panics and takes the process down.                                *)
(***************************************************************************)
EXTENDS Augmentor

VARIABLES
  data,        \* m.data
  mPc,         \* what the manager daemon of each Start does next
  mKiller,     \* m.killer
  mKilled,     \* the manager killers whose channel is closed
  selCh,       \* per manager daemon: the channel its select receives from
  mSelKiller,  \* per manager daemon: the killer its select listens to
  received,    \* per manager daemon: the chain it just received
  writers,     \* the chains that goroutines running onReceive have to write
  stored,      \* Cache by digest: the OCSP response stored with the chain
  latest,      \* Cache: what ReadLatest returns
  failed,      \* history: the digests for which a Write failed
  crashed      \* the process died of a panic

mgrVars == <<data, mPc, mKiller, mKilled, selCh, mSelKiller, received>>
cacheVars == <<writers, stored, latest, failed, crashed>>
vars == <<augVars, mgrVars, cacheVars>>

Init ==
  /\ AugInit
  /\ data = NoAugmentedChain
  /\ mPc = [d \in Runs |-> "off"]
  /\ mKiller = 0
  /\ mKilled = {}
  /\ selCh = [d \in Runs |-> 0]
  /\ mSelKiller = [d \in Runs |-> 0]
  /\ received = [d \in Runs |-> NoAugmentedChain]
  /\ writers = {}
  /\ stored = [c \in Chains |-> NoResp]
  /\ latest = NoAugmentedChain
  /\ failed = {}
  /\ crashed = FALSE

-----------------------------------------------------------------------------
\* The end of Manager.Start: the first chain is received and held, a cache
\* write is started, the manager daemon is spawned.
StartReceive ==
  /\ pc[Caller] = "started"
  /\ chan[out].buf # <<>>
  /\ data' = Head(chan[out].buf)
  /\ chan' = [chan EXCEPT ![out].buf = Tail(@)]
  /\ writers' = writers \cup {Head(chan[out].buf)}
  /\ mKiller' = starts
  /\ mPc' = [mPc EXCEPT ![starts] = "loop"]
  /\ Goto(Caller, "running")
  /\ UNCHANGED <<startVars, pairVars, out, killVars, arg, sendVars, selKiller,
                 mKilled, selCh, mSelKiller, received, stored, latest, failed,
                 crashed>>

\* Manager.Stop is called (again, possibly): m.killer.Kill().
StopKill ==
  /\ pc[Caller] \in {"running", "stopped"}
  /\ mKilled' = mKilled \cup {mKiller}
  /\ Goto(Caller, "stopping")
  /\ UNCHANGED <<startVars, pairVars, chanVars, killVars, arg, sendVars,
                 selKiller, data, mPc, mKiller, selCh, mSelKiller, received,
                 cacheVars>>

-----------------------------------------------------------------------------
(* The manager daemon. *)

\* The operands of select are evaluated: Out() takes outMu for reading.
MEnterSelect(d) ==
  /\ mPc[d] = "loop"
  /\ ~WriterWaiting
  /\ selCh' = [selCh EXCEPT ![d] = out]
  /\ mSelKiller' = [mSelKiller EXCEPT ![d] = mKiller]
  /\ mPc' = [mPc EXCEPT ![d] = "select"]
  /\ UNCHANGED <<augVars, data, mKiller, mKilled, received, cacheVars>>

\* Mutant: the chain is not handed to onReceive.
MReceive_NoWrite(d) ==
  /\ mPc[d] = "select"
  /\ selCh[d] # 0
  /\ chan[selCh[d]].buf # <<>>
  /\ received' = [received EXCEPT ![d] = Head(chan[selCh[d]].buf)]
  /\ chan' = [chan EXCEPT ![selCh[d]].buf = Tail(@)]
  /\ mPc' = [mPc EXCEPT ![d] = "set"]
  /\ UNCHANGED <<pc, startVars, pairVars, out, killVars, arg, sendVars,
                 selKiller, data, mKiller, mKilled, selCh, mSelKiller,
                 cacheVars>>

\* A chain is received and a cache write is started for it.
MReceive(d) ==
  /\ mPc[d] = "select"
  /\ selCh[d] # 0
  /\ chan[selCh[d]].buf # <<>>
  /\ LET ac == Head(chan[selCh[d]].buf)
     IN  /\ received' = [received EXCEPT ![d] = ac]
         /\ writers' = writers \cup {ac}
  /\ chan' = [chan EXCEPT ![selCh[d]].buf = Tail(@)]
  /\ mPc' = [mPc EXCEPT ![d] = "set"]
  /\ UNCHANGED <<pc, startVars, pairVars, out, killVars, arg, sendVars,
                 selKiller, data, mKiller, mKilled, selCh, mSelKiller, stored,
                 latest, failed, crashed>>

\* Mutant: nil is taken from any empty channel.
MReceiveClosed_Open(d) ==
  /\ mPc[d] = "select"
  /\ selCh[d] # 0
  /\ chan[selCh[d]].buf = <<>>
  /\ received' = [received EXCEPT ![d] = NoAugmentedChain]
  /\ writers' = writers \cup {NoAugmentedChain}
  /\ mPc' = [mPc EXCEPT ![d] = "set"]
  /\ UNCHANGED <<augVars, data, mKiller, mKilled, selCh, mSelKiller, stored,
                 latest, failed, crashed>>

\* A drained, closed channel yields nil, which is handled like any chain.
MReceiveClosed(d) ==
  /\ mPc[d] = "select"
  /\ selCh[d] # 0
  /\ chan[selCh[d]].buf = <<>>
  /\ chan[selCh[d]].closed
  /\ received' = [received EXCEPT ![d] = NoAugmentedChain]
  /\ writers' = writers \cup {NoAugmentedChain}
  /\ mPc' = [mPc EXCEPT ![d] = "set"]
  /\ UNCHANGED <<augVars, data, mKiller, mKilled, selCh, mSelKiller, stored,
                 latest, failed, crashed>>

\* Mutant: the received chain only fills an empty m.data.
MSetData_OnlyFirst(d) ==
  /\ mPc[d] = "set"
  /\ data' = IF data = NoAugmentedChain THEN received[d] ELSE data
  /\ mPc' = [mPc EXCEPT ![d] = "loop"]
  /\ UNCHANGED <<augVars, mKiller, mKilled, selCh, mSelKiller, received,
                 cacheVars>>

\* The received chain becomes the one that GetAugmentedChain returns.
MSetData(d) ==
  /\ mPc[d] = "set"
  /\ data' = received[d]
  /\ mPc' = [mPc EXCEPT ![d] = "loop"]
  /\ UNCHANGED <<augVars, mKiller, mKilled, selCh, mSelKiller, received,
                 cacheVars>>

\* The kill signal: the manager daemon returns.
MKilled(d) ==
  /\ mPc[d] = "select"
  /\ mSelKiller[d] \in mKilled
  /\ mPc' = [mPc EXCEPT ![d] = "done"]
  /\ UNCHANGED <<augVars, data, mKiller, mKilled, selCh, mSelKiller, received,
                 cacheVars>>

-----------------------------------------------------------------------------
(* The goroutines running onReceive. *)

\* Cache.Write succeeds.
CacheWrite(ac) ==
  /\ ac \in writers \ {NoAugmentedChain}
  /\ writers' = writers \ {ac}
  /\ stored' = [stored EXCEPT ![ac.rawChain] = ac.ocspResp]
  /\ latest' = ac
  /\ UNCHANGED <<augVars, mgrVars, failed, crashed>>

\* Cache.Write fails, which is only logged.
CacheWriteErr(ac) ==
  /\ ac \in writers \ {NoAugmentedChain}
  /\ writers' = writers \ {ac}
  /\ failed' = failed \cup {ac.rawChain}
  /\ UNCHANGED <<augVars, mgrVars, stored, latest, crashed>>

\* Cache.Write(nil) panics.
CacheWriteNil ==
  /\ NoAugmentedChain \in writers
  /\ crashed' = TRUE
  /\ UNCHANGED <<augVars, mgrVars, writers, stored, latest, failed>>

-----------------------------------------------------------------------------
Producer == AugNext /\ UNCHANGED <<mgrVars, cacheVars>>

MDaemon(d) ==
  MEnterSelect(d) \/ MReceive(d) \/ MReceiveClosed(d) \/ MSetData(d) \/ MKilled(d)

OnReceive ==
  \/ \E ac \in writers : CacheWrite(ac) \/ CacheWriteErr(ac)
  \/ CacheWriteNil

Next ==
  /\ ~crashed
  /\ \/ Producer
     \/ StartReceive
     \/ StopKill
     \/ \E d \in Runs : MDaemon(d)
     \/ OnReceive

Spec == Init /\ [][Next]_vars

(* Fairness. Goroutines that can run do run, remote fetches return, timers   *)
(* set for a retry fire. A select whose kill case stays ready picks it       *)
(* eventually, however often another case is ready too (Go chooses at        *)
(* random); a reader of outMu gets in although writers come again and again  *)
(* (RWMutex.Unlock lets the waiting readers go first). Nobody has to call    *)
(* Start or Stop, and rcNext and orNext may be events that never occur.      *)
Run(A) == ~crashed /\ A /\ UNCHANGED <<mgrVars, cacheVars>>

Fairness ==
  /\ WF_vars(Run(StartMake))
  /\ WF_vars(Run(StartFetchChain \/ StartFetchChainErr))
  /\ WF_vars(Run(StartRetry))
  /\ WF_vars(Run(StopLock))
  /\ WF_vars(Run(StopClose))
  /\ WF_vars(~crashed /\ StartReceive)
  /\ WF_vars(Run(FetchOCSP(Caller) \/ StartFetchOCSPErr))
  /\ WF_vars(Run(RLock(Caller)))
  /\ WF_vars(Run(Send(Caller)))
  /\ \A d \in Runs :
       /\ WF_vars(Run(EnterSelect(d)))
       /\ WF_vars(Run(ChainUpdated(d) \/ ChainNotUpdated(d)))
       /\ WF_vars(Run(FetchOCSP(d) \/ FetchOCSPErr(d)))
       /\ SF_vars(Run(RLock(d)))
       /\ WF_vars(Run(Send(d)))
       /\ SF_vars(Run(DaemonKilled(d)))
       /\ WF_vars(~crashed /\ MEnterSelect(d))
       /\ WF_vars(~crashed /\ (MReceive(d) \/ MReceiveClosed(d)))
       /\ WF_vars(~crashed /\ MSetData(d))
       /\ SF_vars(~crashed /\ MKilled(d))
  /\ WF_vars(~crashed /\ OnReceive)

FairSpec == Spec /\ Fairness

-----------------------------------------------------------------------------
(* Properties. *)

CallerPc == {"idle", "startLock", "startFetchChain", "fetchOCSP", "retryWait",
             "rlock", "send", "started", "running", "stopping", "stopLock",
             "stopped"}
DaemonPc == {"off", "loop", "select", "fetchChain", "fetchOCSP", "rlock",
             "send", "done"}
ManagerPc == {"off", "loop", "select", "set", "done"}

MaybeResponse == OCSPResponse \cup {NoResp}
MaybeAugmented == AugmentedChain \cup {NoAugmentedChain}
Buffers == {<<>>} \cup {<<ac>> : ac \in AugmentedChain}

PcOK ==
  /\ pc \in [Goroutines -> CallerPc \cup DaemonPc]
  /\ pc[Caller] \in CallerPc
  /\ \A d \in Runs : pc[d] \in DaemonPc

ProducerOK ==
  /\ starts \in 0..MaxStarts
  /\ retryCount \in 0..maxRetryCount
  /\ rawChain \in Chains \cup {NoChain}
  /\ ocspResp \in MaybeResponse
  /\ issued \in 0..MaxResponses
  /\ out \in 0..MaxStarts
  /\ killer \in 0..MaxStarts
  /\ killed \in SUBSET Runs

ChanOK == chan \in [Runs -> [buf : Buffers, closed : BOOLEAN]]

OperandsOK ==
  /\ arg \in [Goroutines -> Chains \cup {NoChain}]
  /\ sendCh \in [Goroutines -> 0..MaxStarts]
  /\ sendVal \in [Goroutines -> MaybeAugmented]
  /\ selKiller \in [Runs -> 0..MaxStarts]

ManagerOK ==
  /\ data \in MaybeAugmented
  /\ mPc \in [Runs -> ManagerPc]
  /\ mKiller \in 0..MaxStarts
  /\ mKilled \in SUBSET Runs
  /\ selCh \in [Runs -> 0..MaxStarts]
  /\ mSelKiller \in [Runs -> 0..MaxStarts]
  /\ received \in [Runs -> MaybeAugmented]

CacheOK ==
  /\ writers \in SUBSET MaybeAugmented
  /\ stored \in [Chains -> MaybeResponse]
  /\ latest \in MaybeAugmented
  /\ failed \in SUBSET Chains
  /\ crashed \in BOOLEAN

\* The type of every variable. In particular, what Start and the daemon send
\* on the channel is never a nil chain or a chain without OCSP response, and
\* the channel never holds more than its capacity.
TypeOK == PcOK /\ ProducerOK /\ ChanOK /\ OperandsOK /\ ManagerOK /\ CacheOK

IsPair(ac) == ac.ocspResp.chain = ac.rawChain

\* Wherever a chain travels (channel, held by Manager, being written, cached
\* by digest or as the latest), its OCSP response is one for that very chain,
\* although the daemon replaces a.rawChain and a.ocspResp at different times
\* and an OCSP request may fail in between.
PairsMatch ==
  /\ \A d \in Runs : chan[d].buf # <<>> => IsPair(Head(chan[d].buf))
  /\ IsPair(data)
  /\ \A d \in Runs : IsPair(received[d])
  /\ \A ac \in writers : IsPair(ac)
  /\ \A c \in Chains : stored[c] # NoResp => stored[c].chain = c
  /\ IsPair(latest)

\* PairsMatch until Start is called a second time.
PairsMatchInFirstRun == starts <= 1 => PairsMatch

\* No goroutine is inside a send statement on a channel that is closed (Go
\* panics): Stop closes the channel only when outMu has no readers, whatever
\* the daemons left over from earlier runs are doing.
NoSendOnClosedChannel ==
  \A p \in Goroutines :
    pc[p] = "send" /\ sendCh[p] # 0 => ~chan[sendCh[p]].closed

\* The certificate of every signed exchange can be served: the chain that
\* GetAugmentedChain returns is in Cache under its digest, or a goroutine is
\* about to write it, or that write has failed.
HeldIsCachedOrBeingWritten ==
  data # NoAugmentedChain =>
    \/ stored[data.rawChain] # NoResp
    \/ \E ac \in writers : ac.rawChain = data.rawChain
    \/ data.rawChain \in failed

(* The refinement of ChainFeed, for a Manager that is started once. *)
phase ==
  CASE pc[Caller] = "running" -> "on"
    [] pc[Caller] \in {"stopping", "stopLock", "stopped"} -> "closing"
    [] OTHER -> "off"

Abstract == INSTANCE ChainFeed
  WITH Feed <- AugmentedChain, Nothing <- NoAugmentedChain, held <- data

\* The handlers see a feed of ever newer, matching pairs of chain and OCSP
\* response, from the return of Start to the call of Stop.
ImplementsChainFeed == Abstract!FeedSpec

\* Start returns, with a chain or with an error: its OCSP loop makes at most
\* three attempts, and its receive never misses the chain its send left.
StartReturns == pc[Caller] = "startLock" ~> pc[Caller] \in {"running", "idle"}

\* While nobody calls Stop, a chain that the Augmentor publishes is held by
\* the Manager some time later, or already a newer one.
PublishedIsHeld ==
  \A n \in 1..MaxResponses :
    (\E d \in Runs : chan[d].buf # <<>> /\ Head(chan[d].buf).ocspResp.n = n)
      ~> (data.ocspResp.n >= n \/ pc[Caller] \in {"stopping", "stopLock", "stopped"})

\* Once Augmentor.Stop has returned, the daemon ends. The one way out is the
\* fetch that was in progress: the daemon then sends on a.out, which is nil by
\* now, and is stranded there. (A panic ends the process with all daemons.)
StopEndsDaemon ==
  pc[Caller] = "stopped" ~>
    \/ crashed
    \/ \A d \in Runs : pc[d] \in {"off", "done"} \/ (pc[d] = "send" /\ sendCh[d] = 0)

(* What the documentation says and the code does not do. *)

\* The first call of Stop returns.
StopReturns == pc[Caller] = "stopping" /\ out # 0 ~> pc[Caller] = "stopped"

\* No panic takes the process, and the cache writes in progress, down.
NeverCrashes == ~crashed

=============================================================================
