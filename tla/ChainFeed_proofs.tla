--------------------------- MODULE ChainFeed_proofs ---------------------------
(***************************************************************************)
(* CertManager implements ChainFeed when Manager is started once.  Beyond  *)
(* the invariants of CertManager_proofs this needs to know that versions   *)
(* grow along the way of a chain, from the OCSP fetch over the channel and *)
(* the manager daemon to m.data, and when a nil can come out of the        *)
(* channel.                                                                *)
(***************************************************************************)
EXTENDS CertManager_proofs

Version(ac) == ac.ocspResp.n
Closing == {"stopping", "stopLock", "stopped"}

(* No chain ahead of n on the way of run d. *)
AllBelow(d, n) ==
  /\ Version(data) < n
  /\ mPc[d] = "set" => Version(received[d]) < n
  /\ chan[d].buf # <<>> => Version(Head(chan[d].buf)) < n

OrderInv(d) ==
  /\ AllBelow(d, issued + 1)
  /\ \A p \in Goroutines :
       /\ pc[p] = "rlock" => ocspResp.n = issued /\ AllBelow(d, issued)
       /\ pc[p] = "send" => Version(sendVal[p]) = issued /\ AllBelow(d, issued)
  /\ chan[d].buf # <<>> =>
       /\ Version(data) < Version(Head(chan[d].buf))
       /\ mPc[d] = "set" => Version(received[d]) < Version(Head(chan[d].buf))
  /\ mPc[d] = "set" /\ received[d] # NoAugmentedChain =>
       Version(data) < Version(received[d])

(* Nil is received only from the closed, drained channel, after which        *)
(* nothing else is.                                                          *)
NilInv(d) ==
  /\ mPc[d] = "off" <=> pc[Caller] \notin Closing \cup {"running"}
  /\ mPc[d] = "off" => data = NoAugmentedChain
  /\ mPc[d] # "off" => starts = 1
  /\ chan[d].closed => pc[Caller] \in Closing
  /\ mPc[d] # "off" /\ data = NoAugmentedChain => chan[d].closed /\ chan[d].buf = <<>>
  /\ mPc[d] = "set" /\ received[d] = NoAugmentedChain =>
       chan[d].closed /\ chan[d].buf = <<>>
  /\ mPc[d] = "set" /\ received[d] # NoAugmentedChain => data # NoAugmentedChain

-----------------------------------------------------------------------------
LEMMA Versions ==
  /\ \A ac \in MaybeAugmented : Version(ac) \in Nat
  /\ \A ac \in AugmentedChain : Version(ac) \in Nat \ {0} /\ ac # NoAugmentedChain
  /\ AugmentedChain \subseteq MaybeAugmented
  /\ Version(NoAugmentedChain) = 0
BY AugmentorAssumption
   DEF Version, MaybeAugmented, AugmentedChain, OCSPResponse, NoAugmentedChain, NoResp

LEMMA SingleRun ==
  ASSUME MaxStarts = 1
  PROVE  Runs = {1} /\ Goroutines = {Caller, 1} /\ Caller = 0
BY DEF Runs, Goroutines, Caller

(* Only one goroutine at a time is inside maintainOCSPResp. *)
LEMMA OneAtATime ==
  ASSUME MaxStarts = 1, TypeInv, FirstRunInv,
         NEW p \in Goroutines, pc[p] \in {"fetchOCSP", "rlock", "send"},
         NEW q \in Goroutines, q # p
  PROVE  pc[q] \notin {"fetchOCSP", "rlock", "send"}
<1>1. PairInv
  BY DEF TypeInv, TypeOK, ProducerOK, FirstRunInv
<1> QED
  BY <1>1, SingleRun DEF PairInv, OneMaintainer, Maintaining

(* The values on the way of run 1 have versions. *)
LEMMA Path ==
  ASSUME MaxStarts = 1, TypeInv
  PROVE  /\ data \in MaybeAugmented /\ received[1] \in MaybeAugmented
         /\ chan[1].buf # <<>> => Head(chan[1].buf) \in AugmentedChain
         /\ Version(data) \in Nat /\ Version(received[1]) \in Nat
         /\ chan[1].buf # <<>> => Version(Head(chan[1].buf)) \in Nat \ {0}
         /\ issued \in Nat
<1>1. chan[1].buf \in Buffers
  BY SingleRun DEF TypeInv, TypeOK, ChanOK
<1>2. chan[1].buf # <<>> => Head(chan[1].buf) \in AugmentedChain
  BY <1>1, Buffer
<1>3. data \in MaybeAugmented /\ received[1] \in MaybeAugmented /\ issued \in Nat
  BY SingleRun, AugmentorAssumption DEF TypeInv, TypeOK, ManagerOK, ProducerOK
<1> QED
  BY <1>2, <1>3, Versions

LEMMA OrderInit == MaxStarts = 1 /\ Init => OrderInv(1) /\ NilInv(1)
BY SingleRun, Versions
   DEF Init, AugInit, OrderInv, AllBelow, NilInv, Closing, Maintaining

LEMMA OrderStep ==
  ASSUME MaxStarts = 1, TypeInv, TypeInv', ChannelInv, FirstRunInv,
         OrderInv(1), NilInv(1), [Next]_vars
  PROVE  OrderInv(1)'
<1> USE SingleRun, Path DEF Goto
<1> DEFINE Quiet == UNCHANGED <<mgrVars, cacheVars>>
<1>0. pc \in [Goroutines -> CallerPc \cup DaemonPc]
  BY DEF TypeInv, TypeOK, PcOK
<1>1. ASSUME Quiet, UNCHANGED <<issued, ocspResp, chan, sendVal>>,
             \A p \in Goroutines : pc'[p] \in {"rlock", "send"} => pc'[p] = pc[p]
      PROVE  OrderInv(1)'
  BY <1>1 DEF OrderInv, AllBelow, mgrVars
<1>2. ASSUME NEW p \in Goroutines, FetchOCSP(p), Quiet
      PROVE  OrderInv(1)'
  <2>1. \A q \in Goroutines \ {p} : pc'[q] \notin {"rlock", "send"}
    BY <1>0, <1>2, OneAtATime DEF FetchOCSP
  <2>2. UNCHANGED <<chan, data, mPc, received>> /\ issued' = issued + 1
    BY <1>2 DEF FetchOCSP, mgrVars, chanVars
  <2>3. pc'[p] = "rlock" /\ ocspResp'.n = issued'
    BY <1>0, <1>2 DEF FetchOCSP
  <2>4. AllBelow(1, issued + 1)
    BY DEF OrderInv
  <2>5. /\ Version(data') < issued'
        /\ mPc'[1] = "set" => Version(received'[1]) < issued'
        /\ chan'[1].buf # <<>> => Version(Head(chan'[1].buf)) < issued'
    BY <2>2, <2>4 DEF AllBelow
  <2>6. /\ AllBelow(1, issued)'
        /\ AllBelow(1, issued + 1)'
    BY <2>2, <2>5 DEF AllBelow
  <2> QED
    BY <2>1, <2>2, <2>3, <2>6 DEF OrderInv
<1>3. ASSUME NEW p \in Goroutines, RLock(p), Quiet
      PROVE  OrderInv(1)'
  <2>1. \A q \in Goroutines \ {p} : pc'[q] = pc[q] /\ sendVal'[q] = sendVal[q]
    BY <1>0, <1>3 DEF RLock, TypeInv, TypeOK, OperandsOK
  <2>2. pc'[p] = "send" /\ Version(sendVal'[p]) = ocspResp.n
    BY <1>0, <1>3 DEF RLock, Version, TypeInv, TypeOK, OperandsOK
  <2>3. UNCHANGED <<issued, ocspResp, chan, data, mPc, received>>
    BY <1>3 DEF RLock, pairVars, chanVars, mgrVars
  <2> QED
    BY <1>3, <2>1, <2>2, <2>3 DEF RLock, OrderInv, AllBelow
<1>4. ASSUME NEW p \in Goroutines, Send(p), Quiet
      PROVE  OrderInv(1)'
  <2>1. sendCh[p] = 1 /\ chan[1].buf = <<>>
    BY <1>4, Buffer DEF Send, TypeInv, TypeOK, OperandsOK, ChanOK
  <2>2. chan'[1].buf = <<sendVal[p]>> /\ Head(chan'[1].buf) = sendVal[p]
    BY <1>4, <2>1 DEF Send, TypeInv, TypeOK, ChanOK
  <2>3. \A q \in Goroutines : pc'[q] \notin {"rlock", "send"}
    BY <1>0, <1>4, OneAtATime DEF Send
  <2>4. UNCHANGED <<issued, data, mPc, received>>
    BY <1>4 DEF Send, pairVars, mgrVars
  <2>5. AllBelow(1, issued) /\ Version(sendVal[p]) = issued
    BY <1>4 DEF Send, OrderInv
  <2>6. AllBelow(1, issued + 1)'
    BY <2>2, <2>4, <2>5 DEF AllBelow
  <2>7. /\ Version(data') < Version(Head(chan'[1].buf))
        /\ mPc'[1] = "set" => Version(received'[1]) < Version(Head(chan'[1].buf))
    BY <2>2, <2>4, <2>5 DEF AllBelow
  <2> QED
    BY <2>3, <2>4, <2>6, <2>7 DEF OrderInv
<1>5. CASE StopClose /\ Quiet
  <2>1. chan'[1].buf = chan[1].buf
    BY <1>5 DEF StopClose, TypeInv, TypeOK, ChanOK
  <2>2. \A q \in Goroutines :
          pc'[q] # "send" /\ (pc'[q] = "rlock" => pc[q] = "rlock")
    BY <1>0, <1>5 DEF StopClose, Readers
  <2>3. UNCHANGED <<issued, ocspResp, data, mPc, received>>
    BY <1>5 DEF StopClose, pairVars, mgrVars
  <2> QED
    BY <1>5, <2>1, <2>2, <2>3 DEF OrderInv, AllBelow
<1>6. CASE StartReceive
  <2>1. out = 1 /\ starts = 1
    BY <1>6 DEF StartReceive, TypeInv, TypeOK, ProducerOK, CallerInv, InRun
  <2>2. chan'[1].buf = <<>>
    BY <1>6, <2>1, Buffer DEF StartReceive, TypeInv, TypeOK, ChanOK
  <2>3. mPc'[1] # "set" /\ Version(data') < issued + 1
    BY <1>6, <2>1 DEF StartReceive, OrderInv, AllBelow, TypeInv, TypeOK, ManagerOK
  <2>4. \A q \in Goroutines : pc'[q] \in {"rlock", "send"} =>
          pc'[q] = pc[q] /\ Version(data') < issued
    BY <1>0, <1>6, <2>1 DEF StartReceive, OrderInv, AllBelow
  <2>5. UNCHANGED <<issued, ocspResp, sendVal>>
    BY <1>6 DEF StartReceive, pairVars, sendVars
  <2> QED
    BY <2>2, <2>3, <2>4, <2>5 DEF OrderInv, AllBelow
<1>7. CASE StopKill
  <2>1. \A q \in Goroutines : pc'[q] \in {"rlock", "send"} => pc'[q] = pc[q]
    BY <1>0, <1>7 DEF StopKill
  <2> QED
    BY <1>7, <2>1 DEF StopKill, OrderInv, AllBelow, pairVars, chanVars, sendVars
<1>8. CASE MReceive(1)
  <2>1. selCh[1] = 1
    BY <1>8 DEF MReceive, TypeInv, TypeOK, ManagerOK
  <2>2. chan'[1].buf = <<>> /\ received'[1] = Head(chan[1].buf) /\ mPc'[1] = "set"
    BY <1>8, <2>1, Buffer, SMTT(30) DEF MReceive, TypeInv, TypeOK, ChanOK, ManagerOK
  <2> QED
    BY <1>8, <2>1, <2>2, SMTT(30) DEF MReceive, OrderInv, AllBelow, pairVars, sendVars
<1>9. CASE MReceiveClosed(1)
  <2>1. received'[1] = NoAugmentedChain /\ mPc'[1] = "set" /\ Version(received'[1]) = 0
    BY ONLY <1>9, TypeInv, SingleRun, MaxStarts = 1, Versions
       DEF MReceiveClosed, TypeInv, TypeOK, ManagerOK
  <2>2. selCh[1] = 1 /\ chan'[1].buf = <<>>
    <3>1. selCh[1] \in 0..1
      <4>1. selCh \in [Runs -> 0..MaxStarts]
        BY ONLY TypeInv DEF TypeInv, TypeOK, ManagerOK
      <4> QED
        BY ONLY <4>1, MaxStarts = 1, SingleRun
    <3>2. /\ selCh[1] # 0 /\ chan' = chan
          /\ chan[selCh[1]].buf = <<>>
      BY ONLY <1>9 DEF MReceiveClosed, augVars, chanVars
    <3>3. selCh[1] = 1
      BY ONLY <3>1, <3>2
    <3> QED
      BY ONLY <3>2, <3>3
  <2>3. \A p \in Goroutines : pc[p] = "rlock" \/ pc[p] = "send" => 0 < issued
    <3>1. Version(data) \in Nat /\ issued \in Nat
      OBVIOUS
    <3> QED
      BY ONLY <3>1, OrderInv(1) DEF OrderInv, AllBelow
  <2>4. UNCHANGED <<pc, issued, ocspResp, sendVal, data>>
    BY ONLY <1>9 DEF MReceiveClosed, augVars, pairVars, sendVars
  <2>5. 0 < issued + 1
    BY DEF TypeInv, TypeOK, ProducerOK
  <2> QED
    BY ONLY OrderInv(1), <2>1, <2>2, <2>3, <2>4, <2>5, SMTT(30) DEF OrderInv, AllBelow
<1>10. CASE MEnterSelect(1) \/ MKilled(1)
  <2>1. mPc'[1] # "set"
    BY ONLY <1>10, TypeInv, SingleRun, MaxStarts = 1
       DEF MEnterSelect, MKilled, TypeInv, TypeOK, ManagerOK
  <2> QED
    BY <1>10, <2>1 DEF MEnterSelect, MKilled, OrderInv, AllBelow, augVars, pairVars,
         chanVars, sendVars
<1>11. CASE MSetData(1)
  <2>1. mPc'[1] # "set"
    BY <1>11 DEF MSetData, TypeInv, TypeOK, ManagerOK
  <2> QED
    BY <1>11, <2>1, SMTT(30) DEF MSetData, OrderInv, AllBelow, augVars, pairVars, chanVars, sendVars
<1>12. CASE OnReceive \/ UNCHANGED vars
  BY <1>12, SMTT(30) DEF OnReceive, CacheWrite, CacheWriteErr, CacheWriteNil, OrderInv, AllBelow,
       vars, augVars, mgrVars, pairVars, chanVars, sendVars
<1>13. ASSUME Quiet,
              \/ StartLock \/ StartMake \/ StartFetchChain \/ StartFetchChainErr
              \/ StartFetchOCSPErr \/ StartRetry \/ StopLock \/ Daemon(1)
       PROVE  OrderInv(1)'
  <2>1. UNCHANGED <<issued, ocspResp, chan, sendVal>>
    BY <1>13, SMTT(30) DEF StartLock, StartMake, StartFetchChain, StartFetchChainErr,
         StartFetchOCSPErr, StartRetry, StopLock, Daemon, EnterSelect, ChainEventFires,
         ChainUpdated, ChainNotUpdated, OCSPEventFires, FetchOCSPErr, DaemonKilled,
         pairVars, chanVars, sendVars
  <2>2. \A p \in Goroutines : pc'[p] \in {"rlock", "send"} => pc'[p] = pc[p]
    <3>1. CASE \/ StartLock \/ StartMake \/ StartFetchChain \/ StartFetchChainErr
               \/ StartFetchOCSPErr \/ StartRetry \/ StopLock
      BY ONLY <1>0, <3>1, SingleRun, MaxStarts = 1
         DEF StartLock, StartMake, StartFetchChain, StartFetchChainErr, StartFetchOCSPErr,
             StartRetry, StopLock, CallFetchOCSP, Goto
    <3>2. CASE Daemon(1)
      BY ONLY <1>0, <3>2, SingleRun, MaxStarts = 1
         DEF Daemon, EnterSelect, ChainEventFires, ChainUpdated, ChainNotUpdated,
             OCSPEventFires, FetchOCSPErr, DaemonKilled, CallFetchOCSP, Goto
    <3> QED
      BY ONLY <1>13, <3>1, <3>2
  <2> QED
    BY ONLY <1>1, <1>13, <2>1, <2>2
<1> QED
  BY <1>2, <1>3, <1>4, <1>5, <1>6, <1>7, <1>8, <1>9, <1>10, <1>11, <1>12, <1>13
     DEF Next, Producer, AugNext, MDaemon

LEMMA NilStep ==
  ASSUME MaxStarts = 1, TypeInv, TypeInv', ChannelInv, NilInv(1), [Next]_vars
  PROVE  NilInv(1)'
<1> USE SingleRun DEF Goto
<1> DEFINE Quiet == UNCHANGED <<mgrVars, cacheVars>>
<1>0. pc \in [Goroutines -> CallerPc \cup DaemonPc]
  BY DEF TypeInv, TypeOK, PcOK
<1>1. ASSUME Quiet, UNCHANGED chan,
             pc'[Caller] \in Closing <=> pc[Caller] \in Closing,
             pc'[Caller] = "running" <=> pc[Caller] = "running",
             mPc[1] # "off" => starts' = starts
      PROVE  NilInv(1)'
  BY <1>1 DEF NilInv, mgrVars
<1>2. ASSUME NEW p \in Goroutines, Send(p), Quiet
      PROVE  NilInv(1)'
  <2>1. sendCh[p] = 1 /\ ~chan[1].closed /\ ~chan'[1].closed
    BY <1>2 DEF Send, TypeInv, TypeOK, OperandsOK, ChanOK, ChannelInv, NoSendOnClosedChannel
  <2>2. /\ pc'[Caller] \in Closing <=> pc[Caller] \in Closing
        /\ pc'[Caller] = "running" <=> pc[Caller] = "running"
    BY <1>0, <1>2 DEF Send, Closing, TypeInv, TypeOK, ProducerOK, CallerInv, InRun
  <2> QED
    BY <1>2, <2>1, <2>2 DEF Send, NilInv, mgrVars, startVars
<1>3. CASE StopClose /\ Quiet
  <2>1. chan'[1].buf = chan[1].buf
    BY <1>3 DEF StopClose, TypeInv, TypeOK, ChanOK
  <2>2. chan[1].closed => chan'[1].closed
    BY <1>3 DEF StopClose, TypeInv, TypeOK, ChanOK
  <2>3. pc[Caller] = "stopLock" /\ pc'[Caller] = "stopped"
    BY <1>0, <1>3 DEF StopClose
  <2> QED
    BY <1>3, <2>1, <2>2, <2>3 DEF StopClose, NilInv, Closing, mgrVars, startVars
<1>4. CASE StartReceive
  <2>1. out = 1 /\ starts = 1 /\ starts' = 1
    BY <1>4 DEF StartReceive, startVars, TypeInv, TypeOK, ProducerOK, CallerInv, InRun
  <2>2. data' # NoAugmentedChain
    BY <1>4, <2>1, Path, Versions DEF StartReceive
  <2>3. mPc'[1] = "loop" /\ pc'[Caller] = "running" /\ ~chan'[1].closed
    BY <1>0, <1>4, <2>1
       DEF StartReceive, NilInv, Closing, TypeInv, TypeOK, ManagerOK, ChanOK
  <2> QED
    BY <2>1, <2>2, <2>3 DEF NilInv, Closing
<1>5. CASE StopKill
  <2>1. pc'[Caller] = "stopping"
    BY <1>0, <1>5 DEF StopKill
  <2> QED
    BY <1>5, <2>1 DEF StopKill, NilInv, Closing, chanVars, startVars
<1>6. CASE MReceive(1)
  <2>1. selCh[1] = 1 /\ chan[1].buf # <<>>
    BY <1>6 DEF MReceive, TypeInv, TypeOK, ManagerOK
  <2>2. received'[1] # NoAugmentedChain /\ mPc'[1] = "set"
    BY <1>6, <2>1, Path, Versions DEF MReceive, TypeInv, TypeOK, ManagerOK
  <2>3. chan'[1].closed = chan[1].closed
    BY <1>6, <2>1 DEF MReceive, TypeInv, TypeOK, ChanOK
  <2> QED
    BY <1>6, <2>1, <2>2, <2>3 DEF MReceive, NilInv, startVars
<1>7. CASE MReceiveClosed(1)
  <2>1. selCh[1] = 1
    BY <1>7, SMTT(30) DEF MReceiveClosed, TypeInv, TypeOK, ManagerOK
  <2>2. mPc'[1] = "set" /\ received'[1] = NoAugmentedChain
    BY <1>7 DEF MReceiveClosed, TypeInv, TypeOK, ManagerOK
  <2> QED
    BY <1>7, <2>1, <2>2 DEF MReceiveClosed, NilInv, augVars, chanVars, startVars
<1>8. CASE MEnterSelect(1) \/ MKilled(1)
  <2>1. mPc[1] # "off" /\ mPc'[1] \in {"select", "done"}
    BY <1>8 DEF MEnterSelect, MKilled, TypeInv, TypeOK, ManagerOK
  <2> QED
    BY <1>8, <2>1 DEF MEnterSelect, MKilled, NilInv, augVars, chanVars, startVars
<1>9. CASE MSetData(1)
  <2>1. mPc[1] = "set" /\ mPc'[1] = "loop"
    BY <1>9 DEF MSetData, TypeInv, TypeOK, ManagerOK
  <2> QED
    BY <1>9, <2>1 DEF MSetData, NilInv, augVars, chanVars, startVars
<1>10. CASE OnReceive \/ UNCHANGED vars
  BY <1>10, SMTT(30) DEF OnReceive, CacheWrite, CacheWriteErr, CacheWriteNil, NilInv, vars, augVars,
       mgrVars, chanVars, startVars
<1>11. ASSUME Quiet,
              \/ StartLock \/ StartMake \/ StartFetchChain \/ StartFetchChainErr
              \/ StartFetchOCSPErr \/ StartRetry \/ StopLock
       PROVE  NilInv(1)'
  <2>1. /\ UNCHANGED chan
        /\ starts' = starts \/ pc[Caller] = "startLock"
    BY <1>11 DEF StartLock, StartMake, StartFetchChain, StartFetchChainErr,
         StartFetchOCSPErr, StartRetry, StopLock, chanVars, startVars
  <2>2. StartLock => pc[Caller] = "idle"
    <3>1. pc[Caller] = "stopped" => starts = 1
      BY SMTT(30) DEF NilInv, Closing
    <3>2. StartLock => starts < 1 /\ pc[Caller] \in {"idle", "stopped"}
      BY DEF StartLock
    <3> QED
      BY ONLY <3>1, <3>2
  <2>3. /\ pc'[Caller] \in Closing <=> pc[Caller] \in Closing
        /\ pc'[Caller] = "running" <=> pc[Caller] = "running"
    BY <1>0, <1>11, <2>2 DEF StartLock, StartMake, StartFetchChain, StartFetchChainErr,
         StartFetchOCSPErr, StartRetry, StopLock, CallFetchOCSP, Closing
  <2>4. mPc[1] # "off" => starts' = starts
    BY <2>1 DEF NilInv, Closing
  <2> QED
    BY <1>1, <1>11, <2>1, <2>3, <2>4
<1>12. ASSUME Quiet, NEW p \in Goroutines,
              \/ FetchOCSP(p) \/ RLock(p)
              \/ p = 1 /\ Daemon(1)
       PROVE  NilInv(1)'
  <2>1. UNCHANGED <<chan, starts>>
    BY <1>12, SMTT(30) DEF FetchOCSP, RLock, Daemon, EnterSelect, ChainEventFires, ChainUpdated,
         ChainNotUpdated, OCSPEventFires, FetchOCSPErr, DaemonKilled, chanVars, startVars
  <2>2. /\ pc'[Caller] \in Closing <=> pc[Caller] \in Closing
        /\ pc'[Caller] = "running" <=> pc[Caller] = "running"
    BY <1>0, <1>12, SMTT(30) DEF FetchOCSP, RLock, Daemon, EnterSelect, ChainEventFires,
         ChainUpdated, ChainNotUpdated, OCSPEventFires, FetchOCSPErr, DaemonKilled,
         CallFetchOCSP, Closing
  <2> QED
    BY <1>1, <1>12, <2>1, <2>2
<1> QED
  BY <1>2, <1>3, <1>4, <1>5, <1>6, <1>7, <1>8, <1>9, <1>10, <1>11, <1>12
     DEF Next, Producer, AugNext, MDaemon

-----------------------------------------------------------------------------
(* The refinement mapping. *)

LEMMA Phases ==
  /\ pc[Caller] = "running" => phase = "on"
  /\ pc[Caller] \in Closing => phase = "closing"
  /\ pc[Caller] \notin Closing \cup {"running"} => phase = "off"
BY DEF phase, Closing

LEMMA FeedStep ==
  ASSUME MaxStarts = 1, TypeInv, TypeInv', ChannelInv, FirstRunInv, FirstRunInv',
         OrderInv(1), NilInv(1), NilInv(1)', [Next]_vars
  PROVE  [Abstract!FeedNext]_(Abstract!feedVars)
<1> USE SingleRun DEF Goto
<1>0. pc \in [Goroutines -> CallerPc \cup DaemonPc]
  BY ONLY TypeInv DEF TypeInv, TypeOK, PcOK
<1>1. /\ IsPair(data) /\ IsPair(data') /\ IsPair(received[1])
  <2>1. starts <= 1 /\ starts' <= 1
    BY DEF TypeInv, TypeOK, ProducerOK
  <2>2. PairsMatch /\ PairsMatch'
    BY <2>1 DEF FirstRunInv, PairInv
  <2> QED
    BY <2>2 DEF PairsMatch
<1>2. ASSUME data' = data,
             pc'[Caller] \in Closing <=> pc[Caller] \in Closing,
             pc'[Caller] = "running" <=> pc[Caller] = "running"
      PROVE  UNCHANGED Abstract!feedVars
  BY <1>2 DEF Abstract!feedVars, phase, Closing
<1>3. CASE StartReceive
  <2>1. out = 1
    BY <1>3 DEF StartReceive, TypeInv, TypeOK, ProducerOK, CallerInv, InRun
  <2>2. data' \in AugmentedChain /\ pc[Caller] = "started" /\ pc'[Caller] = "running"
    BY <1>0, <1>3, <2>1, Path DEF StartReceive
  <2>3. phase = "off" /\ phase' = "on"
    BY <2>2 DEF phase
  <2> QED
    BY <1>1, <2>2, <2>3 DEF Abstract!FeedNext, Abstract!Open, Abstract!IsPair, IsPair
<1>4. CASE StopKill
  <2>1. pc'[Caller] = "stopping" /\ data' = data
    BY <1>0, <1>4 DEF StopKill
  <2>2. CASE pc[Caller] = "running"
    <3>1. phase = "on" /\ phase' = "closing"
      BY <2>1, <2>2 DEF phase
    <3> QED
      BY <2>1, <3>1 DEF Abstract!FeedNext, Abstract!Close
  <2>3. CASE pc[Caller] = "stopped"
    BY <1>2, <2>1, <2>3 DEF Closing
  <2> QED
    BY <1>4, <2>2, <2>3 DEF StopKill
<1>5. CASE MSetData(1)
  <2>1. mPc[1] = "set" /\ data' = received[1] /\ phase' = phase
    BY <1>5 DEF MSetData, phase, augVars
  <2>2. CASE received[1] = NoAugmentedChain
    <3>1. phase = "closing"
      BY <2>1, <2>2, Phases DEF NilInv
    <3> QED
      BY <2>1, <2>2, <3>1 DEF Abstract!FeedNext, Abstract!Withdraw
  <2>3. CASE received[1] # NoAugmentedChain
    <3>1. data # NoAugmentedChain /\ received[1] \in AugmentedChain
      BY <2>1, <2>3, Path, SMTT(30) DEF NilInv, MaybeAugmented
    <3>2. Version(data) < Version(received[1])
      BY <2>1, <2>3 DEF OrderInv
    <3>3. Abstract!Newer(data', data)
      BY <2>1, <3>2, Path DEF Abstract!Newer, Version
    <3> QED
      BY <1>1, <2>1, <3>1, <3>3
         DEF Abstract!FeedNext, Abstract!Replace, Abstract!IsPair, IsPair
  <2> QED
    BY <2>2, <2>3
<1>6. CASE MEnterSelect(1) \/ MKilled(1) \/ MReceive(1) \/ MReceiveClosed(1) \/ OnReceive
           \/ UNCHANGED vars
  <2>1. data' = data /\ pc' = pc
    BY <1>6 DEF MEnterSelect, MKilled, MReceive, MReceiveClosed, OnReceive, CacheWrite,
         CacheWriteErr, CacheWriteNil, vars, augVars, mgrVars
  <2> QED
    BY <1>2, <2>1
<1>7. CASE Producer
  <2>1. data' = data /\ mPc' = mPc
    BY <1>7 DEF Producer, mgrVars
  <2>2. pc'[Caller] \in Closing \cup {"running"} <=> pc[Caller] \in Closing \cup {"running"}
    BY <2>1 DEF NilInv
  <2>3. pc'[Caller] = "running" <=> pc[Caller] = "running"
    BY <1>0, <1>7, <2>2, ZenonT(30) DEF Producer, AugNext, StartLock, StartMake, StartFetchChain,
         StartFetchChainErr, StartFetchOCSPErr, StartRetry, StopLock, StopClose, FetchOCSP,
         RLock, Send, Daemon, EnterSelect, ChainEventFires, ChainUpdated, ChainNotUpdated,
         OCSPEventFires, FetchOCSPErr, DaemonKilled, CallFetchOCSP, Closing, TypeInv,
         TypeOK, ProducerOK, CallerInv, InRun
  <2> QED
    BY <1>2, <2>1, <2>2, <2>3
<1> QED
  BY <1>3, <1>4, <1>5, <1>6, <1>7 DEF Next, MDaemon

(* A Manager that is started once implements ChainFeed: whatever the         *)
(* interleaving of the Augmentor's daemon, the manager's daemon, Start and   *)
(* Stop, GetAugmentedChain returns matching pairs of chain and OCSP          *)
(* response, each newer than the one before, and nil only after Stop.        *)
THEOREM FeedRefinement ==
  ASSUME MaxStarts = 1
  PROVE  Spec => ImplementsChainFeed
<1>1. Init => Abstract!FeedInit
  BY SingleRun DEF Init, AugInit, Abstract!FeedInit, phase
<1>2. Init => OrderInv(1) /\ NilInv(1)
  BY OrderInit
<1>3. TypeInv /\ TypeInv' /\ ChannelInv /\ FirstRunInv /\ OrderInv(1) /\ NilInv(1)
        /\ [Next]_vars => OrderInv(1)' /\ NilInv(1)'
  BY OrderStep, NilStep
<1>4. TypeInv /\ TypeInv' /\ ChannelInv /\ FirstRunInv /\ FirstRunInv' /\ OrderInv(1)
        /\ NilInv(1) /\ NilInv(1)' /\ [Next]_vars
        => [Abstract!FeedNext]_(Abstract!feedVars)
  BY FeedStep
<1> QED
  BY <1>1, <1>2, <1>3, <1>4, TypeInit, TypeStep, ChannelInit, ChannelStep, PairInit,
     PairStep, PTL DEF Spec, ImplementsChainFeed, Abstract!FeedSpec

=============================================================================
