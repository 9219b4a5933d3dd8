------------------------- MODULE CertManager_proofs -------------------------
(***************************************************************************)
(* Proofs about Augmentor and CertManager for any set of chains, any       *)
(* number of OCSP responses and any number of restarts.                    *)
(***************************************************************************)
EXTENDS CertManager, TLAPS

(* The caller is between the making of a channel and Stop. *)
Maintaining == {"fetchOCSP", "retryWait", "rlock", "send"}
InRun == Maintaining \cup {"startFetchChain", "started", "running"}

(* Where the caller is determines which of a.out and m.killer are set. *)
CallerInv ==
  /\ pc[Caller] \in InRun => out = starts /\ starts > 0
  /\ pc[Caller] \in {"running", "stopping", "stopLock", "stopped"} => mKiller > 0
  /\ pc[Caller] \in Maintaining \cup {"startFetchChain"} =>
       retryCount < maxRetryCount
  /\ pc[Caller] = "startLock" => starts < MaxStarts
  /\ out > 0 => killer > 0

(* Past the first rcSource.Fetch there is a chain, past orSource.Fetch there *)
(* is a response, and what is sent is a pair of both.                        *)
FetchInv ==
  /\ pc[Caller] \in Maintaining => rawChain \in Chains
  /\ \A d \in Runs : pc[d] # "off" => rawChain \in Chains
  /\ \A p \in Goroutines :
       /\ pc[p] = "fetchOCSP" => arg[p] \in Chains
       /\ pc[p] = "rlock" => ocspResp \in OCSPResponse
       /\ pc[p] = "send" => sendVal[p] \in AugmentedChain

TypeInv == TypeOK /\ CallerInv /\ FetchInv

(* outMu protects a.out: a sender uses the current channel, which is open.   *)
ChannelInv ==
  /\ \A p \in Goroutines : pc[p] = "send" => sendCh[p] = out
  /\ out <= starts
  /\ out > 0 => ~chan[out].closed
  /\ \A d \in Runs : d > starts => ~chan[d].closed

(* Until Start is called again, only one goroutine runs maintainOCSPResp, so *)
(* what it read of a.rawChain and a.ocspResp stays valid.                    *)
OneMaintainer ==
  /\ \A d \in Runs : d > starts => pc[d] = "off"
  /\ pc[Caller] \in Maintaining \cup {"startFetchChain"} =>
       \A d \in Runs : pc[d] = "off"

PairInv ==
  /\ OneMaintainer
  /\ \A p \in Goroutines :
       /\ pc[p] = "fetchOCSP" => arg[p] = rawChain
       /\ pc[p] = "rlock" => ocspResp.chain = rawChain
       /\ pc[p] = "send" => IsPair(sendVal[p])
  /\ PairsMatch

FirstRunInv == starts <= 1 => PairInv

(* A chain the handlers have, or are about to have, is in Cache by digest, or *)
(* on its way there, or its write has failed.                                 *)
Covered(ac) ==
  ac # NoAugmentedChain =>
    \/ stored[ac.rawChain] # NoResp
    \/ \E w \in writers : w.rawChain = ac.rawChain
    \/ ac.rawChain \in failed

CoverInv == Covered(data) /\ \A d \in Runs : mPc[d] = "set" => Covered(received[d])

-----------------------------------------------------------------------------
(* Type correctness. *)

LEMMA Goroutine ==
  /\ Caller \in Goroutines
  /\ Caller \notin Runs
  /\ Goroutines = {Caller} \cup Runs
  /\ \A n \in 0..MaxStarts : n > 0 => n \in Runs
  /\ Runs \subseteq 0..MaxStarts
  /\ Runs \subseteq Nat \ {0}
BY AugmentorAssumption DEF Goroutines, Runs, Caller

LEMMA Buffer ==
  ASSUME NEW b \in Buffers
  PROVE  /\ b # <<>> => Head(b) \in AugmentedChain /\ Tail(b) = <<>> /\ b = <<Head(b)>>
         /\ Len(b) < outCapacity => b = <<>>
         /\ \A ac \in AugmentedChain : <<ac>> \in Buffers
         /\ <<>> \in Buffers
<1>1. ASSUME NEW ac \in AugmentedChain, b = <<ac>>
      PROVE  Head(b) = ac /\ Tail(b) = <<>> /\ Len(b) = 1
  BY <1>1
<1>2. b # <<>> => \E ac \in AugmentedChain : b = <<ac>>
  BY DEF Buffers
<1> QED
  BY <1>1, <1>2 DEF Buffers, outCapacity

LEMMA TypeInit == Init => TypeInv
<1> SUFFICES ASSUME Init PROVE TypeInv
  OBVIOUS
<1> USE AugmentorAssumption, Goroutine DEF Init, AugInit
<1>1. PcOK
  BY DEF PcOK, CallerPc, DaemonPc
<1>2. ProducerOK
  BY DEF ProducerOK, maxRetryCount, MaybeResponse
<1>3. ChanOK
  BY DEF ChanOK, Buffers
<1>4. OperandsOK
  BY DEF OperandsOK, MaybeAugmented
<1>5. ManagerOK
  BY DEF ManagerOK, MaybeAugmented, ManagerPc
<1>6. CacheOK
  BY ZenonT(30) DEF CacheOK, MaybeAugmented, MaybeResponse
<1>7. CallerInv /\ FetchInv
  BY DEF CallerInv, FetchInv, InRun, Maintaining, maxRetryCount
<1> QED
  BY <1>1, <1>2, <1>3, <1>4, <1>5, <1>6, <1>7 DEF TypeInv, TypeOK

LEMMA TypeStep == TypeInv /\ [Next]_vars => TypeInv'
<1> SUFFICES ASSUME TypeInv, [Next]_vars PROVE TypeInv'
  OBVIOUS
<1> USE Goroutine DEF TypeInv, TypeOK, Goto, startVars, pairVars, chanVars,
        killVars, sendVars
<1>1. CASE StartLock /\ UNCHANGED <<mgrVars, cacheVars>>
  <2> USE <1>1 DEF StartLock
  <2>1. PcOK'
    BY DEF PcOK, CallerPc, DaemonPc
  <2>2. ProducerOK' /\ ChanOK' /\ OperandsOK' /\ ManagerOK' /\ CacheOK'
    BY DEF ProducerOK, ChanOK, OperandsOK, ManagerOK, CacheOK, mgrVars, cacheVars
  <2>3. CallerInv' /\ FetchInv'
    BY DEF CallerInv, FetchInv, PcOK, InRun, Maintaining, mgrVars
  <2> QED
    BY <2>1, <2>2, <2>3
<1>2. CASE StartMake /\ UNCHANGED <<mgrVars, cacheVars>>
  <2> USE <1>2 DEF StartMake
  <2>1. PcOK'
    BY DEF PcOK, CallerPc, DaemonPc
  <2>2. ProducerOK'
    BY AugmentorAssumption DEF ProducerOK, CallerInv, maxRetryCount
  <2>3. ChanOK' /\ OperandsOK' /\ ManagerOK' /\ CacheOK'
    BY DEF ChanOK, OperandsOK, ManagerOK, CacheOK, mgrVars, cacheVars
  <2>4. CallerInv' /\ FetchInv'
    BY DEF CallerInv, FetchInv, PcOK, ProducerOK, InRun, Maintaining,
           maxRetryCount, mgrVars
  <2> QED
    BY <2>1, <2>2, <2>3, <2>4
<1>3. CASE StartFetchChain /\ UNCHANGED <<mgrVars, cacheVars>>
  <2> USE <1>3 DEF StartFetchChain, CallFetchOCSP
  <2>1. PcOK'
    BY DEF PcOK, CallerPc, DaemonPc
  <2>2. ProducerOK' /\ OperandsOK'
    BY DEF ProducerOK, OperandsOK
  <2>3. ChanOK' /\ ManagerOK' /\ CacheOK'
    BY DEF ChanOK, ManagerOK, CacheOK, mgrVars, cacheVars
  <2>4. CallerInv'
    BY DEF CallerInv, PcOK, InRun, Maintaining, mgrVars
  <2>5. FetchInv'
    BY DEF FetchInv, PcOK, OperandsOK, InRun, Maintaining
  <2> QED
    BY <2>1, <2>2, <2>3, <2>4, <2>5
<1>4. CASE StartFetchChainErr /\ UNCHANGED <<mgrVars, cacheVars>>
  <2> USE <1>4 DEF StartFetchChainErr
  <2>1. PcOK'
    BY DEF PcOK, CallerPc, DaemonPc
  <2>2. ProducerOK' /\ ChanOK' /\ OperandsOK' /\ ManagerOK' /\ CacheOK'
    BY DEF ProducerOK, ChanOK, OperandsOK, ManagerOK, CacheOK, mgrVars, cacheVars
  <2>3. CallerInv' /\ FetchInv'
    BY DEF CallerInv, FetchInv, PcOK, InRun, Maintaining, mgrVars
  <2> QED
    BY <2>1, <2>2, <2>3
<1>5. CASE StartFetchOCSPErr /\ UNCHANGED <<mgrVars, cacheVars>>
  <2> USE <1>5 DEF StartFetchOCSPErr
  <2>1. PcOK'
    BY DEF PcOK, CallerPc, DaemonPc
  <2>2. ProducerOK'
    BY DEF ProducerOK, CallerInv, Maintaining, maxRetryCount
  <2>3. ChanOK' /\ OperandsOK' /\ ManagerOK' /\ CacheOK'
    BY DEF ChanOK, OperandsOK, ManagerOK, CacheOK, mgrVars, cacheVars
  <2>4. CallerInv' /\ FetchInv'
    BY DEF CallerInv, FetchInv, PcOK, ProducerOK, InRun, Maintaining,
           maxRetryCount, mgrVars
  <2> QED
    BY <2>1, <2>2, <2>3, <2>4
<1>6. CASE StartRetry /\ UNCHANGED <<mgrVars, cacheVars>>
  <2> USE <1>6 DEF StartRetry, CallFetchOCSP
  <2>1. PcOK'
    BY DEF PcOK, CallerPc, DaemonPc
  <2>2. OperandsOK'
    BY DEF ProducerOK, OperandsOK
  <2>3. ProducerOK' /\ ChanOK' /\ ManagerOK' /\ CacheOK'
    BY DEF ProducerOK, ChanOK, ManagerOK, CacheOK, mgrVars, cacheVars
  <2>4. CallerInv'
    BY DEF CallerInv, PcOK, InRun, Maintaining, mgrVars
  <2>5. FetchInv'
    BY DEF FetchInv, PcOK, OperandsOK, InRun, Maintaining
  <2> QED
    BY <2>1, <2>2, <2>3, <2>4, <2>5
<1>7. ASSUME NEW p \in Goroutines, FetchOCSP(p), UNCHANGED <<mgrVars, cacheVars>>
      PROVE  TypeInv'
  <2> USE <1>7 DEF FetchOCSP
  <2>1. PcOK'
    BY DEF PcOK, CallerPc, DaemonPc
  <2>2. ocspResp' \in OCSPResponse
    BY AugmentorAssumption, SMTT(30) DEF ProducerOK, FetchInv, OCSPResponse
  <2>3. ProducerOK'
    BY <2>2, AugmentorAssumption DEF ProducerOK, MaybeResponse
  <2>4. ChanOK' /\ OperandsOK' /\ ManagerOK' /\ CacheOK'
    BY DEF ChanOK, OperandsOK, ManagerOK, CacheOK, mgrVars, cacheVars
  <2>5. CallerInv'
    BY DEF CallerInv, PcOK, InRun, Maintaining, mgrVars
  <2>6. FetchInv'
    BY <2>2 DEF FetchInv, PcOK, InRun, Maintaining
  <2> QED
    BY <2>1, <2>3, <2>4, <2>5, <2>6
<1>8. ASSUME NEW p \in Goroutines, RLock(p), UNCHANGED <<mgrVars, cacheVars>>
      PROVE  TypeInv'
  <2> USE <1>8 DEF RLock
  <2>1. PcOK'
    BY DEF PcOK, CallerPc, DaemonPc
  <2>2. rawChain \in Chains
    BY ZenonT(30) DEF FetchInv, Maintaining
  <2>3. [rawChain |-> rawChain, ocspResp |-> ocspResp] \in AugmentedChain
    BY <2>2 DEF FetchInv, AugmentedChain
  <2>4. OperandsOK'
    BY <2>3 DEF OperandsOK, ProducerOK, MaybeAugmented
  <2>5. ProducerOK' /\ ChanOK' /\ ManagerOK' /\ CacheOK'
    BY DEF ProducerOK, ChanOK, ManagerOK, CacheOK, mgrVars, cacheVars
  <2>6. CallerInv'
    BY DEF CallerInv, PcOK, InRun, Maintaining, mgrVars
  <2>7. FetchInv'
    BY <2>2, <2>3 DEF FetchInv, PcOK, OperandsOK, InRun, Maintaining
  <2> QED
    BY <2>1, <2>4, <2>5, <2>6, <2>7
<1>9. ASSUME NEW p \in Goroutines, Send(p), UNCHANGED <<mgrVars, cacheVars>>
      PROVE  TypeInv'
  <2> USE <1>9 DEF Send
  <2>1. p = Caller => starts \in Runs
    BY DEF CallerInv, ProducerOK, InRun, Maintaining
  <2>2. PcOK'
    BY <2>1 DEF PcOK, CallerPc, DaemonPc
  <2>3. ChanOK'
    <3>1. sendCh[p] \in Runs /\ sendVal[p] \in AugmentedChain
      BY SMTT(30) DEF OperandsOK, FetchInv
    <3>2. chan[sendCh[p]].buf = <<>>
      BY <3>1, SMTT(30) DEF ChanOK, Buffers, outCapacity
    <3>3. Append(chan[sendCh[p]].buf, sendVal[p]) \in Buffers
      BY <3>1, <3>2 DEF Buffers
    <3> QED
      BY <3>1, <3>3, ZenonT(30) DEF ChanOK
  <2>4. ProducerOK' /\ OperandsOK' /\ ManagerOK' /\ CacheOK'
    BY ZenonT(30) DEF ProducerOK, OperandsOK, ManagerOK, CacheOK, mgrVars, cacheVars
  <2>5. CallerInv'
    BY <2>1 DEF CallerInv, PcOK, InRun, Maintaining, mgrVars
  <2>6. FetchInv'
    BY <2>1 DEF FetchInv, PcOK, InRun, Maintaining
  <2> QED
    BY <2>2, <2>3, <2>4, <2>5, <2>6
<1>10. ASSUME NEW d \in Runs, Daemon(d), UNCHANGED <<mgrVars, cacheVars>>
       PROVE  TypeInv'
  <2> USE <1>10
  <2>1. ChanOK' /\ ManagerOK' /\ CacheOK'
    BY DEF Daemon, EnterSelect, ChainEventFires, ChainUpdated, ChainNotUpdated,
           OCSPEventFires, FetchOCSPErr, DaemonKilled, ChanOK, ManagerOK,
           CacheOK, mgrVars, cacheVars
  <2>2. CASE EnterSelect(d)
    BY <2>1, <2>2 DEF EnterSelect, PcOK, DaemonPc, ProducerOK, OperandsOK,
           CallerInv, FetchInv, mgrVars
  <2>3. CASE ChainEventFires(d) \/ ChainNotUpdated(d) \/ FetchOCSPErr(d) \/ DaemonKilled(d)
    BY <2>1, <2>3, ZenonT(60) DEF ChainEventFires, ChainNotUpdated, FetchOCSPErr,
           DaemonKilled, PcOK, DaemonPc, ProducerOK, OperandsOK, CallerInv,
           FetchInv, mgrVars
  <2>4. CASE ChainUpdated(d)
    <3>1. PICK c \in Chains : rawChain' = c /\ arg' = [arg EXCEPT ![d] = c]
      BY <2>4, ZenonT(30) DEF ChainUpdated, CallFetchOCSP
    <3>2. PcOK'
      BY <2>4 DEF ChainUpdated, CallFetchOCSP, PcOK, DaemonPc
    <3>3. ProducerOK' /\ OperandsOK'
      BY <2>4, <3>1 DEF ChainUpdated, ProducerOK, OperandsOK
    <3>4. CallerInv'
      BY <2>4 DEF ChainUpdated, CallFetchOCSP, PcOK, CallerInv, mgrVars
    <3>5. FetchInv'
      BY <2>4, <3>1 DEF ChainUpdated, CallFetchOCSP, PcOK, OperandsOK, FetchInv
    <3> QED
      BY <2>1, <3>2, <3>3, <3>4, <3>5
  <2>5. CASE OCSPEventFires(d)
    BY <2>1, <2>5 DEF OCSPEventFires, CallFetchOCSP, PcOK, DaemonPc, ProducerOK,
           OperandsOK, CallerInv, FetchInv, mgrVars
  <2> QED
    BY <2>2, <2>3, <2>4, <2>5 DEF Daemon
<1>11. CASE StopLock /\ UNCHANGED <<mgrVars, cacheVars>>
  <2> USE <1>11 DEF StopLock
  <2>1. PcOK'
    BY DEF PcOK, CallerPc, DaemonPc
  <2>2. ProducerOK' /\ ChanOK' /\ OperandsOK' /\ ManagerOK' /\ CacheOK'
    BY DEF ProducerOK, ChanOK, OperandsOK, ManagerOK, CacheOK, mgrVars, cacheVars
  <2>3. CallerInv' /\ FetchInv'
    BY DEF CallerInv, FetchInv, PcOK, InRun, Maintaining, mgrVars
  <2> QED
    BY <2>1, <2>2, <2>3
<1>12. CASE StopClose /\ UNCHANGED <<mgrVars, cacheVars>>
  <2> USE <1>12 DEF StopClose
  <2>1. PcOK'
    BY DEF PcOK, CallerPc, DaemonPc
  <2>2. out # 0 => out \in Runs /\ killer \in Runs
    BY DEF ProducerOK, CallerInv
  <2>6. ProducerOK'
    BY <2>2, AugmentorAssumption DEF ProducerOK
  <2>5. ChanOK'
    <3>1. CASE out = 0
      BY <3>1 DEF ChanOK
    <3>2. CASE out # 0
      BY <2>2, <3>2, ZenonT(60) DEF ChanOK
    <3> QED
      BY <3>1, <3>2
  <2>3. OperandsOK' /\ ManagerOK' /\ CacheOK'
    BY DEF OperandsOK, ManagerOK, CacheOK, mgrVars, cacheVars
  <2>4. CallerInv' /\ FetchInv'
    BY DEF CallerInv, FetchInv, PcOK, InRun, Maintaining, mgrVars
  <2> QED
    BY <2>1, <2>3, <2>4, <2>5, <2>6
<1>13. CASE StartReceive
  <2> USE <1>13 DEF StartReceive
  <2>1. out \in Runs /\ starts \in Runs
    BY DEF CallerInv, ProducerOK, InRun
  <2>2. Head(chan[out].buf) \in AugmentedChain /\ Tail(chan[out].buf) = <<>>
    <3>1. chan[out].buf \in Buffers
      BY <2>1 DEF ChanOK
    <3> QED
      BY <3>1, Buffer
  <2>3. PcOK'
    BY DEF PcOK, CallerPc, DaemonPc
  <2>4. ChanOK'
    BY <2>1, <2>2, ZenonT(30) DEF ChanOK, Buffers
  <2>5. ManagerOK' /\ CacheOK'
    BY <2>1, <2>2 DEF ManagerOK, CacheOK, ManagerPc, MaybeAugmented
  <2>6. ProducerOK' /\ OperandsOK'
    BY DEF ProducerOK, OperandsOK
  <2>7. CallerInv' /\ FetchInv'
    BY <2>1 DEF CallerInv, FetchInv, PcOK, ProducerOK, InRun, Maintaining
  <2> QED
    BY <2>3, <2>4, <2>5, <2>6, <2>7
<1>14. CASE StopKill
  <2> USE <1>14 DEF StopKill
  <2>1. PcOK'
    BY DEF PcOK, CallerPc, DaemonPc
  <2>2. ManagerOK'
    BY DEF ManagerOK, CallerInv
  <2>3. ProducerOK' /\ ChanOK' /\ OperandsOK' /\ CacheOK'
    BY DEF ProducerOK, ChanOK, OperandsOK, CacheOK, cacheVars
  <2>4. CallerInv' /\ FetchInv'
    BY DEF CallerInv, FetchInv, PcOK, InRun, Maintaining
  <2> QED
    BY <2>1, <2>2, <2>3, <2>4
<1>15. ASSUME NEW d \in Runs, MDaemon(d)
       PROVE  TypeInv'
  <2> USE <1>15
  <2>1. /\ PcOK' /\ ProducerOK' /\ OperandsOK'
        /\ CallerInv' /\ FetchInv'
    BY ZenonT(30) DEF MDaemon, MEnterSelect, MReceive, MReceiveClosed, MSetData, MKilled,
           PcOK, ProducerOK, OperandsOK, CallerInv, FetchInv, augVars
  <2>2. CASE MEnterSelect(d) \/ MSetData(d) \/ MKilled(d)
    <3>1. ChanOK' /\ CacheOK'
      BY <2>2 DEF MEnterSelect, MSetData, MKilled, ChanOK, CacheOK, augVars, cacheVars
    <3>2. CASE MEnterSelect(d)
      BY <2>1, <3>1, <3>2 DEF MEnterSelect, ProducerOK, ManagerOK, ManagerPc
    <3>3. CASE MSetData(d)
      BY <2>1, <3>1, <3>3 DEF MSetData, ManagerOK, ManagerPc
    <3>4. CASE MKilled(d)
      BY <2>1, <3>1, <3>4 DEF MKilled, ManagerOK, ManagerPc
    <3> QED
      BY <2>2, <3>2, <3>3, <3>4
  <2>3. CASE MReceive(d)
    <3> USE <2>3 DEF MReceive
    <3>1. selCh[d] \in Runs
      BY DEF ManagerOK
    <3>2. /\ Head(chan[selCh[d]].buf) \in AugmentedChain
          /\ Tail(chan[selCh[d]].buf) = <<>>
      <4>1. chan[selCh[d]].buf \in Buffers
        BY <3>1 DEF ChanOK
      <4> QED
        BY <4>1, Buffer
    <3>3. ChanOK'
      BY <3>1, <3>2, ZenonT(30) DEF ChanOK, Buffers
    <3>4. ManagerOK' /\ CacheOK'
      BY <3>2 DEF ManagerOK, CacheOK, ManagerPc, MaybeAugmented
    <3> QED
      BY <2>1, <3>3, <3>4
  <2>4. CASE MReceiveClosed(d)
    BY <2>1, <2>4, SMTT(30) DEF MReceiveClosed, ChanOK, ManagerOK, CacheOK, ManagerPc,
           MaybeAugmented, augVars
  <2> QED
    BY <2>2, <2>3, <2>4 DEF MDaemon
<1>16. CASE OnReceive
  <2> USE <1>16
  <2>1. /\ PcOK' /\ ProducerOK' /\ ChanOK' /\ OperandsOK' /\ ManagerOK'
        /\ CallerInv' /\ FetchInv'
    BY ZenonT(60) DEF OnReceive, CacheWrite, CacheWriteErr, CacheWriteNil, PcOK, ProducerOK,
           ChanOK, OperandsOK, ManagerOK, CallerInv, FetchInv, augVars, mgrVars
  <2>2. CacheOK'
    BY ZenonT(30) DEF OnReceive, CacheWrite, CacheWriteErr, CacheWriteNil, CacheOK,
           MaybeAugmented, MaybeResponse, AugmentedChain
  <2> QED
    BY <2>1, <2>2
<1>17. CASE UNCHANGED vars
  BY <1>17, SMTT(30) DEF vars, augVars, mgrVars, cacheVars, PcOK, ProducerOK, ChanOK,
     OperandsOK, ManagerOK, CacheOK, CallerInv, FetchInv
<1> QED
  BY <1>1, <1>2, <1>3, <1>4, <1>5, <1>6, <1>7, <1>8, <1>9, <1>10, <1>11, <1>12,
     <1>13, <1>14, <1>15, <1>16, <1>17
     DEF Next, Producer, AugNext

\* Every variable keeps its type: no goroutine ever sends a nil chain or a
\* chain without OCSP response, and the channel never exceeds its capacity.
THEOREM TypeCorrect == Spec => []TypeOK
<1>1. TypeInv => TypeOK
  BY DEF TypeInv
<1> QED
  BY <1>1, TypeInit, TypeStep, PTL DEF Spec

-----------------------------------------------------------------------------
(* outMu and the closing of the channel. *)

LEMMA ChannelInit == Init => ChannelInv
BY Goroutine DEF Init, AugInit, ChannelInv

LEMMA ChannelStep == TypeInv /\ ChannelInv /\ [Next]_vars => ChannelInv'
<1> SUFFICES ASSUME TypeInv, ChannelInv, [Next]_vars PROVE ChannelInv'
  OBVIOUS
<1> USE Goroutine DEF TypeInv, TypeOK, PcOK, ChannelInv, Goto, startVars, pairVars,
        chanVars, killVars, sendVars
<1>1. ASSUME \/ StartLock \/ StartFetchChain \/ StartFetchChainErr
             \/ StartFetchOCSPErr \/ StartRetry \/ StopLock \/ StopKill
      PROVE  ChannelInv'
  BY <1>1, SMTT(30) DEF StartLock, StartFetchChain, StartFetchChainErr, StartFetchOCSPErr,
       StartRetry, StopLock, StopKill, CallFetchOCSP
<1>2. CASE StartMake
  <2>1. \A p \in Goroutines : pc'[p] # "send"
    BY <1>2 DEF StartMake, Readers
  <2>2. starts + 1 \in Runs /\ starts \in Nat
    <3>1. starts \in 0..MaxStarts /\ starts < MaxStarts
      BY <1>2 DEF StartMake, ProducerOK, CallerInv
    <3> QED
      BY ONLY <3>1, AugmentorAssumption DEF Runs
  <2>3. ~chan'[out'].closed
    BY <1>2, <2>2 DEF StartMake
  <2>4. \A d \in Runs : d > starts' => d > starts
    BY <1>2, <2>2 DEF StartMake
  <2> QED
    BY <1>2, <2>1, <2>2, <2>3, <2>4, SMTT(30) DEF StartMake
<1>3. ASSUME NEW p \in Goroutines, FetchOCSP(p)
      PROVE  ChannelInv'
  BY <1>3 DEF FetchOCSP
<1>4. ASSUME NEW p \in Goroutines, RLock(p)
      PROVE  ChannelInv'
  BY <1>4 DEF RLock, OperandsOK
<1>5. ASSUME NEW p \in Goroutines, Send(p)
      PROVE  ChannelInv'
  <2>1. \A d \in Runs : chan'[d].closed = chan[d].closed
    BY <1>5 DEF Send, ChanOK, OperandsOK
  <2>2. \A q \in Goroutines : pc'[q] = "send" => pc[q] = "send"
    BY <1>5 DEF Send
  <2> QED
    BY <1>5, <2>1, <2>2 DEF Send, ProducerOK
<1>6. ASSUME NEW d \in Runs, Daemon(d)
      PROVE  ChannelInv'
  BY <1>6, SMTT(30) DEF Daemon, EnterSelect, ChainEventFires, ChainUpdated, ChainNotUpdated,
       OCSPEventFires, FetchOCSPErr, DaemonKilled, CallFetchOCSP
<1>7. CASE StopClose
  <2>1. \A p \in Goroutines : pc'[p] # "send"
    BY <1>7 DEF StopClose, Readers
  <2>2. \A d \in Runs : d > starts => chan'[d].closed = chan[d].closed
    BY <1>7 DEF StopClose, ProducerOK, ChanOK
  <2> QED
    BY <1>7, <2>1, <2>2 DEF StopClose, ProducerOK
<1>8. CASE StartReceive
  <2>1. \A d \in Runs : chan'[d].closed = chan[d].closed
    BY <1>8 DEF StartReceive, ChanOK, CallerInv, InRun, ProducerOK
  <2> QED
    BY <1>8, <2>1 DEF StartReceive, ProducerOK
<1>9. ASSUME NEW d \in Runs, MDaemon(d)
      PROVE  ChannelInv'
  <2>1. \A r \in Runs : chan'[r].closed = chan[r].closed
    <3>1. CASE MReceive(d)
      BY <3>1 DEF MReceive, ChanOK, ManagerOK
    <3>2. CASE ~MReceive(d)
      BY <1>9, <3>2, SMTT(30) DEF MDaemon, MEnterSelect, MReceiveClosed, MSetData, MKilled, augVars
    <3> QED
      BY <3>1, <3>2
  <2> QED
    BY <1>9, <2>1 DEF MDaemon, MEnterSelect, MReceive, MReceiveClosed, MSetData,
         MKilled, ProducerOK, augVars
<1>10. CASE OnReceive \/ UNCHANGED vars
  BY <1>10, SMTT(30) DEF OnReceive, CacheWrite, CacheWriteErr, CacheWriteNil, vars, augVars
<1> QED
  BY <1>1, <1>2, <1>3, <1>4, <1>5, <1>6, <1>7, <1>8, <1>9, <1>10, SMTT(30)
     DEF Next, Producer, AugNext

\* No send statement of any run is ever executed on a closed channel, whatever
\* daemons earlier runs left behind: outMu orders Stop after every sender.
THEOREM ChannelSafety == Spec => []NoSendOnClosedChannel
<1>1. TypeInv /\ ChannelInv => NoSendOnClosedChannel
  BY Goroutine DEF TypeInv, TypeOK, ProducerOK, ChannelInv, NoSendOnClosedChannel
<1> QED
  BY <1>1, TypeInit, TypeStep, ChannelInit, ChannelStep, PTL DEF Spec

-----------------------------------------------------------------------------
(* Every held chain is cached, about to be, or its write has failed. *)

LEMMA CoverInit == Init => CoverInv
<1> SUFFICES ASSUME Init PROVE CoverInv
  OBVIOUS
<1>1. data = NoAugmentedChain /\ \A d \in Runs : received[d] = NoAugmentedChain
  BY Zenon DEF Init
<1> QED
  BY ONLY <1>1, Zenon DEF CoverInv, Covered

LEMMA CoverStep == TypeInv /\ CoverInv /\ [Next]_vars => CoverInv'
<1> SUFFICES ASSUME TypeInv, CoverInv, [Next]_vars PROVE CoverInv'
  OBVIOUS
<1> USE Goroutine DEF TypeInv, TypeOK
<1>1. CASE UNCHANGED <<mgrVars, cacheVars>>
  BY <1>1, ZenonT(30) DEF CoverInv, Covered, mgrVars, cacheVars
<1>2. CASE StartReceive
  <2>1. \A ac : Covered(ac) => Covered(ac)'
    BY <1>2 DEF StartReceive, Covered
  <2>2. Covered(data)'
    BY <1>2 DEF StartReceive, Covered
  <2>3. \A d \in Runs : mPc'[d] = "set" => mPc[d] = "set" /\ received'[d] = received[d]
    BY <1>2 DEF StartReceive, ManagerOK
  <2> QED
    BY <2>1, <2>2, <2>3 DEF CoverInv, Covered
<1>3. CASE StopKill
  BY <1>3 DEF StopKill, CoverInv, Covered, cacheVars
<1>4. ASSUME NEW d \in Runs, MEnterSelect(d) \/ MSetData(d) \/ MKilled(d)
      PROVE  CoverInv'
  <2>1. UNCHANGED cacheVars
    BY <1>4 DEF MEnterSelect, MSetData, MKilled
  <2>2. \A r \in Runs : mPc'[r] = "set" => mPc[r] = "set" /\ received'[r] = received[r]
    BY <1>4 DEF MEnterSelect, MSetData, MKilled, ManagerOK
  <2>3. data' = data \/ (data' = received[d] /\ mPc[d] = "set")
    BY <1>4 DEF MEnterSelect, MSetData, MKilled
  <2> QED
    BY <2>1, <2>2, <2>3, ZenonT(30) DEF CoverInv, Covered, cacheVars
<1>5. ASSUME NEW d \in Runs, MReceive(d) \/ MReceiveClosed(d)
      PROVE  CoverInv'
  <2>1. /\ data' = data /\ stored' = stored /\ failed' = failed
        /\ writers \subseteq writers'
    BY <1>5 DEF MReceive, MReceiveClosed
  <2>2. received'[d] \in writers'
    BY <1>5 DEF MReceive, MReceiveClosed, ManagerOK
  <2>3. \A r \in Runs \ {d} : mPc'[r] = mPc[r] /\ received'[r] = received[r]
    BY <1>5 DEF MReceive, MReceiveClosed, ManagerOK
  <2> QED
    BY <2>1, <2>2, <2>3 DEF CoverInv, Covered
<1>6. ASSUME NEW ac \in writers, CacheWrite(ac)
      PROVE  CoverInv'
  <2>1. ac \in AugmentedChain /\ ac.rawChain \in Chains /\ ac.ocspResp # NoResp
    BY <1>6, AugmentorAssumption, SMTT(30)
       DEF CacheWrite, CacheOK, MaybeAugmented, AugmentedChain, OCSPResponse, NoResp
  <2>2. /\ \A c \in Chains : stored[c] # NoResp => stored'[c] # NoResp
        /\ stored'[ac.rawChain] # NoResp
        /\ writers' = writers \ {ac}
    BY <1>6, <2>1 DEF CacheWrite, CacheOK
  <2>3. \A x \in MaybeAugmented : Covered(x) => Covered(x)'
    BY <1>6, <2>1, <2>2 DEF CacheWrite, Covered, MaybeAugmented, AugmentedChain
  <2> QED
    BY <1>6, <2>3 DEF CacheWrite, CoverInv, Covered, ManagerOK, mgrVars
<1>7. ASSUME NEW ac \in writers, CacheWriteErr(ac)
      PROVE  CoverInv'
  <2>1. \A x : Covered(x) => Covered(x)'
    BY ONLY <1>7 DEF CacheWriteErr, Covered
  <2> QED
    BY ONLY CoverInv, <1>7, <2>1 DEF CacheWriteErr, CoverInv, mgrVars
<1>8. CASE CacheWriteNil \/ UNCHANGED vars
  BY <1>8, SMTT(30) DEF CacheWriteNil, vars, CoverInv, Covered, mgrVars, cacheVars
<1> QED
  BY <1>1, <1>2, <1>3, <1>4, <1>5, <1>6, <1>7, <1>8
     DEF Next, Producer, MDaemon, OnReceive

\* The certificate behind a signed exchange can always be served from Cache,
\* or is being written to it, unless a write of that certificate has failed.
THEOREM CacheCoverage == Spec => []HeldIsCachedOrBeingWritten
<1>1. CoverInv => HeldIsCachedOrBeingWritten
  BY DEF CoverInv, Covered, HeldIsCachedOrBeingWritten
<1> QED
  BY <1>1, TypeInit, TypeStep, CoverInit, CoverStep, PTL DEF Spec

-----------------------------------------------------------------------------
(* Chain and OCSP response belong together. *)

LEMMA PairInit == Init => FirstRunInv
<1> SUFFICES ASSUME Init PROVE PairInv
  BY DEF FirstRunInv
<1>1. \A p \in Goroutines : pc[p] \in {"idle", "off"}
  BY DEF Init, AugInit
<1>2. pc[Caller] = "idle" /\ \A d \in Runs : pc[d] = "off"
  BY Goroutine DEF Init, AugInit
<1>3. IsPair(NoAugmentedChain)
  BY DEF IsPair, NoAugmentedChain, NoResp
<1>4. PairsMatch
  BY <1>3 DEF Init, AugInit, PairsMatch
<1> QED
  BY <1>1, <1>2, <1>4 DEF PairInv, OneMaintainer, Maintaining

LEMMA StartsGrow ==
  ASSUME TypeInv, [Next]_vars
  PROVE  starts \in Nat /\ (starts' = starts \/ starts' = starts + 1)
<1>1. starts \in Nat
  BY AugmentorAssumption DEF TypeInv, TypeOK, ProducerOK
<1>2. AugNext => starts' = starts \/ starts' = starts + 1
  BY ZenonT(30) DEF AugNext, StartLock, StartMake, StartFetchChain, StartFetchChainErr,
     StartFetchOCSPErr, StartRetry, FetchOCSP, RLock, Send, Daemon, EnterSelect,
     ChainEventFires, ChainUpdated, ChainNotUpdated, OCSPEventFires, FetchOCSPErr,
     DaemonKilled, StopLock, StopClose, startVars
<1>3. StartReceive \/ StopKill \/ OnReceive \/ UNCHANGED vars => starts' = starts
  BY DEF StartReceive, StopKill, OnReceive, CacheWrite, CacheWriteErr, CacheWriteNil,
     vars, augVars, startVars
<1>4. \A d \in Runs : MDaemon(d) => starts' = starts
  BY DEF MDaemon, MEnterSelect, MReceive, MReceiveClosed, MSetData, MKilled, augVars,
     startVars
<1> QED
  BY <1>1, <1>2, <1>3, <1>4 DEF Next, Producer

LEMMA PairStep == TypeInv /\ FirstRunInv /\ [Next]_vars => FirstRunInv'
<1> SUFFICES ASSUME TypeInv, FirstRunInv, [Next]_vars, starts' <= 1 PROVE PairInv'
  BY DEF FirstRunInv
<1> USE Goroutine DEF TypeInv, TypeOK, PcOK, ProducerOK, Goto, startVars, pairVars,
        chanVars, killVars, sendVars, PairInv, OneMaintainer, Maintaining
<1>0. PairInv /\ starts \in {0, 1}
  <2>1. starts \in {0, 1}
    BY ONLY StartsGrow, TypeInv, [Next]_vars, starts' <= 1
  <2>2. starts <= 1
    BY ONLY <2>1
  <2> QED
    BY ONLY <2>1, <2>2, FirstRunInv DEF FirstRunInv
<1> DEFINE Quiet == UNCHANGED <<mgrVars, cacheVars>>
<1>a. Quiet /\ UNCHANGED chan => PairsMatch'
  BY <1>0, SMTT(30) DEF PairsMatch, IsPair, mgrVars, cacheVars
<1>1. CASE StartLock /\ Quiet
  BY <1>0, <1>1, <1>a, SMTT(30) DEF StartLock
<1>2. CASE StartMake /\ Quiet
  <2>1. starts = 0 /\ starts' = 1
    <3>1. starts' = starts + 1
      BY ONLY <1>2 DEF StartMake
    <3> QED
      BY ONLY <1>0, <3>1, starts' <= 1
  <2>2. \A d \in Runs : d > starts
    BY <2>1
  <2>3. \A d \in Runs : pc[d] = "off" /\ pc'[d] = "off"
    BY ONLY Goroutine, TypeInv, <1>0, <1>2, <2>2
       DEF StartMake, Goto, PairInv, OneMaintainer, TypeInv, TypeOK, PcOK
  <2>4. \A p \in Goroutines : pc'[p] \notin {"fetchOCSP", "rlock", "send"}
    BY <1>2, <2>3, ZenonT(30) DEF StartMake
  <2>5. PairsMatch'
    BY <1>2, <1>a DEF StartMake
  <2> QED
    BY <2>3, <2>4, <2>5, ZenonT(30)
<1>3. CASE StartFetchChain /\ Quiet
  BY <1>0, <1>3, <1>a, ZenonT(30) DEF StartFetchChain, CallFetchOCSP, OperandsOK
<1>4. CASE StartFetchChainErr /\ Quiet
  BY <1>0, <1>4, <1>a, SMTT(30) DEF StartFetchChainErr
<1>5. CASE StartFetchOCSPErr /\ Quiet
  BY <1>0, <1>5, <1>a, SMTT(30) DEF StartFetchOCSPErr
<1>6. CASE StartRetry /\ Quiet
  BY <1>0, <1>6, <1>a, SMTT(30) DEF StartRetry, CallFetchOCSP, OperandsOK
<1>7. ASSUME NEW p \in Goroutines, FetchOCSP(p), Quiet
      PROVE  PairInv'
  BY <1>0, <1>7, <1>a, SMTT(30) DEF FetchOCSP
<1>8. ASSUME NEW p \in Goroutines, RLock(p), Quiet
      PROVE  PairInv'
  BY <1>0, <1>8, <1>a, SMTT(30) DEF RLock, OperandsOK, IsPair
<1>9. ASSUME NEW p \in Goroutines, Send(p), Quiet
      PROVE  PairInv'
  <2>1. sendCh[p] \in Runs /\ chan[sendCh[p]].buf = <<>>
    BY <1>9, Buffer DEF Send, OperandsOK, ChanOK
  <2>2. \A d \in Runs : chan'[d].buf # <<>> =>
          Head(chan'[d].buf) \in {Head(chan[d].buf), sendVal[p]}
          /\ (chan[d].buf = <<>> => Head(chan'[d].buf) = sendVal[p])
    BY <1>9, <2>1 DEF Send, ChanOK
  <2>3. PairsMatch'
    BY ONLY <1>0, <1>9, <2>2 DEF PairInv, PairsMatch, Send, IsPair, mgrVars, cacheVars
  <2>4. p = Caller => starts \in Runs
    BY <1>9 DEF Send, CallerInv, InRun
  <2> QED
    BY <1>0, <1>9, <2>3, <2>4 DEF Send
<1>10. ASSUME NEW d \in Runs, Daemon(d), Quiet
       PROVE  PairInv'
  <2>1. pc[d] # "off" /\ PairsMatch'
    BY <1>10, <1>a, SMTT(30)
       DEF Daemon, EnterSelect, ChainEventFires, ChainUpdated, ChainNotUpdated,
           OCSPEventFires, FetchOCSPErr, DaemonKilled, mgrVars, cacheVars
  <2>2. d = starts /\ starts = 1
    <3>1. d \in Nat /\ d > 0
      BY ONLY d \in Runs, AugmentorAssumption DEF Runs
    <3>2. ~(d > starts)
      BY ONLY d \in Runs, <1>0, <2>1 DEF PairInv, OneMaintainer
    <3> QED
      BY ONLY <1>0, <3>1, <3>2
  <2>3. \A q \in Goroutines \ {d} : pc[q] \notin {"fetchOCSP", "rlock", "send"}
    <3>1. pc[Caller] \notin {"fetchOCSP", "rlock", "send"}
      BY <1>0, <2>1, SMTT(30)
    <3>2. \A q \in Runs \ {d} : q > starts
      BY ONLY <2>2, AugmentorAssumption DEF Runs
    <3> QED
      BY <1>0, <3>1, <3>2, ZenonT(30)
  <2>4. CASE EnterSelect(d) \/ ChainEventFires(d) \/ ChainNotUpdated(d)
             \/ FetchOCSPErr(d) \/ DaemonKilled(d)
    BY <1>0, <2>1, <2>2, <2>4, ZenonT(60)
       DEF EnterSelect, ChainEventFires, ChainNotUpdated, FetchOCSPErr, DaemonKilled
  <2>5. CASE ChainUpdated(d) \/ OCSPEventFires(d)
    <3>1. /\ pc' = [pc EXCEPT ![d] = "fetchOCSP"] /\ arg' = [arg EXCEPT ![d] = rawChain']
          /\ starts' = starts
      BY <2>5, SMTT(30) DEF ChainUpdated, OCSPEventFires, CallFetchOCSP
    <3>2. /\ \A q \in Goroutines : pc'[q] = IF q = d THEN "fetchOCSP" ELSE pc[q]
          /\ arg'[d] = rawChain' /\ d # Caller
      BY <3>1 DEF OperandsOK
    <3>3. OneMaintainer'
      BY ONLY Goroutine, d \in Runs, SMTT(30),
              <1>0, <2>1, <2>2, <3>1, <3>2 DEF PairInv, OneMaintainer, Goroutines
    <3>4. \A q \in Goroutines :
            /\ pc'[q] = "fetchOCSP" => arg'[q] = rawChain'
            /\ pc'[q] \notin {"rlock", "send"}
      BY ONLY <2>3, <3>2
    <3> QED
      BY ONLY <2>1, <3>3, <3>4, SMTT(30) DEF PairInv
  <2> QED
    BY <1>10, <2>4, <2>5, SMTT(30) DEF Daemon
<1>11. CASE (StopLock \/ StopClose) /\ Quiet
  <2>1. \A d \in Runs : chan'[d].buf = chan[d].buf
    BY <1>11 DEF StopLock, StopClose, ChanOK
  <2>2. PairsMatch'
    BY ONLY <1>0, <1>11, <2>1 DEF PairInv, PairsMatch, IsPair, mgrVars, cacheVars
  <2> QED
    BY <1>0, <1>11, <2>2 DEF StopLock, StopClose
<1>12. CASE StartReceive
  <2>1. out \in Runs
    BY <1>12 DEF StartReceive, CallerInv, InRun
  <2>2. \A d \in Runs : chan'[d].buf \in {<<>>, chan[d].buf}
    BY <1>12, <2>1, Buffer DEF StartReceive, ChanOK
  <2>3. PairsMatch'
    BY <1>0, <1>12, <2>1, <2>2, ZenonT(30) DEF PairsMatch, StartReceive, IsPair
  <2> QED
    BY <1>0, <1>12, <2>3 DEF StartReceive
<1>13. CASE StopKill
  <2>1. PairsMatch'
    BY <1>0, <1>13, ZenonT(30) DEF StopKill, PairsMatch, IsPair, cacheVars
  <2> QED
    BY <1>0, <1>13, <2>1, ZenonT(30) DEF StopKill
<1>14. ASSUME NEW d \in Runs, MDaemon(d)
       PROVE  PairInv'
  <2>1. UNCHANGED <<pc, startVars, pairVars, arg, sendVars>>
    BY <1>14 DEF MDaemon, MEnterSelect, MReceive, MReceiveClosed, MSetData, MKilled,
         augVars
  <2>2. PairsMatch'
    <3>1. CASE MReceive(d)
      <4>1. selCh[d] \in Runs
        BY <3>1 DEF MReceive, ManagerOK
      <4>2. \A r \in Runs : chan'[r].buf \in {<<>>, chan[r].buf}
        <5>1. /\ chan' = [chan EXCEPT ![selCh[d]].buf = Tail(@)]
              /\ chan[selCh[d]].buf # <<>>
          BY ONLY <3>1 DEF MReceive
        <5>2. ChanOK
          OBVIOUS
        <5>3. Tail(chan[selCh[d]].buf) = <<>>
          BY ONLY <4>1, <5>1, <5>2, Buffer DEF ChanOK
        <5> QED
          BY ONLY <4>1, <5>1, <5>2, <5>3 DEF ChanOK
      <4>3. \A r \in Runs : received'[r] \in {received[r], Head(chan[selCh[d]].buf)}
        BY <3>1 DEF MReceive, ManagerOK
      <4>4. IsPair(Head(chan[selCh[d]].buf))
        BY <1>0, <3>1, <4>1 DEF MReceive, PairsMatch
      <4>5. \A r \in Runs : chan'[r].buf # <<>> => IsPair(Head(chan'[r].buf))
        BY ONLY <1>0, <4>2 DEF PairInv, PairsMatch
      <4>6. \A r \in Runs : IsPair(received'[r])
        BY ONLY <1>0, <4>3, <4>4 DEF PairInv, PairsMatch
      <4> QED
        BY <1>0, <3>1, <4>4, <4>5, <4>6, ZenonT(30) DEF MReceive, PairsMatch, IsPair
    <3>2. CASE MReceiveClosed(d)
      <4>1. \A r \in Runs : received'[r] \in {received[r], NoAugmentedChain}
        BY ONLY TypeInv, <3>2 DEF TypeInv, TypeOK, MReceiveClosed, ManagerOK
      <4>2. IsPair(NoAugmentedChain)
        BY ONLY TRUE DEF IsPair, NoAugmentedChain, NoResp
      <4>3. \A r \in Runs : IsPair(received'[r])
        BY <1>0, <4>1, <4>2, ZenonT(30) DEF PairsMatch
      <4>4. UNCHANGED <<chan, data, stored, latest>>
            /\ writers' = writers \cup {NoAugmentedChain}
        BY ONLY <3>2 DEF MReceiveClosed, augVars, chanVars
      <4> QED
        BY <1>0, <4>2, <4>3, <4>4, ZenonT(30) DEF PairsMatch
    <3>3. CASE MEnterSelect(d) \/ MSetData(d) \/ MKilled(d)
      BY <1>0, <3>3, ZenonT(30) DEF MEnterSelect, MSetData, MKilled, PairsMatch, IsPair, augVars,
           cacheVars
    <3> QED
      BY <1>14, <3>1, <3>2, <3>3 DEF MDaemon
  <2> QED
    BY <1>0, <2>1, <2>2, ZenonT(30)
<1>15. CASE OnReceive
  <2>1. UNCHANGED <<augVars, mgrVars>>
    BY <1>15, SMTT(30) DEF OnReceive, CacheWrite, CacheWriteErr, CacheWriteNil
  <2>2. PairsMatch'
    <3>1. ASSUME NEW ac \in writers, CacheWrite(ac)
          PROVE  PairsMatch'
      <4>1. \A c \in Chains : stored'[c] = stored[c]
                              \/ (c = ac.rawChain /\ stored'[c] = ac.ocspResp)
        BY <3>1 DEF CacheWrite, CacheOK
      <4> QED
        BY <1>0, <2>1, <3>1, <4>1, ZenonT(30) DEF CacheWrite, PairsMatch, IsPair, augVars, mgrVars
    <3>2. ASSUME CacheWriteNil \/ \E ac \in writers : CacheWriteErr(ac)
          PROVE  PairsMatch'
      BY ONLY <1>0, <2>1, <3>2
         DEF PairInv, chanVars, CacheWriteErr, CacheWriteNil, PairsMatch, IsPair, augVars, mgrVars
    <3> QED
      BY <1>15, <3>1, <3>2 DEF OnReceive
  <2> QED
    BY <1>0, <2>1, <2>2, ZenonT(30) DEF augVars
<1>16. CASE UNCHANGED vars
  BY <1>0, <1>16, <1>a, ZenonT(30) DEF vars, augVars
<1> QED
  BY <1>1, <1>2, <1>3, <1>4, <1>5, <1>6, <1>7, <1>8, <1>9, <1>10, <1>11, <1>12, ZenonT(30),
     <1>13, <1>14, <1>15, <1>16
     DEF Next, Producer, AugNext

\* From the first Start to the second, every chain that is published, held or
\* cached carries an OCSP response for itself: no failure or delay of a fetch
\* makes the daemon combine a new chain with the response of the old one.
THEOREM PairSafety == Spec => []PairsMatchInFirstRun
<1>1. FirstRunInv => PairsMatchInFirstRun
  BY DEF FirstRunInv, PairInv, PairsMatchInFirstRun
<1> QED
  BY <1>1, TypeInit, TypeStep, PairInit, PairStep, PTL DEF Spec

=============================================================================
