--------------------------- MODULE DiskCache_proofs ---------------------------
(* Safety of the two disk caches, for any number of calls, chains and responses. *)
EXTENDS MCDiskCache, TLAPS

(* The file lock: a write is alone. *)
Exclusion ==
  \A p, q \in Calls :
    p # q /\ pc[p] \in Locked /\ pc[q] \in Locked => ~IsWrite(p) /\ ~IsWrite(q)

(* A call enters the files without an error; a lock is left behind only with *)
(* one; a write with an error has marked the latest files as torn.           *)
ErrInv ==
  \A p \in Calls :
    /\ pc[p] = "lock" =>
         (p \in err <=> op[p].kind = "Read" /\ op[p].chain = NoChain)
    /\ pc[p] = "leaked" => p \in err
    /\ pc[p] \in Writing /\ p \in err => torn

ByDigest == \A c \in Chains : ocspFile[c] # NoFile => ocspFile[c].chain = c

ReadInv ==
  \A p \in Calls :
    op[p].kind = "Read" /\ p \notin err =>
      /\ pc[p] \in {"readOCSP", "unlock", "returned"} => gotCert[p] = op[p].chain
      /\ pc[p] \in {"unlock", "returned"} => gotOCSP[p].chain = op[p].chain

(* The latest files are those of the last complete write, but for the chain  *)
(* file while a write is between its second and its fourth file.  A write    *)
(* without an error has written its chain by then, torn or not.              *)
InOCSP(p) == pc[p] \in {"ocsp", "latestOCSP"}

CertDone ==
  \A p \in Calls : InOCSP(p) /\ p \notin err => latestCert = op[p].chain

LatestInv ==
  ~torn =>
    /\ latestOCSP = last
    /\ (\A p \in Calls : ~InOCSP(p)) => latestCert = last.chain

ReadLatestInv ==
  \A p \in Calls :
    op[p].kind = "ReadLatest" /\ p \notin err /\ ~torn =>
      /\ pc[p] \in {"readOCSP", "unlock"} => gotCert[p] = last.chain
      /\ pc[p] = "unlock" => gotOCSP[p] = last

CacheInv ==
  Exclusion /\ ErrInv /\ ByDigest /\ ReadInv /\ CertDone /\ LatestInv /\ ReadLatestInv

-----------------------------------------------------------------------------
LEMMA OpKinds ==
  ASSUME NEW o \in Ops
  PROVE  /\ o.kind \in {"Write", "Read", "ReadLatest"}
         /\ o.chain \in Chains \cup {NoChain}
         /\ o.kind = "Write" =>
              o.chain \in Chains /\ [chain |-> o.chain, n |-> o.n] \in AugmentedChain
BY DEF Ops, WriteOp, ReadOp, ReadLatestOp, AugmentedChain

LEMMA InitInv == Init => TypeOK /\ CacheInv
<1> SUFFICES ASSUME Init PROVE TypeOK /\ CacheInv
  OBVIOUS
<1>1. TypeOK
  BY ZenonT(30) DEF Init, TypeOK, Locked, Writing, Reading, Ops, ReadLatestOp
<1>2. CacheInv
  BY DEF Init, CacheInv, Exclusion, ErrInv, ByDigest, ReadInv, CertDone, LatestInv,
         ReadLatestInv, Locked, Writing, Reading, InOCSP, NoFile
<1> QED
  BY <1>1, <1>2

LEMMA StepInv == TypeOK /\ CacheInv /\ [Next]_vars => TypeOK' /\ CacheInv'
<1> SUFFICES ASSUME TypeOK, CacheInv, [Next]_vars PROVE TypeOK' /\ CacheInv'
  OBVIOUS
<1> USE DiskCacheAssumption, OpKinds
    DEF Goto, Locked, Writing, Reading, IsWrite, callVars, fileVars, histVars
<1>1. ASSUME UNCHANGED vars PROVE TypeOK' /\ CacheInv'
  BY <1>1 DEF vars, TypeOK, CacheInv, Exclusion, ErrInv, ByDigest, ReadInv, CertDone,
       LatestInv, ReadLatestInv, InOCSP
<1>2. ASSUME NEW p \in Calls, Call(p) PROVE TypeOK' /\ CacheInv'
  <2>1. TypeOK'
    BY <1>2 DEF Call, TypeOK
  <2>2. Exclusion' /\ ErrInv' /\ ByDigest'
    BY <1>2 DEF Call, TypeOK, CacheInv, Exclusion, ErrInv, ByDigest
  <2>3. ReadInv' /\ ReadLatestInv'
    BY <1>2 DEF Call, TypeOK, CacheInv, ReadInv, ReadLatestInv
  <2>4. CertDone' /\ LatestInv'
    BY <1>2 DEF Call, TypeOK, CacheInv, CertDone, LatestInv, InOCSP
  <2> QED
    BY <2>1, <2>2, <2>3, <2>4 DEF CacheInv
<1>3. ASSUME NEW p \in Calls, Lock(p) PROVE TypeOK' /\ CacheInv'
  <2>1. TypeOK'
    BY <1>3 DEF Lock, TypeOK, CacheInv, ErrInv
  <2>2. Exclusion' /\ ErrInv' /\ ByDigest'
    BY <1>3 DEF Lock, TypeOK, CacheInv, Exclusion, ErrInv, ByDigest
  <2>3. ReadInv' /\ ReadLatestInv'
    BY <1>3 DEF Lock, TypeOK, CacheInv, ReadInv, ReadLatestInv
  <2>4. CertDone' /\ LatestInv'
    BY <1>3 DEF Lock, TypeOK, CacheInv, CertDone, LatestInv, InOCSP
  <2> QED
    BY <2>1, <2>2, <2>3, <2>4 DEF CacheInv
<1>4. ASSUME NEW p \in Calls, LockErr(p) \/ Unlock(p) \/ UnlockErr(p) \/ CollectLock(p)
      PROVE  TypeOK' /\ CacheInv'
  <2> USE <1>4 DEF LockErr, Unlock, UnlockErr, CollectLock, TypeOK, CacheInv
  <2>1. TypeOK'
    OBVIOUS
  <2>2. Exclusion' /\ ErrInv' /\ ByDigest'
    BY DEF Exclusion, ErrInv, ByDigest
  <2>3. ReadInv' /\ ReadLatestInv'
    BY DEF ReadInv, ReadLatestInv, ErrInv
  <2>4. CertDone' /\ LatestInv'
    BY DEF CertDone, LatestInv, InOCSP
  <2> QED
    BY <2>1, <2>2, <2>3, <2>4
<1>5. ASSUME NEW p \in Calls, WriteCert(p) \/ WriteLatestCert(p)
      PROVE  TypeOK' /\ CacheInv'
  <2> USE <1>5 DEF WriteCert, WriteLatestCert, TypeOK, CacheInv
  <2>1. TypeOK'
    BY ZenonT(60)
  <2>2. Exclusion' /\ ErrInv' /\ ByDigest'
    BY DEF Exclusion, ErrInv, ByDigest
  <2>3. ReadInv' /\ ReadLatestInv'
    BY DEF ReadInv, ReadLatestInv
  <2>4. CertDone' /\ LatestInv'
    BY DEF CertDone, LatestInv, InOCSP, Exclusion
  <2> QED
    BY <2>1, <2>2, <2>3, <2>4
<1>6. ASSUME NEW p \in Calls, WriteCertErr(p) \/ WriteOCSPErr(p) \/ Die(p)
      PROVE  TypeOK' /\ CacheInv'
  <2> USE <1>6 DEF WriteCertErr, WriteOCSPErr, Die, TypeOK, CacheInv
  <2>1. TypeOK'
    BY ZenonT(60)
  <2>2. Exclusion' /\ ErrInv' /\ ByDigest'
    BY SMTT(30) DEF Exclusion, ErrInv, ByDigest
  <2>3. ReadInv' /\ ReadLatestInv'
    BY SMTT(30) DEF ReadInv, ReadLatestInv
  <2>4. CertDone' /\ LatestInv'
    BY ZenonT(60) DEF CertDone, LatestInv, InOCSP
  <2> QED
    BY <2>1, <2>2, <2>3, <2>4
<1>7. ASSUME NEW p \in Calls, WriteOCSP(p) PROVE TypeOK' /\ CacheInv'
  <2> USE <1>7 DEF WriteOCSP, TypeOK, CacheInv
  <2>0. op[p].chain \in Chains /\ [chain |-> op[p].chain, n |-> op[p].n] \in AugmentedChain
    OBVIOUS
  <2>1. TypeOK'
    BY <2>0
  <2>2. Exclusion' /\ ErrInv' /\ ByDigest'
    BY DEF Exclusion, ErrInv, ByDigest
  <2>3. ReadInv' /\ ReadLatestInv'
    BY DEF ReadInv, ReadLatestInv
  <2>4. CertDone' /\ LatestInv'
    BY DEF CertDone, LatestInv, InOCSP
  <2> QED
    BY <2>1, <2>2, <2>3, <2>4
<1>8. ASSUME NEW p \in Calls, WriteLatestOCSP(p) PROVE TypeOK' /\ CacheInv'
  <2> USE <1>8 DEF WriteLatestOCSP, TypeOK, CacheInv
  <2>0. [chain |-> op[p].chain, n |-> op[p].n] \in AugmentedChain
    OBVIOUS
  <2>1. TypeOK'
    BY <2>0, ZenonT(30)
  <2>2. Exclusion' /\ ErrInv' /\ ByDigest'
    BY DEF Exclusion, ErrInv, ByDigest
  <2>3. ReadInv' /\ ReadLatestInv'
    BY DEF ReadInv, ReadLatestInv, Exclusion
  <2>4. CertDone'
    BY DEF CertDone, InOCSP
  <2>5. LatestInv'
    <3>1. CASE p \in err
      BY <3>1 DEF LatestInv, ErrInv
    <3>2. CASE p \notin err
      <4>1. \A q \in Calls : pc'[q] \notin {"ocsp", "latestOCSP"}
        BY DEF Exclusion
      <4>2. latestOCSP' = last' /\ last'.chain = op[p].chain
        BY <3>2, SMTT(30)
      <4>3. latestCert' = op[p].chain
        BY <3>2 DEF CertDone, InOCSP
      <4> QED
        BY <4>1, <4>2, <4>3 DEF LatestInv, InOCSP
    <3> QED
      BY <3>1, <3>2
  <2> QED
    BY <2>1, <2>2, <2>3, <2>4, <2>5
<1>9. ASSUME NEW p \in Calls, ReadCert(p) \/ ReadOCSP(p)
      PROVE  TypeOK' /\ CacheInv'
  <2> USE <1>9 DEF ReadCert, ReadOCSP, Failed, TypeOK, CacheInv
  <2>0. /\ gotCert' \in [Calls -> Chains \cup {NoChain}]
        /\ gotOCSP' \in [Calls -> AugmentedChain \cup {NoFile}]
    <3>1. CASE ReadCert(p)
      <4>1. \A c \in certFile \cup ({latestCert} \ {NoChain}) : c \in Chains
        OBVIOUS
      <4> QED
        BY <3>1, <4>1
    <3>2. CASE ReadOCSP(p)
      <4>1. op[p].kind = "Read" => op[p].chain \in Chains
        BY <3>2, ZenonT(30)
      <4> QED
        BY <3>2, <4>1, SMTT(30)
    <3> QED
      BY <1>9, <3>1, <3>2
  <2>1. TypeOK'
    BY <2>0, SMTT(30)
  <2>2. Exclusion' /\ ErrInv' /\ ByDigest'
    BY SMTT(30) DEF Exclusion, ErrInv, ByDigest
  <2>3. ReadInv'
    BY SMTT(30) DEF ReadInv, ByDigest
  <2>4. ReadLatestInv'
    BY SMTT(30) DEF ReadLatestInv, LatestInv, InOCSP, Exclusion
  <2>5. CertDone' /\ LatestInv'
    BY SMTT(30) DEF CertDone, LatestInv, InOCSP
  <2> QED
    BY <2>1, <2>2, <2>3, <2>4, <2>5
<1> QED
  BY <1>1, <1>2, <1>3, <1>4, <1>5, <1>6, <1>7, <1>8, <1>9 DEF Next, Step

(* What Read(digest) returns is the chain of that digest with an OCSP        *)
(* response for it, under any failures and deaths of writers.                *)
THEOREM ReadSafety == Spec => []ReadIsPair
<1>1. TypeOK /\ CacheInv => ReadIsPair
  BY DEF CacheInv, ReadInv, ReadIsPair
<1> QED
  BY <1>1, InitInv, StepInv, PTL DEF Spec

(* The file lock makes the four files of a Write one: ReadLatest returns the *)
(* argument of the last complete Write if none was torn since.               *)
THEOREM LatestSafety == Spec => []LatestIsLastWritten
<1>1. TypeOK /\ CacheInv => LatestIsLastWritten
  BY DEF CacheInv, ReadLatestInv, LatestIsLastWritten
<1> QED
  BY <1>1, InitInv, StepInv, PTL DEF Spec

(* Every variable of the disk cache keeps its type. *)
THEOREM CacheTypes == Spec => []TypeOK
BY InitInv, StepInv, PTL DEF Spec

-----------------------------------------------------------------------------
(* The single-certificate cache: what a reader of its two files gets, for any *)
(* number of processes and chains and whichever of the paths are set.         *)

SingleLabels ==
  {"idle", "lock", "writeCert", "writeOCSP", "readCert", "readOCSP", "read", "notFound"}
Writer(p) == sPc[p] \in {"writeCert", "writeOCSP"}
Reader(p) == sPc[p] \in {"readCert", "readOCSP"}

\* The lock is held by those who use the files: one writer or any readers.
LockInv ==
  /\ sPc \in [Calls -> SingleLabels \cup Chains]
  /\ sOp \in [Calls -> {sOp[p] : p \in Calls}]
  /\ DOMAIN sLock = {"mode", "holders"} /\ sLock.holders \in SUBSET Calls
  /\ sFaults \in Nat
  /\ \A p \in Calls : p \in sLock.holders <=> Writer(p) \/ Reader(p)
  /\ \A p \in Calls : Writer(p) => sLock.holders = {p} /\ sLock.mode = "w"
  /\ \A p \in Calls : Reader(p) => sLock.mode = "r" /\ CertPath /\ OCSPPath

Written(c) == c = Single!NoFile \/ c \in sWrites

\* While nothing has failed, the files differ only between the two writes of the
\* writer that holds the lock.
FilesInv ==
  /\ Written(sCert)
  /\ (\A p \in Calls : sPc[p] # "writeOCSP") => sOCSP = sCert
  /\ \A p \in Calls :
       sPc[p] = "lock" \/ Writer(p) => sOp[p].cert = sOp[p].ocsp /\ sOp[p].cert \in sWrites
  /\ \A p \in Calls : sPc[p] = "writeOCSP" => sCert = sOp[p].cert
  /\ \A p \in Calls : sPc[p] = "readOCSP" => sOp[p].cert = sCert
  /\ \A p \in Calls : Single!ReadPair(p) => sOp[p].cert = sOp[p].ocsp /\ sOp[p].cert \in sWrites

SingleInv ==
  /\ LockInv
  /\ sFaults = 0 /\ CertPath /\ OCSPPath => FilesInv
  /\ \A p \in Calls : Single!Reading(p) => CertPath /\ OCSPPath
  /\ Single!ReadsTheDigest

\* The invariant holds of a new cache.
LEMMA SingleInit == ASSUME Chains \cap SingleLabels = {} PROVE Single!Init => SingleInv
<1> SUFFICES ASSUME Single!Init PROVE SingleInv
  OBVIOUS
<1>1. \A p \in Calls : sPc[p] = "idle" /\ "idle" \notin Chains
  BY ZenonT(30) DEF Single!Init, SingleLabels
<1>2. LockInv
  BY <1>1 DEF Single!Init, LockInv, SingleLabels, Writer, Reader
<1>3. FilesInv
  BY <1>1 DEF Single!Init, FilesInv, Written, Writer, Single!ReadPair, Single!Reading
<1> QED BY <1>1, <1>2, <1>3 DEF SingleInv, Single!Reading, Single!ReadsTheDigest

\* No step lets a process at the files without the lock.
LEMMA LockStep ==
  ASSUME Chains \cap SingleLabels = {}, LockInv, NEW p \in Calls,
         \/ \E ac \in Single!AugmentedChain : Single!Write(p, ac)
         \/ Single!ReadLatest(p) \/ Single!Step(p) \/ Single!Return(p) \/ Single!Die(p)
  PROVE  LockInv'
<1> USE DEF LockInv, Writer, Reader, SingleLabels, Single!Goto, Single!Fault
<1>0. /\ \A q \in Calls : q # p => sPc'[q] = sPc[q]
      /\ sPc'[p] \in SingleLabels \cup Chains
      /\ sOp' \in [Calls -> {sOp'[q] : q \in Calls}]
      /\ sFaults' \in Nat
      /\ sPc' \in [Calls -> SingleLabels \cup Chains]
  BY DEF Single!Write, Single!ReadLatest, Single!Step, Single!Return, Single!Die,
         Single!WriteLock, Single!writeCert, Single!writeOCSP, Single!readCert,
         Single!readOCSP, Single!Read
<1>1. ASSUME NEW ac \in Single!AugmentedChain, Single!Write(p, ac) PROVE LockInv'
  BY <1>0, <1>1 DEF Single!Write
<1>2. CASE Single!ReadLatest(p)
  BY <1>0, <1>2, SMTT(30) DEF Single!ReadLatest, Single!RLock, Single!CanLock,
         Single!Locked
<1>3. CASE Single!WriteLock(p)
  <2>1. CASE Single!CanLock("w") /\ Single!Locked(p, "w") /\ Single!Goto(p, "writeCert")
    <3>1. sLock.holders = {}
      BY <2>1 DEF Single!CanLock
    <3>2. sLock'.mode = "w" /\ sLock'.holders = {p} /\ DOMAIN sLock' = {"mode", "holders"}
      BY <2>1, <3>1 DEF Single!Locked
    <3>3. sPc'[p] = "writeCert" /\ \A q \in Calls : ~Writer(q) /\ ~Reader(q)
      BY <2>1, <3>1
    <3> QED BY <1>0, <3>2, <3>3
  <2>2. CASE Single!Goto(p, "idle") /\ UNCHANGED sLock
    BY <1>0, <1>3, <2>2 DEF Single!WriteLock
  <2> QED BY <1>3, <2>1, <2>2 DEF Single!WriteLock
<1>4. CASE Single!writeCert(p)
  BY <1>0, <1>4 DEF Single!writeCert
<1>5. CASE Single!writeOCSP(p)
  BY <1>0, <1>5 DEF Single!writeOCSP, Single!Unlock
<1>6. CASE Single!readCert(p)
  BY <1>0, <1>6 DEF Single!readCert
<1>7. CASE Single!readOCSP(p)
  BY <1>0, <1>7 DEF Single!readOCSP, Single!Unlock
<1>8. ASSUME NEW d \in Chains, Single!Read(p, d) PROVE LockInv'
  BY <1>0, <1>8 DEF Single!Read
<1>9. CASE Single!Return(p)
  BY <1>0, <1>9 DEF Single!Return
<1>10. CASE Single!Die(p)
  BY <1>0, <1>10 DEF Single!Die, Single!Unlock
<1> QED
  BY <1>1, <1>2, <1>3, <1>4, <1>5, <1>6, <1>7, <1>8, <1>9, <1>10 DEF Single!Step

\* Readers have both paths, and return the digest that was asked for.
LEMMA DigestStep ==
  ASSUME Chains \cap SingleLabels = {}, SingleInv, NEW p \in Calls,
         \/ \E ac \in Single!AugmentedChain : Single!Write(p, ac)
         \/ Single!ReadLatest(p) \/ Single!Step(p) \/ Single!Return(p) \/ Single!Die(p)
  PROVE  /\ (\A q \in Calls : Single!Reading(q) => CertPath /\ OCSPPath)'
         /\ Single!ReadsTheDigest'
<1> USE DEF SingleInv, LockInv, SingleLabels, Single!Goto, Single!Reading,
       Single!ReadPair, Single!ReadsTheDigest
<1>1. \A q \in Calls : q # p => sPc'[q] = sPc[q] /\ sOp'[q] = sOp[q]
  BY DEF Single!Write, Single!ReadLatest, Single!Step, Single!Return, Single!Die,
         Single!WriteLock, Single!writeCert, Single!writeOCSP, Single!readCert,
         Single!readOCSP, Single!Read
<1>2. /\ sPc'[p] = "read" \/ sPc'[p] \in Chains => CertPath /\ OCSPPath
      /\ sPc'[p] \in Chains => sOp'[p] # Single!NoPair /\ sOp'[p].cert.chain = sPc'[p]
  <2>1. CASE \/ \E ac \in Single!AugmentedChain : Single!Write(p, ac)
             \/ Single!ReadLatest(p) \/ Single!WriteLock(p) \/ Single!writeCert(p) \/ Single!writeOCSP(p)
             \/ Single!readCert(p) \/ Single!Return(p) \/ Single!Die(p)
    <3>1. sPc'[p] \in SingleLabels \ {"read"}
      BY <2>1 DEF Single!Write, Single!ReadLatest, Single!Return, Single!Die,
             Single!WriteLock, Single!writeCert, Single!writeOCSP, Single!readCert
    <3> QED BY <3>1
  <2>2. CASE Single!readOCSP(p)
    BY <2>2 DEF Single!readOCSP, Reader
  <2>3. ASSUME NEW d \in Chains, Single!Read(p, d) PROVE <1>2!1 /\ <1>2!2
    BY <2>3 DEF Single!Read
  <2> QED BY <2>1, <2>2, <2>3 DEF Single!Step
<1> QED BY <1>1, <1>2

\* No step that succeeds breaks the pair of files, or a pair that was read.
LEMMA FilesStep ==
  ASSUME Chains \cap SingleLabels = {}, LockInv, FilesInv, CertPath, OCSPPath, sFaults' = 0,
         NEW p \in Calls,
         \/ \E ac \in Single!AugmentedChain : Single!Write(p, ac)
         \/ Single!ReadLatest(p) \/ Single!Step(p) \/ Single!Return(p) \/ Single!Die(p)
  PROVE  FilesInv'
<1> USE DEF LockInv, FilesInv, SingleLabels, Single!Goto, Single!Reading,
       Single!ReadPair, Writer, Written
<1>0. ~Single!Fault
  BY DEF Single!Fault
<1>a. \A q \in Calls : q # p => sPc'[q] = sPc[q] /\ sOp'[q] = sOp[q]
  BY DEF Single!Write, Single!ReadLatest, Single!Step, Single!Return, Single!Die,
         Single!WriteLock, Single!writeCert, Single!writeOCSP, Single!readCert,
         Single!readOCSP, Single!Read
<1>1. ASSUME NEW ac \in Single!AugmentedChain, Single!Write(p, ac) PROVE FilesInv'
  <2>1. /\ sPc'[p] = "lock" /\ sOp'[p] = Single!Pair(ac, ac) /\ sWrites' = sWrites \cup {ac}
        /\ sPc[p] = "idle" /\ UNCHANGED <<sCert, sOCSP>>
    BY <1>1 DEF Single!Write
  <2>2. sOp'[p].cert = ac /\ sOp'[p].ocsp = ac
    BY <2>1 DEF Single!Pair
  <2> QED BY <1>a, <2>1, <2>2
<1>2. CASE Single!ReadLatest(p)
  BY <1>0, <1>2, <1>a DEF Single!ReadLatest
<1>3. CASE Single!WriteLock(p)
  BY <1>0, <1>3, <1>a DEF Single!WriteLock
<1>4. CASE Single!writeCert(p)
  <2>1. /\ sCert' = sOp[p].cert /\ sPc[p] = "writeCert" /\ sPc'[p] = "writeOCSP"
        /\ UNCHANGED <<sOp, sWrites>>
    BY <1>0, <1>4 DEF Single!writeCert
  <2>2. \A q \in Calls : q # p => sPc[q] \notin {"writeOCSP", "readOCSP"}
    BY <2>1 DEF Reader
  <2> QED BY <1>a, <2>1, <2>2
<1>5. CASE Single!writeOCSP(p)
  <2>1. /\ sOCSP' = sOp[p].ocsp /\ sPc[p] = "writeOCSP" /\ sPc'[p] = "idle"
        /\ UNCHANGED <<sCert, sOp, sWrites>>
    BY <1>0, <1>5 DEF Single!writeOCSP
  <2> QED BY <1>a, <2>1
<1>6. CASE Single!readCert(p)
  <2>1. /\ sOp'[p].cert = sCert /\ sPc[p] = "readCert" /\ sPc'[p] = "readOCSP"
        /\ UNCHANGED <<sCert, sOCSP, sWrites>>
    BY <1>6 DEF Single!readCert, Single!Pair
  <2> QED BY <1>a, <2>1
<1>7. CASE Single!readOCSP(p)
  <2>1. /\ sPc[p] = "readOCSP" /\ sPc'[p] = "read" /\ UNCHANGED <<sCert, sOCSP, sWrites>>
        /\ sOp'[p] = IF sOp[p].cert = Single!NoFile \/ sOCSP = Single!NoFile
                    THEN Single!NoPair ELSE Single!Pair(sOp[p].cert, sOCSP)
    BY <1>7 DEF Single!readOCSP
  <2>2. \A q \in Calls : sPc[q] # "writeOCSP"
    BY <2>1 DEF Reader
  <2>3. sOp'[p] # Single!NoPair => sOp'[p].cert = sCert /\ sOp'[p].ocsp = sCert /\ sCert \in sWrites
    BY <2>1, <2>2 DEF Single!Pair
  <2> QED BY <1>a, <2>1, <2>2, <2>3
<1>8. ASSUME NEW d \in Chains, Single!Read(p, d) PROVE FilesInv'
  <2>1. /\ sPc[p] = "read" /\ sPc'[p] \in {d, "notFound"}
        /\ UNCHANGED <<sCert, sOCSP, sOp, sWrites>>
    BY <1>8 DEF Single!Read
  <2> QED BY <1>a, <2>1
<1>9. CASE Single!Return(p)
  BY <1>9, <1>a DEF Single!Return
<1>10. CASE Single!Die(p)
  BY <1>0, <1>10 DEF Single!Die
<1> QED
  BY <1>1, <1>2, <1>3, <1>4, <1>5, <1>6, <1>7, <1>8, <1>9, <1>10 DEF Single!Step

\* Every step preserves the invariant.
LEMMA SingleStep ==
  ASSUME Chains \cap SingleLabels = {}
  PROVE  SingleInv /\ [Single!Next]_(Single!vars) => SingleInv'
<1> SUFFICES ASSUME SingleInv, [Single!Next]_(Single!vars) PROVE SingleInv'
  OBVIOUS
<1>1. CASE UNCHANGED Single!vars
  BY <1>1 DEF Single!vars, SingleInv, LockInv, FilesInv, Single!ReadsTheDigest,
         Single!Reading, Single!ReadPair, Writer, Reader, Written
<1>2. CASE Single!Next
  <2>1. PICK p \in Calls :
          \/ \E ac \in Single!AugmentedChain : Single!Write(p, ac)
          \/ Single!ReadLatest(p) \/ Single!Step(p) \/ Single!Return(p) \/ Single!Die(p)
    BY <1>2 DEF Single!Next
  <2>2. LockInv'
    BY <2>1, LockStep DEF SingleInv
  <2>3. sFaults' = 0 => sFaults = 0
    <3>1. sFaults \in Nat /\ (sFaults' = sFaults \/ sFaults' = sFaults + 1)
      BY <2>1 DEF SingleInv, LockInv, Single!Fault, Single!Write, Single!ReadLatest,
             Single!Step, Single!Return, Single!Die, Single!WriteLock, Single!writeCert,
             Single!writeOCSP, Single!readCert, Single!readOCSP, Single!Read
    <3> QED BY <3>1
  <2>4. sFaults' = 0 /\ CertPath /\ OCSPPath => FilesInv'
    BY <2>1, <2>3, FilesStep DEF SingleInv
  <2>5. /\ (\A q \in Calls : Single!Reading(q) => CertPath /\ OCSPPath)'
        /\ Single!ReadsTheDigest'
    BY <2>1, DigestStep
  <2> QED BY <2>2, <2>4, <2>5 DEF SingleInv
<1> QED BY <1>1, <1>2

\* For any processes and chains: while nothing fails, a reader of the two files gets
\* what one Write wrote, and whatever fails Read returns only the chain asked for
\* (SingleCertDiskCache.Read and ReadLatest under the lock file).
THEOREM SingleReads ==
  ASSUME Chains \cap SingleLabels = {}
  PROVE  CachesSpec => []SingleCertReads
<1>1. SingleInv => SingleCertReads
  BY DEF SingleInv, FilesInv, SingleCertReads, Single!ReadsOneWrite, Single!ReadPair
<1>2. CachesInit => SingleInv
  BY SingleInit DEF CachesInit
<1>3. SingleInv /\ [CachesNext]_<<cache, vars, singleVars>> => SingleInv'
  <2>1. [CachesNext]_<<cache, vars, singleVars>> => [Single!Next]_(Single!vars)
    BY Zenon DEF CachesNext, singleVars, Single!vars
  <2> QED BY <2>1, SingleStep
<1> QED BY <1>1, <1>2, <1>3, PTL DEF CachesSpec

=============================================================================
