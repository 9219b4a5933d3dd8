------------------------ MODULE SingleCertDiskCache ------------------------
(***************************************************************************)
(* certmanager.SingleCertDiskCache: one PEM file and one OCSP file under a *)
(* lock file, shared by several processes. renameio replaces a file        *)
(* atomically or fails; a process may die between two steps, which gives   *)
(* its lock back.                                                          *)
(***************************************************************************)
EXTENDS Naturals

CONSTANTS
  Procs,
  Chains,      \* digests of raw chains
  MaxOCSP,     \* bound: OCSP responses of a chain
  CertPath,    \* whether CertPath and OCSPPath are set
  OCSPPath,
  MaxFaults    \* bound: failed writes and deaths

VARIABLES
  certFile, ocspFile,   \* what the files hold
  lock,                 \* the lock file: [mode, holders]
  pc, op,               \* each process: where it is, and its operands
  writes,               \* history: the augmented chains passed to Write
  faults

vars == <<certFile, ocspFile, lock, pc, op, writes, faults>>

NoFile == [chain |-> "none", n |-> 0]
AugmentedChain == [chain : Chains, n : 1..MaxOCSP]
Pair(c, o) == [cert |-> c, ocsp |-> o]
NoPair == Pair(NoFile, NoFile)

Goto(p, l) == pc' = [pc EXCEPT ![p] = l]
CanLock(mode) == lock.holders = {} \/ (mode = "r" /\ lock.mode = "r")
Locked(p, mode) == lock' = [mode |-> mode, holders |-> lock.holders \cup {p}]

\* Mutant: the reader does not wait for the writer.
RLock_Free(p) == lock' = lock

RLock(p) == CanLock("r") /\ Locked(p, "r")
Unlock(p) == lock' = [lock EXCEPT !.holders = @ \ {p}]
Fault == faults < MaxFaults /\ faults' = faults + 1

-----------------------------------------------------------------------------
\* Write is called, by the manager of this process.
Write(p, ac) ==
  /\ pc[p] = "idle"
  /\ writes' = writes \cup {ac}
  /\ op' = [op EXCEPT ![p] = Pair(ac, ac)]
  /\ Goto(p, IF CertPath \/ OCSPPath THEN "lock" ELSE "idle")
  /\ UNCHANGED <<certFile, ocspFile, lock, faults>>

WriteLock(p) ==
  /\ pc[p] = "lock"
  /\ \/ CanLock("w") /\ Locked(p, "w") /\ Goto(p, "writeCert") /\ UNCHANGED faults
     \/ Fault /\ Goto(p, "idle") /\ UNCHANGED lock
  /\ UNCHANGED <<certFile, ocspFile, op, writes>>

\* A failure is reported later: writeOCSP runs nevertheless.
writeCert(p) ==
  /\ pc[p] = "writeCert"
  /\ \/ certFile' = (IF CertPath THEN op[p].cert ELSE certFile) /\ UNCHANGED faults
     \/ CertPath /\ Fault /\ UNCHANGED certFile
  /\ Goto(p, "writeOCSP")
  /\ UNCHANGED <<ocspFile, lock, op, writes>>

writeOCSP(p) ==
  /\ pc[p] = "writeOCSP"
  /\ \/ ocspFile' = (IF OCSPPath THEN op[p].ocsp ELSE ocspFile) /\ UNCHANGED faults
     \/ OCSPPath /\ Fault /\ UNCHANGED ocspFile
  /\ Unlock(p)
  /\ Goto(p, "idle")
  /\ UNCHANGED <<certFile, op, writes>>

\* ReadLatest, from Read or at the start of the manager; RLock may fail. (That
\* Unlock fails, and the collector of the lock's file helps out, is in
\* MultiCertDiskCache.)
ReadLatest(p) ==
  /\ pc[p] = "idle" /\ CertPath /\ OCSPPath
  /\ \/ RLock(p) /\ Goto(p, "readCert") /\ UNCHANGED faults
     \/ Fault /\ Goto(p, "notFound") /\ UNCHANGED lock
  /\ UNCHANGED <<certFile, ocspFile, op, writes>>

readCert(p) ==
  /\ pc[p] = "readCert"
  /\ op' = [op EXCEPT ![p] = Pair(certFile, NoFile)]
  /\ Goto(p, "readOCSP")
  /\ UNCHANGED <<certFile, ocspFile, lock, writes, faults>>

\* NewAugmentedChain unless a file could not be read.
readOCSP(p) ==
  /\ pc[p] = "readOCSP"
  /\ op' = [op EXCEPT ![p] =
       IF @.cert = NoFile \/ ocspFile = NoFile THEN NoPair ELSE Pair(@.cert, ocspFile)]
  /\ Unlock(p)
  /\ Goto(p, "read")
  /\ UNCHANGED <<certFile, ocspFile, writes, faults>>

\* Read of a digest returns the latest chain if it has that digest.
Read(p, digest) ==
  /\ pc[p] = "read"
  /\ Goto(p, IF op[p] # NoPair /\ op[p].cert.chain = digest THEN digest ELSE "notFound")
  /\ UNCHANGED <<certFile, ocspFile, lock, op, writes, faults>>

Return(p) ==
  /\ pc[p] \in Chains \cup {"notFound"}
  /\ Goto(p, "idle")
  /\ op' = [op EXCEPT ![p] = NoPair]
  /\ UNCHANGED <<certFile, ocspFile, lock, writes, faults>>

\* The process dies and starts again.
Die(p) ==
  /\ pc[p] # "idle" /\ Fault
  /\ Unlock(p)
  /\ Goto(p, "idle")
  /\ op' = [op EXCEPT ![p] = NoPair]
  /\ UNCHANGED <<certFile, ocspFile, writes>>

-----------------------------------------------------------------------------
Init ==
  /\ certFile = NoFile /\ ocspFile = NoFile
  /\ lock = [mode |-> "r", holders |-> {}]
  /\ pc = [p \in Procs |-> "idle"] /\ op = [p \in Procs |-> NoPair]
  /\ writes = {} /\ faults = 0

Step(p) ==
  \/ WriteLock(p) \/ writeCert(p) \/ writeOCSP(p)
  \/ readCert(p) \/ readOCSP(p) \/ \E d \in Chains : Read(p, d)

Next ==
  \E p \in Procs :
    \/ \E ac \in AugmentedChain : Write(p, ac)
    \/ ReadLatest(p) \/ Step(p) \/ Return(p) \/ Die(p)

Spec == Init /\ [][Next]_vars

-----------------------------------------------------------------------------
Reading(p) == pc[p] = "read" \/ pc[p] \in Chains
ReadPair(p) == Reading(p) /\ op[p] # NoPair

\* As long as no write fails and no process dies, what a reader gets is exactly
\* what one call of Write wrote: never one writer's certificate with another's
\* OCSP response.
ReadsOneWrite ==
  faults = 0 => \A p \in Procs : ReadPair(p) => op[p].cert = op[p].ocsp /\ op[p].cert \in writes

\* Read never returns a chain other than the one whose digest was asked for:
\* a cert URL of an older exchange gets the old chain or nothing.
ReadsTheDigest ==
  \A p \in Procs : pc[p] \in Chains => ReadPair(p) /\ op[p].cert.chain = pc[p]

=============================================================================
