-------------------------- MODULE MultiCertDiskCache --------------------------
(***************************************************************************)
(* The Cache on a local file system (multicert_disk_cache.go): for every   *)
(* digest one file with the chain and one with its OCSP response, and a    *)
(* second copy of both for the chain written last.  Calls may come from    *)
(* several goroutines and, since the lock is a file lock, from several     *)
(* processes.  A call is one invocation of Write, Read or ReadLatest.      *)
(*                                                                         *)
(* External: renameio.WriteFile replaces a file atomically or leaves it    *)
(* alone and fails; flock grants a lock that is exclusive for Write and    *)
(* shared for Read, and gives it up when the file is closed: by Unlock, by *)
(* the death of the process, or when the garbage collector finds the lock  *)
(* of a call that returned without Unlock.                                 *)
(***************************************************************************)
EXTENDS Naturals

CONSTANTS
  Chains,      \* the certificate chains, by digest
  NoChain,     \* a missing chain file; also the empty digest
  MaxVersion,  \* bound: OCSP responses per chain
  Calls        \* the calls that may be in progress at the same time

ASSUME DiskCacheAssumption == NoChain \notin Chains /\ MaxVersion \in Nat

(* An augmented chain, and the OCSP response in it: both are identified by   *)
(* the digest and the number of the response.                                *)
AugmentedChain == [chain : Chains, n : 1..MaxVersion]
NoFile == [chain |-> NoChain, n |-> 0]

WriteOp == [kind : {"Write"}, chain : Chains, n : 1..MaxVersion]
ReadOp == [kind : {"Read"}, chain : Chains \cup {NoChain}, n : {0}]
ReadLatestOp == [kind : {"ReadLatest"}, chain : {NoChain}, n : {0}]
Ops == WriteOp \cup ReadOp \cup ReadLatestOp

VARIABLES
  pc,          \* what each call does next
  op,          \* the method each call invokes, with its argument
  err,         \* the calls whose errs is not nil
  notFound,    \* the calls whose errs contains ErrNotFound
  gotCert,     \* per call: the chain read (NoChain: none)
  gotOCSP,     \* per call: the OCSP response read (NoFile: none)
  certFile,    \* the digests with a .pem file
  ocspFile,    \* the contents of each .ocsp file
  latestCert,  \* the contents of LatestCertFile
  latestOCSP,  \* the contents of LatestOCSPFile
  last,        \* history: the argument of the last Write that completed
  torn         \* history: a Write since then got only part of its files out

callVars == <<op, err, notFound, gotCert, gotOCSP>>
fileVars == <<certFile, ocspFile, latestCert, latestOCSP>>
histVars == <<last, torn>>
vars == <<pc, callVars, fileVars, histVars>>

Init ==
  /\ pc = [p \in Calls |-> "idle"]
  /\ op \in [Calls -> ReadLatestOp]
  /\ err = {}
  /\ notFound = {}
  /\ gotCert = [p \in Calls |-> NoChain]
  /\ gotOCSP = [p \in Calls |-> NoFile]
  /\ certFile = {}
  /\ ocspFile = [c \in Chains |-> NoFile]
  /\ latestCert = NoChain
  /\ latestOCSP = NoFile
  /\ last = NoFile
  /\ torn = FALSE

Goto(p, label) == pc' = [pc EXCEPT ![p] = label]

Writing == {"cert", "latestCert", "ocsp", "latestOCSP"}
Reading == {"readCert", "readOCSP"}
Locked == Writing \cup Reading \cup {"unlock", "leaked"}

IsWrite(p) == op[p].kind = "Write"

-----------------------------------------------------------------------------
\* A method is called. Read checks its digest.
Call(p) ==
  /\ pc[p] \in {"idle", "returned"}
  /\ \E o \in Ops :
       /\ op' = [op EXCEPT ![p] = o]
       /\ err' = IF o.kind = "Read" /\ o.chain = NoChain THEN err \cup {p} ELSE err \ {p}
  /\ notFound' = notFound \ {p}
  /\ gotCert' = [gotCert EXCEPT ![p] = NoChain]
  /\ gotOCSP' = [gotOCSP EXCEPT ![p] = NoFile]
  /\ Goto(p, "lock")
  /\ UNCHANGED <<fileVars, histVars>>

\* Mutant: Write takes the lock in shared mode.
Lock_Shared(p) ==
  /\ pc[p] = "lock"
  /\ Goto(p, IF IsWrite(p) THEN "cert" ELSE IF p \in err THEN "leaked" ELSE "readCert")
  /\ UNCHANGED <<callVars, fileVars, histVars>>

\* Mutant: Read goes on with an empty digest.
Lock_AnyDigest(p) ==
  /\ pc[p] = "lock"
  /\ \A q \in Calls \ {p} : pc[q] \in Locked => ~IsWrite(p) /\ ~IsWrite(q)
  /\ Goto(p, IF IsWrite(p) THEN "cert" ELSE "readCert")
  /\ UNCHANGED <<callVars, fileVars, histVars>>

\* The lock is granted. With an empty digest Read returns its error now, and
\* leaves the lock behind.
Lock(p) ==
  /\ pc[p] = "lock"
  /\ \A q \in Calls \ {p} : pc[q] \in Locked => ~IsWrite(p) /\ ~IsWrite(q)
  /\ Goto(p, IF IsWrite(p) THEN "cert" ELSE IF p \in err THEN "leaked" ELSE "readCert")
  /\ UNCHANGED <<callVars, fileVars, histVars>>

\* The lock cannot be taken, which is returned as an error.
LockErr(p) ==
  /\ pc[p] = "lock"
  /\ err' = err \cup {p}
  /\ Goto(p, "returned")
  /\ UNCHANGED <<op, notFound, gotCert, gotOCSP, fileVars, histVars>>

-----------------------------------------------------------------------------
(* Write: writeCert, then writeOCSP whatever became of writeCert. *)

WriteCert(p) ==
  /\ pc[p] = "cert"
  /\ certFile' = certFile \cup {op[p].chain}
  /\ Goto(p, "latestCert")
  /\ UNCHANGED <<callVars, ocspFile, latestCert, latestOCSP, histVars>>

WriteLatestCert(p) ==
  /\ pc[p] = "latestCert"
  /\ latestCert' = op[p].chain
  /\ Goto(p, "ocsp")
  /\ UNCHANGED <<callVars, certFile, ocspFile, latestOCSP, histVars>>

\* One of the two files cannot be written: writeCert returns.
WriteCertErr(p) ==
  /\ pc[p] \in {"cert", "latestCert"}
  /\ err' = err \cup {p}
  /\ torn' = TRUE
  /\ Goto(p, "ocsp")
  /\ UNCHANGED <<op, notFound, gotCert, gotOCSP, fileVars, last>>

WriteOCSP(p) ==
  /\ pc[p] = "ocsp"
  /\ ocspFile' = [ocspFile EXCEPT ![op[p].chain] = [chain |-> op[p].chain, n |-> op[p].n]]
  /\ Goto(p, "latestOCSP")
  /\ UNCHANGED <<callVars, certFile, latestCert, latestOCSP, histVars>>

WriteLatestOCSP(p) ==
  /\ pc[p] = "latestOCSP"
  /\ latestOCSP' = [chain |-> op[p].chain, n |-> op[p].n]
  /\ IF p \in err
     THEN UNCHANGED histVars
     ELSE last' = latestOCSP' /\ torn' = FALSE
  /\ Goto(p, "unlock")
  /\ UNCHANGED <<callVars, certFile, ocspFile, latestCert>>

\* One of the two files cannot be written: writeOCSP returns.
WriteOCSPErr(p) ==
  /\ pc[p] \in {"ocsp", "latestOCSP"}
  /\ err' = err \cup {p}
  /\ torn' = TRUE
  /\ Goto(p, "unlock")
  /\ UNCHANGED <<op, notFound, gotCert, gotOCSP, fileVars, last>>

-----------------------------------------------------------------------------
(* Read and ReadLatest: both files are read, whatever became of the first;   *)
(* a missing file is an error, and so may be one that is there.  Read (but   *)
(* not ReadLatest) reports every error as ErrNotFound as well.               *)

Failed(p) ==
  /\ err' = err \cup {p}
  /\ notFound' = IF op[p].kind = "Read" THEN notFound \cup {p} ELSE notFound

ReadCert(p) ==
  /\ pc[p] = "readCert"
  /\ LET found == IF op[p].kind = "Read" THEN certFile \cap {op[p].chain}
                                         ELSE {latestCert} \ {NoChain}
     IN  \/ /\ Failed(p)
            /\ UNCHANGED gotCert
         \/ \E c \in found :
              /\ gotCert' = [gotCert EXCEPT ![p] = c]
              /\ UNCHANGED <<err, notFound>>
  /\ Goto(p, "readOCSP")
  /\ UNCHANGED <<op, gotOCSP, fileVars, histVars>>

\* Mutant: Read takes the OCSP response from LatestOCSPFile.
ReadOCSP_Latest(p) ==
  /\ pc[p] = "readOCSP"
  /\ \/ /\ Failed(p)
        /\ UNCHANGED gotOCSP
     \/ /\ latestOCSP # NoFile
        /\ gotOCSP' = [gotOCSP EXCEPT ![p] = latestOCSP]
        /\ UNCHANGED <<err, notFound>>
  /\ Goto(p, "unlock")
  /\ UNCHANGED <<op, gotCert, fileVars, histVars>>

ReadOCSP(p) ==
  /\ pc[p] = "readOCSP"
  /\ LET file == IF op[p].kind = "Read" THEN ocspFile[op[p].chain] ELSE latestOCSP
     IN  \/ /\ Failed(p)
            /\ UNCHANGED gotOCSP
         \/ /\ file # NoFile
            /\ gotOCSP' = [gotOCSP EXCEPT ![p] = file]
            /\ UNCHANGED <<err, notFound>>
  /\ Goto(p, "unlock")
  /\ UNCHANGED <<op, gotCert, fileVars, histVars>>

-----------------------------------------------------------------------------
(* The end of a call. *)

Unlock(p) ==
  /\ pc[p] = "unlock"
  /\ Goto(p, "returned")
  /\ UNCHANGED <<callVars, fileVars, histVars>>

\* Unlock fails: one more error, and the lock is left behind.
UnlockErr(p) ==
  /\ pc[p] = "unlock"
  /\ err' = err \cup {p}
  /\ Goto(p, "leaked")
  /\ UNCHANGED <<op, notFound, gotCert, gotOCSP, fileVars, histVars>>

\* The garbage collector closes the lock file of a call that has returned.
CollectLock(p) ==
  /\ pc[p] = "leaked"
  /\ Goto(p, "returned")
  /\ UNCHANGED <<callVars, fileVars, histVars>>

\* The process dies during a call.
Die(p) ==
  /\ pc[p] \notin {"idle", "returned"}
  /\ torn' = (torn \/ pc[p] \in Writing)
  /\ Goto(p, "idle")
  /\ UNCHANGED <<callVars, fileVars, last>>

Step(p) ==
  \/ Call(p) \/ Lock(p) \/ LockErr(p)
  \/ WriteCert(p) \/ WriteLatestCert(p) \/ WriteCertErr(p)
  \/ WriteOCSP(p) \/ WriteLatestOCSP(p) \/ WriteOCSPErr(p)
  \/ ReadCert(p) \/ ReadOCSP(p)
  \/ Unlock(p) \/ UnlockErr(p) \/ CollectLock(p) \/ Die(p)

Next == \E p \in Calls : Step(p)

Spec == Init /\ [][Next]_vars

-----------------------------------------------------------------------------
(* Properties. *)

\* The type of every variable; a call is where its method can be, and Read
\* never touches the file system with an empty digest.
TypeOK ==
  /\ pc \in [Calls -> {"idle", "lock", "returned"} \cup Locked]
  /\ op \in [Calls -> Ops]
  /\ err \in SUBSET Calls
  /\ notFound \in SUBSET Calls
  /\ gotCert \in [Calls -> Chains \cup {NoChain}]
  /\ gotOCSP \in [Calls -> AugmentedChain \cup {NoFile}]
  /\ certFile \in SUBSET Chains
  /\ ocspFile \in [Chains -> AugmentedChain \cup {NoFile}]
  /\ latestCert \in Chains \cup {NoChain}
  /\ latestOCSP \in AugmentedChain \cup {NoFile}
  /\ last \in AugmentedChain \cup {NoFile}
  /\ torn \in BOOLEAN
  /\ \A p \in Calls :
       /\ pc[p] \in Writing => IsWrite(p)
       /\ pc[p] \in Reading => ~IsWrite(p)
       /\ pc[p] \in Reading /\ op[p].kind = "Read" => op[p].chain # NoChain

\* What Read(digest) returns without an error is the chain with that digest
\* and an OCSP response for it, whatever writes fail or die half-way: nothing
\* is ever read from files of two digests.
ReadIsPair ==
  \A p \in Calls :
    pc[p] \in {"unlock", "returned"} /\ op[p].kind = "Read" /\ p \notin err =>
      gotCert[p] = op[p].chain /\ gotOCSP[p].chain = op[p].chain

\* What ReadLatest is about to return without an error is exactly the argument
\* of the last Write that completed, both halves of it, unless a Write after
\* that one failed or died half-way: no reader looks between the four files
\* of a write in progress, and a complete Write repairs a torn one.
LatestIsLastWritten ==
  \A p \in Calls :
    pc[p] = "unlock" /\ op[p].kind = "ReadLatest" /\ p \notin err /\ ~torn =>
      gotCert[p] = last.chain /\ gotOCSP[p] = last

(* What the documentation says and the code does not do. *)

\* What ReadLatest returns without an error is an augmented chain: the chain
\* and the OCSP response belong together.
LatestIsPair ==
  \A p \in Calls :
    pc[p] = "returned" /\ op[p].kind = "ReadLatest" /\ p \notin err =>
      gotOCSP[p].chain = gotCert[p]

=============================================================================
