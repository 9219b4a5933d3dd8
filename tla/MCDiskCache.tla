----------------------------- MODULE MCDiskCache -----------------------------
(***************************************************************************)
(* Instances of the two disk caches for TLC. A behaviour uses one of them, *)
(* the other one stays as it is.                                           *)
(***************************************************************************)
EXTENDS MultiCertDiskCache, TLC

CONSTANTS
  CertPath, OCSPPath,   \* the single-certificate cache: whether its paths are set
  MaxFaults             \* and a bound for its faults

VARIABLES
  cache,    \* the cache in use
  sCert, sOCSP, sLock, sPc, sOp, sWrites, sFaults

singleVars == <<sCert, sOCSP, sLock, sPc, sOp, sWrites, sFaults>>

Single ==
  INSTANCE SingleCertDiskCache
    WITH Procs <- Calls, MaxOCSP <- MaxVersion,
         certFile <- sCert, ocspFile <- sOCSP, lock <- sLock, pc <- sPc, op <- sOp,
         writes <- sWrites, faults <- sFaults

CachesInit == Init /\ Single!Init /\ cache \in {"multi", "single"}

CachesNext ==
  \/ cache = "multi" /\ Next /\ UNCHANGED <<cache, singleVars>>
  \/ cache = "single" /\ Single!Next /\ UNCHANGED <<cache, vars>>

CachesSpec == CachesInit /\ [][CachesNext]_<<cache, vars, singleVars>>

\* What a reader of SingleCertDiskCache gets is what one call of Write wrote, never
\* one writer's certificate with another's OCSP response, as long as no write fails
\* and no process dies; and Read never returns a chain other than the one whose
\* digest was asked for.
SingleCertReads == Single!ReadsOneWrite /\ Single!ReadsTheDigest

\* Chains and calls are only compared for equality.
CacheSymmetry == Permutations(Chains) \cup Permutations(Calls)

=============================================================================
