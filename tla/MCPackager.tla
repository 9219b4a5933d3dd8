----------------------------- MODULE MCPackager -----------------------------
(***************************************************************************)
(* What callers of Packager.Run rely on.                                   *)
(***************************************************************************)
EXTENDS Packager, TLC

\* The command line: one call after the other, files, one certificate and date.
Command == [cache |-> "file", keep |-> FALSE, writeErrors |-> FALSE, runners |-> 1,
            pages |-> 3, preloads |-> 2, versions |-> 1, certs |-> 0, time |-> 0, runs |-> 2]

\* The command line with a disk that fails.
BadDisk == [Command EXCEPT !.keep = TRUE, !.writeErrors = TRUE, !.pages = 2]

\* The server: concurrent calls while time passes and certificates rotate.
Serving == [cache |-> "bounded", keep |-> TRUE, writeErrors |-> FALSE, runners |-> 2,
            pages |-> 2, preloads |-> 1, versions |-> 0, certs |-> 1, time |-> 2, runs |-> 3]

\* The server without a cache (MaxEntries = 0) and without a limit (-1).
Uncached == [Serving EXCEPT !.cache = "nil", !.time = 0, !.runs = 2]
Unlimited == [Uncached EXCEPT !.cache = "memory"]

MCSetups == {Command, BadDisk, Serving, Uncached, Unlimited}
Symmetry == Permutations(URLs) \cup Permutations(Runners)

Done(p) == runner[p].state = "done"
ErrsOf(p, u) == {e.kind : e \in {x \in runner[p].errs : x.url = u}}
AltSXGs(e) == {l \in Range(e.links) : l.rel = "allowed-alt-sxg"}

\* Only resources with an exchange are cached, and the bounded cache keeps its
\* bound (bounded.go). A call of Run has tasks exactly while it runs, and no URL is
\* in progress twice: reference loops are cut (task.go). A redirected resource has
\* none of the other fields of Resource set.
TypeOK ==
  /\ \A u \in DOMAIN cache : u \in URLs /\ cache[u].exchange # NoExchange
  /\ setup.cache = "bounded" => Cardinality(DOMAIN cache) <= CacheSize
  /\ \A p \in DOMAIN runner : runner[p] # Idle =>
       /\ runner[p].state \in {"running", "done"}
       /\ Running(p) <=> runner[p].stack # <<>>
       /\ Cardinality(Active(p)) = Len(runner[p].stack)
       /\ LET r == runner[p].result IN
          r.redirectURL => ~r.physicalURL /\ ~r.validityURL /\ r.exchange = NoExchange

\* What is left to do in each of the tasks on a stack: the statements and preloads to
\* come, the one in progress being that of the task above it.
Remaining(stack, i) ==
  LET f == stack[i]
      preloads == Len(site[f.url]) - f.preload + 1
  IN  CASE f.pc = "lookup" -> Cardinality(URLs) + 3
        [] f.pc = "fetch" -> Cardinality(URLs) + 2
        [] OTHER -> IF i = Len(stack) THEN preloads + 1 ELSE preloads
Work(stack) ==
  [i \in 1..Cardinality(URLs) |-> IF i <= Len(stack) THEN Remaining(stack, i) ELSE 0]

\* The lexicographic order of such vectors of natural numbers is well-founded.
Less(v, w) ==
  /\ \A i \in DOMAIN v : v[i] \in Nat /\ w[i] \in Nat
  /\ \E i \in DOMAIN v : v[i] < w[i] /\ \A j \in 1 .. i - 1 : v[j] = w[j]

\* Every call of Run comes to an end, whatever URLs preload each other and
\* whatever fails: each of its steps leaves less to do.
RunTerminates ==
  [][\A p \in DOMAIN runner :
       Running(p) /\ runner'[p] # runner[p] => Less(Work(runner'[p].stack), Work(runner[p].stack))]_vars

\* Run "keeps running and produces the signed exchange for the main resource if
\* it just fails with the subresources": there is no exchange exactly if the
\* main resource itself could not be fetched, processed or signed.
SubresourcesMayFail ==
  \A p \in DOMAIN runner : Done(p) =>
    (runner[p].result.exchange = NoExchange
       <=> ErrsOf(p, runner[p].main) \cap {"fetch", "redirect", "process", "sign"} # {})

\* Without KeepNonSXGPreloads, a signed exchange preloads nothing that it does not
\* allow to be loaded as a signed exchange, however its preloads fared. On the
\* command line, where the certificate and --date do not change, the cached
\* exchange of a subresource is then the one whose integrity its referrers have
\* signed, although contents change between the fetches and one resource may be
\* preloaded from several.
PreloadsAreSigned ==
  \A u \in DOMAIN cache :
    LET e == cache[u].exchange IN
    /\ setup.keep \/ {l.url : l \in Range(e.links)} \subseteq {l.url : l \in AltSXGs(e)}
    /\ setup.cache = "file" =>
         \A l \in AltSXGs(e) :
           l.url \in DOMAIN cache /\ l.integrity = Integrity(cache[l.url].exchange)

\* The exchange that Run returns is valid at the requested date and signed with
\* the certificate that was current when Run was called, although the clock moves,
\* certificates rotate and other calls fill the cache while it runs.
ResultIsCurrent ==
  \A p \in DOMAIN runner : Done(p) /\ runner[p].result.exchange # NoExchange =>
    LET e == runner[p].result.exchange IN
    e.cert = runner[p].cert /\ e.date <= runner[p].date /\ runner[p].date <= e.expires

\* A call of Run without an error for its URL leaves the exchange it returns in
\* the URL's file (NewFileWriteCache "saves signed exchanges to files on the Store
\* operations"), unless an earlier call has reported that the file could not be
\* written: the exchange is in the memory cache nevertheless, and is not stored
\* again.
SavedOrReported ==
  setup.cache = "file" =>
    \A p \in DOMAIN runner : Done(p) /\ ErrsOf(p, runner[p].main) = {} =>
      LET u == runner[p].main IN
      u \in reported \/ (u \in DOMAIN files /\ files[u] = runner[p].result.exchange)

=============================================================================
