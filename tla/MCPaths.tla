------------------------------- MODULE MCPaths -------------------------------
(***************************************************************************)
(* Every request URL path of up to MaxSegments segments goes through the   *)
(* default rewrite rules to a file and to a validity URL.                  *)
(***************************************************************************)
EXTENDS Paths

CONSTANTS
  Names,        \* file and directory names
  MaxSegments   \* bound: segments of a path

VARIABLES request, phys, file, validityURL

vars == <<request, phys, file, validityURL>>

Segments == Names \cup {"", ".", "..", "index.html"}
RequestPaths ==
  {<<"">>} \cup {<<"">> \o s : s \in UNION {[1..n -> Segments] : n \in 1..MaxSegments}}
BaseDir == <<"sxg">>   \* --sxg_dir
Unset == <<"unset">>

Init ==
  /\ request \in RequestPaths
  /\ phys = Unset /\ file = Unset /\ validityURL = Unset

\* task.getPhysicalURL with the default rules.
Rewrite ==
  /\ phys = Unset
  /\ phys' = DefaultRules(request)
  /\ UNCHANGED <<request, file, validityURL>>

SetValidityURL ==
  /\ phys # Unset /\ validityURL = Unset
  /\ \/ \E lm \in {"", "unparsable", ".1"} :
          validityURL' = AppendExtDotLastModified(phys, ".validity", lm, ".2")
     \/ validityURL' = AppendExtDotExchangeDate(phys, ".validity", ".2")
     \/ \E ref \in {<<"", "webpkg", "validity">>, <<"validity">>} :
          validityURL' = FixedURL(phys, ref)
  /\ UNCHANGED <<request, phys, file>>

Write ==
  /\ validityURL # Unset /\ file = Unset
  /\ file' \in {SXGFile(phys, BaseDir), MapToDevNull(phys),
                AddBaseDir(StripDir(AppendExt(UseURLPath(phys), ".sxg")), BaseDir),
                AddBaseDir(UseURLPath(validityURL), BaseDir)}
  /\ UNCHANGED <<request, phys, validityURL>>

Next == Rewrite \/ SetValidityURL \/ Write

Spec == Init /\ [][Next]_vars

-----------------------------------------------------------------------------
IsName(s) == s \notin {"", ".", ".."}

\* Whatever dots and slashes a request URL has, the default rules give it a
\* file and a validity URL: the errors of UsePhysicalURLPath and of
\* AppendExtDotLastModified for unclean and nameless paths do not occur.
AlwaysMapped == MapError \notin {file, validityURL}

\* Signed exchanges are saved below the base directory and nowhere else: the
\* file's path is the base directory, directories and a name.
StaysBelowBase ==
  file \notin {Unset, NoFile, MapError} =>
    /\ Len(file) > Len(BaseDir) /\ SubSeq(file, 1, Len(BaseDir)) = BaseDir
    /\ \A i \in Len(BaseDir) + 1 .. Len(file) : IsName(file[i])

\* A request for a directory, however it is spelled, is saved as that
\* directory's index file (as static web servers rewrite it).
DirectoriesGetIndex ==
  /\ file \notin {Unset, NoFile} /\ file = SXGFile(phys, BaseDir)
  /\ Last(request) \in {"", ".", ".."}
  => Last(file) = "index.html.sxg"

\* verifyServePath accepts exactly the absolute, normalized paths with or
\* without a trailing slash: what NewHandler's path.Clean leaves unchanged but
\* for that slash.
ServePathExact ==
  verifyServePath(request) <=>
    /\ Rooted(request)
    /\ \/ request = Slash
       \/ /\ \A i \in 2 .. Len(request) - 1 : IsName(request[i])
          /\ Last(request) = "" => Len(request) > 2
          /\ Last(request) \notin {".", ".."}

=============================================================================
