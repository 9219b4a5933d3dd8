-------------------------------- MODULE Paths --------------------------------
(***************************************************************************)
(* URL paths: cleaning and rewriting them (urlutil, urlrewrite), mapping   *)
(* them to the files that signed exchanges are saved in (filewrite) and to *)
(* validity URLs (validity), and what the server's configuration accepts   *)
(* as a path to serve (tomlconfig).                                        *)
(*                                                                         *)
(* A path is the sequence of what its slashes separate: "/a/" is           *)
(* <<"", "a", "">>, "/" is <<"", "">> and the empty string is <<"">>.       *)
(***************************************************************************)
EXTENDS Naturals, Sequences, SequencesExt

Slash == <<"", "">>
Rooted(p) == Len(p) >= 2 /\ p[1] = ""

\* path.Clean of the standard library.
Clean(p) ==
  LET Enter(dir, s) ==
        IF s \in {"", "."} THEN dir
        ELSE IF s # ".." THEN Append(dir, s)
        ELSE IF dir # <<>> /\ Last(dir) # ".." THEN Front(dir)
        ELSE IF Rooted(p) THEN dir ELSE Append(dir, "..")
      dir == FoldLeft(Enter, <<>>, p)
  IN  IF Rooted(p) THEN <<"">> \o (IF dir = <<>> THEN <<"">> ELSE dir)
      ELSE IF dir = <<>> THEN <<".">> ELSE dir

\* path.Join of a path and a file name.
Join(p, name) == IF p = <<"">> THEN Clean(<<name>>) ELSE Clean(Append(p, name))

\* Mutant: ".." is taken for a file name.
IsDir_NoParent(p) == Last(p) \in {"", "."}

IsDir(p) == Last(p) \in {"", ".", ".."}

GetCleanPath(p) ==
  IF Clean(p) \in {<<".">>, Slash} THEN Slash
  ELSE IF IsDir(p) THEN Append(Clean(p), "") ELSE Clean(p)

-----------------------------------------------------------------------------
(* urlrewrite. *)

CleanPath(p) == GetCleanPath(p)

IndexRule(p, indexFile) == IF IsDir(p) THEN Join(p, indexFile) ELSE p

DefaultRules(p) == IndexRule(CleanPath(p), "index.html")

-----------------------------------------------------------------------------
(* filewrite: a mapping yields a file path, no file (NoFile) or an error. *)

NoFile == <<>>
MapError == <<"error">>

MapToDevNull(p) == NoFile
UseURLPath(p) == IF IsDir(p) \/ p # GetCleanPath(p) THEN MapError ELSE Tail(p)

AppendExt(file, ext) ==
  IF file \in {NoFile, MapError} THEN file ELSE Front(file) \o <<Last(file) \o ext>>

AddBaseDir(file, dir) ==
  IF dir = <<"">> \/ file \in {NoFile, MapError} THEN file ELSE Clean(dir \o file)
StripDir(file) ==
  IF file \in {NoFile, MapError} THEN file ELSE <<Last(file)>>

\* The mapping that the command line builds for --sxg_dir and --sxg_ext.
SXGFile(phys, dir) == AddBaseDir(AppendExt(UseURLPath(phys), ".sxg"), dir)

-----------------------------------------------------------------------------
(* validity: the path of the validity URL, or MapError. The date is the      *)
(* Last-Modified time of the response when it has one that parses.           *)

toValidityURL(phys, ext, date) ==
  IF IsDir(phys) THEN MapError ELSE Clean(Front(phys) \o <<Last(phys) \o ext \o date>>)
AppendExtDotLastModified(phys, ext, lastModified, vpDate) ==
  toValidityURL(phys, ext, IF lastModified \in {"", "unparsable"} THEN vpDate ELSE lastModified)
AppendExtDotExchangeDate(phys, ext, vpDate) == toValidityURL(phys, ext, vpDate)
FixedURL(phys, ref) == IF Rooted(ref) THEN Clean(ref) ELSE Clean(Front(phys) \o ref)

-----------------------------------------------------------------------------
(* tomlconfig.verifyServePath. *)

verifyServePath(value) ==
  LET trimmed == IF value \notin {<<"">>, Slash, <<"", "", "">>} /\ Last(value) = ""
                 THEN Front(value) ELSE value
  IN  value # <<"">> /\ trimmed = Clean(trimmed) /\ Rooted(trimmed)

=============================================================================
