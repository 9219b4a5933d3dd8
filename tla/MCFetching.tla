----------------------------- MODULE MCFetching -----------------------------
(***************************************************************************)
(* Document URLs of all shapes, with one [[Sign]] section and one denied   *)
(* subtree, and chains of subresources.                                    *)
(***************************************************************************)
EXTENDS Naturals, Sequences, FiniteSets

CONSTANTS
  MaxRequests,
  MaxHostLength    \* bound: characters of a host name

VARIABLES asked, requests, active, reply

HostChars == {"a", "A", ".", "e'"}
Hosts ==
  {h \in UNION {[1..n -> HostChars] : n \in 1..MaxHostLength} :
     /\ h[1] # "." /\ h[Len(h)] # "."
     /\ \A i \in 1..Len(h) - 1 : h[i] # "." \/ h[i + 1] # "."}
Queries == {<<>>, <<"a">>, <<"<">>, <<"%20">>}
AllPaths == {<<"">> \o s : s \in UNION {[1..n -> {"s", "x", "..", ""}] : n \in 1..3}}
URL(host, path, query) ==
  [scheme |-> "https", user |-> FALSE, host |-> host, path |-> path, query |-> query,
   fragment |-> FALSE]
Plain == URL(<<"a", ".", "a">>, <<"", "s", "">>, <<>>)

AllSignURLs ==
  {URL(h, <<"", "s", "">>, <<>>) : h \in Hosts}
    \cup {URL(<<"a", ".", "a">>, p, q) : p \in AllPaths, q \in Queries}
    \cup {[Plain EXCEPT !.scheme = "http"], [Plain EXCEPT !.user = TRUE], [Plain EXCEPT !.fragment = TRUE]}
AllPreloadURLs ==
  {URL(<<"A", ".", "a">>, <<"", "s", "y">>, <<>>), URL(<<"a", ".", "a">>, <<"", "s", "z">>, <<>>),
   URL(<<"a", ".", "a">>, <<"", "s", "", "y">>, <<>>), URL(<<"b">>, <<"", "s", "">>, <<>>),
   [Plain EXCEPT !.scheme = "http"]}
AllMainHeaders == {<<>>, [Cookie |-> "c"], [Cookie |-> "c", Accept |-> "d"]}
AllCustomHeaders == [Accept |-> "e"]
AllTweakers == <<"SetReferer", "CopyParentHeaders", "SetCustomHeaders">>
OneSign == <<[domain |-> <<"a", ".", "a">>, path |-> <<"", "s">>, query |-> {<<>>, <<"a">>, <<"%3C">>}]>>
Denied == <<[domain |-> <<"a", ".", "a">>, path |-> <<"", "s", "x">>, query |-> {<<>>, <<"a">>, <<"%3C">>}]>>

INSTANCE Fetching
  WITH SignURLs <- AllSignURLs, PreloadURLs <- AllPreloadURLs, MainHeaders <- AllMainHeaders,
       Allow <- OneSign, Deny <- Denied, Tweakers <- AllTweakers, Keys <- {"Cookie"},
       CustomHeaders <- AllCustomHeaders

-----------------------------------------------------------------------------
Fetched == {i \in DOMAIN requests : requests[i].fetched}
Lower(s) == [i \in DOMAIN s |-> asciiToLower(s[i])]

\* What is fetched lies, dots and slashes of the document URL resolved, in what
\* the [[Sign]] section allows and not in what is denied: "Prevent malformed
\* URLs from eluding the PathRE protections." (The paths of subresources are
\* matched as they are.)
FetchesAreConfined ==
  \A i \in Fetched :
    LET u == requests[i].url IN
    requests[i].parent = 0 \/ u.path = GetCleanPath(u.path) =>
      /\ u.scheme = "https" /\ Lower(u.host) = <<"a", ".", "a">>
      /\ Clean(u.path)[2] = "s" /\ ~IsPrefix(<<"", "s", "x">>, Clean(u.path))

\* The Referer of a subresource is the resource that preloads it, at any depth,
\* and a main resource has none.
RefererIsParent ==
  \A i \in DOMAIN requests :
    LET r == requests[i] IN
    IF r.parent = 0 THEN "Referer" \notin DOMAIN r.header
    ELSE r.header["Referer"] = requests[r.parent].url /\ r.parent \in Fetched

\* Headers that are copied are those of the main resource, for all the resources
\* of a run, and custom headers take precedence over them.
HeadersAreInherited ==
  \A i \in DOMAIN requests :
    LET r == requests[i].header
        main == requests[1].header
    IN  /\ r["Accept"] = "e"
        /\ "Cookie" \in DOMAIN r <=> "Cookie" \in DOMAIN main
        /\ "Cookie" \in DOMAIN main => r["Cookie"] = main["Cookie"]

=============================================================================
