------------------------------ MODULE Fetching ------------------------------
(***************************************************************************)
(* From a document URL that the server is asked to sign to the requests    *)
(* that leave it: parseSignURL, the request tweakers, the selector made of *)
(* the [[Sign]] sections, and the URL matchers it is made of.              *)
(*                                                                         *)
(* A URL is [scheme, user, host, path, query, fragment]; the host is a     *)
(* sequence of characters, the path is as in Paths, and the query is a     *)
(* sequence of characters and of escapes such as "%20".                    *)
(***************************************************************************)
EXTENDS Naturals, Sequences, Paths

CONSTANTS
  SignURLs,       \* document URLs that requests name
  PreloadURLs,    \* URLs that documents preload
  MainHeaders,    \* headers that the request for a main resource may come with
  Allow, Deny,    \* the selector
  Tweakers,       \* the RequestTweakerSequence
  Keys,           \* of CopyParentHeaders
  CustomHeaders,  \* of SetCustomHeaders
  MaxRequests     \* bound: the main resource and its subresources

VARIABLES
  asked,     \* the URL to be signed
  requests,  \* requests of the run: [url, header, parent, fetched]
  active,    \* the tasks that run, a stack of requests
  reply      \* the reply to a request that is not run

vars == <<asked, requests, active, reply>>

-----------------------------------------------------------------------------
(* urlmatcher *)

\* ASCII letters are folded; the letter "e'" stands for those that are not ASCII.
asciiToLower(b) == CASE b = "A" -> "a" [] b = "B" -> "b" [] OTHER -> b
asciiEqualFold(s, t) ==
  Len(s) = Len(t) /\ \A i \in 1..Len(s) : asciiToLower(s[i]) = asciiToLower(t[i])

HasScheme(u, scheme) == u.scheme = scheme
HasHostname(u, hostname) == asciiEqualFold(u.host, hostname)

\* A regular expression is the set of what it matches, cut down to what starts
\* with a path.
HasEscapedPathPrefix(u, prefix) == IsPrefix(prefix, u.path)
HasRawQueryRegexp(u, queries) == u.query \in queries

\* The matcher of a [[Sign]] section is AllOf its domain, path and query.
AndMatcher(m, u) ==
  /\ HasScheme(u, "https") /\ HasHostname(u, m.domain)
  /\ HasEscapedPathPrefix(u, m.path) /\ HasRawQueryRegexp(u, m.query)
OrMatcher(ms, u) == \E i \in DOMAIN ms : AndMatcher(ms[i], u)

\* Selector.Match.
Selector(u) == (Allow = <<>> \/ OrMatcher(Allow, u)) /\ ~OrMatcher(Deny, u)

-----------------------------------------------------------------------------
(* The document URL. *)

\* url.PathEscape. "%" itself is escaped, and so are escapes.
PathEscape(q) ==
  FlattenSeq([i \in DOMAIN q |->
    CASE q[i] = "<" -> <<"%3C">> [] q[i] = "%20" -> <<"%25", "2", "0">> [] OTHER -> <<q[i]>>])

Accepted(u) == u.scheme = "https" /\ ~u.user /\ ~u.fragment

\* Mutant: the path is not cleaned.
parseSignURL_Raw(u) == [u EXCEPT !.query = PathEscape(@)]

parseSignURL(u) == [u EXCEPT !.path = GetCleanPath(@), !.query = PathEscape(@)]

-----------------------------------------------------------------------------
(* Request tweakers: each yields the header of a request whose parent has    *)
(* been sent already.                                                        *)

\* Mutant: the referrer of all subresources is the main resource.
SetReferer_Main(header, parent) ==
  IF parent = 0 THEN header
  ELSE [h \in DOMAIN header \cup {"Referer"} |->
          IF h = "Referer" THEN requests[1].url ELSE header[h]]

SetReferer(header, parent) ==
  IF parent = 0 THEN header
  ELSE [h \in DOMAIN header \cup {"Referer"} |->
          IF h = "Referer" THEN requests[parent].url ELSE header[h]]

CopyParentHeaders(header, parent) ==
  IF parent = 0 THEN header
  ELSE LET from == requests[parent].header IN
       [h \in DOMAIN header \cup (Keys \cap DOMAIN from) |->
          IF h \in Keys \cap DOMAIN from THEN from[h] ELSE header[h]]

SetCustomHeaders(header) ==
  [h \in DOMAIN header \cup DOMAIN CustomHeaders |->
     IF h \in DOMAIN CustomHeaders THEN CustomHeaders[h] ELSE header[h]]

\* RequestTweakerSequence.Tweak.
Tweak(header, parent) ==
  FoldLeft(LAMBDA h, t : CASE t = "SetReferer" -> SetReferer(h, parent)
                           [] t = "CopyParentHeaders" -> CopyParentHeaders(h, parent)
                           [] t = "SetCustomHeaders" -> SetCustomHeaders(h),
           header, Tweakers)

-----------------------------------------------------------------------------
NoURL == <<>>
Init == asked = NoURL /\ requests = <<>> /\ active = <<>> /\ reply = "none"

\* withSelector.Do for a request of a task; the task ends when it fails.
Do(u, header, parent) ==
  /\ requests' = Append(requests, [url |-> u, header |-> Tweak(header, parent), parent |-> parent,
                                   fetched |-> Selector(u)])
  /\ active' = IF Selector(u) THEN Append(active, Len(requests')) ELSE active

\* handleDocImpl up to the fetch of the main resource, for a request that accepts
\* signed exchanges; an error of the selector is a client error.
handleDocImpl(u, header) ==
  /\ asked = NoURL
  /\ asked' = u
  /\ IF Accepted(u)
     THEN Do(parseSignURL(u), header, 0) /\ reply' = IF Selector(parseSignURL(u)) THEN "none" ELSE "400"
     ELSE reply' = "400" /\ UNCHANGED <<requests, active>>

\* A task for a resource that the document being processed preloads.
RunSubresource(u) ==
  /\ active # <<>> /\ Len(requests) < MaxRequests
  /\ \A i \in DOMAIN active : requests[active[i]].url # u
  /\ Do(u, <<>>, Last(active))
  /\ UNCHANGED <<asked, reply>>

Return ==
  /\ active # <<>>
  /\ active' = Front(active)
  /\ UNCHANGED <<asked, requests, reply>>

Next ==
  \/ \E u \in SignURLs, header \in MainHeaders : handleDocImpl(u, header)
  \/ \E u \in PreloadURLs : RunSubresource(u)
  \/ Return

Spec == Init /\ [][Next]_vars

=============================================================================
