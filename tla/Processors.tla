----------------------------- MODULE Processors -----------------------------
(***************************************************************************)
(* The processors that a fetched response goes through before it is signed *)
(* (processor/...), the HTML tasks among them, and the rule for the valid  *)
(* period that reads what they found (exchange/vprule).                    *)
(*                                                                         *)
(* An HTML document is its nodes in document order, each with its depth; a *)
(* link is a URL and its "as" parameter.                                   *)
(***************************************************************************)
EXTENDS Integers, Sequences, SequencesExt, FiniteSets

CONSTANTS
  Responses,          \* what may be fetched
  GoodStatusCodes,
  MaxContentLength,   \* preverify.Config; 0 is the default, negative no limit
  DefaultMaxContentLength,
  MaxNumPreloads,     \* maxNumPreloads
  PreloadCSS, PreloadJS,
  Expiry, JSExpiry

VARIABLES
  fetched,    \* the response as it was fetched
  resp,       \* the response: [status, length, ctype, links, other, doc, preloads, subtypes, nosniff]
  step,       \* the processor that runs next, 0 after an error
  lifetime    \* of the valid period, once it is known

vars == <<fetched, resp, step, lifetime>>

-----------------------------------------------------------------------------
(* exchange.Response *)

AddPreload(preloads, link) ==
  IF link \in ToSet(preloads) THEN preloads ELSE Append(preloads, link)

AddAll(preloads, links) == FoldLeft(LAMBDA ps, l : AddPreload(ps, l), preloads, links)

-----------------------------------------------------------------------------
(* preverify and commonproc. A processor maps a response to a response; an    *)
(* error is the empty record.                                                *)

Error == <<>>

HTTPStatusCode(r) == r.status \in GoodStatusCodes

Limit == IF MaxContentLength = 0 THEN DefaultMaxContentLength ELSE MaxContentLength

WithinContentLength(r) == r.length <= Limit

CheckPrerequisites(r) ==
  IF HTTPStatusCode(r) /\ (MaxContentLength >= 0 => WithinContentLength(r)) THEN r ELSE Error

\* ExtractPreloadHeaders. A Link header is a sequence of links; one that does not
\* parse is ignored. Links other than preloads are dropped.
PreloadHeaders(headers) ==
  FlattenSeq([i \in DOMAIN headers |->
    IF headers[i].malformed THEN <<>>
    ELSE SelectSeq(headers[i].links, LAMBDA l : l.preload)])

Allowed(headers) ==
  LET links == PreloadHeaders(headers)
  IN  SubSeq(links, 1, IF Len(links) < MaxNumPreloads THEN Len(links) ELSE MaxNumPreloads)

ExtractPreloadHeaders(r) ==
  LET links == Allowed(r.links) IN
  [r EXCEPT !.links = <<>>,
            !.preloads = AddAll(@, [i \in DOMAIN links |-> links[i].link])]

\* ContentTypeProcessor. The type that DetectContentType finds is external.
ContentTypeProcessor(r) ==
  [r EXCEPT !.nosniff = TRUE, !.ctype = IF @ = "" THEN r.sniffed ELSE @]

\* Stateful and hop-by-hop headers.
UncachedHeaders == {"hop-by-hop", "set-cookie", "authentication"}

RemoveUncachedHeaders(r) == [r EXCEPT !.other = @ \ UncachedHeaders]

-----------------------------------------------------------------------------
(* htmldoc *)

\* Traverse: the nodes that are visited, in order, when the visitor answers "go",
\* "skip" (what is below the node) or "stop" as the function then says.
Traverse(doc, then) ==
  LET Visit(t, node) ==
        IF t.stopped \/ (t.skip > 0 /\ node.depth > t.skip) THEN t
        ELSE [nodes |-> Append(t.nodes, node), stopped |-> then[node] = "stop",
              skip |-> IF then[node] = "skip" THEN node.depth ELSE 0]
  IN  FoldLeft(Visit, [nodes |-> <<>>, stopped |-> FALSE, skip |-> 0], doc).nodes

\* A visitor that goes on everywhere.
TraverseAll(doc) == Traverse(doc, [n \in ToSet(doc) |-> "go"])

\* FindNode, for the elements of <head>.
InHead(doc) == SelectSeq(doc, LAMBDA n : n.head)

\* NewDocument's BaseURL: the first <base> in <head>; without a usable href it
\* is the document's own URL.
getBaseURL(doc) ==
  LET bases == SelectSeq(InHead(doc), LAMBDA n : n.tag = "base")
  IN  IF bases = <<>> \/ bases[1].href = "none" THEN "self" ELSE bases[1].href

\* resolveURLAttr.
Resolve(doc, href) == <<getBaseURL(doc), href>>

-----------------------------------------------------------------------------
(* htmltask. Each task maps a document and a response to a response. *)

\* Mutant: a script with a type attribute is not looked at.
SubContentType_Untyped(n) ==
  IF n.tag = "script" /\ n.href = "none" /\ n.type = "" THEN {"application/javascript"} ELSE {}

SubContentType(n) ==
  CASE n.tag = "math" -> {"application/mathml+xml"}
    [] n.tag = "svg" -> {"image/svg+xml"}
    [] n.tag = "style" -> {IF n.type = "" THEN "text/style" ELSE n.type}
    [] n.tag = "script" /\ n.href = "none" ->
         {IF n.type = "" THEN "application/javascript" ELSE n.type}
    [] OTHER -> {}

ExtractSubContentTypes(r) ==
  [r EXCEPT !.subtypes = @ \cup UNION {SubContentType(n) : n \in ToSet(TraverseAll(r.doc))}]

\* AddPreload for each of the nodes; as is its "as" parameter, unless the node has one.
PreloadNodes(r, nodes, as) ==
  [r EXCEPT !.preloads = AddAll(@, [i \in DOMAIN nodes |->
     [url |-> Resolve(r.doc, nodes[i].href), as |-> IF as = "" THEN nodes[i].as ELSE as]])]

ExtractPreloadTags(r) ==
  PreloadNodes(r, SelectSeq(TraverseAll(r.doc),
                            LAMBDA n : n.tag = "link" /\ n.href # "none" /\ "preload" \in n.rel), "")

isStylesheet(n) == n.tag = "link" /\ "stylesheet" \in n.rel /\ "alternate" \notin n.rel

\* preloadStylesheets.Run.
PreloadStylesheets(r) ==
  PreloadNodes(r, SelectSeq(TraverseAll(InHead(r.doc)), LAMBDA n : isStylesheet(n) /\ n.href # "none"),
               "style")

SkipElements == {"base", "link", "meta", "noscript", "style", "title"}
StopElements == {"applet", "audio", "button", "embed", "iframe", "img", "input", "meter",
                 "object", "select", "textarea", "video"}

\* Mutant: what renders content is skipped like what does not.
Then_NeverStops(n) ==
  IF n.tag \in {"script", "space"} \cup SkipElements \cup StopElements THEN "skip" ELSE "go"

\* How preloadScripts goes on after a node.
Then(n) ==
  IF n.tag \in {"script", "space"} \cup SkipElements THEN "skip"
  ELSE IF n.tag \in {"text"} \cup StopElements THEN "stop" ELSE "go"

\* preloadScripts.Run with handleScript.
InsecurePreloadScripts(r) ==
  PreloadNodes(r, SelectSeq(Traverse(r.doc, [n \in ToSet(r.doc) |-> Then(n)]),
                            LAMBDA n : n.tag = "script" /\ ~n.deferred /\ n.href # "none"), "script")

\* htmlProcessor.Process with the task set of the server's and the command line's
\* configuration.
HTMLProcessor(r) ==
  LET r1 == ExtractPreloadTags(ExtractSubContentTypes(r))
      r2 == IF PreloadCSS THEN PreloadStylesheets(r1) ELSE r1
  IN  IF PreloadJS THEN InsecurePreloadScripts(r2) ELSE r2

\* The main processor is a MultiplexedProcessor: it goes by the Content-Type.
MainProcessor(r) == IF r.ctype \in {"text/html", "application/xhtml+xml"} THEN HTMLProcessor(r) ELSE r

-----------------------------------------------------------------------------
(* vprule *)

JavaScriptTypes == {"application/javascript", "application/x-javascript", "text/javascript"}

PerContentType(r) ==
  IF r.ctype \in JavaScriptTypes \/ r.subtypes \cap JavaScriptTypes # {}
  THEN JSExpiry ELSE Expiry

-----------------------------------------------------------------------------
(* NewComprehensiveProcessor: the processors one after the other, then        *)
(* createExchange asks for the valid period.                                 *)

Unknown == -1
Init ==
  /\ fetched \in Responses
  /\ resp = fetched /\ step = 1 /\ lifetime = Unknown

\* The processors of the sequence.
Processor(i, r) ==
  CASE i = 1 -> CheckPrerequisites(r)
    [] i = 2 -> ExtractPreloadHeaders(r)
    [] i = 3 -> MainProcessor(r)
    [] i = 4 -> ContentTypeProcessor(r)
    [] i = 5 -> RemoveUncachedHeaders(r)

\* SequentialProcessor.Process: the next processor runs; an error ends it.
Process ==
  /\ step \in 1..5
  /\ LET r == Processor(step, resp) IN
     IF r = Error THEN step' = 0 /\ UNCHANGED resp ELSE step' = step + 1 /\ resp' = r
  /\ UNCHANGED <<fetched, lifetime>>

ValidPeriod ==
  /\ step = 6 /\ lifetime = Unknown
  /\ lifetime' = PerContentType(resp)
  /\ UNCHANGED <<fetched, resp, step>>

Next == Process \/ ValidPeriod

Spec == Init /\ [][Next]_vars

=============================================================================
