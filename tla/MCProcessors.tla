---------------------------- MODULE MCProcessors ----------------------------
(***************************************************************************)
(* Responses of all kinds go through the processors.                       *)
(***************************************************************************)
EXTENDS Integers, Sequences, SequencesExt, FiniteSets

CONSTANTS
  GoodStatusCodes, MaxContentLength, DefaultMaxContentLength, MaxNumPreloads,
  PreloadCSS, PreloadJS, Expiry, JSExpiry,
  MaxHead, MaxBody, MaxElements   \* bounds: elements in <head>, in <body> and in both

VARIABLES fetched, resp, step, lifetime

ContentTypes == {"text/html", "application/xhtml+xml", ""}
ScriptTypes == {"", "text/javascript", "module", "application/ld+json"}

Node(tag, depth) ==
  [tag |-> tag, depth |-> depth, head |-> FALSE, href |-> "none", rel |-> {}, as |-> "",
   type |-> "", deferred |-> FALSE]
LinkNode(rel, href, as, depth) ==
  [Node("link", depth) EXCEPT !.rel = rel, !.href = href, !.as = as]
Script(href, type, deferred, depth) ==
  [Node("script", depth) EXCEPT !.href = href, !.type = type, !.deferred = deferred]

\* Elements with what is in them.
Anywhere ==
  {<<LinkNode({"preload"}, "h1", "style", 4)>>, <<Script("h2", "", FALSE, 4)>>}
    \cup {<<Script("none", t, FALSE, 4)>> : t \in ScriptTypes}
HeadElements ==
  Anywhere \cup
    {<<LinkNode({"stylesheet"}, "h1", "", 4)>>, <<LinkNode({"stylesheet", "alternate"}, "h1", "", 4)>>,
     <<[Node("base", 4) EXCEPT !.href = "b"]>>, <<Script("h2", "", TRUE, 4)>>}
BodyElements ==
  Anywhere \cup
    {<<Node("space", 4)>>, <<Node("text", 4)>>, <<Node("img", 4)>>, <<Node("svg", 4)>>,
     <<Node("noscript", 4), Node("text", 5)>>, <<Node("div", 4), Node("text", 5)>>,
     <<Node("div", 4), Script("h3", "", FALSE, 5)>>}

Upto(n, S) == UNION {[1..k -> S] : k \in 0..n}
Document(h, b) ==
  <<Node("document", 1), Node("html", 2), Node("head", 3)>>
    \o [i \in DOMAIN FlattenSeq(h) |-> [FlattenSeq(h)[i] EXCEPT !.head = TRUE]]
    \o <<Node("body", 3)>> \o FlattenSeq(b)
Documents ==
  UNION {{Document(h, b) : b \in {b \in Upto(MaxBody, BodyElements) : Len(h) + Len(b) <= MaxElements}} :
           h \in Upto(MaxHead, HeadElements)}

Preload(href, as) == [preload |-> TRUE, link |-> [url |-> <<"self", href>>, as |-> as]]
NonPreload == [preload |-> FALSE, link |-> [url |-> <<"self", "h1">>, as |-> ""]]
Header(links) == [malformed |-> FALSE, links |-> links]
LinkHeaders ==
  {<<>>, <<Header(<<Preload("h1", "style"), NonPreload>>)>>,
   <<Header(<<Preload("h1", "style"), Preload("h4", "")>>), Header(<<Preload("h3", "script")>>)>>,
   <<[malformed |-> TRUE, links |-> <<>>], Header(<<Preload("h1", "style"), Preload("h1", "style")>>)>>}

Response(status, length, ctype, other, links, doc) ==
  [status |-> status, length |-> length, ctype |-> ctype, sniffed |-> "text/html",
   links |-> links, other |-> other, doc |-> doc, preloads |-> <<>>, subtypes |-> {},
   nosniff |-> FALSE]

Plain == <<Node("document", 1), Node("html", 2), Node("head", 3), Node("body", 3)>>

AllResponses ==
  {Response(s, n, t, o, l, Plain) :
     s \in {200, 404}, n \in 0..DefaultMaxContentLength + 1, t \in ContentTypes \cup {"text/javascript"},
     o \in SUBSET {"hop-by-hop", "set-cookie", "authentication", "cache-control"}, l \in LinkHeaders}
    \cup {Response(200, 1, "text/html", {}, l, d) : l \in LinkHeaders, d \in Documents}
    \cup {Response(200, 1, t, {}, <<>>, d) : t \in ContentTypes, d \in Documents}

INSTANCE Processors WITH Responses <- AllResponses

-----------------------------------------------------------------------------
Processed == step = 6

\* The headers yield no more than maxNumPreloads preloads, however many headers
\* they are spread over, and no Link header is left to be signed as it is.
HeaderPreloadsLimited ==
  step = 3 => Len(resp.preloads) <= MaxNumPreloads /\ resp.links = <<>>

\* A preload is requested once, whether headers, tags, stylesheets or scripts of
\* the document ask for it: AddPreload recognizes what is there.
NoDuplicatePreloads == Cardinality(ToSet(resp.preloads)) = Len(resp.preloads)

\* The scripts that InsecurePreloadScripts adds are exactly those loaded in a
\* blocking manner before the first node that renders content; what is in
\* <noscript> does not render.
Hidden(doc, j) ==
  \E i \in 1..j - 1 : doc[i].tag = "noscript" /\ \A k \in i + 1 .. j : doc[k].depth > doc[i].depth
BlockingScripts(doc) ==
  {[url |-> Resolve(doc, doc[i].href), as |-> "script"] : i \in
     {i \in DOMAIN doc : /\ doc[i].tag = "script" /\ doc[i].href # "none" /\ ~doc[i].deferred
                         /\ ~Hidden(doc, i)
                         /\ \A j \in 1..i - 1 : doc[j].tag \in {"text", "img"} => Hidden(doc, j)}}
TopScriptsPreloaded ==
  Processed /\ PreloadJS /\ fetched.links = <<>> /\ fetched.ctype = "text/html" =>
    {p \in ToSet(resp.preloads) : p.as = "script"} = BlockingScripts(fetched.doc)

\* Stylesheets of <head> are preloaded and alternate ones are not.
StylesheetsPreloaded ==
  Processed /\ PreloadCSS /\ fetched.links = <<>> /\ fetched.ctype = "text/html" =>
    LET Styles(rel) == {Resolve(fetched.doc, n.href) :
                          n \in {n \in ToSet(InHead(fetched.doc)) : n.tag = "link" /\ n.rel = rel}}
        preloaded == {p.url : p \in {p \in ToSet(resp.preloads) : p.as = "style"}}
    IN  /\ Styles({"stylesheet"}) \subseteq preloaded
        /\ preloaded \subseteq Styles({"stylesheet"})
             \cup {Resolve(fetched.doc, n.href) : n \in {n \in ToSet(fetched.doc) : n.rel = {"preload"}}}

\* What is signed has a Content-Type that browsers do not second-guess and no
\* stateful or hop-by-hop header.
SignableHeaders ==
  Processed =>
    /\ resp.nosniff /\ resp.ctype # ""
    /\ resp.other \cap {"hop-by-hop", "set-cookie", "authentication"} = {}

\* JSExpiry "is applied to JavaScript resources and HTML documents with inline
\* JavaScript": the shorter lifetime is the one for every document that has a
\* script of its own. (Modules are not taken for JavaScript, and in a document
\* fetched without a Content-Type nobody looks for scripts.)
InlineJS(doc) ==
  \E n \in ToSet(doc) : n.tag = "script" /\ n.href = "none" /\ n.type \in JavaScriptTypes \cup {""}
JSGetsJSExpiry ==
  lifetime # Unknown =>
    (lifetime = JSExpiry <=>
       \/ resp.ctype \in JavaScriptTypes
       \/ fetched.ctype \in {"text/html", "application/xhtml+xml"} /\ InlineJS(fetched.doc))

=============================================================================
