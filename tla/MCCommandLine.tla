---------------------------- MODULE MCCommandLine ----------------------------
(***************************************************************************)
(* A good command line, changed in two flags.                              *)
(***************************************************************************)
EXTENDS Integers, Sequences

CONSTANT Now

VARIABLES flags, pc, urls, date, done, errors

Num(n) == [parses |-> TRUE, value |-> n]
NaN == [parses |-> FALSE, value |-> 1]
NoLimit == [parses |-> FALSE, value |-> -1]
NoFile == [given |-> FALSE, opens |-> TRUE, reads |-> TRUE, lines |-> <<>>]
File(lines) == [NoFile EXCEPT !.given = TRUE, !.lines = lines]

Good ==
  [url |-> <<"good">>, url_file |-> NoFile, request_header |-> <<>>, version |-> "1b3",
   mi_record_size |-> Num(4096), cert_url |-> "https", cert_cbor |-> "", private_key |-> "good",
   size_limit |-> Num(4194304), expiry |-> Num(72), js_expiry |-> Num(12),
   insecure_js_expiry |-> FALSE, validity_dir |-> FALSE, date |-> "now"]

Files ==
  {File(<<>>), File(<<"">>), File(<<"good", "", "good">>), File(<<"good", "malformed">>),
   [File(<<"good">>) EXCEPT !.opens = FALSE], [File(<<"good">>) EXCEPT !.reads = FALSE]}

Others ==
  [url |-> {<<>>, <<"malformed">>, <<"good", "malformed">>, <<"good", "good", "good">>},
   request_header |-> {<<TRUE>>, <<FALSE>>, <<TRUE, FALSE>>}, version |-> {"1b2x"},
   mi_record_size |-> {Num(0), Num(1), Num(-1), NaN}, cert_url |-> {"", "http", "malformed"},
   cert_cbor |-> {"good", "broken"}, private_key |-> {"", "broken"}, size_limit |-> {NoLimit, Num(0), NaN},
   expiry |-> {Num(0), Num(168), Num(169), NaN}, js_expiry |-> {Num(0), Num(24), Num(25), Num(168), Num(169)},
   insecure_js_expiry |-> {TRUE}, validity_dir |-> {TRUE},
   date |-> {"past", "present", "future", "malformed"}]

Changed(base) ==
  UNION {UNION {{[base EXCEPT ![f] = v, ![g] = w] : v \in Others[f], w \in Others[g]}
                  : g \in DOMAIN Others \ {"url"}} : f \in DOMAIN Others}
Flags ==
  Changed(Good)
    \cup UNION {{[f EXCEPT !.url = <<>>, !.url_file = file] : f \in Changed(Good)} : file \in Files}
    \cup {[Good EXCEPT !.url_file = File(<<"good">>)]}

INSTANCE CommandLine WITH AllFlags <- Flags

-----------------------------------------------------------------------------
\* What the descriptions of the flags rule out.
Bad(f) ==
  Unless(f.private_key = "good", "private_key") \cup Unless(f.cert_url = "https", "cert_url")
    \cup Unless(f.expiry.parses /\ f.expiry.value \in 1..168, "expiry")
    \cup Unless(f.js_expiry.parses /\ f.js_expiry.value \in 1..(IF f.insecure_js_expiry THEN 168 ELSE 24),
                "js_expiry")
    \cup Unless(f.size_limit = NoLimit \/ (f.size_limit.parses /\ f.size_limit.value > 0), "size_limit")
    \cup Unless(f.mi_record_size.parses /\ f.mi_record_size.value > 0, "mi_record_size")

\* Wrong flags of the configuration are all reported at once, and nothing is
\* packaged with one of them or for a date to come.
WrongFlagsReported ==
  /\ pc \in {"date", "package"} \/ done # <<>> => Bad(flags) = {}
  /\ pc = "exit" /\ urls # <<>> /\ done = <<>> /\ errors \cap {"date"} = {} => Bad(flags) \subseteq errors
  /\ done # <<>> => date # NoDate /\ date <= Now

\* Every URL gets its turn, whatever becomes of those before it, and the command
\* succeeds exactly when all of them do.
EveryURLPackaged ==
  pc = "exit" =>
    /\ done = <<>> \/ Len(done) = Len(urls)
    /\ errors = {} <=> done # <<>> /\ \A i \in DOMAIN done : done[i]

=============================================================================
