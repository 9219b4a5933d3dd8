----------------------------- MODULE CommandLine -----------------------------
(***************************************************************************)
(* The webpackager command: it turns its flags into a list of URLs, a      *)
(* configuration and a date, and packages the URLs one after the other.    *)
(*                                                                         *)
(* A flag's value is what the code tells apart: whether it is given,       *)
(* parses, or names a file that can be read; a duration is in hours.       *)
(***************************************************************************)
EXTENDS Integers, Sequences, FiniteSets, Functions

CONSTANTS
  AllFlags,   \* what flag.Parse may yield
  Now         \* the time

VARIABLES
  flags,
  pc,         \* "urls", "config", "date", "package", "exit"
  urls,       \* the URLs to package
  date,
  done,       \* what Packager.Run returned for each URL
  errors      \* what the errors are about

vars == <<flags, pc, urls, date, done, errors>>

Unless(good, what) == IF good THEN {} ELSE {what}

-----------------------------------------------------------------------------
(* flag_urllist. A URL is "good" or "malformed"; a line of a file is a URL, or *)
(* "" when nothing but blanks precedes a comment or the end.                   *)

readLines(lines) ==
  LET kept == {i \in DOMAIN lines : lines[i] # ""}
      Line(n) == CHOOSE i \in kept : Cardinality({j \in kept : j <= i}) = n
  IN  [n \in 1..Cardinality(kept) |-> lines[Line(n)]]

\* getURLStringList: the URLs and the errors.
getURLStringList(f) ==
  IF ~f.url_file.given THEN [urls |-> f.url, errors |-> {}]
  ELSE IF f.url # <<>> THEN [urls |-> <<>>, errors |-> {"url and url_file"}]
  ELSE IF ~f.url_file.opens THEN [urls |-> <<>>, errors |-> {"url_file"}]
  ELSE [urls |-> readLines(f.url_file.lines), errors |-> Unless(f.url_file.reads, "url_file")]

getURLListFromFlags ==
  LET list == getURLStringList(flags)
      errs == IF list.errors # {} THEN list.errors
              ELSE Unless(list.urls # <<>>, "no urls") \cup Unless("malformed" \notin Range(list.urls), "url")
  IN  /\ pc = "urls"
      /\ errors' = errs
      /\ pc' = IF errs = {} THEN "config" ELSE "exit"
      /\ urls' = IF errs = {} THEN list.urls ELSE <<>>
      /\ UNCHANGED <<flags, date, done>>

-----------------------------------------------------------------------------
(* flag_packager *)

maxExpiry == 168
maxGoodJSExpiry == 24

\* Numbers and durations are [parses, value]; "none" is no limit.
NoSizeLimit == [parses |-> FALSE, value |-> -1]
parseByteSize(s) == s.parses /\ s.value > 0
parseDuration(s, max) == s.parses /\ s.value > 0 /\ s.value <= max
parseSizeLimit(s) == s = NoSizeLimit \/ parseByteSize(s)
parseCertURL(s) == s = "https"

\* A header is whether it has a colon.
getRequestTweakerFromFlags(f) == Unless(\A i \in DOMAIN f.request_header : f.request_header[i], "request_header")
getProcessorFromFlags(f) == Unless(parseSizeLimit(f.size_limit), "size_limit")
getValidPeriodRuleFromFlags(f) ==
  Unless(parseDuration(f.expiry, maxExpiry), "expiry")
    \cup Unless(parseDuration(f.js_expiry, IF f.insecure_js_expiry THEN maxExpiry ELSE maxGoodJSExpiry),
                "js_expiry")
getResourceCacheFromFlags(f) == Unless(~f.validity_dir, "validity_dir")

\* getExchangeFactoryFromFlags, with the outcome of FetchAugmentedChain. The
\* variable err keeps an error of an earlier flag when there is no place to load
\* the chain from.
getExchangeFactoryFromFlags(f, fetched) ==
  LET size == parseByteSize(f.mi_record_size)
      certURL == f.cert_url # "" /\ parseCertURL(f.cert_url)
      stale == IF f.cert_url = "" THEN size ELSE certURL
      loaded == IF f.cert_cbor # "" THEN f.cert_cbor = "good" ELSE IF certURL THEN fetched ELSE stale
  IN  Unless(f.version = "1b3", "version") \cup Unless(size, "mi_record_size")
        \cup Unless(certURL, "cert_url") \cup Unless(loaded, "cert chain")
        \cup Unless(f.private_key = "good", "private_key")

\* The errors of all parts of the configuration; two parts never fail.
AllErrors(f, fetched) ==
  getRequestTweakerFromFlags(f) \cup getProcessorFromFlags(f) \cup getValidPeriodRuleFromFlags(f)
    \cup getExchangeFactoryFromFlags(f, fetched) \cup getResourceCacheFromFlags(f)

getConfigFromFlags ==
  /\ pc = "config"
  /\ \E fetched \in BOOLEAN : errors' = AllErrors(flags, fetched)
  /\ pc' = IF errors' = {} THEN "date" ELSE "exit"
  /\ UNCHANGED <<flags, urls, date, done>>

-----------------------------------------------------------------------------
(* flag_date and main *)

getDateFromFlags ==
  /\ pc = "date"
  /\ LET t == IF flags.date = "now" THEN Now
              ELSE CASE flags.date = "past" -> Now - 1 [] flags.date = "present" -> Now [] OTHER -> Now + 1
         good == flags.date # "malformed" /\ t <= Now
     IN  /\ errors' = Unless(good, "date")
         /\ date' = IF good THEN t ELSE date
         /\ pc' = IF good THEN "package" ELSE "exit"
  /\ UNCHANGED <<flags, urls, done>>

\* Mutant: the first URL that fails is the last.
Remaining_Strict(n, ok) == n < Len(urls) /\ ok

\* Whether the loop goes on after n URLs.
Remaining(n, ok) == n < Len(urls)

\* The loop of run.
Package ==
  /\ pc = "package"
  /\ \E ok \in BOOLEAN :
       /\ done' = Append(done, ok)
       /\ errors' = errors \cup Unless(ok, <<"url", Len(done')>>)
       /\ pc' = IF Remaining(Len(done'), ok) THEN "package" ELSE "exit"
  /\ UNCHANGED <<flags, urls, date>>

NoDate == -1
Init ==
  /\ flags \in AllFlags
  /\ pc = "urls" /\ urls = <<>> /\ date = NoDate /\ done = <<>> /\ errors = {}

Next == getURLListFromFlags \/ getConfigFromFlags \/ getDateFromFlags \/ Package

Spec == Init /\ [][Next]_vars

=============================================================================
