-------------------------------- MODULE Links --------------------------------
(***************************************************************************)
(* Link headers (resource/httplink): a link's parameters are parsed from   *)
(* header text, normalized, compared, and written again in the headers of  *)
(* the signed exchange.                                                    *)
(*                                                                         *)
(* A value is a sequence of characters: "p" and "P" stand for the relation *)
(* type "preload" in lower and in upper case, "q" is a quotation mark.     *)
(***************************************************************************)
EXTENDS Naturals, Sequences, SequencesExt, FiniteSets, TLC

CONSTANTS
  Chars,        \* characters of values
  MaxRel, MaxLength,   \* bounds: characters of a rel value, of another value
  Keys          \* parameter names in use

VARIABLES header, link, text, again

vars == <<header, link, text, again>>

ToLower(v) == [i \in DOMAIN v |-> IF v[i] = "P" THEN "p" ELSE v[i]]

\* strings.Fields: the maximal runs without spaces; Join puts one space between.
Fields(v) ==
  LET Add(fs, c) ==
        IF c = " " THEN (IF Last(fs) = <<>> THEN fs ELSE Append(fs, <<>>))
        ELSE Front(fs) \o <<Append(Last(fs), c)>>
  IN  SelectSeq(FoldLeft(Add, << <<>> >>, v), LAMBDA f : f # <<>>)
Join(fs) ==
  FoldLeft(LAMBDA s, f : IF s = <<>> THEN f ELSE s \o <<" ">> \o f, <<>>, fs)

Anonymous == <<"anonymous">>

normalizeValue(key, val) ==
  CASE key = "rel" -> Join(Fields(ToLower(val)))
    [] key = "crossorigin" /\ val = <<>> -> Anonymous
    [] key \in {"as", "type", "crossorigin"} -> ToLower(val)
    [] OTHER -> val

\* LinkParams.Set.
Set(params, key, val) ==
  [k \in DOMAIN params \cup {key} |-> IF k = key THEN normalizeValue(key, val) ELSE params[k]]

IsPreload(params) == "rel" \in DOMAIN params /\ <<"p">> \in ToSet(Fields(ToLower(params["rel"])))

-----------------------------------------------------------------------------
(* LinkParams.write: the parameters, rel first and the others in alphabetical *)
(* order, whatever order the map yields its keys in.                         *)

Alphabet == <<"as", "crossorigin", "media", "rel", "type">>
Rank(k) == CHOOSE i \in DOMAIN Alphabet : Alphabet[i] = k

Before(k1, k2) == k2 # "rel" /\ (k1 = "rel" \/ Rank(k1) < Rank(k2))

\* Mutant: a crossorigin parameter never has its value written.
shouldElideValue_Always(key, val) == key = "crossorigin"

shouldElideValue(key, val) == key = "crossorigin" /\ val = Anonymous

\* The %q verb: quotation marks are escaped.
Quoted(val) ==
  FoldLeft(LAMBDA s, c : s \o (IF c = "q" THEN <<"\\", "q">> ELSE <<c>>), <<>>, val)

\* keys: the order in which the map is iterated.
write(params, keys) ==
  LET sorted == SortSeq(keys, Before)
  IN  [i \in DOMAIN sorted |->
         [key |-> sorted[i],
          val |-> IF shouldElideValue(sorted[i], params[sorted[i]]) THEN <<>>
                  ELSE <<"q">> \o Quoted(params[sorted[i]]) \o <<"q">>]]

\* Parse: a value in quotation marks loses them and every backslash in it.
Unquoted(val) ==
  IF val # <<>> /\ val[1] = "q"
  THEN SelectSeq(SubSeq(val, 2, Len(val) - 1), LAMBDA c : c # "\\")
  ELSE val

Parse(params) ==
  FoldLeft(LAMBDA p, kv : Set(p, kv.key, Unquoted(kv.val)), <<>>, params)

-----------------------------------------------------------------------------
Values(max) == UNION {[1..n -> Chars] : n \in 0..max}
Orders(S) == {s \in [1..Cardinality(S) -> S] : ToSet(s) = S}

\* A header with a rel parameter and other parameters, each written in quotes.
Headers ==
  {<<[key |-> "rel", val |-> <<"q">> \o Quoted(v) \o <<"q">>],
     [key |-> k, val |-> <<"q">> \o Quoted(w) \o <<"q">>]>> : 
       k \in Keys, v \in Values(MaxRel), w \in Values(MaxLength)}
    \cup {<<[key |-> k, val |-> <<>>], [key |-> "rel", val |-> <<"P">>],
            [key |-> l, val |-> <<"P">>]>> : k \in Keys, l \in Keys}

Unset == <<"unset">>

Init == header \in Headers /\ link = Unset /\ text = Unset /\ again = Unset

ParseHeader ==
  /\ link = Unset
  /\ link' = Parse(header)
  /\ UNCHANGED <<header, text, again>>

String ==
  /\ link # Unset /\ text = Unset
  /\ \E keys \in Orders(DOMAIN link) : text' = write(link, keys)
  /\ UNCHANGED <<header, link, again>>

ParseAgain ==
  /\ text # Unset /\ again = Unset
  /\ again' = Parse(text)
  /\ UNCHANGED <<header, link, text>>

Next == ParseHeader \/ String \/ ParseAgain

Spec == Init /\ [][Next]_vars

-----------------------------------------------------------------------------
\* What is written for a link is read back as an equal link, so AddPreload finds
\* a preload that is already there: normalization is idempotent and the escaped
\* and the elided values are restored.
ReadsBack == again # Unset => again = link

\* One link is always written the same way, whatever order Go iterates its
\* parameters in: the header integrity of a signed exchange depends on it.
WrittenOneWay ==
  text # Unset =>
    /\ "rel" \in DOMAIN link => text[1].key = "rel"
    /\ \A i, j \in DOMAIN text :
         i < j /\ text[i].key # "rel" => Rank(text[i].key) < Rank(text[j].key)

\* A link is taken for a preload exactly if one of the relation types in the
\* header is "preload" in any case, and normalization does not change that.
PreloadRecognized ==
  link # Unset =>
    LET rel == (CHOOSE kv \in ToSet(header) : kv.key = "rel").val IN
    /\ IsPreload(link) <=>
         (\E f \in ToSet(Fields(Unquoted(rel))) : f \in {<<"p">>, <<"P">>})
    /\ IsPreload(link) <=> <<"p">> \in ToSet(Fields(link["rel"]))

=============================================================================
