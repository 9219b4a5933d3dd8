--------------------------- MODULE Packager_proofs ---------------------------
(***************************************************************************)
(* Proofs about Packager.Run, for any site, number of callers and calls.   *)
(***************************************************************************)
EXTENDS MCPackager, TLAPS, SequenceTheorems, FiniteSetTheorems

-----------------------------------------------------------------------------
(* Stacks: sequences of anything. *)

IsSeq(s) == s \in Seq(Range(s))

\* A sequence over any set is one over the set of its elements.
LEMMA SeqOfAny == ASSUME NEW S, NEW s \in Seq(S) PROVE IsSeq(s)
<1>1. DOMAIN s = 1..Len(s) /\ Len(s) \in Nat
  BY LenProperties
<1>2. \A i \in 1..Len(s) : s[i] \in Range(s)
  BY <1>1 DEF Range
<1>3. s = [i \in 1..Len(s) |-> s[i]]
  BY <1>1, LenProperties
<1>4. s \in [1..Len(s) -> Range(s)]
  BY <1>2, <1>3
<1> QED BY <1>1, <1>4, SeqDef DEF IsSeq

\* What the elements of a sequence are.
LEMMA SeqShape ==
  ASSUME NEW s, IsSeq(s)
  PROVE  /\ Len(s) \in Nat /\ DOMAIN s = 1..Len(s) /\ s = [i \in 1..Len(s) |-> s[i]]
         /\ s = <<>> <=> Len(s) = 0
         /\ Range(s) = {s[i] : i \in 1..Len(s)}
<1>1. Len(s) \in Nat /\ DOMAIN s = 1..Len(s) /\ s \in [1..Len(s) -> Range(s)]
  BY LenProperties DEF IsSeq
<1>2. s = <<>> <=> Len(s) = 0
  BY EmptySeq DEF IsSeq
<1> QED BY <1>1, <1>2 DEF Range

\* The empty sequence.
LEMMA EmptyShape == IsSeq(<<>>) /\ Len(<<>>) = 0 /\ Range(<<>>) = {}
<1>1. IsSeq(<<>>)
  BY EmptySeq, SeqOfAny, Zenon
<1> QED BY <1>1, SeqShape, EmptySeq

\* Append.
LEMMA PushShape ==
  ASSUME NEW s, IsSeq(s), NEW f
  PROVE  LET t == Append(s, f) IN
         /\ IsSeq(t) /\ Len(t) = Len(s) + 1 /\ t[Len(s) + 1] = f /\ t # <<>>
         /\ \A i \in 1..Len(s) : t[i] = s[i]
<1> DEFINE S == Range(s) \cup {f}
           t == Append(s, f)
<1>1. s \in Seq(S)
  BY SeqMonotonic DEF IsSeq
<1>2. /\ t \in Seq(S) /\ Len(t) = Len(s) + 1 /\ t[Len(s) + 1] = f /\ t # <<>>
      /\ \A i \in 1..Len(s) : t[i] = s[i]
  BY ONLY <1>1, f \in S, AppendProperties
<1>3. IsSeq(t)
  BY <1>2, SeqOfAny, Zenon
<1> QED BY <1>2, <1>3

\* Front.
LEMMA FrontShape ==
  ASSUME NEW s, IsSeq(s), s # <<>>
  PROVE  /\ IsSeq(Front(s)) /\ Len(Front(s)) = Len(s) - 1 /\ Len(s) \in Nat \ {0}
         /\ \A i \in 1 .. Len(s) - 1 : Front(s)[i] = s[i]
<1> DEFINE n == Len(s) - 1
<1>1. Len(s) \in Nat \ {0} /\ n \in Int /\ n >= 0
  BY SeqShape
<1>2. \A i \in 1..n : s[i] \in Range(s)
  BY <1>1, SeqShape
<1>3. /\ SubSeq(s, 1, n) \in Seq(Range(s))
      /\ Len(SubSeq(s, 1, n)) = IF 1 <= n THEN n - 1 + 1 ELSE 0
      /\ \A i \in 1 .. n - 1 + 1 : SubSeq(s, 1, n)[i] = s[1 + i - 1]
  BY ONLY <1>1, <1>2, SubSeqProperties
<1>4. IsSeq(SubSeq(s, 1, n))
  BY ONLY <1>3, SeqOfAny, Zenon
<1> DEFINE q == SubSeq(s, 1, n)
<1>5. Len(q) = (IF 1 <= n THEN n - 1 + 1 ELSE 0) /\ \A i \in 1 .. n - 1 + 1 : q[i] = s[1 + i - 1]
  BY <1>3
<1> HIDE DEF q, n
<1>6. n - 1 + 1 = n /\ Len(q) = n
  BY ONLY <1>1, <1>5
<1>7. \A i \in 1..n : 1 + i - 1 = i
  BY ONLY <1>1
<1>8. \A i \in 1..n : q[i] = s[i]
  BY ONLY <1>5, <1>6, <1>7
<1> QED BY <1>1, <1>4, <1>6, <1>8 DEF Front, q, n

\* The last element is replaced.
LEMMA ReplaceShape ==
  ASSUME NEW s, IsSeq(s), s # <<>>, NEW f
  PROVE  LET t == Append(Front(s), f) IN
         /\ IsSeq(t) /\ Len(t) = Len(s) /\ t[Len(s)] = f /\ t # <<>>
         /\ \A i \in 1 .. Len(s) - 1 : t[i] = s[i]
<1>1. IsSeq(Front(s)) /\ Len(Front(s)) = Len(s) - 1 /\ Len(s) \in Nat \ {0}
      /\ \A i \in 1 .. Len(s) - 1 : Front(s)[i] = s[i]
  BY FrontShape
<1> DEFINE r == Front(s)
           t == Append(r, f)
<1> HIDE DEF r
<1>2. IsSeq(t) /\ Len(t) = Len(r) + 1 /\ t[Len(r) + 1] = f /\ t # <<>>
      /\ \A i \in 1..Len(r) : t[i] = r[i]
  BY <1>1, PushShape DEF r
<1> HIDE DEF t
<1>3. IsSeq(t) /\ Len(t) = Len(s) /\ t[Len(s)] = f /\ t # <<>>
      /\ \A i \in 1 .. Len(s) - 1 : t[i] = s[i]
  BY ONLY <1>1, <1>2 DEF r
<1> QED BY <1>3 DEF t, r

\* Concatenation.
LEMMA ConcatShape ==
  ASSUME NEW s, IsSeq(s), NEW t, IsSeq(t)
  PROVE  IsSeq(s \o t) /\ Range(s \o t) = Range(s) \cup Range(t)
<1> DEFINE S == Range(s) \cup Range(t)
           v == s \o t
<1>1. s \in Seq(S) /\ t \in Seq(S)
  BY SeqMonotonic DEF IsSeq
<1>2. v \in Seq(S) /\ Len(v) = Len(s) + Len(t)
      /\ \A i \in 1 .. Len(s) + Len(t) : v[i] = IF i <= Len(s) THEN s[i] ELSE t[i - Len(s)]
  BY ONLY <1>1, ConcatProperties
<1>3. IsSeq(v)
  BY <1>2, SeqOfAny, Zenon
<1>4. Len(s) \in Nat /\ Len(t) \in Nat /\ Range(s) = {s[i] : i \in 1..Len(s)} /\ Range(t) = {t[i] : i \in 1..Len(t)}
  BY SeqShape
<1>5. Range(v) = {v[i] : i \in 1 .. Len(s) + Len(t)}
  BY <1>2, <1>3, SeqShape, Zenon
<1> HIDE DEF v, S
<1>6. \A i \in 1..Len(s) : i \in 1 .. Len(s) + Len(t) /\ v[i] = s[i]
  BY ONLY <1>2, <1>4
<1>7. \A i \in 1..Len(t) : i + Len(s) \in 1 .. Len(s) + Len(t) /\ v[i + Len(s)] = t[i]
  BY ONLY <1>2, <1>4
<1>8. \A i \in 1 .. Len(s) + Len(t) : v[i] \in Range(s) \cup Range(t)
  BY ONLY <1>2, <1>4
<1>9. Range(s) \subseteq Range(v) /\ Range(t) \subseteq Range(v)
  BY ONLY <1>4, <1>5, <1>6, <1>7, Zenon
<1>10. Range(v) \subseteq Range(s) \cup Range(t)
  BY ONLY <1>5, <1>8
<1> QED BY <1>3, <1>9, <1>10 DEF v

-----------------------------------------------------------------------------
(* What a step does to a call of Run. *)

\* The fields that a step may change; the others stay.
View(R, state, errs, stack, result) ==
  [state |-> state, main |-> R.main, cert |-> R.cert, date |-> R.date, stack |-> stack,
   errs |-> errs, result |-> result]

\* A call that is under way, or done.
CallShape(R) ==
  /\ R = View(R, R.state, R.errs, R.stack, R.result)
  /\ R.state \in {"running", "done"} /\ IsSeq(R.stack)
  /\ R.state = "running" <=> R.stack # <<>>

Others(p) == DOMAIN runner' = DOMAIN runner /\ \A q \in DOMAIN runner : q # p => runner'[q] = runner[q]

Errors(p, err) == runner[p].errs \cup {[url |-> Top(p).url, kind |-> k] : k \in err}

\* The task at the top goes on.
Moves(p, g) ==
  /\ Others(p)
  /\ runner'[p] = View(runner[p], "running", runner[p].errs, Append(Front(runner[p].stack), g), runner[p].result)

\* A preload starts; one that would be a loop is skipped.
Pushes(p, u) ==
  /\ Others(p)
  /\ runner'[p] = View(runner[p], "running", runner[p].errs, Append(runner[p].stack, NewTask(u)), runner[p].result)
Skips(p, u) ==
  /\ Others(p)
  /\ runner'[p] = View(runner[p], "running", runner[p].errs \cup {[url |-> u, kind |-> "loop"]},
                       Append(Front(runner[p].stack), Preloaded(Top(p), u, NewResource)), runner[p].result)

\* The task at the top returns: to its caller, or to the task below.
Ends(p, r, err) ==
  /\ Len(runner[p].stack) = 1 /\ Others(p)
  /\ runner'[p] = View(runner[p], "done", Errors(p, err), <<>>, r)
Resumes(p, r, err) ==
  /\ Len(runner[p].stack) > 1 /\ Others(p)
  /\ runner'[p] = View(runner[p], "running", Errors(p, err),
       Append(Front(Front(runner[p].stack)),
              Preloaded(runner[p].stack[Len(runner[p].stack) - 1], Top(p).url, r)),
       runner[p].result)

CallFields == {"state", "main", "cert", "date", "stack", "errs", "result"}

\* A record is what its fields are.
LEMMA ViewIs ==
  ASSUME NEW R, NEW Q, NEW state, NEW errs, NEW stack, NEW result,
         Q = [x \in DOMAIN Q |-> Q[x]], DOMAIN Q = CallFields,
         Q.main = R.main, Q.cert = R.cert, Q.date = R.date,
         Q.state = state, Q.errs = errs, Q.stack = stack, Q.result = result
  PROVE  Q = View(R, state, errs, stack, result)
BY DEF View, CallFields

\* The fields of a call.
LEMMA CallDomain == ASSUME NEW R, CallShape(R) PROVE DOMAIN R = CallFields
BY DEF CallShape, View, CallFields

\* A call with another stack.
LEMMA ViewExcept ==
  ASSUME NEW R, CallShape(R), NEW s
  PROVE  [R EXCEPT !.stack = s] = View(R, R.state, R.errs, s, R.result)
<1>0. DOMAIN R = CallFields
  BY CallDomain
<1> DEFINE Q == [R EXCEPT !.stack = s]
<1>1. Q = [x \in DOMAIN Q |-> Q[x]] /\ DOMAIN Q = CallFields
  BY <1>0
<1>2. Q.main = R.main /\ Q.cert = R.cert /\ Q.date = R.date /\ Q.state = R.state /\ Q.errs = R.errs
      /\ Q.stack = s /\ Q.result = R.result
  BY ONLY <1>0 DEF CallFields
<1> HIDE DEF Q
<1>3. Q = View(R, R.state, R.errs, s, R.result)
  BY ONLY ViewIs, <1>1, <1>2
<1> QED BY <1>3 DEF Q

\* The fields of a view.
LEMMA ViewFields ==
  ASSUME NEW R, NEW state, NEW s, NEW e, NEW r
  PROVE  LET V == View(R, state, e, s, r) IN
         /\ V.state = state /\ V.main = R.main /\ V.cert = R.cert /\ V.date = R.date
         /\ V.stack = s /\ V.errs = e /\ V.result = r /\ V = View(V, state, e, s, r)
BY DEF View

\* SetTop.
LEMMA SetTopView ==
  ASSUME NEW p \in DOMAIN runner, CallShape(runner[p]), Running(p), NEW g, SetTop(p, g)
  PROVE  Moves(p, g)
<1>1. runner[p].state = "running"
  BY DEF Running
<1>2. runner' = [runner EXCEPT ![p].stack = Append(Front(@), g)]
  BY DEF SetTop
<1>3. Others(p) /\ runner'[p] = [runner[p] EXCEPT !.stack = Append(Front(runner[p].stack), g)]
  BY ONLY <1>2, p \in DOMAIN runner DEF Others
<1> QED BY <1>1, <1>3, ViewExcept, Zenon DEF Moves

\* Return.
LEMMA ReturnView ==
  ASSUME NEW p \in DOMAIN runner, CallShape(runner[p]), Running(p), NEW r, NEW err, Return(p, r, err)
  PROVE  Ends(p, r, err) \/ Resumes(p, r, err)
<1> DEFINE R == runner[p]
           rest == Front(R.stack)
           errs == Errors(p, err)
           V == IF rest = <<>> THEN [R EXCEPT !.state = "done", !.stack = <<>>, !.errs = errs, !.result = r]
                ELSE [R EXCEPT !.errs = errs,
                               !.stack = Append(Front(rest), Preloaded(Last(rest), Top(p).url, r))]
<1>0. DOMAIN R = CallFields
  BY CallDomain
<1>1. runner' = [runner EXCEPT ![p] = V]
  BY DEF Return, Errors
<1> HIDE DEF V
<1>2. Others(p) /\ runner'[p] = V
  BY ONLY <1>1, p \in DOMAIN runner DEF Others
<1>3. R.state = "running" /\ R.stack # <<>> /\ IsSeq(R.stack)
  BY DEF Running, CallShape
<1>4. IsSeq(rest) /\ Len(rest) = Len(R.stack) - 1 /\ Len(R.stack) \in Nat \ {0}
      /\ \A i \in 1 .. Len(R.stack) - 1 : rest[i] = R.stack[i]
  BY ONLY <1>3, FrontShape
<1> HIDE DEF rest
<1>5. rest = <<>> <=> Len(rest) = 0
  BY ONLY <1>4, SeqShape, Zenon
<1>6. CASE rest = <<>>
  <2>1. Len(R.stack) = 1
    BY ONLY <1>4, <1>5, <1>6
  <2>2. V = View(R, "done", errs, <<>>, r)
    <3> DEFINE Q == [R EXCEPT !.state = "done", !.stack = <<>>, !.errs = errs, !.result = r]
    <3> HIDE DEF errs, R
    <3>1. Q = [x \in DOMAIN Q |-> Q[x]] /\ DOMAIN Q = CallFields
      BY <1>0, Zenon
    <3>2. Q.main = R.main /\ Q.cert = R.cert /\ Q.date = R.date /\ Q.state = "done" /\ Q.errs = errs
          /\ Q.stack = <<>> /\ Q.result = r
      BY ONLY <1>0 DEF CallFields
    <3>3. V = Q
      BY <1>6 DEF V
    <3> HIDE DEF Q
    <3> QED BY ONLY ViewIs, <3>1, <3>2, <3>3
  <2> QED BY <1>2, <2>1, <2>2 DEF Ends
<1>7. CASE rest # <<>>
  <2>1. Len(R.stack) > 1 /\ rest[Len(rest)] = R.stack[Len(R.stack) - 1]
    BY ONLY <1>4, <1>5, <1>7
  <2> DEFINE stack == Append(Front(rest), Preloaded(rest[Len(rest)], Top(p).url, r))
  <2>2. V = View(R, R.state, errs, stack, R.result)
    <3> DEFINE Q == [R EXCEPT !.errs = errs, !.stack = stack]
    <3>3. V = Q
      BY <1>7 DEF V, Last
    <3> HIDE DEF errs, R, stack
    <3>1. Q = [x \in DOMAIN Q |-> Q[x]] /\ DOMAIN Q = CallFields
      BY <1>0, Zenon
    <3>2. Q.main = R.main /\ Q.cert = R.cert /\ Q.date = R.date /\ Q.state = R.state /\ Q.errs = errs
          /\ Q.stack = stack /\ Q.result = R.result
      BY ONLY <1>0 DEF CallFields
    <3> HIDE DEF Q
    <3> QED BY ONLY ViewIs, <3>1, <3>2, <3>3
  <2> QED BY <1>2, <1>3, <2>1, <2>2 DEF Resumes, rest
<1> QED BY <1>6, <1>7

\* Preload.
LEMMA PreloadView ==
  ASSUME NEW p \in DOMAIN runner, CallShape(runner[p]), Preload(p)
  PROVE  LET u == site[Top(p).url][Top(p).preload] IN
         IF u \in Active(p) THEN Skips(p, u) ELSE Pushes(p, u)
<1> DEFINE R == runner[p]
           u == site[Top(p).url][Top(p).preload]
           g == Preloaded(Top(p), u, NewResource)
           loop == {[url |-> u, kind |-> "loop"]}
           task == NewTask(u)
<1>1. R.state = "running"
  BY DEF Preload, Preloads, At, Running
<1>2. IF u \in Active(p)
      THEN runner' = [runner EXCEPT ![p].errs = @ \cup loop, ![p].stack = Append(Front(@), g)]
      ELSE runner' = [runner EXCEPT ![p].stack = Append(@, task)]
  BY DEF Preload
<1>3. CASE u \in Active(p)
  <2> HIDE DEF u, g, loop
  <2>1. runner' = [runner EXCEPT ![p].errs = @ \cup loop, ![p].stack = Append(Front(@), g)]
    BY <1>2, <1>3
  <2>2. Others(p) /\ runner'[p] = [R EXCEPT !.errs = R.errs \cup loop, !.stack = Append(Front(R.stack), g)]
    BY ONLY <2>1, p \in DOMAIN runner DEF Others
  <2>3. runner'[p] = View(R, R.state, R.errs \cup loop, Append(Front(R.stack), g), R.result)
    <3> DEFINE errs == R.errs \cup loop
               stack == Append(Front(R.stack), g)
               Q == [R EXCEPT !.errs = errs, !.stack = stack]
    <3>0. DOMAIN R = CallFields
      BY CallDomain
    <3>1. runner'[p] = Q
      BY <2>2
    <3> HIDE DEF errs, stack, R
    <3>2. Q = [x \in DOMAIN Q |-> Q[x]] /\ DOMAIN Q = CallFields
      BY <3>0, Zenon
    <3>3. Q.main = R.main /\ Q.cert = R.cert /\ Q.date = R.date /\ Q.state = R.state /\ Q.errs = errs
          /\ Q.stack = stack /\ Q.result = R.result
      BY ONLY <3>0 DEF CallFields
    <3> HIDE DEF Q
    <3>4. runner'[p] = View(R, R.state, errs, stack, R.result)
      BY ONLY ViewIs, <3>1, <3>2, <3>3
    <3> QED BY <3>4 DEF errs, stack, R
  <2> QED BY <1>1, <1>3, <2>2, <2>3 DEF Skips, u, g, loop
<1>4. CASE u \notin Active(p)
  <2> HIDE DEF u, task
  <2>1. runner' = [runner EXCEPT ![p].stack = Append(@, task)]
    BY <1>2, <1>4
  <2>2. Others(p) /\ runner'[p] = [R EXCEPT !.stack = Append(R.stack, task)]
    BY ONLY <2>1, p \in DOMAIN runner DEF Others
  <2>3. runner'[p] = View(R, R.state, R.errs, Append(R.stack, task), R.result)
    BY <2>2, ViewExcept, Zenon
  <2> QED BY <1>1, <1>4, <2>2, <2>3 DEF Pushes, u, task
<1> QED BY <1>3, <1>4

-----------------------------------------------------------------------------
(* The tasks of a call: no URL is in progress twice. *)

\* The values of Resource.
ResourceFields == {"redirectURL", "physicalURL", "validityURL", "exchange"}
Res(redirect, physical, validity, e) ==
  [redirectURL |-> redirect, physicalURL |-> physical, validityURL |-> validity, exchange |-> e]
Ready == Res(FALSE, TRUE, TRUE, NoExchange)
Signed(e) == Res(FALSE, TRUE, TRUE, e)

\* A resource is what its fields are.
LEMMA ResIs ==
  ASSUME NEW q, NEW a, NEW b, NEW c, NEW e, q = [x \in DOMAIN q |-> q[x]], DOMAIN q = ResourceFields,
         q.redirectURL = a, q.physicalURL = b, q.validityURL = c, q.exchange = e
  PROVE  q = Res(a, b, c, e)
BY DEF Res, ResourceFields

\* The fields of a resource.
LEMMA ResFields ==
  ASSUME NEW a, NEW b, NEW c, NEW e
  PROVE  LET q == Res(a, b, c, e) IN
         /\ DOMAIN q = ResourceFields /\ q.redirectURL = a /\ q.physicalURL = b /\ q.validityURL = c
         /\ q.exchange = e
BY DEF Res, ResourceFields

\* Setting redirectURL.
LEMMA SetRedirect ==
  ASSUME NEW a, NEW b, NEW c, NEW e, NEW x
  PROVE  [Res(a, b, c, e) EXCEPT !.redirectURL = x] = Res(x, b, c, e)
<1> DEFINE q == Res(a, b, c, e)
           s == [q EXCEPT !.redirectURL = x]
<1>1. DOMAIN q = ResourceFields /\ q.redirectURL = a /\ q.physicalURL = b /\ q.validityURL = c
      /\ q.exchange = e
  BY ResFields
<1> HIDE DEF q
<1>2. s = [y \in DOMAIN s |-> s[y]] /\ DOMAIN s = ResourceFields /\ s.redirectURL = x /\ s.physicalURL = b
      /\ s.validityURL = c /\ s.exchange = e
  BY ONLY <1>1 DEF ResourceFields
<1> HIDE DEF s
<1>3. s = Res(x, b, c, e)
  BY ONLY <1>2, ResIs
<1> QED BY <1>3 DEF s, q

\* Setting physicalURL.
LEMMA SetPhysical ==
  ASSUME NEW a, NEW b, NEW c, NEW e, NEW x
  PROVE  [Res(a, b, c, e) EXCEPT !.physicalURL = x] = Res(a, x, c, e)
<1> DEFINE q == Res(a, b, c, e)
           s == [q EXCEPT !.physicalURL = x]
<1>1. DOMAIN q = ResourceFields /\ q.redirectURL = a /\ q.physicalURL = b /\ q.validityURL = c
      /\ q.exchange = e
  BY ResFields
<1> HIDE DEF q
<1>2. s = [y \in DOMAIN s |-> s[y]] /\ DOMAIN s = ResourceFields /\ s.redirectURL = a /\ s.physicalURL = x
      /\ s.validityURL = c /\ s.exchange = e
  BY ONLY <1>1 DEF ResourceFields
<1> HIDE DEF s
<1>3. s = Res(a, x, c, e)
  BY ONLY <1>2, ResIs
<1> QED BY <1>3 DEF s, q

\* Setting validityURL.
LEMMA SetValidity ==
  ASSUME NEW a, NEW b, NEW c, NEW e, NEW x
  PROVE  [Res(a, b, c, e) EXCEPT !.validityURL = x] = Res(a, b, x, e)
<1> DEFINE q == Res(a, b, c, e)
           s == [q EXCEPT !.validityURL = x]
<1>1. DOMAIN q = ResourceFields /\ q.redirectURL = a /\ q.physicalURL = b /\ q.validityURL = c
      /\ q.exchange = e
  BY ResFields
<1> HIDE DEF q
<1>2. s = [y \in DOMAIN s |-> s[y]] /\ DOMAIN s = ResourceFields /\ s.redirectURL = a /\ s.physicalURL = b
      /\ s.validityURL = x /\ s.exchange = e
  BY ONLY <1>1 DEF ResourceFields
<1> HIDE DEF s
<1>3. s = Res(a, b, x, e)
  BY ONLY <1>2, ResIs
<1> QED BY <1>3 DEF s, q

\* Setting exchange.
LEMMA SetExchange ==
  ASSUME NEW a, NEW b, NEW c, NEW e, NEW x
  PROVE  [Res(a, b, c, e) EXCEPT !.exchange = x] = Res(a, b, c, x)
<1> DEFINE q == Res(a, b, c, e)
           s == [q EXCEPT !.exchange = x]
<1>1. DOMAIN q = ResourceFields /\ q.redirectURL = a /\ q.physicalURL = b /\ q.validityURL = c
      /\ q.exchange = e
  BY ResFields
<1> HIDE DEF q
<1>2. s = [y \in DOMAIN s |-> s[y]] /\ DOMAIN s = ResourceFields /\ s.redirectURL = a /\ s.physicalURL = b
      /\ s.validityURL = c /\ s.exchange = x
  BY ONLY <1>1 DEF ResourceFields
<1> HIDE DEF s
<1>3. s = Res(a, b, c, x)
  BY ONLY <1>2, ResIs
<1> QED BY <1>3 DEF s, q

\* What the tasks make of a resource.
LEMMA ResSteps ==
  /\ [NewResource EXCEPT !.redirectURL = TRUE] = Res(TRUE, FALSE, FALSE, NoExchange)
  /\ [NewResource EXCEPT !.physicalURL = TRUE] = Res(FALSE, TRUE, FALSE, NoExchange)
  /\ [Res(FALSE, TRUE, FALSE, NoExchange) EXCEPT !.validityURL = TRUE] = Ready
  /\ \A e : [Ready EXCEPT !.exchange = e] = Signed(e)
<1> DEFINE T == TRUE
           F == FALSE
<1> HIDE DEF T, F
<1>1. [Res(F, F, F, NoExchange) EXCEPT !.redirectURL = T] = Res(T, F, F, NoExchange)
  BY ONLY SetRedirect
<1>2. [Res(F, F, F, NoExchange) EXCEPT !.physicalURL = T] = Res(F, T, F, NoExchange)
  BY ONLY SetPhysical
<1>3. [Res(F, T, F, NoExchange) EXCEPT !.validityURL = T] = Res(F, T, T, NoExchange)
  BY ONLY SetValidity
<1>4. \A e : [Res(F, T, T, NoExchange) EXCEPT !.exchange = e] = Res(F, T, T, e)
  BY ONLY SetExchange
<1>5. NewResource = Res(F, F, F, NoExchange)
  BY DEF NewResource, Res, F
<1> QED BY <1>1, <1>2, <1>3, <1>4, <1>5, Zenon DEF T, F, Ready, Signed

TaskFields == {"url", "pc", "version", "preload", "links", "r"}

TaskInv(f) ==
  /\ DOMAIN f = TaskFields
  /\ f.url \in DOMAIN site /\ f.pc \in {"lookup", "fetch", "preload"}
  /\ f.preload \in Nat \ {0} /\ f.preload <= Len(site[f.url]) + 1
  /\ f.r = IF f.pc = "preload" THEN Ready ELSE NewResource
  /\ IsSeq(f.links)

\* A task with a preload to go, or in progress.
Preloading(f) == f.pc = "preload" /\ f.preload <= Len(site[f.url])

StackInv(s, main) ==
  /\ \A i \in 1..Len(s) : TaskInv(s[i])
  /\ \A i \in 1 .. Len(s) - 1 : Preloading(s[i])
  /\ \A i, j \in 1..Len(s) : i # j => s[i].url # s[j].url
  /\ s # <<>> => s[1].url = main

SiteInv ==
  /\ DOMAIN site \subseteq URLs
  /\ \A u \in DOMAIN site :
       /\ Len(site[u]) \in Nat /\ Len(site[u]) <= Cardinality(URLs)
       /\ \A i \in 1..Len(site[u]) : site[u][i] \in DOMAIN site

Calls ==
  \A p \in DOMAIN runner :
    runner[p] = Idle \/ (CallShape(runner[p]) /\ StackInv(runner[p].stack, runner[p].main))

StackShape(s) == IsSeq(s) /\ s # <<>>

\* The fields of the task after a statement.
LEMMA TaskFieldsOf ==
  ASSUME NEW u, NEW f, TaskInv(f)
  PROVE  /\ LET g == NewTask(u) IN
            /\ DOMAIN g = TaskFields /\ g.url = u /\ g.pc = "lookup" /\ g.preload = 1 /\ g.links = <<>>
            /\ g.r = NewResource
         /\ LET g == [f EXCEPT !.pc = "fetch"] IN
            /\ DOMAIN g = TaskFields /\ g.url = f.url /\ g.pc = "fetch" /\ g.preload = f.preload
            /\ g.links = f.links /\ g.r = f.r
<1>1. DOMAIN f = TaskFields
  BY DEF TaskInv
<1> QED BY ONLY <1>1 DEF NewTask, TaskFields

\* The fields of the task after a preload.
LEMMA PreloadedFields ==
  ASSUME NEW u, NEW r, NEW f, TaskInv(f)
  PROVE  LET g == Preloaded(f, u, r) IN
         /\ DOMAIN g = TaskFields /\ g.url = f.url /\ g.pc = f.pc /\ g.preload = f.preload + 1
         /\ g.version = f.version /\ g.r = f.r
<1> DEFINE L == f.links \o PreloadLinks(u, Integrity(r.exchange))
           n == f.preload + 1
           g == [f EXCEPT !.preload = n, !.links = L]
<1>1. DOMAIN f = TaskFields
  BY DEF TaskInv
<1>2. Preloaded(f, u, r) = g
  BY <1>1 DEF Preloaded, TaskFields
<1> HIDE DEF L, n
<1>3. DOMAIN g = TaskFields /\ g.url = f.url /\ g.pc = f.pc /\ g.preload = n
      /\ g.version = f.version /\ g.r = f.r
  BY ONLY <1>1 DEF TaskFields
<1> HIDE DEF g
<1> QED BY <1>2, <1>3 DEF n

\* The links of the task after a preload.
LEMMA PreloadedLinks ==
  ASSUME NEW u, NEW r, NEW f, TaskInv(f)
  PROVE  Preloaded(f, u, r).links = f.links \o PreloadLinks(u, Integrity(r.exchange))
<1> DEFINE L == f.links \o PreloadLinks(u, Integrity(r.exchange))
           n == f.preload + 1
           g == [f EXCEPT !.preload = n, !.links = L]
<1>1. DOMAIN f = TaskFields
  BY DEF TaskInv
<1>2. Preloaded(f, u, r) = g
  BY <1>1 DEF Preloaded, TaskFields
<1> HIDE DEF L, n
<1>3. g.links = L
  BY ONLY <1>1 DEF TaskFields
<1> HIDE DEF g
<1> QED BY <1>2, <1>3 DEF L

\* The task after the fetch.
Fetched(f, v) ==
  [f EXCEPT !.pc = "preload", !.version = v, !.r.physicalURL = TRUE, !.r.validityURL = TRUE]

\* The fields of the task after the fetch.
LEMMA FetchedFields ==
  ASSUME NEW v, NEW f, TaskInv(f), f.r = NewResource
  PROVE  LET g == Fetched(f, v) IN
         /\ DOMAIN g = TaskFields /\ g.url = f.url /\ g.pc = "preload" /\ g.preload = f.preload
         /\ g.version = v /\ g.links = f.links /\ g.r = Ready
<1>1. DOMAIN f = TaskFields
  BY DEF TaskInv
<1> DEFINE g == [f EXCEPT !.pc = "preload", !.version = v, !.r.physicalURL = TRUE, !.r.validityURL = TRUE]
           r1 == [f.r EXCEPT !.physicalURL = TRUE]
           r2 == [r1 EXCEPT !.validityURL = TRUE]
<1>2. DOMAIN g = TaskFields /\ g.url = f.url /\ g.pc = "preload" /\ g.preload = f.preload
      /\ g.version = v /\ g.links = f.links
  BY ONLY <1>1 DEF TaskFields
<1>3. g.r = r2
  BY ONLY <1>1 DEF TaskFields
<1>4. r1 = Res(FALSE, TRUE, FALSE, NoExchange)
  BY f.r = NewResource, ResSteps, Zenon
<1> HIDE DEF r1
<1>5. r2 = Ready
  BY <1>4, ResSteps, Zenon
<1> QED BY <1>2, <1>3, <1>5 DEF r1, Fetched

\* The task at the top of the stack goes on.
LEMMA ReplaceInv ==
  ASSUME NEW s, StackShape(s), NEW main, StackInv(s, main),
         NEW g, TaskInv(g), g.url = s[Len(s)].url
  PROVE  StackInv(Append(Front(s), g), main)
<1> DEFINE t == Append(Front(s), g)
<1>1. IsSeq(t) /\ Len(t) = Len(s) /\ t[Len(s)] = g /\ \A i \in 1 .. Len(s) - 1 : t[i] = s[i]
  BY ReplaceShape DEF StackShape
<1>2. Len(s) \in Nat \ {0}
  BY FrontShape DEF StackShape
<1> HIDE DEF t
<1>3. \A i \in 1..Len(s) : t[i].url = s[i].url
  BY ONLY <1>1, <1>2, g.url = s[Len(s)].url
<1>4. \A i \in 1..Len(t) : TaskInv(t[i])
  <2> TAKE i \in 1..Len(t)
  <2>1. i = Len(s) \/ (i \in 1 .. Len(s) - 1 /\ t[i] = s[i] /\ i \in 1..Len(s))
    BY ONLY <1>1, <1>2, i \in 1..Len(t)
  <2>2. \A j \in 1..Len(s) : TaskInv(s[j])
    BY DEF StackInv
  <2> QED BY ONLY <1>1, <2>1, <2>2, TaskInv(g)
<1>5. \A i \in 1 .. Len(t) - 1 : Preloading(t[i])
  <2>1. \A i \in 1 .. Len(s) - 1 : Preloading(s[i])
    BY DEF StackInv
  <2> QED BY ONLY <1>1, <2>1
<1>6. \A i, j \in 1..Len(t) : i # j => t[i].url # t[j].url
  <2>1. \A i, j \in 1..Len(s) : i # j => s[i].url # s[j].url
    BY DEF StackInv
  <2> QED BY ONLY <1>1, <1>3, <2>1
<1>7. t[1].url = main
  <2>1. s[1].url = main
    BY DEF StackInv, StackShape
  <2> QED BY ONLY <1>2, <1>3, <2>1
<1> QED BY <1>4, <1>5, <1>6, <1>7 DEF StackInv, t

\* A preload that is not in progress starts.
LEMMA PushInv ==
  ASSUME NEW s, StackShape(s), NEW main, StackInv(s, main), Preloading(s[Len(s)]),
         NEW u \in DOMAIN site, \A i \in 1..Len(s) : s[i].url # u, SiteInv
  PROVE  StackInv(Append(s, NewTask(u)), main)
<1> DEFINE g == NewTask(u)
           t == Append(s, g)
<1>1. IsSeq(t) /\ Len(t) = Len(s) + 1 /\ t[Len(s) + 1] = g /\ \A i \in 1..Len(s) : t[i] = s[i]
  BY PushShape DEF StackShape
<1>2. Len(s) \in Nat \ {0}
  BY FrontShape DEF StackShape
<1>3. TaskInv(g) /\ g.url = u
  <2>1. Len(site[u]) \in Nat
    BY DEF SiteInv
  <2>2. s[1] = s[1] /\ TaskInv(s[1])
    BY <1>2 DEF StackInv
  <2>3. DOMAIN g = TaskFields /\ g.url = u /\ g.pc = "lookup" /\ g.preload = 1 /\ g.links = <<>>
        /\ g.r = NewResource
    BY <2>2, TaskFieldsOf
  <2> HIDE DEF g
  <2>4. 1 \in Nat \ {0} /\ 1 <= Len(site[u]) + 1
    BY ONLY <2>1
  <2> QED BY <2>3, <2>4, EmptyShape DEF TaskInv
<1> HIDE DEF t, g
<1>4. \A i \in 1..Len(t) : i = Len(s) + 1 \/ i \in 1..Len(s)
  BY ONLY <1>1, <1>2
<1>5. \A i \in 1..Len(t) : TaskInv(t[i])
  <2>2. \A j \in 1..Len(s) : TaskInv(s[j])
    BY DEF StackInv
  <2> QED BY ONLY <1>1, <1>3, <1>4, <2>2
<1>6. \A i \in 1 .. Len(t) - 1 : Preloading(t[i])
  <2>1. \A i \in 1 .. Len(s) - 1 : Preloading(s[i])
    BY DEF StackInv
  <2>2. \A i \in 1 .. Len(t) - 1 : i \in 1..Len(s) /\ (i = Len(s) \/ i \in 1 .. Len(s) - 1)
    BY ONLY <1>1, <1>2
  <2> QED BY ONLY <1>1, <2>1, <2>2, Preloading(s[Len(s)])
<1>7. \A i, j \in 1..Len(t) : i # j => t[i].url # t[j].url
  <2>1. \A i, j \in 1..Len(s) : i # j => s[i].url # s[j].url
    BY DEF StackInv
  <2> QED BY ONLY <1>1, <1>3, <1>4, <2>1, \A i \in 1..Len(s) : s[i].url # u
<1>8. t[1].url = main
  <2>1. s[1].url = main
    BY DEF StackInv, StackShape
  <2>2. 1 \in 1..Len(s)
    BY ONLY <1>2
  <2> QED BY ONLY <1>1, <2>1, <2>2
<1> QED BY <1>5, <1>6, <1>7, <1>8 DEF StackInv, t, g

\* The task at the top is gone.
LEMMA PopInv ==
  ASSUME NEW s, StackShape(s), NEW main, StackInv(s, main)
  PROVE  StackInv(Front(s), main)
<1> DEFINE t == Front(s)
<1>1. IsSeq(t) /\ Len(t) = Len(s) - 1 /\ Len(s) \in Nat \ {0} /\ \A i \in 1 .. Len(s) - 1 : t[i] = s[i]
  BY FrontShape DEF StackShape
<1> HIDE DEF t
<1>2. t # <<>> => Len(t) > 0
  <2>1. t = <<>> <=> Len(t) = 0
    BY ONLY <1>1, SeqShape, Zenon
  <2> QED BY ONLY <1>1, <2>1
<1>3. \A i \in 1..Len(t) : i \in 1..Len(s) /\ t[i] = s[i]
  BY ONLY <1>1
<1>4. \A i \in 1 .. Len(t) - 1 : i \in 1 .. Len(s) - 1 /\ t[i] = s[i]
  BY ONLY <1>1
<1>5. t # <<>> => t[1] = s[1]
  BY ONLY <1>1, <1>2
<1> QED BY <1>3, <1>4, <1>5 DEF StackInv, t, StackShape

\* A sequence of tasks without two for the same URL has as many URLs as tasks.
LEMMA Distinct ==
  ASSUME NEW s, IsSeq(s), \A i, j \in 1..Len(s) : i # j => s[i].url # s[j].url
  PROVE  LET S == {f.url : f \in Range(s)} IN
         Cardinality(S) = Len(s) /\ S = {s[i].url : i \in 1..Len(s)}
<1> DEFINE n == Len(s)
           S == {f.url : f \in Range(s)}
           b == [i \in 1..n |-> s[i].url]
<1>1. n \in Nat /\ Range(s) = {s[i] : i \in 1..n}
  BY SeqShape
<1>2. S = {s[i].url : i \in 1..n}
  BY <1>1
<1> HIDE DEF n, S
<1>3. b \in [1..n -> S]
  BY <1>2
<1>4. IsInjective(b)
  BY DEF IsInjective, n
<1>5. \A u \in S : \E i \in 1..n : b[i] = u
  BY <1>2
<1> HIDE DEF b
<1>6. b \in Bijection(1..n, S)
  BY <1>3, <1>4, <1>5 DEF Bijection, Injection, Surjection
<1>7. Cardinality(S) = n
  BY ONLY <1>1, <1>6, FS_CountingElements DEF ExistsBijection
<1> QED BY <1>2, <1>7, Zenon DEF n, S

\* No call has more tasks than there are URLs.
LEMMA Depth ==
  ASSUME SiteInv, NEW s, IsSeq(s), NEW main, StackInv(s, main)
  PROVE  /\ Len(s) \in Nat /\ Cardinality(URLs) \in Nat /\ Len(s) <= Cardinality(URLs)
         /\ Cardinality({f.url : f \in Range(s)}) = Len(s)
<1> DEFINE S == {f.url : f \in Range(s)}
<1>1. Cardinality(S) = Len(s) /\ S = {s[i].url : i \in 1..Len(s)}
  BY Distinct, Zenon DEF StackInv
<1>2. \A i \in 1..Len(s) : s[i].url \in DOMAIN site
  BY DEF StackInv, TaskInv
<1>3. S \in SUBSET URLs
  BY <1>1, <1>2, Zenon DEF SiteInv
<1>4. IsFiniteSet(URLs)
  BY SetupAssumption
<1> HIDE DEF S
<1>5. Cardinality(S) <= Cardinality(URLs) /\ Cardinality(URLs) \in Nat
  BY ONLY <1>3, <1>4, FS_Subset, FS_CardinalityType
<1> QED BY <1>1, <1>5, SeqShape DEF S

-----------------------------------------------------------------------------
(* What a task has left to do. *)

\* Remaining by cases.
LEMMA RemainingIs ==
  ASSUME SiteInv, NEW s, IsSeq(s), NEW main, StackInv(s, main), NEW i \in 1..Len(s)
  PROVE  /\ s[i].pc = "lookup" => Remaining(s, i) = Cardinality(URLs) + 3
         /\ s[i].pc = "fetch" => Remaining(s, i) = Cardinality(URLs) + 2
         /\ s[i].pc = "preload" /\ i = Len(s) => Remaining(s, i) = Len(site[s[i].url]) - s[i].preload + 2
         /\ i # Len(s) => Remaining(s, i) = Len(site[s[i].url]) - s[i].preload + 1
         /\ Remaining(s, i) \in Nat /\ Remaining(s, i) > 0
<1> DEFINE f == s[i]
           k == Len(site[f.url])
           c == Cardinality(URLs)
           d == k - f.preload + 1
<1>1. TaskInv(f)
  BY DEF StackInv
<1>2. k \in Nat /\ f.preload \in Nat \ {0} /\ f.preload <= k + 1 /\ f.pc \in {"lookup", "fetch", "preload"}
  BY <1>1 DEF TaskInv, SiteInv
<1>3. c \in Nat /\ Len(s) \in Nat
  BY Depth, Zenon
<1>4. i # Len(s) => f.pc = "preload" /\ f.preload <= k
  <2>1. i # Len(s) => i \in 1 .. Len(s) - 1
    BY ONLY <1>3, i \in 1..Len(s)
  <2> QED BY <2>1 DEF StackInv, Preloading
<1>5. Remaining(s, i) = CASE f.pc = "lookup" -> c + 3
                          [] f.pc = "fetch" -> c + 2
                          [] OTHER -> IF i = Len(s) THEN d + 1 ELSE d
  BY DEF Remaining
<1> DEFINE m == Remaining(s, i)
           n == Len(s)
<1> HIDE DEF f, k, c, m, d, n
<1>6. /\ f.pc = "lookup" => m = c + 3
      /\ f.pc = "fetch" => m = c + 2
      /\ f.pc = "preload" /\ i = n => m = d + 1
      /\ f.pc = "preload" /\ i # n => m = d
  BY ONLY <1>2, <1>5 DEF m, n
<1>7. d = k - f.preload + 1 /\ d \in Int /\ (f.preload <= k => d > 0) /\ d >= 0
      /\ d + 1 = k - f.preload + 2
  BY ONLY <1>2 DEF d
<1>8. i # n => m = d /\ d > 0
  BY ONLY <1>4, <1>6, <1>7 DEF n
<1>9. m \in Nat /\ m > 0
  <2>1. c + 3 \in Nat /\ c + 3 > 0 /\ c + 2 \in Nat /\ c + 2 > 0 /\ d + 1 \in Nat /\ d + 1 > 0
        /\ (d > 0 => d \in Nat)
    BY ONLY <1>3, <1>7
  <2>2. m = c + 3 \/ m = c + 2 \/ m = d + 1 \/ (m = d /\ d > 0)
    BY ONLY <1>2, <1>6, <1>8, Zenon
  <2> QED BY ONLY <2>1, <2>2
<1> QED BY ONLY <1>6, <1>7, <1>8, <1>9 DEF f, k, c, m, d, n

\* A vector of naturals that is smaller at an index, and the same before it, is less.
LEMMA LessAt ==
  ASSUME SiteInv, NEW s, IsSeq(s), NEW t, IsSeq(t), NEW main, StackInv(s, main), StackInv(t, main),
         NEW i \in 1..Len(s),
         i <= Len(t) => Remaining(t, i) < Remaining(s, i),
         \A j \in 1 .. i - 1 : j <= Len(t) /\ Remaining(t, j) = Remaining(s, j)
  PROVE  Less(Work(t), Work(s))
<1> DEFINE c == Cardinality(URLs)
           v == Work(t)
           w == Work(s)
<1>1. Len(s) \in Nat /\ Len(t) \in Nat /\ c \in Nat /\ Len(s) <= c /\ Len(t) <= c
  BY Depth, Zenon
<1>2. DOMAIN v = 1..c /\ DOMAIN w = 1..c
      /\ \A j \in 1..c : /\ v[j] = IF j <= Len(t) THEN Remaining(t, j) ELSE 0
                         /\ w[j] = IF j <= Len(s) THEN Remaining(s, j) ELSE 0
  BY DEF Work
<1>3. \A j \in 1..Len(t) : Remaining(t, j) \in Nat /\ Remaining(t, j) > 0
  BY RemainingIs
<1>4. \A j \in 1..Len(s) : Remaining(s, j) \in Nat /\ Remaining(s, j) > 0
  BY RemainingIs
<1> HIDE DEF c, v, w
<1>5. \A j \in 1..c : v[j] \in Nat /\ w[j] \in Nat
  BY ONLY <1>1, <1>2, <1>3, <1>4
<1>6. i \in 1..c /\ v[i] < w[i]
  BY ONLY <1>1, <1>2, <1>4, i \in 1..Len(s), i <= Len(t) => Remaining(t, i) < Remaining(s, i)
<1>7. \A j \in 1 .. i - 1 : v[j] = w[j]
  <2> TAKE j \in 1 .. i - 1
  <2>1. j \in 1..c /\ j <= Len(s)
    BY ONLY <1>1, i \in 1..Len(s), j \in 1 .. i - 1
  <2> QED BY ONLY <1>2, <2>1, j \in 1 .. i - 1,
                  \A x \in 1 .. i - 1 : x <= Len(t) /\ Remaining(t, x) = Remaining(s, x)
<1>8. Less(v, w)
  BY ONLY <1>2, <1>5, <1>6, <1>7 DEF Less
<1> QED BY <1>8 DEF v, w

\* The statements of a task come in this order.
Follows(g, f) ==
  /\ g.url = f.url
  /\ \/ f.pc = "lookup" /\ g.pc = "fetch"
     \/ f.pc = "fetch" /\ g.pc = "preload"
     \/ f.pc = "preload" /\ g.pc = "preload" /\ g.preload = f.preload + 1

\* A statement of the task at the top.
LEMMA MoveLess ==
  ASSUME SiteInv, NEW s, StackShape(s), NEW main, StackInv(s, main),
         NEW g, TaskInv(g), Follows(g, s[Len(s)])
  PROVE  LET t == Append(Front(s), g) IN StackInv(t, main) /\ Less(Work(t), Work(s))
<1> DEFINE t == Append(Front(s), g)
           n == Len(s)
           f == s[n]
<1>1. StackInv(t, main)
  BY ReplaceInv DEF Follows
<1>2. IsSeq(s) /\ IsSeq(t) /\ Len(t) = n /\ t[n] = g /\ n \in Nat \ {0} /\ \A i \in 1 .. n - 1 : t[i] = s[i]
  BY ReplaceShape, FrontShape DEF StackShape
<1> HIDE DEF t
<1>3. n \in 1..n /\ n \in 1..Len(t) /\ \A j \in 1 .. n - 1 : j \in 1..n /\ j \in 1..Len(t) /\ j # n /\ j <= Len(t)
  BY ONLY <1>2
<1>4. Remaining(t, n) < Remaining(s, n)
  <2> DEFINE c == Cardinality(URLs)
             k == Len(site[f.url])
             a == Remaining(s, n)
             b == Remaining(t, n)
  <2>1. /\ f.pc = "lookup" => a = c + 3
        /\ f.pc = "fetch" => a = c + 2
        /\ f.pc = "preload" => a = k - f.preload + 2
    BY <1>2, <1>3, RemainingIs
  <2>2. /\ t[n].pc = "lookup" => b = c + 3
        /\ t[n].pc = "fetch" => b = c + 2
        /\ t[n].pc = "preload" /\ n = Len(t) => b = Len(site[t[n].url]) - t[n].preload + 2
    BY <1>1, <1>2, <1>3, RemainingIs, Zenon
  <2>3. /\ g.pc = "fetch" => b = c + 2
        /\ g.pc = "preload" => b = k - g.preload + 2
    BY <1>2, <2>2 DEF Follows
  <2>4. c \in Nat
    BY <1>2, Depth, Zenon
  <2>5. f.url \in DOMAIN site /\ f.preload \in Nat \ {0} /\ g.preload \in Nat \ {0}
    BY <1>3, Zenon DEF StackInv, TaskInv
  <2>6. k \in Nat /\ k <= c
    BY <2>5 DEF SiteInv
  <2> HIDE DEF a, b, c, k, f, n
  <2>7. CASE f.pc = "lookup" /\ g.pc = "fetch"
    <3>1. a = c + 3 /\ b = c + 2
      BY ONLY <2>1, <2>3, <2>7
    <3> QED BY ONLY <3>1, <2>4 DEF a, b
  <2>8. CASE f.pc = "fetch" /\ g.pc = "preload"
    <3>1. a = c + 2 /\ b = k - g.preload + 2
      BY ONLY <2>1, <2>3, <2>8
    <3> QED BY ONLY <3>1, <2>4, <2>5, <2>6 DEF a, b
  <2>9. CASE f.pc = "preload" /\ g.pc = "preload" /\ g.preload = f.preload + 1
    <3>1. a = k - f.preload + 2 /\ b = k - g.preload + 2
      BY ONLY <2>1, <2>3, <2>9
    <3> QED BY ONLY <3>1, <2>5, <2>6, <2>9 DEF a, b
  <2> QED BY <2>7, <2>8, <2>9 DEF Follows, f, n
<1>5. \A j \in 1 .. n - 1 : j <= Len(t) /\ Remaining(t, j) = Remaining(s, j)
  <2> TAKE j \in 1 .. n - 1
  <2>1. Remaining(t, j) = Len(site[t[j].url]) - t[j].preload + 1
    BY <1>1, <1>2, <1>3, RemainingIs
  <2>2. Remaining(s, j) = Len(site[s[j].url]) - s[j].preload + 1
    BY <1>2, <1>3, RemainingIs, Zenon
  <2> QED BY <1>2, <1>3, <2>1, <2>2
<1>6. Less(Work(t), Work(s))
  <2> HIDE DEF n
  <2>1. n \in 1..Len(s)
    BY <1>3 DEF n
  <2> QED BY <1>1, <1>2, <1>4, <1>5, <2>1, LessAt
<1> QED BY <1>1, <1>6 DEF t

\* The next preload starts.
LEMMA PushLess ==
  ASSUME SiteInv, NEW s, StackShape(s), NEW main, StackInv(s, main), Preloading(s[Len(s)]),
         NEW u \in DOMAIN site, \A i \in 1..Len(s) : s[i].url # u
  PROVE  LET t == Append(s, NewTask(u)) IN StackInv(t, main) /\ Less(Work(t), Work(s))
<1> DEFINE t == Append(s, NewTask(u))
           n == Len(s)
<1>1. StackInv(t, main)
  BY PushInv
<1>2. IsSeq(s) /\ IsSeq(t) /\ Len(t) = n + 1 /\ n \in Nat \ {0} /\ \A i \in 1..n : t[i] = s[i]
  BY PushShape, FrontShape DEF StackShape
<1> HIDE DEF t
<1>3. n \in 1..n /\ n # Len(t) /\ n <= Len(t)
      /\ \A j \in 1..n : j \in 1..Len(t) /\ j # Len(t) /\ j <= Len(t)
  BY ONLY <1>2
<1>4. \A j \in 1..n : Remaining(t, j) = Len(site[s[j].url]) - s[j].preload + 1
  <2> TAKE j \in 1..n
  <2>1. Remaining(t, j) = Len(site[t[j].url]) - t[j].preload + 1
    BY <1>1, <1>2, <1>3, RemainingIs, Zenon
  <2> QED BY <1>2, <2>1
<1>5. Remaining(t, n) < Remaining(s, n)
  <2>1. Remaining(s, n) = Len(site[s[n].url]) - s[n].preload + 2
    BY <1>2, <1>3, RemainingIs DEF Preloading
  <2>2. Remaining(t, n) = Len(site[s[n].url]) - s[n].preload + 1
    BY <1>3, <1>4
  <2>3. Len(site[s[n].url]) \in Nat /\ s[n].preload \in Nat
    BY <1>3 DEF StackInv, TaskInv, SiteInv
  <2> HIDE DEF n
  <2> QED BY ONLY <2>1, <2>2, <2>3
<1>6. \A j \in 1 .. n - 1 : j <= Len(t) /\ Remaining(t, j) = Remaining(s, j)
  <2> TAKE j \in 1 .. n - 1
  <2>1. j \in 1..n /\ j # n
    BY ONLY <1>2, j \in 1 .. n - 1
  <2>2. Remaining(s, j) = Len(site[s[j].url]) - s[j].preload + 1
    BY <1>2, <2>1, RemainingIs
  <2> QED BY <1>3, <1>4, <2>1, <2>2
<1>7. Less(Work(t), Work(s))
  <2> HIDE DEF n
  <2>1. n \in 1..Len(s)
    BY <1>3 DEF n
  <2> QED BY <1>1, <1>2, <1>5, <1>6, <2>1, LessAt
<1> QED BY <1>1, <1>7 DEF t

\* A task returns to the one below.
LEMMA ResumeLess ==
  ASSUME SiteInv, NEW s, StackShape(s), Len(s) > 1, NEW main, StackInv(s, main),
         NEW g, TaskInv(g), g.url = s[Len(s) - 1].url, g.pc = "preload",
         g.preload = s[Len(s) - 1].preload + 1
  PROVE  LET t == Append(Front(Front(s)), g) IN StackInv(t, main) /\ Less(Work(t), Work(s))
<1> DEFINE r == Front(s)
           t == Append(Front(r), g)
           n == Len(s)
<1>1. IsSeq(s) /\ IsSeq(r) /\ Len(r) = n - 1 /\ n \in Nat \ {0} /\ \A i \in 1 .. n - 1 : r[i] = s[i]
  BY FrontShape DEF StackShape
<1>2. StackInv(r, main)
  BY PopInv
<1> HIDE DEF r
<1>3. r # <<>> /\ r[Len(r)] = s[n - 1]
  BY <1>1, SeqShape
<1>4. StackInv(t, main)
  BY <1>1, <1>2, <1>3, ReplaceInv DEF StackShape
<1>5. IsSeq(t) /\ Len(t) = n - 1 /\ t[n - 1] = g /\ \A i \in 1 .. n - 2 : t[i] = s[i]
  <2>0. IsSeq(r) /\ r # <<>>
    BY <1>1, <1>3
  <2>1. IsSeq(t) /\ Len(t) = Len(r) /\ t[Len(r)] = g /\ \A i \in 1 .. Len(r) - 1 : t[i] = r[i]
    BY ONLY <2>0, ReplaceShape
  <2> HIDE DEF t
  <2> QED BY ONLY <1>1, <2>1, Len(s) > 1
<1> HIDE DEF t
<1>6. \A j \in 1 .. n - 1 : j <= Len(t) /\ Remaining(t, j) = Remaining(s, j)
  <2> TAKE j \in 1 .. n - 1
  <2>1. j \in 1..n /\ j # n /\ j \in 1..Len(t) /\ j <= Len(t) /\ (j = Len(t) \/ (j # Len(t) /\ j \in 1 .. n - 2))
    BY ONLY <1>1, <1>5, j \in 1 .. n - 1
  <2>2. Remaining(s, j) = Len(site[s[j].url]) - s[j].preload + 1
    BY <1>1, <2>1, RemainingIs, Zenon
  <2>3. CASE j = Len(t)
    <3>1. j = n - 1 /\ t[j] = g
      BY <1>5, <2>3
    <3>2. Remaining(t, j) = Len(site[t[j].url]) - t[j].preload + 2
      BY <1>4, <1>5, <2>1, <2>3, <3>1, RemainingIs
    <3>3. g.url = s[j].url /\ g.preload = s[j].preload + 1
      BY <3>1
    <3>4. Len(site[s[j].url]) \in Nat /\ s[j].preload \in Nat
      BY <2>1, Zenon DEF StackInv, TaskInv, SiteInv
    <3>5. Remaining(t, j) = Len(site[s[j].url]) - (s[j].preload + 1) + 2
      BY ONLY <3>1, <3>2, <3>3
    <3> DEFINE k == Len(site[s[j].url])
               x == s[j].preload
    <3>6. k \in Nat /\ x \in Nat /\ Remaining(t, j) = k - (x + 1) + 2 /\ Remaining(s, j) = k - x + 1
      BY <2>2, <3>4, <3>5
    <3> HIDE DEF k, x
    <3>7. k - (x + 1) + 2 = k - x + 1
      BY ONLY <3>6
    <3> QED BY ONLY <2>1, <3>6, <3>7
  <2>4. CASE j # Len(t)
    <3>1. Remaining(t, j) = Len(site[t[j].url]) - t[j].preload + 1
      BY <1>4, <1>5, <2>1, <2>4, RemainingIs, Zenon
    <3> QED BY <1>5, <2>1, <2>2, <2>4, <3>1
  <2> QED BY <2>3, <2>4
<1>7. Less(Work(t), Work(s))
  <2> HIDE DEF n
  <2>1. n \in 1..Len(s) /\ ~(n <= Len(t))
    BY <1>1, <1>5 DEF n
  <2> QED BY <1>1, <1>4, <1>5, <1>6, <2>1, LessAt
<1> QED BY <1>4, <1>7 DEF t, r

\* The main resource's task returns.
LEMMA EndLess ==
  ASSUME SiteInv, NEW s, StackShape(s), NEW main, StackInv(s, main)
  PROVE  StackInv(<<>>, main) /\ Less(Work(<<>>), Work(s))
<1> DEFINE t == <<>>
<1>1. IsSeq(s) /\ 1 \in 1..Len(s)
  BY FrontShape DEF StackShape
<1>2. IsSeq(t) /\ Len(t) = 0
  BY EmptyShape
<1>3. StackInv(t, main)
  BY <1>2 DEF StackInv
<1> HIDE DEF t
<1>4. 1 <= Len(t) => Remaining(t, 1) < Remaining(s, 1)
  BY ONLY <1>2
<1>5. \A j \in 1 .. 1 - 1 : j <= Len(t) /\ Remaining(t, j) = Remaining(s, j)
  BY ONLY <1>2
<1>6. Less(Work(t), Work(s))
  BY ONLY SiteInv, StackInv(s, main), <1>1, <1>2, <1>3, <1>4, <1>5, LessAt
<1> QED BY <1>3, <1>6 DEF t

-----------------------------------------------------------------------------
(* Every step of a call keeps its shape, and leaves less to do. *)

Good(p) ==
  /\ CallShape(runner'[p]) /\ StackInv(runner'[p].stack, runner'[p].main)
  /\ Less(Work(runner'[p].stack), Work(runner[p].stack))

\* A call that runs.
LEMMA RunningCall ==
  ASSUME Calls, NEW p \in DOMAIN runner, Running(p)
  PROVE  LET s == runner[p].stack IN
         /\ CallShape(runner[p]) /\ StackShape(s) /\ StackInv(s, runner[p].main)
         /\ Top(p) = s[Len(s)] /\ TaskInv(Top(p)) /\ Len(s) \in Nat \ {0}
<1> DEFINE s == runner[p].stack
<1>1. runner[p] # Idle
  BY DEF Running, Idle
<1>2. CallShape(runner[p]) /\ StackInv(s, runner[p].main)
  BY <1>1 DEF Calls
<1>3. StackShape(s)
  BY <1>2 DEF CallShape, StackShape, Running
<1>4. Len(s) \in Nat \ {0}
  BY <1>3, FrontShape DEF StackShape
<1>5. Len(s) \in 1..Len(s)
  BY ONLY <1>4
<1>6. Top(p) = s[Len(s)]
  BY DEF Top, Last
<1> QED BY <1>2, <1>3, <1>4, <1>5, <1>6 DEF StackInv

\* The shape of a view.
LEMMA ViewShape ==
  ASSUME NEW R, NEW Q, NEW state \in {"running", "done"}, NEW errs, NEW s, IsSeq(s), NEW r,
         state = "running" <=> s # <<>>, Q = View(R, state, errs, s, r)
  PROVE  CallShape(Q) /\ Q.stack = s /\ Q.main = R.main
<1>1. Q.state = state /\ Q.stack = s /\ Q.main = R.main /\ Q = View(Q, state, errs, s, r)
      /\ Q.errs = errs /\ Q.result = r
  BY ViewFields
<1> QED BY <1>1 DEF CallShape

\* The shape of a call that is done.
LEMMA DoneShape ==
  ASSUME NEW R, NEW Q, NEW errs, NEW r, Q = View(R, "done", errs, <<>>, r)
  PROVE  CallShape(Q) /\ Q.stack = <<>> /\ Q.main = R.main
<1> DEFINE s == <<>>
<1>1. IsSeq(s) /\ s = <<>>
  BY EmptyShape
<1> HIDE DEF s
<1>2. Q.state = "done" /\ Q.stack = s /\ Q.main = R.main /\ Q = View(Q, "done", errs, s, r)
      /\ Q.errs = errs /\ Q.result = r
  BY ViewFields DEF s
<1> QED BY <1>1, <1>2 DEF CallShape

\* A statement of the task at the top.
LEMMA MovesGood ==
  ASSUME SiteInv, Calls, NEW p \in DOMAIN runner, Running(p),
         NEW g, Moves(p, g), TaskInv(g), Follows(g, Top(p))
  PROVE  Good(p)
<1> DEFINE s == runner[p].stack
           t == Append(Front(s), g)
<1>1. CallShape(runner[p]) /\ StackShape(s) /\ StackInv(s, runner[p].main) /\ Top(p) = s[Len(s)]
  BY RunningCall
<1>2. StackInv(t, runner[p].main) /\ Less(Work(t), Work(s))
  BY <1>1, MoveLess
<1>3. IsSeq(t) /\ t # <<>>
  BY <1>1, ReplaceShape DEF StackShape
<1>4. runner'[p] = View(runner[p], "running", runner[p].errs, t, runner[p].result)
  BY DEF Moves
<1> HIDE DEF t
<1>5. CallShape(runner'[p]) /\ runner'[p].stack = t /\ runner'[p].main = runner[p].main
  BY ONLY <1>3, <1>4, ViewShape
<1> QED BY <1>2, <1>5 DEF Good

\* A preload starts.
LEMMA PushesGood ==
  ASSUME SiteInv, Calls, NEW p \in DOMAIN runner, Running(p),
         NEW u \in DOMAIN site, u \notin Active(p), Preloading(Top(p)), Pushes(p, u)
  PROVE  Good(p)
<1> DEFINE s == runner[p].stack
           t == Append(s, NewTask(u))
<1>1. CallShape(runner[p]) /\ StackShape(s) /\ StackInv(s, runner[p].main) /\ Top(p) = s[Len(s)]
  BY RunningCall
<1>2. \A i \in 1..Len(s) : s[i].url # u
  BY <1>1, SeqShape DEF Active, StackShape
<1>3. StackInv(t, runner[p].main) /\ Less(Work(t), Work(s))
  BY <1>1, <1>2, PushLess
<1>4. IsSeq(t) /\ t # <<>>
  BY <1>1, PushShape DEF StackShape
<1>5. runner'[p] = View(runner[p], "running", runner[p].errs, t, runner[p].result)
  BY DEF Pushes
<1> HIDE DEF t
<1>6. CallShape(runner'[p]) /\ runner'[p].stack = t /\ runner'[p].main = runner[p].main
  BY ONLY <1>4, <1>5, ViewShape
<1> QED BY <1>3, <1>6 DEF Good

\* The links for a preload are at most two.
LEMMA PreloadLinksSeq == ASSUME NEW u, NEW h PROVE IsSeq(PreloadLinks(u, h))
<1> DEFINE a == [rel |-> "allowed-alt-sxg", url |-> u, integrity |-> h]
           b == [rel |-> "preload", url |-> u]
           S == {a, b}
<1> HIDE DEF a, b
<1>1. <<a, b>> \in Seq(S) /\ <<b>> \in Seq(S) /\ <<>> \in Seq(S)
  OBVIOUS
<1>2. PreloadLinks(u, h) \in {<<a, b>>, <<b>>, <<>>}
  BY DEF PreloadLinks, a, b
<1> QED BY <1>1, <1>2, SeqOfAny, Zenon

\* The task after a preload.
LEMMA PreloadedGood ==
  ASSUME SiteInv, NEW f, TaskInv(f), Preloading(f), NEW u, NEW r
  PROVE  LET g == Preloaded(f, u, r) IN
         TaskInv(g) /\ Follows(g, f) /\ g.pc = "preload" /\ g.preload = f.preload + 1
<1> DEFINE g == Preloaded(f, u, r)
           L == PreloadLinks(u, Integrity(r.exchange))
<1>1. DOMAIN g = TaskFields /\ g.url = f.url /\ g.pc = f.pc /\ g.preload = f.preload + 1
      /\ g.r = f.r
  BY ONLY TaskInv(f), PreloadedFields
<1>a. g.links = f.links \o L
  BY ONLY TaskInv(f), PreloadedLinks, Zenon
<1> HIDE DEF g, L
<1>2. f.pc = "preload" /\ f.preload <= Len(site[f.url]) /\ f.url \in DOMAIN site /\ f.r = Ready
      /\ f.preload \in Nat \ {0} /\ IsSeq(f.links)
  BY DEF TaskInv, Preloading
<1>3. Len(site[f.url]) \in Nat
  BY <1>2 DEF SiteInv
<1>4. f.preload + 1 \in Nat \ {0} /\ f.preload + 1 <= Len(site[f.url]) + 1
  BY ONLY <1>2, <1>3
<1>5. IsSeq(g.links)
  BY <1>a, <1>2, ConcatShape, PreloadLinksSeq DEF L
<1>6. TaskInv(g)
  BY <1>1, <1>2, <1>4, <1>5 DEF TaskInv
<1> QED BY <1>1, <1>2, <1>6 DEF Follows, g

\* A preload is skipped.
LEMMA SkipsGood ==
  ASSUME SiteInv, Calls, NEW p \in DOMAIN runner, Running(p),
         NEW u, Preloading(Top(p)), Skips(p, u)
  PROVE  Good(p)
<1> DEFINE s == runner[p].stack
           g == Preloaded(Top(p), u, NewResource)
           t == Append(Front(s), g)
           errs == runner[p].errs \cup {[url |-> u, kind |-> "loop"]}
<1>1. CallShape(runner[p]) /\ StackShape(s) /\ StackInv(s, runner[p].main) /\ Top(p) = s[Len(s)]
      /\ TaskInv(Top(p))
  BY RunningCall
<1>2. TaskInv(g) /\ Follows(g, Top(p))
  BY <1>1, PreloadedGood
<1> HIDE DEF g
<1>3. StackInv(t, runner[p].main) /\ Less(Work(t), Work(s))
  BY <1>1, <1>2, MoveLess
<1>4. IsSeq(t) /\ t # <<>>
  BY <1>1, ReplaceShape DEF StackShape
<1>5. runner'[p] = View(runner[p], "running", errs, t, runner[p].result)
  BY DEF Skips, g
<1> HIDE DEF t, errs
<1>6. CallShape(runner'[p]) /\ runner'[p].stack = t /\ runner'[p].main = runner[p].main
  BY ONLY <1>4, <1>5, ViewShape
<1> QED BY <1>3, <1>6 DEF Good

\* A task returns.
LEMMA ReturnsGood ==
  ASSUME SiteInv, Calls, NEW p \in DOMAIN runner, Running(p),
         NEW r, NEW err, Ends(p, r, err) \/ Resumes(p, r, err)
  PROVE  Good(p)
<1> DEFINE s == runner[p].stack
           errs == Errors(p, err)
<1> HIDE DEF errs
<1>1. CallShape(runner[p]) /\ StackShape(s) /\ StackInv(s, runner[p].main) /\ Top(p) = s[Len(s)]
      /\ Len(s) \in Nat \ {0}
  BY RunningCall
<1>2. CASE Ends(p, r, err)
  <2>1. runner'[p] = View(runner[p], "done", errs, <<>>, r)
    BY <1>2 DEF Ends, errs
  <2>2. CallShape(runner'[p]) /\ runner'[p].stack = <<>> /\ runner'[p].main = runner[p].main
    BY ONLY <2>1, DoneShape
  <2>3. StackInv(<<>>, runner[p].main) /\ Less(Work(<<>>), Work(s))
    BY <1>1, EndLess
  <2> QED BY <2>2, <2>3 DEF Good
<1>3. CASE Resumes(p, r, err)
  <2> DEFINE f == s[Len(s) - 1]
             g == Preloaded(f, Top(p).url, r)
             t == Append(Front(Front(s)), g)
  <2>1. Len(s) > 1 /\ runner'[p] = View(runner[p], "running", errs, t, runner[p].result)
    BY <1>3 DEF Resumes, errs
  <2>2. Len(s) - 1 \in 1 .. Len(s) - 1 /\ Len(s) - 1 \in 1..Len(s)
    BY ONLY <1>1, <2>1
  <2>3. TaskInv(f) /\ Preloading(f)
    BY <1>1, <2>2, Zenon DEF StackInv
  <2>4. TaskInv(g) /\ g.url = f.url /\ g.pc = "preload" /\ g.preload = f.preload + 1
    <3> HIDE DEF f
    <3> QED BY <2>3, PreloadedGood DEF Follows
  <2> HIDE DEF g
  <2>5. StackInv(t, runner[p].main) /\ Less(Work(t), Work(s))
    BY <1>1, <2>1, <2>4, ResumeLess, Zenon
  <2>6. IsSeq(t) /\ t # <<>>
    <3>1. IsSeq(Front(s))
      BY <1>1, FrontShape DEF StackShape
    <3>2. Front(s) # <<>>
      BY <1>1, <2>1, <3>1, FrontShape, SeqShape DEF StackShape
    <3> QED BY <3>1, <3>2, ReplaceShape
  <2> HIDE DEF t
  <2>7. CallShape(runner'[p]) /\ runner'[p].stack = t /\ runner'[p].main = runner[p].main
    BY ONLY <2>1, <2>6, ViewShape
  <2> QED BY <2>5, <2>7, Zenon DEF Good
<1> QED BY <1>2, <1>3

-----------------------------------------------------------------------------
(* The steps of a call, by what they do to its stack and to the cache. *)

Returns(p, r, err) == Ends(p, r, err) \/ Resumes(p, r, err)
NotStored == UNCHANGED <<cache, files, reported>>
Usable(p) == Cached(Top(p).url) /\ Verify(cache[Top(p).url].exchange, runner[p].cert, runner[p].date)

Failures == {"fetch", "redirect", "process", "sign"}
FailedResources ==
  {NewResource, Res(TRUE, FALSE, FALSE, NoExchange), Res(FALSE, TRUE, FALSE, NoExchange), Ready}

Fails(p) == \E k \in Failures, r \in FailedResources : Returns(p, r, {k}) /\ NotStored
Hits(p) == Top(p).pc = "lookup" /\ Usable(p) /\ Returns(p, cache[Top(p).url], {}) /\ NotStored
GoesOn(p) ==
  \E g : /\ TaskInv(g) /\ Follows(g, Top(p)) /\ g.links = Top(p).links /\ g.pc # "lookup"
         /\ Top(p).pc # "preload" /\ (Top(p).pc = "lookup" => ~Usable(p))
         /\ Moves(p, g) /\ NotStored
Cuts(p) == \E u : Preloading(Top(p)) /\ Skips(p, u) /\ NotStored
Starts(p) == \E u \in DOMAIN site : u \notin Active(p) /\ Preloading(Top(p)) /\ Pushes(p, u) /\ NotStored
Stores(p) ==
  LET u == Top(p).url
      e == NewExchange(Top(p), runner[p].cert, runner[p].date)
  IN  /\ Top(p).pc = "preload" /\ Verify(e, runner[p].cert, runner[p].date)
      /\ cache' \in StoreInMemory(u, Signed(e))
      /\ \/ /\ files' = IF setup.cache = "file" THEN With(files, u, e) ELSE files
            /\ Returns(p, Signed(e), {}) /\ reported' = reported
         \/ /\ setup.cache = "file" /\ files' \in {files, With(files, u, TornFile)}
            /\ Returns(p, Signed(e), {"store"}) /\ reported' = reported \cup {u}

Still == site' = site /\ setup' = setup /\ cert' = cert /\ now' = now

\* A resource with an exchange.
LEMMA SignedIs == ASSUME NEW e PROVE Signed(e).exchange = e /\ ~Signed(e).redirectURL
BY DEF Signed, Res

\* Lookup.
LEMMA LookupCases ==
  ASSUME SiteInv, Calls, NEW p \in DOMAIN runner, Lookup(p)
  PROVE  Running(p) /\ Still /\ (Hits(p) \/ GoesOn(p))
<1> DEFINE f == Top(p)
           g == [f EXCEPT !.pc = "fetch"]
<1>1. Running(p) /\ f.pc = "lookup"
  BY DEF Lookup, At
<1>2. Still /\ NotStored
  BY DEF Lookup, world, Still, NotStored
<1>3. IF Usable(p) THEN Return(p, cache[f.url], {}) ELSE SetTop(p, g)
  BY DEF Lookup, Usable
<1>4. CallShape(runner[p]) /\ TaskInv(f)
  BY <1>1, RunningCall
<1>5. CASE Usable(p)
  <2>1. Returns(p, cache[f.url], {})
    BY <1>1, <1>3, <1>4, <1>5, ReturnView DEF Returns
  <2> QED BY <1>1, <1>2, <1>5, <2>1 DEF Hits
<1>6. CASE ~Usable(p)
  <2> HIDE DEF f
  <2>1. DOMAIN g = TaskFields /\ g.url = f.url /\ g.pc = "fetch" /\ g.preload = f.preload
        /\ g.links = f.links /\ g.r = f.r
    BY <1>4, TaskFieldsOf, Zenon
  <2> HIDE DEF g
  <2>2. TaskInv(g)
    BY <1>1, <1>4, <2>1 DEF TaskInv
  <2>3. Moves(p, g)
    BY <1>1, <1>3, <1>4, <1>6, SetTopView
  <2> QED BY <1>1, <1>2, <1>6, <2>1, <2>2, <2>3 DEF GoesOn, Follows, f
<1> QED BY <1>5, <1>6

\* Fetch.
LEMMA FetchCases ==
  ASSUME SiteInv, Calls, NEW p \in DOMAIN runner, Fetch(p)
  PROVE  Running(p) /\ Still /\ (Fails(p) \/ GoesOn(p))
<1> DEFINE f == Top(p)
           v == content[f.url]
           g == Fetched(f, v)
<1>1. Running(p) /\ f.pc = "fetch"
  BY DEF Fetch, At
<1>2. Still /\ NotStored
  BY DEF Fetch, world, Still, NotStored
<1>3. \/ Return(p, f.r, {"fetch"})
      \/ Return(p, [f.r EXCEPT !.redirectURL = TRUE], {"redirect"})
      \/ Return(p, [f.r EXCEPT !.physicalURL = TRUE], {"process"})
      \/ SetTop(p, g)
  BY DEF Fetch, Redirected, Fetched
<1>4. CallShape(runner[p]) /\ TaskInv(f)
  BY <1>1, RunningCall
<1>5. f.r = NewResource
  BY <1>1, <1>4 DEF TaskInv
<1>6. [f.r EXCEPT !.redirectURL = TRUE] = Res(TRUE, FALSE, FALSE, NoExchange)
      /\ [f.r EXCEPT !.physicalURL = TRUE] = Res(FALSE, TRUE, FALSE, NoExchange)
  BY <1>5, ResSteps, Zenon
<1>7. \/ Return(p, NewResource, {"fetch"})
      \/ Return(p, Res(TRUE, FALSE, FALSE, NoExchange), {"redirect"})
      \/ Return(p, Res(FALSE, TRUE, FALSE, NoExchange), {"process"})
      \/ SetTop(p, g)
  <2> HIDE DEF g
  <2> QED BY ONLY <1>3, <1>5, <1>6, Zenon
<1>8. ASSUME NEW k \in Failures, NEW r \in FailedResources, Return(p, r, {k})
      PROVE  Fails(p)
  <2>1. Returns(p, r, {k})
    BY <1>1, <1>4, <1>8, ReturnView DEF Returns
  <2> QED BY ONLY <1>2, <2>1, k \in Failures, r \in FailedResources DEF Fails
<1>9. ASSUME SetTop(p, g) PROVE GoesOn(p)
  <2> HIDE DEF f, v
  <2>1. DOMAIN g = TaskFields /\ g.url = f.url /\ g.pc = "preload" /\ g.preload = f.preload
        /\ g.version = v /\ g.links = f.links /\ g.r = Ready
    BY <1>4, <1>5, FetchedFields, SMTT(60)
  <2> HIDE DEF g
  <2>2. TaskInv(g)
    BY <1>1, <1>4, <2>1, Zenon DEF TaskInv
  <2>3. Moves(p, g)
    BY <1>1, <1>4, <1>9, SetTopView
  <2> QED BY <1>1, <1>2, <2>1, <2>2, <2>3, Zenon DEF GoesOn, Follows, f
<1>10. /\ "fetch" \in Failures /\ "redirect" \in Failures /\ "process" \in Failures
       /\ NewResource \in FailedResources /\ Res(TRUE, FALSE, FALSE, NoExchange) \in FailedResources
       /\ Res(FALSE, TRUE, FALSE, NoExchange) \in FailedResources
  BY DEF Failures, FailedResources
<1> HIDE DEF g
<1> QED BY ONLY <1>1, <1>2, <1>7, <1>8, <1>9, <1>10, Zenon

\* Preload.
LEMMA PreloadCases ==
  ASSUME SiteInv, Calls, NEW p \in DOMAIN runner, Preload(p)
  PROVE  Running(p) /\ Still /\ (Cuts(p) \/ Starts(p))
<1> DEFINE f == Top(p)
           u == site[f.url][f.preload]
<1>1. Running(p) /\ Preloading(f)
  BY DEF Preload, Preloads, At, Preloading
<1>2. Still /\ NotStored
  BY DEF Preload, world, Still, NotStored
<1>3. CallShape(runner[p]) /\ TaskInv(f)
  BY <1>1, RunningCall
<1>4. IF u \in Active(p) THEN Skips(p, u) ELSE Pushes(p, u)
  BY <1>3, PreloadView, Zenon
<1>5. u \in DOMAIN site
  <2>1. f.preload \in 1..Len(site[f.url])
    BY <1>1, <1>3, SMTT(60) DEF TaskInv, Preloading, SiteInv
  <2> QED BY <1>3, <2>1, Zenon DEF TaskInv, SiteInv
<1> HIDE DEF u
<1> QED BY <1>1, <1>2, <1>4, <1>5 DEF Cuts, Starts

\* Sign.
LEMMA SignCases ==
  ASSUME SiteInv, Calls, NEW p \in DOMAIN runner, Sign(p)
  PROVE  Running(p) /\ Still /\ (Fails(p) \/ Stores(p))
<1> DEFINE f == Top(p)
           u == f.url
           e == NewExchange(f, runner[p].cert, runner[p].date)
           r == [f.r EXCEPT !.exchange = e]
<1>1. Running(p) /\ f.pc = "preload"
  BY DEF Sign, At
<1>2. Still
  BY DEF Sign, world, Still
<1>3. CallShape(runner[p]) /\ TaskInv(f)
  BY <1>1, RunningCall
<1>4. f.r = Ready
  BY <1>1, <1>3 DEF TaskInv
<1>5. r = Signed(e) /\ r.exchange = e
  <2> HIDE DEF e
  <2>1. r = Signed(e)
    BY ONLY <1>4, ResSteps, Zenon
  <2> HIDE DEF r
  <2> QED BY ONLY <2>1, SignedIs
<1>6. \/ Return(p, f.r, {"sign"}) /\ NotStored
      \/ Verify(r.exchange, runner[p].cert, runner[p].date) /\ Store(p, r)
  BY DEF Sign, NotStored
<1> HIDE DEF r, e
<1>7. ASSUME Return(p, f.r, {"sign"}), NotStored
      PROVE  Fails(p)
  <2>1. Returns(p, Ready, {"sign"})
    BY <1>1, <1>3, <1>4, <1>7, ReturnView DEF Returns
  <2>2. Ready \in FailedResources /\ "sign" \in Failures
    BY DEF FailedResources, Failures
  <2> QED BY ONLY <1>7, <2>1, <2>2 DEF Fails
<1>8. ASSUME Verify(r.exchange, runner[p].cert, runner[p].date), Store(p, r)
      PROVE  Stores(p)
  <2>1. Verify(e, runner[p].cert, runner[p].date) /\ Store(p, Signed(e))
    BY ONLY <1>5, <1>8, Zenon
  <2>2. \A err : Return(p, Signed(e), err) => Returns(p, Signed(e), err)
    BY <1>1, <1>3, ReturnView DEF Returns
  <2>3. Signed(e).exchange = e
    BY ONLY SignedIs
  <2>4. /\ cache' \in StoreInMemory(u, Signed(e))
        /\ \/ /\ files' = IF setup.cache = "file" THEN With(files, u, Signed(e).exchange) ELSE files
              /\ Return(p, Signed(e), {})
              /\ reported' = reported
           \/ /\ setup.cache = "file" /\ setup.writeErrors
              /\ files' \in {files, With(files, u, TornFile)}
              /\ Return(p, Signed(e), {"store"})
              /\ reported' = reported \cup {u}
    BY <2>1, Zenon DEF Store
  <2>5. \/ /\ files' = IF setup.cache = "file" THEN With(files, u, e) ELSE files
           /\ Returns(p, Signed(e), {}) /\ reported' = reported
        \/ /\ setup.cache = "file" /\ files' \in {files, With(files, u, TornFile)}
           /\ Returns(p, Signed(e), {"store"}) /\ reported' = reported \cup {u}
    BY ONLY <2>2, <2>3, <2>4, Zenon
  <2> QED BY <1>1, <2>1, <2>4, <2>5, Zenon DEF Stores, e
<1> QED BY <1>1, <1>2, <1>6, <1>7, <1>8

\* A step of a call is one of these.
LEMMA StepCases ==
  ASSUME SiteInv, Calls, NEW p \in DOMAIN runner, Step(p)
  PROVE  /\ Running(p) /\ Still
         /\ Fails(p) \/ Hits(p) \/ GoesOn(p) \/ Cuts(p) \/ Starts(p) \/ Stores(p)
BY LookupCases, FetchCases, PreloadCases, SignCases DEF Step

-----------------------------------------------------------------------------
(* Calls keep their shape, and end. *)

\* The step keeps the shape of all calls and leaves less to do in one that runs.
Descends ==
  /\ Calls'
  /\ \A q \in DOMAIN runner :
       Running(q) /\ runner'[q] # runner[q] => Less(Work(runner'[q].stack), Work(runner[q].stack))

\* No URL has more preloads than there are URLs.
LEMMA InitSite == ASSUME Init PROVE SiteInv
<1>1. PICK pages \in kSubset(setup.pages, URLs) : site \in [pages -> PreloadSeqs(pages)]
  BY DEF Init
<1>2. pages \in SUBSET URLs
  BY <1>1 DEF kSubset
<1>3. DOMAIN site = pages
  BY <1>1
<1>4. ASSUME NEW u \in pages
      PROVE  /\ Len(site[u]) \in Nat /\ Len(site[u]) <= Cardinality(URLs)
             /\ \A i \in 1..Len(site[u]) : site[u][i] \in pages
  <2> DEFINE s == site[u]
  <2>1. s \in PreloadSeqs(pages)
    BY <1>1, <1>4
  <2> HIDE DEF s
  <2>2. PICK n \in 0..setup.preloads : s \in [1..n -> pages] /\ Cardinality(Range(s)) = Len(s)
    BY <2>1 DEF PreloadSeqs
  <2>3. n \in Nat
    BY <2>2
  <2>4. s \in Seq(pages)
    BY ONLY <2>2, <2>3, SeqDef
  <2>5. Len(s) \in Nat /\ \A i \in 1..Len(s) : s[i] \in pages
    BY ONLY <2>4, LenProperties
  <2>6. Range(s) = {s[i] : i \in 1..Len(s)}
    BY ONLY <2>4, SeqOfAny, SeqShape
  <2>7. Range(s) \in SUBSET URLs
    BY ONLY <1>2, <2>5, <2>6
  <2>8. Cardinality(Range(s)) <= Cardinality(URLs)
    BY ONLY <2>7, SetupAssumption, FS_Subset
  <2> QED BY <2>2, <2>5, <2>8 DEF s
<1> QED BY <1>2, <1>3, <1>4 DEF SiteInv

\* The site stays.
LEMMA SiteStays == ASSUME [Next]_vars PROVE site' = site /\ setup' = setup
BY Zenon DEF Next, vars, Step, Run, Finish, Lookup, Fetch, Preload, Sign, Environment, ContentChanges, CertRotates,
       Tick, world

\* A call with another shape, all others being the same.
LEMMA CallsOf ==
  ASSUME Calls, site' = site, NEW p \in DOMAIN runner, Others(p),
         runner'[p] = Idle \/ (CallShape(runner'[p]) /\ StackInv(runner'[p].stack, runner'[p].main))
  PROVE  Calls'
<1> SUFFICES ASSUME NEW q \in DOMAIN runner
             PROVE  runner'[q] = Idle \/ (CallShape(runner'[q]) /\ StackInv(runner[q].stack, runner[q].main)')
  BY DEF Calls, Others, CallShape, IsSeq, Idle, View
<1>1. runner'[q] = Idle \/ (CallShape(runner'[q]) /\ StackInv(runner'[q].stack, runner'[q].main))
  BY DEF Calls, Others
<1>2. StackInv(runner'[q].stack, runner'[q].main) => StackInv(runner[q].stack, runner[q].main)'
  BY Zenon DEF StackInv, TaskInv, Preloading
<1> QED BY <1>1, <1>2

\* Run.
LEMMA RunCalls ==
  ASSUME SiteInv, Calls, NEW p \in DOMAIN runner, NEW u \in DOMAIN site, Run(p, u)
  PROVE  Others(p) /\ CallShape(runner'[p]) /\ StackInv(runner'[p].stack, runner'[p].main)
<1> DEFINE Q == NewTaskRunner(u)
           f == NewTask(u)
           s == <<f>>
<1>1. runner' = [runner EXCEPT ![p] = Q]
  BY DEF Run
<1>2. Q.state = "running" /\ Q.stack = s /\ Q.main = u /\ Q = View(Q, Q.state, Q.errs, s, Q.result)
  BY DEF NewTaskRunner, View
<1>3. TaskInv(f) /\ f.url = u
  <2>1. Len(site[u]) \in Nat
    BY DEF SiteInv
  <2>2. DOMAIN f = TaskFields /\ f.url = u /\ f.pc = "lookup" /\ f.preload = 1 /\ f.links = <<>>
        /\ f.r = NewResource
    BY DEF NewTask, TaskFields
  <2> HIDE DEF f
  <2>3. 1 \in Nat \ {0} /\ 1 <= Len(site[u]) + 1
    BY ONLY <2>1
  <2> QED BY <2>2, <2>3, EmptyShape DEF TaskInv
<1> HIDE DEF Q, f
<1>4. Others(p) /\ runner'[p] = Q
  BY ONLY <1>1, p \in DOMAIN runner DEF Others
<1>5. s \in Seq({f}) /\ Len(s) = 1 /\ s[1] = f /\ s # <<>>
  OBVIOUS
<1>6. IsSeq(s)
  BY ONLY <1>5, SeqOfAny, Zenon
<1> HIDE DEF s
<1>7. CallShape(Q)
  BY <1>2, <1>5, <1>6 DEF CallShape
<1>8. StackInv(s, u)
  <2>1. \A i \in 1..Len(s) : i = 1
    BY ONLY <1>5
  <2>2. \A i \in 1 .. Len(s) - 1 : FALSE
    BY ONLY <1>5
  <2> QED BY ONLY <1>3, <1>5, <2>1, <2>2 DEF StackInv
<1> QED BY <1>2, <1>4, <1>7, <1>8

\* Every step.
LEMMA NextDescends ==
  ASSUME SiteInv, Calls, [Next]_vars
  PROVE  SiteInv' /\ Descends
<1>1. site' = site
  BY SiteStays
<1>2. SiteInv'
  BY <1>1 DEF SiteInv
<1>3. ASSUME NEW p \in DOMAIN runner, NEW u \in DOMAIN site, Run(p, u)
      PROVE  Descends
  <2>1. Others(p) /\ CallShape(runner'[p]) /\ StackInv(runner'[p].stack, runner'[p].main)
    BY <1>3, RunCalls
  <2>2. Calls'
    BY <1>1, <2>1, CallsOf
  <2>3. ~Running(p)
    BY <1>3 DEF Run, Running, Idle
  <2> QED BY <2>1, <2>2, <2>3 DEF Descends, Others
<1>4. ASSUME NEW p \in DOMAIN runner, Step(p)
      PROVE  Descends
  <2>1. /\ Running(p)
        /\ Fails(p) \/ Hits(p) \/ GoesOn(p) \/ Cuts(p) \/ Starts(p) \/ Stores(p)
    BY <1>4, StepCases
  <2>2. ASSUME NEW r, NEW err, Returns(p, r, err)
        PROVE  Others(p) /\ Good(p)
    BY <2>1, <2>2, ReturnsGood DEF Returns, Ends, Resumes
  <2>3. Others(p) /\ Good(p)
    <3>1. CASE Fails(p)
      BY <2>2, <3>1, Zenon DEF Fails
    <3>2. CASE Hits(p)
      BY <2>2, <3>2, Zenon DEF Hits
    <3>3. CASE GoesOn(p)
      BY <2>1, <3>3, MovesGood DEF GoesOn, Moves
    <3>4. CASE Cuts(p)
      BY <2>1, <3>4, SkipsGood DEF Cuts, Skips
    <3>5. CASE Starts(p)
      BY <2>1, <3>5, PushesGood DEF Starts, Pushes
    <3>6. CASE Stores(p)
      BY <2>2, <3>6, Zenon DEF Stores
    <3> QED BY <2>1, <3>1, <3>2, <3>3, <3>4, <3>5, <3>6
  <2>4. Calls'
    BY <1>1, <2>3, CallsOf DEF Good
  <2> QED BY <2>3, <2>4 DEF Descends, Others, Good
<1>5. ASSUME NEW p \in DOMAIN runner, Finish(p)
      PROVE  Descends
  <2>1. runner' = [runner EXCEPT ![p] = Idle] /\ ~Running(p)
    BY <1>5 DEF Finish, Running
  <2>2. Others(p) /\ runner'[p] = Idle
    BY ONLY <2>1, p \in DOMAIN runner DEF Others
  <2>3. Calls'
    BY <1>1, <2>2, CallsOf
  <2> QED BY <2>1, <2>2, <2>3 DEF Descends, Others
<1>6. ASSUME Environment \/ UNCHANGED vars
      PROVE  Descends
  <2>1. runner' = runner
    BY <1>6 DEF Environment, ContentChanges, CertRotates, Tick, vars
  <2>2. Calls'
    <3> SUFFICES ASSUME NEW q \in DOMAIN runner
                 PROVE  runner[q] = Idle \/ (CallShape(runner[q]) /\ StackInv(runner[q].stack, runner[q].main)')
      BY <2>1 DEF Calls, CallShape, IsSeq, Idle, View
    <3>1. StackInv(runner[q].stack, runner[q].main) => StackInv(runner[q].stack, runner[q].main)'
      BY <1>1, <2>1 DEF StackInv, TaskInv, Preloading
    <3> QED BY <3>1 DEF Calls
  <2> QED BY <2>1, <2>2 DEF Descends
<1> QED BY <1>2, <1>3, <1>4, <1>5, <1>6 DEF Next

\* No URL is in progress twice in a call of Run: a preload of an active URL is an
\* errReferenceLoop (task.go).
THEOREM Shape == Spec => [](SiteInv /\ Calls)
<1>1. Init => SiteInv /\ Calls
  BY InitSite DEF Init, Calls
<1>2. SiteInv /\ Calls /\ [Next]_vars => (SiteInv /\ Calls)'
  BY NextDescends DEF Descends
<1> QED BY <1>1, <1>2, PTL DEF Spec

\* Every call of Run ends: each of its steps takes it down a well-founded order,
\* for any site and whatever fails, is cut or is found in the cache.
THEOREM Terminates == Spec => RunTerminates
<1>1. SiteInv /\ Calls /\ [Next]_vars
      => [\A p \in DOMAIN runner :
            Running(p) /\ runner'[p] # runner[p] => Less(Work(runner'[p].stack), Work(runner[p].stack))]_vars
  BY NextDescends DEF Descends
<1> QED BY <1>1, Shape, PTL DEF Spec, RunTerminates

-----------------------------------------------------------------------------
(* What is cached and returned. *)

ToFiles == setup.cache = "file"

\* Links preload nothing without its signed exchange; those signed are the cached ones.
LinksOK(s) ==
  setup.keep \/ \A l \in Range(s) : \E m \in Range(s) : m.rel = "allowed-alt-sxg" /\ m.url = l.url
AltOK(s, c) ==
  \A l \in Range(s) : l.rel = "allowed-alt-sxg"
    => l.url \in DOMAIN c /\ l.integrity = Integrity(c[l.url].exchange)

\* A task beyond the lookup found nothing in the cache.
TaskOK(f, c) ==
  /\ LinksOK(f.links)
  /\ ToFiles => AltOK(f.links, c) /\ (f.pc # "lookup" => f.url \notin DOMAIN c)

HasExchange(r) == r = Signed(r.exchange) /\ r.exchange # NoExchange
EntryOK(r, c) ==
  /\ HasExchange(r) /\ LinksOK(r.exchange.links)
  /\ ToFiles => AltOK(r.exchange.links, c) /\ Verify(r.exchange, 0, 0)

\* While a call runs, its URL has no error but loops. When it is done, its URL has
\* failed, or has the exchange.
RunningOK(R, c) ==
  /\ R.result = NewResource
  /\ \A x \in R.errs : x.url = R.main => x.kind = "loop"
  /\ \A i \in 1..Len(R.stack) : TaskOK(R.stack[i], c)
FailedOK(R) == R.result \in FailedResources /\ \E x \in R.errs : x.url = R.main /\ x.kind \in Failures
DoneOK(R, c) ==
  /\ HasExchange(R.result) /\ Verify(R.result.exchange, R.cert, R.date)
  /\ \A x \in R.errs : x.url = R.main => x.kind \in {"loop", "store"}
  /\ ToFiles => R.main \in DOMAIN c /\ R.result = c[R.main]
CallOK(R, c) ==
  /\ R.state = "running" => RunningOK(R, c)
  /\ R.state = "done" => FailedOK(R) \/ DoneOK(R, c)
  /\ ToFiles => R.cert = 0 /\ R.date = 0

CacheInv ==
  /\ \A u \in DOMAIN cache : u \in URLs /\ EntryOK(cache[u], cache)
  /\ setup.cache = "bounded" => IsFiniteSet(DOMAIN cache) /\ Cardinality(DOMAIN cache) <= CacheSize
CallInv == \A p \in DOMAIN runner : runner[p] # Idle => CallOK(runner[p], cache)
FileInv ==
  ToFiles =>
    /\ cert = 0 /\ now = 0 /\ \E q \in DOMAIN runner : DOMAIN runner = {q}
    /\ \A u \in DOMAIN cache : u \in reported \/ (u \in DOMAIN files /\ files[u] = cache[u].exchange)

PackagerInv == SiteInv /\ Calls /\ setup \in Setups /\ CacheInv /\ CallInv /\ FileInv

\* The links so far and those for one more preload.
LEMMA LinksConcat ==
  ASSUME NEW s, IsSeq(s), NEW t, IsSeq(t)
  PROVE  /\ LinksOK(s) /\ LinksOK(t) => LinksOK(s \o t)
         /\ \A c : AltOK(s, c) /\ AltOK(t, c) => AltOK(s \o t, c)
<1>1. Range(s \o t) = Range(s) \cup Range(t)
  BY ConcatShape
<1> DEFINE v == s \o t
           V == Range(v)
           S == Range(s)
           T == Range(t)
<1>2. V = S \cup T
  BY <1>1
<1> HIDE DEF V, S, T, v
<1>3. LinksOK(s) /\ LinksOK(t) => LinksOK(v)
  BY <1>2 DEF LinksOK, S, T, V
<1>4. \A c : AltOK(s, c) /\ AltOK(t, c) => AltOK(v, c)
  BY <1>2 DEF AltOK, S, T, V
<1> QED BY <1>3, <1>4 DEF v

\* No links.
LEMMA NoLinks == LinksOK(<<>>) /\ \A c : AltOK(<<>>, c)
BY EmptyShape DEF LinksOK, AltOK

\* The links for one preload.
LEMMA PreloadLinksOK ==
  ASSUME NEW u, NEW h
  PROVE  /\ LinksOK(PreloadLinks(u, h))
         /\ \A c : (h # NoIntegrity => u \in DOMAIN c /\ h = Integrity(c[u].exchange)) => AltOK(PreloadLinks(u, h), c)
<1> DEFINE a == [rel |-> "allowed-alt-sxg", url |-> u, integrity |-> h]
           b == [rel |-> "preload", url |-> u]
           L == PreloadLinks(u, h)
<1>1. L = IF h # NoIntegrity THEN <<a, b>> ELSE IF setup.keep THEN <<b>> ELSE <<>>
  BY DEF PreloadLinks
<1>2. a.rel = "allowed-alt-sxg" /\ a.url = u /\ a.integrity = h /\ b.rel = "preload" /\ b.url = u
  OBVIOUS
<1> HIDE DEF a, b, L
<1>3. Range(<<a, b>>) = {a, b} /\ Range(<<b>>) = {b} /\ Range(<<>>) = {}
  BY DEF Range
<1>4. CASE h # NoIntegrity
  <2>1. Range(L) = {a, b}
    BY <1>1, <1>3, <1>4
  <2> QED BY <1>2, <1>4, <2>1 DEF LinksOK, AltOK, L
<1>5. CASE h = NoIntegrity /\ setup.keep
  <2>1. Range(L) = {b}
    BY <1>1, <1>3, <1>5
  <2> QED BY <1>2, <1>5, <2>1 DEF LinksOK, AltOK, L
<1>6. CASE h = NoIntegrity /\ ~setup.keep
  <2>1. Range(L) = {}
    BY <1>1, <1>3, <1>6
  <2> QED BY <1>2, <1>6, <2>1 DEF LinksOK, AltOK, L
<1> QED BY <1>4, <1>5, <1>6

\* What a preload ended with may be linked.
Linkable(u, r, c) == ToFiles => r.exchange = NoExchange \/ (u \in DOMAIN c /\ r = c[u])

\* The task after a preload.
LEMMA PreloadedOK ==
  ASSUME NEW f, TaskInv(f), NEW c, TaskOK(f, c), NEW u, NEW r, Linkable(u, r, c)
  PROVE  TaskOK(Preloaded(f, u, r), c)
<1> DEFINE g == Preloaded(f, u, r)
           h == Integrity(r.exchange)
           L == PreloadLinks(u, h)
<1>1. g.url = f.url /\ g.pc = f.pc
  BY PreloadedFields
<1>2. g.links = f.links \o L
  BY PreloadedLinks, Zenon
<1>3. IsSeq(L) /\ IsSeq(f.links)
  BY PreloadLinksSeq DEF TaskInv
<1>4. ToFiles => (h # NoIntegrity => u \in DOMAIN c /\ h = Integrity(c[u].exchange))
  BY DEF Linkable, Integrity
<1> HIDE DEF g, h
<1>5. LinksOK(L) /\ (ToFiles => AltOK(L, c))
  BY ONLY <1>4, PreloadLinksOK
<1> HIDE DEF L
<1>6. LinksOK(f.links) /\ (ToFiles => AltOK(f.links, c) /\ (f.pc # "lookup" => f.url \notin DOMAIN c))
  BY DEF TaskOK
<1>7. LinksOK(f.links \o L) /\ (ToFiles => AltOK(f.links \o L, c))
  BY ONLY <1>3, <1>5, <1>6, LinksConcat
<1>8. TaskOK(g, c)
  BY ONLY <1>1, <1>2, <1>6, <1>7 DEF TaskOK
<1> QED BY <1>8 DEF g

\* Failed resources have no exchange.
LEMMA FailedIs ==
  ASSUME NEW r \in FailedResources
  PROVE  /\ r.exchange = NoExchange
         /\ r.redirectURL => ~r.physicalURL /\ ~r.validityURL
BY DEF FailedResources, Res, NewResource, Ready

\* How a task may end.
Outcome(p, r, err, c) ==
  \/ r \in FailedResources /\ \E k \in Failures : err = {k}
  \/ /\ HasExchange(r) /\ Verify(r.exchange, runner[p].cert, runner[p].date) /\ err \subseteq {"store"}
     /\ ToFiles => Top(p).url \in DOMAIN c /\ r = c[Top(p).url]

Dated(R) == ToFiles => R.cert = 0 /\ R.date = 0

\* A task at the top goes on.
LEMMA MovesOK ==
  ASSUME Calls, NEW p \in DOMAIN runner, Running(p), NEW c, CallOK(runner[p], c), NEW g, TaskOK(g, c), Moves(p, g)
  PROVE  CallOK(runner'[p], c)
<1> DEFINE R == runner[p]
           s == R.stack
           t == Append(Front(s), g)
           Q == runner'[p]
<1>1. StackShape(s) /\ RunningOK(R, c) /\ Dated(R)
  BY RunningCall DEF CallOK, Running, Dated
<1>2. Len(t) = Len(s) /\ Len(s) \in Nat \ {0} /\ t[Len(s)] = g /\ \A i \in 1 .. Len(s) - 1 : t[i] = s[i]
  BY <1>1, ReplaceShape, FrontShape DEF StackShape
<1>3. Q = View(R, "running", R.errs, t, R.result)
  BY DEF Moves
<1> HIDE DEF t, Q
<1>4. Q.state = "running" /\ Q.main = R.main /\ Q.cert = R.cert /\ Q.date = R.date
      /\ Q.stack = t /\ Q.errs = R.errs /\ Q.result = R.result
  BY ONLY <1>3, ViewFields
<1>5. \A i \in 1..Len(t) : TaskOK(t[i], c)
  <2>1. \A i \in 1..Len(t) : i = Len(s) \/ (i \in 1..Len(s) /\ i \in 1 .. Len(s) - 1)
    BY ONLY <1>2
  <2>2. \A i \in 1..Len(s) : TaskOK(s[i], c)
    BY <1>1 DEF RunningOK
  <2> QED BY ONLY <1>2, <2>1, <2>2, TaskOK(g, c)
<1> HIDE DEF R
<1>6. CallOK(Q, c)
  BY ONLY <1>1, <1>4, <1>5 DEF CallOK, RunningOK, Dated
<1> QED BY <1>6 DEF Q

\* A preload starts.
LEMMA PushesOK ==
  ASSUME Calls, NEW p \in DOMAIN runner, Running(p), NEW c, CallOK(runner[p], c), NEW u, Pushes(p, u)
  PROVE  CallOK(runner'[p], c)
<1> DEFINE R == runner[p]
           s == R.stack
           g == NewTask(u)
           t == Append(s, g)
           Q == runner'[p]
<1>1. StackShape(s) /\ RunningOK(R, c) /\ Dated(R)
  BY RunningCall DEF CallOK, Running, Dated
<1>2. Len(t) = Len(s) + 1 /\ Len(s) \in Nat \ {0} /\ t[Len(s) + 1] = g /\ \A i \in 1..Len(s) : t[i] = s[i]
  BY <1>1, PushShape, FrontShape DEF StackShape
<1>3. Q = View(R, "running", R.errs, t, R.result)
  BY DEF Pushes
<1>4. TaskOK(g, c)
  <2>1. g.links = <<>> /\ g.pc = "lookup"
    BY DEF NewTask
  <2> HIDE DEF g
  <2> QED BY <2>1, NoLinks DEF TaskOK
<1> HIDE DEF t, Q, g
<1>5. Q.state = "running" /\ Q.main = R.main /\ Q.cert = R.cert /\ Q.date = R.date
      /\ Q.stack = t /\ Q.errs = R.errs /\ Q.result = R.result
  BY ONLY <1>3, ViewFields
<1>6. \A i \in 1..Len(t) : TaskOK(t[i], c)
  <2>1. \A i \in 1..Len(t) : i = Len(s) + 1 \/ i \in 1..Len(s)
    BY ONLY <1>2
  <2>2. \A i \in 1..Len(s) : TaskOK(s[i], c)
    BY <1>1 DEF RunningOK
  <2> QED BY ONLY <1>2, <1>4, <2>1, <2>2
<1> HIDE DEF R
<1>7. CallOK(Q, c)
  BY ONLY <1>1, <1>5, <1>6 DEF CallOK, RunningOK, Dated
<1> QED BY <1>7 DEF Q

\* A preload is skipped.
LEMMA SkipsOK ==
  ASSUME Calls, NEW p \in DOMAIN runner, Running(p), NEW c, CallOK(runner[p], c), NEW u, Skips(p, u)
  PROVE  CallOK(runner'[p], c)
<1> DEFINE R == runner[p]
           s == R.stack
           g == Preloaded(Top(p), u, NewResource)
           t == Append(Front(s), g)
           Q == runner'[p]
           x == [url |-> u, kind |-> "loop"]
           errs == R.errs \cup {x}
<1>1. StackShape(s) /\ RunningOK(R, c) /\ Dated(R) /\ Top(p) = s[Len(s)] /\ TaskInv(Top(p))
      /\ Len(s) \in Nat \ {0}
  BY RunningCall DEF CallOK, Running, Dated
<1>2. Len(t) = Len(s) /\ t[Len(s)] = g /\ \A i \in 1 .. Len(s) - 1 : t[i] = s[i]
  BY <1>1, ReplaceShape, Zenon DEF StackShape
<1>3. Q = View(R, "running", errs, t, R.result)
  BY DEF Skips
<1>4. Len(s) \in 1..Len(s)
  BY ONLY <1>1
<1>5. TaskOK(g, c)
  <2>1. TaskOK(Top(p), c)
    BY <1>1, <1>4 DEF RunningOK
  <2>2. Linkable(u, NewResource, c)
    BY DEF Linkable, NewResource
  <2> QED BY ONLY <1>1, <2>1, <2>2, PreloadedOK
<1>6. x.kind = "loop"
  OBVIOUS
<1> HIDE DEF t, Q, g, x
<1>7. \A y \in errs : y.url = R.main => y.kind = "loop"
  BY <1>1, <1>6 DEF RunningOK
<1> HIDE DEF errs
<1>8. Q.state = "running" /\ Q.main = R.main /\ Q.cert = R.cert /\ Q.date = R.date
      /\ Q.stack = t /\ Q.errs = errs /\ Q.result = R.result
  BY ONLY <1>3, ViewFields, SMTT(60)
<1>9. \A i \in 1..Len(t) : TaskOK(t[i], c)
  <2>1. \A i \in 1..Len(t) : i = Len(s) \/ (i \in 1..Len(s) /\ i \in 1 .. Len(s) - 1)
    BY ONLY <1>1, <1>2
  <2>2. \A i \in 1..Len(s) : TaskOK(s[i], c)
    BY <1>1 DEF RunningOK
  <2> QED BY ONLY <1>2, <1>5, <2>1, <2>2
<1> HIDE DEF R
<1>10. CallOK(Q, c)
  BY ONLY <1>1, <1>7, <1>8, <1>9 DEF CallOK, RunningOK, Dated
<1> QED BY <1>10 DEF Q

\* A task returns.
LEMMA ReturnsOK ==
  ASSUME Calls, NEW p \in DOMAIN runner, Running(p), NEW c, RunningOK(runner[p], cache), Dated(runner[p]),
         \A i \in 1 .. Len(runner[p].stack) - 1 : TaskOK(runner[p].stack[i], c),
         NEW r, NEW err, Outcome(p, r, err, c), Returns(p, r, err)
  PROVE  CallOK(runner'[p], c)
<1> DEFINE R == runner[p]
           s == R.stack
           n == Len(s)
           u == Top(p).url
           new == {[url |-> u, kind |-> k] : k \in err}
           errs == R.errs \cup new
           Q == runner'[p]
<1>1. StackShape(s) /\ StackInv(s, R.main) /\ Top(p) = s[n] /\ n \in Nat \ {0}
  BY RunningCall
<1>2. errs = Errors(p, err)
  BY DEF Errors
<1>3. \A x \in R.errs : x.url = R.main => x.kind = "loop"
  BY DEF RunningOK
<1>4. \A x \in new : x.url = u /\ x.kind \in err
  BY SMTT(60)
<1>5. \A k \in err : \E x \in new : x.url = u /\ x.kind = k
  <2> TAKE k \in err
  <2> DEFINE x == [url |-> u, kind |-> k]
  <2>1. x \in new /\ x.url = u /\ x.kind = k
    OBVIOUS
  <2> HIDE DEF x
  <2> QED BY ONLY <2>1
<1>6. n \in 1..n /\ 1 \in 1..n /\ s # <<>>
  BY <1>1 DEF StackShape
<1>7. s[1].url = R.main
  BY <1>1, <1>6 DEF StackInv
<1> HIDE DEF new
<1>8. CASE Ends(p, r, err)
  <2>1. n = 1 /\ Q = View(R, "done", errs, <<>>, r)
    BY <1>2, <1>8, Zenon DEF Ends
  <2>2. u = R.main
    BY <1>1, <1>7, <2>1
  <2> DEFINE t == <<>>
             m == R.main
  <2> HIDE DEF u, Q, errs, t, m
  <2>3. Q = View(R, "done", errs, t, r)
    BY <2>1 DEF t
  <2>4. Q.state = "done" /\ Q.main = m /\ Q.cert = R.cert /\ Q.date = R.date /\ Q.errs = errs /\ Q.result = r
    BY ONLY <2>3, ViewFields DEF m
  <2>5. ASSUME r \in FailedResources, NEW k \in Failures, err = {k}
        PROVE  FailedOK(Q)
    <3>1. \E x \in errs : x.url = m /\ x.kind \in Failures
      BY <1>5, <2>2, <2>5 DEF errs, m
    <3> QED BY ONLY <2>4, <2>5, <3>1 DEF FailedOK
  <2>6. ASSUME HasExchange(r), Verify(r.exchange, R.cert, R.date), err \subseteq {"store"},
               ToFiles => u \in DOMAIN c /\ r = c[u]
        PROVE  DoneOK(Q, c)
    <3>1. \A x \in errs : x.url = m => x.kind \in {"loop", "store"}
      BY <1>3, <1>4, <2>6 DEF errs, m
    <3>2. ToFiles => m \in DOMAIN c /\ r = c[m]
      BY ONLY <2>2, <2>6 DEF m
    <3> QED BY ONLY <2>4, <2>6, <3>1, <3>2 DEF DoneOK
  <2>7. FailedOK(Q) \/ DoneOK(Q, c)
    BY <2>5, <2>6, Zenon DEF Outcome, u
  <2>8. ToFiles => Q.cert = 0 /\ Q.date = 0
    BY <2>4 DEF Dated
  <2>9. CallOK(Q, c)
    BY ONLY <2>4, <2>7, <2>8 DEF CallOK
  <2> QED BY <2>9 DEF Q
<1>9. CASE Resumes(p, r, err)
  <2> DEFINE f == s[n - 1]
             g == Preloaded(f, u, r)
             t == Append(Front(Front(s)), g)
             m == R.main
  <2>1. n > 1 /\ Q = View(R, "running", errs, t, R.result)
    BY <1>2, <1>9, Zenon DEF Resumes
  <2>2. n - 1 \in 1 .. n - 1 /\ n - 1 \in 1..n /\ n # 1
    BY ONLY <1>1, <2>1
  <2>3. u # m
    <3>1. s[n].url # s[1].url
      BY <1>1, <1>6, <2>2, Zenon DEF StackInv
    <3> QED BY <1>1, <1>7, <3>1
  <2>4. TaskInv(f) /\ TaskOK(f, c)
    BY <1>1, <2>2 DEF StackInv
  <2>5. Linkable(u, r, c)
    BY FailedIs DEF Linkable, Outcome
  <2>6. TaskOK(g, c)
    <3> HIDE DEF f, u
    <3> QED BY ONLY <2>4, <2>5, PreloadedOK
  <2>7. Len(t) = n - 1 /\ t[n - 1] = g /\ \A i \in 1 .. n - 2 : t[i] = s[i]
    <3> DEFINE q == Front(s)
    <3>1. IsSeq(q) /\ Len(q) = n - 1 /\ \A i \in 1 .. n - 1 : q[i] = s[i]
      BY <1>1, FrontShape DEF StackShape
    <3> HIDE DEF q
    <3>2. q # <<>>
      BY <2>1, <1>1, <3>1, SeqShape
    <3> DEFINE z == Append(Front(q), g)
    <3> HIDE DEF g
    <3>3. Len(z) = Len(q) /\ z[Len(q)] = g /\ \A i \in 1 .. Len(q) - 1 : z[i] = q[i]
      BY ONLY <3>1, <3>2, ReplaceShape, ZenonT(60)
    <3> HIDE DEF z
    <3>4. Len(z) = n - 1 /\ z[n - 1] = g /\ \A i \in 1 .. n - 2 : z[i] = s[i]
      BY ONLY <1>1, <2>1, <3>1, <3>3
    <3> QED BY <3>4 DEF z, q
  <2>8. \A x \in errs : x.url = m => x.kind = "loop"
    <3> HIDE DEF u
    <3> QED BY ONLY <1>3, <1>4, <2>3
  <2>9. \A i \in 1..Len(t) : TaskOK(t[i], c)
    <3> HIDE DEF t, g
    <3>1. \A i \in 1..Len(t) : i = n - 1 \/ (i \in 1 .. n - 1 /\ i \in 1 .. n - 2)
      BY ONLY <1>1, <2>1, <2>7
    <3> QED BY ONLY <2>6, <2>7, <3>1, \A i \in 1 .. Len(runner[p].stack) - 1 : TaskOK(runner[p].stack[i], c)
  <2> HIDE DEF u, Q, errs, t, m
  <2>10. Q.state = "running" /\ Q.main = m /\ Q.cert = R.cert /\ Q.date = R.date /\ Q.stack = t
         /\ Q.errs = errs /\ Q.result = R.result
    BY ONLY <2>1, ViewFields, SMTT(60) DEF m
  <2>11. R.result = NewResource /\ (ToFiles => Q.cert = 0 /\ Q.date = 0)
    BY <2>10, Zenon DEF RunningOK, Dated
  <2>12. RunningOK(Q, c)
    BY ONLY <2>8, <2>9, <2>10, <2>11 DEF RunningOK
  <2>13. CallOK(Q, c)
    BY ONLY <2>10, <2>11, <2>12 DEF CallOK
  <2> QED BY <2>13 DEF Q
<1> QED BY <1>8, <1>9 DEF Returns

-----------------------------------------------------------------------------
(* The cache. *)

\* Store.
LEMMA StoreCases ==
  ASSUME setup \in Setups, NEW u, NEW r, NEW c, c \in StoreInMemory(u, r)
  PROVE  \/ c = cache /\ setup.cache = "nil"
         \/ /\ c = With(cache, u, r)
            /\ setup.cache = "bounded" => Cardinality(DOMAIN cache \cup {u}) <= CacheSize
         \/ setup.cache = "bounded" /\ \E v \in DOMAIN cache \ {u} : c = With(Without(cache, v), u, r)
<1>1. setup.cache \in {"nil", "memory", "bounded", "file"}
  BY SetupAssumption
<1>2. CASE setup.cache = "nil"
  BY <1>2 DEF StoreInMemory
<1>3. CASE setup.cache = "bounded"
  BY <1>3 DEF StoreInMemory
<1>4. CASE setup.cache \in {"memory", "file"}
  BY <1>4 DEF StoreInMemory
<1> QED BY <1>1, <1>2, <1>3, <1>4

\* The URLs of a cache with one more.
LEMMA WithDomain == ASSUME NEW c, NEW u, NEW r PROVE DOMAIN With(c, u, r) = DOMAIN c \cup {u}
BY DEF With

\* What Store leaves.
LEMMA StoreEntries ==
  ASSUME setup \in Setups, NEW u, NEW r, NEW c, c \in StoreInMemory(u, r)
  PROVE  \A v \in DOMAIN c : (v = u /\ c[v] = r) \/ (v \in DOMAIN cache /\ c[v] = cache[v])
<1>1. CASE c = cache
  BY <1>1
<1>2. CASE c = With(cache, u, r)
  <2>1. DOMAIN c = DOMAIN cache \cup {u} /\ c[u] = r /\ \A v \in DOMAIN cache : v # u => c[v] = cache[v]
    BY ONLY <1>2 DEF With
  <2> QED BY ONLY <2>1
<1>3. ASSUME NEW w \in DOMAIN cache \ {u}, c = With(Without(cache, w), u, r)
      PROVE  \A v \in DOMAIN c : (v = u /\ c[v] = r) \/ (v \in DOMAIN cache /\ c[v] = cache[v])
  <2> DEFINE d == Without(cache, w)
  <2>1. DOMAIN d = DOMAIN cache \ {w} /\ \A v \in DOMAIN d : d[v] = cache[v]
    BY DEF Without
  <2> HIDE DEF d
  <2>2. c = With(d, u, r)
    BY <1>3 DEF d
  <2>3. DOMAIN c = DOMAIN d \cup {u} /\ c[u] = r /\ \A v \in DOMAIN d : v # u => c[v] = d[v]
    BY ONLY <2>2 DEF With
  <2> QED BY ONLY <2>1, <2>3
<1> QED BY <1>1, <1>2, <1>3, StoreCases, Zenon

\* bounded.go keeps its bound.
LEMMA StoreBound ==
  ASSUME setup \in Setups, NEW u, NEW r, NEW c, c \in StoreInMemory(u, r), setup.cache = "bounded",
         IsFiniteSet(DOMAIN cache), Cardinality(DOMAIN cache) <= CacheSize
  PROVE  IsFiniteSet(DOMAIN c) /\ Cardinality(DOMAIN c) <= CacheSize
<1> DEFINE D == DOMAIN cache
<1>1. Cardinality(D) \in Nat /\ CacheSize \in Nat
  BY FS_CardinalityType, SetupAssumption
<1>2. CASE c = With(cache, u, r) /\ Cardinality(DOMAIN cache \cup {u}) <= CacheSize
  <2>1. DOMAIN c = D \cup {u}
    BY <1>2, WithDomain, Zenon
  <2>2. IsFiniteSet(D \cup {u})
    BY FS_AddElement, Zenon
  <2> QED BY <1>2, <2>1, <2>2
<1>3. ASSUME NEW v \in D \ {u}, c = With(Without(cache, v), u, r)
      PROVE  IsFiniteSet(DOMAIN c) /\ Cardinality(DOMAIN c) <= CacheSize
  <2> DEFINE E == D \ {v}
  <2>1. IsFiniteSet(E) /\ Cardinality(E) = Cardinality(D) - 1
    BY <1>3, FS_RemoveElement, Zenon
  <2>2. DOMAIN Without(cache, v) = E
    BY DEF Without
  <2>3. DOMAIN c = E \cup {u}
    BY <1>3, <2>2, WithDomain, ZenonT(30)
  <2> HIDE DEF E, D
  <2>4. IsFiniteSet(E \cup {u}) /\ (Cardinality(E \cup {u}) = Cardinality(E) \/ Cardinality(E \cup {u}) = Cardinality(E) + 1)
    BY <2>1, FS_AddElement, Zenon
  <2>5. Cardinality(D) <= CacheSize
    BY DEF D
  <2>6. Cardinality(E \cup {u}) <= CacheSize
    BY ONLY <1>1, <2>1, <2>4, <2>5
  <2> QED BY <2>3, <2>4, <2>6
<1> QED BY <1>2, <1>3, StoreCases

\* Links to what is cached stay when another URL is stored.
LEMMA AltGrows ==
  ASSUME NEW s, NEW c, AltOK(s, c), NEW u, u \notin DOMAIN c, NEW r
  PROVE  AltOK(s, With(c, u, r))
<1> DEFINE d == With(c, u, r)
<1>1. DOMAIN d = DOMAIN c \cup {u} /\ \A v \in DOMAIN c : v # u => d[v] = c[v]
  BY DEF With
<1> HIDE DEF d
<1>2. AltOK(s, d)
  BY <1>1 DEF AltOK
<1> QED BY <1>2 DEF d

-----------------------------------------------------------------------------
(* Every step keeps the invariant. *)

Kept == CacheInv' /\ CallInv' /\ FileInv'

\* The configuration stays, so what depends on it does.
LEMMA PrimeCall ==
  ASSUME setup' = setup, NEW q, CallOK(runner'[q], cache')
  PROVE  CallOK(runner[q], cache)'
BY Zenon DEF CallOK, RunningOK, FailedOK, DoneOK, TaskOK, LinksOK, AltOK, ToFiles, HasExchange

\* The same for an entry of the cache.
LEMMA PrimeEntry ==
  ASSUME setup' = setup, NEW u, EntryOK(cache'[u], cache')
  PROVE  EntryOK(cache[u], cache)'
BY Zenon DEF EntryOK, LinksOK, AltOK, ToFiles, HasExchange

\* A step of one call that stores nothing.
LEMMA KeptUnstored ==
  ASSUME CacheInv, CallInv, FileInv, Still, NotStored, NEW p \in DOMAIN runner, Others(p),
         runner'[p] = Idle \/ CallOK(runner'[p], cache)
  PROVE  Kept
<1>1. setup' = setup /\ cache' = cache /\ files' = files /\ reported' = reported /\ cert' = cert /\ now' = now
  BY DEF Still, NotStored
<1>2. CacheInv'
  <2>1. \A u \in DOMAIN cache : u \in URLs /\ EntryOK(cache[u], cache)'
    <3> TAKE u \in DOMAIN cache
    <3>1. u \in URLs /\ EntryOK(cache[u], cache)
      BY DEF CacheInv
    <3> QED BY <1>1, <3>1, PrimeEntry
  <2>2. setup.cache = "bounded" => IsFiniteSet(DOMAIN cache) /\ Cardinality(DOMAIN cache) <= CacheSize
    BY DEF CacheInv
  <2> QED BY <1>1, <2>1, <2>2 DEF CacheInv
<1>3. CallInv'
  <2> SUFFICES ASSUME NEW q \in DOMAIN runner, runner'[q] # Idle
               PROVE  CallOK(runner[q], cache)'
    BY DEF CallInv, Others, Idle
  <2>1. CallOK(runner'[q], cache')
    BY <1>1 DEF CallInv, Others
  <2> QED BY <1>1, <2>1, PrimeCall
<1>4. FileInv'
  BY <1>1 DEF FileInv, ToFiles, Others
<1> QED BY <1>2, <1>3, <1>4 DEF Kept

\* What the invariant says of a call that runs.
LEMMA RunningInv ==
  ASSUME Calls, CallInv, NEW p \in DOMAIN runner, Running(p)
  PROVE  LET s == runner[p].stack IN
         /\ CallOK(runner[p], cache) /\ RunningOK(runner[p], cache) /\ Dated(runner[p])
         /\ \A i \in 1..Len(s) : TaskOK(s[i], cache)
         /\ \A i \in 1 .. Len(s) - 1 : TaskOK(s[i], cache)
         /\ TaskOK(Top(p), cache)
<1> DEFINE s == runner[p].stack
<1>1. runner[p] # Idle
  BY DEF Running, Idle
<1>2. CallOK(runner[p], cache) /\ RunningOK(runner[p], cache) /\ Dated(runner[p])
  BY <1>1 DEF CallInv, CallOK, Running, Dated
<1>3. \A i \in 1..Len(s) : TaskOK(s[i], cache)
  BY <1>2 DEF RunningOK
<1>4. Len(s) \in Nat \ {0} /\ Top(p) = s[Len(s)]
  BY RunningCall
<1>5. Len(s) \in 1..Len(s) /\ \A i \in 1 .. Len(s) - 1 : i \in 1..Len(s)
  BY ONLY <1>4
<1> QED BY <1>2, <1>3, <1>4, <1>5

\* A task that returns without a store.
LEMMA UnstoredOutcome ==
  ASSUME Calls, CacheInv, NEW p \in DOMAIN runner, Running(p)
  PROVE  /\ Hits(p) => Outcome(p, cache[Top(p).url], {}, cache)
         /\ \A k \in Failures, r \in FailedResources : Outcome(p, r, {k}, cache)
<1>1. ASSUME Hits(p) PROVE Outcome(p, cache[Top(p).url], {}, cache)
  <2> DEFINE u == Top(p).url
  <2>1. u \in DOMAIN cache /\ Verify(cache[u].exchange, runner[p].cert, runner[p].date)
    BY <1>1 DEF Hits, Usable, Cached
  <2>2. HasExchange(cache[u])
    BY <2>1 DEF CacheInv, EntryOK
  <2> QED BY <2>1, <2>2 DEF Outcome
<1> QED BY <1>1, Zenon DEF Outcome

\* A task that goes on.
LEMMA GoesOnOK ==
  ASSUME Calls, CacheInv, CallInv, NEW p \in DOMAIN runner, Running(p),
         NEW g, g.url = Top(p).url, g.links = Top(p).links, Top(p).pc = "lookup" => ~Usable(p)
  PROVE  TaskOK(g, cache)
<1> DEFINE f == Top(p)
<1>1. TaskOK(f, cache) /\ Dated(runner[p])
  BY RunningInv
<1>2. LinksOK(g.links) /\ (ToFiles => AltOK(g.links, cache))
  BY <1>1 DEF TaskOK
<1>3. ASSUME ToFiles, g.url \in DOMAIN cache PROVE FALSE
  <2>1. f.pc = "lookup"
    BY <1>1, <1>3 DEF TaskOK
  <2>2. Verify(cache[f.url].exchange, 0, 0)
    BY <1>3 DEF CacheInv, EntryOK
  <2>3. runner[p].cert = 0 /\ runner[p].date = 0
    BY <1>1, <1>3 DEF Dated
  <2> QED BY <1>3, <2>1, <2>2, <2>3 DEF Usable, Cached
<1> QED BY <1>2, <1>3 DEF TaskOK

\* The exchange that is signed.
LEMMA NewExchangeIs ==
  ASSUME NEW f, NEW k, NEW d
  PROVE  LET e == NewExchange(f, k, d) IN e # NoExchange /\ e.links = f.links
<1> DEFINE e == NewExchange(f, k, d)
<1>1. e.kind = "sxg" /\ e.links = f.links
  BY DEF NewExchange
<1>2. NoExchange.kind = "none"
  BY DEF NoExchange
<1> HIDE DEF e
<1>3. e # NoExchange
  BY ONLY <1>1, <1>2
<1> QED BY <1>1, <1>3 DEF e

\* What is stored.
LEMMA StoresCache ==
  ASSUME Calls, setup \in Setups, SiteInv, CacheInv, CallInv, NEW p \in DOMAIN runner, Running(p), Stores(p), Still
  PROVE  LET u == Top(p).url
             e == NewExchange(Top(p), runner[p].cert, runner[p].date)
         IN  /\ CacheInv' /\ HasExchange(Signed(e)) /\ u \in URLs
             /\ ToFiles => u \notin DOMAIN cache /\ cache' = With(cache, u, Signed(e))
<1> DEFINE f == Top(p)
           u == f.url
           k == runner[p].cert
           d == runner[p].date
           e == NewExchange(f, k, d)
           r == Signed(e)
<1>1. f.pc = "preload" /\ Verify(e, k, d) /\ cache' \in StoreInMemory(u, r)
  BY DEF Stores
<1>2. TaskOK(f, cache) /\ Dated(runner[p])
  BY RunningInv
<1>3. u \in URLs
  <2>1. TaskInv(f)
    BY RunningCall
  <2> QED BY <2>1 DEF TaskInv, SiteInv
<1>4. e # NoExchange /\ e.links = f.links
  BY NewExchangeIs
<1> HIDE DEF e, r
<1>5. r.exchange = e /\ r = Signed(e)
  BY SignedIs DEF r
<1>6. HasExchange(r)
  BY <1>4, <1>5 DEF HasExchange
<1>7. setup' = setup
  BY DEF Still
<1>8. \A v \in DOMAIN cache' : (v = u /\ cache'[v] = r) \/ (v \in DOMAIN cache /\ cache'[v] = cache[v])
  BY <1>1, StoreEntries
<1>9. ToFiles => u \notin DOMAIN cache /\ cache' = With(cache, u, r)
  <2>1. ToFiles => u \notin DOMAIN cache
    BY <1>1, <1>2 DEF TaskOK
  <2>2. ToFiles => cache' = With(cache, u, r)
    BY <1>1, StoreCases DEF ToFiles
  <2> QED BY <2>1, <2>2
<1>10. \A s : ToFiles /\ AltOK(s, cache) => AltOK(s, cache')
  BY <1>9, AltGrows
<1>11. ASSUME NEW v \in DOMAIN cache' PROVE v \in URLs /\ EntryOK(cache'[v], cache')
  <2>1. CASE v = u /\ cache'[v] = r
    <3>1. LinksOK(e.links) /\ (ToFiles => AltOK(e.links, cache'))
      BY <1>2, <1>4, <1>10 DEF TaskOK
    <3>2. ToFiles => Verify(e, 0, 0)
      BY <1>1, <1>2 DEF Dated
    <3>3. EntryOK(r, cache')
      BY ONLY <1>5, <1>6, <3>1, <3>2 DEF EntryOK
    <3> QED BY <1>3, <2>1, <3>3
  <2>2. CASE v \in DOMAIN cache /\ cache'[v] = cache[v]
    <3>1. v \in URLs /\ EntryOK(cache[v], cache)
      BY <2>2 DEF CacheInv
    <3>2. EntryOK(cache[v], cache')
      BY <3>1, <1>10 DEF EntryOK
    <3> QED BY <2>2, <3>1, <3>2
  <2> QED BY <1>8, <2>1, <2>2
<1>12. setup.cache = "bounded" => IsFiniteSet(DOMAIN cache') /\ Cardinality(DOMAIN cache') <= CacheSize
  BY <1>1, StoreBound DEF CacheInv
<1>13. CacheInv'
  <2>1. \A v \in DOMAIN cache' : v \in URLs /\ EntryOK(cache[v], cache)'
    BY <1>7, <1>11, PrimeEntry
  <2> QED BY <1>7, <1>12, <2>1, Zenon DEF CacheInv
<1> QED BY <1>3, <1>6, <1>9, <1>13 DEF e, r

\* Sign and Store.
LEMMA StoresKept ==
  ASSUME PackagerInv, NEW p \in DOMAIN runner, Running(p), Stores(p), Still
  PROVE  Kept
<1> DEFINE f == Top(p)
           u == f.url
           s == runner[p].stack
           e == NewExchange(f, runner[p].cert, runner[p].date)
           r == Signed(e)
<1>0. Calls /\ setup \in Setups /\ SiteInv /\ CacheInv /\ CallInv /\ FileInv
  BY DEF PackagerInv
<1>1. CacheInv' /\ HasExchange(r) /\ (ToFiles => u \notin DOMAIN cache /\ cache' = With(cache, u, r))
  BY <1>0, StoresCache, Zenon
<1>2. /\ Verify(e, runner[p].cert, runner[p].date)
      /\ \/ /\ files' = IF setup.cache = "file" THEN With(files, u, e) ELSE files
            /\ Returns(p, r, {}) /\ reported' = reported
         \/ /\ setup.cache = "file" /\ files' \in {files, With(files, u, TornFile)}
            /\ Returns(p, r, {"store"}) /\ reported' = reported \cup {u}
  BY DEF Stores
<1>3. r.exchange = e
  BY SignedIs
<1> HIDE DEF e, r
<1>4. RunningOK(runner[p], cache) /\ Dated(runner[p]) /\ \A i \in 1 .. Len(s) - 1 : TaskOK(s[i], cache)
  BY <1>0, RunningInv, Zenon
<1>5. setup' = setup /\ cert' = cert /\ now' = now
  BY DEF Still
<1>6. ToFiles => DOMAIN cache' = DOMAIN cache \cup {u} /\ cache'[u] = r
                 /\ \A v \in DOMAIN cache : v # u => cache'[v] = cache[v]
  <2>1. ToFiles => cache' = With(cache, u, r)
    BY <1>1
  <2> HIDE DEF u
  <2> QED BY ONLY <2>1 DEF With
<1>7. \A i \in 1 .. Len(s) - 1 : TaskOK(s[i], cache')
  <2> TAKE i \in 1 .. Len(s) - 1
  <2>1. TaskOK(s[i], cache)
    BY <1>4
  <2>2. s[i].url # u
    <3>1. StackInv(s, runner[p].main) /\ f = s[Len(s)] /\ Len(s) \in Nat \ {0}
      BY <1>0, RunningCall
    <3>2. i \in 1..Len(s) /\ Len(s) \in 1..Len(s) /\ i # Len(s)
      BY ONLY <3>1, i \in 1 .. Len(s) - 1
    <3> QED BY <3>1, <3>2 DEF StackInv
  <2>3. ToFiles => AltOK(s[i].links, cache')
    BY <1>1, <2>1, AltGrows DEF TaskOK
  <2>4. ToFiles => (s[i].pc # "lookup" => s[i].url \notin DOMAIN cache')
    <3>1. ToFiles => DOMAIN cache' = DOMAIN cache \cup {u}
      BY <1>6
    <3> QED BY <2>1, <2>2, <3>1 DEF TaskOK
  <2> QED BY <2>1, <2>3, <2>4 DEF TaskOK
<1>8. \A err : err \subseteq {"store"} => Outcome(p, r, err, cache')
  BY <1>1, <1>2, <1>3, <1>6, Zenon DEF Outcome
<1>9. Others(p) /\ CallOK(runner'[p], cache')
  <2>1. PICK err : err \subseteq {"store"} /\ Returns(p, r, err)
    BY <1>2
  <2>2. CallOK(runner'[p], cache')
    BY <1>0, <1>4, <1>7, <1>8, <2>1, ReturnsOK, Zenon
  <2> QED BY <2>1, <2>2 DEF Returns, Ends, Resumes
<1>10. CallInv'
  <2> SUFFICES ASSUME NEW q \in DOMAIN runner, runner'[q] # Idle
               PROVE  CallOK(runner[q], cache)'
    BY <1>9 DEF CallInv, Others, Idle
  <2>1. CASE q = p
    BY <1>5, <1>9, <2>1, PrimeCall
  <2>2. CASE q # p
    <3>1. ~ToFiles
      <4> SUFFICES ASSUME ToFiles PROVE FALSE
        OBVIOUS
      <4>1. PICK z : DOMAIN runner = {z}
        BY <1>0 DEF FileInv
      <4> QED BY <2>2, <4>1
    <3>2. runner'[q] = runner[q] /\ CallOK(runner[q], cache)
      BY <1>0, <1>9, <2>2 DEF CallInv, Others
    <3>3. CallOK(runner[q], cache')
      BY ONLY <3>1, <3>2, Zenon DEF CallOK, RunningOK, DoneOK, TaskOK
    <3> QED BY <1>5, <3>2, <3>3, PrimeCall
  <2> QED BY <2>1, <2>2
<1>11. FileInv'
  <2> SUFFICES ASSUME ToFiles
               PROVE  /\ cert' = 0 /\ now' = 0 /\ \E q \in DOMAIN runner' : DOMAIN runner' = {q}
                      /\ \A v \in DOMAIN cache' :
                           v \in reported' \/ (v \in DOMAIN files' /\ files'[v] = cache'[v].exchange)
    BY <1>5 DEF FileInv, ToFiles
  <2>1. cert = 0 /\ now = 0 /\ \E q \in DOMAIN runner : DOMAIN runner = {q}
    BY <1>0 DEF FileInv
  <2>2. \A v \in DOMAIN cache : v \in reported \/ (v \in DOMAIN files /\ files[v] = cache[v].exchange)
    BY <1>0 DEF FileInv
  <2>3. DOMAIN cache' = DOMAIN cache \cup {u} /\ cache'[u].exchange = e
        /\ \A v \in DOMAIN cache : v # u => cache'[v] = cache[v]
    BY <1>3, <1>6
  <2>4. /\ u \in reported' \/ (u \in DOMAIN files' /\ files'[u] = e)
        /\ reported \subseteq reported'
        /\ \A v \in DOMAIN files : v # u => v \in DOMAIN files' /\ files'[v] = files[v]
    <3>1. \/ files' = With(files, u, e) /\ reported' = reported
          \/ files' = files /\ reported' = reported \cup {u}
          \/ files' = With(files, u, TornFile) /\ reported' = reported \cup {u}
      BY <1>2 DEF ToFiles
    <3> HIDE DEF u
    <3>2. CASE files' = With(files, u, e) /\ reported' = reported
      BY ONLY <3>2 DEF With
    <3>3. CASE files' = files /\ reported' = reported \cup {u}
      BY ONLY <3>3
    <3>4. CASE files' = With(files, u, TornFile) /\ reported' = reported \cup {u}
      BY ONLY <3>4 DEF With
    <3> QED BY <3>1, <3>2, <3>3, <3>4
  <2>5. \A v \in DOMAIN cache' : v \in reported' \/ (v \in DOMAIN files' /\ files'[v] = cache'[v].exchange)
    <3> HIDE DEF u
    <3> QED BY ONLY <2>2, <2>3, <2>4
  <2>6. \E q \in DOMAIN runner' : DOMAIN runner' = {q}
    BY <1>9, <2>1 DEF Others
  <2> QED BY <1>5, <2>1, <2>5, <2>6, Zenon
<1> QED BY <1>1, <1>10, <1>11 DEF Kept

\* A step of a call.
LEMMA StepKept ==
  ASSUME PackagerInv, NEW p \in DOMAIN runner, Step(p)
  PROVE  Kept
<1>0. Calls /\ setup \in Setups /\ SiteInv /\ CacheInv /\ CallInv /\ FileInv
  BY DEF PackagerInv
<1>1. /\ Running(p) /\ Still
      /\ Fails(p) \/ Hits(p) \/ GoesOn(p) \/ Cuts(p) \/ Starts(p) \/ Stores(p)
  BY <1>0, StepCases
<1>2. /\ CallOK(runner[p], cache) /\ RunningOK(runner[p], cache) /\ Dated(runner[p])
      /\ \A i \in 1 .. Len(runner[p].stack) - 1 : TaskOK(runner[p].stack[i], cache)
  BY <1>0, <1>1, RunningInv
<1>3. ASSUME NEW r, NEW err, Returns(p, r, err), Outcome(p, r, err, cache), NotStored
      PROVE  Kept
  <2>1. CallOK(runner'[p], cache)
    BY <1>0, <1>1, <1>2, <1>3, ReturnsOK, Zenon
  <2>2. Others(p)
    BY <1>3 DEF Returns, Ends, Resumes
  <2> QED BY <1>0, <1>1, <1>3, <2>1, <2>2, KeptUnstored
<1>4. CASE Fails(p)
  BY <1>0, <1>1, <1>3, <1>4, UnstoredOutcome, Zenon DEF Fails
<1>5. CASE Hits(p)
  BY <1>0, <1>1, <1>3, <1>5, UnstoredOutcome, Zenon DEF Hits
<1>6. CASE GoesOn(p)
  <2>1. PICK g : /\ g.url = Top(p).url /\ g.links = Top(p).links /\ (Top(p).pc = "lookup" => ~Usable(p))
                 /\ Moves(p, g) /\ NotStored
    BY <1>6 DEF GoesOn, Follows
  <2>2. TaskOK(g, cache)
    BY <1>0, <1>1, <2>1, GoesOnOK, Zenon
  <2>3. CallOK(runner'[p], cache)
    BY <1>0, <1>1, <1>2, <2>1, <2>2, MovesOK, Zenon
  <2>4. Others(p)
    BY <2>1 DEF Moves
  <2> QED BY <1>0, <1>1, <2>1, <2>3, <2>4, KeptUnstored
<1>7. CASE Cuts(p)
  <2>1. PICK u : Skips(p, u) /\ NotStored
    BY <1>7 DEF Cuts
  <2>2. CallOK(runner'[p], cache)
    BY <1>0, <1>1, <1>2, <2>1, SkipsOK, Zenon
  <2>3. Others(p)
    BY <2>1 DEF Skips
  <2> QED BY <1>0, <1>1, <2>1, <2>2, <2>3, KeptUnstored
<1>8. CASE Starts(p)
  <2>1. PICK u : Pushes(p, u) /\ NotStored
    BY <1>8 DEF Starts
  <2>2. CallOK(runner'[p], cache)
    BY <1>0, <1>1, <1>2, <2>1, PushesOK, Zenon
  <2>3. Others(p)
    BY <2>1 DEF Pushes
  <2> QED BY <1>0, <1>1, <2>1, <2>2, <2>3, KeptUnstored
<1>9. CASE Stores(p)
  BY <1>1, <1>9, StoresKept
<1> QED BY <1>1, <1>4, <1>5, <1>6, <1>7, <1>8, <1>9

\* Every step.
LEMMA NextKept ==
  ASSUME PackagerInv, [Next]_vars
  PROVE  PackagerInv'
<1>0. Calls /\ setup \in Setups /\ SiteInv /\ CacheInv /\ CallInv /\ FileInv
  BY DEF PackagerInv
<1>1. SiteInv' /\ Calls' /\ setup' \in Setups
  BY <1>0, NextDescends, SiteStays DEF Descends
<1>2. ASSUME NEW p \in DOMAIN runner, NEW u \in DOMAIN site, Run(p, u)
      PROVE  Kept
  <2> DEFINE Q == NewTaskRunner(u)
             f == NewTask(u)
             s == <<f>>
  <2>1. Still /\ NotStored
    BY <1>2 DEF Run, world, Still, NotStored
  <2>2. runner' = [runner EXCEPT ![p] = Q]
    BY <1>2 DEF Run
  <2>3. Q.state = "running" /\ Q.stack = s /\ Q.errs = {} /\ Q.result = NewResource /\ Q.cert = cert /\ Q.date = now
    BY DEF NewTaskRunner
  <2>4. f.links = <<>> /\ f.pc = "lookup"
    BY DEF NewTask
  <2> HIDE DEF Q, f
  <2>5. Others(p) /\ runner'[p] = Q
    BY ONLY <2>2, p \in DOMAIN runner DEF Others
  <2>6. TaskOK(f, cache)
    BY <2>4, NoLinks DEF TaskOK
  <2>7. \A i \in 1..Len(s) : s[i] = f
    OBVIOUS
  <2> HIDE DEF s
  <2>8. RunningOK(Q, cache)
    BY <2>3, <2>6, <2>7 DEF RunningOK
  <2>9. ToFiles => Q.cert = 0 /\ Q.date = 0
    BY <1>0, <2>3 DEF FileInv
  <2>10. CallOK(Q, cache)
    BY ONLY <2>3, <2>8, <2>9 DEF CallOK
  <2> QED BY <1>0, <2>1, <2>5, <2>10, KeptUnstored
<1>3. ASSUME NEW p \in DOMAIN runner, Finish(p)
      PROVE  Kept
  <2>1. Still /\ NotStored /\ runner' = [runner EXCEPT ![p] = Idle]
    BY <1>3 DEF Finish, world, Still, NotStored
  <2>2. Others(p) /\ runner'[p] = Idle
    BY ONLY <2>1, p \in DOMAIN runner DEF Others
  <2> QED BY <1>0, <2>1, <2>2, KeptUnstored
<1>4. ASSUME Environment \/ UNCHANGED vars
      PROVE  Kept
  <2>1. runner' = runner /\ setup' = setup /\ cache' = cache /\ files' = files /\ reported' = reported
    BY <1>4 DEF Environment, ContentChanges, CertRotates, Tick, vars
  <2>2. CacheInv'
    <3>1. \A v \in DOMAIN cache' : v \in URLs /\ EntryOK(cache'[v], cache')
      BY <1>0, <2>1 DEF CacheInv
    <3>2. \A v \in DOMAIN cache' : v \in URLs /\ EntryOK(cache[v], cache)'
      BY <2>1, <3>1, PrimeEntry
    <3> QED BY <1>0, <2>1, <3>2 DEF CacheInv
  <2>3. CallInv'
    <3> SUFFICES ASSUME NEW q \in DOMAIN runner, runner'[q] # Idle
                 PROVE  CallOK(runner[q], cache)'
      BY <2>1 DEF CallInv, Idle
    <3>1. CallOK(runner'[q], cache')
      BY <1>0, <2>1 DEF CallInv
    <3> QED BY <2>1, <3>1, PrimeCall
  <2>4. ToFiles => cert' = cert /\ now' = now
    <3> SUFFICES ASSUME ToFiles PROVE cert' = cert /\ now' = now
      OBVIOUS
    <3>1. setup.certs = 0 /\ setup.time = 0
      BY <1>0, SetupAssumption DEF ToFiles
    <3>2. cert = 0 /\ now = 0
      BY <1>0 DEF FileInv
    <3>3. ~CertRotates /\ ~Tick
      BY <3>1, <3>2 DEF CertRotates, Tick
    <3> QED BY <1>4, <3>3 DEF Environment, ContentChanges, vars
  <2>5. FileInv'
    BY <1>0, <2>1, <2>4 DEF FileInv, ToFiles
  <2> QED BY <2>2, <2>3, <2>5 DEF Kept
<1>5. Kept
  BY <1>2, <1>3, <1>4, StepKept DEF Next
<1> QED BY <1>1, <1>5 DEF Kept, PackagerInv

\* Initially.
LEMMA InitKept == ASSUME Init PROVE PackagerInv
<1>1. SiteInv
  BY InitSite
<1>2. PICK ps \in kSubset(setup.runners, Runners) : runner = [p \in ps |-> Idle]
  BY DEF Init
<1>3. setup \in Setups /\ cache = <<>> /\ cert = 0 /\ now = 0
  BY DEF Init
<1>4. Calls /\ CallInv
  BY <1>2 DEF Calls, CallInv
<1>5. DOMAIN cache = {}
  BY <1>3
<1>6. CacheInv
  BY <1>5, FS_EmptySet, SetupAssumption DEF CacheInv
<1>7. ToFiles => \E q \in DOMAIN runner : DOMAIN runner = {q}
  <2> SUFFICES ASSUME ToFiles PROVE \E q \in DOMAIN runner : DOMAIN runner = {q}
    BY Zenon
  <2>1. setup.runners = 1
    BY <1>3, SetupAssumption DEF ToFiles
  <2>2. ps \in SUBSET Runners /\ Cardinality(ps) = 1
    BY <1>2, <2>1 DEF kSubset
  <2>3. IsFiniteSet(ps)
    BY <2>2, FS_Subset, SetupAssumption
  <2>4. \E q : ps = {q}
    BY <2>2, <2>3, FS_Singleton, Zenon
  <2>5. DOMAIN runner = ps
    BY <1>2
  <2> QED BY <2>4, <2>5
<1>8. FileInv
  BY <1>3, <1>5, <1>7, Zenon DEF FileInv
<1> QED BY <1>1, <1>3, <1>4, <1>6, <1>8 DEF PackagerInv

-----------------------------------------------------------------------------
(* What callers of Run rely on. *)

\* The inductive invariant.
LEMMA Invariant == Spec => []PackagerInv
<1>1. Init => PackagerInv
  BY InitKept
<1>2. PackagerInv /\ [Next]_vars => PackagerInv'
  BY NextKept
<1> QED BY <1>1, <1>2, PTL DEF Spec

\* The bounded cache keeps its bound, only resources with an exchange are cached, and
\* no URL is in progress twice in a call: reference loops are cut.
THEOREM Typed == Spec => []TypeOK
<1>1. ASSUME PackagerInv PROVE TypeOK
  <2>0. Calls /\ SiteInv /\ CacheInv /\ CallInv
    BY <1>1 DEF PackagerInv
  <2>1. \A u \in DOMAIN cache : u \in URLs /\ cache[u].exchange # NoExchange
    BY <2>0 DEF CacheInv, EntryOK, HasExchange
  <2>2. setup.cache = "bounded" => Cardinality(DOMAIN cache) <= CacheSize
    BY <2>0 DEF CacheInv
  <2>3. ASSUME NEW p \in DOMAIN runner, runner[p] # Idle
        PROVE  /\ runner[p].state \in {"running", "done"}
               /\ Running(p) <=> runner[p].stack # <<>>
               /\ Cardinality(Active(p)) = Len(runner[p].stack)
               /\ LET r == runner[p].result IN
                  r.redirectURL => ~r.physicalURL /\ ~r.validityURL /\ r.exchange = NoExchange
    <3> DEFINE r == runner[p].result
    <3>1. CallShape(runner[p]) /\ StackInv(runner[p].stack, runner[p].main) /\ CallOK(runner[p], cache)
      BY <2>0, <2>3 DEF Calls, CallInv
    <3>2. runner[p].state \in {"running", "done"} /\ (Running(p) <=> runner[p].stack # <<>>) /\ IsSeq(runner[p].stack)
      BY <3>1 DEF CallShape, Running
    <3>3. Cardinality(Active(p)) = Len(runner[p].stack)
      BY <2>0, <3>1, <3>2, Depth DEF Active
    <3>4. r \in FailedResources \/ HasExchange(r)
      BY <3>1, <3>2, Zenon DEF CallOK, RunningOK, FailedOK, DoneOK, FailedResources
    <3>5. HasExchange(r) => ~r.redirectURL
      <4> HIDE DEF r
      <4>1. ~Signed(r.exchange).redirectURL
        BY SignedIs
      <4> QED BY <4>1 DEF HasExchange
    <3>6. r.redirectURL => ~r.physicalURL /\ ~r.validityURL /\ r.exchange = NoExchange
      <4> HIDE DEF r
      <4> QED BY <3>4, <3>5, FailedIs, Zenon
    <3> QED BY <3>2, <3>3, <3>6
  <2> QED BY <2>1, <2>2, <2>3, Zenon DEF TypeOK
<1> QED BY <1>1, Invariant, PTL

\* What the invariant says of a call that is done.
LEMMA DoneIs ==
  ASSUME PackagerInv, NEW p \in DOMAIN runner, Done(p)
  PROVE  FailedOK(runner[p]) \/ DoneOK(runner[p], cache)
<1>1. runner[p] # Idle
  BY DEF Done, Idle
<1> QED BY <1>1 DEF PackagerInv, CallInv, CallOK, Done

\* Run produces the signed exchange of the main resource whatever fails with its
\* subresources, and reports an error for it otherwise.
THEOREM SubresourceFailures == Spec => []SubresourcesMayFail
<1>1. ASSUME PackagerInv PROVE SubresourcesMayFail
  <2> SUFFICES ASSUME NEW p \in DOMAIN runner, Done(p)
               PROVE  runner[p].result.exchange = NoExchange
                        <=> ErrsOf(p, runner[p].main) \cap {"fetch", "redirect", "process", "sign"} # {}
    BY DEF SubresourcesMayFail
  <2> DEFINE R == runner[p]
             K == ErrsOf(p, R.main)
  <2>1. K = {x.kind : x \in {y \in R.errs : y.url = R.main}}
    BY DEF ErrsOf
  <2> HIDE DEF K
  <2>2. CASE FailedOK(R)
    <3>1. R.result.exchange = NoExchange
      BY <2>2, FailedIs DEF FailedOK
    <3>2. \E x \in R.errs : x.url = R.main /\ x.kind \in {"fetch", "redirect", "process", "sign"}
      BY <2>2 DEF FailedOK, Failures
    <3>3. K \cap {"fetch", "redirect", "process", "sign"} # {}
      BY ONLY <2>1, <3>2
    <3> QED BY <3>1, <3>3 DEF K
  <2>3. CASE DoneOK(R, cache)
    <3>1. R.result.exchange # NoExchange
      BY <2>3 DEF DoneOK, HasExchange
    <3>2. \A x \in R.errs : x.url = R.main => x.kind \in {"loop", "store"}
      BY <2>3 DEF DoneOK
    <3>3. K \subseteq {"loop", "store"}
      BY ONLY <2>1, <3>2
    <3>4. K \cap {"fetch", "redirect", "process", "sign"} = {}
      BY ONLY <3>3
    <3> QED BY <3>1, <3>4 DEF K
  <2> QED BY <1>1, <2>2, <2>3, DoneIs
<1> QED BY <1>1, Invariant, PTL

\* A cached exchange preloads nothing that it does not allow as a signed exchange,
\* and on the command line those it allows are the cached ones.
THEOREM SignedPreloads == Spec => []PreloadsAreSigned
<1>1. ASSUME PackagerInv PROVE PreloadsAreSigned
  <2> SUFFICES ASSUME NEW u \in DOMAIN cache
               PROVE  LET e == cache[u].exchange IN
                      /\ setup.keep \/ {l.url : l \in Range(e.links)} \subseteq {l.url : l \in AltSXGs(e)}
                      /\ setup.cache = "file" =>
                           \A l \in AltSXGs(e) :
                             l.url \in DOMAIN cache /\ l.integrity = Integrity(cache[l.url].exchange)
    BY DEF PreloadsAreSigned
  <2> DEFINE e == cache[u].exchange
  <2>1. LinksOK(e.links) /\ (ToFiles => AltOK(e.links, cache))
    BY <1>1 DEF PackagerInv, CacheInv, EntryOK
  <2> HIDE DEF e
  <2>2. setup.keep \/ {l.url : l \in Range(e.links)} \subseteq {l.url : l \in AltSXGs(e)}
    BY ONLY <2>1 DEF LinksOK, AltSXGs
  <2>3. setup.cache = "file" =>
          \A l \in AltSXGs(e) : l.url \in DOMAIN cache /\ l.integrity = Integrity(cache[l.url].exchange)
    BY ONLY <2>1 DEF AltOK, AltSXGs, ToFiles
  <2> QED BY <2>2, <2>3 DEF e
<1> QED BY <1>1, Invariant, PTL

\* The exchange that Run returns is valid at the requested date and signed with the
\* certificate of the factory that the call got.
THEOREM CurrentResult == Spec => []ResultIsCurrent
<1>1. ASSUME PackagerInv PROVE ResultIsCurrent
  <2> SUFFICES ASSUME NEW p \in DOMAIN runner, Done(p), runner[p].result.exchange # NoExchange
               PROVE  Verify(runner[p].result.exchange, runner[p].cert, runner[p].date)
    BY DEF ResultIsCurrent, Verify
  <2>1. FailedOK(runner[p]) \/ DoneOK(runner[p], cache)
    BY <1>1, DoneIs
  <2>2. ~FailedOK(runner[p])
    BY FailedIs DEF FailedOK
  <2> QED BY <2>1, <2>2 DEF DoneOK
<1> QED BY <1>1, Invariant, PTL

\* A call of Run without an error for its URL leaves the exchange that it returns in
\* the URL's file, or an earlier call has reported that it could not be written.
THEOREM Saved == Spec => []SavedOrReported
<1>1. ASSUME PackagerInv PROVE SavedOrReported
  <2> SUFFICES ASSUME ToFiles, NEW p \in DOMAIN runner, Done(p), ErrsOf(p, runner[p].main) = {}
               PROVE  LET u == runner[p].main IN
                      u \in reported \/ (u \in DOMAIN files /\ files[u] = runner[p].result.exchange)
    BY DEF SavedOrReported, ToFiles
  <2>1. FailedOK(runner[p]) \/ DoneOK(runner[p], cache)
    BY <1>1, DoneIs
  <2>2. ~FailedOK(runner[p])
    BY DEF FailedOK, ErrsOf
  <2> DEFINE u == runner[p].main
  <2>3. u \in DOMAIN cache /\ runner[p].result = cache[u]
    BY <2>1, <2>2 DEF DoneOK
  <2>4. u \in reported \/ (u \in DOMAIN files /\ files[u] = cache[u].exchange)
    BY <1>1, <2>3 DEF PackagerInv, FileInv
  <2> QED BY <2>3, <2>4
<1> QED BY <1>1, Invariant, PTL

=============================================================================
