--------------------------- MODULE Sources_proofs ---------------------------
(***************************************************************************)
(* Proofs about the events of futureevent and about the ACME client: a     *)
(* Cancel in time is final, and a client acts for the account of its key.  *)
(***************************************************************************)
EXTENDS MCSources, TLAPS

allVars == <<part, vars, eventVars, clientVars>>

-----------------------------------------------------------------------------
(* Cancel.                                                                   *)
(*                                                                           *)
(* A channel is closed only at the end of Cancel, and the only sender left   *)
(* then is the one of the current event. When Cancel has come in time, that  *)
(* sender has nothing to send: it has not fired, and what could make it fire *)
(* (the timer, a signal in relay or one still to come) is gone.              *)

Canceling == {"drainRelay", "closeRelay", "drain", "close", "canceled"}

EventTypes ==
  /\ kind \in {"atIntervals", "onSignal", "onlyOnce", "triggerable"}
  /\ cur \in Event!Events /\ (pc \in {"read", "next"} => cur < MaxEvents)
  /\ c \in [Event!Events -> Event!Channel] /\ relay \in [Event!Events -> Event!Channel]
  /\ src \in [Event!Events -> {"none", "armed", "firing", "done"}]
  /\ panicked \in BOOLEAN

ClosedLast == \A e \in Event!Events : c[e].closed => e = cur /\ pc = "canceled"

NoSource ==
  /\ kind \in {"onlyOnce", "triggerable"} => \A e \in Event!Events : src[e] = "none"
  /\ kind = "onlyOnce" => \A e \in Event!Events : c[e].buf = 0

Stopped ==
  /\ pc \in Canceling /\ ~panicked /\ src[cur] # "firing"
  /\ kind = "onSignal" => relay[cur].buf = 0 /\ cur \notin notify
  /\ kind = "atIntervals" => src[cur] # "armed"
  /\ pc \in {"close", "canceled"} => c[cur].buf = 0

EventInv == EventTypes /\ ClosedLast /\ NoSource /\ (timely => Stopped)

\* The fields of channels that change.
LEMMA ChannelTypes ==
  ASSUME EventTypes, NEW e \in Event!Events
  PROVE  /\ c[e].buf \in {0, 1} /\ c[e].closed \in BOOLEAN /\ c[e] = [buf |-> c[e].buf, closed |-> c[e].closed]
         /\ relay[e].buf \in {0, 1} /\ relay[e].closed \in BOOLEAN
         /\ relay[e] = [buf |-> relay[e].buf, closed |-> relay[e].closed]
         /\ src[e] \in {"none", "armed", "firing", "done"}
BY DEF EventTypes, Event!Channel

\* An event's own goroutine.
LEMMA SourceStep ==
  ASSUME EventInv, ~panicked, NEW e \in Event!Events, Event!Source(e)
  PROVE  EventInv'
<1> USE DEF EventInv
<1>0. /\ cur' = cur /\ kind' = kind /\ pc' = pc /\ timely' = timely /\ notify' = notify
      /\ c[e].buf \in {0, 1} /\ relay[e].buf \in {0, 1}
  BY ChannelTypes, Zenon DEF Event!Source, Event!TimerFires, Event!RelayReceive, Event!Fire
<1>1. CASE Event!TimerFires(e)
  <2>1. /\ kind = "atIntervals" /\ src[e] = "armed" /\ src' = [src EXCEPT ![e] = "firing"]
        /\ c' = c /\ relay' = relay /\ panicked' = panicked
    BY <1>1 DEF Event!TimerFires
  <2>2. EventTypes' /\ ClosedLast' /\ NoSource'
    BY <1>0, <2>1 DEF EventTypes, ClosedLast, NoSource
  <2>3. timely => Stopped'
    BY <1>0, <2>1 DEF Stopped, EventTypes
  <2> QED BY <1>0, <2>2, <2>3
<1>2. CASE Event!RelayReceive(e)
  <2>1. /\ kind = "onSignal" /\ src[e] = "armed" /\ c' = c /\ panicked' = panicked
        /\ \/ /\ relay[e].buf > 0 /\ relay' = [relay EXCEPT ![e].buf = @ - 1]
              /\ src' = [src EXCEPT ![e] = "firing"]
           \/ relay[e].buf = 0 /\ src' = [src EXCEPT ![e] = "done"] /\ relay' = relay
    BY <1>2 DEF Event!RelayReceive
  <2>2. relay' \in [Event!Events -> Event!Channel]
    BY <1>0, <2>1 DEF EventTypes, Event!Channel
  <2>3. EventTypes' /\ ClosedLast' /\ NoSource'
    BY <1>0, <2>1, <2>2 DEF EventTypes, ClosedLast, NoSource
  <2>4. timely => Stopped'
    BY <1>0, <2>1 DEF Stopped, EventTypes, Event!Channel
  <2> QED BY <1>0, <2>3, <2>4
<1>3. CASE Event!Fire(e)
  <2>1. /\ src[e] = "firing" /\ src' = [src EXCEPT ![e] = "done"] /\ panicked' = c[e].closed
        /\ c' = IF c[e].closed THEN c ELSE [c EXCEPT ![e].buf = 1]
        /\ relay' = relay
    BY <1>3 DEF Event!Fire
  <2>2. c' \in [Event!Events -> Event!Channel] /\ panicked' \in BOOLEAN
    BY <2>1, ChannelTypes DEF EventTypes, Event!Channel
  <2>3. \A f \in Event!Events : c'[f].closed = c[f].closed /\ (f # e => c'[f] = c[f])
    BY <2>1 DEF EventTypes, Event!Channel
  <2>4. EventTypes' /\ ClosedLast' /\ NoSource'
    BY <1>0, <2>1, <2>2, <2>3 DEF EventTypes, ClosedLast, NoSource
  <2>5. ASSUME timely PROVE Stopped'
    <3>1. e # cur
      BY <2>1, <2>5 DEF Stopped
    <3>2. ~c[e].closed
      BY <3>1 DEF ClosedLast
    <3> QED BY <1>0, <2>1, <2>3, <2>5, <3>1, <3>2 DEF Stopped, EventTypes
  <2> QED BY <1>0, <2>4, <2>5
<1> QED BY <1>1, <1>2, <1>3 DEF Event!Source

\* The callers of Trigger, the operator who signals, and Kill.
LEMMA CallerStep ==
  ASSUME EventInv, ~panicked, (\E e \in Event!Events : Event!Trigger(e)) \/ Event!Signal \/ Event!Kill
  PROVE  EventInv'
<1> USE DEF EventInv
<1>1. ASSUME NEW e \in Event!Events, Event!Trigger(e) PROVE EventInv'
  <2>1. /\ kind = "triggerable" /\ e = cur /\ pc = "select" /\ c' = [c EXCEPT ![e].buf = 1]
        /\ cur' = cur /\ kind' = kind /\ pc' = pc /\ timely' = timely /\ src' = src /\ relay' = relay
        /\ panicked' = panicked
    BY <1>1 DEF Event!Trigger
  <2>2. c' \in [Event!Events -> Event!Channel] /\ \A f \in Event!Events : c'[f].closed = c[f].closed
    BY <2>1 DEF EventTypes, Event!Channel
  <2>3. ~timely
    BY <2>1 DEF Stopped, Canceling
  <2> QED BY <2>1, <2>2, <2>3 DEF EventTypes, ClosedLast, NoSource
<1>2. CASE Event!Signal
  <2>1. /\ kind = "onSignal" /\ Event!Deliver
        /\ cur' = cur /\ kind' = kind /\ pc' = pc /\ timely' = timely /\ src' = src /\ c' = c
        /\ panicked' = panicked /\ notify' = notify
    BY <1>2 DEF Event!Signal
  <2>2. relay' \in [Event!Events -> Event!Channel] /\ \A f \in Event!Events : f \notin notify => relay'[f] = relay[f]
    BY <2>1 DEF EventTypes, Event!Channel, Event!Deliver, Event!relayCapacity
  <2>3. EventTypes' /\ ClosedLast' /\ NoSource'
    BY <2>1, <2>2 DEF EventTypes, ClosedLast, NoSource
  <2>4. timely => Stopped'
    BY <2>1, <2>2 DEF Stopped, EventTypes
  <2> QED BY <2>1, <2>3, <2>4
<1>3. CASE Event!Kill
  BY <1>3 DEF Event!Kill, EventTypes, ClosedLast, NoSource, Stopped
<1> QED BY <1>1, <1>2, <1>3

\* The goroutine that listens, until it cancels.
LEMMA ListenStep ==
  ASSUME EventInv, ~panicked, Event!Receive \/ Event!Read \/ Event!NextRun
  PROVE  EventInv'
<1> USE DEF EventInv
<1>0. pc \in {"select", "read", "next"}
  BY DEF Event!Receive, Event!Read, Event!NextRun
<1>1. ~timely /\ \A e \in Event!Events : ~c[e].closed
  BY <1>0 DEF Stopped, Canceling, ClosedLast
<1>2. CASE Event!Receive
  <2>1. /\ c' = [c EXCEPT ![cur].buf = 0] /\ cur < MaxEvents
        /\ cur' = cur /\ kind' = kind /\ timely' = timely /\ src' = src /\ relay' = relay
        /\ panicked' = panicked
    BY <1>2 DEF Event!Receive
  <2>2. c' \in [Event!Events -> Event!Channel]
        /\ \A f \in Event!Events : c'[f].closed = c[f].closed /\ (c[f].buf = 0 => c'[f].buf = 0)
    BY <2>1 DEF EventTypes, Event!Channel
  <2> QED BY <1>1, <2>1, <2>2 DEF EventTypes, ClosedLast, NoSource
<1>3. CASE Event!Read
  BY <1>1, <1>3 DEF Event!Read, EventTypes, ClosedLast, NoSource
<1>4. CASE Event!NextRun
  <2>1. /\ cur' = cur + 1 /\ kind' = kind /\ timely' = timely /\ c' = c /\ relay' = relay
        /\ panicked' = panicked
        /\ src' = [src EXCEPT ![cur + 1] = IF kind \in {"atIntervals", "onSignal"} THEN "armed" ELSE "none"]
    BY <1>4 DEF Event!NextRun, Event!GetNextRun
  <2>2. cur + 1 \in Event!Events /\ pc' = "select"
    BY <1>4, EventAssumption DEF EventTypes, Event!Events, Event!NextRun
  <2> QED BY <1>1, <2>1, <2>2 DEF EventTypes, ClosedLast, NoSource
<1> QED BY <1>2, <1>3, <1>4

\* What draining and closing leave of a channel.
LEMMA DrainAndClose ==
  ASSUME NEW C \in [Event!Events -> Event!Channel], NEW e \in Event!Events
  PROVE  LET D == [C EXCEPT ![e] = [C[e] EXCEPT !.buf = 0]]
             F == [C EXCEPT ![e].closed = TRUE]
         IN  /\ D \in [Event!Events -> Event!Channel] /\ F \in [Event!Events -> Event!Channel]
             /\ \A f \in Event!Events : f # e => D[f] = C[f] /\ F[f] = C[f]
             /\ D[e].buf = 0 /\ (D[e].closed <=> C[e].closed) /\ F[e].buf = C[e].buf
<1> DEFINE D == [C EXCEPT ![e] = [C[e] EXCEPT !.buf = 0]]
           F == [C EXCEPT ![e].closed = TRUE]
<1>1. D \in [Event!Events -> Event!Channel]
  BY DEF Event!Channel
<1>2. F \in [Event!Events -> Event!Channel]
  BY Zenon DEF Event!Channel
<1>3. \A f \in Event!Events : f # e => D[f] = C[f] /\ F[f] = C[f]
  OBVIOUS
<1>4. D[e].buf = 0
  BY DEF Event!Channel
<1>5. D[e].closed <=> C[e].closed
  BY DEF Event!Channel
<1>6. F[e].buf = C[e].buf
  BY DEF Event!Channel
<1> QED BY ONLY <1>1, <1>2, <1>3, <1>4, <1>5, <1>6, Zenon

\* Cancel.
LEMMA CancelStep ==
  ASSUME EventInv, ~panicked, Event!CancelBegin \/ Event!CancelRelay \/ Event!CancelChan
  PROVE  EventInv'
<1> USE DEF EventInv
<1>0. /\ cur' = cur /\ kind' = kind /\ panicked' = panicked /\ cur \in Event!Events
      /\ pc \in {"select", "drainRelay", "closeRelay", "drain", "close"}
      /\ pc' \in Canceling
  BY DEF Event!CancelBegin, Event!CancelRelay, Event!CancelChan, Canceling, EventTypes
<1>1. \A e \in Event!Events : ~c[e].closed
  BY <1>0 DEF ClosedLast
<1>2. CASE Event!CancelBegin
  <2>1. /\ c' = c /\ relay' = relay /\ notify' = notify \ {cur}
        /\ src' = IF kind = "atIntervals" /\ src[cur] = "armed" THEN [src EXCEPT ![cur] = "done"] ELSE src
        /\ timely' = (src[cur] \notin {"firing", "done"} /\ relay[cur].buf = 0)
        /\ pc' = IF kind = "onSignal" THEN "drainRelay" ELSE IF kind = "onlyOnce" THEN "close" ELSE "drain"
    BY <1>2 DEF Event!CancelBegin, Event!CancelStop
  <2>2. EventTypes' /\ ClosedLast' /\ NoSource'
    BY <1>0, <1>1, <2>1 DEF EventTypes, ClosedLast, NoSource
  <2>3. timely' => Stopped'
    BY <1>0, <2>1 DEF Stopped, EventTypes, NoSource
  <2> QED BY <2>2, <2>3
<1>3. CASE Event!CancelRelay
  <2>1. /\ c' = c /\ notify' = notify /\ src' = src /\ timely' = timely /\ pc' \in {"closeRelay", "drain"}
        /\ \/ relay' = [relay EXCEPT ![cur] = [relay[cur] EXCEPT !.buf = 0]]
           \/ relay' = [relay EXCEPT ![cur].closed = TRUE]
    BY <1>3 DEF Event!CancelRelay, Event!Drained
  <2>2. relay' \in [Event!Events -> Event!Channel] /\ (relay[cur].buf = 0 => relay'[cur].buf = 0)
    <3> DEFINE D == [relay EXCEPT ![cur] = [relay[cur] EXCEPT !.buf = 0]]
               F == [relay EXCEPT ![cur].closed = TRUE]
    <3>1. relay \in [Event!Events -> Event!Channel]
      BY DEF EventTypes
    <3>2. /\ D \in [Event!Events -> Event!Channel] /\ F \in [Event!Events -> Event!Channel]
          /\ D[cur].buf = 0 /\ F[cur].buf = relay[cur].buf
      BY ONLY <1>0, <3>1, DrainAndClose, Zenon
    <3>3. relay' = D \/ relay' = F
      BY <2>1
    <3> HIDE DEF D, F
    <3> QED BY ONLY <3>2, <3>3
  <2>3. EventTypes' /\ ClosedLast' /\ NoSource'
    BY <1>0, <1>1, <2>1, <2>2 DEF EventTypes, ClosedLast, NoSource
  <2>4. timely => Stopped'
    BY <1>0, <2>1, <2>2 DEF Stopped
  <2> QED BY <2>1, <2>3, <2>4
<1>4. CASE Event!CancelChan
  <2>1. /\ relay' = relay /\ notify' = notify /\ src' = src /\ timely' = timely
        /\ \/ pc = "drain" /\ pc' = "close" /\ c' = [c EXCEPT ![cur] = [c[cur] EXCEPT !.buf = 0]]
           \/ pc = "close" /\ pc' = "canceled" /\ c' = [c EXCEPT ![cur].closed = TRUE]
    BY <1>4 DEF Event!CancelChan, Event!Drained
  <2>2. /\ c' \in [Event!Events -> Event!Channel]
        /\ \A e \in Event!Events : /\ e # cur => c'[e] = c[e]
                                   /\ c[e].buf = 0 => c'[e].buf = 0
        /\ pc = "drain" => c'[cur].buf = 0 /\ ~c'[cur].closed
    <3> DEFINE D == [c EXCEPT ![cur] = [c[cur] EXCEPT !.buf = 0]]
               F == [c EXCEPT ![cur].closed = TRUE]
    <3>1. c \in [Event!Events -> Event!Channel]
      BY DEF EventTypes
    <3>2. /\ D \in [Event!Events -> Event!Channel] /\ F \in [Event!Events -> Event!Channel]
          /\ \A f \in Event!Events : f # cur => D[f] = c[f] /\ F[f] = c[f]
          /\ D[cur].buf = 0 /\ F[cur].buf = c[cur].buf /\ (D[cur].closed <=> c[cur].closed)
      BY ONLY <1>0, <3>1, DrainAndClose, Zenon
    <3>3. ~D[cur].closed
      BY <1>0, <1>1, <3>2
    <3>4. (pc = "drain" /\ c' = D) \/ (pc # "drain" /\ c' = F)
      BY <2>1
    <3> HIDE DEF D, F
    <3> QED BY ONLY <1>0, <3>2, <3>3, <3>4
  <2>3. EventTypes' /\ ClosedLast' /\ NoSource'
    BY <1>0, <1>1, <2>1, <2>2 DEF EventTypes, ClosedLast, NoSource
  <2>4. timely => Stopped'
    BY <1>0, <2>1, <2>2 DEF Stopped
  <2> QED BY <2>1, <2>3, <2>4
<1> QED BY <1>2, <1>3, <1>4

\* For any number of events and signals: a Cancel before the event has fired leaves a
\* closed, empty channel that nobody sends on any more, and no send panics.
THEOREM CancelIsFinal == SourcesSpec => []TimelyCancelIsFinal
<1>1. SourcesInit => EventInv
  <2> SUFFICES ASSUME SourcesInit PROVE EventInv
    OBVIOUS
  <2>1. Event!Init
    BY DEF SourcesInit
  <2>2. kind \in {"atIntervals", "onSignal", "onlyOnce", "triggerable"} /\ 1 \in Event!Events
    BY <2>1, EventAssumption DEF Event!Init, Event!Events
  <2>3. Event!EmptyChannel \in Event!Channel /\ Event!EmptyChannel.buf = 0 /\ ~Event!EmptyChannel.closed
    BY DEF Event!EmptyChannel, Event!Channel
  <2>4. EventTypes
    BY <2>1, <2>2, <2>3, Zenon DEF Event!Init, EventTypes
  <2>5. ClosedLast /\ NoSource /\ ~timely
    BY <2>1, <2>2, <2>3 DEF Event!Init, ClosedLast, NoSource
  <2> QED BY <2>4, <2>5 DEF EventInv
<1>2. EventInv /\ UNCHANGED eventVars => EventInv'
  BY DEF eventVars, EventInv, EventTypes, ClosedLast, NoSource, Stopped
<1>3. EventInv /\ [SourcesNext]_allVars => EventInv'
  <2>1. EventInv /\ Event!Next => EventInv'
    BY SourceStep, CallerStep, ListenStep, CancelStep DEF Event!Next, Event!Listener
  <2> QED BY <1>2, <2>1 DEF SourcesNext, allVars
<1>4. EventInv => TimelyCancelIsFinal
  BY DEF EventInv, Stopped, TimelyCancelIsFinal, Event!TimelyCancelIsFinal
<1> QED BY <1>1, <1>3, <1>4, PTL DEF SourcesSpec, allVars

-----------------------------------------------------------------------------
(* The ACME client. *)

\* No step parts the user of a client from the account: a failed NewClient may
\* register one, but returns no client.
LEMMA AcmeStep == RegisteredUser /\ Acme!Next => RegisteredUser'
<1> SUFFICES ASSUME RegisteredUser, Acme!Next PROVE RegisteredUser'
  OBVIOUS
<1> USE DEF RegisteredUser, Acme!RegisteredUser
<1>1. CASE Acme!Restart
  BY <1>1 DEF Acme!Restart
<1>2. CASE Acme!NewClientErr
  BY <1>2 DEF Acme!NewClientErr
<1>3. CASE Acme!NewClient
  <2>1. config' = config /\ (Acme!NewClient_NoRegister \/ Acme!NewClient_Resolved \/ Acme!NewClient_Registers)
    BY <1>3 DEF Acme!NewClient
  <2> QED BY <2>1 DEF Acme!NewClient_NoRegister, Acme!NewClient_Resolved, Acme!NewClient_Registers
<1> QED BY <1>1, <1>2, <1>3 DEF Acme!Next

\* However often the process restarts: the client that NewClient returns acts for
\* the account that the authority has for its key.
THEOREM AccountKept == SourcesSpec => []RegisteredUser
<1>1. SourcesInit => RegisteredUser
  BY DEF SourcesInit, Acme!Init, RegisteredUser, Acme!RegisteredUser
<1>2. RegisteredUser /\ UNCHANGED clientVars => RegisteredUser'
  BY DEF clientVars, RegisteredUser, Acme!RegisteredUser, Acme!NoClient
<1>3. RegisteredUser /\ [SourcesNext]_allVars => RegisteredUser'
  BY <1>2, AcmeStep DEF SourcesNext, allVars
<1> QED BY <1>1, <1>3, PTL DEF SourcesSpec, allVars

=============================================================================
