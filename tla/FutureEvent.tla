----------------------------- MODULE FutureEvent -----------------------------
(***************************************************************************)
(* The events of package futureevent and the goroutine that lives on them: *)
(* it selects on the notifier channel of the current event, runs Fetch     *)
(* when the event occurs, gets the next event from the FetchTiming, and    *)
(* cancels the current event when it is killed (certmanager.Augmentor).    *)
(*                                                                         *)
(* An event sends at most one value, from a goroutine of its own: the one  *)
(* that time.AfterFunc runs its function in, or the one that OnSignal      *)
(* spawns to turn a value of relay into a value of c.                      *)
(***************************************************************************)
EXTENDS Naturals, FiniteSets

CONSTANTS
  Kinds,       \* the FetchTimings to consider
  MaxEvents,   \* bound: events created
  MaxSignals   \* bound: signals sent to the process

Events == 1..MaxEvents

VARIABLES
  kind,      \* the FetchTiming in use
  cur,       \* the current event
  c,         \* per event: the notifier channel, its buffer and closed flag
  relay,     \* per event: the channel registered for the signal
  notify,    \* the events whose relay signal.Notify delivers to
  src,       \* per event: the goroutine that sends on c
  pc,        \* the goroutine that listens and cancels
  kill,      \* it has been told to stop
  content,   \* what the operator has put in place so far, then signalled
  fetched,   \* the content that the last Fetch has read
  heard,     \* history: the content last signalled to an event still waiting
  timely,    \* history: Cancel stopped the source before it had fired
  panicked   \* a send on a closed channel took the process down

vars == <<kind, cur, c, relay, notify, src, pc, kill, content, fetched, heard,
          timely, panicked>>

Channel == [buf : 0..1, closed : BOOLEAN]
EmptyChannel == [buf |-> 0, closed |-> FALSE]

relayCapacity == 1

\* What GetNextRun of the timing in use leaves behind for event e: a timer, a
\* registered relay with a goroutine waiting on it, or just a channel.
GetNextRun(e) ==
  /\ cur' = e
  /\ src' = [src EXCEPT ![e] = IF kind \in {"atIntervals", "onSignal"} THEN "armed" ELSE "none"]
  /\ notify' = IF kind = "onSignal" THEN notify \cup {e} ELSE notify

Init ==
  /\ kind \in Kinds
  /\ cur = 1
  /\ c = [e \in Events |-> EmptyChannel]
  /\ relay = [e \in Events |-> EmptyChannel]
  /\ notify = IF kind = "onSignal" THEN {1} ELSE {}
  /\ src = [e \in Events |->
              IF e = 1 /\ kind \in {"atIntervals", "onSignal"} THEN "armed" ELSE "none"]
  /\ pc = "select"
  /\ kill = FALSE
  /\ content = 0
  /\ fetched = 0
  /\ heard = 0
  /\ timely = FALSE
  /\ panicked = FALSE

-----------------------------------------------------------------------------
(* The sources. *)

\* The timer expires: its function is about to send.
TimerFires(e) ==
  /\ kind = "atIntervals"
  /\ src[e] = "armed"
  /\ src' = [src EXCEPT ![e] = "firing"]
  /\ UNCHANGED <<kind, cur, c, relay, notify, pc, kill, content, fetched, heard, timely, panicked>>

\* Mutant: the relay has no buffer, and the goroutine may not be receiving yet.
Deliver_Unbuffered ==
  \/ UNCHANGED relay
  \/ relay' = [e \in Events |-> IF e \in notify THEN [relay[e] EXCEPT !.buf = 1] ELSE relay[e]]

\* signal.Notify's delivery: a send that gives up when the buffer is full.
Deliver ==
  relay' = [e \in Events |->
              IF e \in notify /\ relay[e].buf < relayCapacity
              THEN [relay[e] EXCEPT !.buf = @ + 1] ELSE relay[e]]

\* The operator updates the files and signals the process.
Signal ==
  /\ kind = "onSignal"
  /\ content < MaxSignals
  /\ content' = content + 1
  /\ Deliver
  /\ heard' = IF pc = "select" /\ src[cur] = "armed" THEN content + 1 ELSE heard
  /\ UNCHANGED <<kind, cur, c, notify, src, pc, kill, fetched, timely, panicked>>

\* The goroutine of OnSignal takes a signal from relay, or finds it closed.
RelayReceive(e) ==
  /\ kind = "onSignal"
  /\ src[e] = "armed"
  /\ \/ /\ relay[e].buf > 0
        /\ relay' = [relay EXCEPT ![e].buf = @ - 1]
        /\ src' = [src EXCEPT ![e] = "firing"]
     \/ /\ relay[e].buf = 0 /\ relay[e].closed
        /\ src' = [src EXCEPT ![e] = "done"]
        /\ UNCHANGED relay
  /\ UNCHANGED <<kind, cur, c, notify, pc, kill, content, fetched, heard, timely, panicked>>

\* c <- time.Now(), by the function of the timer or the goroutine of OnSignal.
Fire(e) ==
  /\ src[e] = "firing"
  /\ c[e].closed \/ c[e].buf = 0
  /\ src' = [src EXCEPT ![e] = "done"]
  /\ panicked' = c[e].closed
  /\ c' = IF c[e].closed THEN c ELSE [c EXCEPT ![e].buf = 1]
  /\ UNCHANGED <<kind, cur, relay, notify, pc, kill, content, fetched, heard, timely>>

\* TriggerableEvent.Trigger, by a caller that knows the event is not canceled.
Trigger(e) ==
  /\ kind = "triggerable"
  /\ e = cur /\ pc = "select" /\ c[e].buf = 0
  /\ c' = [c EXCEPT ![e].buf = 1]
  /\ UNCHANGED <<kind, cur, relay, notify, src, pc, kill, content, fetched, heard, timely, panicked>>

-----------------------------------------------------------------------------
(* The goroutine that listens and cancels. *)

Kill ==
  /\ ~kill
  /\ kill' = TRUE
  /\ UNCHANGED <<kind, cur, c, relay, notify, src, pc, content, fetched, heard, timely, panicked>>

\* select receives from the notifier channel; the event is used up.
Receive ==
  /\ pc = "select" /\ c[cur].buf = 1
  /\ cur < MaxEvents
  /\ c' = [c EXCEPT ![cur].buf = 0]
  /\ pc' = "read"
  /\ UNCHANGED <<kind, cur, relay, notify, src, kill, content, fetched, heard, timely, panicked>>

\* Fetch reads the files.
Read ==
  /\ pc = "read"
  /\ fetched' = content
  /\ pc' = "next"
  /\ UNCHANGED <<kind, cur, c, relay, notify, src, kill, content, heard, timely, panicked>>

\* Fetch returns with the event from GetNextRun.
NextRun ==
  /\ pc = "next"
  /\ GetNextRun(cur + 1)
  /\ pc' = "select"
  /\ UNCHANGED <<kind, c, relay, kill, content, fetched, heard, timely, panicked>>

\* Mutant: drain waits for a value.
Drained_Blocking(ch) ==
  IF ch.buf = 1 THEN {[ch EXCEPT !.buf = 0]} ELSE {}

\* drainOneTime and drainOneSignal: take a value if there is one.
Drained(ch) ==
  {[ch EXCEPT !.buf = 0]}

\* Mutant: the source is not stopped.
CancelStop_Noop ==
  UNCHANGED <<src, notify>>

\* t.Stop or signal.Stop: nothing new fires, what is under way goes on.
CancelStop ==
  /\ src' = IF kind = "atIntervals" /\ src[cur] = "armed"
            THEN [src EXCEPT ![cur] = "done"] ELSE src
  /\ notify' = notify \ {cur}

\* Cancel, one statement of the event's Cancel method at a time.
CancelBegin ==
  /\ pc = "select" /\ kill
  /\ CancelStop
  /\ timely' = (src[cur] \notin {"firing", "done"} /\ relay[cur].buf = 0)
  /\ pc' = IF kind = "onSignal" THEN "drainRelay"
           ELSE IF kind = "onlyOnce" THEN "close" ELSE "drain"
  /\ UNCHANGED <<kind, cur, c, relay, kill, content, fetched, heard, panicked>>

CancelRelay ==
  \/ /\ pc = "drainRelay" /\ pc' = "closeRelay"
     /\ \E ch \in Drained(relay[cur]) : relay' = [relay EXCEPT ![cur] = ch]
     /\ UNCHANGED <<kind, cur, c, notify, src, kill, content, fetched, heard, timely, panicked>>
  \/ /\ pc = "closeRelay" /\ pc' = "drain"
     /\ relay' = [relay EXCEPT ![cur].closed = TRUE]
     /\ UNCHANGED <<kind, cur, c, notify, src, kill, content, fetched, heard, timely, panicked>>

CancelChan ==
  \/ /\ pc = "drain" /\ pc' = "close"
     /\ \E ch \in Drained(c[cur]) : c' = [c EXCEPT ![cur] = ch]
     /\ UNCHANGED <<kind, cur, relay, notify, src, kill, content, fetched, heard, timely, panicked>>
  \/ /\ pc = "close" /\ pc' = "canceled"
     /\ c' = [c EXCEPT ![cur].closed = TRUE]
     /\ UNCHANGED <<kind, cur, relay, notify, src, kill, content, fetched, heard, timely, panicked>>

-----------------------------------------------------------------------------
Source(e) == TimerFires(e) \/ RelayReceive(e) \/ Fire(e)
Listener == Receive \/ Read \/ NextRun \/ CancelBegin \/ CancelRelay \/ CancelChan

Next ==
  /\ ~panicked
  /\ \/ \E e \in Events : Source(e) \/ Trigger(e)
     \/ Signal
     \/ Kill
     \/ Listener

Spec == Init /\ [][Next]_vars

\* Timers expire, goroutines run; select picks a case that stays ready. Nobody
\* has to signal, to trigger or to kill.
Fairness ==
  /\ \A e \in Events : WF_vars(~panicked /\ Source(e))
  /\ WF_vars(~panicked /\ Receive)
  /\ WF_vars(~panicked /\ (Read \/ NextRun))
  /\ SF_vars(~panicked /\ CancelBegin)
  /\ WF_vars(~panicked /\ (CancelRelay \/ CancelChan))

-----------------------------------------------------------------------------
(* Properties. *)

\* A Cancel that comes before the event has fired is final: the timer or the
\* signal that comes later finds nobody to notify, the channel ends closed and
\* empty and no goroutine sends on it (real_clock.go and signal.go, Cancel).
TimelyCancelIsFinal ==
  timely => ~panicked /\ (pc = "canceled" => c[cur].buf = 0 /\ src[cur] # "firing")

\* Cancel returns, although it drains channels that may be empty (drain.go).
CancelReturns == kill ~> (pc = "canceled" \/ panicked \/ cur = MaxEvents)

\* A signal that arrives while an event is waiting for one is not lost, even
\* if the goroutine of OnSignal is not at its receive yet (signal.go:26).
WaitingSignalServed ==
  \A n \in 1..MaxSignals :
    heard = n ~> (fetched >= n \/ kill \/ cur = MaxEvents)

=============================================================================
