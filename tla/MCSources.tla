------------------------------ MODULE MCSources ------------------------------
(***************************************************************************)
(* Instances for TLC of what feeds the certificate manager: the events of  *)
(* package futureevent, the sources of certificates and OCSP responses     *)
(* over time, and the set-up of the ACME client. They share no state: a    *)
(* behaviour is about one of them, and the others stay in an initial state.*)
(***************************************************************************)
EXTENDS CertSources

CONSTANTS Kinds, MaxEvents, MaxSignals, MaxRestarts

ASSUME EventAssumption ==
  /\ Kinds \subseteq {"atIntervals", "onSignal", "onlyOnce", "triggerable"}
  /\ MaxEvents \in Nat \ {0} /\ MaxSignals \in Nat

VARIABLES
  part,   \* what the behaviour is about
  kind, cur, c, relay, notify, src, pc, kill, content, fetched, heard, timely, panicked,
  config, starts, account, user, client

eventVars == <<kind, cur, c, relay, notify, src, pc, kill, content, fetched, heard, timely, panicked>>
clientVars == <<config, starts, account, user, client>>

Event == INSTANCE FutureEvent
Acme == INSTANCE AcmeClient

SourcesInit ==
  /\ part \in {"event", "source", "client"}
  /\ Event!Init /\ (part # "event" => kind = "onlyOnce")
  /\ Init /\ (part # "source" => source = "file" /\ ~allowTestCert)
  /\ Acme!Init /\ (part # "client" => config.challenges = {} /\ config.shouldRegister /\ config.eab)

SourcesNext ==
  \/ part = "event" /\ Event!Next /\ UNCHANGED <<part, vars, clientVars>>
  \/ part = "source" /\ Next /\ UNCHANGED <<part, eventVars, clientVars>>
  \/ part = "client" /\ Acme!Next /\ UNCHANGED <<part, eventVars, vars>>

\* (While the behaviour is about something else nothing of FutureEvent is enabled.)
SourcesSpec ==
  SourcesInit /\ [][SourcesNext]_<<part, vars, eventVars, clientVars>> /\ Event!Fairness

-----------------------------------------------------------------------------
(* The properties of the instances, explained where they are defined. *)

\* A Cancel before the event has fired (futureevent) leaves a closed, empty
\* channel and no sender.
TimelyCancelIsFinal == Event!TimelyCancelIsFinal

\* Cancel (futureevent) returns although it drains channels that may be empty.
CancelReturns == Event!CancelReturns

\* A signal that arrives while an OnSignal event waits for one leads to a Fetch.
WaitingSignalServed == Event!WaitingSignalServed

\* A client that NewClient returns acts for the account of its key.
RegisteredUser == Acme!RegisteredUser

=============================================================================
