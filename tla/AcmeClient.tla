----------------------------- MODULE AcmeClient -----------------------------
(***************************************************************************)
(* acmeclient.NewClient: the set-up of the ACME client at every start of   *)
(* the process, against a certificate authority that remembers accounts    *)
(* across restarts and may fail at any step. The lego library is external; *)
(* a lego client has no challenge providers but those set on it, and the   *)
(* authority answers a registration for a key it knows with the account it *)
(* has.                                                                    *)
(***************************************************************************)
EXTENDS Naturals

CONSTANT MaxRestarts   \* bound: starts of the process

Challenges == {"HTTPChallengePort", "HTTPWebRootDir", "TLSChallengePort", "DNSProvider"}
Configs == [challenges : SUBSET Challenges, shouldRegister : BOOLEAN, eab : BOOLEAN]

VARIABLES
  config,    \* the challenges configured, ShouldRegister, EAB keys given
  starts,
  account,   \* what the authority holds for the user's key
  user,      \* config.User.Registration
  client     \* the client returned: its challenge providers, or NoClient

vars == <<config, starts, account, user, client>>

NoClient == [providers |-> {"none"}]

\* The provider that setting up challenge ch installs: webroot replaces the
\* HTTP01 server.
Provider(ch) == IF ch \in {"HTTPChallengePort", "HTTPWebRootDir"} THEN "http01"
                ELSE IF ch = "TLSChallengePort" THEN "tlsalpn01" ELSE "dns01"

Init ==
  /\ config \in Configs
  /\ starts = 0
  /\ account = "none"
  /\ user = "none"
  /\ client = NoClient

\* The process starts, with a fresh User and possibly another configuration.
Restart ==
  /\ starts < MaxRestarts
  /\ starts' = starts + 1
  /\ config' \in Configs
  /\ client' = NoClient
  /\ user' = "none"
  /\ UNCHANGED account

\* The account of the user's key once a registration has reached the authority.
Registered ==
  IF account # "none" THEN account ELSE IF config.eab THEN "bound" ELSE "plain"

\* NewClient fails before, or when, it registers; the request may have
\* reached the authority nevertheless.
NewClientErr ==
  /\ starts > 0 /\ client = NoClient
  /\ account' \in {account} \cup (IF config.shouldRegister THEN {Registered} ELSE {})
  /\ UNCHANGED <<config, starts, user, client>>

NewClient_NoRegister ==
  /\ ~config.shouldRegister
  /\ user' = "empty"
  /\ client' = [providers |-> {Provider(ch) : ch \in config.challenges}]
  /\ UNCHANGED account

\* Mutant: the account that ResolveAccountByKey found is not kept.
NewClient_Resolved_Forgets ==
  /\ config.shouldRegister /\ account # "none"
  /\ client' = [providers |-> {Provider(ch) : ch \in config.challenges}]
  /\ UNCHANGED <<account, user>>

NewClient_Resolved ==
  /\ config.shouldRegister /\ account # "none"
  /\ user' = account
  /\ client' = [providers |-> {Provider(ch) : ch \in config.challenges}]
  /\ UNCHANGED account

\* ResolveAccountByKey fails, because there is no account or for any other
\* reason: the lego client is made anew and registers.
NewClient_Registers ==
  /\ config.shouldRegister
  /\ account' = Registered
  /\ user' = Registered
  /\ client' = [providers |-> {}]

NewClient ==
  /\ starts > 0 /\ client = NoClient
  /\ \/ NewClient_NoRegister
     \/ NewClient_Resolved
     \/ NewClient_Registers
  /\ UNCHANGED <<config, starts>>

Next == Restart \/ NewClientErr \/ NewClient

Spec == Init /\ [][Next]_vars

-----------------------------------------------------------------------------
\* A client that is returned acts for the account that the authority has for
\* its key, or for the empty one when it is not to register: whether NewClient
\* found the account or registered, after failures, failed lookups, restarts
\* and changes of the configuration (client.go:175-207).
RegisteredUser ==
  client # NoClient => user = IF config.shouldRegister THEN account ELSE "empty"

=============================================================================
