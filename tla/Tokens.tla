------------------------------- MODULE Tokens -------------------------------
(***************************************************************************)
(* Bearer tokens: create_token and verify_token (app/auth/jwt_handler.py), *)
(* the minting command line (app/auth/mint_tokens.py) and the settings     *)
(* both read when a process starts.                                        *)
(*                                                                         *)
(* Time is counted in fractions of a second, PerSecond of them: a token    *)
(* carries whole seconds only.  A token is the claims that are looked at   *)
(* and the secret that signs it; `minted` is the time it was made, which   *)
(* the verification does not see.  Tokens do not affect each other: one of *)
(* them, whichever, is followed at a time.                                 *)
(***************************************************************************)
EXTENDS Integers

CONSTANTS Processes,  \* gateway replicas and runs of the minting script
          Secrets,    \* values of JWT_SECRET
          DevSecret,  \* "dev-secret-change-in-production"
          Ttl,        \* jwt_ttl_minutes, in seconds
          PerSecond,  \* fractions the clock counts in a second
          MaxTime     \* bound on the clock

ASSUME DevSecretAssumption == DevSecret \in Secrets
ASSUME OthersAssumption == "another key" \notin Secrets
ASSUME TimeAssumption == Ttl \in Nat /\ PerSecond \in Nat \ {0} /\ MaxTime \in Nat

VARIABLES now,      \* the clock
          process,  \* what each process runs with
          token,    \* the token that is followed
          login     \* how a gateway judged it last

vars == << now, process, token, login >>

(* AGENT_IDENTITIES                                                        *)
AgentIdentities == {"agent-readonly", "agent-deploy"}
RoleOf == [i \in AgentIdentities |->
             IF i = "agent-readonly" THEN "readonly" ELSE "deployer"]

(* What others may write into a token.                                     *)
Subjects   == AgentIdentities \cup {"another agent", "none"}
TokenRoles == {"readonly", "deployer", "another role", "none"}
NoExpiry   == -1

Down == [up |-> FALSE, secret |-> DevSecret, inCluster |-> FALSE]
Settings == [up : BOOLEAN, secret : Secrets, inCluster : BOOLEAN]

NoToken == [sub |-> "none", role |-> "none", exp |-> 0, secret |-> DevSecret,
            minted |-> 0, by |-> "nobody"]
NoLogin == [at |-> 0, secret |-> DevSecret, inCluster |-> FALSE, outcome |-> "none"]

Init ==
  /\ now = 0
  /\ process = [p \in Processes |-> Down]
  /\ token = NoToken
  /\ login = NoLogin

-----------------------------------------------------------------------------
(* Mutant of Refuses: either condition alone is taken for harmless.        *)
RefusesNothing(s, c) == FALSE

(* The guard of jwt_handler: the developer's secret in a cluster.          *)
Refuses(s, c) == c /\ s = DevSecret

(* A process starts with the settings of its environment; the import of    *)
(* jwt_handler raises in a cluster with the developer's secret.            *)
Start(p) ==
  /\ ~process[p].up
  /\ \E s \in Secrets, c \in BOOLEAN :
       /\ ~Refuses(s, c)
       /\ process' = [process EXCEPT ![p] = [up |-> TRUE, secret |-> s, inCluster |-> c]]
  /\ UNCHANGED << now, token, login >>

Stop(p) ==
  /\ process[p].up
  /\ process' = [process EXCEPT ![p] = Down]
  /\ UNCHANGED << now, token, login >>

Second(t) == t \div PerSecond

(* Mutant of CreateToken: the expiry is rounded up.                        *)
CreateTokenRoundsUp(p, agent) ==
  [sub |-> agent, role |-> RoleOf[agent], exp |-> Second(now + Ttl * PerSecond) + 1,
   secret |-> process[p].secret, minted |-> now, by |-> "create_token"]

(* create_token(agent_id): the claims with the expiry cut to whole seconds *)
(* by the JWT library.                                                     *)
CreateToken(p, agent) ==
  [sub |-> agent, role |-> RoleOf[agent], exp |-> Second(now + Ttl * PerSecond),
   secret |-> process[p].secret, minted |-> now, by |-> "create_token"]

(* mint_tokens: one identity, or all of them when --agent is left out; an  *)
(* unknown one is a ValueError and mints nothing.                          *)
MintTokens(p) ==
  /\ process[p].up
  /\ \E i \in AgentIdentities : token' = CreateToken(p, i)
  /\ login' = NoLogin
  /\ UNCHANGED << now, process >>

(* Somebody else signs a token, with another key or with a secret they     *)
(* hold: whatever claims they like, or none, and with or without an expiry.*)
OthersToken(s, agent, role, exp) ==
  [sub |-> agent, role |-> role, exp |-> exp,
   secret |-> s, minted |-> now, by |-> "others"]
OthersSign ==
  /\ \E s \in Secrets \cup {"another key"}, i \in Subjects, role \in TokenRoles,
        exp \in {NoExpiry, Second(now + Ttl * PerSecond)} :
       token' = OthersToken(s, i, role, exp)
  /\ login' = NoLogin
  /\ UNCHANGED << now, process >>

(* verify_token: signature; expiry in whole seconds, if there is one;      *)
(* presence, but not the values, of sub and role.                          *)
VerifyToken(p, t) ==
  /\ t.secret = process[p].secret
  /\ t.exp = NoExpiry \/ t.exp >= Second(now)
  /\ t.sub # "none" /\ t.role # "none"

(* A request presents the token; anything but acceptance is a 401.         *)
Present(p) ==
  /\ process[p].up /\ token # NoToken
  /\ login' = [at |-> now, secret |-> process[p].secret,
               inCluster |-> process[p].inCluster,
               outcome |-> IF VerifyToken(p, token) THEN "accepted" ELSE "401"]
  /\ UNCHANGED << now, process, token >>

Tick ==
  /\ now < MaxTime
  /\ now' = now + 1
  /\ login' = NoLogin
  /\ UNCHANGED << process, token >>

Next ==
  \/ \E p \in Processes : Start(p) \/ Stop(p) \/ MintTokens(p) \/ Present(p)
  \/ OthersSign \/ Tick

Spec == Init /\ [][Next]_vars

-----------------------------------------------------------------------------
(* Properties                                                              *)

(* Every variable holds a value a process, a token or the clock can have.  *)
TypeOK ==
  /\ now \in 0..MaxTime
  /\ process \in [Processes -> Settings]
  /\ token \in [sub : Subjects, role : TokenRoles, exp : Nat \cup {NoExpiry},
                secret : Secrets \cup {"another key"}, minted : 0..MaxTime,
                by : {"create_token", "others", "nobody"}]
  /\ login \in [at : 0..MaxTime, secret : Secrets, inCluster : BOOLEAN,
                outcome : {"none", "401", "accepted"}]

(* Cutting times to seconds on both sides costs no agent any lifetime: a   *)
(* token of create_token works at every gateway with its secret until the  *)
(* end of its TTL, and for less than a second more.                        *)
Age == login.at - token.minted
LifetimeIsExact ==
  token.by = "create_token" =>
    /\ login.outcome = "accepted" => Age < (Ttl + 1) * PerSecond
    /\ login.outcome = "401" /\ token.secret = login.secret => Age > Ttl * PerSecond

(* A gateway in a cluster accepts nothing signed with the default secret   *)
(* of config.py, wherever and whenever it was signed.                      *)
DevTokensStayOutside ==
  login.outcome = "accepted" /\ login.inCluster => token.secret # DevSecret
=============================================================================
