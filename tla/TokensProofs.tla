---------------------------- MODULE TokensProofs ----------------------------
(***************************************************************************)
(* Theorems about Tokens, for any secrets, any lifetime, any resolution    *)
(* and range of the clock and any number of processes.                     *)
(***************************************************************************)
EXTENDS Tokens, TLAPS

(* Whole seconds of a time, as JWT counts them.                            *)
LEMMA SecondIs ==
  ASSUME NEW t \in Nat
  PROVE  /\ Second(t) \in Nat
         /\ PerSecond * Second(t) <= t /\ t < PerSecond * Second(t) + PerSecond
<1>1. PerSecond \in Nat /\ PerSecond > 0 BY TimeAssumption
<1>2. Second(t) \in Int /\ PerSecond * Second(t) <= t /\ t < PerSecond * Second(t) + PerSecond
  BY <1>1 DEF Second
<1>3. Second(t) >= 0 BY <1>1 DEF Second
<1> QED BY <1>2, <1>3

LEMMA TimesAreNumbers == \A t \in 0..MaxTime : t \in Nat
BY TimeAssumption

LEMMA ExpiryIsANumber ==
  ASSUME NEW t \in Nat
  PROVE  Second(t + Ttl * PerSecond) \in Nat
<1>1. t + Ttl * PerSecond \in Nat BY TimeAssumption
<1> QED BY <1>1, SecondIs

-----------------------------------------------------------------------------
(* Types                                                                   *)

TokenType ==
  [sub : Subjects, role : TokenRoles, exp : Nat \cup {NoExpiry},
   secret : Secrets \cup {"another key"}, minted : 0..MaxTime,
   by : {"create_token", "others", "nobody"}]

LEMMA CreateTokenType ==
  ASSUME TypeOK, NEW p \in Processes, NEW i \in AgentIdentities
  PROVE CreateToken(p, i) \in TokenType
<1>1. Second(now + Ttl * PerSecond) \in Nat
  <2>1. now \in Nat BY TimesAreNumbers DEF TypeOK
  <2> QED BY <2>1, ExpiryIsANumber
<1>2. RoleOf[i] \in {"readonly", "deployer"} BY DEF RoleOf
<1>3. process[p].secret \in Secrets BY DEF TypeOK, Settings
<1>4. now \in 0..MaxTime BY DEF TypeOK
<1> QED BY <1>1, <1>2, <1>3, <1>4 DEF CreateToken, TokenType, Subjects, TokenRoles

LEMMA InitType == Init => TypeOK
<1> SUFFICES ASSUME Init PROVE TypeOK
  OBVIOUS
<1>1. now \in 0..MaxTime BY TimeAssumption DEF Init
<1>2. process \in [Processes -> Settings]
  BY DevSecretAssumption DEF Init, Settings, Down
<1>3. token \in TokenType
  BY <1>1, DevSecretAssumption DEF Init, TokenType, NoToken, Subjects, TokenRoles
<1>4. login \in [at : 0..MaxTime, secret : Secrets, inCluster : BOOLEAN,
                outcome : {"none", "401", "accepted"}]
  BY <1>1, DevSecretAssumption DEF Init, NoLogin
<1> QED BY <1>1, <1>2, <1>3, <1>4 DEF TypeOK, TokenType

LEMMA StepType == TypeOK /\ [Next]_vars => TypeOK'
<1> SUFFICES ASSUME TypeOK, [Next]_vars PROVE TypeOK'
  OBVIOUS
<1>0. 0 \in 0..MaxTime /\ NoLogin \in [at : 0..MaxTime, secret : Secrets, inCluster : BOOLEAN,
                                      outcome : {"none", "401", "accepted"}]
  BY DevSecretAssumption, TimeAssumption DEF NoLogin
<1>1. CASE UNCHANGED vars BY <1>1 DEF vars, TypeOK
<1>2. ASSUME NEW p \in Processes, Start(p) \/ Stop(p) PROVE TypeOK'
  <2>1. PICK x \in Settings : process' = [process EXCEPT ![p] = x]
    BY <1>2, DevSecretAssumption DEF Start, Stop, Down, Settings
  <2> QED BY <1>2, <2>1 DEF Start, Stop, TypeOK
<1>3. ASSUME NEW p \in Processes, MintTokens(p) PROVE TypeOK'
  <2>1. token' \in TokenType BY <1>3, CreateTokenType DEF MintTokens
  <2> QED BY <1>0, <1>3, <2>1 DEF MintTokens, TypeOK, TokenType
<1>4. CASE OthersSign
  <2>1. now \in Nat /\ now \in 0..MaxTime BY TimesAreNumbers DEF TypeOK
  <2>2. Second(now + Ttl * PerSecond) \in Nat BY <2>1, ExpiryIsANumber
  <2>3. PICK s \in Secrets \cup {"another key"}, i \in Subjects, role \in TokenRoles,
             exp \in {NoExpiry, Second(now + Ttl * PerSecond)} :
          token' = OthersToken(s, i, role, exp)
    BY <1>4 DEF OthersSign
  <2>4. exp \in Nat \cup {NoExpiry} BY <2>2
  <2>5. token' \in TokenType BY <2>1, <2>3, <2>4 DEF OthersToken, TokenType
  <2> QED BY <1>0, <1>4, <2>5 DEF OthersSign, TypeOK, TokenType
<1>5. ASSUME NEW p \in Processes, Present(p) PROVE TypeOK'
  BY <1>5 DEF Present, TypeOK, Settings
<1>6. CASE Tick
  <2>1. \A t \in 0..MaxTime : t < MaxTime => t + 1 \in 0..MaxTime BY TimeAssumption
  <2>2. now' \in 0..MaxTime BY <1>6, <2>1 DEF Tick, TypeOK
  <2> QED BY <1>0, <1>6, <2>2 DEF Tick, TypeOK
<1> QED BY <1>1, <1>2, <1>3, <1>4, <1>5, <1>6 DEF Next

(* Every variable holds a value a process, a token or the clock can have.  *)
THEOREM TypeCorrect == Spec => []TypeOK
BY InitType, StepType, PTL DEF Spec

-----------------------------------------------------------------------------
(* What verify_token decides                                               *)

(* The claims of the gateway's own tokens.                                 *)
TokenOK ==
  token.by = "create_token" =>
    /\ token.sub \in AgentIdentities /\ token.role = RoleOf[token.sub]
    /\ token.exp = Second(token.minted + Ttl * PerSecond)

(* No process runs with the developer's secret in a cluster.               *)
ProcessOK ==
  \A p \in Processes : process[p].up /\ process[p].inCluster => process[p].secret # DevSecret

Passes == /\ token.secret = login.secret
          /\ token.exp = NoExpiry \/ token.exp >= Second(login.at)
          /\ token.sub # "none" /\ token.role # "none"
LoginOK ==
  /\ login.outcome = "accepted" => Passes
  /\ login.outcome = "401" => ~Passes
  /\ login.inCluster => login.secret # DevSecret

Sound == TokenOK /\ ProcessOK /\ LoginOK

LEMMA InitSound == Init => Sound
BY DEF Init, Sound, TokenOK, ProcessOK, LoginOK, Down, NoToken, NoLogin

LEMMA StepSound == TypeOK /\ Sound /\ [Next]_vars => Sound'
<1> SUFFICES ASSUME TypeOK, Sound, [Next]_vars PROVE Sound'
  OBVIOUS
<1>0. login' = NoLogin => LoginOK' BY DEF LoginOK, NoLogin
<1>1. CASE UNCHANGED vars BY <1>1 DEF vars, Sound, TokenOK, ProcessOK, LoginOK, Passes
<1>2. ASSUME NEW p \in Processes, Start(p) \/ Stop(p) PROVE Sound'
  <2>1. TokenOK' /\ LoginOK'
    BY <1>2 DEF Start, Stop, Sound, TokenOK, LoginOK, Passes
  <2>2. ASSUME Start(p) PROVE ProcessOK'
    <3>1. PICK s \in Secrets : \E c \in BOOLEAN :
            /\ ~Refuses(s, c)
            /\ process' = [process EXCEPT ![p] = [up |-> TRUE, secret |-> s, inCluster |-> c]]
      BY <2>2 DEF Start
    <3>2. PICK c \in BOOLEAN :
            /\ ~Refuses(s, c)
            /\ process' = [process EXCEPT ![p] = [up |-> TRUE, secret |-> s, inCluster |-> c]]
      BY <3>1
    <3>3. process'[p].inCluster => process'[p].secret # DevSecret
      BY <3>2 DEF Refuses, TypeOK
    <3>4. \A o \in Processes \ {p} : process'[o] = process[o] BY <3>2 DEF TypeOK
    <3> QED BY <3>3, <3>4 DEF Sound, ProcessOK
  <2>3. ASSUME Stop(p) PROVE ProcessOK'
    <3>1. ~process'[p].up BY <2>3 DEF Stop, Down, TypeOK
    <3>2. \A o \in Processes \ {p} : process'[o] = process[o] BY <2>3 DEF Stop, TypeOK
    <3> QED BY <3>1, <3>2 DEF Sound, ProcessOK
  <2>4. ProcessOK' BY <1>2, <2>2, <2>3
  <2> QED BY <2>1, <2>4 DEF Sound
<1>3. ASSUME NEW p \in Processes, MintTokens(p) PROVE Sound'
  <2>1. PICK i \in AgentIdentities : token' = CreateToken(p, i) BY <1>3 DEF MintTokens
  <2>2. TokenOK' BY <2>1 DEF CreateToken, TokenOK
  <2>3. ProcessOK' BY <1>3 DEF MintTokens, Sound, ProcessOK
  <2> QED BY <1>0, <1>3, <2>2, <2>3 DEF MintTokens, Sound
<1>4. CASE OthersSign
  <2>1. TokenOK'
    <3>1. PICK s, i, role, exp : token' = OthersToken(s, i, role, exp)
      BY <1>4 DEF OthersSign
    <3>2. token'.by = "others" BY <3>1 DEF OthersToken
    <3> QED BY <3>2 DEF TokenOK
  <2>2. ProcessOK' BY <1>4 DEF OthersSign, Sound, ProcessOK
  <2> QED BY <1>0, <1>4, <2>1, <2>2 DEF OthersSign, Sound
<1>5. ASSUME NEW p \in Processes, Present(p) PROVE Sound'
  <2>1. TokenOK' /\ ProcessOK' BY <1>5 DEF Present, Sound, TokenOK, ProcessOK
  <2>2. /\ login'.at = now /\ login'.secret = process[p].secret
        /\ login'.inCluster = process[p].inCluster /\ token' = token /\ process[p].up
        /\ login'.outcome = IF VerifyToken(p, token) THEN "accepted" ELSE "401"
    BY <1>5 DEF Present
  <2>3. LoginOK' BY <2>2 DEF Sound, ProcessOK, LoginOK, Passes, VerifyToken
  <2> QED BY <2>1, <2>3 DEF Sound
<1>6. CASE Tick
  BY <1>0, <1>6 DEF Tick, Sound, TokenOK, ProcessOK
<1> QED BY <1>1, <1>2, <1>3, <1>4, <1>5, <1>6 DEF Next

LEMMA AlwaysSound == Spec => [](TypeOK /\ Sound)
BY InitType, StepType, InitSound, StepSound, PTL DEF Spec

(* No gateway in a cluster accepts a token signed with the default secret  *)
(* of config.py: jwt_handler refuses to be imported there with it.         *)
THEOREM DevSecretIsOutside == Spec => []DevTokensStayOutside
<1>1. Sound => DevTokensStayOutside BY DEF Sound, LoginOK, Passes, DevTokensStayOutside
<1> QED BY <1>1, AlwaysSound, PTL

(* Cutting times to seconds costs no agent any lifetime and gives it less  *)
(* than one second more, whatever the lifetime and the moment of minting.  *)
THEOREM LifetimesAreExact == Spec => []LifetimeIsExact
<1>1. TypeOK /\ Sound => LifetimeIsExact
  <2> SUFFICES ASSUME TypeOK, Sound PROVE LifetimeIsExact
    OBVIOUS
  <2> DEFINE m == token.minted
             a == login.at
             ttl == Ttl * PerSecond
  <2>1. m \in Nat /\ a \in Nat BY TimesAreNumbers DEF TypeOK
  <2>2. PerSecond \in Nat /\ PerSecond > 0 /\ ttl \in Nat BY TimeAssumption
  <2>3. (Ttl + 1) * PerSecond = ttl + PerSecond BY TimeAssumption
  <2>4. /\ Second(a) \in Nat /\ PerSecond * Second(a) <= a
        /\ a < PerSecond * Second(a) + PerSecond
    BY <2>1, SecondIs
  <2>5. /\ Second(m + ttl) \in Nat /\ PerSecond * Second(m + ttl) <= m + ttl
        /\ m + ttl < PerSecond * Second(m + ttl) + PerSecond
    <3>1. m + ttl \in Nat BY <2>1, <2>2
    <3> QED BY <3>1, SecondIs
  <2>6. \A x, y \in Nat : x <= y => PerSecond * x <= PerSecond * y BY <2>2
  <2>7. ASSUME token.by = "create_token", login.outcome = "accepted"
        PROVE Age < (Ttl + 1) * PerSecond
    <3>1. token.exp = Second(m + ttl) /\ token.exp # NoExpiry
      BY <2>5, <2>7 DEF Sound, TokenOK, NoExpiry
    <3>2. Second(a) <= Second(m + ttl)
      BY <2>4, <2>5, <2>7, <3>1 DEF Sound, LoginOK, Passes
    <3>3. PerSecond * Second(a) <= PerSecond * Second(m + ttl)
      BY <2>4, <2>5, <2>6, <3>2
    <3> QED BY <2>1, <2>2, <2>3, <2>4, <2>5, <3>3 DEF Age
  <2>8. ASSUME token.by = "create_token", login.outcome = "401", token.secret = login.secret
        PROVE Age > Ttl * PerSecond
    <3>1. /\ token.sub \in AgentIdentities /\ token.role = RoleOf[token.sub]
          /\ token.exp = Second(m + ttl)
      BY <2>8 DEF Sound, TokenOK
    <3>2. token.sub # "none" /\ token.role # "none"
      BY <3>1 DEF AgentIdentities, RoleOf
    <3>3. ~(Second(m + ttl) >= Second(a))
      BY <2>8, <3>1, <3>2 DEF Sound, LoginOK, Passes
    <3>4. Second(m + ttl) + 1 <= Second(a) BY <2>4, <2>5, <3>3
    <3>5. PerSecond * (Second(m + ttl) + 1) <= PerSecond * Second(a)
      BY <2>4, <2>5, <2>6, <3>4
    <3>6. PerSecond * (Second(m + ttl) + 1) = PerSecond * Second(m + ttl) + PerSecond
      BY <2>2, <2>5
    <3> QED BY <2>1, <2>2, <2>4, <2>5, <3>5, <3>6 DEF Age
  <2> QED BY <2>7, <2>8 DEF LifetimeIsExact
<1> QED BY <1>1, AlwaysSound, PTL
=============================================================================
