------------------------- MODULE TokenClientProofs -------------------------
(* Proofs about TokenClient, for any servers and calls, any lifetimes and  *)
(* margins that fit together, and any number of grants.                    *)
EXTENDS TokenClient, TLAPS

(* The assumptions on the constants, one by one.                           *)
LEMMA Constants ==
  /\ Margin \in Nat /\ MaxLatency \in Nat /\ MaxLife \in Nat /\ MaxGrants \in Nat
  /\ MaxGrants >= 1 /\ MaxLatency <= Margin
  /\ \A e \in Lifetimes : e \in Nat /\ MaxLatency < e /\ e <= MaxLife
  /\ \A c \in Calls : Home[c] \in Servers
  /\ None \notin Nat
  /\ \A k \in Stored : k # None
  BY TokenAssumption, NoneAssumption

USE Constants

InFlight == {c \in Calls : call[c].stage = "granted"}

(* Every token that anybody holds has been issued.                         *)
Issued(token) == token # None => token < issued
KnownIssued ==
    /\ \A s \in Servers : client[s] # None => Issued(client[s].refresh)
    /\ file # None => Issued(file.refresh)
    /\ \A c \in Calls : call[c].stage \in {"refreshing", "granted"} => Issued(call[c].sent)

(* A call under way has a client.                                          *)
CallsServed == \A c \in Calls : call[c].stage # "idle" => client[Home[c]] # None

(* An expiry in memory, in the file or in a reply is late by no more than  *)
(* the reply has taken.                                                    *)
Honest(k, delay, lives, count) ==
    k.left # None => k.access \in Grants /\ k.access < count /\ k.left <= lives[k.access] + delay
HonestExpiry(k, delay) == Honest(k, delay, life, issued)
ExpiriesHonest ==
    /\ \A s \in Servers : client[s] # None => HonestExpiry(client[s], MaxLatency)
    /\ file # None => HonestExpiry(file, MaxLatency)

(* A reply in flight carries live tokens.                                  *)
RepliesGood ==
    \A c \in InFlight :
        /\ call[c].grant \in Stored
        /\ call[c].grant.refresh \in valid
        /\ call[c].grant.refresh < issued
        /\ call[c].grant.left \in Nat
        /\ call[c].grant.left > MaxLatency
        /\ HonestExpiry(call[c].grant, call[c].age)

(* Where Pinterest rotates, nobody else knows the token of such a reply.   *)
RepliesUnheard ==
    rotates => \A c \in InFlight :
        LET new == call[c].grant.refresh IN
        /\ new >= 2
        /\ \A d \in Calls : call[d].stage \in {"refreshing", "granted"} => call[d].sent # new
        /\ \A d \in InFlight : d # c => call[d].grant.refresh # new
        /\ \A s \in Servers : client[s] # None => client[s].refresh # new
        /\ file # None => file.refresh # new

(* What a start reads, or would read, is good or being replaced.           *)
Covered(token) == token # None =>
    token \in valid \cup orphaned \/ \E c \in InFlight : call[c].sent = token
StartCovered ==
    ~ env.access => IF file # None THEN Covered(file.refresh)
                    ELSE env.refresh => Covered(EnvGrant)

TokenInv ==
    /\ TokensOK /\ CallsServed /\ KnownIssued /\ ExpiriesHonest
    /\ RepliesGood /\ RepliesUnheard /\ StartCovered

-----------------------------------------------------------------------------
LEMMA GrantFacts == EnvGrant \in Grants /\ FileGrant \in Grants /\ EnvGrant # FileGrant
  BY DEF EnvGrant, FileGrant, Grants

LEMMA TokenInit == Init => TokenInv
<1> SUFFICES ASSUME Init PROVE TokenInv
  OBVIOUS
<1> USE GrantFacts
<1>1. PICK left \in {0, MaxLife} :
        /\ life = [n \in Grants |-> IF n \in {EnvGrant, FileGrant} THEN left ELSE 0]
        /\ file \in {None, [access |-> FileGrant, refresh |-> FileGrant, left |-> left]}
  BY DEF Init
<1>2. left \in Lefts
  BY <1>1 DEF Lefts
<1>3. file \in Stored \cup {None}
  BY <1>1, <1>2 DEF Stored, Tokens
<1>4. Idle \in Call
  BY DEF Idle, Out, Call, Tokens
<1>5. life \in [Grants -> Lefts]
  BY <1>1, <1>2 DEF Lefts
<1>6. valid \subseteq Grants /\ issued \in 2 .. MaxGrants + 1
  BY DEF Init
<1>7. TokensOK
  BY <1>3, <1>4, <1>5, <1>6 DEF Init, TokensOK
<1>8. \A c \in Calls : call[c].stage = "idle" /\ call[c].sent = None
  BY DEF Init, Idle, Out
<1>9. KnownIssued
  BY <1>1, <1>8 DEF Init, KnownIssued, Issued, FileGrant
<1>10. ExpiriesHonest
  <2>1. file # None => HonestExpiry(file, MaxLatency)
    BY <1>1, <1>2 DEF Init, HonestExpiry, Honest, FileGrant, Lefts
  <2> QED
    BY <2>1 DEF Init, ExpiriesHonest
<1>11. RepliesGood /\ RepliesUnheard
  BY <1>8 DEF RepliesGood, RepliesUnheard, InFlight
<1>12. StartCovered
  BY <1>1 DEF Init, StartCovered, Covered
<1> QED
  BY <1>7, <1>8, <1>9, <1>10, <1>11, <1>12 DEF TokenInv, CallsServed

-----------------------------------------------------------------------------
(* The refresh token of a reply in flight is a number.                     *)
LEMMA GrantNumber ==
  ASSUME TokenInv, NEW c \in InFlight
  PROVE  call[c].grant.refresh \in Nat
<1>1. call[c].grant.refresh \in valid
  BY DEF TokenInv, RepliesGood
<1>2. ASSUME NEW n \in valid PROVE n \in Nat
  <2>1. n \in 0 .. MaxGrants
    BY DEF TokenInv, TokensOK, Grants
  <2> QED
    BY <2>1
<1> QED
  BY <1>1, <1>2

(* The tokens that a client has, or starts with.                           *)
LEMMA ClientFacts ==
  ASSUME TokenInv, NEW s \in Servers
  PROVE  LET k == ClientOf(s) IN
         /\ k \in Stored
         /\ Issued(k.refresh)
         /\ HonestExpiry(k, MaxLatency)
         /\ rotates => \A c \in InFlight : k.refresh # call[c].grant.refresh
<1> USE GrantFacts
<1>1. CASE client[s] # None
  BY <1>1 DEF TokenInv, TokensOK, KnownIssued, ExpiriesHonest, RepliesUnheard, ClientOf
<1>2. CASE client[s] = None /\ ~ env.access /\ file # None
  BY <1>2 DEF TokenInv, TokensOK, KnownIssued, ExpiriesHonest, RepliesUnheard, ClientOf, Boot
<1>3. CASE client[s] = None /\ ~ (~ env.access /\ file # None)
  <2> DEFINE b == [access  |-> IF env.access THEN EnvGrant ELSE None,
                   refresh |-> IF env.refresh THEN EnvGrant ELSE None,
                   left    |-> None]
  <2>1. ClientOf(s) = b
    BY <1>3 DEF ClientOf, Boot
  <2>2. b \in Stored
    BY DEF Stored, Tokens
  <2>3. Issued(b.refresh)
    BY DEF Issued, TokenInv, TokensOK, EnvGrant
  <2>4. HonestExpiry(b, MaxLatency)
    BY DEF HonestExpiry, Honest
  <2>5. rotates => \A c \in InFlight : b.refresh # call[c].grant.refresh
    <3> SUFFICES ASSUME rotates, NEW c \in InFlight PROVE b.refresh # call[c].grant.refresh
      OBVIOUS
    <3>1. call[c].grant.refresh >= 2
      BY DEF TokenInv, RepliesUnheard
    <3>2. call[c].grant.refresh \in Nat
      BY GrantNumber
    <3>3. b.refresh \in {EnvGrant, None}
      OBVIOUS
    <3> HIDE DEF b
    <3> QED
      BY <3>1, <3>2, <3>3 DEF EnvGrant
  <2> HIDE DEF b
  <2> QED
    BY <2>1, <2>2, <2>3, <2>4, <2>5
<1> QED
  BY <1>1, <1>2, <1>3

(* A request that goes out, or does not: StartCall and Locked.             *)
LEMMA RequestStep ==
  ASSUME TokenInv, NEW c \in Calls, NEW s \in Servers, s = Home[c], NEW k \in Stored, NEW r \in Call,
         Issued(k.refresh),
         HonestExpiry(k, MaxLatency),
         rotates => \A d \in InFlight : k.refresh # call[d].grant.refresh,
         call[c].stage # "granted",
         r.stage # "granted",
         r.stage = "refreshing" => r.sent = k.refresh,
         client' = [client EXCEPT ![s] = k],
         call' = [call EXCEPT ![c] = r],
         UNCHANGED <<env, file, pinterest, orphaned>>,
         rejected' \in [Servers -> BOOLEAN]
  PROVE  TokenInv'
<1> USE DEF pinterest
<1>1. /\ \A d \in Calls : call'[d] = IF d = c THEN r ELSE call[d]
      /\ \A t \in Servers : client'[t] = IF t = s THEN k ELSE client[t]
  BY DEF TokenInv, TokensOK
<1>2. InFlight' = InFlight /\ \A d \in InFlight : call'[d] = call[d]
  BY <1>1 DEF InFlight
<1>3. TokensOK'
  BY DEF TokenInv, TokensOK
<1>4. KnownIssued'
  BY <1>1 DEF TokenInv, KnownIssued, Issued
<1>5. ExpiriesHonest'
  BY <1>1 DEF TokenInv, ExpiriesHonest, HonestExpiry, Honest
<1>6. RepliesGood'
  BY <1>2 DEF TokenInv, RepliesGood, HonestExpiry, Honest
<1>7. RepliesUnheard'
  <2> SUFFICES ASSUME rotates, NEW d \in InFlight
               PROVE  LET new == call[d].grant.refresh IN
                      /\ new >= 2
                      /\ \A e \in Calls : call'[e].stage \in {"refreshing", "granted"} => call'[e].sent # new
                      /\ \A e \in InFlight : e # d => call[e].grant.refresh # new
                      /\ \A t \in Servers : client'[t] # None => client'[t].refresh # new
                      /\ file # None => file.refresh # new
    BY <1>2 DEF RepliesUnheard
  <2> DEFINE new == call[d].grant.refresh
  <2>1. /\ new >= 2
        /\ \A e \in Calls : call[e].stage \in {"refreshing", "granted"} => call[e].sent # new
        /\ \A e \in InFlight : e # d => call[e].grant.refresh # new
        /\ \A t \in Servers : client[t] # None => client[t].refresh # new
        /\ file # None => file.refresh # new
    BY DEF TokenInv, RepliesUnheard
  <2>2. k.refresh # new
    OBVIOUS
  <2> HIDE DEF new
  <2>3. \A e \in Calls : call'[e].stage \in {"refreshing", "granted"} => call'[e].sent # new
    BY <1>1, <2>1, <2>2
  <2>4. \A t \in Servers : client'[t] # None => client'[t].refresh # new
    BY <1>1, <2>1, <2>2
  <2> QED
    BY <2>1, <2>3, <2>4 DEF new
<1>8. StartCovered'
  BY <1>2 DEF TokenInv, StartCovered, Covered
<1>9. CallsServed'
  <2>1. k # None
    OBVIOUS
  <2> QED
    BY <1>1, <2>1 DEF TokenInv, CallsServed
<1> QED
  BY <1>3, <1>4, <1>5, <1>6, <1>7, <1>8, <1>9 DEF TokenInv

(* What StartCall and Locked leave in the record of the call.              *)
LEMMA RequestRecord ==
  ASSUME NEW k \in Stored
  PROVE  /\ Out("using", k.access) \in Call
         /\ Out("refreshing", k.refresh) \in Call
  BY DEF Out, Call, Stored

LEMMA StartCallStep ==
  ASSUME TokenInv, NEW c \in Calls, StartCall(c)
  PROVE  TokenInv'
<1> DEFINE s == Home[c]
           k == ClientOf(s)
<1>1. s \in Servers
  OBVIOUS
<1>2. /\ k \in Stored
      /\ Issued(k.refresh)
      /\ HonestExpiry(k, MaxLatency)
      /\ rotates => \A d \in InFlight : k.refresh # call[d].grant.refresh
  BY <1>1, ClientFacts
<1>3. /\ client' = [client EXCEPT ![s] = k]
      /\ call[c].stage = "idle"
      /\ UNCHANGED <<env, file, pinterest, orphaned>>
      /\ rejected' \in [Servers -> BOOLEAN]
  BY DEF StartCall, history, TokenInv, TokensOK
<1>4. \E r \in Call :
        /\ call' = [call EXCEPT ![c] = r]
        /\ r.stage # "granted"
        /\ r.stage = "refreshing" => r.sent = k.refresh
  <2>1. call[c] \in Call /\ call \in [Calls -> Call]
    BY DEF TokenInv, TokensOK
  <2>2. CASE Using(c, k.access)
    BY <1>2, <2>2, RequestRecord DEF Using, Out
  <2>3. CASE Refreshing(c, k.refresh)
    BY <1>2, <2>3, RequestRecord DEF Refreshing, Out
  <2>4. CASE call' = [call EXCEPT ![c].stage = "waiting"]
    <3>1. [call[c] EXCEPT !.stage = "waiting"] \in Call
      BY <2>1 DEF Call
    <3>2. [call[c] EXCEPT !.stage = "waiting"].stage = "waiting"
      BY <2>1 DEF Call
    <3>3. call' = [call EXCEPT ![c] = [call[c] EXCEPT !.stage = "waiting"]]
      BY <2>4
    <3> QED
      BY <3>1, <3>2, <3>3
  <2>5. CASE call' = call
    BY <1>3, <2>1, <2>5
  <2> QED
    BY <2>2, <2>3, <2>4, <2>5 DEF StartCall
<1> HIDE DEF s, k
<1>5. PICK r \in Call :
        /\ call' = [call EXCEPT ![c] = r]
        /\ r.stage # "granted"
        /\ r.stage = "refreshing" => r.sent = k.refresh
  BY <1>4
<1> QED
  BY <1>1, <1>2, <1>3, <1>5, RequestStep DEF s

(* Nothing is lost when a waiter's turn comes.                             *)
LEMMA LockedStep ==
  ASSUME TokenInv, NEW c \in Calls, Locked(c)
  PROVE  TokenInv'
<1> DEFINE s == Home[c]
           k == client[s]
<1>1. s \in Servers
  OBVIOUS
<1>2. /\ k \in Stored
      /\ Issued(k.refresh)
      /\ HonestExpiry(k, MaxLatency)
      /\ rotates => \A d \in InFlight : k.refresh # call[d].grant.refresh
  <2>1. k # None
    BY DEF Locked, TokenInv, CallsServed
  <2> QED
    BY <1>1, <2>1, ClientFacts DEF ClientOf
<1>3. /\ client' = [client EXCEPT ![s] = k]
      /\ call[c].stage = "waiting"
      /\ UNCHANGED <<env, file, pinterest, orphaned>>
      /\ rejected' \in [Servers -> BOOLEAN]
  BY DEF Locked, history, TokenInv, TokensOK
<1>4. \E r \in Call :
        /\ call' = [call EXCEPT ![c] = r]
        /\ r.stage # "granted"
        /\ r.stage = "refreshing" => r.sent = k.refresh
  <2>1. CASE Using(c, k.access)
    BY <1>2, <2>1, RequestRecord DEF Using, Out
  <2>2. CASE Refreshing(c, k.refresh)
    BY <1>2, <2>2, RequestRecord DEF Refreshing, Out
  <2> QED
    BY <2>1, <2>2 DEF Locked
<1> HIDE DEF s, k
<1>5. PICK r \in Call :
        /\ call' = [call EXCEPT ![c] = r]
        /\ r.stage # "granted"
        /\ r.stage = "refreshing" => r.sent = k.refresh
  BY <1>4
<1> QED
  BY <1>1, <1>2, <1>3, <1>5, RequestStep DEF s

-----------------------------------------------------------------------------
(* Pinterest's grant: its number is new to everybody, and the token it     *)
(* spends is covered by the reply.                                         *)
LEMMA GrantStep ==
  ASSUME TokenInv, NEW c \in Calls, Grant(c)
  PROVE  TokenInv'
<1> PICK e \in Lifetimes :
      /\ life' = [life EXCEPT ![issued] = e]
      /\ valid' = IF rotates THEN (valid \ {call[c].sent}) \cup {issued} ELSE valid
      /\ call' = [call EXCEPT ![c] =
              [@ EXCEPT !.stage = "granted",
                        !.grant = [access  |-> issued,
                                   refresh |-> IF rotates THEN issued ELSE call[c].sent,
                                   left    |-> e]]]
  BY DEF Grant
<1> DEFINE g == [access |-> issued, refresh |-> IF rotates THEN issued ELSE call[c].sent, left |-> e]
<1>1. /\ call[c].stage = "refreshing" /\ call[c].sent \in valid
      /\ issued <= MaxGrants /\ issued' = issued + 1
      /\ UNCHANGED <<env, client, file, rotates, orphaned, rejected>>
  BY DEF Grant, history
<1>2. issued \in Grants /\ issued \in Nat /\ issued >= 2 /\ e \in Lefts /\ e \in Nat
  BY <1>1 DEF TokenInv, TokensOK, Grants, Lefts
<1>3. call[c] \in Call /\ call[c].sent \in Grants
  BY <1>1 DEF TokenInv, TokensOK
<1>4. g \in Stored
  BY <1>2, <1>3 DEF Stored, Tokens
<1>5. /\ \A d \in Calls : d # c => call'[d] = call[d]
      /\ call'[c].stage = "granted" /\ call'[c].grant = g
      /\ call'[c].sent = call[c].sent /\ call'[c].age = call[c].age
      /\ call'[c] \in Call
  <2>1. call' = [call EXCEPT ![c] = [call[c] EXCEPT !.stage = "granted", !.grant = g]]
    OBVIOUS
  <2>2. [call[c] EXCEPT !.stage = "granted", !.grant = g] \in Call
    BY <1>3, <1>4 DEF Call
  <2> QED
    BY <1>3, <2>1, <2>2 DEF TokenInv, TokensOK, Call
<1>6. InFlight' = InFlight \cup {c} /\ c \notin InFlight
  BY <1>1, <1>5 DEF InFlight
<1>7. /\ \A n \in Grants : n # issued => life'[n] = life[n]
      /\ life'[issued] = e /\ life' \in [Grants -> Lefts]
  BY <1>2 DEF TokenInv, TokensOK
<1>8. TokensOK'
  <2>1. call' \in [Calls -> Call]
    BY <1>5 DEF TokenInv, TokensOK
  <2>2. valid' \subseteq Grants /\ issued' \in 2 .. MaxGrants + 1
    BY <1>1, <1>2 DEF TokenInv, TokensOK
  <2> QED
    BY <1>1, <1>7, <2>1, <2>2 DEF TokenInv, TokensOK
<1>9. CallsServed'
  BY <1>1, <1>5 DEF TokenInv, CallsServed
<1>10. \A t \in Tokens : Issued(t) => Issued(t)' /\ t # issued
  BY <1>1, <1>2 DEF Issued, Tokens, Grants
<1>11. KnownIssued'
  <2>1. /\ \A s \in Servers : client[s] # None => client[s].refresh \in Tokens
        /\ file # None => file.refresh \in Tokens
        /\ \A d \in Calls : call[d].sent \in Tokens
    BY DEF TokenInv, TokensOK, Stored, Call
  <2> QED
    BY <1>1, <1>5, <1>10, <2>1 DEF TokenInv, KnownIssued
<1>12. ASSUME NEW k, NEW delay, Honest(k, delay, life, issued) PROVE Honest(k, delay, life', issued')
  BY <1>1, <1>2, <1>7, <1>12 DEF Honest, Grants
<1>13. ExpiriesHonest'
  BY <1>1, <1>12 DEF TokenInv, ExpiriesHonest, HonestExpiry
<1>14. RepliesGood'
  <2>1. ASSUME NEW d \in InFlight
        PROVE  /\ call'[d].grant.refresh \in valid'
               /\ call'[d].grant.refresh < issued'
    <3>1. call'[d] = call[d]
      BY <1>5, <1>6 DEF InFlight
    <3>2. call[d].grant.refresh \in valid /\ call[d].grant.refresh < issued /\ call[d].grant.refresh \in Nat
      BY GrantNumber DEF TokenInv, RepliesGood
    <3>3. rotates => call[d].grant.refresh # call[c].sent
      BY <1>1 DEF TokenInv, RepliesUnheard
    <3>4. \A n \in valid : (rotates => n # call[c].sent) => n \in valid'
      BY <1>1
    <3>5. \A n \in Nat : n < issued => n < issued'
      BY <1>1, <1>2
    <3> QED
      BY <3>1, <3>2, <3>3, <3>4, <3>5
  <2>2. /\ g.refresh \in valid' /\ g.refresh < issued' /\ g.left \in Nat /\ g.left > MaxLatency
    <3>1. call[c].sent < issued
      BY <1>1, <1>3 DEF TokenInv, KnownIssued, Issued, Grants
    <3>2. g.refresh \in valid'
      BY <1>1
    <3>3. g.refresh \in Nat /\ g.refresh <= issued
      BY <1>2, <1>3, <3>1 DEF Grants
    <3>4. g.left = e
      OBVIOUS
    <3> HIDE DEF g
    <3> QED
      BY <1>1, <1>2, <3>2, <3>3, <3>4
  <2>3. Honest(g, call'[c].age, life', issued')
    <3>1. call'[c].age \in Nat
      <4>1. call'[c].age \in 0 .. MaxLatency
        BY <1>5 DEF Call
      <4> QED
        BY <4>1
    <3>2. g.access = issued /\ g.left = e
      OBVIOUS
    <3> HIDE DEF g
    <3> QED
      BY <1>1, <1>2, <1>7, <3>1, <3>2 DEF Honest
  <2>4. ASSUME NEW d \in InFlight
        PROVE  /\ call'[d].grant \in Stored /\ call'[d].grant.left \in Nat
               /\ call'[d].grant.left > MaxLatency
               /\ Honest(call'[d].grant, call'[d].age, life', issued')
    <3>1. call'[d] = call[d]
      BY <1>5, <1>6 DEF InFlight
    <3> QED
      BY <1>12, <3>1 DEF TokenInv, RepliesGood, HonestExpiry
  <2> HIDE DEF g
  <2> QED
    BY <1>4, <1>5, <1>6, <2>1, <2>2, <2>3, <2>4 DEF RepliesGood, HonestExpiry
<1>15. RepliesUnheard'
  <2> SUFFICES ASSUME rotates PROVE RepliesUnheard'
    BY <1>1 DEF RepliesUnheard
  <2>1. g.refresh = issued
    OBVIOUS
  <2>2. /\ \A d \in Calls : call[d].stage \in {"refreshing", "granted"} => call[d].sent # issued
        /\ \A s \in Servers : client[s] # None => client[s].refresh # issued
        /\ file # None => file.refresh # issued
        /\ \A d \in InFlight : call[d].grant.refresh # issued
    <3>1. /\ \A s \in Servers : client[s] # None => client[s].refresh \in Tokens
          /\ file # None => file.refresh \in Tokens
          /\ \A d \in Calls : call[d].sent \in Tokens
      BY DEF TokenInv, TokensOK, Stored, Call
    <3>2. \A d \in InFlight : call[d].grant.refresh # issued
      BY <1>2, GrantNumber DEF TokenInv, RepliesGood
    <3> QED
      BY <1>10, <3>1, <3>2 DEF TokenInv, KnownIssued
  <2>3. \A d \in Calls : call'[d].stage \in {"refreshing", "granted"} =>
          call[d].stage \in {"refreshing", "granted"} /\ call'[d].sent = call[d].sent
    BY <1>1, <1>5
  <2>4. \A d \in InFlight : call'[d] = call[d]
    BY <1>5, <1>6 DEF InFlight
  <2>5. ASSUME NEW d \in InFlight
        PROVE  LET new == call'[d].grant.refresh IN
               /\ new >= 2
               /\ \A f \in Calls : call'[f].stage \in {"refreshing", "granted"} => call'[f].sent # new
               /\ \A f \in InFlight' : f # d => call'[f].grant.refresh # new
               /\ \A s \in Servers : client'[s] # None => client'[s].refresh # new
               /\ file' # None => file'.refresh # new
    <3> DEFINE new == call[d].grant.refresh
    <3>1. /\ new >= 2
          /\ \A f \in Calls : call[f].stage \in {"refreshing", "granted"} => call[f].sent # new
          /\ \A f \in InFlight : f # d => call[f].grant.refresh # new
          /\ \A s \in Servers : client[s] # None => client[s].refresh # new
          /\ file # None => file.refresh # new
      BY DEF TokenInv, RepliesUnheard
    <3>2. new # issued
      BY <2>2
    <3>3. call'[d].grant.refresh = new
      BY <2>4
    <3> HIDE DEF new
    <3>4. \A f \in InFlight' : f # d => call'[f].grant.refresh # new
      BY <1>5, <1>6, <2>1, <2>4, <3>1, <3>2
    <3> QED
      BY <1>1, <2>3, <3>1, <3>3, <3>4
  <2>6. LET new == call'[c].grant.refresh IN
        /\ new >= 2
        /\ \A f \in Calls : call'[f].stage \in {"refreshing", "granted"} => call'[f].sent # new
        /\ \A f \in InFlight' : f # c => call'[f].grant.refresh # new
        /\ \A s \in Servers : client'[s] # None => client'[s].refresh # new
        /\ file' # None => file'.refresh # new
    <3>1. call'[c].grant.refresh = issued
      BY <1>5, <2>1
    <3> HIDE DEF g
    <3>2. \A f \in InFlight' : f # c => call'[f].grant.refresh # issued
      BY <1>6, <2>2, <2>4
    <3> QED
      BY <1>1, <1>2, <2>2, <2>3, <3>1, <3>2
  <2> QED
    BY <1>6, <2>5, <2>6 DEF RepliesUnheard
<1>16. StartCovered'
  <2>1. ASSUME NEW t, Covered(t) PROVE Covered(t)'
    <3>1. \A d \in InFlight : call'[d].sent = call[d].sent
      BY <1>5, <1>6 DEF InFlight
    <3>2. t \in valid => t \in valid' \/ t = call[c].sent
      OBVIOUS
    <3> QED
      BY <1>1, <1>5, <1>6, <2>1, <3>1, <3>2 DEF Covered
  <2> QED
    BY <1>1, <2>1 DEF TokenInv, StartCovered
<1> QED
  BY <1>8, <1>9, <1>11, <1>13, <1>14, <1>15, <1>16 DEF TokenInv

(* Calls that end: what they had in flight becomes an orphan.              *)
LEMMA EndedStep ==
  ASSUME TokenInv, NEW E \in SUBSET Calls,
         call' = [d \in Calls |-> IF d \in E THEN Idle ELSE call[d]],
         orphaned' = orphaned \cup {call[d].sent : d \in E \cap InFlight},
         client' \in [Servers -> Stored \cup {None}],
         \A s \in Servers : \/ client'[s] = client[s]
                            \/ client'[s] = None /\ \A d \in Calls : Home[d] = s => d \in E,
         rejected' \in [Servers -> BOOLEAN],
         UNCHANGED <<env, file, pinterest>>
  PROVE  TokenInv'
<1> USE DEF pinterest
<1>1. Idle \in Call /\ Idle.stage = "idle"
  BY DEF Idle, Out, Call, Tokens
<1>2. /\ \A d \in Calls : d \notin E => call'[d] = call[d]
      /\ \A d \in E : call'[d].stage = "idle"
      /\ InFlight' = InFlight \ E
      /\ InFlight \subseteq Calls
  BY <1>1 DEF InFlight
<1>3. TokensOK'
  <2>1. call' \in [Calls -> Call]
    BY <1>1 DEF TokenInv, TokensOK
  <2>2. \A d \in E : call[d].sent \in Tokens
    BY DEF TokenInv, TokensOK, Call
  <2>3. orphaned' \subseteq Tokens
    BY <2>2 DEF TokenInv, TokensOK
  <2> QED
    BY <2>1, <2>3 DEF TokenInv, TokensOK
<1>4. CallsServed'
  BY <1>2 DEF TokenInv, CallsServed
<1>5. KnownIssued'
  <2>1. \A d \in Calls : call'[d].stage \in {"refreshing", "granted"} => call'[d] = call[d]
    BY <1>2
  <2> QED
    BY <2>1 DEF TokenInv, KnownIssued, Issued
<1>6. ExpiriesHonest'
  BY DEF TokenInv, ExpiriesHonest, HonestExpiry, Honest
<1>7. RepliesGood'
  BY <1>2 DEF TokenInv, RepliesGood, HonestExpiry, Honest
<1>8. RepliesUnheard'
  <2> SUFFICES ASSUME rotates, NEW c \in InFlight, c \notin E
               PROVE  LET new == call'[c].grant.refresh IN
                      /\ new >= 2
                      /\ \A d \in Calls : call'[d].stage \in {"refreshing", "granted"} => call'[d].sent # new
                      /\ \A d \in InFlight' : d # c => call'[d].grant.refresh # new
                      /\ \A s \in Servers : client'[s] # None => client'[s].refresh # new
                      /\ file # None => file.refresh # new
    BY <1>2 DEF RepliesUnheard
  <2> DEFINE new == call[c].grant.refresh
  <2>1. /\ new >= 2
        /\ \A d \in Calls : call[d].stage \in {"refreshing", "granted"} => call[d].sent # new
        /\ \A d \in InFlight : d # c => call[d].grant.refresh # new
        /\ \A s \in Servers : client[s] # None => client[s].refresh # new
        /\ file # None => file.refresh # new
    BY DEF TokenInv, RepliesUnheard
  <2>2. call'[c].grant.refresh = new
    BY <1>2
  <2> HIDE DEF new
  <2>3. \A d \in Calls : call'[d].stage \in {"refreshing", "granted"} => call'[d].sent # new
    BY <1>2, <2>1
  <2>4. \A d \in InFlight' : d # c => call'[d].grant.refresh # new
    BY <1>2, <2>1
  <2> QED
    BY <2>1, <2>2, <2>3, <2>4
<1>9. StartCovered'
  <2>1. ASSUME NEW t, Covered(t) PROVE Covered(t)'
    BY <1>2, <2>1 DEF Covered
  <2> QED
    BY <2>1 DEF TokenInv, StartCovered
<1> QED
  BY <1>3, <1>4, <1>5, <1>6, <1>7, <1>8, <1>9 DEF TokenInv

LEMMA EndCallStep ==
  ASSUME TokenInv, NEW c \in Calls, EndCall(c)
  PROVE  TokenInv'
<1> DEFINE E == {c}
<1>1. call' = [d \in Calls |-> IF d \in E THEN Idle ELSE call[d]]
  BY DEF EndCall, TokenInv, TokensOK
<1>2. orphaned' = orphaned \cup {call[d].sent : d \in E \cap InFlight}
  BY DEF EndCall, InFlight
<1>3. /\ client' = client /\ client' \in [Servers -> Stored \cup {None}]
      /\ rejected' \in [Servers -> BOOLEAN]
      /\ UNCHANGED <<env, file, pinterest>>
  BY DEF EndCall, TokenInv, TokensOK
<1>4. \A s \in Servers : \/ client'[s] = client[s]
                         \/ client'[s] = None /\ \A d \in Calls : Home[d] = s => d \in E
  BY <1>3
<1>5. E \in SUBSET Calls
  OBVIOUS
<1> HIDE DEF E
<1> QED
  BY <1>1, <1>2, <1>3, <1>4, <1>5, EndedStep

LEMMA AnswerStep ==
  ASSUME TokenInv, NEW c \in Calls, Answer(c)
  PROVE  TokenInv'
<1> DEFINE E == {c}
<1>1. call' = [d \in Calls |-> IF d \in E THEN Idle ELSE call[d]]
  BY DEF Answer, TokenInv, TokensOK
<1>2. orphaned' = orphaned \cup {call[d].sent : d \in E \cap InFlight}
  BY DEF Answer, InFlight
<1>3. /\ client' = client /\ client' \in [Servers -> Stored \cup {None}]
      /\ rejected' \in [Servers -> BOOLEAN]
      /\ UNCHANGED <<env, file, pinterest>>
  BY DEF Answer, TokenInv, TokensOK
<1>4. \A s \in Servers : \/ client'[s] = client[s]
                         \/ client'[s] = None /\ \A d \in Calls : Home[d] = s => d \in E
  BY <1>3
<1>5. E \in SUBSET Calls
  OBVIOUS
<1> HIDE DEF E
<1> QED
  BY <1>1, <1>2, <1>3, <1>4, <1>5, EndedStep

LEMMA StopStep ==
  ASSUME TokenInv, NEW s \in Servers, Stop(s)
  PROVE  TokenInv'
<1> DEFINE E == {c \in Calls : Home[c] = s}
<1>1. call' = [d \in Calls |-> IF d \in E THEN Idle ELSE call[d]]
  BY DEF Stop
<1>2. orphaned' = orphaned \cup {call[d].sent : d \in E \cap InFlight}
  <2>1. {d \in E : call[d].stage = "granted"} = E \cap InFlight
    BY DEF InFlight
  <2> QED
    BY <2>1 DEF Stop
<1>3. /\ client' \in [Servers -> Stored \cup {None}]
      /\ \A t \in Servers : \/ client'[t] = client[t]
                            \/ client'[t] = None /\ \A d \in Calls : Home[d] = t => d \in E
      /\ rejected' \in [Servers -> BOOLEAN]
      /\ UNCHANGED <<env, file, pinterest>>
  BY DEF Stop, TokenInv, TokensOK
<1> QED
  BY <1>1, <1>2, <1>3, EndedStep

-----------------------------------------------------------------------------
(* The reply reaches memory, and the file unless the save fails.           *)
LEMMA StoreGrantStep ==
  ASSUME TokenInv, NEW c \in Calls, StoreGrant(c)
  PROVE  TokenInv'
<1> DEFINE s == Home[c]
           k == call[c].grant
<1>1. /\ c \in InFlight /\ s \in Servers
      /\ client' = [client EXCEPT ![s] = k]
      /\ file' = k \/ file' = file
      /\ UNCHANGED <<env, life, valid, issued, rotates>>
      /\ rejected' \in [Servers -> BOOLEAN]
  BY DEF StoreGrant, InFlight, pinterest, TokenInv, TokensOK
<1>2. /\ k \in Stored /\ k # None /\ k.refresh \in valid /\ k.refresh < issued
      /\ Honest(k, MaxLatency, life, issued)
  <2>1. /\ k \in Stored /\ k.refresh \in valid /\ k.refresh < issued
        /\ k.left \in Nat /\ Honest(k, call[c].age, life, issued)
    BY <1>1 DEF TokenInv, RepliesGood, HonestExpiry
  <2>2. call[c].age \in 0 .. MaxLatency
    BY DEF TokenInv, TokensOK, Call
  <2>3. ASSUME NEW n \in Grants PROVE life[n] \in Nat
    BY DEF TokenInv, TokensOK, Lefts
  <2> HIDE DEF k
  <2>4. Honest(k, MaxLatency, life, issued)
    BY <2>1, <2>2, <2>3 DEF Honest
  <2> QED
    BY <2>1, <2>4
<1>3. \E r \in Call : call' = [call EXCEPT ![c] = r] /\ r.stage \notin {"refreshing", "granted"}
  <2>1. Idle \in Call /\ Idle.stage = "idle"
    BY DEF Idle, Out, Call, Tokens
  <2>2. Out("using", k.access) \in Call /\ Out("using", k.access).stage = "using"
    BY <1>2 DEF Out, Call, Stored
  <2> QED
    BY <2>1, <2>2 DEF StoreGrant, Using
<1>4. /\ orphaned' = orphaned \/ orphaned' = orphaned \cup {call[c].sent}
      /\ file' = k \/ call[c].sent \in orphaned'
  BY DEF StoreGrant
<1>5. rotates =>
        /\ \A d \in InFlight : d # c => call[d].grant.refresh # k.refresh
  BY <1>1 DEF TokenInv, RepliesUnheard
<1> HIDE DEF s, k
<1>6. PICK r \in Call : call' = [call EXCEPT ![c] = r] /\ r.stage \notin {"refreshing", "granted"}
  BY <1>3
<1>7. /\ \A d \in Calls : d # c => call'[d] = call[d]
      /\ call'[c] = r
      /\ InFlight' = InFlight \ {c}
      /\ \A t \in Servers : client'[t] = IF t = s THEN k ELSE client[t]
  BY <1>1, <1>6 DEF InFlight, TokenInv, TokensOK
<1>8. TokensOK'
  <2>1. call[c].sent \in Tokens
    BY DEF TokenInv, TokensOK, Call
  <2> QED
    BY <1>1, <1>2, <1>4, <1>6, <2>1 DEF TokenInv, TokensOK
<1>9. CallsServed'
  BY <1>1, <1>2, <1>7 DEF TokenInv, CallsServed, s
<1>10. KnownIssued'
  BY <1>1, <1>2, <1>6, <1>7 DEF TokenInv, KnownIssued, Issued
<1>11. ExpiriesHonest'
  BY <1>1, <1>2, <1>7 DEF TokenInv, ExpiriesHonest, HonestExpiry, Honest
<1>12. RepliesGood'
  BY <1>1, <1>7 DEF TokenInv, RepliesGood, HonestExpiry, Honest, InFlight
<1>13. RepliesUnheard'
  <2> SUFFICES ASSUME rotates, NEW d \in InFlight, d # c
               PROVE  LET new == call'[d].grant.refresh IN
                      /\ new >= 2
                      /\ \A f \in Calls : call'[f].stage \in {"refreshing", "granted"} => call'[f].sent # new
                      /\ \A f \in InFlight' : f # d => call'[f].grant.refresh # new
                      /\ \A t \in Servers : client'[t] # None => client'[t].refresh # new
                      /\ file' # None => file'.refresh # new
    BY <1>1, <1>7 DEF RepliesUnheard
  <2> DEFINE new == call[d].grant.refresh
  <2>1. /\ new >= 2
        /\ \A f \in Calls : call[f].stage \in {"refreshing", "granted"} => call[f].sent # new
        /\ \A f \in InFlight : f # d => call[f].grant.refresh # new
        /\ \A t \in Servers : client[t] # None => client[t].refresh # new
        /\ file # None => file.refresh # new
    BY DEF TokenInv, RepliesUnheard
  <2>2. call'[d].grant.refresh = new /\ k.refresh # new
    BY <1>5, <1>7 DEF InFlight
  <2> HIDE DEF new
  <2>3. \A f \in Calls : call'[f].stage \in {"refreshing", "granted"} => call'[f].sent # new
    BY <1>6, <1>7, <2>1
  <2>4. \A f \in InFlight' : f # d => call'[f].grant.refresh # new
    BY <1>7, <2>1 DEF InFlight
  <2>5. \A t \in Servers : client'[t] # None => client'[t].refresh # new
    BY <1>7, <2>1, <2>2
  <2> QED
    BY <1>1, <2>1, <2>2, <2>3, <2>4, <2>5
<1>14. StartCovered'
  <2>1. CASE file' = k
    BY <1>1, <1>2, <2>1 DEF StartCovered, Covered
  <2>2. CASE file' = file /\ call[c].sent \in orphaned'
    <3>1. ASSUME NEW t, Covered(t) PROVE Covered(t)'
      BY <1>1, <1>4, <1>7, <2>2, <3>1 DEF Covered, InFlight
    <3> QED
      BY <1>1, <2>2, <3>1 DEF TokenInv, StartCovered
  <2> QED
    BY <1>1, <1>4, <2>1, <2>2
<1> QED
  BY <1>8, <1>9, <1>10, <1>11, <1>12, <1>13, <1>14 DEF TokenInv

(* A new authorisation is unknown to every server.                         *)
LEMMA AuthorizeStep ==
  ASSUME TokenInv, Authorize
  PROVE  TokenInv'
<1> PICK e \in Lifetimes :
      /\ life' = [life EXCEPT ![issued] = e]
      /\ file' = [access |-> issued, refresh |-> issued, left |-> e]
  BY DEF Authorize
<1>1. /\ issued <= MaxGrants /\ issued' = issued + 1 /\ valid' = valid \cup {issued}
      /\ UNCHANGED <<env, client, call, rotates, orphaned, rejected>>
  BY DEF Authorize, history
<1>2. issued \in Grants /\ issued \in Nat /\ issued >= 2 /\ e \in Lefts /\ e \in Nat
  BY <1>1 DEF TokenInv, TokensOK, Grants, Lefts
<1>3. /\ file' \in Stored /\ file' # None
      /\ file'.access = issued /\ file'.refresh = issued /\ file'.left = e
  BY <1>2 DEF Stored, Tokens
<1>4. /\ \A n \in Grants : n # issued => life'[n] = life[n]
      /\ life'[issued] = e /\ life' \in [Grants -> Lefts]
  BY <1>2 DEF TokenInv, TokensOK
<1>5. TokensOK'
  <2>1. valid' \subseteq Grants /\ issued' \in 2 .. MaxGrants + 1
    BY <1>1, <1>2 DEF TokenInv, TokensOK
  <2> QED
    BY <1>1, <1>3, <1>4, <2>1 DEF TokenInv, TokensOK
<1>6. CallsServed'
  BY <1>1 DEF TokenInv, CallsServed
<1>7. \A t \in Tokens : Issued(t) => Issued(t)'
  BY <1>1, <1>2 DEF Issued, Tokens, Grants
<1>8. KnownIssued'
  <2>1. /\ \A s \in Servers : client[s] # None => client[s].refresh \in Tokens
        /\ \A d \in Calls : call[d].sent \in Tokens
    BY DEF TokenInv, TokensOK, Stored, Call
  <2>2. file'.refresh < issued'
    BY <1>1, <1>2, <1>3
  <2> QED
    BY <1>1, <1>3, <1>7, <2>1, <2>2 DEF TokenInv, KnownIssued, Issued
<1>9. ASSUME NEW k, NEW delay, Honest(k, delay, life, issued) PROVE Honest(k, delay, life', issued')
  BY <1>1, <1>2, <1>4, <1>9 DEF Honest, Grants
<1>10. ExpiriesHonest'
  <2>1. Honest(file', MaxLatency, life', issued')
    BY <1>1, <1>2, <1>3, <1>4 DEF Honest
  <2> QED
    BY <1>1, <1>9, <2>1 DEF TokenInv, ExpiriesHonest, HonestExpiry
<1>11. InFlight' = InFlight
  BY <1>1 DEF InFlight
<1>12. \A d \in InFlight : call[d].grant.refresh \in Nat /\ call[d].grant.refresh < issued
  BY GrantNumber DEF TokenInv, RepliesGood
<1>13. RepliesGood'
  <2>1. \A n \in Nat : n < issued => n < issued'
    BY <1>1, <1>2
  <2> QED
    BY <1>1, <1>9, <1>11, <1>12, <2>1 DEF TokenInv, RepliesGood, HonestExpiry
<1>14. RepliesUnheard'
  <2>1. \A d \in InFlight : file'.refresh # call[d].grant.refresh
    BY <1>2, <1>3, <1>12
  <2> QED
    BY <1>1, <1>11, <2>1 DEF TokenInv, RepliesUnheard
<1>15. StartCovered'
  BY <1>1, <1>3 DEF StartCovered, Covered
<1> QED
  BY <1>5, <1>6, <1>8, <1>10, <1>13, <1>14, <1>15 DEF TokenInv

(* Time takes as much from an expiry as from the token itself.             *)
LEMMA TickStep ==
  ASSUME TokenInv, Tick
  PROVE  TokenInv'
<1>1. /\ \A c \in Calls : call[c].age < MaxLatency
      /\ life' = [n \in Grants |-> Less(life[n])]
      /\ client' = [s \in Servers |-> Aged(client[s])]
      /\ file' = Aged(file)
      /\ call' = [c \in Calls |->
                    IF call[c].stage = "granted" THEN [call[c] EXCEPT !.age = @ + 1] ELSE call[c]]
      /\ UNCHANGED <<env, valid, issued, rotates, orphaned, rejected>>
  BY DEF Tick, history
<1>2. ASSUME NEW n \in Lefts
      PROVE  Less(n) \in Lefts /\ Less(n) \in Nat /\ Less(n) = IF n = 0 THEN 0 ELSE n - 1
  BY DEF Less, Lefts
<1>3. ASSUME NEW k \in Stored
      PROVE  /\ Aged(k) \in Stored /\ Aged(k) # None
             /\ Aged(k).access = k.access /\ Aged(k).refresh = k.refresh
             /\ Aged(k).left = Less(k.left)
  <2>1. Less(k.left) \in Lefts \cup {None}
    BY <1>2 DEF Stored, Less
  <2>2. Aged(k) = [k EXCEPT !.left = Less(k.left)]
    BY DEF Aged
  <2>3. Aged(k) \in Stored
    BY <2>1, <2>2 DEF Stored
  <2> QED
    BY <2>2, <2>3 DEF Stored
<1>4. ASSUME NEW k \in Stored, Honest(k, MaxLatency, life, issued)
      PROVE  Honest(Aged(k), MaxLatency, life', issued)
  <2>1. CASE k.left = None
    BY <1>3, <2>1 DEF Honest, Less
  <2>2. CASE k.left # None
    <3>1. /\ k.left \in Lefts /\ k.left \in Nat
          /\ k.access \in Grants /\ k.access < issued /\ k.left <= life[k.access] + MaxLatency
      <4>1. k.left \in Lefts
        BY <2>2 DEF Stored
      <4>2. k.left \in Nat
        BY <4>1 DEF Lefts
      <4> QED
        BY <1>4, <2>2, <4>1, <4>2 DEF Honest
    <3>2. life[k.access] \in Lefts /\ life[k.access] \in Nat
      BY <3>1 DEF TokenInv, TokensOK, Lefts
    <3>3. life'[k.access] = Less(life[k.access])
      BY <1>1, <3>1
    <3>4. Less(k.left) <= Less(life[k.access]) + MaxLatency
      BY <1>2, <3>1, <3>2
    <3> QED
      BY <1>3, <3>1, <3>3, <3>4 DEF Honest
  <2> QED
    BY <2>1, <2>2
<1>5. ASSUME NEW c \in Calls
      PROVE  /\ call'[c] \in Call
             /\ call'[c].stage = call[c].stage /\ call'[c].sent = call[c].sent
             /\ call'[c].grant = call[c].grant
             /\ c \in InFlight => call'[c].age = call[c].age + 1
  <2>1. call[c] \in Call /\ call[c].age \in 0 .. MaxLatency /\ call[c].age + 1 \in 0 .. MaxLatency
    <3>1. call[c] \in Call /\ call[c].age \in 0 .. MaxLatency
      BY DEF TokenInv, TokensOK, Call
    <3> QED
      BY <1>1, <3>1
  <2>2. [call[c] EXCEPT !.age = call[c].age + 1] \in Call
    BY <2>1 DEF Call
  <2>3. call'[c] = IF call[c].stage = "granted" THEN [call[c] EXCEPT !.age = call[c].age + 1] ELSE call[c]
    BY <1>1
  <2> QED
    BY <2>1, <2>2, <2>3 DEF Call, InFlight
<1>6. InFlight' = InFlight
  BY <1>5 DEF InFlight
<1>7. TokensOK'
  <2>1. life' \in [Grants -> Lefts]
    BY <1>1, <1>2 DEF TokenInv, TokensOK
  <2>2. client' \in [Servers -> Stored \cup {None}] /\ file' \in Stored \cup {None}
    BY <1>1, <1>3 DEF TokenInv, TokensOK, Aged
  <2>3. call' \in [Calls -> Call]
    BY <1>1, <1>5
  <2> QED
    BY <1>1, <2>1, <2>2, <2>3 DEF TokenInv, TokensOK
<1>8. /\ \A s \in Servers : IF client[s] = None THEN client'[s] = None
                            ELSE /\ client[s] \in Stored /\ client'[s] # None
                                 /\ client'[s] = Aged(client[s])
                                 /\ client'[s].refresh = client[s].refresh
      /\ IF file = None THEN file' = None
         ELSE file \in Stored /\ file' # None /\ file' = Aged(file) /\ file'.refresh = file.refresh
  BY <1>1, <1>3 DEF TokenInv, TokensOK, Aged
<1>9. CallsServed'
  BY <1>5, <1>8 DEF TokenInv, CallsServed
<1>10. KnownIssued'
  BY <1>1, <1>5, <1>8 DEF TokenInv, KnownIssued, Issued
<1>11. ExpiriesHonest'
  BY <1>1, <1>4, <1>8 DEF TokenInv, ExpiriesHonest, HonestExpiry
<1>12. RepliesGood'
  <2> SUFFICES ASSUME NEW c \in InFlight
               PROVE  /\ call[c].grant \in Stored
                      /\ call[c].grant.refresh \in valid
                      /\ call[c].grant.refresh < issued
                      /\ call[c].grant.left \in Nat
                      /\ call[c].grant.left > MaxLatency
                      /\ Honest(call[c].grant, call[c].age + 1, life', issued)
    BY <1>1, <1>5, <1>6 DEF RepliesGood, HonestExpiry, InFlight
  <2>1. /\ call[c].grant \in Stored
        /\ call[c].grant.refresh \in valid
        /\ call[c].grant.refresh < issued
        /\ call[c].grant.left \in Nat
        /\ call[c].grant.left > MaxLatency
        /\ Honest(call[c].grant, call[c].age, life, issued)
    BY DEF TokenInv, RepliesGood, HonestExpiry
  <2>2. call[c].age \in 0 .. MaxLatency
    BY DEF InFlight, TokenInv, TokensOK, Call
  <2> DEFINE k == call[c].grant
  <2>3. /\ k.left # None /\ k.access \in Grants /\ k.access < issued
        /\ k.left <= life[k.access] + call[c].age
    BY <2>1 DEF Honest
  <2>4. life[k.access] \in Lefts /\ life[k.access] \in Nat /\ life'[k.access] = Less(life[k.access])
    BY <1>1, <2>3 DEF TokenInv, TokensOK, Lefts
  <2>5. life[k.access] <= life'[k.access] + 1
    BY <1>2, <2>4
  <2>6. k.left <= life'[k.access] + (call[c].age + 1)
    <3>1. life'[k.access] \in Nat
      BY <1>2, <2>4
    <3> HIDE DEF k
    <3> QED
      BY <2>1, <2>2, <2>3, <2>4, <2>5, <3>1 DEF k
  <2> QED
    BY <2>1, <2>3, <2>6 DEF Honest
<1>13. RepliesUnheard'
  BY <1>1, <1>5, <1>6, <1>8 DEF TokenInv, RepliesUnheard, InFlight
<1>14. StartCovered'
  <2>1. ASSUME NEW t, Covered(t) PROVE Covered(t)'
    BY <1>1, <1>5, <1>6, <2>1 DEF Covered, InFlight
  <2> QED
    BY <1>1, <1>8, <2>1 DEF TokenInv, StartCovered
<1> QED
  BY <1>7, <1>9, <1>10, <1>11, <1>12, <1>13, <1>14 DEF TokenInv

-----------------------------------------------------------------------------
LEMMA TokenStep == TokenInv /\ [Next]_vars => TokenInv'
<1> SUFFICES ASSUME TokenInv, [Next]_vars PROVE TokenInv'
  OBVIOUS
<1>1. ASSUME NEW c \in Calls, StartCall(c) \/ Step(c) PROVE TokenInv'
  BY <1>1, StartCallStep, LockedStep, GrantStep, StoreGrantStep, EndCallStep, AnswerStep DEF Step
<1>2. ASSUME NEW s \in Servers, Stop(s) PROVE TokenInv'
  BY <1>2, StopStep
<1>3. CASE Authorize
  BY <1>3, AuthorizeStep
<1>4. CASE Tick
  BY <1>4, TickStep
<1>5. CASE UNCHANGED vars
  BY <1>5 DEF vars, TokenInv, TokensOK, CallsServed, KnownIssued, Issued, ExpiriesHonest,
              HonestExpiry, Honest, RepliesGood, RepliesUnheard, InFlight, StartCovered, Covered
<1> QED
  BY <1>1, <1>2, <1>3, <1>4, <1>5 DEF Next

LEMMA TokenInvariance == Spec => []TokenInv
  BY TokenInit, TokenStep, PTL DEF Spec

(* A restarted server starts from a refresh token that Pinterest accepts,  *)
(* unless a reply with its successor is on its way or was never saved:     *)
(* PinterestClient.__init__ against _refresh of every server.              *)
THEOREM RestartTheorem == Spec => []RestartCanRefresh
<1>1. TokenInv => RestartCanRefresh
  <2> SUFFICES ASSUME TokenInv, NEW s \in Servers, Boot(s).refresh # None, ~ env.access
               PROVE  \/ Boot(s).refresh \in valid \cup orphaned
                      \/ \E c \in Calls : call[c].stage = "granted" /\ call[c].sent = Boot(s).refresh
    BY DEF RestartCanRefresh
  <2>1. Covered(Boot(s).refresh)
    <3>1. CASE file # None
      BY <3>1 DEF TokenInv, StartCovered, Boot
    <3>2. CASE file = None
      <4>1. Boot(s).refresh = IF env.refresh THEN EnvGrant ELSE None
        BY <3>2 DEF Boot
      <4> QED
        BY <3>2, <4>1 DEF TokenInv, StartCovered
    <3> QED
      BY <3>1, <3>2
  <2> QED
    BY <2>1 DEF Covered, InFlight
<1> QED
  BY <1>1, TokenInvariance, PTL

(* The 60 seconds of _ensure_token cover the way of a reply: no access     *)
(* token whose expiry is known is handed out after its end.                *)
THEOREM UsableTheorem == Spec => UsableWhenSent
<1> DEFINE Sending == \A c \in Calls :
             call[c].stage # "using" /\ call'[c].stage = "using" /\ client'[Home[c]].left # None
               => life'[call'[c].sent] > 0
<1>1. TokenInv /\ [Next]_vars => [Sending]_vars
  <2> SUFFICES ASSUME TokenInv, Next,
                      NEW c \in Calls, call[c].stage # "using", call'[c].stage = "using",
                      client'[Home[c]].left # None
               PROVE  life'[call'[c].sent] > 0
    OBVIOUS
  <2> DEFINE s == Home[c]
  <2>1. ASSUME NEW k \in Stored, HonestExpiry(k, MaxLatency), Usable(k), k.left # None
        PROVE  life[k.access] > 0
    <3>1. k.left \in Lefts /\ k.access \in Grants /\ k.left <= life[k.access] + MaxLatency /\ k.left > Margin
      BY <2>1 DEF Stored, HonestExpiry, Honest, Usable
    <3>2. k.left \in Nat /\ life[k.access] \in Nat
      BY <3>1 DEF TokenInv, TokensOK, Lefts
    <3> QED
      BY <3>1, <3>2
  <2>2. CASE StartCall(c)
    <3> DEFINE k == ClientOf(s)
    <3>1. k \in Stored /\ HonestExpiry(k, MaxLatency)
      BY ClientFacts
    <3>2. client'[s] = k /\ life' = life
      BY <2>2 DEF StartCall, pinterest, TokenInv, TokensOK
    <3>3. Usable(k) /\ call'[c].sent = k.access
      BY <2>2 DEF StartCall, Using, Refreshing, Out, TokenInv, TokensOK, Call
    <3> HIDE DEF k
    <3> QED
      BY <2>1, <3>1, <3>2, <3>3
  <2>3. CASE Locked(c)
    <3> DEFINE k == client[s]
    <3>1. k \in Stored /\ HonestExpiry(k, MaxLatency)
      BY <2>3 DEF Locked, TokenInv, TokensOK, CallsServed, ExpiriesHonest
    <3>2. client'[s] = k /\ life' = life
      BY <2>3 DEF Locked, pinterest
    <3>3. Fresh(k) /\ call'[c].sent = k.access
      BY <2>3 DEF Locked, Using, Refreshing, Out, TokenInv, TokensOK
    <3> HIDE DEF k
    <3> QED
      BY <2>1, <3>1, <3>2, <3>3 DEF Fresh, Usable
  <2>4. CASE StoreGrant(c)
    <3> DEFINE k == call[c].grant
    <3>1. /\ c \in InFlight /\ life' = life
          /\ call'[c].sent = k.access
      BY <2>4 DEF StoreGrant, InFlight, pinterest, Using, Idle, Out, TokenInv, TokensOK
    <3>2. /\ k.left \in Nat /\ k.left > MaxLatency /\ k.left # None
          /\ k.access \in Grants /\ k.left <= life[k.access] + call[c].age
      BY <3>1 DEF TokenInv, RepliesGood, HonestExpiry, Honest
    <3>3. call[c].age \in 0 .. MaxLatency
      BY DEF TokenInv, TokensOK, Call
    <3>4. life[k.access] \in Lefts
      BY <3>2 DEF TokenInv, TokensOK
    <3>5. life[k.access] \in Nat
      BY <3>4 DEF Lefts
    <3> HIDE DEF k
    <3> QED
      BY <3>1, <3>2, <3>3, <3>5
  <2>5. ASSUME NEW d \in Calls, d # c, StartCall(d) \/ Step(d) PROVE FALSE
    <3>1. call'[c].stage = call[c].stage
      <4> USE DEF TokenInv, TokensOK
      <4>1. CASE StartCall(d)
        BY <2>5, <4>1 DEF StartCall, Using, Refreshing
      <4>2. CASE Locked(d)
        BY <2>5, <4>2 DEF Locked, Using, Refreshing
      <4>3. CASE Grant(d)
        BY <2>5, <4>3 DEF Grant
      <4>4. CASE StoreGrant(d)
        BY <2>5, <4>4 DEF StoreGrant, Using
      <4>5. CASE EndCall(d) \/ Answer(d)
        BY <2>5, <4>5 DEF EndCall, Answer
      <4> QED
        BY <2>5, <4>1, <4>2, <4>3, <4>4, <4>5 DEF Step
    <3> QED
      BY <3>1
  <2>6. CASE Grant(c) \/ EndCall(c) \/ Answer(c)
    <3> USE DEF TokenInv, TokensOK
    <3>1. call'[c].stage # "using"
      <4>1. CASE Grant(c)
        <5>1. call[c] \in Call
          OBVIOUS
        <5> QED
          BY <4>1, <5>1 DEF Grant, Call
      <4>2. CASE EndCall(c) \/ Answer(c)
        BY <4>2 DEF EndCall, Answer, Idle, Out
      <4> QED
        BY <2>6, <4>1, <4>2
    <3> QED
      BY <3>1
  <2>7. CASE (\E t \in Servers : Stop(t)) \/ Authorize \/ Tick
    <3>1. call'[c].stage = call[c].stage \/ call'[c].stage = "idle"
      <4>1. ASSUME NEW t \in Servers, Stop(t) PROVE call'[c].stage \in {call[c].stage, "idle"}
        BY <4>1 DEF Stop, Idle, Out
      <4>2. CASE Authorize
        BY <4>2 DEF Authorize
      <4>3. CASE Tick
        <5>1. call[c] \in Call
          BY DEF TokenInv, TokensOK
        <5> QED
          BY <4>3, <5>1 DEF Tick, Call
      <4> QED
        BY <2>7, <4>1, <4>2, <4>3
    <3> QED
      BY <3>1
  <2> QED
    BY <2>2, <2>3, <2>4, <2>5, <2>6, <2>7 DEF Next, Step
<1>2. UsableWhenSent <=> [][Sending]_vars
  BY DEF UsableWhenSent
<1> QED
  BY <1>1, <1>2, TokenInvariance, PTL DEF Spec
-----------------------------------------------------------------------------
(* What is left of a sequence without its i-th element.                    *)
LEMMA RemoveAtFacts ==
  ASSUME NEW S, NEW q \in Seq(S), NEW i \in 1 .. Len(q)
  PROVE  LET r == RemoveAt(q, i) IN
         /\ r \in Seq(S) /\ Len(r) = Len(q) - 1
         /\ \A j \in 1 .. Len(r) : r[j] = IF j < i THEN q[j] ELSE q[j + 1]
<1> DEFINE a == SubSeq(q, 1, i - 1)
           b == SubSeq(q, i + 1, Len(q))
<1>0. i \in Nat /\ Len(q) \in Nat /\ i >= 1 /\ i <= Len(q)
  OBVIOUS
<1>1. a \in Seq(S) /\ Len(a) = i - 1 /\ \A j \in 1 .. i - 1 : a[j] = q[j]
  BY <1>0
<1>2. b \in Seq(S) /\ Len(b) = Len(q) - i /\ \A j \in 1 .. Len(q) - i : b[j] = q[i + j]
  BY <1>0
<1>3. RemoveAt(q, i) = a \o b
  BY DEF RemoveAt
<1> HIDE DEF a, b
<1>4. a \o b \in Seq(S) /\ Len(a \o b) = Len(q) - 1
  <2>1. a \o b \in Seq(S) /\ Len(a \o b) = Len(a) + Len(b)
    <3>1. a \in Seq(S) /\ b \in Seq(S)
      BY <1>1, <1>2
    <3> QED
      BY <3>1
  <2> QED
    BY <1>0, <1>1, <1>2, <2>1
<1>5. ASSUME NEW j \in 1 .. Len(q) - 1
      PROVE (a \o b)[j] = IF j < i THEN q[j] ELSE q[j + 1]
  <2>1. (a \o b)[j] = IF j <= Len(a) THEN a[j] ELSE b[j - Len(a)]
    BY <1>0, <1>1, <1>2
  <2>2. CASE j < i
    BY <1>0, <1>1, <2>1, <2>2
  <2>3. CASE ~ (j < i)
    <3>1. j - (i - 1) \in 1 .. Len(q) - i /\ i + (j - (i - 1)) = j + 1
      BY <1>0, <2>3
    <3>2. (a \o b)[j] = b[j - (i - 1)]
      BY <1>0, <1>1, <2>1, <2>3
    <3> QED
      BY <1>2, <2>3, <3>1, <3>2
  <2> QED
    BY <2>2, <2>3
<1> QED
  BY <1>3, <1>4, <1>5

(* Leaving the queue of an asyncio.Lock: the others keep their order.       *)
LEMMA RemoveFirstFacts ==
  ASSUME NEW S, NEW q \in Seq(S), IsInjective(q), NEW e
  PROVE  LET r == RemoveFirst(q, e) IN
         /\ r \in Seq(S) /\ IsInjective(r) /\ Range(r) = Range(q) \ {e}
         /\ q # << >> /\ Head(q) # e => r # << >> /\ Head(r) = Head(q)
<1>1. CASE ~ \E i \in 1 .. Len(q) : q[i] = e
  BY <1>1 DEF RemoveFirst, Range
<1>2. CASE \E i \in 1 .. Len(q) : q[i] = e
  <2>1. PICK i \in 1 .. Len(q) : q[i] = e
    BY <1>2
  <2>2. {j \in 1 .. Len(q) : q[j] = e} = {i}
    BY <2>1 DEF IsInjective
  <2>3. Min({i}) = i
    BY <2>1 DEF Min
  <2>4. RemoveFirst(q, e) = RemoveAt(q, i)
    BY <1>2, <2>2, <2>3 DEF RemoveFirst, SelectInSeq
  <2> DEFINE r == RemoveAt(q, i)
  <2>5. /\ r \in Seq(S) /\ Len(r) = Len(q) - 1
        /\ \A j \in 1 .. Len(r) : r[j] = IF j < i THEN q[j] ELSE q[j + 1]
    BY RemoveAtFacts
  <2> HIDE DEF r
  <2>0. Len(q) \in Nat /\ Len(r) \in Nat /\ DOMAIN q = 1 .. Len(q) /\ DOMAIN r = 1 .. Len(r) /\ i \in Nat /\ i >= 1 /\ i <= Len(q)
    BY <2>5
  <2>6. IsInjective(r)
    <3> SUFFICES ASSUME NEW j \in 1 .. Len(r), NEW k \in 1 .. Len(r), r[j] = r[k] PROVE j = k
      BY <2>0 DEF IsInjective
    <3> DEFINE f(x) == IF x < i THEN x ELSE x + 1
    <3>1. f(j) \in 1 .. Len(q) /\ f(k) \in 1 .. Len(q) /\ (f(j) = f(k) => j = k)
      BY <2>0, <2>5
    <3>2. r[j] = q[f(j)] /\ r[k] = q[f(k)]
      BY <2>5
    <3> HIDE DEF f
    <3> QED
      BY <2>0, <3>1, <3>2 DEF IsInjective
  <2>7. Range(r) = Range(q) \ {e}
    <3>1. ASSUME NEW x \in Range(r) PROVE x \in Range(q) \ {e}
      <4>1. PICK j \in 1 .. Len(r) : x = r[j]
        BY <2>0 DEF Range
      <4>2. CASE j < i
        <5>1. j \in 1 .. Len(q) /\ j # i /\ x = q[j]
          BY <2>0, <2>5, <4>1, <4>2
        <5> QED
          BY <2>0, <2>1, <5>1 DEF Range, IsInjective
      <4>3. CASE ~ (j < i)
        <5>1. j + 1 \in 1 .. Len(q) /\ j + 1 # i /\ x = q[j + 1]
          BY <2>0, <2>5, <4>1, <4>3
        <5> QED
          BY <2>0, <2>1, <5>1 DEF Range, IsInjective
      <4> QED
        BY <4>2, <4>3
    <3>2. ASSUME NEW x \in Range(q) \ {e} PROVE x \in Range(r)
      <4>1. PICK j \in 1 .. Len(q) : x = q[j] /\ j # i
        BY <2>0, <2>1 DEF Range
      <4>2. CASE j < i
        <5>1. j \in 1 .. Len(r) /\ r[j] = x
          BY <2>0, <2>5, <4>1, <4>2
        <5> QED
          BY <2>0, <5>1 DEF Range
      <4>3. CASE ~ (j < i)
        <5>1. j - 1 \in 1 .. Len(r) /\ r[j - 1] = x
          BY <2>0, <2>5, <4>1, <4>3
        <5> QED
          BY <2>0, <5>1 DEF Range
      <4> QED
        BY <4>2, <4>3
    <3> QED
      BY <3>1, <3>2
  <2>8. q # << >> /\ Head(q) # e => r # << >> /\ Head(r) = Head(q)
    <3> SUFFICES ASSUME q # << >>, Head(q) # e PROVE r # << >> /\ Head(r) = Head(q)
      OBVIOUS
    <3>1. Head(q) = q[1] /\ i # 1 /\ 1 < i
      BY <2>0, <2>1
    <3>2. Len(r) >= 1 /\ 1 \in 1 .. Len(r)
      BY <2>0, <2>5, <3>1
    <3>3. r # << >> /\ r[1] = q[1]
      BY <2>5, <3>1, <3>2
    <3> QED
      BY <2>5, <3>1, <3>3
  <2> QED
    BY <2>4, <2>5, <2>6, <2>7, <2>8 DEF r
<1> QED
  BY <1>1, <1>2

(* The queue of a lock is the calls that wait for it or hold it; who has   *)
(* gone past the wait is its head, and works with the token in memory.     *)
Seated(c) ==
    call[c].stage \in {"waiting", "refreshing", "granted"} <=> c \in Range(queue[Home[c]])
Holding(c) ==
    call[c].stage \in {"refreshing", "granted"} =>
        Head(queue[Home[c]]) = c /\ call[c].sent = client[Home[c]].refresh
QueueInv == QueuesOK /\ \A c \in Calls : Seated(c) /\ Holding(c)

LEMMA EmptyQueue ==
  Range(<< >>) = {} /\ IsInjective(<< >>)
  BY DEF Range, IsInjective

LEMMA QueueInit == Init => QueueInv
  BY EmptyQueue DEF Init, QueueInv, QueuesOK, Seated, Holding, Idle, Out

(* A call joins at the end.                                                *)
LEMMA AppendFacts ==
  ASSUME NEW S, NEW q \in Seq(S), IsInjective(q), NEW e \in S, e \notin Range(q)
  PROVE  LET r == Append(q, e) IN
         /\ r \in Seq(S) /\ IsInjective(r) /\ Range(r) = Range(q) \cup {e}
         /\ Head(r) = IF q = << >> THEN e ELSE Head(q)
<1> DEFINE r == Append(q, e)
<1>1. /\ r \in Seq(S) /\ Len(r) = Len(q) + 1 /\ Len(q) \in Nat
      /\ DOMAIN q = 1 .. Len(q) /\ DOMAIN r = 1 .. Len(q) + 1
      /\ \A i \in 1 .. Len(q) : r[i] = q[i]
      /\ r[Len(q) + 1] = e
  OBVIOUS
<1>2. Head(r) = IF q = << >> THEN e ELSE Head(q)
  <2>1. Head(r) = r[1]
    BY <1>1
  <2>2. q = << >> => Len(q) = 0
    OBVIOUS
  <2>3. q # << >> => Len(q) >= 1 /\ Head(q) = q[1]
    OBVIOUS
  <2> QED
    BY <1>1, <2>1, <2>2, <2>3
<1> HIDE DEF r
<1>3. \A i \in 1 .. Len(q) : r[i] = q[i] /\ q[i] # e
  BY <1>1 DEF Range
<1>4. IsInjective(r)
  BY <1>1, <1>3 DEF IsInjective
<1>5. Range(r) = Range(q) \cup {e}
  BY <1>1, <1>3 DEF Range
<1> QED
  BY <1>1, <1>2, <1>4, <1>5 DEF r

(* A step that leaves the queues alone.                                    *)
InQueue == {"waiting", "refreshing", "granted"}
AtPinterest == {"refreshing", "granted"}

LEMMA SeatsKept ==
  ASSUME QueueInv, UNCHANGED queue,
         \A c \in Calls :
            /\ call'[c].stage \in InQueue <=> call[c].stage \in InQueue
            /\ call'[c].stage \in AtPinterest =>
                 \/ /\ call[c].stage \in AtPinterest
                    /\ call'[c].sent = call[c].sent
                    /\ client'[Home[c]].refresh = client[Home[c]].refresh
                 \/ /\ Head(queue[Home[c]]) = c
                    /\ call'[c].sent = client'[Home[c]].refresh
  PROVE  QueueInv'
  BY DEF QueueInv, QueuesOK, Seated, Holding, InQueue, AtPinterest

(* A call leaves its queue, or was not in it.                              *)
LEMMA SeatLeft ==
  ASSUME QueueInv, NEW c \in Calls, queue' = Unlocked(c),
         call'[c].stage \notin InQueue,
         \A d \in Calls : d # c => call'[d] = call[d],
         \A s \in Servers : \/ client'[s] = client[s]
                            \/ s = Home[c] /\ call[c].stage \in AtPinterest
  PROVE  QueueInv'
<1> DEFINE h == Home[c]
           q == queue[h]
           r == RemoveFirst(q, c)
<1>1. h \in Servers /\ q \in Seq(Calls) /\ IsInjective(q)
  BY DEF QueueInv, QueuesOK
<1>2. /\ r \in Seq(Calls) /\ IsInjective(r) /\ Range(r) = Range(q) \ {c}
      /\ q # << >> /\ Head(q) # c => r # << >> /\ Head(r) = Head(q)
  BY <1>1, RemoveFirstFacts
<1>3. /\ queue' = [queue EXCEPT ![h] = r]
      /\ \A s \in Servers : queue'[s] = IF s = h THEN r ELSE queue[s]
  BY DEF Unlocked, QueueInv, QueuesOK
<1> HIDE DEF r
<1>4. QueuesOK'
  BY <1>1, <1>2, <1>3 DEF QueueInv, QueuesOK
<1>5. Seated(c)' /\ Holding(c)'
  BY <1>1, <1>2, <1>3 DEF Seated, Holding, InQueue
<1>6. ASSUME NEW d \in Calls, d # c PROVE Seated(d)' /\ Holding(d)'
  <2>1. Seated(d) /\ Holding(d) /\ call'[d] = call[d] /\ Holding(c)
    BY <1>6 DEF QueueInv
  <2>2. Seated(d)'
    BY <1>2, <1>3, <1>6, <2>1 DEF Seated
  <2>3. ASSUME call[d].stage \in AtPinterest
        PROVE  Head(queue'[Home[d]]) = d /\ call[d].sent = client'[Home[d]].refresh
    <3>1. Head(queue[Home[d]]) = d /\ call[d].sent = client[Home[d]].refresh /\ d \in Range(queue[Home[d]])
      BY <2>1, <2>3 DEF Seated, Holding, AtPinterest
    <3>2. queue[Home[d]] # << >>
      BY <3>1, EmptyQueue
    <3>3. Head(queue'[Home[d]]) = d
      BY <1>1, <1>2, <1>3, <1>6, <3>1, <3>2
    <3>4. client'[Home[d]] = client[Home[d]]
      BY <1>6, <2>1, <3>1 DEF Holding, AtPinterest
    <3> QED
      BY <3>1, <3>3, <3>4
  <2> QED
    BY <2>1, <2>2, <2>3 DEF Holding, AtPinterest
<1> QED
  BY <1>4, <1>5, <1>6 DEF QueueInv

LEMMA StartCallSeats == ASSUME TokenInv, QueueInv, NEW c \in Calls, StartCall(c) PROVE QueueInv'
<1> DEFINE s == Home[c]
           k == ClientOf(s)
<1>1. /\ s \in Servers /\ call[c].stage = "idle" /\ client' = [client EXCEPT ![s] = k]
      /\ call \in [Calls -> Call] /\ client \in [Servers -> Stored \cup {None}]
  BY DEF StartCall, TokenInv, TokensOK
<1>2. ASSUME NEW d \in Calls, call[d].stage \in AtPinterest
      PROVE  client'[Home[d]].refresh = client[Home[d]].refresh
  BY <1>1, <1>2 DEF TokenInv, CallsServed, ClientOf, AtPinterest
<1>3. CASE UNCHANGED queue /\ (UNCHANGED call \/ Using(c, k.access))
  <2>1. \A d \in Calls : \/ call'[d] = call[d]
                         \/ d = c /\ call'[d].stage = "using"
    BY <1>1, <1>3 DEF Using, Out
  <2> QED
    BY <1>1, <1>2, <1>3, <2>1, SeatsKept DEF InQueue, AtPinterest
<1>4. CASE /\ queue' = [queue EXCEPT ![s] = Append(@, c)]
           /\ IF queue[s] = << >> THEN Refreshing(c, k.refresh)
              ELSE call' = [call EXCEPT ![c].stage = "waiting"]
  <2> DEFINE r == Append(queue[s], c)
  <2>1. queue[s] \in Seq(Calls) /\ IsInjective(queue[s]) /\ c \notin Range(queue[s])
    BY <1>1 DEF QueueInv, QueuesOK, Seated
  <2>2. /\ r \in Seq(Calls) /\ IsInjective(r) /\ Range(r) = Range(queue[s]) \cup {c}
        /\ Head(r) = IF queue[s] = << >> THEN c ELSE Head(queue[s])
    BY <2>1, AppendFacts
  <2>3. \A t \in Servers : queue'[t] = IF t = s THEN r ELSE queue[t]
    BY <1>4 DEF QueueInv, QueuesOK
  <2> HIDE DEF r
  <2>4. QueuesOK'
    BY <1>1, <1>4, <2>2, <2>3 DEF QueueInv, QueuesOK, r
  <2>5. Seated(c)' /\ Holding(c)'
    <3>1. CASE queue[s] = << >>
      <4>1. call'[c] = Out("refreshing", k.refresh)
        BY <1>1, <1>4, <3>1 DEF Refreshing
      <4>2. call'[c].stage = "refreshing" /\ call'[c].sent = k.refresh /\ client'[s] = k
        BY <1>1, <4>1 DEF Out
      <4> QED
        BY <1>1, <2>2, <2>3, <3>1, <4>2 DEF Seated, Holding
    <3>2. CASE queue[s] # << >>
      <4>1. call'[c].stage = "waiting"
        BY <1>1, <1>4, <3>2 DEF Call
      <4> QED
        BY <1>1, <2>2, <2>3, <4>1 DEF Seated, Holding
    <3> QED
      BY <3>1, <3>2
  <2>6. ASSUME NEW d \in Calls, d # c PROVE Seated(d)' /\ Holding(d)'
    <3>1. call'[d] = call[d] /\ Seated(d) /\ Holding(d)
      BY <1>1, <1>4, <2>6 DEF Refreshing, QueueInv
    <3>2. Seated(d)'
      BY <2>2, <2>3, <2>6, <3>1 DEF Seated
    <3>3. ASSUME call[d].stage \in AtPinterest PROVE Head(queue'[Home[d]]) = d
      <4>1. Head(queue[Home[d]]) = d /\ d \in Range(queue[Home[d]])
        BY <3>1, <3>3 DEF Seated, Holding, AtPinterest
      <4> QED
        BY <2>2, <2>3, <4>1, EmptyQueue
    <3> QED
      BY <1>2, <3>1, <3>2, <3>3 DEF Holding, AtPinterest
  <2> QED
    BY <2>4, <2>5, <2>6 DEF QueueInv
<1> QED
  BY <1>3, <1>4 DEF StartCall

LEMMA StepSeats == ASSUME TokenInv, QueueInv, NEW c \in Calls, Step(c) PROVE QueueInv'
<1>0. /\ call \in [Calls -> Call] /\ client \in [Servers -> Stored \cup {None}]
      /\ Home[c] \in Servers /\ Seated(c) /\ Holding(c)
  BY DEF TokenInv, TokensOK, QueueInv
<1> USE DEF InQueue, AtPinterest
<1>1. CASE Locked(c)
  <2> DEFINE k == client[Home[c]]
  <2>1. CASE Using(c, k.access) /\ queue' = Unlocked(c)
    <3>1. call'[c].stage = "using" /\ \A d \in Calls : d # c => call'[d] = call[d]
      BY <1>0, <2>1 DEF Using, Out
    <3> QED
      BY <1>1, <2>1, <3>1, SeatLeft DEF Locked
  <2>2. CASE Refreshing(c, k.refresh) /\ UNCHANGED queue
    <3>1. call'[c] = Out("refreshing", k.refresh) /\ \A d \in Calls : d # c => call'[d] = call[d]
      BY <1>0, <2>2 DEF Refreshing
    <3>2. call'[c].stage = "refreshing" /\ call'[c].sent = k.refresh
      BY <3>1 DEF Out
    <3>3. call[c].stage = "waiting" /\ Head(queue[Home[c]]) = c /\ client' = client
      BY <1>1 DEF Locked
    <3> HIDE DEF k
    <3> QED
      BY <2>2, <3>1, <3>2, <3>3, SeatsKept DEF k
  <2> QED
    BY <1>1, <2>1, <2>2 DEF Locked
<1>2. CASE Grant(c)
  <2>1. PICK g : call' = [call EXCEPT ![c] = [@ EXCEPT !.stage = "granted", !.grant = g]]
    BY <1>2 DEF Grant
  <2>2. /\ call'[c].stage = "granted" /\ call'[c].sent = call[c].sent
        /\ \A d \in Calls : d # c => call'[d] = call[d]
    BY <1>0, <2>1 DEF Call
  <2> QED
    BY <1>0, <1>2, <2>2, SeatsKept DEF Grant
<1>3. CASE StoreGrant(c)
  <2>1. call'[c].stage \in {"using", "idle"} /\ \A d \in Calls : d # c => call'[d] = call[d]
    BY <1>0, <1>3 DEF StoreGrant, Using, Idle, Out
  <2> QED
    BY <1>0, <1>3, <2>1, SeatLeft DEF StoreGrant
<1>4. CASE EndCall(c)
  <2>1. call'[c].stage = "idle" /\ \A d \in Calls : d # c => call'[d] = call[d]
    BY <1>0, <1>4 DEF EndCall, Idle, Out
  <2> QED
    BY <1>0, <1>4, <2>1, SeatLeft DEF EndCall
<1>5. CASE Answer(c)
  <2>1. /\ call[c].stage = "using" /\ call'[c].stage = "idle"
        /\ \A d \in Calls : d # c => call'[d] = call[d]
    BY <1>0, <1>5 DEF Answer, Idle, Out
  <2> QED
    BY <1>0, <1>5, <2>1, SeatsKept DEF Answer
<1> QED
  BY <1>1, <1>2, <1>3, <1>4, <1>5 DEF Step

LEMMA StopSeats == ASSUME TokenInv, QueueInv, NEW s \in Servers, Stop(s) PROVE QueueInv'
<1>1. /\ client' = [client EXCEPT ![s] = None] /\ queue' = [queue EXCEPT ![s] = << >>]
      /\ \A c \in Calls : call'[c] = IF Home[c] = s THEN Idle ELSE call[c]
      /\ client \in [Servers -> Stored \cup {None}] /\ queue \in [Servers -> Seq(Calls)]
  BY DEF Stop, TokenInv, TokensOK, QueueInv, QueuesOK
<1>2. \A t \in Servers : IF t = s THEN queue'[t] = << >>
                         ELSE queue'[t] = queue[t] /\ client'[t] = client[t]
  BY <1>1
<1>3. QueuesOK'
  <2>1. << >> \in Seq(Calls)
    OBVIOUS
  <2>2. queue' \in [Servers -> Seq(Calls)]
    BY <1>1, <2>1
  <2>3. ASSUME NEW t \in Servers
        PROVE  IsInjective(queue'[t]) /\ Range(queue'[t]) \subseteq {c \in Calls : Home[c] = t}
    BY <1>2, EmptyQueue DEF QueueInv, QueuesOK
  <2> QED
    BY <2>2, <2>3 DEF QueuesOK
<1>4. ASSUME NEW c \in Calls PROVE Seated(c)' /\ Holding(c)'
  <2>1. CASE Home[c] = s
    BY <1>1, <1>2, <2>1, EmptyQueue DEF Seated, Holding, Idle, Out
  <2>2. CASE Home[c] # s
    BY <1>1, <1>2, <2>2 DEF QueueInv, Seated, Holding
  <2> QED
    BY <2>1, <2>2
<1> QED
  BY <1>3, <1>4 DEF QueueInv

LEMMA QueueStep == TokenInv /\ QueueInv /\ [Next]_vars => QueueInv'
<1> SUFFICES ASSUME TokenInv, QueueInv, [Next]_vars PROVE QueueInv'
  OBVIOUS
<1>1. CASE Authorize \/ UNCHANGED vars
  BY <1>1, SeatsKept DEF Authorize, vars
<1>2. CASE Tick
  <2>1. ASSUME NEW c \in Calls PROVE call'[c].stage = call[c].stage /\ call'[c].sent = call[c].sent
    <3>1. call[c] \in Call
      BY DEF TokenInv, TokensOK
    <3> QED
      BY <1>2, <3>1 DEF Tick, Call
  <2>2. ASSUME NEW s \in Servers, client[s] # None PROVE client'[s].refresh = client[s].refresh
    BY <1>2, <2>2 DEF Tick, Aged, TokenInv, TokensOK, Stored
  <2> QED
    BY <1>2, <2>1, <2>2, SeatsKept DEF Tick, TokenInv, CallsServed, AtPinterest
<1> QED
  BY <1>1, <1>2, StartCallSeats, StepSeats, StopSeats DEF Next

LEMMA QueueInvariance == Spec => []QueueInv
  BY QueueInit, QueueStep, TokenInvariance, PTL DEF Spec

(* Every variable of the client has its type, and the queue of a lock has  *)
(* only calls of its own process, each once.                               *)
THEOREM TokenTypeCorrect == Spec => []TypeOK
<1>1. TokenInv /\ QueueInv => TypeOK
  BY DEF TokenInv, QueueInv, TypeOK
<1> QED
  BY <1>1, TokenInvariance, QueueInvariance, PTL

(* One refresh at a time in a process, by the holder of the lock and with  *)
(* the refresh token that is in memory.                                    *)
THEOREM OneRefreshTheorem == Spec => []OneRefresh
<1>1. QueueInv => OneRefresh
  BY EmptyQueue DEF QueueInv, Seated, Holding, OneRefresh
<1> QED
  BY <1>1, QueueInvariance, PTL

(* Nobody asks Pinterest for tokens while those in memory are fresh, be it *)
(* at the start of a call or after a wait for the lock.                    *)
THEOREM RefreshNeeded == Spec => NoNeedlessRefresh
<1> DEFINE Needed == \A c \in Calls :
             call[c].stage # "refreshing" /\ call'[c].stage = "refreshing"
               => ~Fresh(client'[Home[c]])
<1>1. ASSUME TokenInv, NEW d \in Calls, StartCall(d), NEW c \in Calls,
             call[c].stage # "refreshing", call'[c].stage = "refreshing"
      PROVE  ~Fresh(client'[Home[c]])
  <2>1. client'[Home[d]] = ClientOf(Home[d])
    BY <1>1 DEF StartCall, TokenInv, TokensOK
  <2>2. c = d /\ ~Usable(ClientOf(Home[d]))
    BY <1>1 DEF StartCall, Using, Refreshing, Out, TokenInv, TokensOK
  <2> QED
    BY <2>1, <2>2 DEF Usable, Fresh
<1>2. ASSUME TokenInv, NEW d \in Calls, Step(d), NEW c \in Calls,
             call[c].stage # "refreshing", call'[c].stage = "refreshing"
      PROVE  ~Fresh(client'[Home[c]])
  <2>0. call \in [Calls -> Call]
    BY <1>2 DEF TokenInv, TokensOK
  <2>1. CASE Locked(d)
    BY <1>2, <2>0, <2>1 DEF Locked, Using, Refreshing, Out
  <2>2. ASSUME NEW g, call' = [call EXCEPT ![d] = [@ EXCEPT !.stage = "granted", !.grant = g]] PROVE FALSE
    <3>1. call'[d].stage = "granted"
      BY <2>0, <2>2 DEF Call
    <3> QED
      BY <1>2, <2>0, <2>2, <3>1
  <2>3. ~ Grant(d)
    BY <2>2 DEF Grant
  <2>4. CASE StoreGrant(d) \/ EndCall(d) \/ Answer(d)
    BY <1>2, <2>0, <2>4 DEF StoreGrant, EndCall, Answer, Using, Idle, Out
  <2> QED
    BY <1>2, <2>1, <2>3, <2>4 DEF Step
<1>3. ASSUME TokenInv, (\E s \in Servers : Stop(s)) \/ Authorize \/ Tick, NEW c \in Calls,
             call[c].stage # "refreshing", call'[c].stage = "refreshing"
      PROVE  FALSE
  <2>0. call[c] \in Call
    BY <1>3 DEF TokenInv, TokensOK
  <2>1. CASE Tick
    BY <1>3, <2>0, <2>1 DEF Tick, Call
  <2>2. CASE Authorize
    BY <1>3, <2>2 DEF Authorize
  <2>3. ASSUME NEW s \in Servers, Stop(s) PROVE FALSE
    BY <1>3, <2>3 DEF Stop, Idle, Out
  <2> QED
    BY <1>3, <2>1, <2>2, <2>3
<1>4. TokenInv /\ [Next]_vars => [Needed]_vars
  BY <1>1, <1>2, <1>3 DEF Next
<1>5. NoNeedlessRefresh <=> [][Needed]_vars
  BY DEF NoNeedlessRefresh
<1> QED
  BY <1>4, <1>5, TokenInvariance, PTL DEF Spec
=============================================================================
