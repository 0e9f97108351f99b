---------------------------- MODULE HandoffNonce ----------------------------
(***************************************************************************)
(* Replay protection of the private ingress: authenticate_ingress checks   *)
(* that the signed timestamp is close to its clock (verify_hmac_signature) *)
(* and then, in a call that it awaits, consumes the nonce in a store that  *)
(* forgets it after a while.  The network may deliver a signed request any *)
(* number of times and as late as it likes, and copies of one request may  *)
(* be in flight together.  A copy whose bytes were changed on the way      *)
(* fails the signature, touches nothing, and is left out.                  *)
(***************************************************************************)
EXTENDS Integers

CONSTANTS
    Nonces,     \* one per signed request
    Handlers,   \* requests that the ingress may be serving at one time
    None,
    MaxAge,     \* accepted distance of timestamp and clock (300 s)
    Ttl,        \* how long the store keeps a nonce (601 s)
    MaxStall,   \* longest time from the freshness check to the store's answer
    KeepsAtExpiry,  \* TRUE: MemoryNonceStore, FALSE: RedisNonceStore
    MaxTime     \* bound: the clock stops here

ASSUME NonceAssumption ==
    /\ {MaxAge, Ttl, MaxStall, MaxTime} \subseteq Nat
    /\ KeepsAtExpiry \in BOOLEAN
    /\ None \notin Nonces \cup Nat
(* What the choice of the constants has to respect.                        *)
ASSUME TtlAssumption == Ttl > 2 * MaxAge + MaxStall

VARIABLES
    now,        \* the clock of the ingress and of its store
    signed,     \* signed[n]: the timestamps that requests with nonce n carry
    checked,    \* checked[h]: the request that h found fresh, and when
    expiry,     \* expiry[n]: until when the store keeps n; None if never set
    accepted    \* accepted[n]: how often a request with nonce n went through

nonceVars == <<now, signed, checked, expiry, accepted>>

NotServing == [nonce |-> None, stamp |-> 0, at |-> 0]

NonceTypeOK ==
    /\ now \in Nat
    /\ signed \in [Nonces -> SUBSET Nat]
    /\ checked \in [Handlers -> [nonce : Nonces, stamp : Nat, at : Nat] \cup {NotServing}]
    /\ expiry \in [Nonces -> Nat \cup {None}]
    /\ accepted \in [Nonces -> Nat]

NonceInit ==
    /\ now = 0
    /\ signed = [n \in Nonces |-> {}]
    /\ checked = [h \in Handlers |-> NotServing]
    /\ expiry = [n \in Nonces |-> None]
    /\ accepted = [n \in Nonces |-> 0]

(* Only so long may a handler take to hear from the store.                 *)
Tick ==
    /\ now < MaxTime
    /\ \A h \in Handlers : checked[h] # NotServing => now < checked[h].at + MaxStall
    /\ now' = now + 1
    /\ UNCHANGED <<signed, checked, expiry, accepted>>

(* The broker signs a request once, by a clock that may be ahead or behind. *)
Sign(n, stamp) ==
    /\ signed[n] = {}
    /\ signed' = [signed EXCEPT ![n] = {stamp}]
    /\ UNCHANGED <<now, checked, expiry, accepted>>

(* Mutant: a timestamp may lie in the future, as far as it likes.          *)
Fresh_FutureToo(stamp) == now - stamp <= MaxAge

Fresh(stamp) == now - stamp <= MaxAge /\ stamp - now <= MaxAge

(* verify_hmac_signature; a stale copy is rejected and changes nothing.    *)
Verify(h, n) ==
    /\ checked[h] = NotServing
    /\ \E stamp \in signed[n] :
         /\ Fresh(stamp)
         /\ checked' = [checked EXCEPT ![h] = [nonce |-> n, stamp |-> stamp, at |-> now]]
    /\ UNCHANGED <<now, signed, expiry, accepted>>

(* The store still has the nonce.                                          *)
Remembered(n) ==
    /\ expiry[n] # None
    /\ IF KeepsAtExpiry THEN now <= expiry[n] ELSE now < expiry[n]

(* consume_nonce: test and set are one step in both stores.                *)
Consume(h) ==
    /\ checked[h] # NotServing
    /\ LET n == checked[h].nonce IN
         IF Remembered(n)
         THEN UNCHANGED <<expiry, accepted>>
         ELSE /\ expiry' = [expiry EXCEPT ![n] = now + Ttl]
              /\ accepted' = [accepted EXCEPT ![n] = @ + 1]
    /\ checked' = [checked EXCEPT ![h] = NotServing]
    /\ UNCHANGED <<now, signed>>

NonceNext ==
    \/ Tick
    \/ \E n \in Nonces, stamp \in 0 .. MaxTime : Sign(n, stamp)
    \/ \E h \in Handlers, n \in Nonces : Verify(h, n)
    \/ \E h \in Handlers : Consume(h)

NonceSpec == NonceInit /\ [][NonceNext]_nonceVars

-----------------------------------------------------------------------------
(* A signed request is processed at most once, however often, however late *)
(* and however close together its copies arrive, and although the store    *)
(* forgets: when it forgets a nonce, no copy can still be found fresh.     *)
AcceptedAtMostOnce == \A n \in Nonces : accepted[n] <= 1

(* Why: a request is signed once; a copy in flight was fresh a short while *)
(* ago; an accepted nonce is kept beyond the time its copies stay fresh.   *)
SignedOnce == \A n \in Nonces : \A a, b \in signed[n] : a = b

InFlightWasFresh ==
    \A h \in Handlers : checked[h] # NotServing =>
        /\ checked[h].stamp \in signed[checked[h].nonce]
        /\ checked[h].at <= now /\ now <= checked[h].at + MaxStall
        /\ checked[h].at - checked[h].stamp <= MaxAge
        /\ checked[h].stamp - checked[h].at <= MaxAge

KeptWhileFresh ==
    \A n \in Nonces :
        /\ expiry[n] = None => accepted[n] = 0
        /\ expiry[n] # None =>
             /\ accepted[n] = 1 /\ signed[n] # {}
             /\ \A stamp \in signed[n] : expiry[n] >= stamp - MaxAge + Ttl

IndInv == NonceTypeOK /\ SignedOnce /\ InFlightWasFresh /\ KeptWhileFresh
=============================================================================
