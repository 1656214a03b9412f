------------------------------ MODULE Endpoint ------------------------------
(***************************************************************************)
(* The session state a host keeps in static members: the keys and the IV   *)
(* of KeyManager and the two nonces of HMACManager (library/).  Every      *)
(* EncryptManager, DecryptManager and HMACManager works on this one copy.  *)
(* AES and HMAC key are set and destroyed together and are one value here. *)
(***************************************************************************)
EXTENDS Integers

CONSTANT NonceMod   \* nonces are uint32_t: they count modulo 2^32

ASSUME NonceAssumption == NonceMod \in Nat \ {0}

\* The key after destroyKeys, and the static members of a new process.  An IV
\* is the random value set by setAESIV and the number of increments since.
NoKey == 0
Blank == [key |-> NoKey, iv |-> [base |-> 0, count |-> 0],
          local |-> 0, remote |-> 0]

EndpointSet == [key : Nat, iv : [base : Nat, count : Nat],
                local : 0..(NonceMod - 1), remote : 0..(NonceMod - 1)]

SetKey(e, k)   == [e EXCEPT !.key = k]

\* Slip: the count of the session before goes on.
SetIVOnly(e, b) == [e EXCEPT !.iv.base = b]

SetIV(e, b) == [e EXCEPT !.iv = [base |-> b, count |-> 0]]

\* Slip: the keys stay.
KeepKeys(e) == e

DestroyKeys(e) == [e EXCEPT !.key = NoKey]

\* Slip: a nonce is set once in the life of the process.
SetNoncesOnce(e, l, r) == [e EXCEPT !.local  = IF @ # 0 THEN @ ELSE l,
                                    !.remote = IF @ # 0 THEN @ ELSE r]

\* A nonce of 0 is not set: the one of an earlier session stays.
SetNonces(e, l, r) == [e EXCEPT !.local  = IF l = 0 THEN @ ELSE l,
                                !.remote = IF r = 0 THEN @ ELSE r]

\* A cipher takes the key and the IV of its construction and increments the IV.
Seal(e) == [key |-> e.key, iv |-> e.iv]

\* Slip: the IV is not incremented.
SameIV(e) == e

NewCipher(e) == [e EXCEPT !.iv.count = @ + 1]

\* A MAC covers the data and the sender's nonce; computing it, to send or to
\* compare, advances the nonce.  n MACs make a frame: one for an int, two for
\* data, which its length precedes.
Mac(e) == [key |-> e.key, nonce |-> e.local]

\* Slips: the receiver's own nonce is compared; a counter does not wrap; a
\* frame counts for one whatever it carries.
MacMatchesLocal(e, m)   == m = [key |-> e.key, nonce |-> e.local]
AfterSentUnwrapped(e, n) == [e EXCEPT !.local = @ + n]
AfterOneReceived(e, n)  == [e EXCEPT !.remote = (@ + 1) % NonceMod]

MacMatches(e, m) == m = [key |-> e.key, nonce |-> e.remote]
AfterSent(e, n) == [e EXCEPT !.local  = (@ + n) % NonceMod]
AfterReceived(e, n) == [e EXCEPT !.remote = (@ + n) % NonceMod]
=============================================================================
