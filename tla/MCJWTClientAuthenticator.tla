---------------------- MODULE MCJWTClientAuthenticator ----------------------
(* JWTClientAuthenticator for TLC: two callers, four assertions.  One is     *)
(* short-lived and names a new key; one lives long, is dated ahead of the    *)
(* server's clock and names no key; two are forged and carry the jti of the  *)
(* first, one with a symmetric algorithm.  The key sets are those before,    *)
(* during and after an exchange of keys, with entries of other uses beside.  *)
EXTENDS JWTClientAuthenticator, TLC

Symmetry == Permutations(Callers)

Old == [kid |-> "old", alg |-> None, use |-> "sig", kty |-> "RSA",
        material |-> "k1", usable |-> TRUE]
New == [Old EXCEPT !.kid = "new", !.alg = <<"PS", 256>>, !.use = None, !.material = "k2"]
Cipher == [New EXCEPT !.use = "enc", !.alg = None, !.material = "k3"]
Unreadable == [New EXCEPT !.usable = FALSE]
Curve == [New EXCEPT !.kty = "EC", !.alg = None, !.material = "k4"]

MCKeySets == {<<Old>>, <<Old, Cipher, New>>, <<Curve, Unreadable, New>>}

AllRegimes == [redis : BOOLEAN, synced : BOOLEAN, prompt : BOOLEAN]

\* With synced clocks less may be presented: only what is said of them is new.
MCRegimes == {d \in AllRegimes : d.synced => d.redis /\ d.prompt}

MCAssertions ==
    {[jti |-> "j1", iat |-> 0, exp |-> 1, kid |-> "new", alg |-> <<"PS", 256>>,
      signer |-> "k2", claims |-> TRUE],
     [jti |-> "j2", iat |-> 1, exp |-> 9, kid |-> None, alg |-> <<"RS", 256>>,
      signer |-> "k1", claims |-> TRUE],
     [jti |-> "j1", iat |-> 0, exp |-> 9, kid |-> "old", alg |-> <<"RS", 256>>,
      signer |-> "mine", claims |-> TRUE],
     [jti |-> "j1", iat |-> 0, exp |-> 1, kid |-> "new", alg |-> <<"HS", 256>>,
      signer |-> "k2", claims |-> TRUE]}
=============================================================================
