--------------------------------- MODULE MCTx ---------------------------------
(* Instances of TxChain for TLC. *)
EXTENDS TxChain, TLC

CONSTANTS
  g1, g2,   \* keys of two groups
  wallet,   \* a key that no group holds
  r, none,  \* contents of bodies
  f1, f2, c1, c2,
  empty     \* an authorization that is not there yet, or is a dummy

Update(key, depth, kind, full) ==
  [signature |-> empty,
   body |-> [public_key |-> key, call_depth |-> depth, use_full_commitment |-> full,
             is_signed |-> kind \in {"signed", "both"},
             is_proved |-> kind \in {"proved", "both"},
             dummy_key_hash |-> kind # "proved", rest |-> r]]
Command(payer, updates) ==
  [tag |-> "ZkApp", memo |-> r, account_updates |-> updates,
   fee_payer |-> [body |-> [public_key |-> payer, rest |-> r], authorization |-> empty]]
Legacy(from, kind, amount, memo) ==
  [tag |-> "Legacy", kind |-> kind, from |-> from, to |-> wallet, fee |-> 2, amount |-> amount,
   nonce |-> 5, valid_until |-> 7, memo |-> memo]
Letters(n) == [i \in 1..n |-> 97]

\* Both groups sign: one pays, the other is called, twice by one of them.
Shared == Command(g1, <<Update(g2, 0, "signed", TRUE), Update(wallet, 1, "proved", TRUE),
                        Update(g2, 1, "signed", FALSE), Update(g1, 0, "signed", TRUE)>>)
\* Somebody else pays; the second update is called by the first, or is not.
Sponsored(depth) ==
  Command(wallet, <<Update(g1, 0, "signed", TRUE), Update(wallet, depth, "proved", TRUE)>>)
Deep == Command(g1, <<Update(g2, 0, "signed", TRUE), Update(g1, 2, "signed", TRUE)>>)
Ambiguous == Command(g1, <<Update(g1, 0, "both", TRUE)>>)
All == {Shared, Sponsored(0), Sponsored(1), Deep, Ambiguous,
        Legacy(g1, PAYMENT_TX_TAG, <<3>>, Letters(32)),
        Legacy(g1, PAYMENT_TX_TAG, <<0>>, <<97, 0>>),
        Legacy(g1, DELEGATION_TX_TAG, <<>>, <<97, 0>>),
        Legacy(g1, DELEGATION_TX_TAG, <<3>>, <<>>),
        Legacy(g1, PAYMENT_TX_TAG, <<>>, <<>>),
        Legacy(g1, PAYMENT_TX_TAG, <<3>>, <<195, 164>>),  \* a letter of two bytes
        Legacy(g1, PAYMENT_TX_TAG, <<3>>, Letters(33))}

Symmetry == Permutations(Files) \cup Permutations(Coordinators)
===============================================================================
