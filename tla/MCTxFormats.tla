------------------------------ MODULE MCTxFormats ------------------------------
(* MCTx with instances of the formats: bodies that differ in one member. *)
EXTENDS MCTx, TxFormats

\* Values for the members of each type, all of them new to both bodies below.
Number1 == Number(<<1, 0, 1>>)
Key(x, odd) == [x |-> Number(x), is_odd |-> odd]
Between(lower, upper) == [lower |-> lower, upper |-> upper]
MCRanges(w) ==
  {<<>>, <<Between(Zeros(w), Ones(w))>>, <<Between(Bits(7, w), Ones(w))>>,
   <<Between(Zeros(w), Bits(7, w))>>, <<Between(Bits(7, w), Bits(7, w))>>}
MCFields == {<<>>, <<Zero>>, <<One>>, <<Number1>>}
MCKeys == {<<>>, <<EmptyKey>>, <<Key(<<>>, TRUE)>>, <<Key(<<1, 0, 1>>, FALSE)>>}
MCBools == {<<>>, <<FALSE>>, <<TRUE>>}
MCUris == {<<>>, <<97>>, <<97, 98>>, [i \in 1..31 |-> 97], [i \in 1..32 |-> 97],
           [i \in 1..32 |-> IF i = 32 THEN 98 ELSE 97],
           [i \in 1..32 |-> IF i = 32 THEN 111 ELSE 97],
           [i \in 1..33 |-> IF i = 32 THEN 47 ELSE IF i = 33 THEN 64 ELSE 97]}
MCMemos == {[i \in 1..34 |-> IF i = 1 THEN 1 ELSE IF i = changed THEN value ELSE 0] :
              changed \in {2, 31, 32, 33, 34}, value \in {64, 97}}
MCEvents == {<<>>, << <<>> >>, << <<One>> >>, << <<One>>, <<>> >>, << <<>>, <<One>> >>,
             << <<One, Zero>> >>, << <<One, Number1>> >>, << <<One>>, <<Number1>> >>}

MCSigs == [field : {Zero, Number1, Number(Ones(254))},
           scalar : {Number(<<1>> \o Zeros(248)), Number(Ones(253) \o <<0>>)}]

AllNone == [EmptyPermissions EXCEPT !["send"] = "None"]
SomePermissions ==
  [AllNone EXCEPT !["edit_state"] = "Proof", !["send"] = "Signature", !["access"] = "Either"]
SomeTiming ==
  [EmptyTiming EXCEPT !.cliff_time = Bits(9, 32), !.vesting_increment = Bits(1, 64)]
SomeEpoch ==
  [DefaultEpoch EXCEPT !.ledger.hash = <<One>>, !.seed = <<Zero>>,
                       !.ledger.total_currency = <<Between(Zeros(64), Ones(64))>>]
FullBody ==
  [DefaultBody EXCEPT
     !.update = [app_state |-> [i \in 1..APP_STATE_LENGTH |-> <<Number(Bits(i, 8))>>],
                 delegate |-> <<Key(<<1, 1>>, FALSE)>>,
                 verification_key |-> <<[data |-> "key", hash |-> One]>>,
                 permissions |-> <<SomePermissions>>, zkapp_uri |-> <<<<97, 98>>>>,
                 token_symbol |-> <<<<97>>>>, timing |-> <<SomeTiming>>,
                 voting_for |-> <<One>>],
     !.preconditions.account.state = [i \in 1..APP_STATE_LENGTH |-> <<Number(Bits(i, 8))>>],
     !.preconditions.account.action_state = <<One>>,
     !.preconditions.account.is_new = <<TRUE>>,
     !.preconditions.network.staking_epoch_data = SomeEpoch,
     !.preconditions.network.next_epoch_data = SomeEpoch]

UpdatesOf(u) ==
  {[u EXCEPT !.app_state[i] = f] : i \in {1, 2, APP_STATE_LENGTH}, f \in MCFields}
  \cup {[u EXCEPT !.delegate = k] : k \in MCKeys}
  \cup {[u EXCEPT !.verification_key = k] :
          k \in {<<>>, <<[data |-> "key", hash |-> Number1]>>, <<[data |-> "other", hash |-> One]>>,
                 <<[data |-> "none", hash |-> Zero]>>}}
  \cup {[u EXCEPT !.permissions = <<>>]}
  \cup {[u EXCEPT !.permissions = <<[AllNone EXCEPT ![m] = a]>>] :
          m \in ToSet(PermissionOrder) \ {"set_verification_key"}, a \in AuthRequired}
  \cup {[u EXCEPT !.permissions = <<[AllNone EXCEPT !["set_verification_key"] = s]>>] :
          s \in [auth : {"None", "Either"}, txn_version : {Bits(2, 32), Bits(3, 32)}]}
  \cup {[u EXCEPT !.zkapp_uri = <<s>>] : s \in MCUris}
  \cup {[u EXCEPT !.token_symbol = s] :
          s \in {<<>>, <<<<>>>>, <<<<97>>>>, <<<<97, 0>>>>, <<<<97, 98>>>>, <<[i \in 1..6 |-> 96 + i]>>}}
  \cup {[u EXCEPT !.timing = t] : t \in {<<>>, <<EmptyTiming>>, <<SomeTiming>>}}
  \cup {[u EXCEPT !.timing = <<[EmptyTiming EXCEPT ![m] = Ones(Len(@))]>>] :
          m \in DOMAIN EmptyTiming}
  \cup {[u EXCEPT !.voting_for = f] : f \in MCFields}

EpochsOf(e) ==
  {[e EXCEPT ![m] = f] : m \in {"seed", "start_checkpoint", "lock_checkpoint"}, f \in MCFields}
  \cup {[e EXCEPT !.ledger.hash = f] : f \in MCFields}
  \cup {[e EXCEPT !.ledger.total_currency = range] : range \in MCRanges(64)}
  \cup {[e EXCEPT !.epoch_length = range] : range \in MCRanges(32)}

PreconditionsOf(p) ==
  {[p EXCEPT !.network.snarked_ledger_hash = f] : f \in MCFields}
  \cup {[p EXCEPT !.network[m] = range] : range \in MCRanges(32),
          m \in {"blockchain_length", "min_window_density", "global_slot_since_genesis"}}
  \cup {[p EXCEPT !.network.total_currency = range] : range \in MCRanges(64)}
  \cup {[p EXCEPT !.network.staking_epoch_data = e] : e \in EpochsOf(p.network.staking_epoch_data)}
  \cup {[p EXCEPT !.network.next_epoch_data = e] : e \in EpochsOf(p.network.next_epoch_data)}
  \cup {[p EXCEPT !.account.balance = range] : range \in MCRanges(64)}
  \cup {[p EXCEPT !.account.nonce = range] : range \in MCRanges(32)}
  \cup {[p EXCEPT !.account.receipt_chain_hash = f] : f \in MCFields}
  \cup {[p EXCEPT !.account.delegate = k] : k \in MCKeys}
  \cup {[p EXCEPT !.account.state[i] = f] : i \in {1, APP_STATE_LENGTH}, f \in MCFields}
  \cup {[p EXCEPT !.account.action_state = f] : f \in MCFields}
  \cup {[p EXCEPT !.account[m] = b] : m \in {"proved_state", "is_new"}, b \in MCBools}
  \cup {[p EXCEPT !.valid_while = range] : range \in MCRanges(32)}

BodiesOfBase(body) ==
  {[body EXCEPT !.public_key = k[1]] : k \in MCKeys \ {<<>>}}
  \cup {[body EXCEPT ![m] = f] : m \in {"token_id", "call_data"},
                                 f \in {Zero, One, Number1, Number(Ones(254))}}
  \cup {[body EXCEPT !.update = u] : u \in UpdatesOf(body.update)}
  \cup {[body EXCEPT !.balance_change = change] :
          change \in [magnitude : {Zeros(64), Bits(5, 64), Ones(64)}, sgn : {1, -1}]}
  \cup {[body EXCEPT ![m] = b] : b \in BOOLEAN,
          m \in {"increment_nonce", "use_full_commitment", "implicit_account_creation_fee"}}
  \cup {[body EXCEPT ![m] = events] : m \in {"events", "actions"}, events \in MCEvents}
  \cup {[body EXCEPT !.call_depth = 1]}
  \cup {[body EXCEPT !.preconditions = p] : p \in PreconditionsOf(body.preconditions)}
  \cup {[body EXCEPT !.may_use_token = may] :
          may \in [parents_own_token : BOOLEAN, inherit_from_parent : BOOLEAN]}
  \cup {[body EXCEPT !.authorization_kind = kind] :
          kind \in [is_signed : BOOLEAN, is_proved : BOOLEAN,
                    verification_key_hash : {DUMMY_HASH, One}]}
AllBodies == BodiesOfBase(DefaultBody) \cup BodiesOfBase(FullBody)

AllFeePayers ==
  [public_key : {EmptyKey, Key(<<1, 0, 1>>, FALSE), Key(<<1, 0, 1>>, TRUE)},
   fee : {Zeros(64), Bits(5, 64)}, nonce : {Zeros(32), Bits(5, 32), Ones(32)},
   valid_until : {<<>>, <<Zeros(32)>>, <<Bits(5, 32)>>, <<Ones(32)>>}]
===============================================================================
