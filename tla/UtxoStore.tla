----------------------------- MODULE UtxoStore -----------------------------
(***************************************************************************)
(* What the stack of coin views promises to block validation: one UTXO set *)
(* with the block it belongs to, a scratch copy on which a block is        *)
(* connected or disconnected and which is then committed or dropped as a   *)
(* whole, and a durable copy that is what a restart finds.  No caching, no *)
(* flags, no layers.                                                       *)
(***************************************************************************)
CONSTANTS Outpoints,  \* COutPoints
          Coins,      \* unspent Coins (spendable outputs with metadata)
          Spent,      \* "no unspent coin here"
          Blocks,     \* block hashes
          NullHash    \* uint256(): no block yet

VARIABLES durable,      \* coins a restart would find
          durableBest,  \* the block durable is the state of
          utxo,         \* the UTXO set of the active chain
          best,         \* the block utxo is the state of
          work,         \* scratch copy; equal to utxo while no block is open
          open          \* a block is being connected or disconnected

uvars == <<durable, durableBest, utxo, best, work, open>>

Map == [Outpoints -> Coins \cup {Spent}]

Init ==
  /\ durable = [o \in Outpoints |-> Spent]
  /\ durableBest = NullHash
  /\ utxo = durable /\ best = durableBest /\ work = durable
  /\ open = FALSE

Begin ==
  /\ ~open
  /\ open' = TRUE
  /\ UNCHANGED <<durable, durableBest, utxo, best, work>>

Set(o, c) ==
  /\ open
  /\ work' = [work EXCEPT ![o] = c]
  /\ UNCHANGED <<durable, durableBest, utxo, best, open>>

Commit(b) ==
  /\ open
  /\ utxo' = work /\ best' = b
  /\ open' = FALSE
  /\ UNCHANGED <<durable, durableBest, work>>

Abandon ==
  /\ open
  /\ work' = utxo
  /\ open' = FALSE
  /\ UNCHANGED <<durable, durableBest, utxo, best>>

Persist ==
  /\ ~open
  /\ durable' = utxo /\ durableBest' = best
  /\ UNCHANGED <<utxo, best, work, open>>

Restart ==
  /\ utxo' = durable /\ best' = durableBest /\ work' = durable
  /\ open' = FALSE
  /\ UNCHANGED <<durable, durableBest>>

Next ==
  \/ Begin \/ Abandon \/ Persist \/ Restart
  \/ \E o \in Outpoints, c \in Coins \cup {Spent} : Set(o, c)
  \/ \E b \in Blocks : Commit(b)

Spec == Init /\ [][Next]_uvars
=============================================================================
