---------------------------- MODULE MCLedgerStore ---------------------------
(***************************************************************************)
(* Instances of LedgerStore for TLC.  One coin h1 of 100 mc is issued and  *)
(* spent; its output h3 is locked and has two rival spenders.              *)
(***************************************************************************)
EXTENDS LedgerStore, TLC

CONSTANTS h1, h2, h3, h4, k1, k2, x, r, junk

MCHash == {h1, h2, h3, h4}
MCKey == {k1, k2}
MCSecret == {x, r}
MCWitness == {x, r, junk}
MCPolicy == [rate_ppm |-> 10000, cap_mc |-> 5, exempt_below_mc |-> 10]
Free == [rate_ppm |-> 0, cap_mc |-> 0, exempt_below_mc |-> 10]
MCNext == [policy |-> Free, effective_at |-> 2]

Plain(h, a) == [kind |-> "plain", hash |-> h, amount |-> a, witness |-> NULL]
Claim(h, a, w) == [kind |-> "claim", hash |-> h, amount |-> a, witness |-> w]
Refund(h, w) == [kind |-> "refund", hash |-> h, amount |-> 0, witness |-> w]
Out(h, a) == [hash |-> h, amount |-> a, lock |-> NULL]
HashLock(e) ==
  [preimage_hash |-> Sha256(x), expiry |-> e, refund_hash |-> Sha256(r)]
Locked(h, a, e) == [hash |-> h, amount |-> a, lock |-> HashLock(e)]
Batch(in, out) == [inputs |-> in, outputs |-> out]

\* h1 moves into the lock on h3; the payee claims h3, the funder refunds it.
Fund == Batch(<<Plain(h1, 100)>>, <<Locked(h3, 99, 2)>>)
ClaimBody == Batch(<<Claim(h3, 99, x)>>, <<Out(h4, 99)>>)
RefundBody == Batch(<<Refund(h3, r)>>, <<Out(h2, 99)>>)
MCHtlc == {Fund, ClaimBody, RefundBody}
MCHtlcIssue == {<<Out(h1, 100)>>}

\* Batches that race for h1 and rebuild it, and the ways to get one wrong.
Split == Batch(<<Plain(h1, 100)>>, <<Out(h2, 60), Out(h3, 39)>>)
Merge == Batch(<<Plain(h2, 60), Plain(h3, 39)>>, <<Out(h4, 99)>>)
Twice == Batch(<<Plain(h1, 100), Plain(h1, 100)>>, <<Out(h2, 100), Out(h3, 98)>>)
FarLock == Batch(<<Plain(h1, 100)>>, <<Locked(h3, 99, 9)>>)
MCBatches == {Split, Merge, Twice, FarLock}
MCBatchIssue == {<<Out(h1, 100)>>, <<Out(h4, 90), Out(h4, 10)>>}

\* No definition tells one idempotency key from another.
KeySymmetry == Permutations(MCKey)
=============================================================================
