------------------------------ MODULE LockEval ------------------------------
(***************************************************************************)
(* Component C02 (impl/aicash/lockeval.py): the one condition a ledger     *)
(* entry can carry, and the truth table that decides whether an input may  *)
(* spend it at a given instant of the mint's clock.                        *)
(***************************************************************************)
EXTENDS Integers

CONSTANTS
  Witness,   \* the byte strings a caller may present as a witness
  Secret,    \* those of them that are exactly 32 bytes long
  NULL       \* absent: no lock, no witness, no time

\* SHA-256 is collision-free on the secrets in play, and a digest is never
\* itself presented as a secret.
Sha256(w) == <<"sha256", w>>

Digest == {Sha256(s) : s \in Secret}

\* expiry is any integer: a caller can put zero in the dict.
Lock == [preimage_hash : Digest, expiry : Int, refund_hash : Digest]

ValidLock(lock) == lock.expiry > 0

-----------------------------------------------------------------------------
ClaimVerdictLate(lock, witness, now) ==   \* mutant: the boundary is a claim's
  IF now > lock.expiry THEN "lock_expired"
  ELSE IF Sha256(witness) = lock.preimage_hash THEN "ok"
  ELSE "lock_preimage_invalid"

\* The boundary instant now = expiry belongs to the refund path.
ClaimVerdict(lock, witness, now) ==
  IF now >= lock.expiry THEN "lock_expired"
  ELSE IF Sha256(witness) = lock.preimage_hash THEN "ok"
  ELSE "lock_preimage_invalid"

RefundVerdict(lock, witness, now) ==
  IF now < lock.expiry THEN "lock_not_expired"
  ELSE IF Sha256(witness) = lock.refund_hash THEN "ok"
  ELSE "refund_invalid"

\* A plain form carries no witness, the other two do.
ShapeLegal(form) == form.kind = "plain" <=> form.witness = NULL

\* form.kind is "plain", "claim" or "refund"; lock is a Lock or NULL.
Evaluate(lock, form, now) ==
  IF ~ShapeLegal(form) THEN "bad_format"
  ELSE IF lock = NULL
  THEN IF form.kind = "plain" THEN "ok" ELSE "bad_format"
  ELSE CASE form.kind = "plain" -> "lock_preimage_invalid"
         [] form.kind # "plain" /\ form.witness \notin Secret ->
              "bad_witness_length"
         [] form.kind = "claim" /\ form.witness \in Secret ->
              ClaimVerdict(lock, form.witness, now)
         [] form.kind = "refund" /\ form.witness \in Secret ->
              RefundVerdict(lock, form.witness, now)
=============================================================================
