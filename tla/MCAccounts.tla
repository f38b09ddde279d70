----------------------------- MODULE MCAccounts -----------------------------
(* A small instance of Accounts for TLC: the names "Bob" and "bob" differ in *)
(* case only.                                                                *)
EXTENDS Accounts, TLC

CONSTANTS Bob, bob

MCNames    == {Bob, bob}
MCLower    == [n \in MCNames |-> "bob"]
MCCasefold == [n \in MCNames |-> "bob"]

Symmetry == Permutations(Requests) \cup Permutations(MCNames)

\* What an answered request leaves behind, for the others and for the
\* properties, and what is left of the past: counters that somebody may still
\* count under, sessions that have not expired.  States with the same view have
\* the same future and violate the same properties.
View ==
  LET Done(r) == pc[r] = "done"
      InUse == (Identities \X {Bucket(now)})
                 \cup {KeyOf(r) : r \in {q \in Requests : ~Done(q)}}
      Kept(r) ==
        IF ~Done(r)
        THEN <<kind[r], name[r], knows[r], token[r], who[r], ident[r], bucket[r],
               mine[r], r \in prompt, r \in Rightly, r \in stale, home[r], knew[r]>>
        ELSE <<IF r \in stored THEN <<name[r], home[r], knew[r]>> ELSE <<>>,
               r \in Tokens,
               IF Ended(token[r]) /\ kind[r] = "logout" THEN token[r] ELSE Nobody,
               IF r \in Rightly /\ KeyOf(r) \in InUse THEN KeyOf(r) ELSE <<>>,
               r \in stale /\ answer[r] = "ok">>
      Left(r) == IF until[r] > now THEN until[r] ELSE 0
  IN  <<now, failures, hits = [k \in Keys |-> 0], deadline = [k \in Keys |-> NoTtl],
        {<<k, hits[k], deadline[k]>> : k \in InUse},
        pc, owner, rowLock, stored, pending, [r \in Requests |-> Kept(r)],
        [r \in live \cup Tokens |-> <<Left(r), holder[r]>>]>>
=============================================================================
