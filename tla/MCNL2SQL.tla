------------------------------ MODULE MCNL2SQL ------------------------------
(* Small instances of NL2SQL, and of the gateway and the usage pages with    *)
(* it, for TLC.                                                              *)
EXTENDS NL2SQL, TLC

Symmetry == Permutations(Calls)

\* What a call that has ended leaves behind, for the others and for the
\* properties: states with the same view have the same future and violate the
\* same properties.
View ==
  LET Of(c) == CASE pc[c] = "idle" -> <<>>
                 [] pc[c] = "done" ->
                      IF c \in asked THEN <<tokens[c], outcome[c], loss[c]>> ELSE <<>>
                 [] OTHER -> <<kind[c], attempt[c], c \in emitted, got[c], tokens[c],
                               outcome[c], c \in bare, c \in linked>>
      Row(r) == IF r.call \in asked THEN r ELSE <<r.call, r.at>>
  IN  <<clock, conversation, pc, [c \in Calls |-> Of(c)],
        {Row(r) : r \in ledger}, reading, offset, {r.call : r \in base},
        {r.call : r \in seen}, sqlVars, NoRepeatedDelta, LedgerExact>>
=============================================================================
