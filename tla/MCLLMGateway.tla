---------------------------- MODULE MCLLMGateway ----------------------------
(* Small instances of LLMGateway: two callers, two runs, three days. *)
EXTENDS LLMGateway, TLC

CONSTANTS c1, c2, r1, r2, k1, k2

NoOverrides == [s \in Scopes |-> [a \in Axes |-> NoCap]]

\* A run that asks for a looser daily cap and a tighter per-call cap.
MixedOverrides ==
    [s \in Scopes |-> [a \in Axes |->
        CASE s = "day" -> 9 [] s = "per_call" -> 1 [] OTHER -> NoCap]]

Amount(u, t) == [a \in Axes |-> IF a = "usd" THEN u ELSE t]

Request(r, k, cacheable, priced, amount, o) ==
    [run |-> r, key |-> k, cacheable |-> cacheable, priced |-> priced,
     reserve |-> amount, overrides |-> o]

\* A cacheable call and a sampled one with overrides.
TwoRequests ==
    {Request(r1, k1, TRUE, TRUE, Amount(1, 1), NoOverrides),
     Request(r2, k2, FALSE, TRUE, Amount(1, 1), MixedOverrides)}

\* Also one whose reservation is over its overrides, and one without a price.
AllRequests ==
    TwoRequests \cup
    {Request(r2, k2, TRUE, TRUE, Amount(2, 1), MixedOverrides),
     Request(r1, k1, TRUE, FALSE, Amount(1, 1), NoOverrides)}

\* Less than reserved; more than estimated.
MCUsages == {Amount(1, 0), Amount(2, 2)}
MCMaxUsage == Amount(2, 2)

MCCaps ==
    [s \in Scopes |-> [a \in Axes |->
        CASE s = "per_call" -> 3 [] s = "run" -> 2 [] s = "day" -> 1]]

\* Callers differ only by name.
CallerSymmetry == Permutations(Callers)
=============================================================================
