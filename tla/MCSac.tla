-------------------------------- MODULE MCSac --------------------------------
(* A small world for the Stellar asset contract. *)
EXTENDS Sac

CONSTANTS issuer, alice, pool

MCAmount == {-1, 0, 1, I64Max + 1}
MCPair == { <<alice, pool>> }
MCIssuerState == { {}, {"Required", "Revocable", "ClawbackEnabled"} }

Held(balance, selling, buying, limit, flags) ==
    [balance |-> balance, selling |-> selling, buying |-> buying,
     limit |-> limit, flags |-> flags]

Both(i, a) == [x \in Account |-> IF x = issuer THEN i ELSE a]

MCStart ==
    [id \in {"native", "credit"} |->
        IF id = "native"
        THEN { Both(Held(2, 0, 0, 0, {}), Held(1, 0, 1, 0, {})),
               Both(Held(1, 0, 0, 0, {}), Held(0, 0, 0, 0, {})) }
        ELSE { Both(NoEntry, NoEntry),
               Both(NoEntry, Held(0, 0, 1, 2, {})),
               Both(NoEntry, Held(2, 1, 0, 2, {"Authorized", "ClawbackEnabled"})) }]

MCLiveUntil == {1, 4}

\* `last' describes a step for the action properties; no guard reads it.
LedgerView == <<ledger, booked, consent>>
=============================================================================
