----------------------------- MODULE MCPreflight -----------------------------
(* Preflight on a ledger with one entry of each kind: temporary data, a Wasm
   blob and a nonce that do not exist, persistent data and an account that
   do. *)
EXTENDS Preflight, FiniteSets

CONSTANTS t1, p1, a1, c1, n1,
          MaxKeys       \* bound on the keys of each footprint

MCKey == {t1, p1, a1, c1, n1}
MCKeyType ==
    [k \in MCKey |-> CASE k = t1 -> "TempData" [] k = p1 -> "PersData"
                       [] k = a1 -> "Account" [] k = c1 -> "ContractCode"
                       [] k = n1 -> "Nonce"]
MCSource ==
    [k \in MCKey |-> CASE k = p1 -> [val |-> "x", live_until |-> SeqNum + 1]
                       [] k = a1 -> [val |-> "x", live_until |-> NoTtl]
                       [] k \in {t1, c1, n1} -> NoEntry]
MCVal == {"x", "y"}

FewKeys ==
    \A fp \in {rec.footprint, enf.footprint} :
        Cardinality({k \in Key : fp[k] # "NoAccess"}) <= MaxKeys
=============================================================================
