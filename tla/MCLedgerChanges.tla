--------------------------- MODULE MCLedgerChanges ---------------------------
(* LedgerChanges, and with it StorageTx, on a ledger with one entry of each
   kind: temporary data that does not exist yet, a contract instance, an
   account, a Wasm blob beyond the maximal TTL and a nonce.  The two values
   differ in size. *)
EXTENDS LedgerChanges, FiniteSets

CONSTANTS t1, p1, a1, c1, n1,
          MaxKeys       \* bound on the keys of a footprint

MCKey == {t1, p1, a1, c1, n1}
MCKeyType ==
    [k \in MCKey |-> CASE k = t1 -> "TempData" [] k = p1 -> "PersData"
                       [] k = a1 -> "Account" [] k = c1 -> "ContractCode"
                       [] k = n1 -> "Nonce"]
MCSource ==
    [k \in MCKey |-> CASE k = p1 -> [val |-> "x", live_until |-> SeqNum + 1]
                       [] k = a1 -> [val |-> "x", live_until |-> NoTtl]
                       [] k = c1 -> [val |-> "x", live_until |-> U32Max - 1]
                       [] k \in {t1, n1} -> NoEntry]
MCVal == {"x", "y"}
MCSize == [v \in MCVal |-> IF v = "x" THEN 1 ELSE 2]

FewKeys ==
    Cardinality({k \in Key : storage.footprint[k] # "NoAccess"}) <= MaxKeys
=============================================================================
