------------------------- MODULE LedgerChangesProofs -------------------------
(***************************************************************************)
(* What e2e_invoke hands back is a function of the storage a transaction   *)
(* ends with, so both results follow from the inductive invariant of       *)
(* StorageTx: KeyInv says which keys the map has and that a key that is    *)
(* not ReadWrite still has the ledger's value.                             *)
(***************************************************************************)
EXTENDS LedgerChanges, StorageTxProofs

\* What the proofs below use of a key of an enforcing storage.
LEMMA CommittedKey ==
    ASSUME Inv, Committed, NEW k \in Key
    PROVE  /\ storage.footprint[k] \in AccessType \union {"NoAccess"}
           /\ storage.map[k] = NotLoaded <=> storage.footprint[k] = "NoAccess"
           /\ storage.footprint[k] # "ReadWrite" =>
                 storage.map[k] = NotLoaded \/ SameValue(storage.map[k], Source[k])
           /\ Exists(storage.map[k]) => LiveEntry(k, storage.map[k])
<1>1. storage \in Storage
      /\ KeyInv("Enforcing", storage.footprint[k], k, storage.map[k])
  BY DEF Inv, StorageInv, MapInv, Committed
<1> QED
  BY <1>1 DEF KeyInv, Storage, Footprint, Exists

\* Applying the change of a key gives it the value the contracts last saw.
LEMMA ChangeOfKey ==
    ASSUME Inv, Committed, NEW k \in Key, k \in ChangedKeys
    PROVE  AppliedValue(get_ledger_changes[k], k) =
              IF Exists(storage.map[k]) THEN storage.map[k].val ELSE NoEntry
<1> DEFINE c == get_ledger_changes[k]
<1>1. /\ c.read_only = (storage.footprint[k] = "ReadOnly")
      /\ c.new_value = IF storage.footprint[k] = "ReadWrite" /\ Exists(storage.map[k])
                       THEN storage.map[k].val ELSE NoEntry
  BY DEF get_ledger_changes
<1>2. storage.map[k] # NotLoaded
  BY DEF ChangedKeys
<1>3. storage.footprint[k] \in {"ReadOnly", "ReadWrite"}
  BY <1>2, CommittedKey DEF AccessType
<1>4. CASE storage.footprint[k] = "ReadWrite"
  BY <1>1, <1>4 DEF AppliedValue
<1>5. CASE storage.footprint[k] = "ReadOnly"
  <2>1. SameValue(storage.map[k], Source[k])
    BY <1>2, <1>5, CommittedKey
  <2> QED
    BY <1>1, <1>5, <2>1 DEF AppliedValue, SameValue, Exists
<1> QED
  BY <1>3, <1>4, <1>5

\* For every transaction that succeeds, applying the changes it returns gives
\* the ledger the values its contracts saw at the end, and the changes are for
\* exactly the keys of its footprint (get_ledger_changes).
THEOREM ChangesAreComplete == Spec => []ChangesReproduceStorage
<1>1. Inv => ChangesReproduceStorage
  <2> SUFFICES ASSUME Inv, Committed, NEW k \in Key
               PROVE  IF storage.footprint[k] = "NoAccess" THEN k \notin ChangedKeys
                      ELSE /\ k \in ChangedKeys
                           /\ AppliedValue(get_ledger_changes[k], k) =
                                 IF Exists(storage.map[k]) THEN storage.map[k].val
                                 ELSE NoEntry
    BY DEF ChangesReproduceStorage
  <2>1. k \in ChangedKeys <=> storage.footprint[k] # "NoAccess"
    BY CommittedKey DEF ChangedKeys
  <2> QED
    BY <2>1, ChangeOfKey
<1> QED
  BY <1>1, Invariance, PTL

\* An entry that is in the ledger before and after a successful transaction
\* keeps at least the lifetime it had, and at least the one contracts saw.
THEOREM PaidLifetimeIsKept == Spec => []SurvivingEntriesKeepTtl
<1>1. Inv => SurvivingEntriesKeepTtl
  <2> SUFFICES ASSUME Inv, Committed, NEW k \in ChangedKeys,
                      get_key_durability(k) # "None", Exists(storage.map[k])
               PROVE  /\ get_ledger_changes[k].new_live_until >= old_live_until_ledger(k)
                      /\ get_ledger_changes[k].new_live_until >= storage.map[k].live_until
    BY DEF SurvivingEntriesKeepTtl
  <2>1. k \in Key
    BY DEF ChangedKeys
  <2>2. get_ledger_changes[k].new_live_until = new_live_until_ledger(k)
    BY DEF get_ledger_changes
  <2>3. LiveEntry(k, storage.map[k])
    BY <2>1, CommittedKey
  <2>4. Exists(Source[k]) => LiveEntry(k, Source[k])
    BY <2>1, SourceAssumption DEF Exists
  <2>5. storage.map[k].live_until \in Nat /\ old_live_until_ledger(k) \in Nat
    BY <2>3, <2>4, ConstantsAssumption DEF LiveEntry, old_live_until_ledger
  <2> QED
    BY <2>2, <2>5 DEF new_live_until_ledger
<1> QED
  BY <1>1, Invariance, PTL
=============================================================================
