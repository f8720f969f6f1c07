---------------------------- MODULE LedgerChanges ----------------------------
(***************************************************************************)
(* What an invocation hands back to the embedder once its host function    *)
(* frame has ended: the ledger changes and the rent changes computed from  *)
(* them (soroban-env-host/src/e2e_invoke.rs), over every storage that a    *)
(* transaction of StorageTx can end with.                                  *)
(***************************************************************************)
EXTENDS StorageTx

CONSTANT Size       \* the encoded size of an entry with a given value

ASSUME SizeAssumption == Size \in [Val -> 0 .. U32Max]

Exists(e) == e \notin {NoEntry, NotLoaded}

\* The invocation succeeded; on failure no changes are returned.
Committed ==
    Len(saved) = 0 /\ status = "run" /\ storage.mode = "Enforcing"

\* Mutant: removed entries are skipped.
ChangedKeys_OnlyExisting == {k \in Key : Exists(storage.map[k])}

\* The keys with a change: every key of the storage map, thus of the footprint.
ChangedKeys == {k \in Key : storage.map[k] # NotLoaded}

old_live_until_ledger(k) ==
    IF Exists(Source[k]) THEN Source[k].live_until ELSE 0

\* Mutant: the live-until ledger of the storage as it is.
new_live_until_ledger_Reduced(k) ==
    IF ~ Exists(storage.map[k]) THEN 0 ELSE storage.map[k].live_until

\* `Never reduce the final live until ledger'; 0 for an entry that is gone.
new_live_until_ledger(k) ==
    IF ~ Exists(storage.map[k]) THEN 0
    ELSE IF storage.map[k].live_until > old_live_until_ledger(k)
         THEN storage.map[k].live_until ELSE old_live_until_ledger(k)

(***************************************************************************)
(* LedgerEntryChange.  The new value is present only for an entry that     *)
(* exists and whose key is ReadWrite; the TTL change only for keys that    *)
(* have a durability.                                                      *)
(***************************************************************************)
get_ledger_changes ==
    [k \in ChangedKeys |->
        [read_only |-> storage.footprint[k] = "ReadOnly",
         old_entry_size_bytes |->
            IF Exists(Source[k]) THEN Size[Source[k].val] ELSE 0,
         new_value |->
            IF storage.footprint[k] = "ReadWrite" /\ Exists(storage.map[k])
            THEN storage.map[k].val ELSE NoEntry,
         has_ttl |-> get_key_durability(k) # "None",
         old_live_until |-> IF get_key_durability(k) # "None"
                            THEN old_live_until_ledger(k) ELSE 0,
         new_live_until |-> IF get_key_durability(k) # "None"
                            THEN new_live_until_ledger(k) ELSE 0]]

(***************************************************************************)
(* The keys whose change pays rent: extended, or grown in size, and with   *)
(* an encoded new value.                                                   *)
(***************************************************************************)
extract_rent_changes(changes) ==
    {k \in DOMAIN changes :
        /\ changes[k].has_ttl
        /\ changes[k].new_value # NoEntry
        /\ \/ changes[k].old_live_until < changes[k].new_live_until
           \/ changes[k].old_entry_size_bytes < Size[changes[k].new_value]}

-----------------------------------------------------------------------------
\* The value a ledger has for k once the embedder applied the change of k.
AppliedValue(c, k) ==
    IF c.read_only THEN (IF Exists(Source[k]) THEN Source[k].val ELSE NoEntry)
    ELSE c.new_value

(***************************************************************************)
(* Applying the changes gives the ledger the values the contracts saw at   *)
(* the end, and a change is returned for every key of the footprint: no    *)
(* write is lost because its key ended up read-only, deleted or re-created.*)
(***************************************************************************)
ChangesReproduceStorage ==
    Committed =>
        \A k \in Key :
            IF storage.footprint[k] = "NoAccess" THEN k \notin ChangedKeys
            ELSE /\ k \in ChangedKeys
                 /\ AppliedValue(get_ledger_changes[k], k) =
                       IF Exists(storage.map[k]) THEN storage.map[k].val
                       ELSE NoEntry

(***************************************************************************)
(* An entry that is in the ledger before and after the transaction never   *)
(* loses lifetime it has paid for, even when a contract deleted and        *)
(* re-created it on the way, and never ends below what contracts saw.      *)
(***************************************************************************)
SurvivingEntriesKeepTtl ==
    Committed =>
        \A k \in ChangedKeys :
            get_key_durability(k) # "None" /\ Exists(storage.map[k]) =>
                /\ get_ledger_changes[k].new_live_until >= old_live_until_ledger(k)
                /\ get_ledger_changes[k].new_live_until
                        >= storage.map[k].live_until

(***************************************************************************)
(* e2e_invoke.rs documents extract_rent_changes as returning every         *)
(* meaningful change of a non-removed entry with a TTL, skipping it only   *)
(* if it `is not extended' and did not grow.  extend_ttl lets contracts    *)
(* extend entries of the read-only footprint as well.                      *)
(***************************************************************************)
EveryExtensionPaysRent ==
    Committed =>
        \A k \in ChangedKeys :
            /\ get_key_durability(k) # "None"
            /\ Exists(storage.map[k])
            /\ new_live_until_ledger(k) > old_live_until_ledger(k)
            => k \in extract_rent_changes(get_ledger_changes)
=============================================================================
