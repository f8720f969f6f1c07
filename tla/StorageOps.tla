----------------------------- MODULE StorageOps -----------------------------
(***************************************************************************)
(* The operations of the host's transactional storage, as operators on a   *)
(* storage record                                                          *)
(*                                                                         *)
(*     [mode |-> "Recording" | "Enforcing", footprint |-> ..., map |-> ...]*)
(*                                                                         *)
(* translated from soroban-env-host/src/storage.rs, together with the host *)
(* helpers that read and then write an entry (put_contract_data_into_ledger*)
(* upload_contract_wasm, consume_nonce).  Every operation returns an       *)
(* outcome [storage, err]: the storage afterwards, which an operation that *)
(* fails half-way has already changed, and the error code or "Ok".  The    *)
(* value an operation on key k reads is the outcome's storage.map[k].      *)
(*                                                                         *)
(* The key types are those check_supported_ledger_key_type accepts; keys   *)
(* of other types are never generated by the host.                         *)
(***************************************************************************)
EXTENDS Naturals

CONSTANTS
    Key,            \* the ledger keys
    Val,            \* the values an entry can hold
    KeyType,        \* the kind of ledger entry each key denotes
    Source,         \* the ledger before the transaction (SnapshotSource)
    SeqNum,         \* LedgerInfo.sequence_number
    MinTempTtl,     \* LedgerInfo.min_temp_entry_ttl
    MinPersTtl,     \* LedgerInfo.min_persistent_entry_ttl
    MaxEntryTtl,    \* LedgerInfo.max_entry_ttl
    U32Max,         \* the largest u32
    NotLoaded,      \* map.get(key) = None:       the key is not in the map
    NoEntry,        \* map.get(key) = Some(None): the entry does not exist
    NoTtl           \* live_until of an entry that has no TTL

\* Nonces are temporary contract data that contracts cannot address.
LedgerKeyType == {"Account", "ContractCode", "Nonce", "TempData", "PersData"}

LiveUntil == (0 .. U32Max) \union {NoTtl}

Entry == [val : Val, live_until : LiveUntil]

(***************************************************************************)
(* The durability of a key; accounts and trustlines have none.             *)
(***************************************************************************)
get_key_durability(k) ==
    IF KeyType[k] = "Account" THEN "None"
    ELSE IF KeyType[k] \in {"TempData", "Nonce"} THEN "Temporary"
    ELSE "Persistent"

(***************************************************************************)
(* A well-formed ledger: exactly the entries with a durability have a TTL, *)
(* and no entry handed to the host has expired (e2e_invoke.rs rejects such *)
(* input before the invocation starts).                                    *)
(***************************************************************************)
LiveEntry(k, e) ==
    IF get_key_durability(k) = "None"
    THEN e.live_until = NoTtl
    ELSE e.live_until \in SeqNum .. U32Max

ASSUME ConstantsAssumption ==
    /\ KeyType \in [Key -> LedgerKeyType]
    /\ Source \in [Key -> Entry \union {NoEntry}]
    /\ SeqNum \in Nat /\ MinTempTtl \in Nat /\ MinPersTtl \in Nat
    /\ MaxEntryTtl \in Nat /\ U32Max \in Nat
    /\ NoTtl \notin Nat
    /\ NoEntry \notin Entry /\ NotLoaded \notin Entry
    /\ NotLoaded # NoEntry

\* The network configuration is sane: no TTL setting overflows the ledger
\* number, and a minimal TTL is below the maximal one.
ASSUME NetworkAssumption ==
    /\ MinTempTtl \in 1 .. MaxEntryTtl
    /\ MinPersTtl \in 1 .. MaxEntryTtl
    /\ SeqNum + MaxEntryTtl - 1 <= U32Max

ASSUME SourceAssumption ==
    \A k \in Key : Source[k] # NoEntry => LiveEntry(k, Source[k])

get_min_live_until_ledger(durability) ==
    SeqNum + (IF durability = "Temporary" THEN MinTempTtl ELSE MinPersTtl) - 1

max_live_until_ledger == SeqNum + MaxEntryTtl - 1

-----------------------------------------------------------------------------
(***************************************************************************)
(* Footprints.  NoAccess stands for a key the footprint does not list.     *)
(***************************************************************************)
AccessType == {"ReadOnly", "ReadWrite"}

Footprint == [Key -> AccessType \union {"NoAccess"}]

\* Mutants: the upgrade to read-write is lost; a read downgrades.
record_access_NoUpgrade(fp, k, ty) ==
    IF fp[k] = "NoAccess" THEN [fp EXCEPT ![k] = ty] ELSE fp
record_access_Overwrite(fp, k, ty) == [fp EXCEPT ![k] = ty]

record_access(fp, k, ty) ==
    IF fp[k] = "ReadWrite" THEN fp ELSE [fp EXCEPT ![k] = ty]

\* Mutant: any listed key may be written.
enforce_access_AnyListed(fp, k, ty) == fp[k] # "NoAccess"

\* TRUE when the access is granted; otherwise Storage/ExceededLimit.
enforce_access(fp, k, ty) == fp[k] \in {ty, "ReadWrite"}

\* What one declared access allows, another may allow too.
AccessLeq(a, b) == a \in {"NoAccess", b} \/ b = "ReadWrite"

FootprintLeq(f, g) == \A k \in Key : AccessLeq(f[k], g[k])

-----------------------------------------------------------------------------
StorageMap == [Key -> Entry \union {NoEntry, NotLoaded}]

Storage == [mode : {"Recording", "Enforcing"}, footprint : Footprint,
            map : StorageMap]

ErrorCode == {"Ok", "ExceededLimit", "InternalError", "MissingValue",
              "InvalidInput", "InvalidAction", "ExistingValue"}

Outcome(s, e) == [storage |-> s, err |-> e]

\* The storage s with another footprint and map.
Store(s, fp, m) == [mode |-> s.mode, footprint |-> fp, map |-> m]

(***************************************************************************)
(* ExceededLimit of the storage and internal errors end the transaction;   *)
(* a caller can recover from the others (HostError::is_recoverable).       *)
(***************************************************************************)
is_recoverable(e) == e \notin {"Ok", "ExceededLimit", "InternalError"}

with_recording_footprint ==
    [mode |-> "Recording", footprint |-> [k \in Key |-> "NoAccess"],
     map |-> [k \in Key |-> NotLoaded]]

\* The read-only keys are inserted last: a key listed twice is read-only.
build_storage_footprint(read_write, read_only) ==
    [k \in Key |-> IF k \in read_only THEN "ReadOnly"
                   ELSE IF k \in read_write THEN "ReadWrite" ELSE "NoAccess"]

\* Every key of the footprint is in the map, with its ledger entry or None.
with_enforcing_footprint_and_map(fp) ==
    [mode |-> "Enforcing", footprint |-> fp,
     map |-> [k \in Key |-> IF fp[k] = "NoAccess" THEN NotLoaded ELSE Source[k]]]

\* Mutant: a read of an entry that does not exist is not recorded.
prepare_read_only_access_Unrecorded(s, k) ==
    IF s.mode = "Recording"
    THEN Outcome(Store(s, IF Source[k] = NoEntry THEN s.footprint
                          ELSE record_access(s.footprint, k, "ReadOnly"),
                       [s.map EXCEPT ![k] =
                            IF @ = NotLoaded THEN Source[k] ELSE @]),
                 "Ok")
    ELSE Outcome(s, IF enforce_access(s.footprint, k, "ReadOnly")
                    THEN "Ok" ELSE "ExceededLimit")

prepare_read_only_access(s, k) ==
    IF s.mode = "Recording"
    THEN Outcome(Store(s, record_access(s.footprint, k, "ReadOnly"),
                       [s.map EXCEPT ![k] =
                            IF @ = NotLoaded THEN Source[k] ELSE @]),
                 "Ok")
    ELSE Outcome(s, IF enforce_access(s.footprint, k, "ReadOnly")
                    THEN "Ok" ELSE "ExceededLimit")

\* A key that is still not in the map after the access was granted.
try_get_full(s, k) ==
    LET p == prepare_read_only_access(s, k)
    IN  IF p.err = "Ok" /\ p.storage.map[k] = NotLoaded
        THEN Outcome(p.storage, "InternalError") ELSE p

has(s, k) == try_get_full(s, k)

get_with_live_until_ledger(s, k) ==
    LET g == try_get_full(s, k)
    IN  IF g.err = "Ok" /\ g.storage.map[k] = NoEntry
        THEN Outcome(g.storage, "MissingValue") ELSE g

put_opt(s, k, e) ==
    IF s.mode = "Recording"
    THEN Outcome(Store(s, record_access(s.footprint, k, "ReadWrite"),
                       [s.map EXCEPT ![k] = e]), "Ok")
    ELSE IF enforce_access(s.footprint, k, "ReadWrite")
         THEN Outcome(Store(s, s.footprint, [s.map EXCEPT ![k] = e]), "Ok")
         ELSE Outcome(s, "ExceededLimit")

put(s, k, v, live_until) == put_opt(s, k, [val |-> v, live_until |-> live_until])

\* Mutant: the key itself is removed from the map.
del_RemovesKey(s, k) == put_opt(s, k, NotLoaded)

del(s, k) == put_opt(s, k, NoEntry)

(***************************************************************************)
(* extend_ttl: only read access is needed.  A persistent entry is clamped  *)
(* to the maximal live-until ledger, a temporary one is refused.           *)
(***************************************************************************)
\* Mutant: no clamping.
clamped_live_until_Unclamped(extend_to) == SeqNum + extend_to

clamped_live_until(extend_to) ==
    IF SeqNum + extend_to > max_live_until_ledger
    THEN max_live_until_ledger ELSE SeqNum + extend_to

set_live_until(s, k, live_until) ==
    Store(s, s.footprint,
          [s.map EXCEPT ![k] = [val |-> @.val, live_until |-> live_until]])

\* Mutant: the sum is neither checked for overflow nor clamped.
extend_ttl_Unchecked(s, k, threshold, extend_to) ==
    LET g   == get_with_live_until_ledger(s, k)
        old == g.storage.map[k].live_until
    IN  IF threshold > extend_to THEN Outcome(s, "InvalidInput")
        ELSE IF g.err # "Ok" THEN g
        ELSE IF old = NoTtl THEN Outcome(g.storage, "InternalError")
        ELSE IF SeqNum + extend_to > old /\ old - SeqNum <= threshold
             THEN Outcome(set_live_until(g.storage, k, SeqNum + extend_to), "Ok")
        ELSE g

extend_ttl(s, k, threshold, extend_to) ==
    LET g   == get_with_live_until_ledger(s, k)
        old == g.storage.map[k].live_until
        new == SeqNum + extend_to
    IN  IF threshold > extend_to THEN Outcome(s, "InvalidInput")
        ELSE IF g.err # "Ok" THEN g
        ELSE IF old = NoTtl THEN Outcome(g.storage, "InternalError")
        ELSE IF old < SeqNum \/ new > U32Max
             THEN Outcome(g.storage, "InternalError")
        ELSE IF new > max_live_until_ledger /\ get_key_durability(k) = "None"
             THEN Outcome(g.storage, "InternalError")
        ELSE IF new > max_live_until_ledger /\ get_key_durability(k) = "Temporary"
             THEN Outcome(g.storage, "InvalidAction")
        ELSE IF clamped_live_until(extend_to) > old /\ old - SeqNum <= threshold
             THEN Outcome(set_live_until(g.storage, k,
                                         clamped_live_until(extend_to)), "Ok")
        ELSE g

-----------------------------------------------------------------------------
(***************************************************************************)
(* The host's read-then-write helpers.                                     *)
(***************************************************************************)
\* Mutant: the TTL starts over.
put_contract_data_into_ledger_ResetTtl(s, k, v) ==
    LET h == has(s, k)
    IN  IF h.err # "Ok" THEN h
        ELSE put(h.storage, k, v, get_min_live_until_ledger(get_key_durability(k)))

\* An existing entry keeps its TTL, a new one gets the minimal TTL.
put_contract_data_into_ledger(s, k, v) ==
    LET h == has(s, k)
    IN  IF h.err # "Ok" THEN h
        ELSE put(h.storage, k, v,
                 IF h.storage.map[k] # NoEntry
                 THEN h.storage.map[k].live_until
                 ELSE get_min_live_until_ledger(get_key_durability(k)))

upload_contract_wasm(s, k, v) ==
    LET h == has(s, k)
    IN  IF h.err # "Ok" \/ h.storage.map[k] # NoEntry THEN h
        ELSE put(h.storage, k, v, get_min_live_until_ledger("Persistent"))

consume_nonce(s, k, v, live_until) ==
    LET h   == has(s, k)
        min == get_min_live_until_ledger("Temporary")
    IN  IF h.err # "Ok" THEN h
        ELSE IF h.storage.map[k] # NoEntry
             THEN Outcome(h.storage, "ExistingValue")
        ELSE put(h.storage, k, v, IF live_until > min THEN live_until ELSE min)

\* The Stellar asset contract loads an account or a trustline, which must
\* exist, and writes it back without a TTL.
write_account(s, k, v) ==
    LET g == get_with_live_until_ledger(s, k)
    IN  IF g.err # "Ok" THEN g ELSE put(g.storage, k, v, NoTtl)
=============================================================================
