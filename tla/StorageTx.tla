------------------------------ MODULE StorageTx ------------------------------
(***************************************************************************)
(* One transaction against the host's storage.  Contract frames nest: a    *)
(* frame's rollback point is the storage map at its start (host/frame.rs,  *)
(* push_context), and a frame that ends with an error restores it          *)
(* (pop_context).  The footprint is not part of the rollback point.        *)
(*                                                                         *)
(* A failing storage operation ends its frame with that error: it traps a  *)
(* Wasm contract and is propagated with `?' by native code.  The caller of *)
(* the failed frame continues when it used try_call and the error is       *)
(* recoverable; otherwise its own frame fails as well.                     *)
(***************************************************************************)
EXTENDS StorageOps, Sequences

CONSTANT MaxDepth   \* bound on nested frames (DEFAULT_HOST_DEPTH_LIMIT)

ASSUME MaxDepthAssumption == MaxDepth \in Nat

VARIABLES
    storage,    \* Host.storage
    saved,      \* the rollback points of the frames on the context stack
    status,     \* "run", or the kind of error that is being propagated
    err         \* the error code of the last storage operation

vars == <<storage, saved, status, err>>

TypeOK ==
    /\ storage \in Storage
    /\ saved \in Seq(StorageMap)
    /\ status \in {"run", "fail", "abort"}
    /\ err \in ErrorCode

\* The host function's own frame is on the stack.  An invocation runs on the
\* footprint the transaction declares; preflight runs with a recording one.
Init ==
    /\ \/ storage = with_recording_footprint
       \/ \E read_write, read_only \in SUBSET Key :
             storage = with_enforcing_footprint_and_map(
                          build_storage_footprint(read_write, read_only))
    /\ saved = <<storage.map>>
    /\ status = "run"
    /\ err = "Ok"

Running == status = "run" /\ Len(saved) > 0

\* A host function that ends with outcome o.
Exec(o) ==
    /\ Running
    /\ storage' = o.storage
    /\ err' = o.err
    /\ status' = IF o.err = "Ok" THEN "run"
                 ELSE IF is_recoverable(o.err) THEN "fail" ELSE "abort"
    /\ UNCHANGED saved

ContractDataKey == {k \in Key : KeyType[k] \in {"TempData", "PersData"}}

HasContractData(k) == Exec(has(storage, k))

GetContractData(k) == Exec(get_with_live_until_ledger(storage, k))

PutContractData(k, v) == Exec(put_contract_data_into_ledger(storage, k, v))

DelContractData(k) == Exec(del(storage, k))

ExtendContractDataTtl(k, threshold, extend_to) ==
    Exec(extend_ttl(storage, k, threshold, extend_to))

\* The instance entry first; then, once it was read back, the code entry.
ExtendInstanceAndCodeTtl(instance, code, threshold, extend_to) ==
    LET i == extend_ttl(storage, instance, threshold, extend_to)
    IN  Exec(IF i.err # "Ok" THEN i
             ELSE extend_ttl(i.storage, code, threshold, extend_to))

UploadContractWasm(k, v) == Exec(upload_contract_wasm(storage, k, v))

\* Nonces whose signature expires too late are refused before this point.
ConsumeNonce(k, v, live_until) == Exec(consume_nonce(storage, k, v, live_until))

\* load_account, the asset contract's reads, retrieve_wasm_from_storage.
LoadEntry(k) == Exec(get_with_live_until_ledger(storage, k))

WriteAccount(k, v) == Exec(write_account(storage, k, v))

PushFrame ==
    /\ Running
    /\ Len(saved) < MaxDepth
    /\ saved' = Append(saved, storage.map)
    /\ UNCHANGED <<storage, status, err>>

PopFrame ==
    /\ Running
    /\ saved' = SubSeq(saved, 1, Len(saved) - 1)
    /\ UNCHANGED <<storage, status, err>>

\* Mutant: an abort leaves the map as it is.
RollbackFrame_KeepsOnAbort ==
    /\ Len(saved) > 0
    /\ storage' = IF status = "abort" THEN storage
                  ELSE Store(storage, storage.footprint, saved[Len(saved)])
    /\ saved' = SubSeq(saved, 1, Len(saved) - 1)
    /\ IF status = "abort" THEN status' = "abort"
       ELSE \/ status' = "fail"
            \/ Len(saved) > 1 /\ status' = "run"
    /\ UNCHANGED err

\* pop_context with the rollback point of the failing frame.  The frame below,
\* if there is one, recovers with try_call or fails too; from an abort
\* nobody recovers.
RollbackFrame ==
    /\ Len(saved) > 0
    /\ storage' = Store(storage, storage.footprint, saved[Len(saved)])
    /\ saved' = SubSeq(saved, 1, Len(saved) - 1)
    /\ IF status = "abort" THEN status' = "abort"
       ELSE \/ status' = "fail"
            \/ Len(saved) > 1 /\ status' = "run"
    /\ UNCHANGED err

Next ==
    \/ \E k \in ContractDataKey :
          \/ HasContractData(k)
          \/ GetContractData(k)
          \/ DelContractData(k)
          \/ \E v \in Val : PutContractData(k, v)
          \/ \E threshold, extend_to \in 0 .. U32Max :
                ExtendContractDataTtl(k, threshold, extend_to)
    \/ \E k \in Key : KeyType[k] \in {"Account", "ContractCode"} /\ LoadEntry(k)
    \/ \E k \in Key, v \in Val :
          \/ KeyType[k] = "ContractCode" /\ UploadContractWasm(k, v)
          \/ KeyType[k] = "Account" /\ WriteAccount(k, v)
          \/ /\ KeyType[k] = "Nonce"
             /\ \E l \in SeqNum .. max_live_until_ledger : ConsumeNonce(k, v, l)
    \/ \E i, c \in Key : \E threshold, extend_to \in 0 .. U32Max :
          /\ KeyType[i] = "PersData" /\ KeyType[c] = "ContractCode"
          /\ ExtendInstanceAndCodeTtl(i, c, threshold, extend_to)
    \/ PushFrame
    \/ PopFrame
    \/ RollbackFrame

Spec == Init /\ [][Next]_vars

-----------------------------------------------------------------------------
SameValue(e, f) ==
    \/ e = f
    \/ /\ e \notin {NoEntry, NotLoaded} /\ f \notin {NoEntry, NotLoaded}
       /\ e.val = f.val

\* The maps that are, or can again become, the transaction's view.
LiveMaps == {storage.map} \union {saved[i] : i \in 1 .. Len(saved)}

(***************************************************************************)
(* Storage partitions transactions by footprint: whatever the contracts do *)
(* and however their frames roll back, an entry that the footprint does    *)
(* not list as ReadWrite keeps the value and the presence it has in the    *)
(* ledger.  (Its TTL may be extended: extend_ttl asks for read access.)    *)
(***************************************************************************)
UnwrittenKeysKeepValue ==
    \A m \in LiveMaps : \A k \in Key :
        storage.footprint[k] # "ReadWrite" =>
            m[k] = NotLoaded \/ SameValue(m[k], Source[k])

(***************************************************************************)
(* In enforcing mode the map holds every key of the footprint and no other *)
(* one, after any rollback: `key has to be in the storage map at this      *)
(* point' in try_get_full is never false.                                  *)
(***************************************************************************)
EnforcingMapIsFootprint ==
    storage.mode = "Enforcing" =>
        \A m \in LiveMaps : \A k \in Key :
            m[k] = NotLoaded <=> storage.footprint[k] = "NoAccess"

(***************************************************************************)
(* In recording mode a key is only in the map if the footprint has it, so  *)
(* get_ledger_changes finds an access type for every key; rolling a frame  *)
(* back must therefore keep the footprint.                                 *)
(***************************************************************************)
RecordedKeysAreInFootprint ==
    storage.mode = "Recording" =>
        \A m \in LiveMaps : \A k \in Key :
            m[k] # NotLoaded => storage.footprint[k] # "NoAccess"

(***************************************************************************)
(* Entries stay live, and no operation pushes a live-until ledger past the *)
(* network's maximum (an entry may only have been beyond it before).       *)
(***************************************************************************)
TtlInRange ==
    \A m \in LiveMaps : \A k \in Key :
        m[k] \notin {NoEntry, NotLoaded} =>
            /\ LiveEntry(k, m[k])
            /\ get_key_durability(k) # "None" =>
                  \/ m[k].live_until <= max_live_until_ledger
                  \/ Source[k] # NoEntry /\ m[k].live_until = Source[k].live_until

\* A transaction whose host function frame fails leaves the map it started with.
FailedTxLeavesNoTrace ==
    Len(saved) = 0 /\ status # "run" =>
        \A k \in Key :
            storage.map[k] = IF storage.mode = "Recording"
                                \/ storage.footprint[k] = "NoAccess"
                             THEN NotLoaded ELSE Source[k]

(***************************************************************************)
(* storage.rs explains the internal error of extend_ttl with `overflowing  *)
(* here means a misconfiguration of the network'.  Under a sane network    *)
(* configuration no storage operation should then end the transaction with *)
(* an internal error, whatever arguments the contract passes.              *)
(***************************************************************************)
NoInternalError == err # "InternalError"

(***************************************************************************)
(* No operation shortens the life of an entry that exists before and after *)
(* it: put_contract_data keeps the TTL of an existing entry, extend_ttl    *)
(* never lowers one.  Only undoing a frame does.                           *)
(***************************************************************************)
TtlShrinks(k) ==
    /\ storage.map[k] \notin {NoEntry, NotLoaded}
    /\ storage'.map[k] \notin {NoEntry, NotLoaded}
    /\ get_key_durability(k) # "None"
    /\ storage'.map[k].live_until < storage.map[k].live_until

OnlyRollbackShortensTtl ==
    [][(\E k \in Key : TtlShrinks(k)) => saved' # saved]_vars

(***************************************************************************)
(* A footprint only grows, across operations, frames and rollbacks; the    *)
(* one an enforcing transaction declares never changes.                    *)
(***************************************************************************)
FootprintGrows ==
    [][ /\ FootprintLeq(storage.footprint, storage'.footprint)
        /\ storage.mode = "Enforcing" =>
              storage'.footprint = storage.footprint ]_vars
=============================================================================
