------------------------------ MODULE Preflight ------------------------------
(***************************************************************************)
(* Preflight and real execution side by side.  `Once calculated, a recorded*)
(* footprint can be provided to ``real'' execution' (storage.rs): the same *)
(* contracts run once against a recording storage, rec, and once against   *)
(* an enforcing storage, enf, whose footprint the transaction declares and *)
(* which starts from the same ledger.                                      *)
(*                                                                         *)
(* Contracts are deterministic, so both executions perform the same        *)
(* operations for as long as every operation has the same result in both.  *)
(* At the first difference the two part and the comparison stops.  Frames  *)
(* begin and end together, a failing one restoring both maps.              *)
(***************************************************************************)
EXTENDS StorageOps, Sequences

CONSTANT MaxDepth   \* bound on nested frames (DEFAULT_HOST_DEPTH_LIMIT)

VARIABLES
    rec,        \* the storage of the preflight
    enf,        \* the storage of the execution
    saved,      \* the rollback points of both
    status,     \* "run", or the kind of error that is being propagated
    diverged    \* an operation had different results in the two executions

vars == <<rec, enf, saved, status, diverged>>

Init ==
    /\ rec = with_recording_footprint
    /\ \E fp \in Footprint : enf = with_enforcing_footprint_and_map(fp)
    /\ saved = <<[rec |-> rec.map, enf |-> enf.map]>>
    /\ status = "run"
    /\ diverged = FALSE

Running == status = "run" /\ Len(saved) > 0 /\ ~ diverged

\* The same operation on key k in both, with outcomes r and e; its result is the
\* error code and the entry that it read or left behind.
Exec(r, e, k) ==
    /\ Running
    /\ rec' = r.storage
    /\ enf' = e.storage
    /\ diverged' = ( \/ r.err # e.err
                     \/ r.err = "Ok" /\ r.storage.map[k] # e.storage.map[k] )
    /\ status' = IF r.err = "Ok" THEN "run"
                 ELSE IF is_recoverable(r.err) THEN "fail" ELSE "abort"
    /\ UNCHANGED saved

HasContractData(k) == Exec(has(rec, k), has(enf, k), k)

GetContractData(k) ==
    Exec(get_with_live_until_ledger(rec, k), get_with_live_until_ledger(enf, k), k)

PutContractData(k, v) ==
    Exec(put_contract_data_into_ledger(rec, k, v),
         put_contract_data_into_ledger(enf, k, v), k)

DelContractData(k) == Exec(del(rec, k), del(enf, k), k)

ExtendContractDataTtl(k, threshold, extend_to) ==
    Exec(extend_ttl(rec, k, threshold, extend_to),
         extend_ttl(enf, k, threshold, extend_to), k)

UploadContractWasm(k, v) ==
    Exec(upload_contract_wasm(rec, k, v), upload_contract_wasm(enf, k, v), k)

ConsumeNonce(k, v, live_until) ==
    Exec(consume_nonce(rec, k, v, live_until), consume_nonce(enf, k, v, live_until), k)

LoadEntry(k) ==
    Exec(get_with_live_until_ledger(rec, k), get_with_live_until_ledger(enf, k), k)

WriteAccount(k, v) == Exec(write_account(rec, k, v), write_account(enf, k, v), k)

PushFrame ==
    /\ Running
    /\ Len(saved) < MaxDepth
    /\ saved' = Append(saved, [rec |-> rec.map, enf |-> enf.map])
    /\ UNCHANGED <<rec, enf, status, diverged>>

PopFrame ==
    /\ Running
    /\ saved' = SubSeq(saved, 1, Len(saved) - 1)
    /\ UNCHANGED <<rec, enf, status, diverged>>

\* Mutant: the cache of the recording storage is not rolled back.
RollbackFrame_KeepsCache ==
    /\ Len(saved) > 0 /\ ~ diverged
    /\ enf' = Store(enf, enf.footprint, saved[Len(saved)].enf)
    /\ saved' = SubSeq(saved, 1, Len(saved) - 1)
    /\ IF status = "abort" THEN status' = "abort"
       ELSE \/ status' = "fail"
            \/ Len(saved) > 1 /\ status' = "run"
    /\ UNCHANGED <<rec, diverged>>

RollbackFrame ==
    /\ Len(saved) > 0 /\ ~ diverged
    /\ rec' = Store(rec, rec.footprint, saved[Len(saved)].rec)
    /\ enf' = Store(enf, enf.footprint, saved[Len(saved)].enf)
    /\ saved' = SubSeq(saved, 1, Len(saved) - 1)
    /\ IF status = "abort" THEN status' = "abort"
       ELSE \/ status' = "fail"
            \/ Len(saved) > 1 /\ status' = "run"
    /\ UNCHANGED diverged

Next ==
    \/ \E k \in Key :
          /\ KeyType[k] \in {"TempData", "PersData"}
          /\ \/ HasContractData(k)
             \/ GetContractData(k)
             \/ DelContractData(k)
             \/ \E v \in Val : PutContractData(k, v)
             \/ \E threshold, extend_to \in 0 .. U32Max :
                   ExtendContractDataTtl(k, threshold, extend_to)
    \/ \E k \in Key : KeyType[k] \in {"Account", "ContractCode"} /\ LoadEntry(k)
    \/ \E k \in Key, v \in Val :
          \/ KeyType[k] = "ContractCode" /\ UploadContractWasm(k, v)
          \/ KeyType[k] = "Account" /\ WriteAccount(k, v)
          \/ /\ KeyType[k] = "Nonce"
             /\ \E l \in SeqNum .. max_live_until_ledger : ConsumeNonce(k, v, l)
    \/ PushFrame
    \/ PopFrame
    \/ RollbackFrame

Spec == Init /\ [][Next]_vars

-----------------------------------------------------------------------------
(***************************************************************************)
(* The recorded footprint is exact: the execution behaves like the         *)
(* preflight if and only if the declared footprint grants at least what    *)
(* the preflight recorded.  In particular declaring the recorded footprint *)
(* itself is enough (frames that were rolled back included), and leaving   *)
(* out or weakening any recorded access is noticed.                        *)
(***************************************************************************)
RecordedFootprintIsExact ==
    diverged <=> ~ FootprintLeq(rec.footprint, enf.footprint)

(***************************************************************************)
(* Until they part, the two executions see the same ledger: an entry the   *)
(* preflight has loaded is what the execution holds, one it has not loaded *)
(* is still the ledger's.                                                  *)
(***************************************************************************)
SameView(r, e) ==
    \A k \in Key : /\ r[k] # NotLoaded => r[k] = e[k]
                   /\ r[k] = NotLoaded => e[k] \in {NotLoaded, Source[k]}

ExecutionSeesPreflightState ==
    ~ diverged =>
        /\ SameView(rec.map, enf.map)
        /\ \A i \in 1 .. Len(saved) : SameView(saved[i].rec, saved[i].enf)
=============================================================================
