# Verification of the Soroban host

TLA+ models of the host environment in which Soroban smart contracts run
(`soroban-env-host`), TLC runs that check them on small instances, and TLAPS
proofs of the results that matter most for every instance.

## 1. The system

An embedder (a Stellar validator, or a preflight server) creates a `Host`, gives
it a ledger snapshot, a footprint, authorization entries and a host function,
and calls `invoke_host_function`. The host runs contracts (Wasm, or the
built-in Stellar asset and account contracts), which call back into about 190
host functions. At the end the embedder receives a result, the ledger changes,
the rent changes and the contract events. The host is single-threaded; what is
hard about it is not parallelism but nesting: every contract call is a
sub-transaction that may fail and be recovered from, and storage, events,
authorization and instance storage all have to agree about what was undone.

| Component | Source (`soroban-env-host/src` unless given) | State | Operations |
|---|---|---|---|
| Storage and footprint | `storage.rs`, `host/ledger_info_helper.rs` | a map from keys to optional entries with live-until ledgers; the footprint and its mode | `has`, `get`, `put`, `del`, `extend_ttl`; record or enforce an access |
| Contract data functions | `host.rs`, `host/data_helper.rs` | none of their own | `*_contract_data`, TTL extension, instance storage |
| Ledger changes and rent | `e2e_invoke.rs`, `fees.rs` | none of its own | `get_ledger_changes`, `extract_rent_changes`, fee formulas |
| Frames | `host/frame.rs` | the context stack; per frame an instance-storage cache, a PRNG and a rollback point | `push_context`, `pop_context`, `with_frame`, `call`, `try_call` |
| Lifecycle | `host/lifecycle.rs` | none of its own | create a contract, upload or update Wasm |
| Events | `events/` | the buffer of events with a failed flag | record, rollback, externalize |
| Authorization | `auth.rs`, `builtin_contracts/account_contract.rs` | a tracker per entry (spent nodes, match stack, verified), invoker trackers, its own call stack | `require_auth`, `authorize_as_curr_contract`, push, pop, snapshot, rollback |
| Stellar asset contract | `builtin_contracts/stellar_asset_contract/` | balances, allowances, trustlines, admin (in storage) | transfer, mint, burn, clawback, approve |
| Budget and fuel | `budget*`, `vm.rs`, `vm/fuel_refillable.rs` | consumed and limit per dimension, shadow mode | charge, `with_shadow_mode`, exchange with wasmi |
| Containers | `host/metered_map.rs`, `host/metered_vector.rs` | immutable sorted map, vector | insert, remove, find, slice |
| Values | `soroban-env-common/src`, `host/conversion.rs`, `host/comparison.rs` | none | tagged 64-bit values, small symbols and integers, total order |
| Host objects | `host_object.rs` | object table, relative handle table per frame | add, visit, translate |
| Host functions on values | `host.rs`, `host/num.rs`, `host/mem_helper.rs`, `vm/dispatch.rs` | none of their own | the modules int, map, vec and buf of `env.json`; dispatch of arguments and results |
| PRNG | `host/prng.rs` | a stream cipher per frame | reseed, draw |

How they interact: a contract's host call runs in the top frame. `with_frame`
pushes a context (a rollback point holding the storage map, the length of the
event buffer and the authorization snapshot), runs the callee, flushes instance
storage into storage, and pops the context with or without the rollback point.
`require_auth` may itself push frames: an account contract's `__check_auth`
runs arbitrary code while its tracker is mutably borrowed. Consuming a nonce is
a storage write and is rolled back with storage, not with the tracker.
Every host call crosses the dispatch layer twice: going in, the VM's unused fuel
returns to the budget and the guest's relative object handles are translated to
absolute ones; going out, the result gets a relative handle and the VM is given
the rest of the budget as fuel. Almost every operation charges the budget, so
almost every step of the host can be the one that fails.

The hard behaviours (listed with their lines under `hazards` in
`PROJECT.json`): failures after part of the work is done; state copied at the
start of a frame and written back at its end; recovery by `try_call` followed
by a retry; re-entrance through `__check_auth`; preflight, which executes the
same program on different rules than the later real execution; boundary
arithmetic on `u32` ledger numbers; a budget that runs out between two steps that
belong together; arbitrary words passed by guests where values and handles are
expected; two representations of one number or symbol.

What makes each component correct:

* **Storage**: writes only where the footprint allows, a recorded footprint
  that is exactly sufficient, TTLs between the current ledger and the network's
  maximum, nothing left of a failed transaction.
* **Ledger changes**: applied to the old ledger they give what the contracts
  saw; surviving entries never lose paid lifetime; extended entries pay rent.
* **Frames**: calls are nested transactions; nothing is lost when the copies of
  instance storage are flushed.
* **Authorization**: a signed node authorizes at most one standing call, only
  inside the calls its ancestors authorized; a nonce is never used twice;
  rollback returns exactly what was spent.
* **Stellar asset contract**: balances are what the events add up to, within
  reserves, liabilities and limits; nothing moves without its owner's consent
  or against a missing authorization; an allowance is spent once and lapses.
* **Budget**: all work is paid for, once, from the real budget; running out is
  final and leaves nothing behind; every invocation ends.
* **Values and host objects**: handles are capabilities; nothing a guest passes
  gets an ill-formed value into a host object or an internal error out of the
  host; the order and the identity of values do not depend on their
  representation, so that what is sorted in the host is sorted in the ledger.

## 2. Modules

| Module | Models | Extends |
|---|---|---|
| `StorageOps` | every operation of `Storage` and the read-then-write helpers of the host, as operators on a storage record that return the new storage and an error code | |
| `StorageTx` | a transaction of nested frames over one storage | `StorageOps` |
| `LedgerChanges` | what `invoke_host_function` reports at the end | `StorageTx` |
| `Preflight` | the same program against recording and enforcing storage in lockstep | `StorageOps` |
| `NestedTx` | abstract specification: a stack of views with begin, work, commit, abort | |
| `Frames` | the context stack with calls, re-entry, instance storage, events, creation and upgrade of contracts; implements `NestedTx` | |
| `Auth` | the authorization manager in enforcing mode under the context stack | |
| `SacOps` | checks, balances, authorization flags and allowances of the Stellar asset contract, as operators on a ledger record | |
| `Sac` | the asset contract's functions, closing ledgers, the issuer's options | `SacOps` |
| `Budget` | cost models, dimensions, limits, shadow mode, the resource limiter, as operators on a budget record | |
| `Metering` | an invocation's stack of VMs, the fuel exchange, and every charge that can fail | `Budget` |
| `Values` | tagged values: tags, small forms, validity, `ScVal`s, the order of small values | |
| `HostValues` | the object table, handles, comparison, the ordered map, conversion from and to `ScVal`s | `Values` |
| `HostFns` | integer and byte-level host functions, linear memory | `HostValues` |
| `HostCollections` | host functions on maps, vectors, bytes, strings, symbols | `HostFns` |
| `HostApi` | the signatures of `env.json` and the function each name runs | `HostCollections` |
| `HostObjects` | guests calling host functions and each other through the dispatch layer | `HostApi` |
| `StorageTxProofs`, `LedgerChangesProofs`, `PreflightProofs` | theorems about storage | `StorageTx`, `LedgerChanges` (and `StorageTxProofs`), `Preflight` |
| `FramesProofs`, `AuthProofs`, `MeteringProofs`, `SacProofs` | theorems | `Frames`, `Auth`, `Metering`, `Sac` |
| `AuthStackProofs` | theorems about the stacks of the authorization manager | `AuthProofs` |
| `MCLedgerChanges`, `MCPreflight`, `MCFrames`, `MCAuth`, `MCSac`, `MCMetering`, `MCHostObjects` | small instances | |

### Storage (`StorageOps`, `StorageTx`)

A storage is `[mode, footprint, map]`. `map[k]` is `NotLoaded` (the Rust map has
no such key), `NoEntry` (the key maps to `None`) or an entry with a value and a
live-until ledger. The footprint maps keys to `NoAccess`, `ReadOnly` or
`ReadWrite`. Each operation is translated with its early returns in the order
of the code, and an operation that fails half-way has already changed the
storage it returns (a recorded access, a loaded entry), as in the code.
`u32` arithmetic keeps its width: `U32Max` is a constant and `extend_ttl`
fails where `checked_add` would. In the actions of `StorageTx` a failing host
function ends its frame; errors that `HostError::is_recoverable` accepts can be
caught by the frame below. Which operation a contract calls, and on what keys,
values, thresholds and TTLs, is unconstrained: contracts are arbitrary programs.
The value of a key stands for the whole entry; accounts and trustlines are one
key type, because storage treats them alike (no TTL).

### Ledger changes (`LedgerChanges`)

`Committed` is the point where the invocation has succeeded. `get_ledger_changes`
is a function from changed keys to change records; the encoded XDR of an entry
is abstracted to its value and its size. Rent changes are the set of keys that
`extract_rent_changes` returns.

### Preflight (`Preflight`)

Two storages, one recording and one enforcing with an arbitrary declared
footprint, execute the same operation in each step. Contracts are
deterministic, so this is the same program running twice for as long as each
operation has the same result; the model stops comparing at the first
difference. The combined extension of a contract's instance and code is left out:
it is two extensions, each of which is an operation of the model.

### Frames (`Frames`, `NestedTx`)

`stack` is the context stack with the rollback points, `ledger` the storage
map (per contract: executable, instance storage, other data), `events` the
buffer. A frame holds a copy of the instance from when it was pushed; instance
reads and writes work on `cache`, and `Return` flushes it. `Call`, `TryCall`,
`CheckAuth` are the three ways of entering a contract with their re-entry
rules; `Fail` covers every failure of the running contract (traps, budget, any
host function); `Unwind` pops one failed frame and decides whether the caller
recovers. `NestedTx` states what the doc comment of `Frame` promises, over a
stack of views; the refinement mapping `Views` gives each frame the ledger it
sees, unflushed instance storage included, and the events that have not failed,
by their positions in the buffer. `NestedTx` may commit or abort at every return:
the refinement shows that a frame's effects reach its caller all or not at all,
and not which of the two happens. That a failed invocation as a whole leaves
nothing behind is `FailedInvocationLeavesNoTrace`; that a success commits is not
stated.

### Authorization (`Auth`)

Trees are numbered in preorder. A tracker is the set of spent nodes, the match
stack (0 for `Unmatched`), the frame where the root was spent and whether the
root's frame has ended. `RequireAuth` follows `require_auth_internal`: direct
invoker, invoker trackers, then entries in order with lazy authentication.
Custom accounts enter a real frame (`EnterCheckAuth`), in which any action may
happen while the tracker is borrowed (not pushed, popped, saved or restored);
`ReturnFromCheckAuth` resumes. Signature verification is a nondeterministic
verdict. `CreateContract` models the frame that lives in the authorization
manager only. `grants` is a history variable: how often each node authorized
a call that still stands; no action reads it, nor `height`, the place of a
context's frame on the manager's call stack. Functions stand for a contract, a
name and arguments together.

### Stellar asset contract (`SacOps`, `Sac`)

`SacOps` has one operator per function of `balance.rs`, `allowance.rs` and the
checks of `contract.rs`, on a record of the entries the contract reads: the
issuer's flags (or no account), accounts or trustlines, contract balances,
allowances with the TTL of their temporary entry, the administrator. An account
entry and a trustline share one record; `min_balance` and `max_balance` make the
difference. `Sac` has one action per function of `contract.rs` that writes; a
call is one step, because the contract calls nothing but `require_auth`, and a
failed call changes nothing, because its frame is rolled back (module
`Frames`). `by` is the address whose authorization the call carries. `last`
records the call, `booked` the balances that an observer of the events computes
and `consent` what owners approved; no action reads them. `CloseLedger` and
`IssuerSetsOptions` are external: temporary entries expire, flags change.

### Budget and fuel (`Budget`, `Metering`)

A budget is two dimensions (limit, total, shadow limit, shadow total) and the
shadow flag. `charge` evaluates the linear cost model with the code's saturating
arithmetic, counts first and checks afterwards, in the cpu dimension and then in
memory. The default parameters are those of `BudgetImpl::default`. In
`Metering` a frame holds its VM's fuel (`total`, `consumed`); `ctl` says whether
a VM runs, has trapped, a frame is ending, or the embedder's last steps run.
`CallOutcome` is `call_contract_fn` with the points at which it can fail: outside
any frame, after the authorization manager has the frame but the context stack
does not, inside the frame, or not at all. Host functions that do not call are
represented by seven kinds that differ in what they charge and change, one of them a
call whose argument is refused before the function is reached; programs
are arbitrary sequences of instruction bursts, `memory.grow`, host calls,
contract calls, returns and traps. At the end `pos` counts through the two loops
of the embedder, the events converted and the values encoded: one charge, which
may be the one that fails, per step. Diagnostics are always on, as at level
`Debug`, because that is when shadow mode is used. `burned` is a history variable.

### Values and host objects (`Values` to `HostObjects`)

A `Val` is a tag and a body; the widths of all its parts are constants, with
the code's relations between them as assumptions. Where the code keeps a number
or a short symbol in the body, so does the model, so that small and object forms
of one value exist side by side. A number is its words, as in XDR. Payloads are
integers, and linear memory is a sequence of bytes: reading a `Val` from memory
decodes any bit pattern. `HostFns` and `HostCollections` have one operator per
host function (or per macro that declares several), on `[objs, table, mem]`,
with the code's checks. A `HostObjects` step is one call
through the dispatch layer: `try_marshal_from_value`, `relative_to_absolute`,
`check_env_arg`, the function, `check_env_arg` and `absolute_to_relative` on the
result. What guests pass is anything they refer to, small values, and words they
made up (`Forged`): unknown and absolute handles, wrong tags, undefined bits.

Abstractions: arithmetic of 256-bit numbers (`ethnum`) and XDR are external;
byte strings decode to one of the `ScVal`s in `Wire`. Plain numbers that a
function returns are not kept, because a guest may pass any number later anyway.
Objects that a failing host call had allocated stay in the code's table although
nothing refers to them; the model drops them. Where several things are wrong with
one call, the error that is reported may be another than in the code. Which contract is called and
whether it may be re-entered is the subject of `Frames`.

## 3. Runs

All bounds are constants of the `.cfg` files. `CHECK_DEADLOCK FALSE` is used
in the runs about one invocation, because it ends; `Sac` and `Metering` (where
an ended invocation may stutter) check for deadlock.

| Run | Result | What it shows |
|---|---|---|
| `Storage` | passes | One entry of each kind (temporary data, instance, account, code, nonce), every declared footprint of at most two keys, recording and enforcing: the footprint is respected (`UnwrittenKeysKeepValue`), map and footprint agree after any rollback (`EnforcingMapIsFootprint`, `RecordedKeysAreInFootprint`, `FootprintGrows`), TTLs (`TtlInRange`, `OnlyRollbackShortensTtl`), atomicity (`FailedTxLeavesNoTrace`), and the reported changes (`ChangesReproduceStorage`, `SurvivingEntriesKeepTtl`). |
| `ExtendTtlOverflow` | violated | A contract reaches the internal error that a comment reserves for a misconfigured network. |
| `EveryExtensionPaysRent` | violated | An extended read-only entry is missing from the rent changes. |
| `Preflight` | passes | The execution differs from the preflight exactly if the declared footprint does not cover the recorded one; until then both see the same ledger. |
| `Frames` | passes | Calls implement nested transactions, failures leave no trace, re-entry is restricted, and flushes lose nothing, while no contract asks for its own authorization. |
| `StaleFlush` | violated | With self-authentication the outer frame's flush overwrites instance storage that the inner frame committed. |
| `Auth` | passes | Five transactions against all programs of three contracts: nodes are spent once (`NodesAreSpentOnce`), nonces once (`NoReplay`), match stacks follow the call stack (`MatchesFollowCallStack`), trees are not mixed (`TreesAreNotMixed`), invoker authorizations live for one call (`InvokersSpeakForTheirFrame`). |
| `RollbackFindsItsTrackers` | violated | `authorize_as_curr_contract` followed by a failure turns a recoverable error into an internal one. |
| `Sac` | passes | Native and credit asset, an issuer, an account and a contract: `BalancesMatchEvents`, `AllowanceIsConsented`, `LiabilitiesAreHonoured`, `DeauthorizedIsFrozen`, `MovesAreConsented` (balances fall by the owner, an approved spender or a permitted clawback, and money appears only by mint or from the issuer). |
| `Metering` | passes | Under the default and a flat cost model, with limits that run out at every stage: work is paid for (`WorkIsPaidFor`), only the running VM has fuel (`OnlyTheRunningVmHoldsFuel`), no contract runs on with an authorization stack that does not match (`AuthStackMatchesFrames`), exhaustion is final and leaves no writes (`ExhaustionIsFatal`), and every invocation ends (`EveryInvocationEnds`). |
| `HostObjects` | passes | All exported functions of int, map, vec and buf, `obj_cmp`, `call` and `try_call` on good and made-up arguments: values in objects and tables are well formed (`TypeOK`), frames reach only objects they were given (`FramesSeeOnlyWhatTheyWereGiven`), no internal errors (`NoInternalErrors`), maps are sorted without duplicates in the ledger's order (`MapsAreOrderedFunctions`), and comparing does not depend on the representation, nor does converting to an `ScVal` and back, for values whose short symbols consist of symbol characters (`ValsStandForScVals`). |
| `ValsLoadAgain` | violated | The conversion to an `ScVal` and back without that proviso: a symbol made from linear memory can be stored but not loaded again. |

Bounds and why they are enough:

* `MaxKeys = 2` (constraint `FewKeys`, storage runs): operations touch one key,
  instance-and-code extension two; properties are per key.
* `U32Max` is 4 or 5 with a maximal TTL of 3: overflow, clamping, refusal,
  threshold above and below, and an entry beyond the maximum all occur.
* `MaxDepth = 2` in storage runs: the host function frame behaves like any
  frame there, so one nested frame has every combination of inner and outer
  outcome. `MaxDepth = 4` in `Frames` exceeds the depth two contracts can
  reach without re-entering; the re-entry mutants need it. `MaxDepth = 5` in
  `Auth` allows `__check_auth` on top of three contracts.
* `MaxEvents = 1`, `MaxInvokers = 2`: one event before, inside or after a
  failed frame; two invoker trackers of different lifetimes.
* The transactions of `MCAuth` are chosen so that a function repeats in a tree,
  two entries share a nonce, a nonce is used up, a signature has expired, the
  source account signs, an account contract has entries for its own calls.
* `Sac`: `I64Max = 2` and `I128Max = 3` put both integer limits within reach of
  amounts -1, 0, 1 and 3; the initial entries have selling or buying
  liabilities, a balance below the reserve, or do not exist; approvals name
  ledgers 1 and 4 in the ledgers 1 to 3 with a maximal TTL of 3, so that they
  are too late, the latest possible, in range, or past. The view `LedgerView`
  leaves out `last`, which no guard reads: action properties are evaluated on
  every step, also one that leads to a known state.

* `Metering`: `MaxDepth = 4` is the host function and three VMs; the limits are
  chosen so that one or two calls fit and the budget runs out in instantiation,
  snapshot, dispatch, flush, refuelling or encoding; `MaxEffects = 2` bounds
  writes and events. `U64Max` is TLC's largest integer, so that saturation is
  modelled but the limits stay far below it. Instructions take fuel and calls are charged, so
  runs of programs are finite without another bound.
* `HostObjects`: 5-bit `u32`s, 7-bit words, 2-character small symbols, 4-bit
  bytes: numbers and symbols on both sides of every limit, sign bits in small
  and large numbers, and a symbol alphabet whose byte order differs from the
  order of its codes. Two host calls per invocation (`MaxCalls`) of which the
  second works on a result of the first (bound `Chained`), on seven sets of
  initial arguments that hold every type of object; at most one argument of a
  call is a small value other than a number or `Void` (bound `OneAtom`);
  made-up words replace one argument at a time. `DepthLimit = 4` makes conversions
  of nested vectors fail; a comparison that exceeds the depth does not occur.
  With 5 bits handles wrap around after 16 objects, as 2^31 objects would in
  the code (`index_to_handle` uses `checked_shl`, which does not fail); no
  behaviour within the bounds makes that many.

Fairness: `Metering` assumes weak fairness of taking a turn at all
(`WF_turn(Turn)`). The host runs in the embedder's thread from
`invoke_host_function` to its return, waits for nothing and is never set aside;
which step it takes, and what contracts do, is left open. No other run needs
fairness: elsewhere a contract that stops is as good as one that goes on.

## 4. Findings

Each is the subject of a violation run; `PROJECT.json` quotes the lines.

1. `extend_ttl` adds `extend_to` to the ledger number before clamping it
   (`storage.rs`), so a contract's argument can cause an unrecoverable internal
   error; the comment attributes it to the network's configuration.
2. `extract_rent_changes` skips changes without a new value, which is how
   read-only entries are reported even when their TTL was extended.
3. Instance storage of a contract that authenticates itself is lost when the
   outer frame flushes its older copy.
4. `rollback` insists on the number of invoker trackers of the snapshot, which
   a frame that added one and failed before its next call cannot meet.
5. `symbol_new_from_linear_memory` accepts any bytes, while `symbol.rs` says that
   `Symbol`s only admit `[a-zA-Z0-9_]` and that forming a `SymbolObject` of other
   characters is an error, and `symbol_new_from_slice` checks it. A short symbol
   with other characters converts to an `ScVal`, so it can be stored and
   serialized, but `to_host_val` refuses to load it. (A longer one, which stays an
   object, loads again.) `ValsStandForScVals` states the round trip with the
   proviso that excludes this case, and `ValsLoadAgain` without it.

Read but not given a run: the doc of `new_live_until_ledger` in `e2e_invoke.rs`
(`greater than or equal to old_live_until_ledger`) does not hold for removed
entries, whose new live-until ledger is 0. And an invoker tracker with an empty
match stack can be matched in the frame that created it, against the comment in
`maybe_check_invoker_contract_auth` (`auth.rs`); the model has that internal error
(`bad_match_stack`), and the `Auth` run reaches it.

A behaviour of the value layer that the models reproduce and that no document we
found contradicts: `TryFromVal<Val> for ScVal` replaces every nested error, even
an exhausted budget, by a conversion error. That is
harmless for the reason that makes `ExhaustionIsFatal` hold although the resource
limiter swallows such errors too: totals are not taken back and the next charge
fails.
`push_context` leaves the authorization manager one frame ahead when it cannot
pay, which is harmless because that error is fatal (`AuthStackMatchesFrames`).

Two behaviours of `write_allowance` that `AllowanceIsConsented` makes explicit,
neither of which lets anyone spend more than was approved. `live_for` is
`live_until - seq + 1`, so the entry outlives the allowance by one ledger, and
an approval up to the latest ledger the check admits is refused by the storage.
And approving zero stores its ledger without extending the entry, after which
an approval up to that ledger or an earlier one is not extended either: the
allowance may lapse before the ledger its owner named.

## 5. Proofs

`StorageTxProofs` proves for every set of keys and values, every ledger and
network configuration that satisfies the assumptions of `StorageOps`, and every
nesting depth:

* `TypeCorrect`, `FootprintIsRespected`, `MapIsFootprint`,
  `RecordingIsComplete`, `TtlStaysInRange`: the invariants `TypeOK`,
  `UnwrittenKeysKeepValue`, `EnforcingMapIsFootprint`,
  `RecordedKeysAreInFootprint`, `TtlInRange`;
* `FootprintIsMonotone`: the action property `FootprintGrows`;
* `LifeIsNotShortened`: the action property `OnlyRollbackShortensTtl`;
* `FailureIsAtomic`: `FailedTxLeavesNoTrace`.

The argument: `Inv` says of the current map and of every rollback point, key by
key (`KeyInv`), how mode, declared access and entry relate. It has to include
the rollback points, because a rollback brings them back under a footprint that
has grown since; `KeyInvGrows` shows that the relation survives a growing
footprint. Each operation gets one lemma (`GoodOutcome`: the storage it returns,
on success or failure, satisfies the invariant and has a larger footprint), and
the step lemma cites them. Atomicity is proved separately with `FirstSaved`:
the bottom rollback point is the map the transaction started with.

`FramesProofs` proves for any contracts, ledger, depth, and with or without
self-authentication:

* `TypeCorrect`: `TypeOK`, which includes that no frame runs or flushes for a
  contract that does not exist;
* `FailureIsAtomic`: `FailedInvocationLeavesNoTrace`;
* `ReentryIsRestricted`: `ReentryOnlyByCheckAuth`.

The invariant `StackInv` says that the contracts on the stack exist in the
ledger *and in the rollback point of every frame above them*. Without the second
part unwinding could restore a ledger in which a running contract has not been
created yet. The same fact closes the gap in the re-entry argument: creating an
asset contract calls it without the re-entry check, which is harmless only
because a contract that is about to be created cannot be on the stack. The
bottom rollback point is the state before the transaction, which gives
atomicity. `PushInv`, `PopInv`, `SetTopInv` and `LedgerInv` carry `StackInv` over
the four things an action can do; the step lemma has one lemma per group of
actions.

`FlushesLoseNoUpdate` (`FlushReplacesWhatWasRead`) is proved under `~SelfAuth`,
and `StaleFlush` shows that the condition is needed. Its predicate `Fresh` says
that no contract has two frames, and that the instance storage a frame has
loaded is the one in the ledger and in every rollback point above the frame, so
that neither a callee nor a rollback can put another version in between.

`CallsRefineTransactions` (`CallsAreTransactions`) proves that `Frames`
implements `NestedTx`, again under `~SelfAuth`: `StaleFlush` is a behaviour that
is not one of nested transactions. The views are written as a function of stack,
ledger and events (`ViewsOf`), and every action is shown to be a work step on
the top view, a begin, a commit, an abort or a stutter (`WorkStep`, `BeginStep`,
`CommitStep`, `AbortStep`). What has to be shown each time is that the views
below the top do not move. Two facts make that true. At most one frame has
unflushed instance storage of a given contract, because `Fresh` allows one frame
per contract (`Single`, `DirtyOne`), so that a flush changes where the storage is
kept and not what is seen. And rollback points lie at increasing positions of the
event buffer (`Positions`), so that an abort marks only events of the views it
drops.

`LedgerChangesProofs` rests on the invariant of `StorageTxProofs`:
`ChangesAreComplete` (`ChangesReproduceStorage`) and `PaidLifetimeIsKept`
(`SurvivingEntriesKeepTtl`). The only additional step is the case analysis
of one change record: read-only, written, deleted, or never in the ledger.

`PreflightProofs` proves `PreflightIsExact` (`RecordedFootprintIsExact`) and
`SameLedgerIsSeen` (`ExecutionSeesPreflightState`), from the inductive invariant
`PInv` (`Lockstep`). Two storages are `Together` when the declared footprint
covers the recorded one and both show the same ledger. Each operation is
followed through both storages; its outcomes are `InStep`: still together with
the same result, or `Parted`, which means that the execution was refused what
the preflight recorded. A read-then-write helper may part at its read; the
preflight then goes on alone and only adds to its footprint (`AfterRead`). The
rollback points belong to the invariant because a rollback brings back maps
that were saved when the footprint was smaller.

`MeteringProofs` proves, for all cost parameters, limits, modules and depths,
`TypeCorrect`, `WorkPaid` (`WorkIsPaidFor`), `WaitingVmsHoldNoFuel`
(`OnlyTheRunningVmHoldsFuel`), `AuthStackIsInStep` (`AuthStackMatchesFrames`)
and `ExhaustionFails` (`ExhaustionIsFatal`). A budget changes only by charges,
and the relation `Charges` collects what any sequence of charges, shadow mode
included, keeps: limits and prices stay, the cpu total never falls, the only
error is the budget's `ExceededLimit`. The fuel is accounted for by `FuelOK`: what
was burned and handed back is in the cpu total, and what was granted on top of
it fits the limit. It is stated about the limit and not about what is left of
it, because `memory.grow` charges the budget while the VM holds its fuel.
`StackInv` says that callers hold no fuel, `CtlInv` what each point of control
implies about the stack, and `auth` has the height of the stack unless the error
that is pending is `ExceededLimit`, which no `try_call` recovers from.

`SacProofs` proves, for any holders, amounts, reserves, liabilities and limits
and for both kinds of asset, the invariants `TypeCorrect`, `BalancesAddUp`
(`BalancesMatchEvents`), `AllowancesAreConsented` (`AllowanceIsConsented`) and the
action properties `LiabilitiesHonoured` (`LiabilitiesAreHonoured`),
`FrozenStaysFrozen` (`DeauthorizedIsFrozen`) and `MovesConsented`
(`MovesAreConsented`). Every operator that moves an amount has a lemma in terms
of `Moves`: the ledger with the amount added at one address, within the limits
of its entry, and nothing else changed. A transfer is two moves, of which the
second starts from what the first left; `FlowTransfer` shows that they compose
also when both are at the same address. A call then either changes nothing or has
an `Effect`, and somebody who may ask for it did (`Justified`); all six results
follow from that. `SInv` needs two facts beside the invariants themselves.
Before `init_asset` nothing has moved (`BookedBefore`): the issuer's balance is
not kept for a credit asset, and becomes an ordinary balance at the moment the
asset turns out to be the native one. And an allowance is related to the TTL of
its entry (`AllowanceInv`): an entry that exists is live, says what its owner
said, and lasts as long unless an approval of zero reached as far.

`AuthProofs` proves, for any entries with trees of any shape, any contracts and
any nesting of calls, creations, authentications and failures, `NodesSpentOnce`
(`NodesAreSpentOnce`) and `ReplayIsImpossible` (`NoReplay`). A rollback restores
three things separately: the spent nodes and the verification status from the
trackers' snapshot, the nonces with storage, and, in the model only, the grants
that still stand. The invariant `BInv` (`Invariance`) says that they agree now
and in what every frame would restore: the spent nodes of an entry are those it
granted, and an entry that is verified or has granted something owns its nonce,
alone (`NoncesOK`). Without the verification status in that last part a verified
entry could grant again after the nonce was rolled back. The difficulty is the
entry whose `__check_auth` is running. Its tracker is borrowed, so it is in no
snapshot from that frame on, and a failure inside must not disturb it: `Waits`
says that its pending node is spent, that it is not verified, and that its grants
are the same in that frame and all above it, so that restoring them changes
nothing. `FrameOK` therefore depends on the entries borrowed when the frame was
pushed, and no entry is borrowed twice. An authentication that fails leaves its
tracker spent without a grant; the frame below repairs it, which is why spent
nodes are only claimed while no error is being propagated. After an internal
error of the manager only the part about storage remains true. `BooksPush`,
`BooksPop`, `BooksGrant` and `BooksUnwind` carry the invariant over what an
action can do. That the first match is one of the matches (`MinIn`) comes from
the well-foundedness of `<`. The proof uses no assumption on the constants.

`AuthStackProofs` proves under the same generality `TypeCorrect`,
`MatchesFollowTheCallStack` (`MatchesFollowCallStack`), `TreesStayApart`
(`TreesAreNotMixed`) and `InvokersSpeakForFrames` (`InvokersSpeakForTheirFrame`).
The manager keeps a call stack, a match stack per entry and a list of invoker
trackers with a match stack each, and only the order of pushes and pops relates
them to each other and to the host's context stack. `SInv` (`StackInvariance`)
states the relation:

* `Calls`: the frame of every context is at its `height` of the call stack, and
  between two such frames there is at most a creation.
* `Stacks`: a free entry's match stack is as high as the call stack; one that
  waits for `__check_auth` is as high as the stack below that frame, and comes
  back into step when the frame is popped. It holds a path of the tree. To know
  that `has_active_tracker` sees a tree that has begun, a tracker whose root is on
  its match stack must be active (`Rooted`), and this survives a rollback because
  a snapshot contains a root that matched below its frame (`KeepsRoot`).
* `Speakers`: each invoker tracker speaks for the frame below its match stack,
  the depths do not increase along the list, so that `pop_frame`, which cuts the
  list behind the last tracker with frames, drops exactly those whose call is
  over, and the trackers in a frame's snapshot outlive the frame (`Covers`), so
  that a rollback restores each tracker's own nodes.

The parts are predicates of arbitrary stacks, so that the actions of several
steps (`ReturnFromCheckAuth` pops, then marks a creation as authorized) go through
their intermediate states. `StackInvPop` and `StackInvEnter` treat all pops and
pushes. After an internal error of the manager only the types remain. The proof
also uses `BInv`, for what snapshots hold, and of the constants that roots have no
parent.

Every inductive invariant was checked by TLC on the instance of its run before
it was proved.

Assumptions: `ConstantsAssumption` (types), `NetworkAssumption` (the TTL settings
do not overflow a ledger number), `SourceAssumption` (no expired entry is handed
in, as `e2e_invoke.rs` enforces), `MaxDepthAssumption`, `FramesAssumption`,
`AuthAssumption` (entries and trees are well formed), `U64Assumption`,
`MeteringAssumption` (cost parameters are the non-negative ones
`CostModel` accepts, limits are `u64`), `ProtocolAssumption` (no ledger is newer
than its host), `SacAssumption` and `SacInputAssumption` (types of the entries
and arguments; amounts are at most `i128::MAX`, and may be negative).

Only model-checked:

* `EveryInvocationEnds`: liveness under fairness is outside what the prover
  handles.
* Everything about host objects: the conversions and comparisons of
  `HostValues` recurse over nested values, and what a recursive definition
  computes cannot be proved by induction here.

## 6. Not modelled, and the plan

Not modelled and not planned: cryptography (wrappers of libraries; a verdict in
`Auth`), XDR, macros and code generation, the guest stubs, test and benchmark
support, wasmi itself, the contents of diagnostic events, logging, formatting,
the native-contract (slice) variants of the linear-memory functions, the
comparison of ledger keys and entries by `Budget` (the order that storage maps
use; `StorageOps` treats keys as model values), the conversions of Rust tuples
and arrays.

Not modelled yet, for want of room rather than of interest: the fee and rent
formulas of `fees.rs`, authorization in recording mode (whose payloads should
satisfy the enforcing manager on the same program), and the PRNG of frames.

Every safety property that a passing run checks is proved, except those of
`HostObjects`. Their proof would need the conversions and comparisons of
`HostValues` as functions on a bounded nesting depth rather than by recursion on
values, and inductions over that depth.
