-------------------------------- MODULE Frames --------------------------------
(***************************************************************************)
(* The context stack of the host (soroban-env-host/src/host/frame.rs):     *)
(* contract calls, their rollback points, instance storage that lives in   *)
(* the frame and is flushed when the frame ends, events, and the way       *)
(* errors travel down the stack.  Contracts are arbitrary programs: in     *)
(* every frame any host function may be called next.                       *)
(*                                                                         *)
(* The ledger holds for each contract its instance entry (executable and   *)
(* instance storage) and its own data, each abstracted to one value.       *)
(***************************************************************************)
EXTENDS Naturals, Sequences

CONSTANTS
    Contract,       \* contract ids
    Val,            \* values of instance storage and of contract data
    InitVal,        \* the value of empty storage
    Wasm,           \* the Wasm executables that are uploaded
    StellarAsset,   \* the built-in executable
    NoInstance,     \* the contract does not exist
    NoContract,     \* contract_id() of a HostFunction frame
    NoCache,        \* Context.storage = None
    Ledger0,        \* the ledger before the transaction
    SelfAuth,       \* whether contracts ask for their own authorization
    MaxDepth,       \* DEFAULT_HOST_DEPTH_LIMIT
    MaxEvents       \* bound on the number of events

Instance == [exec : Wasm \union {StellarAsset}, store : Val, data : Val]

Ledger == [Contract -> Instance \union {NoInstance}]

ASSUME FramesAssumption ==
    /\ InitVal \in Val
    /\ NoInstance \notin Instance
    /\ NoContract \notin Contract
    /\ NoCache \notin Val
    /\ Ledger0 \in Ledger
    /\ SelfAuth \in BOOLEAN
    /\ MaxDepth \in Nat \ {0} /\ MaxEvents \in Nat

(***************************************************************************)
(* A context with its rollback point.  `entry' tells who waits for the     *)
(* frame's result: the embedder, call, try_call, or require_auth running   *)
(* a custom account's __check_auth.  `instance' is the contract instance   *)
(* as it was in the ledger when the frame was pushed.                      *)
(***************************************************************************)
RollbackPoint == [ledger : Ledger, events : 0 .. MaxEvents]

Frame ==
    [contract : Contract \union {NoContract},
     entry    : {"host", "call", "try", "auth"},
     instance : Instance \union {NoInstance},
     cache    : Val \union {NoCache},
     modified : BOOLEAN,
     rp       : RollbackPoint]

Event == [by : Contract, failed : BOOLEAN]

VARIABLES
    stack,      \* HostImpl.context_stack
    ledger,     \* Storage.map
    events,     \* InternalEventsBuffer.vec
    status,     \* "run", or the error that is being propagated
    hostfn,     \* the host function that is invoked
    started     \* the host function frame has made its one call

vars == <<stack, ledger, events, status, hostfn, started>>

TypeOK ==
    /\ stack \in Seq(Frame)
    /\ ledger \in Ledger
    /\ events \in Seq(Event)
    /\ status \in {"run", "recoverable", "unrecoverable"}
    /\ hostfn \in {"InvokeContract", "CreateContract"}
    /\ started \in BOOLEAN

\* push_context: the rollback point is established before the push.
NewFrame(c, entry, map) ==
    [contract |-> c, entry |-> entry,
     instance |-> IF c = NoContract THEN NoInstance ELSE map[c],
     cache |-> NoCache, modified |-> FALSE,
     rp |-> [ledger |-> map, events |-> Len(events)]]

\* invoke_function_and_return_val has pushed the HostFunction frame.
Init ==
    /\ ledger = Ledger0
    /\ events = << >>
    /\ stack = << NewFrame(NoContract, "host", Ledger0) >>
    /\ status = "run"
    /\ hostfn \in {"InvokeContract", "CreateContract"}
    /\ started = FALSE

Top == stack[Len(stack)]

Current == Top.contract

Running == status = "run" /\ Len(stack) > 0

InContract == Running /\ Current # NoContract

\* The host function frame makes one call or creates one contract; its result
\* is the result of the invocation.
InHostFn(hf) == Running /\ Current = NoContract /\ hostfn = hf /\ ~ started

OnStack(c) == \E i \in 1 .. Len(stack) : stack[i].contract = c

\* Mutant: only the direct caller is compared.
ReentryAllowed_DirectOnly(c, entry) == Current # c \/ entry = "auth"

\* Mutant: __check_auth may re-enter at any distance.
ReentryAllowed_AnyDistance(c, entry) == ~ OnStack(c) \/ entry = "auth"

(***************************************************************************)
(* call_n_internal: a contract that has a frame on the stack may not be    *)
(* called again, except by __check_auth right on top of its own frame      *)
(* (ContractReentryMode::Prohibited and ::SelfAllowed).                    *)
(***************************************************************************)
ReentryAllowed(c, entry) ==
    \/ ~ OnStack(c)
    \/ entry = "auth" /\ Current = c

\* The call reaches the callee: re-entry check, instance in the ledger, depth.
CanEnter(c, entry) ==
    /\ ReentryAllowed(c, entry)
    /\ ledger[c] # NoInstance
    /\ Len(stack) < MaxDepth

Enter(c, entry) ==
    /\ stack' = Append(stack, NewFrame(c, entry, ledger))
    /\ UNCHANGED <<ledger, events, status, hostfn>>

\* The host function returns an error, which traps the contract that called it.
Trap ==
    /\ status' = "recoverable"
    /\ UNCHANGED <<stack, ledger, events, hostfn>>

(***************************************************************************)
(* call: an error before the callee's frame exists traps the caller.       *)
(* try_call: the caller gets the error as a value.                         *)
(***************************************************************************)
Call(c) ==
    /\ InContract \/ InHostFn("InvokeContract")
    /\ started' = TRUE
    /\ IF CanEnter(c, "call") THEN Enter(c, "call") ELSE Trap

TryCall(c) ==
    /\ InContract
    /\ CanEnter(c, "try")
    /\ Enter(c, "try")
    /\ UNCHANGED started

TryCallRefused(c) ==
    /\ InContract
    /\ ~ CanEnter(c, "try")
    /\ UNCHANGED vars

\* require_auth(c) for a custom account c that has to be authenticated now; for
\* create_contract, of the deployer.
CheckAuth(c) ==
    /\ InContract \/ InHostFn("CreateContract")
    /\ c = Current => SelfAuth
    /\ IF CanEnter(c, "auth") THEN Enter(c, "auth") ELSE Trap
    /\ UNCHANGED started

-----------------------------------------------------------------------------
(* Host functions of the contract in the top frame. *)

SetTop(f) == stack' = [stack EXCEPT ![Len(stack)] = f]

\* maybe_init_instance_storage: from the instance the frame was pushed with.
CachedStore(f) == IF f.cache = NoCache THEN f.instance.store ELSE f.cache

\* get_contract_data(Instance): with_instance_storage.
GetInstanceData ==
    /\ InContract
    /\ SetTop([Top EXCEPT !.cache = CachedStore(Top)])
    /\ UNCHANGED <<ledger, events, status, hostfn, started>>

\* put_contract_data / del_contract_data(Instance): with_mut_instance_storage.
PutInstanceData(v) ==
    /\ InContract
    /\ SetTop([Top EXCEPT !.cache = v, !.modified = TRUE])
    /\ UNCHANGED <<ledger, events, status, hostfn, started>>

\* put_contract_data / del_contract_data of the contract's other data.
PutContractData(v) ==
    /\ InContract
    /\ ledger' = [ledger EXCEPT ![Current] = [@ EXCEPT !.data = v]]
    /\ UNCHANGED <<stack, events, status, hostfn, started>>

record_event ==
    /\ Len(events) < MaxEvents
    /\ events' = Append(events, [by |-> Current, failed |-> FALSE])

ContractEvent ==
    /\ InContract
    /\ record_event
    /\ UNCHANGED <<stack, ledger, status, hostfn, started>>

\* store_contract_instance keeps what it is not given from the ledger's entry:
\* here the instance storage, in persist_instance_storage the executable.
UpdateCurrentContractWasm(w) ==
    /\ InContract
    /\ Top.instance.exec # StellarAsset
    /\ record_event
    /\ ledger' = [ledger EXCEPT ![Current] = [@ EXCEPT !.exec = w]]
    /\ UNCHANGED <<stack, status, hostfn, started>>

\* create_contract_with_id: an existing contract is an error.
NewInstance(exec) == [exec |-> exec, store |-> InitVal, data |-> InitVal]

CreateContract(c, w) ==
    /\ InContract \/ InHostFn("CreateContract")
    /\ started' = TRUE
    /\ IF ledger[c] = NoInstance
       THEN /\ ledger' = [ledger EXCEPT ![c] = NewInstance(w)]
            /\ UNCHANGED <<stack, events, status, hostfn>>
       ELSE Trap

\* create_asset_contract: the new contract's init_asset is called in a frame
\* of its own, whose rollback point holds the instance already.
CreateAssetContract(c) ==
    /\ InContract \/ InHostFn("CreateContract")
    /\ started' = TRUE
    /\ IF ledger[c] = NoInstance
       THEN /\ ledger' = [ledger EXCEPT ![c] = NewInstance(StellarAsset)]
            /\ IF Len(stack) < MaxDepth
               THEN /\ stack' = Append(stack, NewFrame(c, "call", ledger'))
                    /\ UNCHANGED status
               ELSE status' = "recoverable" /\ UNCHANGED stack
            /\ UNCHANGED <<events, hostfn>>
       ELSE Trap

-----------------------------------------------------------------------------
(* The end of a frame. *)

\* Mutant: is_modified is not looked at.
persist_instance_storage_Always(f) ==
    IF f.contract # NoContract
    THEN ledger' = [ledger EXCEPT ![f.contract] = [@ EXCEPT !.store = f.cache]]
    ELSE UNCHANGED ledger

persist_instance_storage(f) ==
    IF f.modified
    THEN ledger' = [ledger EXCEPT ![f.contract] = [@ EXCEPT !.store = f.cache]]
    ELSE UNCHANGED ledger

\* The frame's function returns a value that is not an error.
Return ==
    /\ Running
    /\ Current = NoContract => started
    /\ persist_instance_storage(Top)
    /\ stack' = SubSeq(stack, 1, Len(stack) - 1)
    /\ UNCHANGED <<events, status, hostfn, started>>

\* The contract traps, returns an error, runs out of budget, or its instance
\* storage cannot be flushed.
Fail ==
    /\ Running
    /\ status' \in {"recoverable", "unrecoverable"}
    /\ UNCHANGED <<stack, ledger, events, hostfn, started>>

\* Mutant: the first event of the failed call survives.
rollback_events_OffByOne(n) ==
    events' = [i \in 1 .. Len(events) |->
                  IF i > n + 1 THEN [events[i] EXCEPT !.failed = TRUE]
                  ELSE events[i]]

\* InternalEventsBuffer::rollback: later events belong to a failed call.
rollback_events(n) ==
    events' = [i \in 1 .. Len(events) |->
                  IF i > n THEN [events[i] EXCEPT !.failed = TRUE]
                  ELSE events[i]]

\* Mutant: storage is restored only where the error is handled.
Unwind_RestoresAtTryOnly ==
    /\ status # "run" /\ Len(stack) > 0
    /\ ledger' = IF Top.entry = "try" THEN Top.rp.ledger ELSE ledger
    /\ rollback_events(Top.rp.events)
    /\ stack' = SubSeq(stack, 1, Len(stack) - 1)
    /\ status' = IF Top.entry = "try" /\ status = "recoverable"
                 THEN "run" ELSE status
    /\ UNCHANGED <<hostfn, started>>

(***************************************************************************)
(* pop_context with the rollback point.  try_call turns a recoverable      *)
(* error of its callee into a value; everyone else fails as well.          *)
(***************************************************************************)
Unwind ==
    /\ status # "run" /\ Len(stack) > 0
    /\ ledger' = Top.rp.ledger
    /\ rollback_events(Top.rp.events)
    /\ stack' = SubSeq(stack, 1, Len(stack) - 1)
    /\ status' = IF Top.entry = "try" /\ status = "recoverable"
                 THEN "run" ELSE status
    /\ UNCHANGED <<hostfn, started>>

Next ==
    \/ \E c \in Contract :
          Call(c) \/ TryCall(c) \/ TryCallRefused(c) \/ CheckAuth(c)
    \/ GetInstanceData
    \/ \E v \in Val : PutInstanceData(v) \/ PutContractData(v)
    \/ ContractEvent
    \/ \E w \in Wasm : UpdateCurrentContractWasm(w)
    \/ \E c \in Contract : CreateAssetContract(c)
    \/ \E c \in Contract, w \in Wasm : CreateContract(c, w)
    \/ Return
    \/ Fail
    \/ Unwind

Spec == Init /\ [][Next]_vars

-----------------------------------------------------------------------------
(* Correctness. *)

(***************************************************************************)
(* The state as the sub-transaction of frame i sees it (0: the embedder):  *)
(* the ledger at the moment the next frame was pushed, under the modified  *)
(* instance storage that the frames up to i have not flushed yet.          *)
(***************************************************************************)
LedgerAt(i) == IF i = Len(stack) THEN ledger ELSE stack[i + 1].rp.ledger

EventsAt(i) == IF i = Len(stack) THEN Len(events) ELSE stack[i + 1].rp.events

Unflushed(i, c) == {j \in 1 .. i : stack[j].contract = c /\ stack[j].modified}

StateAt(i) ==
    [c \in Contract |->
        IF Unflushed(i, c) = {} THEN LedgerAt(i)[c]
        ELSE [LedgerAt(i)[c] EXCEPT
                !.store = stack[CHOOSE j \in Unflushed(i, c) :
                                    \A k \in Unflushed(i, c) : k <= j].cache]]

LogAt(i) == [p \in {q \in 1 .. EventsAt(i) : ~ events[q].failed} |-> events[p]]

Views == [i \in 1 .. Len(stack) + 1 |-> [state |-> StateAt(i - 1), log |-> LogAt(i - 1)]]

Transactions ==
    INSTANCE NestedTx WITH views <- Views,
                           State <- Instance \union {NoInstance}

(***************************************************************************)
(* Contract calls are nested transactions: what a frame and its callees    *)
(* did to the ledger, to instance storage and to the event log becomes     *)
(* visible to the caller as a whole when the frame succeeds, and not at    *)
(* all when it fails (with_frame, push_context, pop_context,               *)
(* persist_instance_storage, InternalEventsBuffer::rollback).              *)
(***************************************************************************)
CallsAreTransactions == Transactions!Spec

(***************************************************************************)
(* A frame that is going to flush its instance storage                     *)
(* (persist_instance_storage) will replace exactly the version that        *)
(* maybe_init_instance_storage loaded, not a newer one.                    *)
(***************************************************************************)
FlushReplacesWhatWasRead ==
    Len(stack) > 0 /\ Top.modified =>
        ledger[Current].store = Top.instance.store

(***************************************************************************)
(* A failed invocation leaves the ledger as it was, and no contract event  *)
(* of it is externalized, however deep it failed and whatever try_call     *)
(* recovered from on the way.                                              *)
(***************************************************************************)
FailedInvocationLeavesNoTrace ==
    Len(stack) = 0 /\ status # "run" =>
        /\ ledger = Ledger0
        /\ \A i \in 1 .. Len(events) : events[i].failed

(***************************************************************************)
(* Re-entry is only ever __check_auth on top of its own account's frame:   *)
(* the frames of a contract are adjacent, and the upper one was entered by *)
(* require_auth (call_n_internal's re-entry check).                        *)
(***************************************************************************)
ReentryOnlyByCheckAuth ==
    \A i, j \in 1 .. Len(stack) :
        i < j /\ stack[i].contract = stack[j].contract =>
            \A k \in i + 1 .. j :
                stack[k].contract = stack[i].contract /\ stack[k].entry = "auth"
=============================================================================
