------------------------------- MODULE Metering -------------------------------
(***************************************************************************)
(* Who pays for an invocation.  A contract runs in a wasmi VM that counts  *)
(* fuel; the host counts cpu and memory.  The rest of the cpu budget is    *)
(* handed to a VM as fuel when it starts to run and every time a host      *)
(* function returns to it, and what it burned is charged to the host every *)
(* time it calls a host function or ends (vm.rs, vm/dispatch.rs,           *)
(* vm/fuel_refillable.rs, budget/wasmi_helper.rs).  Contracts call         *)
(* contracts, so there is a stack of VMs, and any charge may be the one    *)
(* that does not fit: in the middle of a snapshot, of a flush, of an error *)
(* report or after the last frame is gone.                                 *)
(*                                                                         *)
(* Contracts are arbitrary programs.  The ledger is abstracted to the      *)
(* number of entries that were written, the events to their number.        *)
(***************************************************************************)
EXTENDS Budget

CONSTANTS
    Config,         \* network settings: cost parameters and limits
    Code,           \* Wasm modules: size, initial memory, metadata
    LedgerProto,    \* the ledger's protocol version
    HostProto,      \* the protocol and pre-release of meta::INTERFACE_VERSION
    HostPre,
    Burst,          \* fuel that a stretch of Wasm instructions takes
    Growth,         \* sizes in bytes of a memory.grow
    MaxMemory,      \* the memory limit a module declares
    MaxDepth,       \* DEFAULT_HOST_DEPTH_LIMIT
    MaxEffects      \* bound on the writes and the events of an invocation

ASSUME MeteringAssumption ==
    /\ \A c \in Config :
           /\ \A kind \in {"cpu", "mem"} : valid_params(Params[c.net][kind])
           /\ {c.cpu_limit, c.mem_limit, c.shadow_limit} \subseteq 0 .. U64Max
    /\ \A m \in Code : m.len \in Nat /\ m.memory \in Nat
    /\ MaxDepth \in Nat \ {0} /\ MaxEffects \in Nat /\ MaxMemory \in Nat
    /\ Burst \subseteq Nat \ {0} /\ Growth \subseteq Nat

\* An embedder does not run a ledger that is newer than the host it has.
ASSUME ProtocolAssumption ==
    LedgerProto \in Nat /\ HostProto \in Nat /\ LedgerProto <= HostProto

\* FuelConfig::default: every instruction takes `base', a call `call' more.
FuelConfig == [base |-> 1, entity |-> 3, load |-> 2, store |-> 1, call |-> 67]
CallFuel == FuelConfig.base + FuelConfig.call

Fuel == [total : Nat, consumed : Nat]
NoFuel == [total |-> 0, consumed |-> 0]

VARIABLES
    budget,     \* HostImpl.budget
    stack,      \* context_stack: the host function's frame, then one per VM
    auth,       \* length of the authorization manager's call_stack
    ctl,        \* who has control
    err,        \* the error on its way down the stack, or NoErr
    pos,        \* values converted or encoded in the loop at the end that runs
    writes,     \* entries written to the storage map
    events,     \* contract events in the buffer, failed ones included
    burned,     \* history: fuel taken by all the instructions that ran
    turn        \* flips with every step of the host's thread

vars == <<budget, stack, auth, ctl, err, pos, writes, events, burned, turn>>

\* `entry' is who waits for the frame, `flush' whether its instance storage
\* was modified, `saved' the rollback point.
Frame ==
    [fuel : Fuel, entry : {"host", "call", "try_call"}, memory : Nat,
     flush : BOOLEAN, saved : Nat]

Control ==
    {"start", "vm", "trapped", "exit", "finish", "encode", "committed", "failed"}

U64 == 0 .. U64Max

Dimension(k) ==
    [net : {c.net : c \in Config}, kind : {k}, limit : U64, total_count : U64,
     shadow_limit : U64, shadow_total_count : U64]

BudgetType == [cpu : Dimension("cpu"), mem : Dimension("mem"), shadow : BOOLEAN]

\* The values of the variables have the types of the Rust fields they model.
TypeOK ==
    /\ budget \in BudgetType
    /\ stack \in Seq(Frame) /\ Len(stack) <= MaxDepth
    /\ auth \in Nat
    /\ ctl \in Control
    /\ err \in Error
    /\ writes \in Nat /\ events \in Nat /\ pos \in Nat
    /\ burned \in Nat /\ turn \in {0, 1}

Init ==
    /\ \E c \in Config :
           budget = set_shadow_limits(try_from_configs(c.net, c.cpu_limit, c.mem_limit),
                                      c.shadow_limit, c.shadow_limit)
    /\ stack = <<>> /\ auth = 0
    /\ ctl = "start" /\ err = NoErr /\ pos = 0
    /\ writes = 0 /\ events = 0 /\ burned = 0 /\ turn = 0

Top == stack[Len(stack)]
WithTop(f) == [stack EXCEPT ![Len(stack)] = f]
Below == SubSeq(stack, 1, Len(stack) - 1)

----------------------------------------------------------------------------
(* Fuel (vm/fuel_refillable.rs). *)

is_clean(fuel) == fuel = NoFuel

\* add_fuel_to_vm
add_fuel_to_vm(b, fuel) ==
    IF is_clean(fuel)
    THEN [fuel |-> [fuel EXCEPT !.total = get_wasmi_fuel_remaining(b)], err |-> NoErr]
    ELSE [fuel |-> fuel, err |-> Err("WasmVm", "InternalError")]

\* Mutant: the VM keeps the fuel that was charged.
return_fuel_without_reset(b, fuel) ==
    LET r == charge(b, Charge("WasmInsnExec", fuel.consumed, <<>>))
    IN [b |-> r.b, err |-> r.err, fuel |-> fuel]

\* return_fuel_to_host: the fuel is only reset when it could be charged.
reset_fuels(r, fuel) ==
    [b |-> r.b, err |-> r.err, fuel |-> IF r.err = NoErr THEN NoFuel ELSE fuel]

return_fuel_to_host(b, fuel) ==
    reset_fuels(charge(b, Charge("WasmInsnExec", fuel.consumed, <<>>)), fuel)

----------------------------------------------------------------------------
(* Starting a VM (vm.rs, host/frame.rs). *)

\* Vm::check_contract_interface_version
supported_version(m) ==
    \/ m.proto < LedgerProto /\ m.pre = 0
    \/ m.proto = LedgerProto /\ m.pre = HostPre

check_contract_interface_version(m) ==
    IF LedgerProto > HostProto THEN Err("Context", "InternalError")
    ELSE IF supported_version(m) THEN NoErr ELSE Err("WasmVm", "InvalidInput")

\* Vm::check_meta_section and check_max_args
check_module(m) ==
    IF m.many_args \/ ~m.has_meta THEN Err("WasmVm", "InvalidInput")
    ELSE check_contract_interface_version(m)

\* Vm::new: instantiation is charged by size, the module is checked and
\* linked, and its table and memory are allocated through the resource limiter.
instantiated(grow) ==
    [b |-> grow.b, err |-> IF grow.grown THEN NoErr ELSE wasmi_error("OutOfBoundsGrowth")]

instantiate(paid, m) ==
    CASE paid.err # NoErr        -> paid
      [] check_module(m) # NoErr -> [b |-> paid.b, err |-> check_module(m)]
      [] m.fault # "none" -> [b |-> paid.b, err |-> wasmi_error(m.fault)]
      [] ~table_growing(m.table) -> [b |-> paid.b, err |-> wasmi_error("GrowOutOfBounds")]
      [] OTHER -> instantiated(memory_growing(paid.b, 0, m.memory, MaxMemory))

Vm_new(b, m) == instantiate(charge(b, Charge("VmInstantiation", 1, <<m.len>>)), m)

ContextSize == 512
EntrySize == 40
ValueSize == 16

\* push_context clones the storage map for the rollback point, then charges
\* for the push; the authorization manager already has the frame by then.
push_context_charges(b) ==
    charge_bulk_init_cpy(metered_clone(Start(b), writes, VecSize, EntrySize),
                         1, VecSize, ContextSize)

\* invoke_function_raw and metered_func_call up to add_fuel_to_vm.
invoke_charges(b) ==
    charge_next(charge_bulk_init_cpy(Start(b), 1, VecSize, ValueSize),
                Charge("InvokeVmFunction", 1, <<>>))

NewFrame(entry, memory, fuel) ==
    [fuel |-> fuel, entry |-> entry, memory |-> memory, flush |-> FALSE, saved |-> writes]

\* call_contract_fn: how far a call gets, and what it leaves behind.  First the
\* VM is made, then the frame is pushed, then the VM's function is called.
Got(at, r) == [at |-> at, b |-> r.b, err |-> r.err]

AfterInvoke(fn) == Got(IF fn.err # NoErr THEN "inside" ELSE "running", fn)

AfterPush(rp) ==
    IF rp.err # NoErr THEN Got("unpushed", rp) ELSE AfterInvoke(invoke_charges(rp.b))

AfterVmNew(vm) ==
    IF vm.err # NoErr THEN Got("outside", vm)
    ELSE IF Len(stack) >= MaxDepth
    THEN Got("outside", [vm EXCEPT !.err = Err("Context", "ExceededLimit")])
    ELSE AfterPush(push_context_charges(vm.b))

CallOutcome(b, m) == AfterVmNew(Vm_new(b, m))

HasFrame(o) == o.at \notin {"outside", "unpushed"}

\* The authorization manager has the frame once push_context was called.
CalleeKnown(o) == auth' = IF o.at = "outside" THEN auth ELSE auth + 1

\* The callee has a frame on top of `below': its VM runs, or failed to start.
Enter(o, below, entry, m) ==
    /\ budget' = o.b /\ err' = o.err
    /\ IF o.at = "running"
       THEN /\ stack' = Append(below, NewFrame(entry, m.memory, add_fuel_to_vm(o.b, NoFuel).fuel))
            /\ ctl' = "vm"
       ELSE stack' = Append(below, NewFrame(entry, m.memory, NoFuel)) /\ ctl' = "exit"

\* invoke_function(InvokeContract): the host function's own frame, which the
\* authorization manager does not see.
InvokeFunction ==
    /\ ctl = "start" /\ stack = <<>>
    /\ \E rp \in {push_context_charges(budget)} :
          /\ budget' = rp.b
          /\ err' = rp.err
          /\ IF rp.err # NoErr
             THEN stack' = stack /\ ctl' = "finish"
             ELSE stack' = <<NewFrame("host", 0, NoFuel)>> /\ UNCHANGED ctl
    /\ UNCHANGED <<auth, writes, events, burned>>

CallFromHostFunction ==
    /\ ctl = "start" /\ stack # <<>>
    /\ \E m \in Code : \E o \in {CallOutcome(record_diagnostics(budget, 3, 1), m)} :
          /\ IF HasFrame(o) THEN Enter(o, stack, "call", m)
             ELSE budget' = o.b /\ err' = o.err /\ ctl' = "exit" /\ UNCHANGED stack
          /\ CalleeKnown(o)
    /\ UNCHANGED <<writes, events, burned>>

----------------------------------------------------------------------------
(* Instructions (wasmi, external). *)

\* Mutant: fuel consumption is not switched on in wasmi's configuration.
Burn_nothing(n) == [fuel |-> Top.fuel, err |-> NoErr, ran |-> 0]

\* Fuel is taken before an instruction runs; one it does not suffice for traps.
Burn(n) ==
    IF n > Top.fuel.total - Top.fuel.consumed
    THEN [fuel |-> Top.fuel, err |-> trap_error("OutOfFuel"), ran |-> 0]
    ELSE [fuel |-> [Top.fuel EXCEPT !.consumed = @ + n], err |-> NoErr, ran |-> n]

Trap(e) == ctl' = "trapped" /\ err' = e

Exec(n) ==
    /\ ctl = "vm"
    /\ \E r \in {Burn(n)} :
          /\ stack' = WithTop([Top EXCEPT !.fuel = r.fuel])
          /\ burned' = burned + r.ran
          /\ IF r.err = NoErr THEN UNCHANGED <<ctl, err>> ELSE Trap(r.err)
    /\ UNCHANGED <<budget, auth, writes, events>>

\* The contract traps by itself, or overflows wasmi's stack.
SelfTrap(code) ==
    /\ ctl = "vm"
    /\ Trap(trap_error(code))
    /\ UNCHANGED <<budget, stack, auth, writes, events, burned>>

\* memory.grow.  A growth the limiter refuses traps or lets the contract go on.
MemoryGrow(delta) ==
    /\ ctl = "vm"
    /\ \E r \in {Burn(FuelConfig.base + FuelConfig.entity)} :
          /\ burned' = burned + r.ran
          /\ \/ r.err # NoErr /\ Trap(r.err) /\ UNCHANGED <<budget, stack>>
             \/ /\ r.err = NoErr
                /\ \E g \in {memory_growing(budget, Top.memory, Top.memory + delta, MaxMemory)} :
                      /\ budget' = g.b
                      /\ stack' = WithTop([Top EXCEPT !.fuel = r.fuel,
                                                !.memory = IF g.grown THEN @ + delta ELSE @])
                      /\ \/ UNCHANGED <<ctl, err>>
                         \/ ~g.grown /\ Trap(trap_error("GrowthOperationLimited"))
    /\ UNCHANGED <<auth, writes, events>>

----------------------------------------------------------------------------
(* Host functions (vm/dispatch.rs). *)

\* The call instruction, return_fuel_to_host and the charge for dispatching.
Dispatched(paid, fuel) == [b |-> paid.b, fuel |-> fuel, err |-> paid.err, ran |-> CallFuel]

AfterReturnFuel(back) ==
    IF back.err # NoErr THEN Dispatched(back, back.fuel)
    ELSE Dispatched(charge(back.b, Charge("DispatchHostFunction", 1, <<>>)), back.fuel)

AfterCallInstruction(call) ==
    IF call.err # NoErr THEN [b |-> budget, fuel |-> call.fuel, err |-> call.err, ran |-> 0]
    ELSE AfterReturnFuel(return_fuel_to_host(budget, call.fuel))

Dispatch == AfterCallInstruction(Burn(CallFuel))

HandleSize == 8

\* The end of a dispatch function.  A result that is an object gets a relative
\* handle; an error is reported and becomes a trap.  In both cases the VM gets
\* its fuel back first, except when the handle could not be paid for.
Marshalled(b, e, object) ==
    IF e # NoErr THEN [b |-> report_error(b, 0), err |-> NoErr]
    ELSE IF object THEN charge(b, charge_heap_alloc(1, HandleSize))
    ELSE [b |-> b, err |-> NoErr]

Refuelled(r, fuel) ==
    IF r.err = NoErr THEN add_fuel_to_vm(r.b, fuel) ELSE [fuel |-> fuel, err |-> r.err]

Resume(b, frame, below, e, object) ==
    \E r \in {Marshalled(b, e, object)} : \E refuel \in {Refuelled(r, frame.fuel)} :
        /\ budget' = r.b
        /\ stack' = Append(below, [frame EXCEPT !.fuel = refuel.fuel])
        /\ err' = IF refuel.err # NoErr THEN refuel.err ELSE e
        /\ ctl' = IF err' = NoErr THEN "vm" ELSE "trapped"

\* A dispatch that failed before the host function was reached.
TrapDispatch(d) ==
    budget' = d.b /\ stack' = WithTop([Top EXCEPT !.fuel = d.fuel]) /\ Trap(d.err)

\* What host functions that do not call contracts do: charge, then change
\* something.  `log' works in shadow mode only; `fail' is fail_with_error with
\* a contract error, or any function that refuses what it is asked to do;
\* `bad_arg' is any function with an argument that is not a good Val.
HostFunction == {"get", "put", "put_instance", "event", "log", "fail", "bad_arg"}

\* A bad argument ends the dispatch before the function is called.
Marshal(d, f) ==
    IF d.err = NoErr /\ f = "bad_arg" THEN [d EXCEPT !.err = Err("Value", "InvalidInput")] ELSE d

ObjSize == 48

VisitObject(b) == charge(b, Charge("VisitObject", 1, <<>>))

body(b, f) ==
    CASE f = "put"          -> metered_clone(VisitObject(b), writes, VecSize, EntrySize)
      [] f = "put_instance" -> VisitObject(b)
      [] f = "event"        -> charge_bulk_init_cpy(Start(b), 1, VecSize, EventRecordSize)
      [] f = "get"          -> charge_next(VisitObject(b), charge_heap_alloc(1, ObjSize))
      [] f = "log"          -> Start(record_diagnostics(b, 1, 2))
      [] OTHER              -> [b |-> report_error(b, 1), err |-> Err("Contract", "Any")]

\* The writes that are still to come when frames end.
Flushes == Cardinality({i \in 1 .. Len(stack) : stack[i].flush})

CallHost(f) ==
    /\ ctl = "vm"
    /\ f = "put" \/ (f = "put_instance" /\ ~Top.flush) => writes + Flushes < MaxEffects
    /\ f = "event" => events < MaxEffects
    /\ \E d \in {Marshal(Dispatch, f)} :
          /\ burned' = burned + d.ran
          /\ IF d.err # NoErr THEN TrapDispatch(d) /\ UNCHANGED <<writes, events>>
             ELSE \E r \in {body(d.b, f)} :
                    /\ writes' = IF r.err = NoErr /\ f = "put" THEN writes + 1 ELSE writes
                    /\ events' = IF r.err = NoErr /\ f = "event" THEN events + 1 ELSE events
                    /\ Resume(r.b, [Top EXCEPT !.fuel = d.fuel,
                                        !.flush = @ \/ (r.err = NoErr /\ f = "put_instance")],
                              Below, r.err, f = "get")
    /\ UNCHANGED auth

\* try_call: only recoverable errors become a result.
try_call_result(entry, e) == IF entry = "try_call" /\ is_recoverable(e) THEN NoErr ELSE e

\* call and try_call, up to the point where the callee's VM runs.  A call that
\* fails before the callee has a frame returns to the dispatch function here.
CallContract(entry, m) ==
    /\ ctl = "vm"
    /\ \E d \in {Dispatch} :
          /\ burned' = burned + d.ran
          /\ IF d.err # NoErr THEN TrapDispatch(d) /\ UNCHANGED auth
             ELSE \E o \in {CallOutcome(record_diagnostics(d.b, 3, 1), m)},
                     caller \in {[Top EXCEPT !.fuel = d.fuel]} :
                    /\ CalleeKnown(o)
                    /\ IF HasFrame(o) THEN Enter(o, WithTop(caller), entry, m)
                       ELSE Resume(report_error(o.b, 2), caller, Below,
                                   try_call_result(entry, o.err), FALSE)
    /\ UNCHANGED <<writes, events>>

----------------------------------------------------------------------------
(* Leaving a frame. *)

\* The end of metered_func_call: the VM returned a value, or trapped.  The fuel
\* is charged before the outcome is looked at.  A returned Error value is a
\* contract error, or an invalid action when it claims to be the host's.
returned_error(v) ==
    CASE v = "value"          -> NoErr
      [] v = "contract_error" -> Err("Contract", "Any")
      [] OTHER                -> Err("Context", "InvalidAction")

LeaveVm(outcome) ==
    \E back \in {return_fuel_to_host(budget, Top.fuel)} :
       /\ stack' = WithTop([Top EXCEPT !.fuel = back.fuel])
       /\ err' = IF back.err # NoErr THEN back.err ELSE outcome
       /\ budget' = IF err' = NoErr THEN back.b ELSE report_error(back.b, 1)
       /\ ctl' = "exit"
       /\ UNCHANGED <<auth, writes, events, burned>>

VmReturn(v) == ctl = "vm" /\ LeaveVm(returned_error(v))

VmTrapped == ctl = "trapped" /\ LeaveVm(err)

\* persist_instance_storage: the map is serialised and stored.
flush_charges(b) ==
    metered_clone(charge_bulk_init_cpy(Start(b), 1, VecSize, ValueSize),
                  writes, VecSize, EntrySize)

Flushed == IF err = NoErr /\ Top.flush THEN flush_charges(budget) ELSE Start(budget)

\* The end of with_frame: flush, then pop, rolling back on error.
Popped(flushed) ==
    LET failed == err # NoErr \/ flushed.err # NoErr
    IN [err |-> IF err # NoErr THEN err ELSE flushed.err,
        writes |-> IF failed THEN Top.saved
                   ELSE IF Top.flush THEN writes + 1 ELSE writes,
        b |-> flushed.b]

\* fn_return_diagnostics, or the report of call's error to its contract.
ReturnDiagnostics(p) ==
    IF p.err = NoErr THEN record_diagnostics(p.b, 2, 1)
    ELSE IF Len(stack) > 2 THEN report_error(p.b, 2) ELSE p.b

PopFrame ==
    /\ ctl = "exit"
    /\ \E p \in {Popped(Flushed)} :
          /\ writes' = p.writes
          /\ \/ /\ Len(stack) = 1
                /\ budget' = p.b /\ stack' = <<>> /\ err' = p.err /\ ctl' = "finish"
             \/ /\ Len(stack) = 2
                /\ budget' = ReturnDiagnostics(p) /\ stack' = Below
                /\ err' = p.err /\ ctl' = "exit"
             \/ /\ Len(stack) > 2
                /\ Resume(ReturnDiagnostics(p), stack[Len(stack) - 1],
                          SubSeq(stack, 1, Len(stack) - 2),
                          try_call_result(Top.entry, p.err), FALSE)
    /\ auth' = IF auth = 0 THEN 0 ELSE auth - 1
    /\ UNCHANGED <<events, burned>>

HostEventSize == 136
ResultSize == 8

\* The end of e2e_invoke::invoke_host_function: try_finish converts all the
\* events, failed ones included, then the result, the changed entries and the
\* events are encoded, and every one of these charges may still fail.
Charged(r, next) ==
    /\ budget' = r.b
    /\ IF r.err = NoErr THEN pos' = pos + 1 /\ ctl' = next /\ UNCHANGED err
       ELSE ctl' = "failed" /\ err' = r.err /\ UNCHANGED pos

ConvertEvent ==
    /\ ctl = "finish" /\ pos < events
    /\ \E r \in {charge_bulk_init_cpy(Start(budget), 1, VecSize, HostEventSize)} :
          Charged(r, "finish")

\* Only then is the outcome of the host function looked at.
Converted ==
    /\ ctl = "finish" /\ pos = events
    /\ ctl' = IF err = NoErr THEN "encode" ELSE "failed"
    /\ pos' = 0
    /\ UNCHANGED <<budget, err>>

EncodeValue ==
    /\ ctl = "encode"
    /\ \E r \in {charge(budget, Charge("ValSer", 1, <<ResultSize>>))} :
          Charged(r, IF pos < writes + events THEN "encode" ELSE "committed")

Finish ==
    /\ ConvertEvent \/ Converted \/ EncodeValue
    /\ UNCHANGED <<stack, auth, writes, events, burned>>

----------------------------------------------------------------------------
Step ==
    \/ InvokeFunction
    \/ CallFromHostFunction
    \/ \E n \in Burst : Exec(n)
    \/ \E code \in {"UnreachableCodeReached", "StackOverflow"} : SelfTrap(code)
    \/ \E delta \in Growth : MemoryGrow(delta)
    \/ \E f \in HostFunction : CallHost(f)
    \/ \E entry \in {"call", "try_call"}, m \in Code : CallContract(entry, m)
    \/ \E v \in {"value", "contract_error", "other_error"} : VmReturn(v)
    \/ VmTrapped
    \/ PopFrame

Ended == ctl \in {"committed", "failed"}

Done == Ended /\ UNCHANGED vars

Turn == ~Ended /\ turn' = 1 - turn

Next == (((Step /\ UNCHANGED pos) \/ Finish) /\ Turn) \/ Done

\* The host runs in the embedder's thread: an invocation that was started is
\* never set aside, so until it has ended its thread takes another turn.  (Some
\* step is always possible then: TLC checks that there is no deadlock.)
Spec == Init /\ [][Next]_vars /\ WF_turn(Turn)

----------------------------------------------------------------------------
(* Properties. *)

Price == cost_models(budget.cpu)["WasmInsnExec"].const_term
Running == IF stack = <<>> THEN 0 ELSE Top.fuel.consumed
OverBudget == over_limit(budget.cpu, FALSE) \/ over_limit(budget.mem, FALSE)

\* Every instruction that ran in any VM and was handed back is in the cpu total
\* of the real budget, never in the shadow one, and all the instructions of all
\* the VMs together never cost more than the limit: no nesting, failing or
\* retrying of calls, no diagnostics and no memory growth hands the same budget
\* out twice (get_wasmi_fuel_remaining, return_fuel_to_host).
WorkIsPaidFor ==
    /\ ~budget.shadow
    /\ Price * (burned - Running) <= budget.cpu.total_count
    /\ Price * burned <= budget.cpu.limit

\* Only the VM that runs holds fuel, its callers hold none, and the internal
\* error for a VM that still has fuel (`VM fuel must be clean') never occurs.
OnlyTheRunningVmHoldsFuel ==
    /\ \A i \in 1 .. Len(stack) - 1 : is_clean(stack[i].fuel)
    /\ err.code # "InternalError"

\* A contract never runs on with an authorization stack that does not match
\* the context stack: push_context gives the frame to the authorization
\* manager before it has paid for the snapshot, and does not take it back when
\* it cannot pay, so that failure must not be one that try_call recovers from.
AuthStackMatchesFrames == ctl = "vm" => auth = Len(stack) - 1

\* An invocation that went over a limit is never committed, even though the
\* resource limiter, shadow mode and try_call all swallow errors; and when the
\* last frame is left with an error no write remains, whichever charge failed.
ExhaustionIsFatal ==
    /\ OverBudget => ctl # "committed"
    /\ ctl = "finish" /\ err # NoErr => writes = 0

\* Every invocation ends, whatever its contracts do: each way around a loop
\* takes fuel or is charged.
EveryInvocationEnds == <>Ended
=============================================================================
