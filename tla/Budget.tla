-------------------------------- MODULE Budget --------------------------------
(***************************************************************************)
(* The budget of an invocation (soroban-env-host/src/budget.rs and         *)
(* budget/): two dimensions, cpu instructions and memory bytes, each with  *)
(* a limit, a running total and a table of linear cost models; and a       *)
(* second, shadow, pair of totals that takes the cost of work that must    *)
(* not be observed, such as diagnostics.  Everything here is a function of *)
(* a budget record; Metering.tla has the state machine.                    *)
(*                                                                         *)
(* An Option<u64> is a sequence of at most one element: <<>> is None.      *)
(***************************************************************************)
EXTENDS Naturals, Sequences, FiniteSets

CONSTANTS
    U64Max,         \* u64::MAX: all the arithmetic below saturates at it
    Params          \* the cost parameters of each network setting, by name

ASSUME U64Assumption == U64Max \in Nat \ {0}

sat_add(x, y) == IF y > U64Max - x THEN U64Max ELSE x + y
\* Mutant: overflow checks off.
sat_sub_wrapping(x, y) == x - y

sat_sub(x, y) == IF y > x THEN 0 ELSE x - y
sat_mul(x, y) == IF x # 0 /\ y > U64Max \div x THEN U64Max ELSE x * y

----------------------------------------------------------------------------
(* Errors: an ScErrorType and an ScErrorCode, or the code of a contract.    *)

ErrorType == {"Ok", "Contract", "WasmVm", "Context", "Storage", "Object", "Crypto",
              "Events", "Budget", "Value", "Auth"}
ErrorCode == {"Ok", "Any", "ArithDomain", "IndexBounds", "InvalidInput", "MissingValue",
              "ExistingValue", "ExceededLimit", "InvalidAction", "InternalError",
              "UnexpectedType", "UnexpectedSize"}
Error == [type : ErrorType, code : ErrorCode]

Err(type, code) == [type |-> type, code |-> code]
NoErr == Err("Ok", "Ok")
ExceededLimit == Err("Budget", "ExceededLimit")
BudgetInternal == Err("Budget", "InternalError")

\* Mutant: only the storage's limit is fatal.
is_recoverable_budget(e) ==
    /\ e.type = "Contract" \/ e.code # "InternalError"
    /\ e.code = "ExceededLimit" => e.type # "Storage"

is_recoverable(e) ==
    /\ e.type = "Contract" \/ e.code # "InternalError"
    /\ e.code = "ExceededLimit" => e.type \notin {"Storage", "Budget"}

\* How a wasmi trap code becomes an Error.
trap_error(code) ==
    CASE code \in {"StackOverflow", "OutOfFuel", "GrowthOperationLimited"} -> ExceededLimit
      [] code = "UnreachableCodeReached" -> Err("WasmVm", "InvalidAction")
      [] code \in {"MemoryOutOfBounds", "TableOutOfBounds"} -> Err("WasmVm", "IndexBounds")
      [] code = "IndirectCallToNull" -> Err("WasmVm", "MissingValue")
      [] code = "BadSignature" -> Err("WasmVm", "UnexpectedType")
      [] OTHER -> Err("WasmVm", "ArithDomain")

\* How the other errors of wasmi become an Error.  What the resource limiter
\* refuses is a budget error; a module that does not link is not.
wasmi_error(kind) ==
    CASE kind \in {"OutOfBoundsAllocation", "OutOfBoundsGrowth", "GrowOutOfBounds", "OutOfFuel"} ->
             ExceededLimit
      [] kind \in {"OutOfBoundsAccess", "AccessOutOfBounds", "CopyOutOfBounds"} ->
             Err("WasmVm", "IndexBounds")
      [] kind = "ExportedFuncNotFound" -> Err("WasmVm", "MissingValue")
      [] kind \in {"MismatchingType", "TypeMismatch"} -> Err("WasmVm", "UnexpectedType")
      [] kind = "MismatchingLen" -> Err("WasmVm", "UnexpectedSize")
      [] OTHER -> Err("WasmVm", "InvalidAction")

----------------------------------------------------------------------------
(* Cost models. *)

Cost(const, lin) == [const_term |-> const, lin_term |-> lin]

ScaleBits == 128        \* 2 ^ COST_MODEL_LIN_TERM_SCALE_BITS

from_unscaled(u) == u * ScaleBits
unscale(s) == s \div ScaleBits

\* MeteredCostComponent::evaluate
evaluate(model, input) ==
    IF input # <<>> /\ model.lin_term # 0
    THEN sat_add(model.const_term, unscale(sat_mul(model.lin_term, input[1])))
    ELSE model.const_term

\* BudgetTracker::default: the types with an input; for the others it is None.
LinearTypes ==
    {"MemAlloc", "MemCpy", "MemCmp", "ValSer", "ValDeser", "ComputeSha256Hash",
     "VerifyEd25519Sig", "VmInstantiation", "VmCachedInstantiation",
     "ComputeKeccak256Hash", "ChaCha20DrawBytes"}

\* BudgetImpl::default, the cpu dimension.
DefaultCpu ==
    [WasmInsnExec             |-> Cost(4, 0),
     MemAlloc                 |-> Cost(434, from_unscaled(1) \div 8),
     MemCpy                   |-> Cost(42, from_unscaled(1) \div 8),
     MemCmp                   |-> Cost(44, from_unscaled(1) \div 8),
     DispatchHostFunction     |-> Cost(310, 0),
     VisitObject              |-> Cost(61, 0),
     ValSer                   |-> Cost(230, 29),
     ValDeser                 |-> Cost(59052, 4001),
     ComputeSha256Hash        |-> Cost(3738, 7012),
     ComputeEd25519PubKey     |-> Cost(40253, 0),
     VerifyEd25519Sig         |-> Cost(377524, 4068),
     VmInstantiation          |-> Cost(451626, 45405),
     VmCachedInstantiation    |-> Cost(451626, 45405),
     InvokeVmFunction         |-> Cost(1948, 0),
     ComputeKeccak256Hash     |-> Cost(3766, 5969),
     ComputeEcdsaSecp256k1Sig |-> Cost(710, 0),
     RecoverEcdsaSecp256k1Key |-> Cost(2315295, 0),
     Int256AddSub             |-> Cost(4404, 0),
     Int256Mul                |-> Cost(4947, 0),
     Int256Div                |-> Cost(4911, 0),
     Int256Pow                |-> Cost(4286, 0),
     Int256Shift              |-> Cost(913, 0),
     ChaCha20DrawBytes        |-> Cost(1058, 501)]

\* BudgetImpl::default, the memory dimension: free unless listed.
DefaultMem ==
    LET charged ==
            [MemAlloc                 |-> Cost(16, from_unscaled(1)),
             ValSer                   |-> Cost(242, from_unscaled(3)),
             ValDeser                 |-> Cost(0, from_unscaled(3)),
             VmInstantiation          |-> Cost(130065, 5064),
             VmCachedInstantiation    |-> Cost(130065, 5064),
             InvokeVmFunction         |-> Cost(14, 0),
             RecoverEcdsaSecp256k1Key |-> Cost(181, 0),
             Int256AddSub             |-> Cost(99, 0),
             Int256Mul                |-> Cost(99, 0),
             Int256Div                |-> Cost(99, 0),
             Int256Pow                |-> Cost(99, 0),
             Int256Shift              |-> Cost(99, 0)]
    IN [ty \in DOMAIN DefaultCpu |->
            IF ty \in DOMAIN charged THEN charged[ty] ELSE Cost(0, 0)]

CostType == DOMAIN DefaultCpu

----------------------------------------------------------------------------
(* One dimension. *)

\* The cost_models of a dimension never change, so it only names them.
cost_models(dim) == Params[dim.net][dim.kind]

\* BudgetDimension::reset
reset(net, kind, limit) ==
    [net |-> net, kind |-> kind, limit |-> limit, total_count |-> 0,
     shadow_limit |-> limit, shadow_total_count |-> 0]

\* Mutant: what was used is not taken off.
get_remaining_of_limit(dim) == dim.limit

get_remaining(dim) == sat_sub(dim.limit, dim.total_count)

\* BudgetDimension::check_budget_limit
over_limit(dim, shadow) ==
    IF shadow THEN dim.shadow_total_count > dim.shadow_limit
    ELSE dim.total_count > dim.limit

\* BudgetDimension::charge: what is charged, and the dimension afterwards.
amount(dim, c) == sat_mul(evaluate(cost_models(dim)[c.ty], c.input), c.iterations)

charge_dimension(dim, c, shadow) ==
    IF shadow
    THEN [dim EXCEPT !.shadow_total_count = sat_add(@, amount(dim, c))]
    ELSE [dim EXCEPT !.total_count = sat_add(@, amount(dim, c))]

----------------------------------------------------------------------------
(* The budget. *)

\* MeteredCostComponent::try_from: a network setting with a negative term is
\* refused, and BudgetDimension::try_from_config wants every cost type.
valid_params(models) ==
    /\ DOMAIN models = CostType
    /\ \A ty \in CostType :
           models[ty].const_term \in 0 .. U64Max /\ models[ty].lin_term \in 0 .. U64Max

\* BudgetImpl::try_from_configs
try_from_configs(net, cpu_limit, mem_limit) ==
    [cpu |-> reset(net, "cpu", cpu_limit), mem |-> reset(net, "mem", mem_limit),
     shadow |-> FALSE]

set_shadow_limits(b, cpu, mem) ==
    [b EXCEPT !.cpu = [@ EXCEPT !.shadow_limit = cpu],
              !.mem = [@ EXCEPT !.shadow_limit = mem]]

Charge(ty, iterations, input) == [ty |-> ty, iterations |-> iterations, input |-> input]

\* The tracker (reporting only, left out) knows which types have an input: a
\* Some where there is none, or a None where there is one, is an internal error.
input_matches(c) == (c.input # <<>>) <=> (c.ty \in LinearTypes)

\* Mutant: the limit is checked before the charge is added.
charge_after_check(b, c) ==
    IF over_limit(b.cpu, b.shadow) \/ over_limit(b.mem, b.shadow)
    THEN [b |-> b, err |-> ExceededLimit]
    ELSE [b |-> [b EXCEPT !.cpu = charge_dimension(@, c, b.shadow),
                          !.mem = charge_dimension(@, c, b.shadow)], err |-> NoErr]

\* BudgetImpl::charge.  Cpu is charged and checked before memory is charged.
\* A Result<(), HostError> carries the budget as it is then.
check_cpu_limit(b) ==
    [b |-> b, err |-> IF over_limit(b.cpu, b.shadow) THEN ExceededLimit ELSE NoErr]
check_mem_limit(b) ==
    [b |-> b, err |-> IF over_limit(b.mem, b.shadow) THEN ExceededLimit ELSE NoErr]

charge_cpu(b, c) ==
    check_cpu_limit([b EXCEPT !.cpu = charge_dimension(@, c, b.shadow)])
charge_mem(b, c) ==
    check_mem_limit([b EXCEPT !.mem = charge_dimension(@, c, b.shadow)])

charge_mem_after(cpu, c) == IF cpu.err # NoErr THEN cpu ELSE charge_mem(cpu.b, c)

charge(b, c) ==
    IF ~b.shadow /\ ~input_matches(c) THEN [b |-> b, err |-> BudgetInternal]
    ELSE charge_mem_after(charge_cpu(b, c), c)

\* Charges made one after the other, each followed by `?': a Result so far, and
\* the next charge.
Start(b) == [b |-> b, err |-> NoErr]

charge_next(r, c) == IF r.err # NoErr THEN r ELSE charge(r.b, c)

\* Budget::with_shadow_mode(f): f's errors are swallowed, f is skipped when the
\* shadow budget is spent, and the previous mode is put back in any case.
check_shadow_limits(b) ==
    [b |-> b, err |-> IF over_limit(b.cpu, TRUE) \/ over_limit(b.mem, TRUE)
                      THEN ExceededLimit ELSE NoErr]
enter_shadow_mode(b) == check_shadow_limits([b EXCEPT !.shadow = TRUE])
leave_shadow_mode(r, prev) == [r.b EXCEPT !.shadow = prev]

\* BudgetImpl::get_wasmi_fuel_remaining
cpu_per_fuel(b) ==
    LET price == cost_models(b.cpu)["WasmInsnExec"].const_term
    IN IF price > 1 THEN price ELSE 1

get_wasmi_fuel_remaining(b) == get_remaining(b.cpu) \div cpu_per_fuel(b)

----------------------------------------------------------------------------
(* Charges for copies and allocations (host/metered_clone.rs). *)

charge_shallow_copy(n, size) == Charge("MemCpy", 1, <<sat_mul(n, size)>>)
charge_heap_alloc(n, size) == Charge("MemAlloc", 1, <<sat_mul(n, size)>>)

\* MeteredContainer::charge_bulk_init_cpy
charge_bulk_init_cpy(r, len, container, item) ==
    charge_next(charge_next(charge_next(r, charge_shallow_copy(1, container)),
                            charge_heap_alloc(len, item)),
                charge_shallow_copy(len, item))

\* MeteredClone::metered_clone of a Vec of len shallow elements: a shallow copy
\* of the container, then charge_for_substructure.
metered_clone(r, len, container, item) ==
    charge_next(charge_next(charge_next(r, charge_shallow_copy(1, container)),
                            charge_heap_alloc(len, item)),
                charge_shallow_copy(len, item))

----------------------------------------------------------------------------
(* Diagnostics: every step of them runs in shadow mode (with_debug_mode).  *)

VecSize == 24           \* declared sizes, host/declared_size.rs
ArgSize == 64
EventSize == 88
EventRecordSize == 41

\* InternalEventsBuffer::record of a diagnostic event.
record_diagnostic(b) ==
    leave_shadow_mode(charge_bulk_init_cpy(enter_shadow_mode(b), 1, VecSize, EventRecordSize),
                      b.shadow)

\* The body shared by record_err_diagnostics, fn_call_diagnostics,
\* fn_return_diagnostics and log_diagnostics: build topics and args, then
\* record; a charge that fails ends it.
record_built(r) == IF r.err = NoErr THEN Start(record_diagnostic(r.b)) ELSE r

record_in_shadow_mode(r, topics, args) ==
    record_built(charge_next(
        charge_bulk_init_cpy(charge_bulk_init_cpy(r, topics, VecSize, ArgSize),
                             args, VecSize, ArgSize),
        charge_heap_alloc(1, EventSize)))

record_diagnostics(b, topics, args) ==
    leave_shadow_mode(record_in_shadow_mode(enter_shadow_mode(b), topics, args), b.shadow)

\* Host::error
report_in_shadow_mode(r, args) ==
    IF r.err = NoErr THEN Start(record_diagnostics(r.b, 2, args + 1)) ELSE r

report_error(b, args) ==
    leave_shadow_mode(report_in_shadow_mode(enter_shadow_mode(b), args), b.shadow)

----------------------------------------------------------------------------
\* impl ResourceLimiter for Host.  The budget error of a growth that cannot be
\* paid is not propagated: wasmi only learns that the growth is refused.
charged_growth(r) == [b |-> r.b, grown |-> r.err = NoErr]

memory_growing(b, current, desired, maximum) ==
    LET delta == sat_sub(desired, current)
    IN IF delta <= get_remaining(b.mem) /\ desired <= maximum
       THEN charged_growth(charge(b, Charge("MemAlloc", 1, <<delta>>)))
       ELSE [b |-> b, grown |-> FALSE]

TableElements == 1000       \* WASMI_LIMITS_CONFIG

table_growing(desired) == desired <= TableElements
=============================================================================
