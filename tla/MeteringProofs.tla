---------------------------- MODULE MeteringProofs ----------------------------
(***************************************************************************)
(* Proofs about Metering, for all cost parameters, limits, modules and     *)
(* depths.                                                                 *)
(*                                                                         *)
(* A budget only ever changes by charges, so most of the argument is one   *)
(* relation, Charges: a sequence of charges, in shadow mode or not, keeps  *)
(* the limits and the prices, never lowers the cpu total, and fails only   *)
(* with the budget's ExceededLimit.  The accounts of the fuel are FuelOK:  *)
(* what was burned and handed back is in the cpu total, and what was       *)
(* granted on top of it fits the limit.                                    *)
(***************************************************************************)
EXTENDS Metering, TLAPS

PriceOf(b) == cost_models(b.cpu)["WasmInsnExec"].const_term

TopFuel(s) == IF s = <<>> THEN NoFuel ELSE s[Len(s)].fuel

(***************************************************************************)
(* The accounts of the VM on top.  Memory growth charges cpu while the VM  *)
(* runs, so the fuel it holds need not fit what is left of the limit; it   *)
(* fits, together with everything burned before, the limit.                *)
(***************************************************************************)
FuelOK(b, n, fuel) ==
    /\ fuel \in Fuel /\ n \in Nat
    /\ fuel.consumed <= fuel.total /\ fuel.consumed <= n
    /\ PriceOf(b) * (n - fuel.consumed) <= b.cpu.total_count
    /\ PriceOf(b) * (n - fuel.consumed + fuel.total) <= b.cpu.limit

\* A caller gave its fuel back, and the outermost frame never has any.
StackInv(s) ==
    /\ s \in Seq(Frame)
    /\ \A i \in 1 .. Len(s) - 1 : s[i].fuel = NoFuel
    /\ Len(s) > 0 => s[1].fuel = NoFuel /\ s[1].saved = 0

Frames(s) == IF s = <<>> THEN 0 ELSE Len(s) - 1

\* Where control is determines the height of the stack and what may be pending.
CtlInv ==
    /\ ctl = "start" => Len(stack) <= 1 /\ writes = 0 /\ burned = 0 /\ err = NoErr
    /\ ctl \in {"vm", "trapped"} => Len(stack) >= 2
    /\ ctl = "exit" => /\ Len(stack) >= 1
                       /\ PriceOf(budget) * burned <= budget.cpu.total_count
    /\ ctl \in {"finish", "encode", "committed", "failed"} => stack = <<>>
    /\ ctl = "vm" => err = NoErr
    /\ ctl = "finish" /\ err # NoErr => writes = 0
    /\ ctl = "committed" => ~ OverBudget

Inv ==
    /\ TypeOK
    /\ ~ budget.shadow
    /\ StackInv(stack)
    /\ CtlInv
    /\ err.code # "InternalError"
    /\ err # ExceededLimit => auth = Frames(stack)
    /\ FuelOK(budget, burned, TopFuel(stack))

-----------------------------------------------------------------------------
(* Arithmetic. *)

LEMMA DivFacts ==
    ASSUME NEW x \in Nat, NEW y \in Nat \ {0}
    PROVE  x \div y \in Nat /\ y * (x \div y) <= x /\ x < y * (x \div y + 1)
  OBVIOUS

LEMMA MulMonotone ==
    ASSUME NEW p \in Nat, NEW x \in Nat, NEW y \in Nat, x <= y
    PROVE  p * x \in Nat /\ p * y \in Nat /\ p * x <= p * y
  OBVIOUS

LEMMA SaturatingAdd ==
    ASSUME NEW x \in U64, NEW y \in Nat
    PROVE  /\ sat_add(x, y) \in U64 /\ sat_add(x, y) >= x
           /\ sat_add(x, y) = x + y \/ sat_add(x, y) = U64Max
  BY U64Assumption DEF sat_add, U64

\* A product that fits is not changed by saturation.
LEMMA SaturatingMul ==
    ASSUME NEW x \in Nat, NEW y \in Nat
    PROVE  sat_mul(x, y) \in Nat /\ (x * y <= U64Max => sat_mul(x, y) = x * y)
<1>1. U64Max \in Nat /\ x * y \in Nat
  BY U64Assumption
<1>2. CASE x = 0
  BY <1>1, <1>2 DEF sat_mul
<1>3. CASE x # 0
  <2>1. /\ U64Max \div x \in Nat
        /\ U64Max < x * (U64Max \div x + 1)
    BY <1>1, <1>3, DivFacts
  <2>2. ASSUME y > U64Max \div x
        PROVE  x * y > U64Max
    <3>1. x * (U64Max \div x + 1) <= x * y
      BY <2>1, <2>2, MulMonotone
    <3> QED
      BY <1>1, <2>1, <3>1
  <2> QED
    BY <1>1, <2>1, <2>2 DEF sat_mul
<1> QED
  BY <1>2, <1>3

-----------------------------------------------------------------------------
(* Charges. *)

\* What a charge may be, and that the tracker expects it.
GoodCharge(c) ==
    /\ c.ty \in CostType /\ c.iterations \in Nat
    /\ c.input # <<>> => c.input[1] \in Nat
    /\ input_matches(c)

SameTerms(b, d) ==
    /\ d.shadow = b.shadow
    /\ d.cpu.net = b.cpu.net /\ d.cpu.limit = b.cpu.limit

\* What b becomes by charges; the errors of some are swallowed.
Pays(b, d) ==
    /\ d \in BudgetType
    /\ SameTerms(b, d)
    /\ d.cpu.total_count >= b.cpu.total_count

\* A result whose charges were made from b.
Charges(b, r) == Pays(b, r.b) /\ r.err \in {NoErr, ExceededLimit}

LEMMA CostTypes ==
    {"WasmInsnExec", "MemAlloc", "MemCpy", "DispatchHostFunction", "VisitObject",
     "ValSer", "VmInstantiation", "InvokeVmFunction"} \subseteq CostType
  BY DEF CostType, DefaultCpu

LEMMA Models ==
    ASSUME NEW k \in {"cpu", "mem"}, NEW dim \in Dimension(k), NEW ty \in CostType
    PROVE  /\ cost_models(dim)[ty].const_term \in Nat
           /\ cost_models(dim)[ty].lin_term \in Nat
<1>1. PICK c \in Config : dim.net = c.net /\ dim.kind = k
  BY DEF Dimension
<1>2. valid_params(Params[c.net][k])
  BY MeteringAssumption
<1> QED
  BY <1>1, <1>2, U64Assumption DEF cost_models, valid_params

LEMMA AmountNat ==
    ASSUME NEW k \in {"cpu", "mem"}, NEW dim \in Dimension(k), NEW c, GoodCharge(c)
    PROVE  amount(dim, c) \in Nat
<1> DEFINE m == cost_models(dim)[c.ty]
<1>1. m.const_term \in Nat /\ m.lin_term \in Nat
  BY Models DEF GoodCharge
<1> HIDE DEF m
<1>2. evaluate(m, c.input) \in Nat
  <2>1. CASE c.input # <<>>
    <3>1. sat_mul(m.lin_term, c.input[1]) \in Nat
      BY <1>1, <2>1, SaturatingMul DEF GoodCharge
    <3>2. unscale(sat_mul(m.lin_term, c.input[1])) \in Nat
      BY <3>1, DivFacts DEF unscale, ScaleBits
    <3> QED
      BY <1>1, <3>2, U64Assumption DEF evaluate, sat_add
  <2> QED
    BY <1>1, <2>1 DEF evaluate
<1> QED
  BY <1>2, SaturatingMul DEF amount, GoodCharge, m

LEMMA ChargeDimension ==
    ASSUME NEW k \in {"cpu", "mem"}, NEW dim \in Dimension(k), NEW c, GoodCharge(c),
           NEW shadow \in BOOLEAN
    PROVE  LET d == charge_dimension(dim, c, shadow)
           IN  /\ d \in Dimension(k)
               /\ d.net = dim.net /\ d.limit = dim.limit
               /\ d.total_count >= dim.total_count
               /\ ~ shadow => d.total_count = sat_add(dim.total_count, amount(dim, c))
<1>1. amount(dim, c) \in Nat
  BY AmountNat
<1>2. dim.total_count \in U64 /\ dim.shadow_total_count \in U64
  BY DEF Dimension
<1>3. /\ sat_add(dim.total_count, amount(dim, c)) \in U64
      /\ sat_add(dim.total_count, amount(dim, c)) >= dim.total_count
      /\ sat_add(dim.shadow_total_count, amount(dim, c)) \in U64
  BY <1>1, <1>2, SaturatingAdd
<1>4. dim.total_count >= dim.total_count
  BY <1>2, U64Assumption DEF U64
<1> QED
  BY <1>3, <1>4 DEF charge_dimension, Dimension

LEMMA Errors ==
    /\ NoErr # ExceededLimit /\ BudgetInternal # NoErr
    /\ NoErr.code # "InternalError" /\ ExceededLimit.code # "InternalError"
    /\ NoErr \in Error /\ ExceededLimit \in Error
    /\ ~ is_recoverable(ExceededLimit)
<1>1. NoErr # ExceededLimit /\ BudgetInternal # NoErr
  BY DEF NoErr, ExceededLimit, BudgetInternal, Err
<1>2. NoErr.code # "InternalError" /\ ExceededLimit.code # "InternalError"
  BY DEF NoErr, ExceededLimit, Err
<1>3. NoErr \in Error /\ ExceededLimit \in Error
  BY DEF NoErr, ExceededLimit, Err, Error, ErrorType, ErrorCode
<1>4. ~ is_recoverable(ExceededLimit)
  BY DEF is_recoverable, ExceededLimit, Err
<1> QED
  BY <1>1, <1>2, <1>3, <1>4

\* BudgetImpl::charge.  Outside shadow mode the charge is in the cpu total,
\* whether or not it fits, and a charge that succeeds is within both limits.
LEMMA ChargeCharges ==
    ASSUME NEW b \in BudgetType, NEW c, GoodCharge(c)
    PROVE  LET r == charge(b, c)
           IN  /\ Charges(b, r)
               /\ ~ b.shadow => r.b.cpu.total_count = sat_add(b.cpu.total_count, amount(b.cpu, c))
               /\ ~ b.shadow /\ r.err = NoErr =>
                     ~ over_limit(r.b.cpu, FALSE) /\ ~ over_limit(r.b.mem, FALSE)
<1> DEFINE cpu == charge_dimension(b.cpu, c, b.shadow)
           mem == charge_dimension(b.mem, c, b.shadow)
           b1  == [b EXCEPT !.cpu = cpu]
           b2  == [b1 EXCEPT !.mem = mem]
<1>1. b.cpu \in Dimension("cpu") /\ b.mem \in Dimension("mem") /\ b.shadow \in BOOLEAN
  BY DEF BudgetType
<1>2. /\ cpu \in Dimension("cpu") /\ mem \in Dimension("mem")
      /\ cpu.net = b.cpu.net /\ cpu.limit = b.cpu.limit
      /\ cpu.total_count >= b.cpu.total_count
      /\ ~ b.shadow => cpu.total_count = sat_add(b.cpu.total_count, amount(b.cpu, c))
  BY <1>1, ChargeDimension
<1> HIDE DEF cpu, mem
<1>3. /\ b1 \in BudgetType /\ b2 \in BudgetType
      /\ b1.cpu = cpu /\ b2.cpu = cpu /\ b1.mem = b.mem /\ b2.mem = mem
      /\ b1.shadow = b.shadow /\ b2.shadow = b.shadow
  BY <1>2 DEF BudgetType
<1>4. charge(b, c) = charge_mem_after(charge_cpu(b, c), c)
  BY DEF charge, GoodCharge
<1>5. charge_cpu(b, c) = check_cpu_limit(b1)
  BY DEF charge_cpu, cpu
<1>6. charge_mem(b1, c) = check_mem_limit(b2)
  <2>1. charge_dimension(b1.mem, c, b1.shadow) = mem
    BY <1>3 DEF mem
  <2> QED
    BY <2>1 DEF charge_mem
<1> HIDE DEF b1, b2
<1>7. CASE over_limit(b1.cpu, b1.shadow)
  <2>1. charge(b, c) = [b |-> b1, err |-> ExceededLimit]
    BY <1>4, <1>5, <1>7, Errors DEF check_cpu_limit, charge_mem_after
  <2>2. charge(b, c).b = b1 /\ charge(b, c).err = ExceededLimit
    BY <2>1
  <2>3. Charges(b, charge(b, c))
    BY <1>2, <1>3, <2>2 DEF Charges, Pays, SameTerms
  <2> QED
    BY <1>2, <1>3, <2>2, <2>3, Errors
<1>8. CASE ~ over_limit(b1.cpu, b1.shadow)
  <2>1. charge(b, c) = check_mem_limit(b2)
    BY <1>4, <1>5, <1>6, <1>8, Errors DEF check_cpu_limit, charge_mem_after
  <2>2. /\ charge(b, c).b = b2 /\ charge(b, c).err \in {NoErr, ExceededLimit}
        /\ charge(b, c).err = NoErr => ~ over_limit(b2.mem, b2.shadow)
    BY <2>1, Errors DEF check_mem_limit
  <2>3. Charges(b, charge(b, c))
    BY <1>2, <1>3, <2>2 DEF Charges, Pays, SameTerms
  <2>4. ~ b.shadow => b.shadow = FALSE
    BY <1>1
  <2>5. ~ b.shadow /\ charge(b, c).err = NoErr =>
           ~ over_limit(b2.cpu, FALSE) /\ ~ over_limit(b2.mem, FALSE)
    BY <1>3, <1>8, <2>2, <2>4
  <2> QED
    BY <1>2, <1>3, <2>2, <2>3, <2>5
<1> QED
  BY <1>7, <1>8

LEMMA StartCharges ==
    ASSUME NEW b \in BudgetType
    PROVE  Charges(b, Start(b)) /\ Start(b).b = b /\ Start(b).err = NoErr
<1>1. b.cpu.total_count \in Nat
  BY U64Assumption DEF BudgetType, Dimension, U64
<1> QED
  BY <1>1 DEF Charges, Pays, Start, SameTerms

LEMMA ChargesTransitive ==
    ASSUME NEW b \in BudgetType, NEW r, Charges(b, r), NEW q, Charges(r.b, q)
    PROVE  Charges(b, q)
<1>1. /\ b.cpu.total_count \in Nat /\ r.b.cpu.total_count \in Nat
      /\ q.b.cpu.total_count \in Nat
  BY U64Assumption DEF Charges, Pays, BudgetType, Dimension, U64
<1> QED
  BY <1>1 DEF Charges, Pays, SameTerms

LEMMA NextCharge ==
    ASSUME NEW b \in BudgetType, NEW r, Charges(b, r), NEW c, GoodCharge(c)
    PROVE  Charges(b, charge_next(r, c))
<1>1. Charges(r.b, charge(r.b, c))
  BY ChargeCharges DEF Charges, Pays
<1> QED
  BY <1>1, ChargesTransitive DEF charge_next

\* The charges of the model are ones the tracker expects.
LEMMA GoodCharges ==
    /\ \A n \in Nat : \A size \in Nat : /\ GoodCharge(charge_shallow_copy(n, size))
                                        /\ GoodCharge(charge_heap_alloc(n, size))
    /\ \A n \in Nat : \A ty \in {"MemAlloc", "ValSer", "VmInstantiation"} :
          GoodCharge(Charge(ty, 1, <<n>>))
    /\ \A n \in Nat : \A ty \in {"WasmInsnExec", "DispatchHostFunction", "VisitObject", "InvokeVmFunction"} :
          GoodCharge(Charge(ty, n, <<>>))
<1>1. ASSUME NEW n \in Nat,
             NEW ty \in {"MemCpy", "MemAlloc", "ValSer", "VmInstantiation"}
      PROVE  GoodCharge(Charge(ty, 1, <<n>>))
  BY CostTypes DEF GoodCharge, Charge, input_matches, LinearTypes
<1>2. ASSUME NEW n \in Nat,
             NEW ty \in {"WasmInsnExec", "DispatchHostFunction", "VisitObject", "InvokeVmFunction"}
      PROVE  GoodCharge(Charge(ty, n, <<>>))
  BY CostTypes DEF GoodCharge, Charge, input_matches, LinearTypes
<1>3. \A n \in Nat : \A size \in Nat : sat_mul(n, size) \in Nat
  BY SaturatingMul
<1> QED
  BY <1>1, <1>2, <1>3 DEF charge_shallow_copy, charge_heap_alloc

LEMMA ContainerCharges ==
    ASSUME NEW b \in BudgetType, NEW r, Charges(b, r),
           NEW len \in Nat, NEW container \in Nat, NEW item \in Nat
    PROVE  /\ Charges(b, charge_bulk_init_cpy(r, len, container, item))
           /\ Charges(b, metered_clone(r, len, container, item))
  BY NextCharge, GoodCharges DEF charge_bulk_init_cpy, metered_clone

-----------------------------------------------------------------------------
(* Shadow mode. *)

Entered(b) == [b EXCEPT !.shadow = TRUE]

LEMMA EnterShadow ==
    ASSUME NEW b \in BudgetType
    PROVE  /\ Entered(b) \in BudgetType
           /\ Charges(Entered(b), enter_shadow_mode(b))
<1>1. Entered(b) \in BudgetType /\ Entered(b).cpu.total_count \in Nat
  <2>1. Entered(b) \in BudgetType /\ Entered(b).cpu = b.cpu
    BY DEF Entered, BudgetType
  <2>2. b.cpu.total_count \in Nat
    BY U64Assumption DEF BudgetType, Dimension, U64
  <2> QED
    BY <2>1, <2>2
<1>2. /\ enter_shadow_mode(b).b = Entered(b)
      /\ enter_shadow_mode(b).err \in {NoErr, ExceededLimit}
  BY DEF enter_shadow_mode, check_shadow_limits, Entered
<1> QED
  BY <1>1, <1>2 DEF Charges, Pays, SameTerms

LEMMA LeaveShadow ==
    ASSUME NEW b \in BudgetType, NEW r, Charges(Entered(b), r)
    PROVE  Pays(b, leave_shadow_mode(r, b.shadow))
<1>1. /\ Entered(b).cpu = b.cpu /\ r.b \in BudgetType /\ SameTerms(Entered(b), r.b)
      /\ r.b.cpu.total_count >= Entered(b).cpu.total_count
  BY DEF Charges, Pays, Entered, BudgetType
<1> DEFINE d == leave_shadow_mode(r, b.shadow)
<1>2. d \in BudgetType /\ d.cpu = r.b.cpu /\ d.shadow = b.shadow
  BY <1>1 DEF leave_shadow_mode, BudgetType
<1> QED
  BY <1>1, <1>2 DEF Pays, SameTerms

LEMMA AfterShadow ==
    ASSUME NEW b \in BudgetType, NEW d, Pays(b, d), NEW e \in {NoErr, ExceededLimit}
    PROVE  Charges(b, [b |-> d, err |-> e])
  BY DEF Charges

LEMMA DiagnosticsCharge ==
    ASSUME NEW b \in BudgetType, NEW topics \in Nat, NEW args \in Nat
    PROVE  /\ Pays(b, record_diagnostic(b))
           /\ Pays(b, record_diagnostics(b, topics, args))
           /\ Pays(b, report_error(b, args))
<1>1. ASSUME NEW d \in BudgetType
      PROVE  Pays(d, record_diagnostic(d))
  BY EnterShadow, ContainerCharges, LeaveShadow
  DEF record_diagnostic, VecSize, EventRecordSize
<1>2. ASSUME NEW d \in BudgetType, NEW n \in Nat, NEW m \in Nat
      PROVE  Pays(d, record_diagnostics(d, n, m))
  <2> DEFINE x == Entered(d)
             r == charge_bulk_init_cpy(enter_shadow_mode(d), n, VecSize, ArgSize)
             s == charge_bulk_init_cpy(r, m, VecSize, ArgSize)
             t == charge_next(s, charge_heap_alloc(1, EventSize))
  <2>1. x \in BudgetType /\ Charges(x, t)
    BY EnterShadow, ContainerCharges, NextCharge, GoodCharges
    DEF VecSize, ArgSize, EventSize
  <2>2. Charges(x, record_built(t))
    <3> HIDE DEF x, t
    <3>1. t.b \in BudgetType
      BY <2>1 DEF Charges, Pays
    <3>2. Charges(t.b, Start(record_diagnostic(t.b)))
      BY <1>1, <3>1, AfterShadow DEF Start
    <3> QED
      BY <2>1, <3>2, ChargesTransitive DEF record_built
  <2>3. record_diagnostics(d, n, m) = leave_shadow_mode(record_built(t), d.shadow)
    BY DEF record_diagnostics, record_in_shadow_mode
  <2> QED
    BY <2>2, <2>3, LeaveShadow
<1>3. Pays(b, report_error(b, args))
  <2> DEFINE r == enter_shadow_mode(b)
             q == Start(record_diagnostics(r.b, 2, args + 1))
  <2>1. Entered(b) \in BudgetType /\ Charges(Entered(b), r) /\ r.b \in BudgetType
    BY EnterShadow DEF Charges, Pays
  <2>2. Charges(r.b, q)
    <3> HIDE DEF r
    <3>1. Pays(r.b, record_diagnostics(r.b, 2, args + 1))
      BY <1>2, <2>1
    <3> QED
      BY <2>1, <3>1, AfterShadow DEF Start
  <2>3. Charges(Entered(b), report_in_shadow_mode(r, args))
    <3>1. report_in_shadow_mode(r, args) \in {q, r}
      BY DEF report_in_shadow_mode
    <3> HIDE DEF r, q
    <3> QED
      BY <2>1, <2>2, <3>1, ChargesTransitive
  <2> QED
    BY <2>3, LeaveShadow DEF report_error
<1> QED
  BY <1>1, <1>2, <1>3

-----------------------------------------------------------------------------
(* Fuel. *)

LEMMA PaysReflexive ==
    ASSUME NEW b \in BudgetType
    PROVE  Pays(b, b)
  BY StartCharges DEF Charges

LEMMA PaysTransitive ==
    ASSUME NEW b \in BudgetType, NEW c, Pays(b, c), NEW d, Pays(c, d)
    PROVE  Pays(b, d)
<1>1. /\ b.cpu.total_count \in Nat /\ c.cpu.total_count \in Nat
      /\ d.cpu.total_count \in Nat
  BY U64Assumption DEF Pays, BudgetType, Dimension, U64
<1> QED
  BY <1>1 DEF Pays, SameTerms

LEMMA BudgetNumbers ==
    ASSUME NEW b \in BudgetType
    PROVE  /\ PriceOf(b) \in Nat /\ U64Max \in Nat
           /\ b.cpu.limit \in Nat /\ b.cpu.limit <= U64Max
           /\ b.cpu.total_count \in Nat /\ b.cpu.total_count <= U64Max
<1>1. b.cpu \in Dimension("cpu")
  BY DEF BudgetType
<1>2. PriceOf(b) \in Nat
  BY <1>1, Models, CostTypes DEF PriceOf
<1> QED
  BY <1>1, <1>2, U64Assumption DEF Dimension, U64

\* Charges keep the price of an instruction.
LEMMA PaysPrice ==
    ASSUME NEW b \in BudgetType, NEW d, Pays(b, d)
    PROVE  PriceOf(d) = PriceOf(b) /\ d.cpu.limit = b.cpu.limit /\ d.shadow = b.shadow
<1>1. b.cpu.kind = "cpu" /\ d.cpu.kind = "cpu"
  BY DEF Pays, BudgetType, Dimension
<1> QED
  BY <1>1 DEF Pays, SameTerms, PriceOf, cost_models

\* Charges do not disturb the accounts.
LEMMA FuelCharged ==
    ASSUME NEW b \in BudgetType, NEW d, Pays(b, d), NEW n, NEW fuel, FuelOK(b, n, fuel)
    PROVE  FuelOK(d, n, fuel)
<1>1. /\ PriceOf(d) = PriceOf(b) /\ d.cpu.limit = b.cpu.limit
      /\ d \in BudgetType /\ d.cpu.total_count >= b.cpu.total_count
  BY PaysPrice DEF Pays
<1>2. b.cpu.total_count \in Nat /\ d.cpu.total_count \in Nat /\ PriceOf(b) \in Nat
  BY <1>1, BudgetNumbers
<1> DEFINE x == PriceOf(b) * (n - fuel.consumed)
<1>3. x \in Nat /\ x <= b.cpu.total_count
  <2>1. n - fuel.consumed \in Nat
    BY DEF FuelOK, Fuel
  <2> QED
    BY <1>2, <2>1, MulMonotone DEF FuelOK
<1>4. x <= d.cpu.total_count
  <2> HIDE DEF x
  <2> QED
    BY <1>1, <1>2, <1>3
<1> QED
  BY <1>1, <1>4 DEF FuelOK

\* Everything that was burned fits the limit.
LEMMA FuelFits ==
    ASSUME NEW b \in BudgetType, NEW n, NEW fuel, FuelOK(b, n, fuel)
    PROVE  /\ PriceOf(b) * n \in Nat /\ PriceOf(b) * n <= b.cpu.limit
           /\ PriceOf(b) * fuel.consumed \in Nat
           /\ PriceOf(b) * fuel.consumed <= b.cpu.limit
<1>1. /\ n \in Nat /\ fuel.consumed \in Nat /\ fuel.total \in Nat
      /\ fuel.consumed <= fuel.total /\ fuel.consumed <= n
      /\ PriceOf(b) * (n - fuel.consumed + fuel.total) <= b.cpu.limit
  BY DEF FuelOK, Fuel
<1>2. PriceOf(b) \in Nat /\ b.cpu.limit \in Nat
  BY BudgetNumbers
<1>3. n - fuel.consumed + fuel.total \in Nat /\ n <= n - fuel.consumed + fuel.total
      /\ fuel.consumed <= n
  BY <1>1
<1> DEFINE p == PriceOf(b)
           t == n - fuel.consumed + fuel.total
<1> HIDE DEF p, t
<1>4. /\ p * n \in Nat /\ p * t \in Nat /\ p * n <= p * t
      /\ p * fuel.consumed \in Nat /\ p * fuel.consumed <= p * n
  BY <1>1, <1>2, <1>3, MulMonotone DEF p, t
<1>5. p * t <= b.cpu.limit
  BY <1>1 DEF p, t
<1>6. p * n <= b.cpu.limit /\ p * fuel.consumed <= b.cpu.limit
  BY <1>2, <1>4, <1>5
<1> QED
  BY <1>4, <1>6 DEF p

\* Instructions that the fuel suffices for.
LEMMA FuelBurned ==
    ASSUME NEW b \in BudgetType, NEW n, NEW fuel, FuelOK(b, n, fuel), NEW k \in Nat,
           fuel.consumed + k <= fuel.total
    PROVE  FuelOK(b, n + k, [fuel EXCEPT !.consumed = @ + k])
<1> DEFINE g == [fuel EXCEPT !.consumed = @ + k]
<1>1. /\ n \in Nat /\ fuel.consumed \in Nat /\ fuel.total \in Nat /\ fuel \in Fuel
  BY DEF FuelOK, Fuel
<1>2. g \in Fuel /\ g.consumed = fuel.consumed + k /\ g.total = fuel.total
  BY <1>1 DEF Fuel
<1> DEFINE m == n + k
<1>3. m - g.consumed = n - fuel.consumed
  BY <1>1, <1>2
<1> HIDE DEF g
<1>4. m \in Nat /\ g.consumed <= g.total /\ g.consumed <= m
  BY <1>1, <1>2 DEF FuelOK
<1> HIDE DEF m
<1>5. /\ PriceOf(b) * (m - g.consumed) <= b.cpu.total_count
      /\ PriceOf(b) * (m - g.consumed + g.total) <= b.cpu.limit
  BY <1>2, <1>3 DEF FuelOK
<1>6. FuelOK(b, m, g)
  BY ONLY <1>2, <1>4, <1>5 DEF FuelOK
<1> QED
  BY <1>6 DEF g, m

\* return_fuel_to_host: all that was burned is in the total, whether or not
\* the charge fits, and the fuel is gone if it does.
LEMMA FuelReturned ==
    ASSUME NEW b \in BudgetType, ~ b.shadow, NEW n, NEW fuel, FuelOK(b, n, fuel)
    PROVE  LET r == return_fuel_to_host(b, fuel)
           IN  /\ Charges(b, r)
               /\ r.fuel = IF r.err = NoErr THEN NoFuel ELSE fuel
               /\ PriceOf(r.b) * n <= r.b.cpu.total_count
               /\ FuelOK(r.b, n, r.fuel)
<1> DEFINE c == Charge("WasmInsnExec", fuel.consumed, <<>>)
           q == charge(b, c)
           r == return_fuel_to_host(b, fuel)
           p == PriceOf(b)
<1>1. /\ n \in Nat /\ fuel.consumed \in Nat /\ fuel.total \in Nat
      /\ fuel.consumed <= fuel.total /\ fuel.consumed <= n /\ fuel \in Fuel
      /\ p * (n - fuel.consumed) <= b.cpu.total_count
  BY DEF FuelOK, Fuel
<1>2. GoodCharge(c)
  BY <1>1, GoodCharges
<1>3. Charges(b, q) /\ q.b.cpu.total_count = sat_add(b.cpu.total_count, amount(b.cpu, c))
  BY <1>2, ChargeCharges
<1>4. r.b = q.b /\ r.err = q.err /\ r.fuel = IF q.err = NoErr THEN NoFuel ELSE fuel
  BY DEF return_fuel_to_host, reset_fuels
<1>5. /\ PriceOf(q.b) = p /\ q.b.cpu.limit = b.cpu.limit /\ q.b \in BudgetType
      /\ p \in Nat /\ b.cpu.total_count \in U64
  <2>1. Pays(b, q.b)
    BY <1>3 DEF Charges
  <2> QED
    BY <2>1, PaysPrice, BudgetNumbers DEF Pays, BudgetType, Dimension
<1>6. amount(b.cpu, c) = p * fuel.consumed /\ p * fuel.consumed \in Nat
  <2>1. p * fuel.consumed \in Nat /\ p * fuel.consumed <= b.cpu.limit
    BY FuelFits
  <2>2. b.cpu.limit \in Nat /\ U64Max \in Nat /\ b.cpu.limit <= U64Max
    BY BudgetNumbers
  <2>3. p * fuel.consumed <= U64Max
    <3> DEFINE x == p * fuel.consumed
    <3> HIDE DEF x
    <3>1. x \in Nat /\ x <= b.cpu.limit
      BY <2>1 DEF x
    <3>2. x <= U64Max
      BY <2>2, <3>1
    <3> QED
      BY <3>2 DEF x
  <2>4. sat_mul(p, fuel.consumed) = p * fuel.consumed
    BY <1>1, <1>5, <2>3, SaturatingMul
  <2>5. amount(b.cpu, c) = sat_mul(p, fuel.consumed)
    BY DEF amount, evaluate, Charge, PriceOf
  <2> QED
    BY <2>1, <2>4, <2>5
<1>7. p * n <= q.b.cpu.total_count
  <2> DEFINE x == p * fuel.consumed
             y == p * (n - fuel.consumed)
             z == b.cpu.total_count
             t == q.b.cpu.total_count
  <2>1. p * n = y + x /\ y \in Nat
    <3>1. n - fuel.consumed \in Nat /\ n = (n - fuel.consumed) + fuel.consumed
      BY <1>1
    <3> DEFINE m == n - fuel.consumed
    <3> HIDE DEF m
    <3>2. p * (m + fuel.consumed) = p * m + p * fuel.consumed /\ p * m \in Nat
      BY <1>1, <1>5, <3>1 DEF m
    <3> QED
      BY <3>1, <3>2 DEF m
  <2>2. x \in Nat /\ y <= z /\ z \in Nat /\ t = sat_add(z, x)
    BY <1>1, <1>3, <1>5, <1>6, U64Assumption DEF U64
  <2>3. t = z + x \/ t = U64Max
    BY <1>3, <1>5, <1>6, SaturatingAdd
  <2>4. p * n \in Nat /\ p * n <= U64Max
    <3>1. p * n \in Nat /\ p * n <= b.cpu.limit
      BY FuelFits
    <3>2. b.cpu.limit \in Nat /\ U64Max \in Nat /\ b.cpu.limit <= U64Max
      BY BudgetNumbers
    <3> DEFINE w == p * n
    <3> HIDE DEF w
    <3>3. w \in Nat /\ w <= U64Max
      BY <3>1, <3>2 DEF w
    <3> QED
      BY <3>3 DEF w
  <2> DEFINE w == p * n
  <2> HIDE DEF w, x, y, z, t
  <2>5. w = y + x /\ w \in Nat /\ w <= U64Max
    BY <2>1, <2>4 DEF w
  <2>6. w <= t
    BY <2>1, <2>2, <2>3, <2>5, U64Assumption
  <2> QED
    BY <2>6 DEF w, t
<1> HIDE DEF c, q, r
<1>8. FuelOK(q.b, n, fuel)
  BY <1>3, FuelCharged DEF Charges
<1>9. FuelOK(q.b, n, NoFuel)
  <2>1. p * n \in Nat /\ p * n <= b.cpu.limit
    BY FuelFits
  <2>2. NoFuel \in Fuel /\ NoFuel.consumed = 0 /\ NoFuel.total = 0
    BY DEF NoFuel, Fuel
  <2>3. n - 0 = n /\ n - 0 + 0 = n /\ 0 <= n
    BY <1>1
  <2> QED
    BY <1>1, <1>5, <1>7, <2>1, <2>2, <2>3 DEF FuelOK
<1>10. Charges(b, r)
  BY <1>3, <1>4 DEF Charges
<1>11. PriceOf(r.b) * n <= r.b.cpu.total_count
  BY <1>4, <1>5, <1>7
<1>12. FuelOK(r.b, n, r.fuel)
  BY <1>4, <1>8, <1>9
<1> QED
  BY <1>4, <1>10, <1>11, <1>12 DEF r

\* add_fuel_to_vm, for a VM that gave its fuel back: what is left of the limit
\* is granted, rounded down.
LEMMA FuelGranted ==
    ASSUME NEW b \in BudgetType, NEW n, FuelOK(b, n, NoFuel)
    PROVE  LET r == add_fuel_to_vm(b, NoFuel)
           IN  r.err = NoErr /\ FuelOK(b, n, r.fuel)
<1> DEFINE r == add_fuel_to_vm(b, NoFuel)
           p == PriceOf(b)
           q == cpu_per_fuel(b)
           rest == get_remaining(b.cpu)
           x == rest \div q
<1>1. r.err = NoErr /\ r.fuel = [NoFuel EXCEPT !.total = x]
  BY DEF add_fuel_to_vm, is_clean, get_wasmi_fuel_remaining
<1>2. p \in Nat /\ b.cpu.limit \in Nat /\ b.cpu.total_count \in Nat
  BY BudgetNumbers
<1>3. q \in Nat \ {0} /\ p <= q
  BY <1>2 DEF cpu_per_fuel, PriceOf
<1>4. /\ rest \in Nat
      /\ rest = 0 \/ (b.cpu.total_count + rest = b.cpu.limit)
  BY <1>2 DEF get_remaining, sat_sub
<1> HIDE DEF rest, q
<1>5. x \in Nat /\ q * x <= rest
  BY <1>3, <1>4, DivFacts
<1> HIDE DEF x
<1>6. p * x \in Nat /\ p * x <= rest
  <2>1. x * p <= x * q /\ x * p \in Nat /\ x * q \in Nat
    BY <1>2, <1>3, <1>5, MulMonotone
  <2>2. p * x = x * p /\ q * x = x * q
    BY <1>2, <1>3, <1>5
  <2> QED
    BY <1>4, <1>5, <2>1, <2>2
<1>7. r.fuel \in Fuel /\ r.fuel.consumed = 0 /\ r.fuel.total = x
  BY <1>1, <1>5 DEF NoFuel, Fuel
<1>8. n \in Nat /\ NoFuel.consumed = 0 /\ NoFuel.total = 0
  BY DEF FuelOK, NoFuel
<1>9. p * n <= b.cpu.total_count /\ p * n <= b.cpu.limit /\ p * n \in Nat
  <2>1. n - 0 = n
    BY <1>8
  <2> QED
    BY <1>8, <2>1, FuelFits DEF FuelOK
<1>10. p * (n + x) = p * n + p * x
  BY <1>2, <1>5, <1>8
<1>11. p * n + p * x <= b.cpu.limit
  <2> DEFINE u == p * n
             v == p * x
  <2> HIDE DEF u, v
  <2>1. u \in Nat /\ v \in Nat /\ v <= rest /\ u <= b.cpu.total_count /\ u <= b.cpu.limit
    BY <1>6, <1>9 DEF u, v
  <2>2. u + v <= b.cpu.limit
    BY <1>2, <1>4, <2>1
  <2> QED
    BY <2>2 DEF u, v
<1>12. n - 0 = n /\ n - 0 + x = n + x /\ 0 <= n /\ 0 <= x
  BY <1>5, <1>8
<1>13. FuelOK(b, n, r.fuel)
  BY <1>7, <1>8, <1>9, <1>10, <1>11, <1>12 DEF FuelOK
<1> QED
  BY <1>1, <1>13

\* No fuel is held: all that was burned is in the total.
LEMMA FuelNone ==
    ASSUME NEW b \in BudgetType, NEW n
    PROVE  /\ FuelOK(b, n, NoFuel) => n \in Nat /\ PriceOf(b) * n <= b.cpu.total_count
           /\ \A fuel : FuelOK(b, n, fuel) /\ PriceOf(b) * n <= b.cpu.total_count =>
                 FuelOK(b, n, NoFuel)
<1>1. NoFuel \in Fuel /\ NoFuel.consumed = 0 /\ NoFuel.total = 0
  BY DEF NoFuel, Fuel
<1>2. n \in Nat => n - 0 = n /\ n - 0 + 0 = n /\ 0 <= n
  OBVIOUS
<1>3. FuelOK(b, n, NoFuel) => n \in Nat /\ PriceOf(b) * n <= b.cpu.total_count
  BY <1>1, <1>2 DEF FuelOK
<1>4. ASSUME NEW fuel, FuelOK(b, n, fuel), PriceOf(b) * n <= b.cpu.total_count
      PROVE  FuelOK(b, n, NoFuel)
  <2>1. n \in Nat /\ PriceOf(b) * n <= b.cpu.limit
    BY <1>4, FuelFits DEF FuelOK
  <2> QED
    BY ONLY <1>1, <1>2, <1>4, <2>1 DEF FuelOK
<1> QED
  BY <1>3, <1>4

-----------------------------------------------------------------------------
(* The outcomes of what the host does for a contract. *)

\* The errors that the model's steps produce.
HostError == {e \in Error : e.code # "InternalError"}

Outcome(b, r) == Pays(b, r.b) /\ r.err \in HostError

LEMMA HostErrors ==
    /\ NoErr \in HostError /\ ExceededLimit \in HostError
    /\ Err("WasmVm", "InvalidInput") \in HostError
    /\ Err("Context", "ExceededLimit") \in HostError
    /\ Err("Value", "InvalidInput") \in HostError
    /\ Err("Contract", "Any") \in HostError
    /\ Err("Context", "InvalidAction") \in HostError
    /\ \A kind : wasmi_error(kind) \in HostError
    /\ \A code : trap_error(code) \in HostError
    /\ trap_error("OutOfFuel") = ExceededLimit
<1>1. NoErr \in HostError /\ ExceededLimit \in HostError
  BY Errors DEF HostError
<1>2. ASSUME NEW type \in ErrorType, NEW code \in ErrorCode \ {"InternalError"}
      PROVE  Err(type, code) \in HostError
  BY DEF HostError, Error, Err
<1>3. \A kind : wasmi_error(kind) \in HostError
  BY <1>1, <1>2 DEF wasmi_error, ErrorType, ErrorCode
<1>4. \A code : trap_error(code) \in HostError
  BY <1>1, <1>2 DEF trap_error, ErrorType, ErrorCode
<1>5. trap_error("OutOfFuel") = ExceededLimit
  BY DEF trap_error
<1>6. /\ Err("WasmVm", "InvalidInput") \in HostError
      /\ Err("Context", "ExceededLimit") \in HostError
      /\ Err("Value", "InvalidInput") \in HostError
      /\ Err("Contract", "Any") \in HostError
      /\ Err("Context", "InvalidAction") \in HostError
  BY <1>2 DEF ErrorType, ErrorCode
<1> QED
  BY <1>1, <1>3, <1>4, <1>5, <1>6

LEMMA ChargesOutcome ==
    ASSUME NEW b, NEW r, Charges(b, r)
    PROVE  Outcome(b, r)
  BY HostErrors DEF Charges, Outcome

LEMMA MemoryGrowing ==
    ASSUME NEW b \in BudgetType, NEW current \in Nat, NEW desired \in Nat, NEW maximum
    PROVE  Pays(b, memory_growing(b, current, desired, maximum).b)
<1> DEFINE delta == sat_sub(desired, current)
           r == charge(b, Charge("MemAlloc", 1, <<delta>>))
<1>1. delta \in Nat
  BY DEF sat_sub
<1>2. Pays(b, r.b)
  BY <1>1, GoodCharges, ChargeCharges DEF Charges
<1>3. memory_growing(b, current, desired, maximum).b \in {r.b, b}
  BY DEF memory_growing, charged_growth
<1> QED
  BY <1>2, <1>3, PaysReflexive

LEMMA VmNew ==
    ASSUME NEW b \in BudgetType, NEW m \in Code
    PROVE  Outcome(b, Vm_new(b, m))
<1> DEFINE paid == charge(b, Charge("VmInstantiation", 1, <<m.len>>))
           grow == memory_growing(paid.b, 0, m.memory, MaxMemory)
<1>1. m.len \in Nat /\ m.memory \in Nat
  BY MeteringAssumption
<1>2. Charges(b, paid)
  BY <1>1, GoodCharges, ChargeCharges
<1>3. Outcome(b, paid) /\ paid.b \in BudgetType
  BY <1>2, ChargesOutcome DEF Charges, Pays
<1> HIDE DEF paid
<1>4. Pays(paid.b, grow.b)
  BY <1>1, <1>3, MemoryGrowing
<1> HIDE DEF grow
<1>5. Pays(b, grow.b)
  BY <1>3, <1>4, PaysTransitive DEF Outcome
<1>6. Outcome(b, instantiated(grow))
  BY <1>5, HostErrors DEF instantiated, Outcome
<1>7. check_module(m) \in HostError
  BY ProtocolAssumption, HostErrors DEF check_module, check_contract_interface_version
<1>8. ASSUME NEW e \in HostError
      PROVE  Outcome(b, [b |-> paid.b, err |-> e])
  BY <1>3 DEF Outcome
<1>9. Outcome(b, instantiate(paid, m))
  BY <1>3, <1>6, <1>7, <1>8, HostErrors DEF instantiate, grow
<1> QED
  BY <1>9 DEF Vm_new, paid

LEMMA PushCharges ==
    ASSUME NEW b \in BudgetType, writes \in Nat
    PROVE  Charges(b, push_context_charges(b))
<1>1. Charges(b, metered_clone(Start(b), writes, VecSize, EntrySize))
  BY StartCharges, ContainerCharges DEF VecSize, EntrySize
<1> QED
  BY <1>1, ContainerCharges DEF push_context_charges, VecSize, ContextSize

\* How far a call got tells what is left behind: only a snapshot that could not
\* be paid for leaves the authorization manager with a frame nobody has.
LEMMA CallOutcomes ==
    ASSUME NEW b \in BudgetType, NEW m \in Code, writes \in Nat, Len(stack) \in Nat
    PROVE  LET o == CallOutcome(b, m)
           IN  /\ Outcome(b, o)
               /\ o.at \in {"outside", "unpushed", "inside", "running"}
               /\ o.at = "running" => o.err = NoErr
               /\ o.at = "unpushed" => o.err = ExceededLimit
               /\ HasFrame(o) => Len(stack) < MaxDepth
<1> DEFINE vm == Vm_new(b, m)
           rp == push_context_charges(vm.b)
           fn == invoke_charges(rp.b)
           o  == CallOutcome(b, m)
           Good(x) == /\ Outcome(b, x)
                      /\ x.at \in {"outside", "unpushed", "inside", "running"}
                      /\ x.at = "running" => x.err = NoErr
                      /\ x.at = "unpushed" => x.err = ExceededLimit
                      /\ HasFrame(x) => Len(stack) < MaxDepth
<1>1. Outcome(b, vm) /\ vm.b \in BudgetType
  BY VmNew DEF Outcome, Pays
<1> HIDE DEF vm
<1>2. Charges(vm.b, rp)
  BY <1>1, PushCharges
<1>3. Outcome(b, rp) /\ rp.b \in BudgetType /\ rp.err \in {NoErr, ExceededLimit}
  <2>1. Pays(b, rp.b) /\ rp.b \in BudgetType
    BY <1>1, <1>2, PaysTransitive DEF Outcome, Charges, Pays
  <2> QED
    BY <1>2, <2>1, HostErrors DEF Outcome, Charges
<1> HIDE DEF rp
<1>4. Charges(rp.b, fn)
  BY <1>3, StartCharges, ContainerCharges, NextCharge, GoodCharges
  DEF invoke_charges, VecSize, ValueSize
<1> HIDE DEF fn
<1>5. Outcome(b, fn)
  <2>1. Pays(b, fn.b)
    BY <1>3, <1>4, PaysTransitive DEF Outcome, Charges, Pays
  <2> QED
    BY <1>4, <2>1, HostErrors DEF Outcome, Charges
<1>6. CASE vm.err # NoErr
  <2>1. o = Got("outside", vm)
    BY <1>6 DEF CallOutcome, AfterVmNew, vm
  <2> QED
    BY <1>1, <2>1 DEF Got, Outcome, HasFrame
<1>7. CASE vm.err = NoErr /\ Len(stack) >= MaxDepth
  <2>1. o = Got("outside", [vm EXCEPT !.err = Err("Context", "ExceededLimit")])
    BY <1>7 DEF CallOutcome, AfterVmNew, vm
  <2>2. o.at = "outside" /\ o.b = [vm EXCEPT !.err = Err("Context", "ExceededLimit")].b
        /\ o.err = [vm EXCEPT !.err = Err("Context", "ExceededLimit")].err
    BY <2>1 DEF Got
  <2>3. o.b = vm.b /\ o.err \in HostError
    BY <2>2, HostErrors
  <2> QED
    BY <1>1, <2>2, <2>3 DEF Outcome, HasFrame
<1>8. CASE vm.err = NoErr /\ ~ (Len(stack) >= MaxDepth)
  <2>1. o = AfterPush(rp)
    BY <1>8 DEF CallOutcome, AfterVmNew, vm, rp
  <2>2. Len(stack) < MaxDepth
    BY <1>8, MeteringAssumption
  <2>3. CASE rp.err # NoErr
    <3>1. o = Got("unpushed", rp)
      BY <2>1, <2>3 DEF AfterPush
    <3> QED
      BY <1>3, <2>3, <3>1 DEF Got, Outcome, HasFrame
  <2>4. CASE rp.err = NoErr
    <3>1. o = Got(IF fn.err # NoErr THEN "inside" ELSE "running", fn)
      BY <2>1, <2>4 DEF AfterPush, AfterInvoke, fn
    <3> QED
      BY <1>5, <2>2, <3>1 DEF Got, Outcome
  <2> QED
    BY <2>3, <2>4
<1> QED
  BY <1>6, <1>7, <1>8

\* The host functions that do not call contracts.
LEMMA BodyOutcome ==
    ASSUME NEW b \in BudgetType, NEW f \in HostFunction, writes \in Nat
    PROVE  Outcome(b, body(b, f))
<1>1. Charges(b, VisitObject(b)) /\ Charges(b, Start(b))
  BY GoodCharges, ChargeCharges, StartCharges DEF VisitObject
<1>2. Charges(b, metered_clone(VisitObject(b), writes, VecSize, EntrySize))
  BY <1>1, ContainerCharges DEF VecSize, EntrySize
<1>3. Charges(b, charge_bulk_init_cpy(Start(b), 1, VecSize, EventRecordSize))
  BY <1>1, ContainerCharges DEF VecSize, EventRecordSize
<1>4. Charges(b, charge_next(VisitObject(b), charge_heap_alloc(1, ObjSize)))
  BY <1>1, NextCharge, GoodCharges DEF ObjSize
<1>5. Charges(b, Start(record_diagnostics(b, 1, 2)))
  BY DiagnosticsCharge, AfterShadow DEF Start
<1>6. Outcome(b, [b |-> report_error(b, 1), err |-> Err("Contract", "Any")])
  BY DiagnosticsCharge, HostErrors DEF Outcome
<1> QED
  BY <1>1, <1>2, <1>3, <1>4, <1>5, <1>6, ChargesOutcome DEF body, HostFunction

\* Instructions run on the fuel of the VM on top, or trap.
LEMMA BurnFuel ==
    ASSUME budget \in BudgetType, FuelOK(budget, burned, Top.fuel), NEW n \in Nat
    PROVE  LET r == Burn(n)
           IN  /\ r.ran \in Nat /\ r.err \in {NoErr, ExceededLimit}
               /\ r.fuel \in Fuel /\ FuelOK(budget, burned + r.ran, r.fuel)
<1>1. /\ Top.fuel \in Fuel /\ burned \in Nat
      /\ Top.fuel.total \in Nat /\ Top.fuel.consumed \in Nat
      /\ burned + 0 = burned
  BY DEF FuelOK, Fuel
<1>2. CASE n > Top.fuel.total - Top.fuel.consumed
  <2>1. Burn(n) = [fuel |-> Top.fuel, err |-> ExceededLimit, ran |-> 0]
    BY <1>2, HostErrors DEF Burn
  <2>2. Burn(n).fuel = Top.fuel /\ Burn(n).err = ExceededLimit /\ Burn(n).ran = 0
    BY <2>1
  <2> QED
    BY <1>1, <2>2
<1>3. CASE ~ (n > Top.fuel.total - Top.fuel.consumed)
  <2> DEFINE g == [Top.fuel EXCEPT !.consumed = @ + n]
  <2>1. Burn(n) = [fuel |-> g, err |-> NoErr, ran |-> n]
    BY <1>3 DEF Burn
  <2>2. Burn(n).fuel = g /\ Burn(n).err = NoErr /\ Burn(n).ran = n
    BY <2>1
  <2>3. Top.fuel.consumed + n <= Top.fuel.total
    BY <1>1, <1>3
  <2>4. FuelOK(budget, burned + n, g)
    BY <2>3, FuelBurned
  <2>5. g \in Fuel
    BY <2>4 DEF FuelOK
  <2> QED
    BY <2>2, <2>4, <2>5
<1> QED
  BY <1>2, <1>3

\* A call of a host function: the VM's fuel is back in the budget before the
\* function is reached.
LEMMA DispatchFuel ==
    ASSUME budget \in BudgetType, ~ budget.shadow, FuelOK(budget, burned, Top.fuel)
    PROVE  /\ Charges(budget, Dispatch)
           /\ Dispatch.ran \in Nat /\ Dispatch.fuel \in Fuel
           /\ FuelOK(Dispatch.b, burned + Dispatch.ran, Dispatch.fuel)
           /\ Dispatch.err = NoErr => Dispatch.fuel = NoFuel
<1> DEFINE call == Burn(CallFuel)
           back == return_fuel_to_host(budget, call.fuel)
           n == burned + CallFuel
           paid == charge(back.b, Charge("DispatchHostFunction", 1, <<>>))
<1>1. CallFuel \in Nat
  BY DEF CallFuel, FuelConfig
<1>2. /\ call.ran \in Nat /\ call.err \in {NoErr, ExceededLimit}
      /\ FuelOK(budget, burned + call.ran, call.fuel) /\ call.fuel \in Fuel
  BY <1>1, BurnFuel
<1>3. call.ran = IF call.err = NoErr THEN CallFuel ELSE 0
  BY Errors, HostErrors DEF Burn
<1>4. CASE call.err # NoErr
  <2>1. Dispatch = [b |-> budget, fuel |-> call.fuel, err |-> call.err, ran |-> 0]
    BY <1>4 DEF Dispatch, AfterCallInstruction
  <2>2. /\ Dispatch.b = budget /\ Dispatch.fuel = call.fuel
        /\ Dispatch.err = ExceededLimit /\ Dispatch.ran = 0
    BY <1>2, <1>4, <2>1
  <2>3. call.ran = 0
    BY <1>3, <1>4
  <2>4. Charges(budget, Dispatch)
    BY <2>2, PaysReflexive DEF Charges
  <2> QED
    BY <1>2, <2>2, <2>3, <2>4, Errors
<1>5. CASE call.err = NoErr
  <2>1. Dispatch = AfterReturnFuel(back)
    BY <1>5 DEF Dispatch, AfterCallInstruction
  <2>2. FuelOK(budget, n, call.fuel)
    BY <1>2, <1>3, <1>5
  <2> HIDE DEF call, n
  <2>3. /\ Charges(budget, back)
        /\ back.fuel = IF back.err = NoErr THEN NoFuel ELSE call.fuel
        /\ FuelOK(back.b, n, back.fuel)
    BY <2>2, FuelReturned
  <2> HIDE DEF back
  <2>4. CASE back.err # NoErr
    <3>1. Dispatch = [b |-> back.b, fuel |-> back.fuel, err |-> back.err, ran |-> CallFuel]
      BY <2>1, <2>4 DEF AfterReturnFuel, Dispatched
    <3>2. /\ Dispatch.b = back.b /\ Dispatch.fuel = back.fuel
          /\ Dispatch.err = back.err /\ Dispatch.ran = CallFuel
      BY <3>1
    <3>3. Charges(budget, Dispatch)
      BY <2>3, <3>2 DEF Charges
    <3> QED
      BY <1>1, <1>2, <2>3, <2>4, <3>2, <3>3 DEF n
  <2>5. CASE back.err = NoErr
    <3>1. Dispatch = [b |-> paid.b, fuel |-> back.fuel, err |-> paid.err, ran |-> CallFuel]
      BY <2>1, <2>5 DEF AfterReturnFuel, Dispatched
    <3>2. /\ Dispatch.b = paid.b /\ Dispatch.fuel = NoFuel
          /\ Dispatch.err = paid.err /\ Dispatch.ran = CallFuel
      BY <2>3, <2>5, <3>1
    <3>3. back.b \in BudgetType /\ Charges(back.b, paid)
      BY <2>3, GoodCharges, ChargeCharges DEF Charges, Pays
    <3> HIDE DEF paid
    <3>4. Charges(budget, paid)
      BY <2>3, <3>3, ChargesTransitive
    <3>5. FuelOK(paid.b, n, NoFuel)
      BY <2>3, <2>5, <3>3, FuelCharged DEF Charges
    <3>6. Charges(budget, Dispatch) /\ NoFuel \in Fuel
      BY <3>2, <3>4, <3>5 DEF Charges, FuelOK
    <3> QED
      BY <1>1, <3>2, <3>5, <3>6 DEF n
  <2> QED
    BY <2>4, <2>5
<1> QED
  BY <1>2, <1>4, <1>5

-----------------------------------------------------------------------------
(* The stack. *)

LEMMA StackTop ==
    ASSUME NEW s, StackInv(s), Len(s) >= 1
    PROVE  /\ s # <<>> /\ Len(s) \in Nat /\ s[Len(s)] \in Frame
           /\ TopFuel(s) = s[Len(s)].fuel /\ Frames(s) = Len(s) - 1
<1>1. s \in Seq(Frame)
  BY DEF StackInv
<1>2. s # <<>> /\ Len(s) \in Nat /\ s[Len(s)] \in Frame
  BY <1>1
<1> QED
  BY <1>2 DEF TopFuel, Frames

LEMMA StackReplaced ==
    ASSUME NEW s, StackInv(s), Len(s) >= 2, NEW f \in Frame
    PROVE  LET t == [s EXCEPT ![Len(s)] = f]
           IN  StackInv(t) /\ Len(t) = Len(s) /\ t[Len(t)] = f
<1> DEFINE t == [s EXCEPT ![Len(s)] = f]
<1>1. s \in Seq(Frame) /\ Len(s) \in Nat
  BY DEF StackInv
<1>2. t \in Seq(Frame) /\ Len(t) = Len(s) /\ t[Len(s)] = f
  BY <1>1
<1>3. \A i \in 1 .. Len(s) - 1 : t[i] = s[i]
  BY <1>1
<1> HIDE DEF t
<1>4. \A i \in 1 .. Len(t) - 1 : t[i].fuel = NoFuel
  BY <1>2, <1>3 DEF StackInv
<1>5. t[1].fuel = NoFuel /\ t[1].saved = 0
  BY <1>1, <1>2, <1>3 DEF StackInv
<1>6. StackInv(t)
  BY <1>2, <1>4, <1>5 DEF StackInv
<1> QED
  BY <1>2, <1>6 DEF t

LEMMA StackPushed ==
    ASSUME NEW s, StackInv(s), TopFuel(s) = NoFuel, NEW f \in Frame,
           s = <<>> => f.fuel = NoFuel /\ f.saved = 0
    PROVE  LET t == Append(s, f)
           IN  StackInv(t) /\ Len(t) = Len(s) + 1 /\ t[Len(t)] = f
<1> DEFINE t == Append(s, f)
<1>1. s \in Seq(Frame) /\ Len(s) \in Nat
  BY DEF StackInv
<1>2. /\ t \in Seq(Frame) /\ Len(t) = Len(s) + 1 /\ t[Len(s) + 1] = f
      /\ \A i \in 1 .. Len(s) : t[i] = s[i]
  BY <1>1
<1> HIDE DEF t
<1>3. \A i \in 1 .. Len(s) : s[i].fuel = NoFuel
  <2> SUFFICES ASSUME NEW i \in 1 .. Len(s)
               PROVE  s[i].fuel = NoFuel
    OBVIOUS
  <2>1. CASE i = Len(s)
    BY <1>1, <2>1 DEF TopFuel
  <2>2. CASE i \in 1 .. Len(s) - 1
    BY <2>2 DEF StackInv
  <2> QED
    BY <1>1, <2>1, <2>2
<1>4. \A i \in 1 .. Len(t) - 1 : t[i].fuel = NoFuel
  BY <1>1, <1>2, <1>3
<1>5. t[1].fuel = NoFuel /\ t[1].saved = 0
  <2>1. CASE s = <<>>
    BY <1>2, <2>1
  <2>2. CASE s # <<>>
    <3>1. Len(s) > 0 /\ t[1] = s[1]
      BY <1>1, <1>2, <2>2
    <3> QED
      BY <3>1 DEF StackInv
  <2> QED
    BY <2>1, <2>2
<1>6. StackInv(t)
  BY <1>2, <1>4, <1>5 DEF StackInv
<1> QED
  BY <1>1, <1>2, <1>6 DEF t

LEMMA StackDropped ==
    ASSUME NEW s, StackInv(s), NEW k \in Nat, k < Len(s)
    PROVE  LET t == SubSeq(s, 1, k)
           IN  StackInv(t) /\ Len(t) = k /\ TopFuel(t) = NoFuel
<1> DEFINE t == SubSeq(s, 1, k)
<1>1. s \in Seq(Frame) /\ Len(s) \in Nat
  BY DEF StackInv
<1>2. t \in Seq(Frame) /\ Len(t) = k /\ \A i \in 1 .. k : t[i] = s[i]
  BY <1>1
<1> HIDE DEF t
<1>3. \A i \in 1 .. k : t[i].fuel = NoFuel
  <2>1. \A i \in 1 .. k : i \in 1 .. Len(s) - 1
    BY <1>1
  <2> QED
    BY <1>2, <2>1 DEF StackInv
<1>4. k > 0 => t[1].fuel = NoFuel /\ t[1].saved = 0
  BY <1>1, <1>2 DEF StackInv
<1>5. StackInv(t)
  BY <1>2, <1>3, <1>4 DEF StackInv
<1>6. TopFuel(t) = NoFuel
  <2>1. CASE t = <<>>
    BY <2>1 DEF TopFuel
  <2>2. CASE t # <<>>
    BY <1>2, <1>3, <2>2 DEF TopFuel
  <2> QED
    BY <2>1, <2>2
<1> QED
  BY <1>2, <1>5, <1>6 DEF t

-----------------------------------------------------------------------------
(* Steps. *)

LEMMA FrameFuel ==
    ASSUME NEW frame \in Frame, NEW fuel \in Fuel
    PROVE  /\ [frame EXCEPT !.fuel = fuel] \in Frame
           /\ [frame EXCEPT !.fuel = fuel].fuel = fuel
  BY DEF Frame

LEMMA NewFrames ==
    ASSUME NEW entry \in {"host", "call", "try_call"}, NEW memory \in Nat,
           NEW fuel \in Fuel, writes \in Nat
    PROVE  /\ NewFrame(entry, memory, fuel) \in Frame
           /\ NewFrame(entry, memory, fuel).fuel = fuel
           /\ NewFrame(entry, memory, fuel).saved = writes
  BY DEF Frame, NewFrame

LEMMA NoFuelType == NoFuel \in Fuel
  BY DEF NoFuel, Fuel

\* A host function returns to the VM that called it.
LEMMA ResumeKeeps ==
    ASSUME NEW b \in BudgetType, ~ b.shadow, NEW n, FuelOK(b, n, NoFuel),
           NEW below, StackInv(below), TopFuel(below) = NoFuel, Len(below) >= 1,
           NEW frame \in Frame, frame.fuel = NoFuel,
           NEW e \in HostError, NEW object \in BOOLEAN,
           Resume(b, frame, below, e, object)
    PROVE  /\ budget' \in BudgetType /\ ~ budget'.shadow
           /\ StackInv(stack') /\ Len(stack') = Len(below) + 1
           /\ FuelOK(budget', n, TopFuel(stack'))
           /\ ctl' \in {"vm", "trapped"} /\ err' \in HostError
           /\ ctl' = "vm" => err' = NoErr
           /\ err' # ExceededLimit => err' = e
<1> DEFINE r == Marshalled(b, e, object)
           refuel == Refuelled(r, frame.fuel)
           f == [frame EXCEPT !.fuel = refuel.fuel]
<1>1. /\ budget' = r.b /\ stack' = Append(below, f)
      /\ err' = IF refuel.err # NoErr THEN refuel.err ELSE e
      /\ ctl' = IF err' = NoErr THEN "vm" ELSE "trapped"
  BY DEF Resume
<1>2. Charges(b, r)
  <2>1. Charges(b, [b |-> report_error(b, 0), err |-> NoErr])
    BY DiagnosticsCharge, AfterShadow
  <2>2. Charges(b, charge(b, charge_heap_alloc(1, HandleSize)))
    BY GoodCharges, ChargeCharges DEF HandleSize
  <2>3. Charges(b, [b |-> b, err |-> NoErr])
    BY PaysReflexive, AfterShadow
  <2> QED
    BY <2>1, <2>2, <2>3 DEF Marshalled
<1> HIDE DEF r
<1>3. r.b \in BudgetType /\ r.b.shadow = b.shadow /\ FuelOK(r.b, n, NoFuel)
  BY <1>2, FuelCharged, PaysPrice DEF Charges, Pays
<1>4. refuel.err \in {NoErr, ExceededLimit} /\ FuelOK(r.b, n, refuel.fuel)
  <2>1. CASE r.err = NoErr
    <3>1. refuel = add_fuel_to_vm(r.b, NoFuel)
      BY <2>1 DEF Refuelled
    <3> QED
      BY <1>3, <3>1, FuelGranted
  <2>2. CASE r.err # NoErr
    <3>1. refuel = [fuel |-> NoFuel, err |-> r.err]
      BY <2>2 DEF Refuelled
    <3>2. refuel.fuel = NoFuel /\ refuel.err = r.err
      BY <3>1
    <3> QED
      BY <1>2, <1>3, <3>2 DEF Charges
  <2> QED
    BY <2>1, <2>2
<1> HIDE DEF refuel
<1>5. f \in Frame /\ f.fuel = refuel.fuel
  <2>1. refuel.fuel \in Fuel
    BY <1>4 DEF FuelOK
  <2> QED
    BY <2>1, FrameFuel
<1> HIDE DEF f
<1>6. below # <<>>
  BY DEF StackInv
<1>7. StackInv(stack') /\ Len(stack') = Len(below) + 1 /\ stack'[Len(stack')] = f
  BY <1>1, <1>5, <1>6, StackPushed
<1>8. TopFuel(stack') = refuel.fuel
  <2>1. Len(below) \in Nat
    BY DEF StackInv
  <2> QED
    BY <1>5, <1>7, <2>1, StackTop
<1>9. FuelOK(budget', n, TopFuel(stack')) /\ budget' \in BudgetType /\ ~ budget'.shadow
  BY <1>1, <1>3, <1>4, <1>8
<1>10. /\ err' \in HostError /\ ctl' \in {"vm", "trapped"}
       /\ ctl' = "vm" => err' = NoErr
       /\ err' # ExceededLimit => err' = e
  BY <1>1, <1>4, HostErrors
<1> QED
  BY <1>7, <1>9, <1>10

LEMMA InvFacts ==
    ASSUME Inv
    PROVE  /\ budget \in BudgetType /\ ~ budget.shadow
           /\ stack \in Seq(Frame) /\ Len(stack) \in Nat /\ Len(stack) <= MaxDepth
           /\ auth \in Nat /\ ctl \in Control /\ err \in HostError
           /\ writes \in Nat /\ events \in Nat /\ pos \in Nat /\ burned \in Nat
           /\ turn \in {0, 1}
           /\ StackInv(stack) /\ CtlInv
           /\ err # ExceededLimit => auth = Frames(stack)
           /\ FuelOK(budget, burned, TopFuel(stack))
  BY DEF Inv, TypeOK, HostError

\* The new state, by its parts.
LEMMA InvNext ==
    ASSUME budget' \in BudgetType, ~ budget'.shadow,
           StackInv(stack'), Len(stack') <= MaxDepth,
           auth' \in Nat, ctl' \in Control, err' \in HostError,
           writes' \in Nat, events' \in Nat, pos' \in Nat, turn' \in {0, 1},
           CtlInv', err' # ExceededLimit => auth' = Frames(stack'),
           FuelOK(budget', burned', TopFuel(stack'))
    PROVE  Inv'
<1>1. burned' \in Nat
  BY DEF FuelOK
<1>2. stack' \in Seq(Frame)
  BY DEF StackInv
<1>3. err' \in Error /\ err'.code # "InternalError"
  BY DEF HostError
<1>4. TypeOK'
  BY <1>1, <1>2, <1>3 DEF TypeOK
<1> QED
  BY <1>3, <1>4 DEF Inv

\* Inside a VM nothing is asked of the control but two frames and, if it goes
\* on, that no error is pending.
LEMMA InVm ==
    ASSUME ctl' \in {"vm", "trapped"}, Len(stack') >= 2, ctl' = "vm" => err' = NoErr
    PROVE  CtlInv' /\ ctl' \in Control
  BY DEF CtlInv, Control

LEMMA AtExit ==
    ASSUME ctl' = "exit", Len(stack') >= 1,
           budget' \in BudgetType, NEW n, n = burned', FuelOK(budget', n, NoFuel)
    PROVE  CtlInv' /\ ctl' \in Control
<1>1. PriceOf(budget') * burned' <= budget'.cpu.total_count
  BY FuelNone
<1>2. PriceOf(budget)' = PriceOf(budget')
  BY DEF PriceOf
<1> QED
  BY <1>1, <1>2 DEF CtlInv, Control

THEOREM InitInv == Init => Inv
<1> SUFFICES ASSUME Init
             PROVE  Inv
  OBVIOUS
<1>1. PICK c \in Config :
         budget = set_shadow_limits(try_from_configs(c.net, c.cpu_limit, c.mem_limit),
                                    c.shadow_limit, c.shadow_limit)
  BY DEF Init
<1>2. /\ c.cpu_limit \in U64 /\ c.mem_limit \in U64 /\ c.shadow_limit \in U64 /\ 0 \in U64
      /\ c.net \in {d.net : d \in Config}
  BY MeteringAssumption, U64Assumption DEF U64
<1> DEFINE x == reset(c.net, "cpu", c.cpu_limit)
           y == reset(c.net, "mem", c.mem_limit)
           x2 == [x EXCEPT !.shadow_limit = c.shadow_limit]
           y2 == [y EXCEPT !.shadow_limit = c.shadow_limit]
<1>3. x2 \in Dimension("cpu") /\ y2 \in Dimension("mem") /\ x2.total_count = 0
  BY <1>2 DEF reset, Dimension
<1>4. budget = [cpu |-> x2, mem |-> y2, shadow |-> FALSE]
  BY <1>1 DEF set_shadow_limits, try_from_configs
<1> HIDE DEF x2, y2
<1>5. budget \in BudgetType /\ ~ budget.shadow /\ budget.cpu.total_count = 0
  BY <1>3, <1>4 DEF BudgetType
<1>6. FuelOK(budget, burned, TopFuel(stack))
  <2>1. burned = 0 /\ TopFuel(stack) = NoFuel
    BY DEF Init, TopFuel
  <2>2. PriceOf(budget) \in Nat /\ budget.cpu.limit \in Nat
    BY <1>5, BudgetNumbers
  <2>3. NoFuel \in Fuel /\ NoFuel.consumed = 0 /\ NoFuel.total = 0
    BY DEF NoFuel, Fuel
  <2>4. PriceOf(budget) * (0 - 0) = 0 /\ PriceOf(budget) * (0 - 0 + 0) = 0
    BY <2>2
  <2> QED
    BY <1>5, <2>1, <2>2, <2>3, <2>4 DEF FuelOK
<1>7. TypeOK
  BY <1>5, Errors, MeteringAssumption DEF Init, TypeOK, Control
<1>8. StackInv(stack)
  BY DEF Init, StackInv
<1>9. CtlInv
  BY DEF Init, CtlInv
<1> QED
  BY <1>5, <1>6, <1>7, <1>8, <1>9, Errors DEF Init, Inv, Frames

LEMMA StepTurn ==
    ASSUME Inv, UNCHANGED pos, Turn
    PROVE  pos' \in Nat /\ turn' \in {0, 1}
  BY InvFacts DEF Turn

LEMMA InvokeFunctionInv ==
    ASSUME Inv, InvokeFunction, UNCHANGED pos, Turn
    PROVE  Inv'
<1> DEFINE rp == push_context_charges(budget)
           f == NewFrame("host", 0, NoFuel)
<1>1. /\ ctl = "start" /\ stack = <<>> /\ budget' = rp.b /\ err' = rp.err
      /\ IF rp.err # NoErr THEN stack' = stack /\ ctl' = "finish"
         ELSE stack' = <<f>> /\ UNCHANGED ctl
      /\ UNCHANGED <<auth, writes, events, burned>>
  BY DEF InvokeFunction
<1>2. Charges(budget, rp)
  BY InvFacts, PushCharges
<1> HIDE DEF rp
<1>3. /\ budget' \in BudgetType /\ ~ budget'.shadow /\ err' \in HostError
      /\ FuelOK(budget', burned', NoFuel)
  <2>1. TopFuel(stack) = NoFuel
    BY <1>1 DEF TopFuel
  <2> QED
    BY <1>1, <1>2, <2>1, InvFacts, FuelCharged, PaysPrice, HostErrors DEF Charges, Pays
<1>4. writes = 0 /\ burned = 0 /\ auth = 0
  BY <1>1, InvFacts, Errors DEF CtlInv, Frames
<1>5. f \in Frame /\ f.fuel = NoFuel /\ f.saved = 0
  BY <1>4, NewFrames, NoFuelType
<1> HIDE DEF f
<1>6. CASE rp.err # NoErr
  <2>1. stack' = <<>> /\ ctl' = "finish"
    BY <1>1, <1>6
  <2>2. StackInv(stack') /\ TopFuel(stack') = NoFuel /\ Frames(stack') = 0 /\ Len(stack') = 0
    BY <2>1 DEF StackInv, TopFuel, Frames
  <2>3. CtlInv' /\ ctl' \in Control
    BY <1>1, <1>4, <2>1 DEF CtlInv, Control
  <2> QED
    BY <1>1, <1>3, <1>4, <2>2, <2>3, InvFacts, StepTurn, InvNext, MeteringAssumption
<1>7. CASE rp.err = NoErr
  <2>1. stack' = <<f>> /\ ctl' = "start" /\ err' = NoErr
    BY <1>1, <1>7
  <2>2. Len(stack') = 1 /\ stack'[1] = f /\ stack' \in Seq(Frame) /\ stack' # <<>>
    BY <1>5, <2>1
  <2>3. StackInv(stack')
    BY <1>5, <2>2 DEF StackInv
  <2>4. TopFuel(stack') = NoFuel /\ Frames(stack') = 0
    BY <1>5, <2>2, <2>3, StackTop
  <2>5. CtlInv' /\ ctl' \in Control
    BY <1>1, <1>4, <2>1, <2>2 DEF CtlInv, Control
  <2>6. Len(stack') <= MaxDepth
    BY <2>2, MeteringAssumption
  <2> QED
    BY <1>1, <1>3, <1>4, <2>3, <2>4, <2>5, <2>6, InvFacts, StepTurn, InvNext
<1> QED
  BY <1>6, <1>7

\* The callee's frame is on the stack.
LEMMA EnterKeeps ==
    ASSUME NEW b \in BudgetType, ~ b.shadow, NEW n, FuelOK(b, n, NoFuel), n = burned',
           NEW below, StackInv(below), TopFuel(below) = NoFuel, Len(below) >= 1,
           NEW entry \in {"call", "try_call"}, NEW m \in Code, writes \in Nat,
           NEW o, Outcome(b, o), o.at \in {"inside", "running"},
           o.at = "running" => o.err = NoErr,
           Enter(o, below, entry, m)
    PROVE  /\ budget' \in BudgetType /\ ~ budget'.shadow /\ err' = o.err
           /\ StackInv(stack') /\ Len(stack') = Len(below) + 1
           /\ FuelOK(budget', burned', TopFuel(stack'))
           /\ CtlInv' /\ ctl' \in Control
<1> DEFINE grant == add_fuel_to_vm(o.b, NoFuel).fuel
           fuel == IF o.at = "running" THEN grant ELSE NoFuel
           f == NewFrame(entry, m.memory, fuel)
<1>1. budget' = o.b /\ err' = o.err /\ stack' = Append(below, f)
      /\ ctl' = IF o.at = "running" THEN "vm" ELSE "exit"
  BY DEF Enter
<1>2. o.b \in BudgetType /\ ~ o.b.shadow /\ FuelOK(o.b, n, NoFuel)
  BY FuelCharged, PaysPrice DEF Outcome, Pays
<1>3. FuelOK(o.b, n, grant)
  BY <1>2, FuelGranted
<1>4. FuelOK(o.b, n, fuel)
  BY <1>2, <1>3
<1>5. fuel \in Fuel /\ m.memory \in Nat
  BY <1>4, MeteringAssumption DEF FuelOK
<1> HIDE DEF fuel
<1>6. f \in Frame /\ f.fuel = fuel
  BY <1>5, NewFrames
<1> HIDE DEF f
<1>7. below # <<>> /\ Len(below) \in Nat
  BY DEF StackInv
<1>8. StackInv(stack') /\ Len(stack') = Len(below) + 1 /\ stack'[Len(stack')] = f
  BY <1>1, <1>6, <1>7, StackPushed
<1>9. TopFuel(stack') = fuel /\ Len(stack') >= 2
  BY <1>6, <1>7, <1>8, StackTop
<1>10. FuelOK(budget', burned', TopFuel(stack'))
  BY <1>1, <1>4, <1>9
<1>11. CtlInv' /\ ctl' \in Control
  <2>1. CASE o.at = "running"
    BY <1>1, <1>9, <2>1, InVm
  <2>2. CASE o.at # "running"
    <3>1. ctl' = "exit" /\ FuelOK(budget', n, NoFuel) /\ budget' \in BudgetType
      BY <1>1, <1>2, <2>2
    <3>2. Len(stack') >= 1
      BY <1>7, <1>8
    <3> QED
      BY <3>1, <3>2, AtExit
  <2> QED
    BY <2>1, <2>2
<1> QED
  BY <1>1, <1>2, <1>8, <1>10, <1>11

LEMMA CallFromHostFunctionInv ==
    ASSUME Inv, CallFromHostFunction, UNCHANGED pos, Turn
    PROVE  Inv'
<1> DEFINE d == record_diagnostics(budget, 3, 1)
<1>1. ctl = "start" /\ stack # <<>> /\ UNCHANGED <<writes, events, burned>>
  BY DEF CallFromHostFunction
<1>2. PICK m \in Code : \E o \in {CallOutcome(d, m)} :
         /\ IF HasFrame(o) THEN Enter(o, stack, "call", m)
            ELSE budget' = o.b /\ err' = o.err /\ ctl' = "exit" /\ UNCHANGED stack
         /\ CalleeKnown(o)
  BY DEF CallFromHostFunction
<1> DEFINE o == CallOutcome(d, m)
<1>3. /\ IF HasFrame(o) THEN Enter(o, stack, "call", m)
         ELSE budget' = o.b /\ err' = o.err /\ ctl' = "exit" /\ UNCHANGED stack
      /\ CalleeKnown(o)
  BY <1>2
<1>4. /\ Len(stack) = 1 /\ writes = 0 /\ burned = 0 /\ auth = 0
      /\ StackInv(stack) /\ TopFuel(stack) = NoFuel /\ Frames(stack) = 0
  <2>1. Len(stack) <= 1 /\ writes = 0 /\ burned = 0 /\ err = NoErr
    BY <1>1, InvFacts DEF CtlInv
  <2>2. Len(stack) = 1
    <3>1. stack \in Seq(Frame) /\ Len(stack) \in Nat
      BY InvFacts
    <3>2. Len(stack) # 0
      BY <1>1, <3>1
    <3>3. ASSUME NEW n \in Nat, n <= 1, n # 0
          PROVE  n = 1
      BY ONLY <3>3
    <3> QED
      BY <2>1, <3>1, <3>2, <3>3
  <2>3. TopFuel(stack) = NoFuel /\ Frames(stack) = 0
    BY <2>2, StackTop, InvFacts DEF StackInv
  <2> QED
    BY <2>1, <2>2, <2>3, InvFacts, Errors
<1>5. Pays(budget, d)
  BY InvFacts, DiagnosticsCharge
<1>6. d \in BudgetType /\ ~ d.shadow /\ FuelOK(d, burned', NoFuel)
  BY <1>1, <1>4, <1>5, InvFacts, FuelCharged, PaysPrice DEF Pays
<1> HIDE DEF d
<1>7. /\ Outcome(d, o)
      /\ o.at \in {"outside", "unpushed", "inside", "running"}
      /\ o.at = "running" => o.err = NoErr
      /\ o.at = "unpushed" => o.err = ExceededLimit
      /\ HasFrame(o) => Len(stack) < MaxDepth
  BY <1>6, InvFacts, CallOutcomes
<1> HIDE DEF o
<1>8. auth' = IF o.at = "outside" THEN 0 ELSE 1
  BY <1>3, <1>4 DEF CalleeKnown
<1>9. CASE HasFrame(o)
  <2>1. Enter(o, stack, "call", m) /\ o.at \in {"inside", "running"}
    BY <1>3, <1>7, <1>9 DEF HasFrame
  <2>2. Len(stack) >= 1
    BY <1>4
  <2>3. /\ budget' \in BudgetType /\ ~ budget'.shadow /\ err' = o.err
        /\ StackInv(stack') /\ Len(stack') = Len(stack) + 1
        /\ FuelOK(budget', burned', TopFuel(stack'))
        /\ CtlInv' /\ ctl' \in Control
    BY <1>4, <1>6, <1>7, <2>1, <2>2, EnterKeeps
  <2>4. Frames(stack') = 1 /\ Len(stack') = 2 /\ auth' = 1
    <3>1. Len(stack') = 2
      <4>1. Len(stack) = 1 /\ Len(stack') = Len(stack) + 1
        BY <1>4, <2>3
      <4> QED
        BY ONLY <4>1
    <3>2. Frames(stack') = Len(stack') - 1
      BY <2>3, <3>1, StackTop
    <3> QED
      BY <1>8, <2>1, <3>1, <3>2
  <2>5. Len(stack') <= MaxDepth /\ err' \in HostError
    BY <1>4, <1>7, <1>9, <2>3, <2>4, MeteringAssumption DEF Outcome
  <2> QED
    BY <1>1, <2>3, <2>4, <2>5, InvFacts, StepTurn, InvNext
<1>10. CASE ~ HasFrame(o)
  <2>1. budget' = o.b /\ err' = o.err /\ ctl' = "exit" /\ stack' = stack
    BY <1>3, <1>10
  <2>2. /\ budget' \in BudgetType /\ ~ budget'.shadow /\ err' \in HostError
        /\ FuelOK(budget', burned', NoFuel)
    BY <1>6, <1>7, <2>1, FuelCharged, PaysPrice DEF Outcome, Pays
  <2>3. Len(stack') >= 1
    <3>1. Len(stack) = 1 /\ stack' = stack
      BY <1>4, <2>1
    <3> QED
      BY ONLY <3>1
  <2>4. CtlInv' /\ ctl' \in Control
    BY <2>1, <2>2, <2>3, AtExit
  <2>5. err' # ExceededLimit => auth' = Frames(stack')
    BY <1>4, <1>7, <1>8, <1>10, <2>1 DEF HasFrame
  <2>6. auth' \in Nat
    BY <1>8
  <2> QED
    BY <1>1, <1>4, <2>1, <2>2, <2>4, <2>5, <2>6, InvFacts, StepTurn, InvNext
<1> QED
  BY <1>9, <1>10

\* What is known while a VM is on top.
LEMMA VmFacts ==
    ASSUME Inv, ctl \in {"vm", "trapped"}
    PROVE  /\ Len(stack) >= 2 /\ Top \in Frame /\ Top.fuel \in Fuel
           /\ TopFuel(stack) = Top.fuel /\ FuelOK(budget, burned, Top.fuel)
           /\ Frames(stack) = Len(stack) - 1
           /\ ctl = "vm" => err = NoErr /\ auth = Len(stack) - 1
           /\ StackInv(Below) /\ TopFuel(Below) = NoFuel
           /\ Len(Below) = Len(stack) - 1 /\ Len(Below) >= 1
<1>1. Len(stack) >= 2 /\ StackInv(stack) /\ Len(stack) \in Nat /\ (ctl = "vm" => err = NoErr)
  BY InvFacts DEF CtlInv
<1>2. Len(stack) >= 1
  BY <1>1
<1>3. Top \in Frame /\ TopFuel(stack) = Top.fuel /\ Frames(stack) = Len(stack) - 1
  BY <1>1, <1>2, StackTop DEF Top
<1>4. Top.fuel \in Fuel /\ FuelOK(budget, burned, Top.fuel)
  BY <1>3, InvFacts DEF FuelOK
<1>5. ctl = "vm" => auth = Len(stack) - 1
  BY <1>1, <1>3, InvFacts, Errors
<1>6. Len(stack) - 1 \in Nat /\ Len(stack) - 1 < Len(stack)
  BY <1>1
<1>7. StackInv(Below) /\ TopFuel(Below) = NoFuel /\ Len(Below) = Len(stack) - 1
  BY <1>1, <1>6, StackDropped DEF Below
<1>8. Len(Below) >= 1
  BY <1>1, <1>7
<1> QED
  BY <1>1, <1>3, <1>4, <1>5, <1>7, <1>8

\* The frame on top changes and its VM goes on, or is about to end.
LEMMA TopStep ==
    ASSUME Inv, ctl \in {"vm", "trapped"}, UNCHANGED pos, Turn,
           NEW f \in Frame, stack' = WithTop(f), NEW n, n = burned',
           budget' \in BudgetType, ~ budget'.shadow, FuelOK(budget', n, f.fuel),
           auth' = auth, writes' \in Nat, events' \in Nat, err' \in HostError,
           err' # ExceededLimit => err # ExceededLimit,
           \/ ctl' \in {"vm", "trapped"} /\ (ctl' = "vm" => err' = NoErr)
           \/ ctl' = "exit" /\ FuelOK(budget', n, NoFuel)
    PROVE  Inv'
<1>1. Len(stack) >= 2 /\ StackInv(stack) /\ Len(stack) \in Nat /\ Len(stack) <= MaxDepth
  BY VmFacts, InvFacts
<1>2. StackInv(stack') /\ Len(stack') = Len(stack) /\ stack'[Len(stack')] = f
  BY <1>1, StackReplaced DEF WithTop
<1>3. Len(stack') >= 2 /\ Len(stack') >= 1 /\ Len(stack') <= MaxDepth
  BY <1>1, <1>2
<1>4. TopFuel(stack') = f.fuel /\ Frames(stack') = Len(stack') - 1
  BY <1>2, <1>3, StackTop
<1>5. FuelOK(budget', burned', TopFuel(stack'))
  BY <1>4
<1>6. Frames(stack') = Frames(stack)
  BY <1>2, <1>4, VmFacts
<1>7. err' # ExceededLimit => auth' = Frames(stack')
  BY <1>6, InvFacts
<1>8. CtlInv' /\ ctl' \in Control
  <2>1. CASE ctl' \in {"vm", "trapped"} /\ (ctl' = "vm" => err' = NoErr)
    BY <1>3, <2>1, InVm
  <2>2. CASE ctl' = "exit" /\ FuelOK(budget', n, NoFuel)
    BY <1>3, <2>2, AtExit
  <2> QED
    BY <2>1, <2>2
<1>9. auth' \in Nat
  BY InvFacts
<1> QED
  BY <1>2, <1>3, <1>5, <1>7, <1>8, <1>9, StepTurn, InvNext

LEMMA ExecInv ==
    ASSUME Inv, NEW n \in Burst, Exec(n), UNCHANGED pos, Turn
    PROVE  Inv'
<1> DEFINE r == Burn(n)
           f == [Top EXCEPT !.fuel = r.fuel]
<1>1. /\ ctl = "vm" /\ stack' = WithTop(f) /\ burned' = burned + r.ran
      /\ IF r.err = NoErr THEN UNCHANGED <<ctl, err>> ELSE Trap(r.err)
      /\ UNCHANGED <<budget, auth, writes, events>>
  BY DEF Exec
<1>2. n \in Nat
  BY MeteringAssumption
<1>3. /\ r.err \in {NoErr, ExceededLimit} /\ r.fuel \in Fuel
      /\ FuelOK(budget, burned + r.ran, r.fuel)
  BY <1>1, <1>2, VmFacts, InvFacts, BurnFuel
<1> HIDE DEF r
<1>4. f \in Frame /\ f.fuel = r.fuel
  BY <1>1, <1>3, VmFacts, FrameFuel
<1> HIDE DEF f
<1>5. /\ err' = r.err
      /\ ctl' \in {"vm", "trapped"} /\ (ctl' = "vm" => err' = NoErr)
  BY <1>1, <1>3, VmFacts DEF Trap
<1>6. err' \in HostError /\ err = NoErr /\ err # ExceededLimit
  BY <1>1, <1>3, <1>5, HostErrors, VmFacts, Errors
<1>7. budget' \in BudgetType /\ ~ budget'.shadow /\ writes' \in Nat /\ events' \in Nat
  BY <1>1, InvFacts
<1>8. FuelOK(budget', burned', f.fuel)
  BY <1>1, <1>3, <1>4
<1> QED
  BY <1>1, <1>4, <1>5, <1>6, <1>7, <1>8, TopStep

LEMMA SelfTrapInv ==
    ASSUME Inv, NEW code, SelfTrap(code), UNCHANGED pos, Turn
    PROVE  Inv'
<1>1. /\ ctl = "vm" /\ ctl' = "trapped" /\ err' = trap_error(code)
      /\ UNCHANGED <<budget, stack, auth, writes, events, burned>>
  BY DEF SelfTrap, Trap
<1>2. err' \in HostError
  BY <1>1, HostErrors
<1>3. Len(stack') >= 2
  BY <1>1, VmFacts
<1>4. CtlInv' /\ ctl' \in Control
  BY <1>1, <1>3, InVm
<1>5. auth' = Frames(stack')
  BY <1>1, VmFacts
<1> QED
  BY <1>1, <1>2, <1>4, <1>5, InvFacts, StepTurn, InvNext

LEMMA MemoryGrowInv ==
    ASSUME Inv, NEW delta \in Growth, MemoryGrow(delta), UNCHANGED pos, Turn
    PROVE  Inv'
<1> DEFINE k == FuelConfig.base + FuelConfig.entity
           r == Burn(k)
           g == memory_growing(budget, Top.memory, Top.memory + delta, MaxMemory)
           memory == IF g.grown THEN Top.memory + delta ELSE Top.memory
           f == [Top EXCEPT !.fuel = r.fuel, !.memory = memory]
<1>1. /\ ctl = "vm" /\ burned' = burned + r.ran /\ UNCHANGED <<auth, writes, events>>
      /\ \/ r.err # NoErr /\ Trap(r.err) /\ UNCHANGED <<budget, stack>>
         \/ /\ r.err = NoErr /\ budget' = g.b /\ stack' = WithTop(f)
            /\ \/ UNCHANGED <<ctl, err>>
               \/ ~g.grown /\ Trap(trap_error("GrowthOperationLimited"))
  BY DEF MemoryGrow
<1>2. k \in Nat /\ delta \in Nat /\ Top \in Frame /\ Top.memory \in Nat
  BY <1>1, MeteringAssumption, VmFacts DEF FuelConfig, Frame
<1>3. /\ r.err \in {NoErr, ExceededLimit} /\ r.fuel \in Fuel
      /\ FuelOK(budget, burned + r.ran, r.fuel)
      /\ r.err # NoErr => r.fuel = Top.fuel
  <2>1. r.err # NoErr => r.fuel = Top.fuel
    BY DEF Burn
  <2> QED
    BY <1>1, <1>2, <2>1, VmFacts, InvFacts, BurnFuel
<1> HIDE DEF r
<1>4. Pays(budget, g.b)
  BY <1>2, InvFacts, MemoryGrowing
<1> HIDE DEF g
<1>5. f \in Frame /\ f.fuel = r.fuel
  <2>1. memory \in Nat
    BY <1>2
  <2> HIDE DEF memory
  <2> QED
    BY <1>2, <1>3, <2>1 DEF Frame
<1> HIDE DEF f
<1>6. err = NoErr /\ err # ExceededLimit
  BY <1>1, VmFacts, Errors
<1>7. writes' \in Nat /\ events' \in Nat
  BY <1>1, InvFacts
<1>8. CASE r.err # NoErr
  <2>1. ctl' = "trapped" /\ err' = r.err /\ budget' = budget /\ stack' = stack
    BY <1>1, <1>8 DEF Trap
  <2>2. FuelOK(budget', burned', TopFuel(stack'))
    <3>1. TopFuel(stack) = r.fuel
      BY <1>1, <1>3, <1>8, VmFacts
    <3> QED
      BY <1>1, <1>3, <2>1, <3>1
  <2>3. Len(stack') >= 2
    BY <1>1, <2>1, VmFacts
  <2>4. CtlInv' /\ ctl' \in Control
    BY <2>1, <2>3, InVm
  <2>5. auth' = Frames(stack')
    BY <1>1, <2>1, VmFacts
  <2>6. err' \in HostError
    BY <1>3, <2>1, HostErrors
  <2> QED
    BY <1>1, <2>1, <2>2, <2>4, <2>5, <2>6, InvFacts, StepTurn, InvNext
<1>9. CASE r.err = NoErr
  <2>1. /\ budget' = g.b /\ stack' = WithTop(f)
        /\ \/ UNCHANGED <<ctl, err>>
           \/ ~g.grown /\ Trap(trap_error("GrowthOperationLimited"))
    BY <1>1, <1>9
  <2>2. ctl' \in {"vm", "trapped"} /\ (ctl' = "vm" => err' = NoErr) /\ err' \in HostError
    BY <1>1, <1>6, <2>1, HostErrors DEF Trap
  <2>3. budget' \in BudgetType /\ ~ budget'.shadow /\ FuelOK(budget', burned', f.fuel)
    BY <1>1, <1>3, <1>4, <1>5, <2>1, FuelCharged, PaysPrice, InvFacts DEF Pays
  <2> QED
    BY <1>1, <1>5, <1>6, <1>7, <2>1, <2>2, <2>3, TopStep
<1> QED
  BY <1>8, <1>9

\* A dispatch that fails before the host function is reached.
LEMMA TrapDispatchInv ==
    ASSUME Inv, ctl = "vm", UNCHANGED pos, Turn,
           NEW d, Pays(budget, d.b), d.err \in HostError \ {NoErr}, d.fuel \in Fuel,
           burned' = burned + d.ran, FuelOK(d.b, burned + d.ran, d.fuel),
           TrapDispatch(d), UNCHANGED <<auth, writes, events>>
    PROVE  Inv'
<1> DEFINE f == [Top EXCEPT !.fuel = d.fuel]
<1>1. budget' = d.b /\ stack' = WithTop(f) /\ ctl' = "trapped" /\ err' = d.err
  BY DEF TrapDispatch, Trap
<1>2. f \in Frame /\ f.fuel = d.fuel
  BY VmFacts, FrameFuel
<1> HIDE DEF f
<1>3. budget' \in BudgetType /\ ~ budget'.shadow /\ FuelOK(budget', burned', f.fuel)
  BY <1>1, <1>2, PaysPrice, InvFacts DEF Pays
<1>4. err # ExceededLimit /\ err' \in HostError /\ writes' \in Nat /\ events' \in Nat
  BY <1>1, VmFacts, InvFacts, Errors
<1> QED
  BY <1>1, <1>2, <1>3, <1>4, TopStep

\* A host function that was called by the VM on top returns to it.
LEMMA ResumeInv ==
    ASSUME Inv, ctl = "vm", UNCHANGED pos, Turn,
           NEW b \in BudgetType, ~ b.shadow, NEW n, n = burned', FuelOK(b, n, NoFuel),
           NEW frame \in Frame, frame.fuel = NoFuel,
           NEW e \in HostError, NEW object \in BOOLEAN,
           Resume(b, frame, Below, e, object),
           auth' \in Nat, e # ExceededLimit => auth' = auth,
           writes' \in Nat, events' \in Nat
    PROVE  Inv'
<1>1. /\ Len(stack) >= 2 /\ auth = Len(stack) - 1
      /\ StackInv(Below) /\ TopFuel(Below) = NoFuel
      /\ Len(Below) = Len(stack) - 1 /\ Len(Below) >= 1
      /\ Len(stack) \in Nat /\ Len(stack) <= MaxDepth
  BY VmFacts, InvFacts
<1>2. /\ budget' \in BudgetType /\ ~ budget'.shadow
      /\ StackInv(stack') /\ Len(stack') = Len(Below) + 1
      /\ FuelOK(budget', n, TopFuel(stack'))
      /\ ctl' \in {"vm", "trapped"} /\ err' \in HostError
      /\ ctl' = "vm" => err' = NoErr
      /\ err' # ExceededLimit => err' = e
  BY <1>1, ResumeKeeps
<1>3. Len(stack') = Len(stack) /\ Len(stack') >= 2 /\ Len(stack') >= 1 /\ Len(stack') <= MaxDepth
  BY <1>1, <1>2
<1>4. Frames(stack') = Len(stack') - 1
  BY <1>2, <1>3, StackTop
<1>5. err' # ExceededLimit => auth' = Frames(stack')
  BY <1>1, <1>2, <1>3, <1>4
<1>6. CtlInv' /\ ctl' \in Control
  BY <1>2, <1>3, InVm
<1> QED
  BY <1>2, <1>3, <1>5, <1>6, StepTurn, InvNext

LEMMA CallHostInv ==
    ASSUME Inv, NEW h \in HostFunction, CallHost(h), UNCHANGED pos, Turn
    PROVE  Inv'
<1> DEFINE d == Marshal(Dispatch, h)
           r == body(d.b, h)
           flush == Top.flush \/ (r.err = NoErr /\ h = "put_instance")
           f == [Top EXCEPT !.fuel = d.fuel, !.flush = flush]
<1>1. ctl = "vm" /\ auth' = auth
  BY DEF CallHost
<1>2. /\ burned' = burned + d.ran
      /\ IF d.err # NoErr THEN TrapDispatch(d) /\ UNCHANGED <<writes, events>>
         ELSE /\ writes' = IF r.err = NoErr /\ h = "put" THEN writes + 1 ELSE writes
              /\ events' = IF r.err = NoErr /\ h = "event" THEN events + 1 ELSE events
              /\ Resume(r.b, f, Below, r.err, h = "get")
  BY DEF CallHost
<1>3. /\ Charges(budget, Dispatch) /\ Dispatch.ran \in Nat /\ Dispatch.fuel \in Fuel
      /\ FuelOK(Dispatch.b, burned + Dispatch.ran, Dispatch.fuel)
      /\ Dispatch.err = NoErr => Dispatch.fuel = NoFuel
  BY <1>1, VmFacts, InvFacts, DispatchFuel
<1>4. /\ d.b = Dispatch.b /\ d.fuel = Dispatch.fuel /\ d.ran = Dispatch.ran
      /\ d.err \in HostError
      /\ d.err = NoErr => Dispatch.err = NoErr
  <2> DEFINE x == Dispatch
             y == [x EXCEPT !.err = Err("Value", "InvalidInput")]
  <2>1. x.err \in HostError
    BY <1>3, HostErrors DEF Charges
  <2>2. d = IF x.err = NoErr /\ h = "bad_arg" THEN y ELSE x
    BY DEF Marshal
  <2>3. x = [b |-> x.b, fuel |-> x.fuel, err |-> x.err, ran |-> x.ran]
    BY DEF Dispatch, AfterCallInstruction, AfterReturnFuel, Dispatched
  <2> HIDE DEF x, d
  <2>4. y.b = x.b /\ y.fuel = x.fuel /\ y.ran = x.ran /\ y.err = Err("Value", "InvalidInput")
    BY <2>3
  <2>5. y.err \in HostError
    BY <2>4, HostErrors
  <2> HIDE DEF y
  <2>6. d \in {x, y} /\ (d.err = NoErr => x.err = NoErr)
    BY <2>2
  <2> QED
    BY <2>1, <2>4, <2>5, <2>6 DEF x
<1>5. Pays(budget, d.b) /\ d.b \in BudgetType /\ d.fuel \in Fuel
      /\ FuelOK(d.b, burned + d.ran, d.fuel)
  BY <1>3, <1>4 DEF Charges, Pays
<1>6. CASE d.err # NoErr
  BY <1>1, <1>2, <1>4, <1>5, <1>6, TrapDispatchInv
<1>7. CASE d.err = NoErr
  <2>1. d.fuel = NoFuel /\ ~ d.b.shadow
    BY <1>3, <1>4, <1>5, <1>7, PaysPrice, InvFacts
  <2>2. /\ writes' = IF r.err = NoErr /\ h = "put" THEN writes + 1 ELSE writes
        /\ events' = IF r.err = NoErr /\ h = "event" THEN events + 1 ELSE events
        /\ Resume(r.b, f, Below, r.err, h = "get")
    BY <1>2, <1>7
  <2> HIDE DEF d
  <2>3. Outcome(d.b, r)
    BY <1>5, InvFacts, BodyOutcome
  <2> HIDE DEF r
  <2>4. /\ r.b \in BudgetType /\ ~ r.b.shadow /\ r.err \in HostError
        /\ FuelOK(r.b, burned', NoFuel)
    BY <1>2, <1>5, <2>1, <2>3, FuelCharged, PaysPrice DEF Outcome, Pays
  <2>5. f \in Frame /\ f.fuel = NoFuel
    <3>1. Top \in Frame /\ NoFuel \in Fuel /\ flush \in BOOLEAN
      BY <1>1, VmFacts, NoFuelType DEF Frame
    <3> HIDE DEF flush
    <3> QED
      BY <2>1, <3>1 DEF Frame
  <2> HIDE DEF f
  <2>6. writes' \in Nat /\ events' \in Nat /\ auth' \in Nat
    BY <1>1, <2>2, InvFacts
  <2>7. (h = "get") \in BOOLEAN
    OBVIOUS
  <2> QED
    BY <1>1, <2>2, <2>4, <2>5, <2>6, <2>7, ResumeInv
<1> QED
  BY <1>6, <1>7

\* try_call turns an error into a result, but not the budget's.
LEMMA TryCallResult ==
    ASSUME NEW entry, NEW e \in HostError
    PROVE  /\ try_call_result(entry, e) \in HostError
           /\ try_call_result(entry, ExceededLimit) = ExceededLimit
  BY HostErrors, Errors DEF try_call_result

LEMMA CallContractInv ==
    ASSUME Inv, NEW entry \in {"call", "try_call"}, NEW m \in Code,
           CallContract(entry, m), UNCHANGED pos, Turn
    PROVE  Inv'
<1> DEFINE d == Dispatch
           w == record_diagnostics(d.b, 3, 1)
           o == CallOutcome(w, m)
           caller == [Top EXCEPT !.fuel = d.fuel]
           e == try_call_result(entry, o.err)
<1>1. ctl = "vm" /\ UNCHANGED <<writes, events>>
  BY DEF CallContract
<1>2. /\ burned' = burned + d.ran
      /\ IF d.err # NoErr THEN TrapDispatch(d) /\ UNCHANGED auth
         ELSE /\ CalleeKnown(o)
              /\ IF HasFrame(o) THEN Enter(o, WithTop(caller), entry, m)
                 ELSE Resume(report_error(o.b, 2), caller, Below, e, FALSE)
  BY DEF CallContract
<1>3. /\ Charges(budget, d) /\ d.ran \in Nat /\ d.fuel \in Fuel
      /\ FuelOK(d.b, burned + d.ran, d.fuel)
      /\ d.err = NoErr => d.fuel = NoFuel
  BY <1>1, VmFacts, InvFacts, DispatchFuel
<1> HIDE DEF d
<1>4. Pays(budget, d.b) /\ d.b \in BudgetType /\ d.err \in HostError /\ ~ d.b.shadow
  BY <1>3, HostErrors, PaysPrice, InvFacts DEF Charges, Pays
<1>5. CASE d.err # NoErr
  BY <1>1, <1>2, <1>3, <1>4, <1>5, TrapDispatchInv
<1>6. CASE d.err = NoErr
  <2>1. d.fuel = NoFuel /\ Pays(d.b, w)
    BY <1>3, <1>4, <1>6, DiagnosticsCharge
  <2>2. w \in BudgetType /\ ~ w.shadow /\ FuelOK(w, burned', NoFuel)
    BY <1>2, <1>3, <1>4, <2>1, FuelCharged, PaysPrice DEF Pays
  <2> HIDE DEF w
  <2>3. /\ CalleeKnown(o)
        /\ IF HasFrame(o) THEN Enter(o, WithTop(caller), entry, m)
           ELSE Resume(report_error(o.b, 2), caller, Below, e, FALSE)
    BY <1>2, <1>6
  <2>4. /\ Outcome(w, o)
        /\ o.at \in {"outside", "unpushed", "inside", "running"}
        /\ o.at = "running" => o.err = NoErr
        /\ o.at = "unpushed" => o.err = ExceededLimit
        /\ HasFrame(o) => Len(stack) < MaxDepth
    BY <2>2, InvFacts, CallOutcomes
  <2> HIDE DEF o
  <2>5. auth' = IF o.at = "outside" THEN auth ELSE auth + 1
    BY <2>3 DEF CalleeKnown
  <2>6. caller \in Frame /\ caller.fuel = NoFuel
    BY <1>1, <2>1, VmFacts, NoFuelType, FrameFuel
  <2> HIDE DEF caller
  <2>7. o.err \in HostError /\ writes \in Nat /\ writes' \in Nat /\ events' \in Nat /\ auth' \in Nat
    BY <1>1, <2>4, <2>5, InvFacts DEF Outcome
  <2>8. CASE HasFrame(o)
    <3> DEFINE s == WithTop(caller)
    <3>1. Enter(o, s, entry, m) /\ o.at \in {"inside", "running"}
      BY <2>3, <2>4, <2>8 DEF HasFrame
    <3>2. Len(stack) >= 2 /\ StackInv(stack) /\ Len(stack) \in Nat /\ auth = Len(stack) - 1
      BY <1>1, VmFacts, InvFacts
    <3>3. StackInv(s) /\ Len(s) = Len(stack) /\ s[Len(s)] = caller
      BY <2>6, <3>2, StackReplaced DEF WithTop
    <3> HIDE DEF s
    <3>4. Len(s) >= 1
      BY <3>2, <3>3
    <3>5. TopFuel(s) = NoFuel
      BY <2>6, <3>3, <3>4, StackTop
    <3>6. /\ budget' \in BudgetType /\ ~ budget'.shadow /\ err' = o.err
          /\ StackInv(stack') /\ Len(stack') = Len(s) + 1
          /\ FuelOK(budget', burned', TopFuel(stack'))
          /\ CtlInv' /\ ctl' \in Control
      BY <2>2, <2>4, <2>7, <3>1, <3>3, <3>4, <3>5, EnterKeeps
    <3>7. Len(stack') = Len(stack) + 1 /\ Len(stack') >= 1 /\ Len(stack') <= MaxDepth
      BY <2>4, <2>8, <3>2, <3>3, <3>6, MeteringAssumption
    <3>8. Frames(stack') = Len(stack') - 1
      BY <3>6, <3>7, StackTop
    <3>9. auth' = Frames(stack')
      BY <2>5, <3>1, <3>2, <3>7, <3>8
    <3> QED
      BY <2>7, <3>6, <3>7, <3>9, StepTurn, InvNext
  <2>9. CASE ~ HasFrame(o)
    <3> DEFINE x == report_error(o.b, 2)
    <3>1. Resume(x, caller, Below, e, FALSE) /\ o.at \in {"outside", "unpushed"}
      BY <2>3, <2>4, <2>9 DEF HasFrame
    <3>2. Pays(w, o.b) /\ o.b \in BudgetType
      BY <2>4 DEF Outcome, Pays
    <3>3. Pays(w, x)
      BY <2>2, <3>2, DiagnosticsCharge, PaysTransitive
    <3>4. x \in BudgetType /\ ~ x.shadow /\ FuelOK(x, burned', NoFuel)
      BY <2>2, <3>3, FuelCharged, PaysPrice DEF Pays
    <3> HIDE DEF x
    <3>5. e \in HostError /\ (e # ExceededLimit => o.err # ExceededLimit)
      BY <2>7, TryCallResult
    <3> HIDE DEF e
    <3>6. e # ExceededLimit => auth' = auth
      BY <2>4, <2>5, <3>1, <3>5
    <3> QED
      BY <1>1, <2>6, <2>7, <3>1, <3>4, <3>5, <3>6, ResumeInv
  <2> QED
    BY <2>8, <2>9
<1> QED
  BY <1>5, <1>6

\* The VM returned or trapped: what it burned is charged in both cases.
LEMMA LeaveVmInv ==
    ASSUME Inv, ctl \in {"vm", "trapped"}, UNCHANGED pos, Turn,
           NEW outcome \in HostError, LeaveVm(outcome),
           outcome # ExceededLimit => err # ExceededLimit
    PROVE  Inv'
<1> DEFINE back == return_fuel_to_host(budget, Top.fuel)
           f == [Top EXCEPT !.fuel = back.fuel]
<1>1. /\ stack' = WithTop(f) /\ err' = IF back.err # NoErr THEN back.err ELSE outcome
      /\ budget' = IF err' = NoErr THEN back.b ELSE report_error(back.b, 1)
      /\ ctl' = "exit" /\ UNCHANGED <<auth, writes, events, burned>>
  BY DEF LeaveVm
<1>2. /\ Charges(budget, back) /\ FuelOK(back.b, burned, back.fuel)
      /\ PriceOf(back.b) * burned <= back.b.cpu.total_count
  BY VmFacts, InvFacts, FuelReturned
<1> HIDE DEF back
<1>3. Pays(budget, back.b) /\ back.b \in BudgetType /\ back.fuel \in Fuel
  BY <1>2 DEF Charges, Pays, FuelOK
<1>4. FuelOK(back.b, burned, NoFuel)
  BY <1>2, <1>3, FuelNone
<1>5. Pays(back.b, budget')
  BY <1>1, <1>3, PaysReflexive, DiagnosticsCharge
<1>6. f \in Frame /\ f.fuel = back.fuel
  BY <1>3, VmFacts, FrameFuel
<1> HIDE DEF f
<1>7. /\ budget' \in BudgetType /\ ~ budget'.shadow
      /\ FuelOK(budget', burned', f.fuel) /\ FuelOK(budget', burned', NoFuel)
  <2>1. FuelOK(budget', burned, back.fuel) /\ FuelOK(budget', burned, NoFuel)
    BY <1>2, <1>3, <1>4, <1>5, FuelCharged
  <2>2. budget' \in BudgetType /\ ~ budget'.shadow
    BY <1>3, <1>5, PaysPrice, InvFacts DEF Pays
  <2> QED
    BY <1>1, <1>6, <2>1, <2>2
<1>8. err' \in HostError /\ (err' # ExceededLimit => err # ExceededLimit)
  BY <1>1, <1>2, HostErrors DEF Charges
<1>9. writes' \in Nat /\ events' \in Nat
  BY <1>1, InvFacts
<1> QED
  BY <1>1, <1>6, <1>7, <1>8, <1>9, TopStep

LEMMA VmReturnInv ==
    ASSUME Inv, NEW v, VmReturn(v), UNCHANGED pos, Turn
    PROVE  Inv'
<1>1. ctl = "vm" /\ LeaveVm(returned_error(v))
  BY DEF VmReturn
<1>2. returned_error(v) \in HostError
  BY HostErrors DEF returned_error
<1>3. err # ExceededLimit
  BY <1>1, VmFacts, Errors
<1> QED
  BY <1>1, <1>2, <1>3, LeaveVmInv

LEMMA VmTrappedInv ==
    ASSUME Inv, VmTrapped, UNCHANGED pos, Turn
    PROVE  Inv'
  BY InvFacts, LeaveVmInv DEF VmTrapped

\* The flush and the pop of the frame on top.
LEMMA PoppedOutcome ==
    ASSUME Inv, ctl = "exit"
    PROVE  LET p == Popped(Flushed)
           IN  /\ Outcome(budget, p)
               /\ p.err # ExceededLimit => err # ExceededLimit
               /\ p.writes \in Nat
               /\ p.err # NoErr => p.writes = Top.saved
<1> DEFINE q == Flushed
           p == Popped(q)
<1>1. Len(stack) >= 1 /\ Top \in Frame
  BY InvFacts, StackTop DEF CtlInv, Top
<1>2. Charges(budget, flush_charges(budget)) /\ Charges(budget, Start(budget))
  <2>1. Charges(budget, Start(budget))
    BY InvFacts, StartCharges
  <2>2. Charges(budget, charge_bulk_init_cpy(Start(budget), 1, VecSize, ValueSize))
    BY <2>1, InvFacts, ContainerCharges DEF VecSize, ValueSize
  <2> QED
    BY <2>1, <2>2, InvFacts, ContainerCharges DEF flush_charges, VecSize, EntrySize
<1>3. Charges(budget, q)
  BY <1>2 DEF Flushed
<1> HIDE DEF q
<1>4. /\ p.err = IF err # NoErr THEN err ELSE q.err
      /\ p.b = q.b
      /\ p.writes = IF err # NoErr \/ q.err # NoErr THEN Top.saved
                    ELSE IF Top.flush THEN writes + 1 ELSE writes
  BY DEF Popped
<1>5. Top.saved \in Nat /\ writes \in Nat
  BY <1>1, InvFacts DEF Frame
<1> HIDE DEF p
<1>6. p.writes \in Nat /\ (p.err # NoErr => p.writes = Top.saved)
  BY <1>4, <1>5
<1>7. p.err \in HostError /\ (p.err # ExceededLimit => err # ExceededLimit)
  BY <1>3, <1>4, InvFacts, HostErrors, Errors DEF Charges
<1>8. Outcome(budget, p)
  BY <1>3, <1>4, <1>7 DEF Outcome, Charges
<1> QED
  BY <1>6, <1>7, <1>8 DEF p, q

LEMMA Heights ==
    \A n \in Nat : /\ n >= 1 => n = 1 \/ n = 2 \/ n > 2
                  /\ n > 2 => n # 1 /\ n # 2
  OBVIOUS

LEMMA PopFrameInv ==
    ASSUME Inv, PopFrame, UNCHANGED pos, Turn
    PROVE  Inv'
<1> DEFINE p == Popped(Flushed)
           x == ReturnDiagnostics(p)
           n == Len(stack)
           e == try_call_result(Top.entry, p.err)
<1>1. /\ ctl = "exit" /\ auth' = (IF auth = 0 THEN 0 ELSE auth - 1)
      /\ UNCHANGED <<events, burned>>
  BY DEF PopFrame
<1>2. /\ writes' = p.writes
      /\ \/ n = 1 /\ budget' = p.b /\ stack' = <<>> /\ err' = p.err /\ ctl' = "finish"
         \/ n = 2 /\ budget' = x /\ stack' = Below /\ err' = p.err /\ ctl' = "exit"
         \/ n > 2 /\ Resume(x, stack[n - 1], SubSeq(stack, 1, n - 2), e, FALSE)
  BY DEF PopFrame
<1>3. /\ Outcome(budget, p)
      /\ p.err # ExceededLimit => err # ExceededLimit
      /\ p.writes \in Nat
      /\ p.err # NoErr => p.writes = Top.saved
  BY <1>1, PoppedOutcome
<1> HIDE DEF p
<1>4. /\ n \in Nat /\ n >= 1 /\ n <= MaxDepth /\ StackInv(stack) /\ stack \in Seq(Frame)
      /\ Frames(stack) = n - 1
  <2>1. Len(stack) >= 1
    BY <1>1, InvFacts DEF CtlInv
  <2> QED
    BY <2>1, InvFacts, StackTop
<1>5. FuelOK(budget, burned, NoFuel)
  <2>1. PriceOf(budget) * burned <= budget.cpu.total_count
    BY <1>1, InvFacts DEF CtlInv
  <2> QED
    BY <2>1, InvFacts, FuelNone
<1>6. p.b \in BudgetType /\ ~ p.b.shadow /\ FuelOK(p.b, burned', NoFuel)
  BY <1>1, <1>3, <1>5, InvFacts, FuelCharged, PaysPrice DEF Outcome, Pays
<1>7. x \in BudgetType /\ ~ x.shadow /\ FuelOK(x, burned', NoFuel)
  <2>1. Pays(p.b, x)
    BY <1>6, DiagnosticsCharge, PaysReflexive DEF ReturnDiagnostics
  <2> QED
    BY <1>6, <2>1, FuelCharged, PaysPrice DEF Pays
<1> HIDE DEF x
<1>8. /\ writes' \in Nat /\ events' \in Nat /\ auth' \in Nat
      /\ p.err \in HostError
      /\ p.err # ExceededLimit => auth' = IF n = 1 THEN 0 ELSE n - 2
  <2>1. writes' \in Nat /\ events' \in Nat /\ auth' \in Nat /\ p.err \in HostError
    BY <1>1, <1>2, <1>3, InvFacts DEF Outcome
  <2>2. p.err # ExceededLimit => auth = n - 1
    BY <1>3, <1>4, InvFacts
  <2>3. auth = n - 1 => auth' = IF n = 1 THEN 0 ELSE n - 2
    BY <1>1, <1>4
  <2> QED
    BY <2>1, <2>2, <2>3
<1>9. CASE n = 1
  <2>1. budget' = p.b /\ stack' = <<>> /\ err' = p.err /\ ctl' = "finish"
    BY <1>2, <1>9
  <2>2. StackInv(stack') /\ TopFuel(stack') = NoFuel /\ Frames(stack') = 0 /\ Len(stack') = 0
    BY <2>1 DEF StackInv, TopFuel, Frames
  <2>3. err' # NoErr => writes' = 0
    BY <1>2, <1>3, <1>4, <1>9, <2>1 DEF StackInv, Top
  <2>4. CtlInv' /\ ctl' \in Control
    BY <2>1, <2>3 DEF CtlInv, Control
  <2>5. err' # ExceededLimit => auth' = Frames(stack')
    BY <1>8, <1>9, <2>1, <2>2
  <2>6. Len(stack') <= MaxDepth
    BY <2>2, MeteringAssumption
  <2> QED
    BY <1>6, <1>8, <2>1, <2>2, <2>4, <2>5, <2>6, StepTurn, InvNext
<1>10. CASE n = 2
  <2>1. budget' = x /\ stack' = Below /\ err' = p.err /\ ctl' = "exit"
    BY <1>2, <1>10
  <2>2. StackInv(stack') /\ TopFuel(stack') = NoFuel /\ Len(stack') = 1
    <3>1. 1 \in Nat /\ 1 < Len(stack) /\ stack' = SubSeq(stack, 1, 1)
      BY <1>10, <2>1 DEF Below
    <3> QED
      BY <1>4, <3>1, StackDropped
  <2>3. Frames(stack') = 0 /\ Len(stack') >= 1
    BY <2>2, StackTop
  <2>4. CtlInv' /\ ctl' \in Control
    BY <1>7, <2>1, <2>3, AtExit
  <2>5. err' # ExceededLimit => auth' = Frames(stack')
    BY <1>8, <1>10, <2>1, <2>3
  <2>6. Len(stack') <= MaxDepth
    BY <2>2, MeteringAssumption
  <2> QED
    BY <1>7, <1>8, <2>1, <2>2, <2>4, <2>5, <2>6, StepTurn, InvNext
<1>11. CASE n > 2
  <2> DEFINE below == SubSeq(stack, 1, n - 2)
             frame == stack[n - 1]
  <2>1. Resume(x, frame, below, e, FALSE)
    <3>1. n # 1 /\ n # 2
      BY <1>4, <1>11, Heights
    <3> QED
      BY <1>2, <3>1
  <2>2. StackInv(below) /\ TopFuel(below) = NoFuel /\ Len(below) = n - 2 /\ Len(below) >= 1
    <3>1. n - 2 \in Nat /\ n - 2 < Len(stack) /\ n - 2 >= 1
      BY <1>4, <1>11
    <3> QED
      BY <1>4, <3>1, StackDropped
  <2>3. frame \in Frame /\ frame.fuel = NoFuel
    <3>1. n - 1 \in 1 .. Len(stack) - 1 /\ n - 1 \in 1 .. Len(stack)
      BY <1>4, <1>11
    <3> QED
      BY <1>4, <3>1 DEF StackInv
  <2> HIDE DEF below, frame
  <2>4. e \in HostError /\ (e # ExceededLimit => p.err # ExceededLimit)
    BY <1>8, TryCallResult
  <2> HIDE DEF e
  <2>5. /\ budget' \in BudgetType /\ ~ budget'.shadow
        /\ StackInv(stack') /\ Len(stack') = Len(below) + 1
        /\ FuelOK(budget', burned', TopFuel(stack'))
        /\ ctl' \in {"vm", "trapped"} /\ err' \in HostError
        /\ ctl' = "vm" => err' = NoErr
        /\ err' # ExceededLimit => err' = e
    BY <1>7, <2>1, <2>2, <2>3, <2>4, ResumeKeeps
  <2>6. Len(stack') = n - 1 /\ Len(stack') >= 2 /\ Len(stack') >= 1 /\ Len(stack') <= MaxDepth
    BY <1>4, <1>11, <2>2, <2>5, MeteringAssumption
  <2>7. Frames(stack') = Len(stack') - 1
    BY <2>5, <2>6, StackTop
  <2>8. err' # ExceededLimit => auth' = Frames(stack')
    <3>1. err' # ExceededLimit => auth' = n - 2
      <4>1. n # 1
        BY <1>4, <1>11, Heights
      <4>2. p.err # ExceededLimit => auth' = n - 2
        BY <1>8, <4>1
      <4> QED
        BY <2>4, <2>5, <4>2
    <3> QED
      BY <1>4, <2>6, <2>7, <3>1
  <2>9. CtlInv' /\ ctl' \in Control
    BY <2>5, <2>6, InVm
  <2> QED
    BY <1>8, <2>5, <2>6, <2>8, <2>9, StepTurn, InvNext
<1>12. n = 1 \/ n = 2 \/ n > 2
  <2>1. n \in Nat /\ n >= 1
    BY <1>4
  <2> HIDE DEF n
  <2> QED
    BY ONLY <2>1
<1> QED
  BY <1>9, <1>10, <1>11, <1>12

\* The end of the invocation: conversion and encoding, charge by charge.
LEMMA FinishInv ==
    ASSUME Inv, Finish, Turn
    PROVE  Inv'
<1>1. UNCHANGED <<stack, auth, writes, events, burned>> /\ turn' \in {0, 1}
  BY InvFacts DEF Finish, Turn
<1>2. ctl \in {"finish", "encode"} /\ (ConvertEvent \/ Converted \/ EncodeValue)
  BY DEF Finish, ConvertEvent, Converted, EncodeValue
<1>3. /\ stack' = <<>> /\ StackInv(stack') /\ Len(stack') <= MaxDepth
      /\ TopFuel(stack') = NoFuel /\ Frames(stack') = 0
      /\ FuelOK(budget, burned', NoFuel)
  <2>1. stack = <<>>
    BY <1>2, InvFacts DEF CtlInv
  <2>2. TopFuel(stack) = NoFuel /\ Frames(stack) = 0
    BY <2>1 DEF TopFuel, Frames
  <2> QED
    BY <1>1, <2>1, <2>2, InvFacts
<1>4. /\ auth' \in Nat /\ writes' \in Nat /\ events' \in Nat
      /\ err # ExceededLimit => auth' = Frames(stack')
  BY <1>1, InvFacts
<1>5. ASSUME NEW r, Charges(budget, r), NEW next \in {"finish", "encode", "committed"},
             Charged(r, next),
             next = "finish" => ctl = "finish",
             next = "committed" /\ r.err = NoErr =>
                ~ over_limit(r.b.cpu, FALSE) /\ ~ over_limit(r.b.mem, FALSE)
      PROVE  Inv'
  <2>1. budget' = r.b /\ pos' \in Nat
    BY <1>5, InvFacts DEF Charged
  <2>2. budget' \in BudgetType /\ ~ budget'.shadow /\ FuelOK(budget', burned', TopFuel(stack'))
    BY <1>3, <1>5, <2>1, InvFacts, FuelCharged, PaysPrice DEF Charges, Pays
  <2>3. CASE r.err = NoErr
    <3>1. ctl' = next /\ err' = err
      BY <1>5, <2>3 DEF Charged
    <3>2. ctl' = "finish" /\ err' # NoErr => writes' = 0
      BY <1>1, <1>5, <3>1, InvFacts DEF CtlInv
    <3>3. ctl' = "committed" => ~ OverBudget'
      BY <1>5, <2>1, <2>3, <3>1 DEF OverBudget
    <3>4. CtlInv' /\ ctl' \in Control
      BY <1>3, <1>5, <3>1, <3>2, <3>3 DEF CtlInv, Control
    <3> QED
      BY <1>1, <1>3, <1>4, <2>1, <2>2, <3>1, <3>4, InvFacts, InvNext
  <2>4. CASE r.err # NoErr
    <3>1. ctl' = "failed" /\ err' = ExceededLimit
      BY <1>5, <2>4 DEF Charged, Charges
    <3>2. CtlInv' /\ ctl' \in Control
      BY <1>3, <3>1 DEF CtlInv, Control
    <3> QED
      BY <1>1, <1>3, <1>4, <2>1, <2>2, <3>1, <3>2, HostErrors, InvNext
  <2> QED
    BY <2>3, <2>4
<1>6. CASE ConvertEvent
  <2> DEFINE r == charge_bulk_init_cpy(Start(budget), 1, VecSize, HostEventSize)
  <2>1. Charged(r, "finish") /\ ctl = "finish"
    BY <1>6 DEF ConvertEvent
  <2>2. Charges(budget, r)
    BY InvFacts, StartCharges, ContainerCharges DEF VecSize, HostEventSize
  <2> HIDE DEF r
  <2> QED
    BY <1>5, <2>1, <2>2
<1>7. CASE Converted
  <2>1. /\ ctl = "finish" /\ ctl' = IF err = NoErr THEN "encode" ELSE "failed"
        /\ pos' = 0 /\ budget' = budget /\ err' = err
    BY <1>7 DEF Converted
  <2>2. CtlInv' /\ ctl' \in Control
    BY <1>3, <2>1 DEF CtlInv, Control
  <2> QED
    BY <1>1, <1>3, <1>4, <2>1, <2>2, InvFacts, InvNext
<1>8. CASE EncodeValue
  <2> DEFINE r == charge(budget, Charge("ValSer", 1, <<ResultSize>>))
             next == IF pos < writes + events THEN "encode" ELSE "committed"
  <2>1. Charged(r, next) /\ next \in {"encode", "committed"}
    BY <1>8 DEF EncodeValue
  <2>2. GoodCharge(Charge("ValSer", 1, <<ResultSize>>))
    BY GoodCharges DEF ResultSize
  <2>3. /\ Charges(budget, r)
        /\ r.err = NoErr => ~ over_limit(r.b.cpu, FALSE) /\ ~ over_limit(r.b.mem, FALSE)
    BY <2>2, InvFacts, ChargeCharges
  <2> HIDE DEF r, next
  <2> QED
    BY <1>5, <2>1, <2>3
<1> QED
  BY <1>2, <1>6, <1>7, <1>8

LEMMA NextInv == Inv /\ [Next]_vars => Inv'
<1> SUFFICES ASSUME Inv, [Next]_vars
             PROVE  Inv'
  OBVIOUS
<1>1. CASE UNCHANGED vars
  BY <1>1 DEF vars, Inv, TypeOK, CtlInv, OverBudget
<1>2. CASE Next
  <2>1. CASE Done
    BY <1>1, <2>1 DEF Done
  <2>2. CASE Finish /\ Turn
    BY <2>2, FinishInv
  <2>3. CASE Step /\ UNCHANGED pos /\ Turn
    <3>1. CASE InvokeFunction
      BY <2>3, <3>1, InvokeFunctionInv
    <3>2. CASE CallFromHostFunction
      BY <2>3, <3>2, CallFromHostFunctionInv
    <3>3. CASE \E n \in Burst : Exec(n)
      BY <2>3, <3>3, ExecInv
    <3>4. CASE \E code \in {"UnreachableCodeReached", "StackOverflow"} : SelfTrap(code)
      BY <2>3, <3>4, SelfTrapInv
    <3>5. CASE \E delta \in Growth : MemoryGrow(delta)
      BY <2>3, <3>5, MemoryGrowInv
    <3>6. CASE \E f \in HostFunction : CallHost(f)
      BY <2>3, <3>6, CallHostInv
    <3>7. CASE \E entry \in {"call", "try_call"}, m \in Code : CallContract(entry, m)
      BY <2>3, <3>7, CallContractInv
    <3>8. CASE \E v \in {"value", "contract_error", "other_error"} : VmReturn(v)
      BY <2>3, <3>8, VmReturnInv
    <3>9. CASE VmTrapped
      BY <2>3, <3>9, VmTrappedInv
    <3>10. CASE PopFrame
      BY <2>3, <3>10, PopFrameInv
    <3> QED
      BY <2>3, <3>1, <3>2, <3>3, <3>4, <3>5, <3>6, <3>7, <3>8, <3>9, <3>10 DEF Step
  <2> QED
    BY <1>2, <2>1, <2>2, <2>3 DEF Next
<1> QED
  BY <1>1, <1>2

-----------------------------------------------------------------------------
(* Theorems. *)

\* The inductive invariant holds in every state of every invocation.
THEOREM Invariance == Spec => []Inv
  BY InitInv, NextInv, PTL DEF Spec

\* The budget, the frames and the errors keep the types of the Rust fields:
\* no counter leaves u64, and no push goes over the host's depth limit.
THEOREM TypeCorrect == Spec => []TypeOK
<1>1. Inv => TypeOK
  BY DEF Inv
<1> QED
  BY <1>1, Invariance, PTL

\* get_wasmi_fuel_remaining and return_fuel_to_host never hand the same budget
\* out twice: what all the VMs burned costs no more than the limit, and what
\* was handed back is in the real budget's total.
THEOREM WorkPaid == Spec => []WorkIsPaidFor
<1>1. ASSUME Inv
      PROVE  WorkIsPaidFor
  <2> DEFINE fuel == TopFuel(stack)
  <2>1. FuelOK(budget, burned, fuel) /\ budget \in BudgetType /\ ~ budget.shadow
    BY <1>1, InvFacts
  <2>2. Price = PriceOf(budget)
    BY DEF Price, PriceOf
  <2>3. Running = fuel.consumed
    BY DEF Running, TopFuel, Top, NoFuel
  <2> HIDE DEF fuel
  <2>4. PriceOf(budget) * (burned - fuel.consumed) <= budget.cpu.total_count
    BY <2>1 DEF FuelOK
  <2>5. PriceOf(budget) * burned <= budget.cpu.limit
    BY <2>1, FuelFits
  <2> QED
    BY <2>1, <2>2, <2>3, <2>4, <2>5 DEF WorkIsPaidFor
<1> QED
  BY <1>1, Invariance, PTL

\* A VM that waits for a callee holds no fuel, so add_fuel_to_vm never finds a
\* VM that is not clean, and no invocation ends with an internal error.
THEOREM WaitingVmsHoldNoFuel == Spec => []OnlyTheRunningVmHoldsFuel
<1>1. ASSUME Inv
      PROVE  OnlyTheRunningVmHoldsFuel
  BY <1>1 DEF Inv, StackInv, OnlyTheRunningVmHoldsFuel, is_clean
<1> QED
  BY <1>1, Invariance, PTL

\* A frame that push_context gave to the authorization manager and then could
\* not pay for is never seen by a contract that runs on.
THEOREM AuthStackIsInStep == Spec => []AuthStackMatchesFrames
<1>1. Inv => AuthStackMatchesFrames
  BY VmFacts DEF AuthStackMatchesFrames
<1> QED
  BY <1>1, Invariance, PTL

\* Whatever swallowed the error of a charge, an invocation over a limit does
\* not commit, and one that failed has written nothing.
THEOREM ExhaustionFails == Spec => []ExhaustionIsFatal
<1>1. Inv => ExhaustionIsFatal
  BY DEF Inv, CtlInv, ExhaustionIsFatal
<1> QED
  BY <1>1, Invariance, PTL
=============================================================================
