----------------------------- MODULE FramesProofs -----------------------------
(***************************************************************************)
(* Theorems about Frames, for any contracts, ledger and depth, and whether *)
(* or not contracts authenticate themselves.                               *)
(***************************************************************************)
EXTENDS Frames, TLAPS

Exists(l, c) == c = NoContract \/ l[c] # NoInstance

\* A contract that exists keeps existing.
Keeps(l, m) == \A c \in Contract : l[c] # NoInstance => m[c] # NoInstance

\* Only a contract's frame has instance storage, loaded before it is written.
FrameOK(f) ==
    /\ f.contract # NoContract => f.instance # NoInstance
    /\ f.modified => f.contract # NoContract /\ f.cache # NoCache

Reentry(s) ==
    \A i, j \in 1 .. Len(s) :
        i < j /\ s[i].contract = s[j].contract =>
            \A k \in i + 1 .. j :
                s[k].contract = s[i].contract /\ s[k].entry = "auth"

(***************************************************************************)
(* A stack s over the ledger l: its contracts exist, now and in every      *)
(* rollback point above them, so that neither running nor unwinding finds  *)
(* a frame of a contract that is gone; the outermost rollback point is the *)
(* state before the transaction.                                           *)
(***************************************************************************)
StackInv(s, l) ==
    /\ s \in Seq(Frame)
    /\ \A i \in 1 .. Len(s) : FrameOK(s[i]) /\ Exists(l, s[i].contract)
    /\ \A i, j \in 1 .. Len(s) : i < j => Exists(s[j].rp.ledger, s[i].contract)
    /\ Reentry(s)
    /\ Len(s) > 0 => s[1].rp.ledger = Ledger0 /\ s[1].rp.events = 0

Inv ==
    /\ TypeOK
    /\ Len(events) <= MaxEvents
    /\ StackInv(stack, ledger)
    /\ FailedInvocationLeavesNoTrace

-----------------------------------------------------------------------------
(* What pushing, popping and changing a frame, or the ledger, does. *)

\* The ledger changes under the stack.
LEMMA LedgerInv ==
    ASSUME NEW s, NEW l \in Ledger, NEW m \in Ledger, StackInv(s, l), Keeps(l, m)
    PROVE  StackInv(s, m)
<1>1. \A i \in 1 .. Len(s) : s[i].contract \in Contract \union {NoContract}
  <2>1. \A i \in 1 .. Len(s) : s[i] \in Frame
    BY DEF StackInv
  <2> QED
    BY <2>1 DEF Frame
<1> QED
  BY <1>1 DEF StackInv, Exists, Keeps

\* A frame is pushed whose rollback point is the current ledger.
LEMMA PushInv ==
    ASSUME NEW s, NEW l \in Ledger, StackInv(s, l), Len(s) > 0,
           NEW f \in Frame, FrameOK(f), f.contract \in Contract,
           f.rp.ledger = l, l[f.contract] # NoInstance,
           \/ \A i \in 1 .. Len(s) : s[i].contract # f.contract
           \/ f.entry = "auth" /\ s[Len(s)].contract = f.contract
    PROVE  StackInv(Append(s, f), l)
<1> DEFINE t == Append(s, f)
           n == Len(s)
<1>1. /\ s \in Seq(Frame) /\ n \in Nat /\ t \in Seq(Frame)
      /\ Len(t) = n + 1 /\ t[n + 1] = f
      /\ \A i \in 1 .. n : t[i] = s[i]
  BY DEF StackInv
<1>2. \A i \in 1 .. n + 1 : i \in 1 .. n \/ i = n + 1
  BY <1>1
<1> HIDE DEF t, n
<1>3. \A i \in 1 .. n + 1 : FrameOK(t[i]) /\ Exists(l, t[i].contract)
  BY <1>1, <1>2 DEF StackInv, Exists, n
<1>4. \A i, j \in 1 .. n + 1 : i < j => Exists(t[j].rp.ledger, t[i].contract)
  <2> SUFFICES ASSUME NEW i \in 1 .. n + 1, NEW j \in 1 .. n + 1, i < j
               PROVE  Exists(t[j].rp.ledger, t[i].contract)
    OBVIOUS
  <2>1. i \in 1 .. n
    BY <1>1
  <2>2. CASE j = n + 1
    BY <2>1, <2>2, <1>1, <1>3
  <2>3. CASE j \in 1 .. n
    BY <2>1, <2>3, <1>1 DEF StackInv, n
  <2> QED
    BY <1>2, <2>2, <2>3
<1>5. Reentry(t)
  <2> SUFFICES ASSUME NEW i \in 1 .. n + 1, NEW j \in 1 .. n + 1, i < j,
                      t[i].contract = t[j].contract, NEW k \in i + 1 .. j
               PROVE  t[k].contract = t[i].contract /\ t[k].entry = "auth"
    BY <1>1 DEF Reentry
  <2>1. i \in 1 .. n /\ t[i] = s[i]
    BY <1>1
  <2>2. CASE j \in 1 .. n
    <3>1. k \in 1 .. n /\ t[k] = s[k] /\ t[j] = s[j]
      BY <2>2, <1>1
    <3> QED
      BY <2>1, <2>2, <3>1 DEF StackInv, Reentry, n
  <2>3. CASE j = n + 1
    <3>1. s[i].contract = f.contract
      BY <2>1, <2>3, <1>1
    <3>2. f.entry = "auth" /\ s[n].contract = f.contract
      BY <2>1, <3>1 DEF n
    <3>3. CASE k = n + 1
      BY <3>1, <3>2, <3>3, <2>1, <1>1
    <3>4. CASE k \in i + 1 .. n
      <4>1. i < n /\ n \in 1 .. n /\ t[k] = s[k]
        BY <3>4, <1>1, <2>1
      <4> QED
        BY <4>1, <3>1, <3>2, <3>4, <2>1 DEF StackInv, Reentry, n
    <3> QED
      BY <2>3, <3>3, <3>4, <1>1
  <2> QED
    BY <1>2, <2>2, <2>3
<1>6. t[1].rp.ledger = Ledger0 /\ t[1].rp.events = 0
  BY <1>1 DEF StackInv, n
<1> QED
  BY <1>1, <1>3, <1>4, <1>5, <1>6 DEF StackInv, t

\* The top frame is removed; the ledger is kept or restored from it.
LEMMA PopInv ==
    ASSUME NEW s, NEW l \in Ledger, StackInv(s, l), Len(s) > 0,
           NEW m \in Ledger, m = s[Len(s)].rp.ledger \/ Keeps(l, m)
    PROVE  /\ StackInv(SubSeq(s, 1, Len(s) - 1), m)
           /\ SubSeq(s, 1, Len(s) - 1) \in Seq(Frame)
           /\ Len(SubSeq(s, 1, Len(s) - 1)) = Len(s) - 1
<1> DEFINE n == Len(s)
           t == SubSeq(s, 1, n - 1)
<1>1. s \in Seq(Frame) /\ n \in Nat /\ n > 0
  BY DEF StackInv
<1>2. t \in Seq(Frame) /\ Len(t) = n - 1 /\ \A i \in 1 .. n - 1 : t[i] = s[i]
  <2>1. CASE n = 1
    BY <1>1, <2>1
  <2>2. CASE n > 1
    BY <1>1, <2>2
  <2> HIDE DEF t, n
  <2>3. n = 1 \/ n > 1
    BY <1>1
  <2> QED
    BY <2>1, <2>2, <2>3
<1>3. \A i \in 1 .. n - 1 : i \in 1 .. n /\ n \in 1 .. n /\ i < n
  BY <1>1
<1> HIDE DEF t, n
<1>4. \A i \in 1 .. n : s[i].contract \in Contract \union {NoContract}
  <2>1. \A i \in 1 .. n : s[i] \in Frame
    BY <1>1 DEF n
  <2> QED
    BY <2>1 DEF Frame
<1>5. ASSUME NEW i \in 1 .. n - 1
      PROVE  FrameOK(t[i]) /\ Exists(m, t[i].contract)
  <2>1. FrameOK(s[i]) /\ Exists(l, s[i].contract)
    BY <1>3 DEF StackInv, n
  <2>2. Exists(s[n].rp.ledger, s[i].contract)
    BY <1>3 DEF StackInv, n
  <2> QED
    BY <2>1, <2>2, <1>2, <1>3, <1>4 DEF Exists, Keeps, n
<1>6. \A i, j \in 1 .. n - 1 : i < j => Exists(t[j].rp.ledger, t[i].contract)
  BY <1>2, <1>3 DEF StackInv, n
<1>7. Reentry(t)
  <2> SUFFICES ASSUME NEW i \in 1 .. n - 1, NEW j \in 1 .. n - 1, i < j,
                      t[i].contract = t[j].contract, NEW k \in i + 1 .. j
               PROVE  t[k].contract = t[i].contract /\ t[k].entry = "auth"
    BY <1>2 DEF Reentry
  <2>1. k \in 1 .. n - 1 /\ t[k] = s[k] /\ t[j] = s[j] /\ t[i] = s[i]
    BY <1>1, <1>2
  <2> QED
    BY <2>1, <1>3 DEF StackInv, Reentry, n
<1>8. Len(t) > 0 => t[1].rp.ledger = Ledger0 /\ t[1].rp.events = 0
  BY <1>1, <1>2 DEF StackInv, n
<1> QED
  BY <1>2, <1>5, <1>6, <1>7, <1>8 DEF StackInv, t, n

\* The top frame's instance storage changes.
LEMMA SetTopInv ==
    ASSUME NEW s, NEW l \in Ledger, StackInv(s, l), Len(s) > 0,
           NEW f \in Frame, FrameOK(f),
           f.contract = s[Len(s)].contract, f.entry = s[Len(s)].entry,
           f.rp = s[Len(s)].rp
    PROVE  StackInv([s EXCEPT ![Len(s)] = f], l)
<1> DEFINE n == Len(s)
           t == [s EXCEPT ![n] = f]
<1>1. s \in Seq(Frame) /\ n \in Nat /\ n \in 1 .. n
  BY DEF StackInv
<1>2. t \in Seq(Frame) /\ Len(t) = n
  BY <1>1
<1>3. \A i \in 1 .. n : /\ t[i].contract = s[i].contract /\ t[i].entry = s[i].entry
                        /\ t[i].rp = s[i].rp /\ (t[i] = s[i] \/ t[i] = f)
  BY <1>1
<1> HIDE DEF t, n
<1>4. \A i \in 1 .. n : FrameOK(t[i]) /\ Exists(l, t[i].contract)
  BY <1>3 DEF StackInv, n
<1>5. \A i, j \in 1 .. n : i < j => Exists(t[j].rp.ledger, t[i].contract)
  BY <1>3 DEF StackInv, n
<1>6. Reentry(t)
  <2> SUFFICES ASSUME NEW i \in 1 .. n, NEW j \in 1 .. n, i < j,
                      t[i].contract = t[j].contract, NEW k \in i + 1 .. j
               PROVE  t[k].contract = t[i].contract /\ t[k].entry = "auth"
    BY <1>2 DEF Reentry
  <2>1. k \in 1 .. n
    BY <1>1
  <2> QED
    BY <2>1, <1>3 DEF StackInv, Reentry, n
<1>7. t[1].rp.ledger = Ledger0 /\ t[1].rp.events = 0
  BY <1>1, <1>3 DEF StackInv, n
<1> QED
  BY <1>2, <1>4, <1>5, <1>6, <1>7 DEF StackInv, t, n

-----------------------------------------------------------------------------
(* Pieces that several actions share. *)

LEMMA TopFacts ==
    ASSUME Inv, Len(stack) > 0
    PROVE  /\ stack \in Seq(Frame) /\ Len(stack) \in Nat
           /\ Top \in Frame /\ FrameOK(Top)
           /\ Top.contract \in Contract \union {NoContract}
           /\ Top.rp.ledger \in Ledger /\ Top.rp.events \in 0 .. MaxEvents
           /\ Current # NoContract => ledger[Current] \in Instance
           /\ ledger \in Ledger /\ Len(events) \in 0 .. MaxEvents
<1>1. stack \in Seq(Frame) /\ Len(stack) \in Nat /\ Len(stack) \in 1 .. Len(stack)
  BY DEF Inv, TypeOK
<1>2. Top \in Frame /\ FrameOK(Top) /\ Exists(ledger, Top.contract)
  BY <1>1 DEF Top, Inv, StackInv
<1>3. /\ Top.contract \in Contract \union {NoContract}
      /\ Top.rp.ledger \in Ledger /\ Top.rp.events \in 0 .. MaxEvents
  BY <1>2 DEF Frame, RollbackPoint
<1>4. ledger \in Ledger /\ events \in Seq(Event) /\ Len(events) <= MaxEvents
  BY DEF Inv, TypeOK
<1>5. Current # NoContract => ledger[Current] \in Instance
  BY <1>2, <1>3, <1>4 DEF Current, Exists, Ledger
<1>6. Len(events) \in 0 .. MaxEvents
  BY <1>4, FramesAssumption
<1> QED
  BY <1>1, <1>2, <1>3, <1>4, <1>5, <1>6

\* A step that leaves stack and ledger alone and does not end the invocation.
LEMMA QuietInv ==
    ASSUME Inv, Len(stack) > 0, UNCHANGED <<stack, ledger>>,
           status' \in {"run", "recoverable", "unrecoverable"},
           hostfn' = hostfn, started' \in BOOLEAN,
           events' \in Seq(Event), Len(events') <= MaxEvents
    PROVE  Inv'
BY DEF Inv, TypeOK, FailedInvocationLeavesNoTrace

\* A step that replaces the stack and the ledger and does not end the
\* invocation.
LEMMA StepInv ==
    ASSUME Inv, ledger' \in Ledger, StackInv(stack', ledger'), Len(stack') > 0,
           status' \in {"run", "recoverable", "unrecoverable"},
           hostfn' = hostfn, started' \in BOOLEAN,
           events' \in Seq(Event), Len(events') <= MaxEvents
    PROVE  Inv'
BY DEF Inv, TypeOK, StackInv, FailedInvocationLeavesNoTrace

LEMMA NewFrameOK ==
    ASSUME NEW m \in Ledger, NEW c \in Contract, m[c] # NoInstance,
           NEW entry \in {"host", "call", "try", "auth"},
           Len(events) \in 0 .. MaxEvents
    PROVE  LET f == NewFrame(c, entry, m)
           IN  /\ f \in Frame /\ FrameOK(f) /\ f.contract = c /\ f.entry = entry
               /\ f.rp.ledger = m
<1>1. m[c] \in Instance /\ c # NoContract
  BY FramesAssumption DEF Ledger
<1> QED
  BY <1>1, FramesAssumption DEF NewFrame, Frame, RollbackPoint, FrameOK

LEMMA InitInv == Init => Inv
<1> SUFFICES ASSUME Init PROVE Inv
    OBVIOUS
<1> DEFINE f == NewFrame(NoContract, "host", Ledger0)
<1>1. f \in Frame /\ FrameOK(f) /\ f.contract = NoContract
      /\ f.rp.ledger = Ledger0 /\ f.rp.events = 0
  BY FramesAssumption DEF Init, NewFrame, Frame, RollbackPoint, FrameOK
<1>2. stack = <<f>> /\ ledger = Ledger0 /\ events = << >>
  BY DEF Init
<1> HIDE DEF f
<1>3. stack \in Seq(Frame) /\ Len(stack) = 1 /\ stack[1] = f
  BY <1>1, <1>2
<1>4. StackInv(stack, ledger)
  BY <1>1, <1>2, <1>3 DEF StackInv, Exists, Reentry
<1>5. Len(events) = 0 /\ events \in Seq(Event)
  BY <1>2
<1>6. TypeOK
  BY <1>2, <1>3, <1>5, FramesAssumption DEF Init, TypeOK
<1>7. Len(events) <= MaxEvents
  BY <1>5, FramesAssumption
<1>8. FailedInvocationLeavesNoTrace
  BY <1>3 DEF FailedInvocationLeavesNoTrace
<1> QED
  BY <1>4, <1>6, <1>7, <1>8 DEF Inv

-----------------------------------------------------------------------------
(* One lemma per group of actions. *)

\* The ledger of a contract on top of the stack, with one field changed.
LEMMA WriteKeeps ==
    ASSUME NEW l \in Ledger, NEW c \in Contract, NEW r \in Instance,
           NEW m, m = [l EXCEPT ![c] = r]
    PROVE  m \in Ledger /\ Keeps(l, m)
BY FramesAssumption DEF Ledger, Keeps

\* call, try_call and __check_auth.
LEMMA EnterInv ==
    ASSUME Inv, Len(stack) > 0, status = "run",
           NEW c \in Contract, NEW entry \in {"call", "try", "auth"},
           CanEnter(c, entry), Enter(c, entry), started' \in BOOLEAN
    PROVE  Inv'
<1> DEFINE f == NewFrame(c, entry, ledger)
<1>1. ledger[c] # NoInstance /\ stack' = Append(stack, f)
      /\ ledger' = ledger /\ events' = events /\ status' = status /\ hostfn' = hostfn
  BY DEF CanEnter, Enter
<1>2. \/ \A i \in 1 .. Len(stack) : stack[i].contract # c
      \/ entry = "auth" /\ stack[Len(stack)].contract = c
  BY DEF CanEnter, ReentryAllowed, OnStack, Current, Top
<1>3. /\ f \in Frame /\ FrameOK(f) /\ f.contract = c /\ f.entry = entry
      /\ f.rp.ledger = ledger
  BY <1>1, TopFacts, NewFrameOK
<1> HIDE DEF f
<1>4. StackInv(stack, ledger)
  BY DEF Inv
<1>5. StackInv(Append(stack, f), ledger)
  BY <1>1, <1>2, <1>3, <1>4, TopFacts, PushInv
<1>6. Len(stack') > 0
  BY <1>1, <1>3, TopFacts
<1>7. status' \in {"run", "recoverable", "unrecoverable"} /\ events' \in Seq(Event)
      /\ Len(events') <= MaxEvents /\ ledger' \in Ledger
  BY <1>1 DEF Inv, TypeOK
<1> QED
  BY <1>1, <1>5, <1>6, <1>7, StepInv

LEMMA TrapInv ==
    ASSUME Inv, Len(stack) > 0, Trap, started' \in BOOLEAN
    PROVE  Inv'
<1>1. UNCHANGED <<stack, ledger, events, hostfn>> /\ status' = "recoverable"
  BY DEF Trap
<1> QED
  BY <1>1, QuietInv DEF Inv, TypeOK

LEMMA CallInv ==
    ASSUME Inv, NEW c \in Contract,
           Call(c) \/ TryCall(c) \/ TryCallRefused(c) \/ CheckAuth(c)
    PROVE  Inv'
<1>1. Len(stack) > 0 /\ status = "run"
  BY DEF Call, TryCall, TryCallRefused, CheckAuth, InContract, InHostFn, Running
<1>2. started \in BOOLEAN
  BY DEF Inv, TypeOK
<1>3. CASE Call(c)
  BY <1>1, <1>3, EnterInv, TrapInv DEF Call
<1>4. CASE TryCall(c)
  BY <1>1, <1>2, <1>4, EnterInv DEF TryCall
<1>5. CASE CheckAuth(c)
  BY <1>1, <1>2, <1>5, EnterInv, TrapInv DEF CheckAuth
<1>6. CASE TryCallRefused(c)
  <2>1. UNCHANGED vars
    BY <1>6 DEF TryCallRefused
  <2> QED
    BY <2>1 DEF vars, Inv, TypeOK, FailedInvocationLeavesNoTrace
<1> QED
  BY <1>3, <1>4, <1>5, <1>6

\* Instance storage.
LEMMA InstanceDataInv ==
    ASSUME Inv, GetInstanceData \/ \E v \in Val : PutInstanceData(v)
    PROVE  Inv'
<1>1. Len(stack) > 0 /\ Current # NoContract
  BY DEF GetInstanceData, PutInstanceData, InContract, Running
<1>2. PICK f : /\ f \in Frame /\ FrameOK(f) /\ f.contract = Top.contract
               /\ f.entry = Top.entry /\ f.rp = Top.rp
               /\ stack' = [stack EXCEPT ![Len(stack)] = f]
  <2>1. Top \in Frame /\ FrameOK(Top) /\ Top.contract # NoContract
    BY <1>1, TopFacts DEF Current
  <2>2. Top.instance \in Instance /\ Top.instance.store \in Val
    BY <2>1 DEF Frame, FrameOK, Instance
  <2>3. CASE GetInstanceData
    <3> DEFINE g == [Top EXCEPT !.cache = CachedStore(Top)]
    <3>1. CachedStore(Top) \in Val
      BY <2>1, <2>2 DEF CachedStore, Frame
    <3>2. g \in Frame /\ g.contract = Top.contract /\ g.entry = Top.entry
          /\ g.rp = Top.rp /\ g.cache \in Val /\ g.instance = Top.instance
      BY <2>1, <3>1 DEF Frame
    <3>3. FrameOK(g)
      BY <2>1, <3>2, FramesAssumption DEF FrameOK
    <3> QED
      BY <2>3, <3>2, <3>3 DEF GetInstanceData, SetTop
  <2>4. ASSUME NEW v \in Val, PutInstanceData(v)
        PROVE  \E f : /\ f \in Frame /\ FrameOK(f) /\ f.contract = Top.contract
                      /\ f.entry = Top.entry /\ f.rp = Top.rp
                      /\ stack' = [stack EXCEPT ![Len(stack)] = f]
    <3> DEFINE g == [Top EXCEPT !.cache = v, !.modified = TRUE]
    <3>1. g \in Frame /\ g.contract = Top.contract /\ g.entry = Top.entry
          /\ g.rp = Top.rp /\ g.cache = v /\ g.instance = Top.instance
      BY <2>1 DEF Frame
    <3>2. FrameOK(g)
      BY <2>1, <3>1, FramesAssumption DEF FrameOK
    <3> QED
      BY <2>4, <3>1, <3>2 DEF PutInstanceData, SetTop
  <2> QED
    BY <2>3, <2>4
<1>3. UNCHANGED <<ledger, events, status, hostfn, started>>
  BY DEF GetInstanceData, PutInstanceData
<1>4. StackInv(stack, ledger) /\ ledger \in Ledger
  BY DEF Inv, TypeOK
<1>5. StackInv(stack', ledger)
  BY <1>1, <1>2, <1>4, SetTopInv DEF Top
<1>6. Len(stack') > 0
  BY <1>1, <1>2, TopFacts
<1> QED
  BY <1>3, <1>4, <1>5, <1>6, StepInv DEF Inv, TypeOK

\* The ledger is written and the event buffer may grow.
LEMMA WriteInv ==
    ASSUME Inv, Len(stack) > 0, UNCHANGED <<stack, hostfn>>, started' \in BOOLEAN,
           status' \in {"run", "recoverable", "unrecoverable"},
           ledger' \in Ledger, Keeps(ledger, ledger'),
           events' \in Seq(Event), Len(events') <= MaxEvents
    PROVE  Inv'
<1>1. StackInv(stack, ledger) /\ ledger \in Ledger
  BY DEF Inv, TypeOK
<1>2. StackInv(stack, ledger')
  BY <1>1, LedgerInv
<1> QED
  BY <1>2, StepInv

LEMMA RecordEvent ==
    ASSUME Inv, Len(stack) > 0, Current \in Contract, record_event
    PROVE  events' \in Seq(Event) /\ Len(events') <= MaxEvents
<1>1. events \in Seq(Event) /\ [by |-> Current, failed |-> FALSE] \in Event
  BY DEF Inv, TypeOK, Event
<1> QED
  BY <1>1, FramesAssumption DEF record_event

LEMMA ContractInv ==
    ASSUME Inv, \/ \E v \in Val : PutContractData(v)
                \/ ContractEvent
                \/ \E w \in Wasm : UpdateCurrentContractWasm(w)
    PROVE  Inv'
<1>1. Len(stack) > 0 /\ Current # NoContract
  BY DEF PutContractData, ContractEvent, UpdateCurrentContractWasm, InContract, Running
<1>2. Current \in Contract /\ ledger[Current] \in Instance /\ ledger \in Ledger
  BY <1>1, TopFacts DEF Current
<1>3. /\ events \in Seq(Event) /\ Len(events) <= MaxEvents
      /\ status \in {"run", "recoverable", "unrecoverable"} /\ started \in BOOLEAN
  BY DEF Inv, TypeOK
<1>4. ASSUME NEW v \in Val, PutContractData(v)
      PROVE  Inv'
  <2>1. [ledger[Current] EXCEPT !.data = v] \in Instance
    BY <1>2 DEF Instance
  <2>2. ledger' = [ledger EXCEPT ![Current] = [ledger[Current] EXCEPT !.data = v]]
        /\ UNCHANGED <<stack, events, status, hostfn, started>>
    BY <1>4 DEF PutContractData
  <2>3. ledger' \in Ledger /\ Keeps(ledger, ledger')
    BY <1>2, <2>1, <2>2, WriteKeeps
  <2> QED
    BY <1>1, <1>3, <2>2, <2>3, WriteInv
<1>5. CASE ContractEvent
  <2>1. events' \in Seq(Event) /\ Len(events') <= MaxEvents
    BY <1>1, <1>2, <1>5, RecordEvent DEF ContractEvent
  <2> QED
    BY <1>1, <1>3, <1>5, <2>1, QuietInv DEF ContractEvent
<1>6. ASSUME NEW w \in Wasm, UpdateCurrentContractWasm(w)
      PROVE  Inv'
  <2>1. [ledger[Current] EXCEPT !.exec = w] \in Instance
    BY <1>2 DEF Instance
  <2>2. ledger' = [ledger EXCEPT ![Current] = [ledger[Current] EXCEPT !.exec = w]]
        /\ record_event /\ UNCHANGED <<stack, status, hostfn, started>>
    BY <1>6 DEF UpdateCurrentContractWasm
  <2>3. ledger' \in Ledger /\ Keeps(ledger, ledger')
    BY <1>2, <2>1, <2>2, WriteKeeps
  <2>4. events' \in Seq(Event) /\ Len(events') <= MaxEvents
    BY <1>1, <1>2, <2>2, RecordEvent
  <2> QED
    BY <1>1, <1>3, <2>2, <2>3, <2>4, WriteInv
<1> QED
  BY <1>4, <1>5, <1>6

\* A contract that is created was not on the stack: every contract on the
\* stack exists.
LEMMA CreateInv ==
    ASSUME Inv, NEW c \in Contract,
           (\E w \in Wasm : CreateContract(c, w)) \/ CreateAssetContract(c)
    PROVE  Inv'
<1>1. Len(stack) > 0 /\ started' = TRUE
  BY DEF CreateContract, CreateAssetContract, InContract, InHostFn, Running
<1>2. /\ StackInv(stack, ledger) /\ ledger \in Ledger
      /\ events \in Seq(Event) /\ Len(events) <= MaxEvents
      /\ status \in {"run", "recoverable", "unrecoverable"}
  BY DEF Inv, TypeOK
<1>3. \A x \in Wasm \union {StellarAsset} : NewInstance(x) \in Instance
  BY FramesAssumption DEF NewInstance, Instance
<1>4. CASE Trap
  BY <1>1, <1>4, TrapInv
<1>5. ASSUME NEW w \in Wasm, CreateContract(c, w), ~ Trap
      PROVE  Inv'
  <2>1. ledger' = [ledger EXCEPT ![c] = NewInstance(w)]
        /\ UNCHANGED <<stack, events, status, hostfn>>
    BY <1>5 DEF CreateContract
  <2>2. ledger' \in Ledger /\ Keeps(ledger, ledger')
    BY <1>2, <1>3, <2>1, WriteKeeps
  <2> QED
    BY <1>1, <1>2, <2>1, <2>2, WriteInv
<1>6. ASSUME CreateAssetContract(c), ~ Trap
      PROVE  Inv'
  <2>1. /\ ledger[c] = NoInstance
        /\ ledger' = [ledger EXCEPT ![c] = NewInstance(StellarAsset)]
        /\ UNCHANGED <<events, hostfn>>
        /\ \/ stack' = Append(stack, NewFrame(c, "call", ledger')) /\ UNCHANGED status
           \/ status' = "recoverable" /\ UNCHANGED stack
    BY <1>6 DEF CreateAssetContract
  <2>2. ledger' \in Ledger /\ Keeps(ledger, ledger')
    BY <1>2, <1>3, <2>1, WriteKeeps
  <2>3. CASE UNCHANGED stack
    BY <1>1, <1>2, <2>1, <2>2, <2>3, WriteInv
  <2>4. CASE stack' = Append(stack, NewFrame(c, "call", ledger')) /\ UNCHANGED status
    <3> DEFINE f == NewFrame(c, "call", ledger')
    <3>1. ledger'[c] # NoInstance
      BY <1>2, <1>3, <2>1, FramesAssumption DEF Ledger
    <3>2. \A i \in 1 .. Len(stack) : stack[i].contract # c
      BY <1>2, <2>1, FramesAssumption DEF StackInv, Exists
    <3>3. f \in Frame /\ FrameOK(f) /\ f.contract = c /\ f.rp.ledger = ledger'
      BY <1>1, <2>2, <3>1, TopFacts, NewFrameOK
    <3>4. stack' = Append(stack, f)
      BY <2>4
    <3> HIDE DEF f
    <3>5. StackInv(stack, ledger')
      BY <1>2, <2>2, LedgerInv
    <3>6. StackInv(Append(stack, f), ledger')
      BY <1>1, <2>2, <3>1, <3>2, <3>3, <3>5, PushInv
    <3>7. Len(stack') > 0
      BY <1>1, <3>3, <3>4, TopFacts
    <3> QED
      BY <1>1, <1>2, <2>1, <2>2, <2>4, <3>4, <3>6, <3>7, StepInv
  <2> QED
    BY <2>1, <2>3, <2>4
<1> QED
  BY <1>4, <1>5, <1>6

LEMMA FailInv == ASSUME Inv, Fail PROVE Inv'
<1>1. Len(stack) > 0
  BY DEF Fail, Running
<1> QED
  BY <1>1, QuietInv DEF Fail, Inv, TypeOK

\* The instance is flushed to a ledger that still has the contract.
LEMMA ReturnInv == ASSUME Inv, Return PROVE Inv'
<1>1. /\ Len(stack) > 0 /\ status = "run" /\ persist_instance_storage(Top)
      /\ stack' = SubSeq(stack, 1, Len(stack) - 1)
      /\ UNCHANGED <<events, status, hostfn, started>>
  BY DEF Return, Running
<1>2. StackInv(stack, ledger) /\ ledger \in Ledger
  BY DEF Inv, TypeOK
<1>3. ledger' \in Ledger /\ Keeps(ledger, ledger')
  <2>1. CASE Top.modified
    <3>1. /\ Top.contract \in Contract /\ ledger[Top.contract] \in Instance
          /\ Top.cache \in Val
      <4>1. Top \in Frame /\ FrameOK(Top)
            /\ Top.contract \in Contract \union {NoContract}
            /\ (Current # NoContract => ledger[Current] \in Instance)
        BY <1>1, TopFacts
      <4> QED
        BY <2>1, <4>1 DEF FrameOK, Frame, Current
    <3> DEFINE r == [ledger[Top.contract] EXCEPT !.store = Top.cache]
    <3>2. r \in Instance
      BY <3>1 DEF Instance
    <3>3. ledger' = [ledger EXCEPT ![Top.contract] = r]
      BY <1>1, <2>1 DEF persist_instance_storage
    <3> HIDE DEF r
    <3> QED
      BY <1>2, <3>1, <3>2, <3>3, WriteKeeps
  <2>2. CASE ~ Top.modified
    BY <1>1, <1>2, <2>2 DEF persist_instance_storage, Keeps
  <2> QED
    BY <2>1, <2>2
<1>4. StackInv(stack', ledger')
  BY <1>1, <1>2, <1>3, PopInv
<1>5. FailedInvocationLeavesNoTrace'
  BY <1>1 DEF FailedInvocationLeavesNoTrace
<1> QED
  BY <1>1, <1>3, <1>4, <1>5 DEF Inv, TypeOK, StackInv

\* The last frame to be unwound restores the ledger before the transaction
\* and marks every event.
LEMMA UnwindInv == ASSUME Inv, Unwind PROVE Inv'
<1>1. /\ Len(stack) > 0 /\ ledger' = Top.rp.ledger
      /\ rollback_events(Top.rp.events)
      /\ stack' = SubSeq(stack, 1, Len(stack) - 1)
      /\ UNCHANGED <<hostfn, started>>
      /\ status' \in {"run", status}
  BY DEF Unwind
<1>2. /\ StackInv(stack, ledger) /\ ledger \in Ledger /\ ledger' \in Ledger
      /\ Top.rp.events \in 0 .. MaxEvents /\ Len(stack) \in Nat
  BY <1>1, TopFacts DEF Inv
<1>3. StackInv(stack', ledger') /\ Len(stack') = Len(stack) - 1
  <2>1. ledger' = stack[Len(stack)].rp.ledger
    BY <1>1 DEF Top
  <2> QED
    BY <1>1, <1>2, <2>1, PopInv
<1>4. events \in Seq(Event) /\ Len(events) <= MaxEvents
  BY DEF Inv, TypeOK
<1>5. /\ events' \in Seq(Event) /\ Len(events') = Len(events)
      /\ \A i \in 1 .. Len(events) : i > Top.rp.events => events'[i].failed
  <2>1. \A i \in 1 .. Len(events) : events[i] \in Event
    BY <1>4
  <2>2. \A e \in Event : /\ [e EXCEPT !.failed = TRUE] \in Event
                         /\ [e EXCEPT !.failed = TRUE].failed
    BY DEF Event
  <2> QED
    BY <1>1, <1>4, <2>1, <2>2 DEF rollback_events
<1>6. FailedInvocationLeavesNoTrace'
  <2>1. CASE Len(stack') = 0
    <3>1. Len(stack) = 1
      BY <1>2, <1>3, <2>1
    <3>2. Top.rp.ledger = Ledger0 /\ Top.rp.events = 0
      BY <1>2, <3>1 DEF StackInv, Top
    <3> QED
      BY <1>1, <1>4, <1>5, <3>2 DEF FailedInvocationLeavesNoTrace
  <2>2. CASE Len(stack') # 0
    BY <2>2 DEF FailedInvocationLeavesNoTrace
  <2> QED
    BY <2>1, <2>2
<1> QED
  BY <1>1, <1>2, <1>3, <1>4, <1>5, <1>6 DEF Inv, TypeOK, StackInv

LEMMA NextInv == ASSUME Inv, [Next]_vars PROVE Inv'
<1>1. CASE UNCHANGED vars
  BY <1>1 DEF vars, Inv, TypeOK, FailedInvocationLeavesNoTrace
<1>2. CASE Next
  BY <1>2, CallInv, InstanceDataInv, ContractInv, CreateInv, ReturnInv, FailInv,
     UnwindInv DEF Next
<1> QED
  BY <1>1, <1>2

-----------------------------------------------------------------------------
\* The inductive invariant: stack, ledger and event buffer stay consistent
\* over every call, return and rollback (with_frame, push_context,
\* pop_context).
THEOREM Invariance == Spec => []Inv
BY InitInv, NextInv, PTL DEF Spec

\* The context stack, storage and events keep their types; in particular no
\* frame runs, or flushes its instance storage, for a contract that does not
\* exist.
THEOREM TypeCorrect == Spec => []TypeOK
<1>1. Inv => TypeOK
  BY DEF Inv
<1> QED
  BY <1>1, Invariance, PTL

\* An invocation that fails, at whatever depth and after whatever try_call
\* recovered from, leaves the ledger as it was and externalizes no event.
THEOREM FailureIsAtomic == Spec => []FailedInvocationLeavesNoTrace
<1>1. Inv => FailedInvocationLeavesNoTrace
  BY DEF Inv
<1> QED
  BY <1>1, Invariance, PTL

\* Re-entry is only ever __check_auth directly on its own account's frame,
\* although creating an asset contract enters it without the re-entry check.
THEOREM ReentryIsRestricted == Spec => []ReentryOnlyByCheckAuth
<1>1. Inv => ReentryOnlyByCheckAuth
  BY DEF Inv, StackInv, Reentry, ReentryOnlyByCheckAuth
<1> QED
  BY <1>1, Invariance, PTL

-----------------------------------------------------------------------------
(***************************************************************************)
(* Flushes.  Unless contracts ask for their own authorization, a contract  *)
(* has one frame at most, and the version of its instance storage that the *)
(* frame loaded stays the one in the ledger and in every rollback point    *)
(* above the frame: nobody but the frame itself replaces it, and a         *)
(* rollback goes back to a ledger that has the same one.                   *)
(***************************************************************************)
FreshAt(f, l) ==
    f.contract # NoContract => l[f.contract].store = f.instance.store

Fresh(s, l) ==
    /\ \A i, j \in 1 .. Len(s) : i # j => s[i].contract # s[j].contract
    /\ \A i \in 1 .. Len(s) : FreshAt(s[i], l)
    /\ \A i, j \in 1 .. Len(s) : i < j => FreshAt(s[i], s[j].rp.ledger)

\* The ledger changes, but no instance storage that a frame has loaded.
LEMMA FreshLedger ==
    ASSUME NEW s, NEW l, NEW m, Fresh(s, l),
           \A i \in 1 .. Len(s) : s[i].contract # NoContract =>
               m[s[i].contract].store = l[s[i].contract].store
    PROVE  Fresh(s, m)
  BY DEF Fresh, FreshAt

\* A frame of a contract that has none is pushed.
LEMMA FreshPush ==
    ASSUME NEW s \in Seq(Frame), NEW l \in Ledger, Fresh(s, l), NEW f \in Frame,
           \A i \in 1 .. Len(s) : s[i].contract # f.contract,
           f.rp.ledger = l, f.instance = l[f.contract]
    PROVE  Fresh(Append(s, f), l)
<1> DEFINE t == Append(s, f)
           n == Len(s)
<1>1. /\ n \in Nat /\ Len(t) = n + 1 /\ t[n + 1] = f
      /\ \A i \in 1 .. n : t[i] = s[i]
  OBVIOUS
<1>2. \A i \in 1 .. n + 1 : i \in 1 .. n \/ i = n + 1
  BY <1>1
<1> HIDE DEF t, n
<1>3. \A i, j \in 1 .. n + 1 : i # j => t[i].contract # t[j].contract
  BY <1>1, <1>2 DEF Fresh, n
<1>4. \A i \in 1 .. n + 1 : FreshAt(t[i], l)
  BY <1>1, <1>2 DEF Fresh, FreshAt, n
<1>5. \A i, j \in 1 .. n + 1 : i < j => FreshAt(t[i], t[j].rp.ledger)
  <2> SUFFICES ASSUME NEW i \in 1 .. n + 1, NEW j \in 1 .. n + 1, i < j
               PROVE  FreshAt(t[i], t[j].rp.ledger)
    OBVIOUS
  <2>1. i \in 1 .. n
    BY <1>1
  <2>2. CASE j = n + 1
    BY <2>2, <1>1, <1>4
  <2>3. CASE j \in 1 .. n
    BY <2>1, <2>3, <1>1 DEF Fresh, n
  <2> QED
    BY <1>2, <2>2, <2>3
<1> QED
  BY <1>1, <1>3, <1>4, <1>5 DEF Fresh, t

\* The top frame is removed.
LEMMA FreshPop ==
    ASSUME NEW s \in Seq(Frame), NEW l, Fresh(s, l), Len(s) > 0,
           NEW m, \A i \in 1 .. Len(s) - 1 : FreshAt(s[i], m)
    PROVE  Fresh(SubSeq(s, 1, Len(s) - 1), m)
<1> DEFINE n == Len(s)
           t == SubSeq(s, 1, n - 1)
<1>1. n \in Nat /\ n > 0
  OBVIOUS
<1>2. Len(t) = n - 1 /\ \A i \in 1 .. n - 1 : t[i] = s[i]
  <2>1. CASE n = 1
    BY <2>1
  <2>2. CASE n > 1
    BY <2>2
  <2> HIDE DEF t, n
  <2>3. n = 1 \/ n > 1
    BY <1>1
  <2> QED
    BY <2>1, <2>2, <2>3
<1>3. \A i \in 1 .. n - 1 : i \in 1 .. n
  BY <1>1
<1> HIDE DEF t, n
<1>4. \A i, j \in 1 .. n - 1 : i # j => t[i].contract # t[j].contract
  BY <1>2, <1>3 DEF Fresh, n
<1>5. \A i \in 1 .. n - 1 : FreshAt(t[i], m)
  BY <1>2, Zenon DEF n
<1>6. \A i, j \in 1 .. n - 1 : i < j => FreshAt(t[i], t[j].rp.ledger)
  BY <1>2, <1>3 DEF Fresh, n
<1> QED
  BY <1>2, <1>4, <1>5, <1>6 DEF Fresh, t, n

\* The top frame's instance storage changes, but not what it was loaded from.
LEMMA FreshSetTop ==
    ASSUME NEW s \in Seq(Frame), NEW l, Fresh(s, l), Len(s) > 0, NEW f \in Frame,
           f.contract = s[Len(s)].contract, f.instance = s[Len(s)].instance,
           f.rp = s[Len(s)].rp
    PROVE  Fresh([s EXCEPT ![Len(s)] = f], l)
<1> DEFINE n == Len(s)
           t == [s EXCEPT ![n] = f]
<1>1. n \in Nat /\ n \in 1 .. n /\ Len(t) = n
  OBVIOUS
<1>2. \A i \in 1 .. n : t[i] = s[i] \/ (i = n /\ t[i] = f)
  BY <1>1
<1> HIDE DEF t
<1>3. \A i \in 1 .. n : /\ t[i].contract = s[i].contract
                        /\ t[i].instance = s[i].instance /\ t[i].rp = s[i].rp
  BY <1>2
<1> HIDE DEF n
<1>4. \A i, j \in 1 .. n : i # j => t[i].contract # t[j].contract
  BY <1>3 DEF Fresh, n
<1>5. ASSUME NEW i \in 1 .. n PROVE FreshAt(t[i], l)
  <2>1. FreshAt(s[i], l)
    BY Zenon DEF Fresh, n
  <2>2. t[i].contract = s[i].contract /\ t[i].instance = s[i].instance
    BY <1>3
  <2> QED
    BY <2>1, <2>2 DEF FreshAt
<1>6. \A i, j \in 1 .. n : i < j => FreshAt(t[i], t[j].rp.ledger)
  <2> SUFFICES ASSUME NEW i \in 1 .. n, NEW j \in 1 .. n, i < j
               PROVE  FreshAt(t[i], t[j].rp.ledger)
    OBVIOUS
  <2>1. FreshAt(s[i], s[j].rp.ledger)
    BY Zenon DEF Fresh, n
  <2>2. t[i].contract = s[i].contract /\ t[i].instance = s[i].instance /\ t[j].rp = s[j].rp
    BY <1>3
  <2> QED
    BY <2>1, <2>2 DEF FreshAt
<1>7. Fresh(t, l)
  BY <1>1, <1>4, <1>5, <1>6 DEF Fresh
<1> QED
  BY <1>7 DEF t, n

\* call, try_call and __check_auth of another contract.
LEMMA EnterFresh ==
    ASSUME Inv, Fresh(stack, ledger), Len(stack) > 0, NEW c \in Contract,
           NEW entry \in {"call", "try", "auth"},
           CanEnter(c, entry), Enter(c, entry), entry = "auth" => c # Current
    PROVE  Fresh(stack', ledger')
<1> DEFINE f == NewFrame(c, entry, ledger)
<1>1. stack' = Append(stack, f) /\ ledger' = ledger /\ ledger[c] # NoInstance
  BY DEF Enter, CanEnter
<1>2. \A i \in 1 .. Len(stack) : stack[i].contract # c
  BY DEF CanEnter, ReentryAllowed, OnStack
<1>3. f \in Frame /\ f.contract = c /\ f.rp.ledger = ledger
  BY <1>1, TopFacts, NewFrameOK
<1>4. f.instance = ledger[c]
  BY FramesAssumption DEF NewFrame
<1> HIDE DEF f
<1> QED
  BY <1>1, <1>2, <1>3, <1>4, TopFacts, FreshPush

LEMMA InstanceDataFresh ==
    ASSUME Inv, Fresh(stack, ledger),
           GetInstanceData \/ \E v \in Val : PutInstanceData(v)
    PROVE  Fresh(stack', ledger')
<1>1. Len(stack) > 0 /\ Current # NoContract /\ ledger' = ledger
  BY DEF GetInstanceData, PutInstanceData, InContract, Running
<1>2. Top \in Frame /\ FrameOK(Top) /\ Top.contract # NoContract
  BY <1>1, TopFacts DEF Current
<1>3. ASSUME NEW v \in Val, NEW f,
             f = [Top EXCEPT !.cache = v] \/ f = [Top EXCEPT !.cache = v, !.modified = TRUE],
             SetTop(f)
      PROVE  Fresh(stack', ledger')
  <2>1. /\ f \in Frame /\ f.contract = Top.contract
        /\ f.instance = Top.instance /\ f.rp = Top.rp
    BY <1>2, <1>3 DEF Frame
  <2>2. stack' = [stack EXCEPT ![Len(stack)] = f] /\ stack \in Seq(Frame)
    BY <1>1, <1>3, TopFacts DEF SetTop
  <2> QED
    BY <1>1, <2>1, <2>2, FreshSetTop DEF Top
<1>4. CachedStore(Top) \in Val
  <2>1. Top.instance \in Instance
    BY <1>2 DEF Frame, FrameOK
  <2> QED
    BY <1>2, <2>1 DEF CachedStore, Frame, Instance
<1> QED
  BY <1>3, <1>4 DEF GetInstanceData, PutInstanceData

\* A contract that is created has no frame.
LEMMA CreateFresh ==
    ASSUME Inv, Fresh(stack, ledger), NEW c \in Contract,
           (\E w \in Wasm : CreateContract(c, w)) \/ CreateAssetContract(c)
    PROVE  Fresh(stack', ledger')
<1>1. Len(stack) > 0
  BY DEF CreateContract, CreateAssetContract, InContract, InHostFn, Running
<1>2. CASE Trap
  BY <1>2 DEF Trap
<1>3. CASE ~ Trap
  <2>1. PICK x \in Wasm \union {StellarAsset} :
           /\ ledger[c] = NoInstance
           /\ ledger' = [ledger EXCEPT ![c] = NewInstance(x)]
           /\ stack' = stack \/ stack' = Append(stack, NewFrame(c, "call", ledger'))
    BY <1>3 DEF CreateContract, CreateAssetContract
  <2>2. StackInv(stack, ledger) /\ ledger \in Ledger /\ stack \in Seq(Frame)
    BY DEF Inv, TypeOK
  <2>3. NewInstance(x) \in Instance
    BY FramesAssumption DEF NewInstance, Instance
  <2>4. ledger' \in Ledger /\ ledger'[c] \in Instance
    BY <2>1, <2>2, <2>3 DEF Ledger
  <2>5. \A i \in 1 .. Len(stack) : stack[i].contract # c
    BY <2>1, <2>2, FramesAssumption DEF StackInv, Exists
  <2>6. Fresh(stack, ledger')
    <3>1. \A i \in 1 .. Len(stack) : ledger'[stack[i].contract] = ledger[stack[i].contract]
                                     \/ stack[i].contract = NoContract
      <4>1. \A i \in 1 .. Len(stack) : stack[i].contract \in Contract \union {NoContract}
        <5>1. \A i \in 1 .. Len(stack) : stack[i] \in Frame
          BY <2>2
        <5> QED
          BY <5>1 DEF Frame
      <4> QED
        BY <4>1, <2>1, <2>2, <2>5 DEF Ledger
    <3> QED
      BY <3>1, FreshLedger
  <2>7. CASE stack' = Append(stack, NewFrame(c, "call", ledger'))
    <3> DEFINE f == NewFrame(c, "call", ledger')
    <3>1. ledger'[c] # NoInstance /\ Len(events) \in 0 .. MaxEvents
      BY <1>1, <2>4, TopFacts, FramesAssumption
    <3>2. f \in Frame /\ f.contract = c /\ f.rp.ledger = ledger'
      BY <2>4, <3>1, NewFrameOK
    <3>3. f.instance = ledger'[c]
      BY FramesAssumption DEF NewFrame
    <3>4. stack' = Append(stack, f)
      BY <2>7
    <3> HIDE DEF f
    <3> QED
      BY <2>2, <2>4, <2>5, <2>6, <3>2, <3>3, <3>4, FreshPush
  <2> QED
    BY <2>1, <2>6, <2>7
<1> QED
  BY <1>2, <1>3

\* Writes that keep the instance storage of the contract that runs.
LEMMA ContractFresh ==
    ASSUME Inv, Fresh(stack, ledger),
           \/ \E v \in Val : PutContractData(v)
           \/ ContractEvent
           \/ \E w \in Wasm : UpdateCurrentContractWasm(w)
    PROVE  Fresh(stack', ledger')
<1>1. Len(stack) > 0 /\ Current # NoContract /\ stack' = stack
  BY DEF PutContractData, ContractEvent, UpdateCurrentContractWasm, InContract, Running
<1>2. Current \in Contract /\ ledger[Current] \in Instance /\ ledger \in Ledger
  BY <1>1, TopFacts DEF Current
<1>3. \A v : /\ [ledger[Current] EXCEPT !.data = v].store = ledger[Current].store
             /\ [ledger[Current] EXCEPT !.exec = v].store = ledger[Current].store
  BY <1>2 DEF Instance
<1>4. \A i \in 1 .. Len(stack) : stack[i].contract \in Contract \union {NoContract}
  <2>1. \A i \in 1 .. Len(stack) : stack[i] \in Frame
    BY DEF Inv, TypeOK
  <2> QED
    BY <2>1 DEF Frame
<1>5. \A c \in Contract : ledger'[c].store = ledger[c].store
  <2>1. \/ ledger' = ledger
        \/ \E v : ledger' = [ledger EXCEPT ![Current] = [ledger[Current] EXCEPT !.data = v]]
        \/ \E v : ledger' = [ledger EXCEPT ![Current] = [ledger[Current] EXCEPT !.exec = v]]
    BY DEF PutContractData, ContractEvent, UpdateCurrentContractWasm
  <2>2. \A r : r.store = ledger[Current].store
              => \A c \in Contract : [ledger EXCEPT ![Current] = r][c].store = ledger[c].store
    BY <1>2 DEF Ledger
  <2>3. CASE ledger' = ledger
    BY <2>3
  <2>4. CASE \E v : ledger' = [ledger EXCEPT ![Current] = [ledger[Current] EXCEPT !.data = v]]
    BY <1>3, <2>2, <2>4
  <2>5. CASE \E v : ledger' = [ledger EXCEPT ![Current] = [ledger[Current] EXCEPT !.exec = v]]
    BY <1>3, <2>2, <2>5
  <2> QED
    BY <2>1, <2>3, <2>4, <2>5
<1> QED
  BY <1>1, <1>4, <1>5, FreshLedger

\* A frame that ends flushes its own contract's instance storage; no other
\* frame has that contract.
LEMMA ReturnFresh ==
    ASSUME Inv, Fresh(stack, ledger), Return
    PROVE  Fresh(stack', ledger')
<1>1. /\ Len(stack) > 0 /\ persist_instance_storage(Top)
      /\ stack' = SubSeq(stack, 1, Len(stack) - 1)
  BY DEF Return, Running
<1>2. /\ stack \in Seq(Frame) /\ Len(stack) \in Nat /\ ledger \in Ledger
      /\ Top.contract \in Contract \union {NoContract}
      /\ Top.modified => Top.contract # NoContract
  BY <1>1, TopFacts DEF FrameOK
<1>3. ASSUME NEW i \in 1 .. Len(stack) - 1
      PROVE  FreshAt(stack[i], ledger')
  <2>1. i \in 1 .. Len(stack) /\ Len(stack) \in 1 .. Len(stack) /\ i # Len(stack)
    BY <1>1, <1>2
  <2>2. stack[i].contract # Top.contract /\ FreshAt(stack[i], ledger)
    BY <2>1 DEF Fresh, Top
  <2>3. stack[i].contract \in Contract \union {NoContract}
    <3>1. stack[i] \in Frame
      BY <1>2, <2>1
    <3> QED
      BY <3>1 DEF Frame
  <2>4. stack[i].contract \in Contract =>
           ledger'[stack[i].contract] = ledger[stack[i].contract]
    BY <1>1, <1>2, <2>2 DEF persist_instance_storage, Ledger
  <2> QED
    BY <2>2, <2>3, <2>4 DEF FreshAt
<1> QED
  BY <1>1, <1>2, <1>3, FreshPop

LEMMA UnwindFresh ==
    ASSUME Inv, Fresh(stack, ledger), Unwind
    PROVE  Fresh(stack', ledger')
<1>1. /\ Len(stack) > 0 /\ ledger' = stack[Len(stack)].rp.ledger
      /\ stack' = SubSeq(stack, 1, Len(stack) - 1)
  BY DEF Unwind, Top
<1>2. stack \in Seq(Frame) /\ Len(stack) \in Nat
  BY <1>1, TopFacts
<1>3. \A i \in 1 .. Len(stack) - 1 :
         i \in 1 .. Len(stack) /\ Len(stack) \in 1 .. Len(stack) /\ i < Len(stack)
  BY <1>1, <1>2
<1>4. \A i \in 1 .. Len(stack) - 1 : FreshAt(stack[i], ledger')
  BY <1>1, <1>3 DEF Fresh
<1> QED
  BY <1>1, <1>2, <1>4, FreshPop

LEMMA NextFresh ==
    ASSUME ~ SelfAuth, Inv, Fresh(stack, ledger), [Next]_vars
    PROVE  Fresh(stack', ledger')
<1>1. ASSUME NEW c \in Contract,
             Call(c) \/ TryCall(c) \/ TryCallRefused(c) \/ CheckAuth(c)
      PROVE  Fresh(stack', ledger')
  <2>1. Len(stack) > 0
    BY <1>1 DEF Call, TryCall, TryCallRefused, CheckAuth, InContract, InHostFn, Running
  <2>2. CASE Trap \/ UNCHANGED vars
    BY <2>2 DEF Trap, vars
  <2> QED
    BY <1>1, <2>1, <2>2, EnterFresh DEF Call, TryCall, TryCallRefused, CheckAuth
<1>2. CASE Fail \/ UNCHANGED vars
  BY <1>2 DEF Fail, vars
<1> QED
  BY <1>1, <1>2, InstanceDataFresh, ContractFresh, CreateFresh, ReturnFresh,
     UnwindFresh DEF Next

LEMMA InitFresh ==
    ASSUME Init
    PROVE  Fresh(stack, ledger)
<1> DEFINE f == NewFrame(NoContract, "host", Ledger0)
<1>1. f.contract = NoContract /\ stack = <<f>>
  BY DEF Init, NewFrame
<1> HIDE DEF f
<1> QED
  BY <1>1 DEF Fresh, FreshAt

\* Unless contracts ask for their own authorization (require_auth of the
\* current contract, which runs its __check_auth on top of it), a frame that
\* flushes its instance storage replaces the version it loaded: no callee,
\* rollback, code update or creation in between loses an update.
THEOREM FlushesLoseNoUpdate ==
    ASSUME ~ SelfAuth
    PROVE  Spec => []FlushReplacesWhatWasRead
<1>1. Init => Fresh(stack, ledger)
  BY InitFresh
<1>2. Inv /\ Fresh(stack, ledger) /\ [Next]_vars => Fresh(stack, ledger)'
  BY NextFresh
<1>3. Inv /\ Fresh(stack, ledger) => FlushReplacesWhatWasRead
  <2> SUFFICES ASSUME Inv, Fresh(stack, ledger), Len(stack) > 0, Top.modified
               PROVE  ledger[Current].store = Top.instance.store
    BY DEF FlushReplacesWhatWasRead
  <2>1. FrameOK(Top) /\ Len(stack) \in 1 .. Len(stack)
    BY TopFacts
  <2> QED
    BY <2>1 DEF Fresh, FreshAt, FrameOK, Top, Current
<1> QED
  BY <1>1, <1>2, <1>3, Invariance, PTL DEF Spec

-----------------------------------------------------------------------------
(***************************************************************************)
(* Refinement.  The views of the frames as functions of the stack s, the   *)
(* ledger l and the events ev.                                             *)
(***************************************************************************)
LedgerOf(s, l, i) == IF i = Len(s) THEN l ELSE s[i + 1].rp.ledger

PositionOf(s, ev, i) == IF i = Len(s) THEN Len(ev) ELSE s[i + 1].rp.events

Dirty(s, i, c) == {j \in 1 .. i : s[j].contract = c /\ s[j].modified}

Newest(D) == CHOOSE j \in D : \A k \in D : k <= j

Flushed(s, D, r) == IF D = {} THEN r ELSE [r EXCEPT !.store = s[Newest(D)].cache]

StateOf(s, i, m) == [c \in Contract |-> Flushed(s, Dirty(s, i, c), m[c])]

LogOf(ev, n) == [p \in {q \in 1 .. n : ~ ev[q].failed} |-> ev[p]]

ViewOf(s, l, ev, i) ==
    [state |-> StateOf(s, i, LedgerOf(s, l, i)), log |-> LogOf(ev, PositionOf(s, ev, i))]

ViewsOf(s, l, ev) == [i \in 1 .. Len(s) + 1 |-> ViewOf(s, l, ev, i - 1)]

LEMMA ViewsAre ==
    /\ Views = ViewsOf(stack, ledger, events)
    /\ Views' = ViewsOf(stack', ledger', events')
  BY DEF Views, ViewsOf, ViewOf, StateAt, StateOf, LogAt, LogOf, LedgerAt, LedgerOf,
         EventsAt, PositionOf, Unflushed, Dirty, Flushed, Newest

LEMMA ViewsLen ==
    ASSUME NEW s, NEW l, NEW ev, Len(s) \in Nat
    PROVE  /\ Len(ViewsOf(s, l, ev)) = Len(s) + 1
           /\ \A i \in 1 .. Len(s) + 1 : ViewsOf(s, l, ev)[i] = ViewOf(s, l, ev, i - 1)
<1> DEFINE n == Len(s)
<1>1. n \in Nat
  OBVIOUS
<1>2. ViewsOf(s, l, ev) = [i \in 1 .. n + 1 |-> ViewOf(s, l, ev, i - 1)]
  BY DEF ViewsOf
<1> HIDE DEF n
<1>3. Len(ViewsOf(s, l, ev)) = n + 1
  BY <1>1, <1>2
<1> QED
  BY <1>2, <1>3 DEF n

\* No two frames up to i are of the same contract, so at most one is to be
\* flushed to it.
Single(s, i) == \A j, k \in 1 .. i : j # k => s[j].contract # s[k].contract

LEMMA DirtyOne ==
    ASSUME NEW s, NEW i \in Nat, Single(s, i), NEW c, NEW j \in Dirty(s, i, c), NEW r
    PROVE  /\ Dirty(s, i, c) = {j} /\ j \in 1 .. i
           /\ Flushed(s, Dirty(s, i, c), r) = [r EXCEPT !.store = s[j].cache]
<1>1. j \in 1 .. i
  BY DEF Dirty
<1>2. \A k \in Dirty(s, i, c) : k = j
  BY DEF Dirty, Single
<1>3. Dirty(s, i, c) = {j}
  BY <1>2
<1>4. Newest({j}) = j
  BY <1>1 DEF Newest
<1> QED
  BY <1>1, <1>3, <1>4 DEF Flushed

\* A view depends on the frames up to its own.
SameFrames(s, t, i) == \A j \in 1 .. i : t[j] = s[j]

LEMMA SameState ==
    ASSUME NEW s, NEW t, NEW i \in Nat, NEW m, Single(s, i), SameFrames(s, t, i)
    PROVE  StateOf(t, i, m) = StateOf(s, i, m)
<1> USE DEF SameFrames
<1>1. ASSUME NEW c PROVE Dirty(t, i, c) = Dirty(s, i, c)
  BY DEF Dirty
<1>2. Single(t, i)
  BY DEF Single
<1>3. ASSUME NEW c, NEW r PROVE Flushed(t, Dirty(t, i, c), r) = Flushed(s, Dirty(s, i, c), r)
  <2>1. CASE Dirty(s, i, c) = {}
    BY <1>1, <2>1 DEF Flushed
  <2>2. CASE Dirty(s, i, c) # {}
    <3>1. PICK j \in Dirty(s, i, c) : TRUE
      BY <2>2
    <3>2. j \in 1 .. i /\ Flushed(s, Dirty(s, i, c), r) = [r EXCEPT !.store = s[j].cache]
      BY <3>1, DirtyOne
    <3>3. Flushed(t, Dirty(t, i, c), r) = [r EXCEPT !.store = t[j].cache]
      BY <1>1, <1>2, <3>1, DirtyOne
    <3> QED
      BY <3>2, <3>3
  <2> QED
    BY <2>1, <2>2
<1> QED
  BY <1>3 DEF StateOf

LEMMA SameLog ==
    ASSUME NEW ev, NEW ew, NEW n \in Nat, \A p \in 1 .. n : ew[p] = ev[p]
    PROVE  LogOf(ew, n) = LogOf(ev, n)
<1>1. {q \in 1 .. n : ~ ew[q].failed} = {q \in 1 .. n : ~ ev[q].failed}
  OBVIOUS
<1> QED
  BY <1>1 DEF LogOf

LEMMA StateType ==
    ASSUME NEW s \in Seq(Frame), NEW i \in 0 .. Len(s), NEW m \in Ledger, Single(s, i),
           \A j \in 1 .. i : FrameOK(s[j]) /\ Exists(m, s[j].contract)
    PROVE  StateOf(s, i, m) \in [Contract -> Instance \union {NoInstance}]
<1> SUFFICES ASSUME NEW c \in Contract
             PROVE  Flushed(s, Dirty(s, i, c), m[c]) \in Instance \union {NoInstance}
  BY DEF StateOf
<1>1. CASE Dirty(s, i, c) = {}
  BY <1>1 DEF Flushed, Ledger
<1>2. CASE Dirty(s, i, c) # {}
  <2>1. PICK j \in Dirty(s, i, c) : TRUE
    BY <1>2
  <2>2. Len(s) \in Nat /\ i \in Nat
    OBVIOUS
  <2>3. \A r : j \in 1 .. i /\ Flushed(s, Dirty(s, i, c), r) = [r EXCEPT !.store = s[j].cache]
    BY <2>1, <2>2, DirtyOne
  <2>4. s[j] \in Frame /\ s[j].contract = c /\ s[j].modified
    <3>1. j \in 1 .. Len(s)
      BY <2>2, <2>3
    <3> QED
      BY <2>1, <3>1 DEF Dirty
  <2>5. s[j].cache \in Val
    BY <2>3, <2>4 DEF Frame, FrameOK
  <2>6. m[c] \in Instance
    BY <2>3, <2>4, FramesAssumption DEF Exists, Ledger
  <2>7. \A r \in Instance, v \in Val : [r EXCEPT !.store = v] \in Instance
    BY DEF Instance
  <2> QED
    BY <2>3, <2>5, <2>6, <2>7
<1> QED
  BY <1>1, <1>2

\* The rollback points are at increasing positions of the event buffer.
Positions(s, n) ==
    /\ \A i \in 1 .. Len(s) : s[i].rp.events \in 0 .. n
    /\ \A i, j \in 1 .. Len(s) : i < j => s[i].rp.events <= s[j].rp.events

\* What the views are made of is in order.
Viewable(s, l, ev) ==
    /\ s \in Seq(Frame) /\ l \in Ledger /\ ev \in Seq(Event)
    /\ Positions(s, Len(ev)) /\ Single(s, Len(s))
    /\ \A i \in 1 .. Len(s) : FrameOK(s[i]) /\ Exists(l, s[i].contract)

\* Two stacks have the same frames below frame n.
Agree(s, ev, t, ew, n) ==
    /\ n \in 0 .. Len(s) /\ n <= Len(t) /\ Len(t) \in Nat
    /\ \A i \in 1 .. n - 1 : t[i] = s[i]
    /\ n > 0 => t[n].rp = s[n].rp
    /\ \A i \in 1 .. n : \A p \in 1 .. s[i].rp.events : ew[p] = ev[p]

LEMMA OuterViews ==
    ASSUME NEW s, NEW l, NEW ev, Viewable(s, l, ev),
           NEW t, NEW m, NEW ew, NEW n, Agree(s, ev, t, ew, n)
    PROVE  \A i \in 1 .. n : ViewsOf(t, m, ew)[i] = ViewsOf(s, l, ev)[i]
<1> SUFFICES ASSUME NEW i \in 1 .. n
             PROVE  ViewsOf(t, m, ew)[i] = ViewsOf(s, l, ev)[i]
  OBVIOUS
<1> USE DEF Agree, Viewable
<1>1. /\ Len(s) \in Nat /\ n \in Nat /\ i \in 1 .. Len(s) /\ i \in 1 .. Len(t)
      /\ i \in 1 .. Len(s) + 1 /\ i \in 1 .. Len(t) + 1 /\ i - 1 \in Nat
      /\ i - 1 # Len(s) /\ i - 1 # Len(t) /\ (i - 1) + 1 = i
  OBVIOUS
<1>2. t[i].rp = s[i].rp
  <2>1. i \in 1 .. n - 1 \/ i = n
    BY <1>1
  <2> QED
    BY <2>1
<1>3. LedgerOf(t, m, i - 1) = LedgerOf(s, l, i - 1)
  BY <1>1, <1>2 DEF LedgerOf
<1>4. PositionOf(t, ew, i - 1) = s[i].rp.events /\ PositionOf(s, ev, i - 1) = s[i].rp.events
  BY <1>1, <1>2 DEF PositionOf
<1>5. \A x : StateOf(t, i - 1, x) = StateOf(s, i - 1, x)
  <2>1. Single(s, i - 1)
    <3>1. \A j \in 1 .. i - 1 : j \in 1 .. Len(s)
      BY <1>1
    <3>2. Single(s, Len(s))
      OBVIOUS
    <3> QED
      BY <3>1, <3>2, Zenon DEF Single
  <2>2. SameFrames(s, t, i - 1)
    BY <1>1 DEF SameFrames
  <2> QED
    BY <1>1, <2>1, <2>2, SameState
<1>6. LogOf(ew, s[i].rp.events) = LogOf(ev, s[i].rp.events)
  <2>1. s[i].rp.events \in Nat
    BY <1>1 DEF Positions
  <2> QED
    BY <2>1, SameLog
<1>7. ViewOf(t, m, ew, i - 1) = ViewOf(s, l, ev, i - 1)
  BY <1>3, <1>4, <1>5, <1>6 DEF ViewOf
<1> QED
  BY <1>1, <1>7, ViewsLen

LEMMA TopView ==
    ASSUME NEW s, NEW l, NEW ev, Len(s) \in Nat
    PROVE  ViewsOf(s, l, ev)[Len(s) + 1] =
              [state |-> StateOf(s, Len(s), l), log |-> LogOf(ev, Len(ev))]
<1>1. Len(s) + 1 \in 1 .. Len(s) + 1 /\ (Len(s) + 1) - 1 = Len(s)
  OBVIOUS
<1>2. ViewsOf(s, l, ev)[Len(s) + 1] = ViewOf(s, l, ev, Len(s))
  BY <1>1, ViewsLen
<1> QED
  BY <1>2 DEF ViewOf, LedgerOf, PositionOf

\* The view of the innermost frame, whatever it did.
LEMMA TopMayBecome ==
    ASSUME NEW s, NEW ev \in Seq(Event),
           NEW t \in Seq(Frame), NEW m \in Ledger, NEW ew \in Seq(Event), Single(t, Len(t)),
           \A i \in 1 .. Len(t) : FrameOK(t[i]) /\ Exists(m, t[i].contract),
           Len(ew) >= Len(ev), \A p \in 1 .. Len(ev) : ew[p] = ev[p],
           NEW v, v.log = LogOf(ev, Len(ev)),
           NEW w, w = [state |-> StateOf(t, Len(t), m), log |-> LogOf(ew, Len(ew))]
    PROVE  Transactions!MayBecome(v, w)
<1> DEFINE x == LogOf(ev, Len(ev))
           y == LogOf(ew, Len(ew))
           st == StateOf(t, Len(t), m)
<1>1. st \in [Contract -> Instance \union {NoInstance}]
  <2>1. Len(t) \in Nat
    OBVIOUS
  <2>2. Len(t) \in 0 .. Len(t)
    BY <2>1
  <2> QED
    BY <2>2, StateType
<1>2. /\ DOMAIN x = {q \in 1 .. Len(ev) : ~ ev[q].failed}
      /\ DOMAIN y = {q \in 1 .. Len(ew) : ~ ew[q].failed}
      /\ \A p \in DOMAIN x : x[p] = ev[p]
      /\ \A p \in DOMAIN y : y[p] = ew[p]
  BY DEF LogOf
<1>3. w.state = st /\ w.log = y /\ v.log = x
  OBVIOUS
<1>4. Len(ev) \in Nat /\ Len(ew) \in Nat
  OBVIOUS
<1> HIDE DEF x, y, st
<1>5. \A p \in DOMAIN y : p \in Nat /\ y[p] \in Event
  BY <1>2, <1>4
<1>6. \A p \in DOMAIN x : p \in DOMAIN y /\ y[p] = x[p]
  BY <1>2, <1>4
<1>7. \A p \in DOMAIN x : \A q \in DOMAIN y \ DOMAIN x : p < q
  BY <1>2, <1>4
<1> QED
  BY <1>1, <1>3, <1>5, <1>6, <1>7 DEF Transactions!MayBecome, Transactions!IsView

-----------------------------------------------------------------------------
(* What a step does to the views. *)

\* The top frame, the ledger or the events change.
LEMMA WorkStep ==
    ASSUME Viewable(stack, ledger, events), Viewable(stack', ledger', events'),
           Len(stack) > 0, Len(stack') = Len(stack),
           \A i \in 1 .. Len(stack) - 1 : stack'[i] = stack[i],
           stack'[Len(stack)].rp = stack[Len(stack)].rp,
           Len(events') >= Len(events), \A p \in 1 .. Len(events) : events'[p] = events[p]
    PROVE  Transactions!Work
<1> DEFINE n == Len(stack)
           v == ViewsOf(stack, ledger, events)
           w == ViewsOf(stack', ledger', events')
<1>1. n \in Nat /\ n > 0 /\ n \in 0 .. n /\ Len(stack') \in Nat /\ n <= Len(stack')
      /\ Len(events) \in Nat
  BY DEF Viewable
<1>2. Len(v) = n + 1 /\ Len(w) = n + 1
  BY <1>1, ViewsLen
<1>3. \A i \in 1 .. n : w[i] = v[i]
  <2>1. \A i \in 1 .. n : \A p \in 1 .. stack[i].rp.events : events'[p] = events[p]
    BY <1>1 DEF Viewable, Positions
  <2>2. Agree(stack, events, stack', events', n)
    BY <1>1, <2>1 DEF Agree
  <2> HIDE DEF n
  <2> QED
    BY <2>2, OuterViews
<1>4. Transactions!MayBecome(v[n + 1], w[n + 1])
  <2>1. /\ v[n + 1] = [state |-> StateOf(stack, n, ledger), log |-> LogOf(events, Len(events))]
        /\ w[n + 1] = [state |-> StateOf(stack', Len(stack'), ledger'),
                       log |-> LogOf(events', Len(events'))]
    BY <1>1, TopView
  <2>2. v[n + 1].log = LogOf(events, Len(events))
    BY <2>1
  <2> QED
    BY <2>1, <2>2, TopMayBecome DEF Viewable
<1>5. Views = v /\ Views' = w
  BY ViewsAre
<1> HIDE DEF v, w, n
<1>6. n + 1 > 1 /\ (n + 1) - 1 = n
  BY <1>1
<1> QED
  BY <1>2, <1>3, <1>4, <1>5, <1>6
  DEF Transactions!Work, Transactions!Depth, Transactions!OuterUnchanged

\* A frame is pushed, whose rollback point is the ledger now: it starts with
\* what its caller sees.
Pushes(s, ev, t, m, n) ==
    /\ n = Len(s) /\ Len(t) = n + 1 /\ \A i \in 1 .. n : t[i] = s[i]
    /\ ~ t[n + 1].modified
    /\ t[n + 1].rp.ledger = m /\ t[n + 1].rp.events = Len(ev)

LEMMA PushedViews ==
    ASSUME NEW s, NEW l, NEW ev, Viewable(s, l, ev),
           NEW t, NEW m, NEW n, Pushes(s, ev, t, m, n),
           NEW x, x = [state |-> StateOf(s, n, m), log |-> LogOf(ev, Len(ev))]
    PROVE  ViewsOf(t, m, ev)[n + 1] = x /\ ViewsOf(t, m, ev)[n + 2] = x
<1> USE DEF Pushes
<1>1. /\ n \in Nat /\ n + 1 \in Nat /\ Len(t) \in Nat /\ Single(s, n)
      /\ n + 1 \in 1 .. Len(t) + 1 /\ (n + 1) - 1 = n /\ n # Len(t) /\ Len(t) + 1 = n + 2
  BY DEF Viewable
<1>2. StateOf(t, n, m) = StateOf(s, n, m)
  <2>1. SameFrames(s, t, n)
    BY <1>1 DEF SameFrames
  <2> QED
    BY <1>1, <2>1, SameState
<1>3. ViewsOf(t, m, ev)[n + 1] = ViewOf(t, m, ev, n)
  BY <1>1, ViewsLen
<1>4. LedgerOf(t, m, n) = m /\ PositionOf(t, ev, n) = Len(ev)
  BY <1>1 DEF LedgerOf, PositionOf
<1>5. ViewsOf(t, m, ev)[n + 2] = [state |-> StateOf(t, n + 1, m), log |-> LogOf(ev, Len(ev))]
  BY <1>1, TopView
<1>6. \A c : Dirty(t, n + 1, c) = Dirty(t, n, c)
  <2>1. \A j \in 1 .. n + 1 : j \in 1 .. n \/ j = n + 1
    BY <1>1
  <2>2. \A j \in 1 .. n : j \in 1 .. n + 1
    BY <1>1
  <2> QED
    BY <2>1, <2>2 DEF Dirty
<1>7. StateOf(t, n + 1, m) = StateOf(t, n, m)
  BY <1>6 DEF StateOf
<1> QED
  BY <1>2, <1>3, <1>4, <1>5, <1>7 DEF ViewOf

LEMMA BeginStep ==
    ASSUME Viewable(stack, ledger, events), Viewable(stack', ledger', events'),
           Len(stack) > 0, NEW f, stack' = Append(stack, f), ~ f.modified,
           f.rp.ledger = ledger', f.rp.events = Len(events), events' = events
    PROVE  Transactions!Begin
<1> DEFINE n == Len(stack)
           v == ViewsOf(stack, ledger, events)
           w == ViewsOf(stack', ledger', events')
           x == [state |-> StateOf(stack, n, ledger'), log |-> LogOf(events, Len(events))]
<1>1. /\ n \in Nat /\ n > 0 /\ n \in 0 .. n /\ Len(stack') = n + 1
      /\ \A i \in 1 .. n : stack'[i] = stack[i]
      /\ stack'[n + 1] = f
  BY DEF Viewable
<1>2. Len(v) = n + 1 /\ Len(w) = n + 2
  <2>1. Len(v) = Len(stack) + 1
    BY <1>1, ViewsLen
  <2>2. Len(stack') \in Nat
    BY <1>1
  <2>3. Len(w) = Len(stack') + 1
    BY <2>2, ViewsLen
  <2> QED
    BY <1>1, <2>1, <2>3
<1>3. \A i \in 1 .. n : w[i] = v[i]
  <2>1. n <= Len(stack') /\ Len(stack') \in Nat /\ stack'[n].rp = stack[n].rp
    BY <1>1
  <2>2. \A i \in 1 .. n - 1 : stack'[i] = stack[i]
    BY <1>1
  <2>3. Agree(stack, events, stack', events', n)
    BY <1>1, <2>1, <2>2 DEF Agree
  <2> HIDE DEF n
  <2> QED
    BY <2>3, OuterViews
<1>4. w[n + 1] = x /\ w[n + 2] = x
  <2>1. Pushes(stack, events, stack', ledger', n)
    BY <1>1 DEF Pushes
  <2>2. w = ViewsOf(stack', ledger', events)
    OBVIOUS
  <2> HIDE DEF n, w
  <2>3. ViewsOf(stack', ledger', events)[n + 1] = x /\ ViewsOf(stack', ledger', events)[n + 2] = x
    BY <2>1, PushedViews
  <2> QED
    BY <2>2, <2>3
<1>5. Transactions!MayBecome(v[n + 1], w[n + 1])
  <2>1. v[n + 1] = [state |-> StateOf(stack, n, ledger), log |-> LogOf(events, Len(events))]
    BY <1>1, TopView
  <2>2. v[n + 1].log = LogOf(events, Len(events))
    BY <2>1
  <2>3. \A i \in 1 .. n : FrameOK(stack[i]) /\ Exists(ledger', stack[i].contract)
    <3>1. \A i \in 1 .. n : i \in 1 .. n + 1
      BY <1>1
    <3> QED
      BY <1>1, <3>1 DEF Viewable
  <2>4. Len(events) >= Len(events)
    BY DEF Viewable
  <2> QED
    BY <1>4, <2>2, <2>3, <2>4, TopMayBecome DEF Viewable
<1>6. Views = v /\ Views' = w
  BY ViewsAre
<1> HIDE DEF v, w, n, x
<1>7. n + 1 > 1 /\ (n + 1) - 1 = n /\ (n + 1) + 1 = n + 2
  BY <1>1
<1> QED
  BY <1>2, <1>3, <1>4, <1>5, <1>6, <1>7
  DEF Transactions!Begin, Transactions!Depth, Transactions!OuterUnchanged

LEMMA PopFacts ==
    ASSUME NEW s \in Seq(Frame), Len(s) > 0, NEW t, t = SubSeq(s, 1, Len(s) - 1)
    PROVE  /\ t \in Seq(Frame) /\ Len(t) = Len(s) - 1
           /\ \A i \in 1 .. Len(s) - 1 : t[i] = s[i]
<1> DEFINE n == Len(s)
<1>1. n \in Nat /\ n > 0
  OBVIOUS
<1>2. CASE n = 1
  BY <1>2
<1>3. CASE n > 1
  BY <1>3
<1> HIDE DEF n
<1>4. n = 1 \/ n > 1
  BY <1>1
<1> QED
  BY <1>2, <1>3, <1>4

\* A frame succeeds: its caller sees what it saw, the flushed instance storage
\* included.
LEMMA CommitStep ==
    ASSUME Viewable(stack, ledger, events), Viewable(stack', ledger', events'),
           Len(stack) > 0, stack' = SubSeq(stack, 1, Len(stack) - 1),
           persist_instance_storage(Top), events' = events
    PROVE  Transactions!Commit
<1> DEFINE n == Len(stack)
           v == ViewsOf(stack, ledger, events)
           w == ViewsOf(stack', ledger', events')
<1>1. stack \in Seq(Frame) /\ n \in Nat /\ n > 0
  BY DEF Viewable
<1>2. Len(stack') = n - 1 /\ \A i \in 1 .. n - 1 : stack'[i] = stack[i]
  BY <1>1, PopFacts
<1>3. n - 1 \in Nat /\ n - 1 \in 0 .. n /\ (n - 1) + 1 = n /\ n \in 1 .. n
  BY <1>1
<1>4. Len(v) = n + 1 /\ Len(w) = n
  <2>1. Len(v) = Len(stack) + 1
    BY <1>1, ViewsLen
  <2>2. Len(stack') \in Nat
    BY <1>2, <1>3
  <2>3. Len(w) = Len(stack') + 1
    BY <2>2, ViewsLen
  <2> QED
    BY <1>2, <1>3, <2>1, <2>3
<1>5. \A i \in 1 .. n - 1 : w[i] = v[i]
  <2>1. Agree(stack, events, stack', events', n - 1)
    <3>1. \A i \in 1 .. (n - 1) - 1 : stack'[i] = stack[i]
      BY <1>1, <1>2
    <3>2. n - 1 > 0 => stack'[n - 1].rp = stack[n - 1].rp
      BY <1>1, <1>2
    <3> QED
      BY <1>1, <1>2, <1>3, <3>1, <3>2 DEF Agree
  <2> HIDE DEF n
  <2> QED
    BY <2>1, OuterViews
<1>6. StateOf(stack', n - 1, ledger') = StateOf(stack, n, ledger)
  <2>1. Single(stack, n) /\ Single(stack, n - 1) /\ Top = stack[n]
    <3>1. Single(stack, n) /\ Top = stack[n]
      BY DEF Viewable, Top
    <3>2. \A j \in 1 .. n - 1 : j \in 1 .. n
      BY <1>1
    <3>3. Single(stack, n - 1)
      BY <3>1, <3>2, Zenon DEF Single
    <3> QED
      BY <3>1, <3>3
  <2>2. StateOf(stack', n - 1, ledger') = StateOf(stack, n - 1, ledger')
    <3>1. SameFrames(stack, stack', n - 1)
      BY <1>2 DEF SameFrames
    <3> QED
      BY <1>3, <2>1, <3>1, SameState
  <2>3. ASSUME NEW c \in Contract
        PROVE  Flushed(stack, Dirty(stack, n - 1, c), ledger'[c]) =
                  Flushed(stack, Dirty(stack, n, c), ledger[c])
    <3>1. \A j \in 1 .. n : j \in 1 .. n - 1 \/ j = n
      BY <1>1
    <3>2. \A j \in 1 .. n - 1 : j \in 1 .. n /\ j # n
      BY <1>1
    <3>3. CASE stack[n].modified /\ stack[n].contract = c
      <4>1. n \in Dirty(stack, n, c)
        BY <1>3, <3>3 DEF Dirty
      <4>2. \A r : Dirty(stack, n, c) = {n}
                   /\ Flushed(stack, Dirty(stack, n, c), r) = [r EXCEPT !.store = stack[n].cache]
        BY <1>1, <2>1, <4>1, DirtyOne
      <4>3. Dirty(stack, n - 1, c) = {}
        BY <1>3, <2>1, <3>2, <3>3 DEF Dirty, Single
      <4>4. ledger'[c] = [ledger[c] EXCEPT !.store = stack[n].cache]
        BY <2>1, <3>3 DEF persist_instance_storage, Viewable, Ledger
      <4>5. Flushed(stack, {}, ledger'[c]) = ledger'[c]
        BY DEF Flushed
      <4> QED
        BY <4>2, <4>3, <4>4, <4>5
    <3>4. CASE ~ (stack[n].modified /\ stack[n].contract = c)
      <4>1. Dirty(stack, n, c) = Dirty(stack, n - 1, c)
        BY <3>1, <3>2, <3>4 DEF Dirty
      <4>2. ledger'[c] = ledger[c]
        BY <2>1, <3>4 DEF persist_instance_storage, Viewable, Ledger
      <4> QED
        BY <4>1, <4>2
    <3> QED
      BY <3>3, <3>4
  <2>4. StateOf(stack, n - 1, ledger') = StateOf(stack, n, ledger)
    BY <2>3 DEF StateOf
  <2> QED
    BY <2>2, <2>4
<1>7. w[n] = v[n + 1]
  <2>1. v[n + 1] = [state |-> StateOf(stack, n, ledger), log |-> LogOf(events, Len(events))]
    BY <1>1, TopView
  <2>2. Len(stack') \in Nat
    BY <1>2, <1>3
  <2>3. w[Len(stack') + 1] = [state |-> StateOf(stack', Len(stack'), ledger'),
                              log |-> LogOf(events', Len(events'))]
    BY <2>2, TopView
  <2> HIDE DEF v, w, n
  <2> QED
    BY <1>2, <1>3, <1>6, <2>1, <2>3
<1>8. Views = v /\ Views' = w
  BY ViewsAre
<1> HIDE DEF v, w, n
<1>9. n + 1 > 1 /\ (n + 1) - 1 = n /\ (n + 1) - 2 = n - 1
  BY <1>1
<1> QED
  BY <1>4, <1>5, <1>7, <1>8, <1>9
  DEF Transactions!Commit, Transactions!Depth, Transactions!OuterUnchanged

\* A frame fails: everybody else sees what they saw before it.
LEMMA AbortStep ==
    ASSUME Viewable(stack, ledger, events), Len(stack) > 0, Unwind
    PROVE  Transactions!Abort
<1> DEFINE n == Len(stack)
           v == ViewsOf(stack, ledger, events)
           w == ViewsOf(stack', ledger', events')
<1>1. /\ stack \in Seq(Frame) /\ n \in Nat /\ n > 0 /\ Top = stack[n]
      /\ stack' = SubSeq(stack, 1, Len(stack) - 1) /\ ledger' = stack[n].rp.ledger
      /\ events \in Seq(Event) /\ Len(events) \in Nat
      /\ Positions(stack, Len(events)) /\ Single(stack, n)
  BY DEF Viewable, Unwind, Top
<1>2. Len(stack') = n - 1 /\ \A i \in 1 .. n - 1 : stack'[i] = stack[i]
  BY <1>1, PopFacts
<1>3. n - 1 \in Nat /\ n - 1 \in 0 .. n /\ (n - 1) + 1 = n /\ n \in 1 .. n
      /\ \A i \in 1 .. n - 1 : i \in 1 .. n /\ i < n
  BY <1>1
<1>4. Len(v) = n + 1 /\ Len(w) = n
  <2>1. Len(v) = Len(stack) + 1
    BY <1>1, ViewsLen
  <2>2. Len(stack') \in Nat
    BY <1>2, <1>3
  <2>3. Len(w) = Len(stack') + 1
    BY <2>2, ViewsLen
  <2> QED
    BY <1>2, <1>3, <2>1, <2>3
<1> DEFINE k == stack[n].rp.events
<1>5. k \in Nat /\ k <= Len(events)
  BY <1>1, <1>3 DEF Positions
<1>6. Len(events') = Len(events) /\ \A p \in 1 .. k : events'[p] = events[p]
  BY <1>1, <1>5 DEF Unwind, rollback_events
<1>7. \A i \in 1 .. n - 1 : w[i] = v[i]
  <2>1. \A i \in 1 .. n - 1 : stack[i].rp.events \in Nat /\ stack[i].rp.events <= k
    BY <1>1, <1>3 DEF Positions
  <2>2. Agree(stack, events, stack', events', n - 1)
    <3>1. \A i \in 1 .. (n - 1) - 1 : stack'[i] = stack[i]
      BY <1>1, <1>2
    <3>2. n - 1 > 0 => stack'[n - 1].rp = stack[n - 1].rp
      BY <1>1, <1>2
    <3>3. ASSUME NEW i \in 1 .. n - 1, NEW p \in 1 .. stack[i].rp.events
          PROVE  p \in 1 .. k
      <4>1. stack[i].rp.events \in Nat /\ stack[i].rp.events <= k
        BY <2>1
      <4> HIDE DEF k
      <4> QED
        BY <1>5, <4>1
    <3> HIDE DEF k
    <3>4. \A i \in 1 .. n - 1 : \A p \in 1 .. stack[i].rp.events : events'[p] = events[p]
      BY <1>6, <3>3, Zenon
    <3>5. n - 1 \in 0 .. Len(stack) /\ n - 1 <= Len(stack') /\ Len(stack') \in Nat
      BY <1>2, <1>3
    <3> HIDE DEF n
    <3> QED
      BY <3>1, <3>2, <3>4, <3>5, Zenon DEF Agree
  <2> HIDE DEF n
  <2> QED
    BY <2>2, OuterViews
<1>8. w[n] = v[n]
  <2>1. v[n] = [state |-> StateOf(stack, n - 1, stack[n].rp.ledger), log |-> LogOf(events, k)]
    <3>1. n \in 1 .. n + 1 /\ n - 1 # n
      BY <1>1
    <3>2. v[n] = ViewOf(stack, ledger, events, n - 1)
      BY <1>1, <3>1, ViewsLen
    <3> QED
      BY <1>3, <3>1, <3>2, Zenon DEF ViewOf, LedgerOf, PositionOf
  <2>2. Len(stack') \in Nat
    BY <1>2, <1>3
  <2>3. w[Len(stack') + 1] = [state |-> StateOf(stack', Len(stack'), ledger'),
                              log |-> LogOf(events', Len(events'))]
    BY <2>2, TopView
  <2>4. StateOf(stack', n - 1, ledger') = StateOf(stack, n - 1, ledger')
    <3>1. Single(stack, n - 1)
      BY <1>1, <1>3, Zenon DEF Single
    <3>2. SameFrames(stack, stack', n - 1)
      BY <1>2 DEF SameFrames
    <3> QED
      BY <1>3, <3>1, <3>2, SameState
  <2>5. LogOf(events', Len(events')) = LogOf(events, k)
    <3>1. \A p \in 1 .. Len(events) : p > k => events'[p].failed
      BY <1>1, <1>5 DEF Unwind, rollback_events, Event
    <3>2. {q \in 1 .. Len(events') : ~ events'[q].failed} = {q \in 1 .. k : ~ events[q].failed}
      BY <1>1, <1>5, <1>6, <3>1
    <3>3. \A p \in {q \in 1 .. k : ~ events[q].failed} : events'[p] = events[p]
      BY <1>6
    <3> QED
      BY <3>2, <3>3 DEF LogOf
  <2> HIDE DEF v, w, n, k
  <2> QED
    BY <1>1, <1>2, <1>3, <2>1, <2>3, <2>4, <2>5
<1>9. Views = v /\ Views' = w
  BY ViewsAre
<1> HIDE DEF v, w, n, k
<1>10. n + 1 > 1 /\ (n + 1) - 1 = n /\ \A i \in 1 .. n : i \in 1 .. n - 1 \/ i = n
  BY <1>1
<1> QED
  BY <1>4, <1>7, <1>8, <1>9, <1>10
  DEF Transactions!Abort, Transactions!Depth, Transactions!OuterUnchanged

-----------------------------------------------------------------------------
(* The actions. *)

LEMMA InvViewable ==
    /\ Inv /\ Fresh(stack, ledger) /\ Positions(stack, Len(events)) =>
          Viewable(stack, ledger, events)
    /\ Inv' /\ Fresh(stack', ledger') /\ Positions(stack', Len(events')) =>
          Viewable(stack', ledger', events')
  BY DEF Inv, TypeOK, StackInv, Fresh, Single, Viewable

\* Everything that is in order before a step, and that the invariants promise
\* after it.
Prepared ==
    /\ Inv /\ Fresh(stack, ledger) /\ Positions(stack, Len(events))
    /\ Inv' /\ Fresh(stack', ledger')

Refined == Positions(stack', Len(events')) /\ [Transactions!Next]_Views

LEMMA WorkRefines ==
    ASSUME Prepared, Len(stack) > 0, Len(stack') = Len(stack),
           \A i \in 1 .. Len(stack) - 1 : stack'[i] = stack[i],
           stack'[Len(stack)].rp = stack[Len(stack)].rp,
           Len(events') >= Len(events), \A p \in 1 .. Len(events) : events'[p] = events[p]
    PROVE  Refined
<1>1. Len(stack) \in Nat /\ Len(events) \in Nat /\ Len(events') \in Nat
  BY DEF Prepared, Inv, TypeOK
<1>2. \A i \in 1 .. Len(stack) : stack'[i].rp = stack[i].rp
  <2>1. \A i \in 1 .. Len(stack) : i \in 1 .. Len(stack) - 1 \/ i = Len(stack)
    BY <1>1
  <2> QED
    BY <2>1
<1>3. Positions(stack', Len(events'))
  <2>1. Positions(stack, Len(events))
    BY DEF Prepared
  <2>2. \A i \in 1 .. Len(stack) : stack'[i].rp.events \in 0 .. Len(events')
    BY <1>1, <1>2, <2>1 DEF Positions
  <2> QED
    BY <1>2, <2>1, <2>2 DEF Positions
<1>4. Transactions!Work
  BY <1>3, InvViewable, WorkStep DEF Prepared
<1> QED
  BY <1>3, <1>4 DEF Refined, Transactions!Next

LEMMA BeginRefines ==
    ASSUME Prepared, Len(stack) > 0, NEW f, stack' = Append(stack, f), ~ f.modified,
           f.rp.ledger = ledger', f.rp.events = Len(events), events' = events
    PROVE  Refined
<1> DEFINE n == Len(stack)
<1>1. stack \in Seq(Frame) /\ n \in Nat /\ Len(events) \in Nat
  BY DEF Prepared, Inv, TypeOK
<1>2. Len(stack') = n + 1 /\ stack'[n + 1] = f /\ \A i \in 1 .. n : stack'[i] = stack[i]
  BY <1>1
<1>3. \A i \in 1 .. n + 1 : i \in 1 .. n \/ i = n + 1
  BY <1>1
<1>4. \A i \in 1 .. n : stack[i].rp.events \in 0 .. Len(events)
  BY DEF Prepared, Positions
<1> HIDE DEF n
<1>5. Positions(stack', Len(events'))
  <2>1. \A i \in 1 .. n + 1 : stack'[i].rp.events \in 0 .. Len(events)
    BY <1>1, <1>2, <1>3, <1>4
  <2>2. ASSUME NEW i \in 1 .. n + 1, NEW j \in 1 .. n + 1, i < j
        PROVE  stack'[i].rp.events <= stack'[j].rp.events
    <3>1. i \in 1 .. n
      BY <1>1, <2>2
    <3>2. CASE j = n + 1
      BY <1>1, <1>2, <1>4, <3>1, <3>2
    <3>3. CASE j \in 1 .. n
      BY <1>2, <2>2, <3>1, <3>3 DEF Prepared, Positions, n
    <3> QED
      BY <1>3, <3>2, <3>3
  <2> QED
    BY <1>2, <2>1, <2>2 DEF Positions
<1>6. Transactions!Begin
  BY <1>5, InvViewable, BeginStep DEF Prepared
<1> QED
  BY <1>5, <1>6 DEF Refined, Transactions!Next

\* A frame is popped.
LEMMA PopPositions ==
    ASSUME Prepared, Len(stack) > 0, stack' = SubSeq(stack, 1, Len(stack) - 1),
           Len(events') = Len(events)
    PROVE  Positions(stack', Len(events'))
<1>1. stack \in Seq(Frame) /\ Len(stack) \in Nat
  BY DEF Prepared, Inv, TypeOK
<1>2. Len(stack') = Len(stack) - 1 /\ \A i \in 1 .. Len(stack) - 1 : stack'[i] = stack[i]
  BY <1>1, PopFacts
<1>3. \A i \in 1 .. Len(stack) - 1 : i \in 1 .. Len(stack)
  BY <1>1
<1> QED
  BY <1>2, <1>3 DEF Prepared, Positions

LEMMA ReturnRefines ==
    ASSUME Prepared, Return
    PROVE  Refined
<1>1. /\ Len(stack) > 0 /\ stack' = SubSeq(stack, 1, Len(stack) - 1)
      /\ persist_instance_storage(Top) /\ events' = events
  BY DEF Return, Running
<1>2. Positions(stack', Len(events'))
  BY <1>1, PopPositions
<1>3. Transactions!Commit
  BY <1>1, <1>2, InvViewable, CommitStep DEF Prepared
<1> QED
  BY <1>2, <1>3 DEF Refined, Transactions!Next

LEMMA UnwindRefines ==
    ASSUME Prepared, Unwind
    PROVE  Refined
<1>1. Len(stack) > 0 /\ stack' = SubSeq(stack, 1, Len(stack) - 1)
  BY DEF Unwind
<1>2. Len(events') = Len(events)
  <2>1. Len(events) \in Nat
    BY DEF Prepared, Inv, TypeOK
  <2> QED
    BY <2>1 DEF Unwind, rollback_events
<1>3. Positions(stack', Len(events'))
  BY <1>1, <1>2, PopPositions
<1>4. Transactions!Abort
  BY <1>1, InvViewable, AbortStep DEF Prepared
<1> QED
  BY <1>3, <1>4 DEF Refined, Transactions!Next

\* Stack and events stay; the ledger may change.
LEMMA QuietRefines ==
    ASSUME Prepared, Len(stack) > 0, stack' = stack, events' = events
    PROVE  Refined
<1>1. Len(events) \in Nat
  BY DEF Prepared, Inv, TypeOK
<1>2. Len(events') >= Len(events)
  BY <1>1
<1> QED
  BY <1>2, WorkRefines

LEMMA EnterRefines ==
    ASSUME Prepared, Len(stack) > 0, NEW c \in Contract,
           NEW entry \in {"call", "try", "auth"}, NEW m, ledger' = m,
           stack' = Append(stack, NewFrame(c, entry, m)), events' = events
    PROVE  Refined
<1> DEFINE f == NewFrame(c, entry, m)
<1>1. ~ f.modified /\ f.rp.ledger = m /\ f.rp.events = Len(events)
  BY DEF NewFrame
<1>2. stack' = Append(stack, f)
  OBVIOUS
<1> HIDE DEF f
<1> QED
  BY <1>1, <1>2, BeginRefines

LEMMA InstanceDataRefines ==
    ASSUME Prepared, GetInstanceData \/ \E v \in Val : PutInstanceData(v)
    PROVE  Refined
<1>1. Len(stack) > 0 /\ events' = events
  BY DEF GetInstanceData, PutInstanceData, InContract, Running
<1>2. stack \in Seq(Frame) /\ Top \in Frame /\ Len(stack) \in Nat
  BY <1>1, TopFacts DEF Prepared
<1>3. PICK f : f.rp = Top.rp /\ stack' = [stack EXCEPT ![Len(stack)] = f]
  <2>1. \A v : /\ [Top EXCEPT !.cache = v].rp = Top.rp
               /\ [Top EXCEPT !.cache = v, !.modified = TRUE].rp = Top.rp
    BY <1>2 DEF Frame
  <2> QED
    BY <2>1 DEF GetInstanceData, PutInstanceData, SetTop
<1>4. /\ Len(stack') = Len(stack) /\ stack'[Len(stack)].rp = stack[Len(stack)].rp
      /\ \A i \in 1 .. Len(stack) - 1 : stack'[i] = stack[i]
  BY <1>1, <1>2, <1>3 DEF Top
<1>5. Len(events') >= Len(events) /\ \A p \in 1 .. Len(events) : events'[p] = events[p]
  BY <1>1 DEF Prepared, Inv, TypeOK
<1> QED
  BY <1>1, <1>4, <1>5, WorkRefines

LEMMA SeqAppended ==
    ASSUME NEW S, NEW s \in Seq(S), NEW e, NEW t, t = Append(s, e)
    PROVE  Len(t) >= Len(s) /\ \A p \in 1 .. Len(s) : t[p] = s[p]
  OBVIOUS

LEMMA EventRefines ==
    ASSUME Prepared, Len(stack) > 0, stack' = stack, record_event
    PROVE  Refined
<1>1. events \in Seq(Event)
  BY DEF Prepared, Inv, TypeOK
<1>2. Len(events') >= Len(events) /\ \A p \in 1 .. Len(events) : events'[p] = events[p]
  <2> DEFINE e == [by |-> Current, failed |-> FALSE]
  <2>1. events' = Append(events, e)
    BY DEF record_event
  <2> HIDE DEF e
  <2> QED
    BY <1>1, <2>1, SeqAppended
<1> QED
  BY <1>2, WorkRefines

LEMMA NextRefines ==
    ASSUME Prepared, [Next]_vars
    PROVE  Refined
<1>1. ASSUME NEW c \in Contract,
             Call(c) \/ TryCall(c) \/ TryCallRefused(c) \/ CheckAuth(c)
      PROVE  Refined
  <2>1. Len(stack) > 0
    BY <1>1 DEF Call, TryCall, TryCallRefused, CheckAuth, InContract, InHostFn, Running
  <2>2. CASE Trap \/ UNCHANGED vars
    BY <2>1, <2>2, QuietRefines DEF Trap, vars
  <2>3. ASSUME NEW entry \in {"call", "try", "auth"}, Enter(c, entry)
        PROVE  Refined
    BY <2>1, <2>3, EnterRefines DEF Enter
  <2> QED
    BY <1>1, <2>2, <2>3 DEF Call, TryCall, TryCallRefused, CheckAuth
<1>2. CASE Fail
  BY <1>2, QuietRefines DEF Fail, Running
<1>3. CASE UNCHANGED vars
  <2>1. stack' = stack /\ ledger' = ledger /\ events' = events
    BY <1>3 DEF vars
  <2>2. Views' = Views
    BY <2>1, ViewsAre
  <2> QED
    BY <2>1, <2>2 DEF Refined, Prepared
<1>4. ASSUME NEW v \in Val, PutContractData(v) PROVE Refined
  BY <1>4, QuietRefines DEF PutContractData, InContract, Running
<1>5. CASE ContractEvent \/ \E w \in Wasm : UpdateCurrentContractWasm(w)
  BY <1>5, EventRefines DEF ContractEvent, UpdateCurrentContractWasm, InContract, Running
<1>6. ASSUME NEW c \in Contract, NEW w \in Wasm, CreateContract(c, w) PROVE Refined
  <2>1. Len(stack) > 0 /\ stack' = stack /\ events' = events
    BY <1>6 DEF CreateContract, Trap, InContract, InHostFn, Running
  <2> QED
    BY <2>1, QuietRefines
<1>7. ASSUME NEW c \in Contract, CreateAssetContract(c) PROVE Refined
  <2>1. /\ Len(stack) > 0 /\ events' = events
        /\ stack' = stack \/ stack' = Append(stack, NewFrame(c, "call", ledger'))
    BY <1>7 DEF CreateAssetContract, Trap, InContract, InHostFn, Running
  <2> QED
    BY <2>1, QuietRefines, EnterRefines
<1> QED
  BY <1>1, <1>2, <1>3, <1>4, <1>5, <1>6, <1>7, InstanceDataRefines, ReturnRefines,
     UnwindRefines DEF Next

LEMMA InitRefines ==
    ASSUME Init
    PROVE  Positions(stack, Len(events)) /\ Transactions!Init
<1> DEFINE f == NewFrame(NoContract, "host", Ledger0)
           v == ViewsOf(stack, ledger, events)
<1>1. f.rp.ledger = Ledger0 /\ f.rp.events = 0 /\ ~ f.modified
  BY DEF NewFrame, Init
<1>2. stack = <<f>> /\ ledger = Ledger0 /\ events = << >>
  BY DEF Init
<1> HIDE DEF f
<1>3. Len(stack) = 1 /\ stack[1] = f /\ Len(events) = 0
  BY <1>2
<1>4. Positions(stack, Len(events))
  BY <1>1, <1>3 DEF Positions
<1>5. \A i \in 0 .. 1 : StateOf(stack, i, Ledger0) = Ledger0
  <2>1. \A i \in 0 .. 1 : \A c : Dirty(stack, i, c) = {}
    BY <1>1, <1>3 DEF Dirty
  <2>2. \A r : Flushed(stack, {}, r) = r
    BY DEF Flushed
  <2> QED
    BY <2>1, <2>2, FramesAssumption DEF StateOf, Ledger
<1>6. Len(v) = 2 /\ v[1] = [state |-> Ledger0, log |-> LogOf(events, 0)]
      /\ v[2] = [state |-> Ledger0, log |-> LogOf(events, 0)]
  <2>1. Len(v) = 2 /\ v[1] = ViewOf(stack, ledger, events, 0)
        /\ v[2] = ViewOf(stack, ledger, events, 1)
    <3>1. /\ Len(stack) \in Nat /\ Len(stack) + 1 = 2 /\ 1 \in 1 .. 2 /\ 2 \in 1 .. 2
          /\ 1 - 1 = 0 /\ 2 - 1 = 1
      BY <1>3
    <3>2. /\ Len(v) = Len(stack) + 1
          /\ \A i \in 1 .. Len(stack) + 1 : v[i] = ViewOf(stack, ledger, events, i - 1)
      BY <3>1, ViewsLen, Zenon
    <3> HIDE DEF v
    <3> QED
      BY <3>1, <3>2
  <2>2. /\ LedgerOf(stack, ledger, 0) = Ledger0 /\ LedgerOf(stack, ledger, 1) = Ledger0
        /\ PositionOf(stack, events, 0) = 0 /\ PositionOf(stack, events, 1) = 0
    BY <1>1, <1>2, <1>3 DEF LedgerOf, PositionOf
  <2> QED
    BY <1>5, <2>1, <2>2 DEF ViewOf
<1>7. DOMAIN LogOf(events, 0) = {}
  BY DEF LogOf
<1>8. Views = v
  BY ViewsAre
<1> HIDE DEF v
<1>9. Transactions!Init
  BY <1>6, <1>7, <1>8, FramesAssumption DEF Transactions!Init, Transactions!IsView, Ledger
<1> QED
  BY <1>4, <1>9

(***************************************************************************)
(* Contract calls are nested transactions, unless contracts ask for their  *)
(* own authorization: what a frame and its callees did to the ledger, to   *)
(* instance storage and to the events reaches the caller as a whole when   *)
(* the frame succeeds and not at all when it fails (with_frame,            *)
(* push_context, pop_context, persist_instance_storage,                    *)
(* InternalEventsBuffer::rollback).                                        *)
(***************************************************************************)
THEOREM CallsRefineTransactions ==
    ASSUME ~ SelfAuth
    PROVE  Spec => CallsAreTransactions
<1>1. Init => Fresh(stack, ledger) /\ Positions(stack, Len(events)) /\ Transactions!Init
  BY InitFresh, InitRefines
<1>2. /\ Inv /\ Fresh(stack, ledger) /\ Positions(stack, Len(events))
      /\ Inv' /\ [Next]_vars
      => /\ Fresh(stack, ledger)' /\ Positions(stack, Len(events))'
         /\ [Transactions!Next]_Views
  BY NextFresh, NextRefines DEF Prepared, Refined
<1> QED
  BY <1>1, <1>2, Invariance, PTL DEF Spec, CallsAreTransactions, Transactions!Spec
=============================================================================
