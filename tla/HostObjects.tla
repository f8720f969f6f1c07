----------------------------- MODULE HostObjects -----------------------------
(* Guests at work on host objects.  An invocation is a stack of VM frames,     *)
(* each with a table of the objects it may refer to and a linear memory; the   *)
(* top frame calls host functions through the dispatch layer, with any         *)
(* arguments it likes, calls other contracts, returns or traps.  Host objects  *)
(* are immutable and are never taken back, not even when a call is rolled back. *)
EXTENDS HostApi
LOCAL INSTANCE Functions

CONSTANTS
  Invocations, \* what an invocation may start with: [args (ScVals), mem]
  Atoms,       \* the small values guests use as arguments
  U32s,        \* the numbers guests pass as positions, lengths and counts
  Words,       \* the u64s guests pass (as i64s, their two's complement)
  MaxCalls,    \* bound: host function calls of an invocation
  MaxFrames    \* bound: nesting of contract calls

ASSUME BoundAssumption == MaxCalls \in Nat /\ MaxFrames \in Nat \ {0}

VARIABLES
  objs,      \* HostImpl.objects
  frames,    \* the context stack: a sequence of VM frames
  calls,     \* how many host functions were called
  err        \* the error of the last trap, <<>> if there was none
vars == <<objs, frames, calls, err>>

\* table and mem are the frame's relative_objects and memory; try tells
\* whether try_call made it.  given and used are history: the objects that were
\* passed to the guest, and the objects its last host call referred to.
Frame(table, mem, try, given) ==
  [table |-> table, mem |-> mem, try |-> try, given |-> given, used |-> {}, fresh |-> 0]
Top == frames[Len(frames)]
State(f) == [objs |-> objs, table |-> f.table, mem |-> f.mem]
Objects(vals) == {v \in {vals[i] : i \in DOMAIN vals} : is_object(v)}

-----------------------------------------------------------------------------
(* The dispatch layer.                                                         *)

\* The tags a wrapper type admits.
TypeTags(ty) ==
  CASE ty = "Val"     -> DOMAIN TagNumber
    [] ty = "Symbol"  -> {"SymbolSmall", "SymbolObject"}
    [] ty = "U256Val" -> {"U256Small", "U256Object"}
    [] ty = "I256Val" -> {"I256Small", "I256Object"}
    [] OTHER          -> {ty}
IsPlain(ty) == ty \in {"u64", "i64"}

\* WasmiMarshal::try_marshal_from_value: good bits and the right type, or no Val.
try_marshal_from_value(ty, x) == is_good(x) /\ x.tag \in TypeTags(ty)
try_marshal_from_relative_value(table, ty, x) ==
  Require(try_marshal_from_value(ty, x), Err("Value", "InvalidInput"), relative_to_absolute(table, x))
check_env_arg(os, r) == Then(r, LAMBDA v : check_val_integrity(os, v))

\* An argument on its way in: plain numbers pass as they are.
arg_in(st, ty, x) ==
  IF IsPlain(ty) THEN Ok(x)
  ELSE check_env_arg(st.objs, try_marshal_from_relative_value(st.table, ty, x))
args_in(st, sig, a) == Collect([i \in DOMAIN sig |-> arg_in(st, sig[i], a[i])])

\* The result on its way out.
result_out(r) ==
  Then(r, LAMBDA x :
    IF x.ret.tag = "number" THEN r
    ELSE Then(check_env_arg(x.st.objs, Ok(x.ret)), LAMBDA v : Then(absolute_to_relative(x.st.table, v),
           LAMBDA q : Ok([st |-> [x.st EXCEPT !.table = q.table], ret |-> q.val]))))

-----------------------------------------------------------------------------
(* What guests choose.                                                         *)

Ref(table, i) == from_major_minor(table[i].tag, 2 * (i - 1), 0)
Refs(table) == {Ref(table, i) : i \in DOMAIN table}
Candidates(f, ty) ==
  CASE ty = "u64"    -> Words
    [] ty = "i64"    -> {Signed(WordBits, w) : w \in Words}
    [] ty = "U32Val" -> {from_u32(n) : n \in U32s}
    [] OTHER         -> {v \in Atoms \union Refs(f.table) : v.tag \in TypeTags(ty)}

\* What else a guest may pass: unknown or absolute handles, another type's tag,
\* references of another type, undefined bits set, words that are no Val at all,
\* and the largest u32.
Forged(f, ty) ==
  LET tags == (IF ty = "Val" THEN {"VecObject", "U64Object"} ELSE TypeTags(ty)) \intersect
              {ObjectTags[i] : i \in DOMAIN ObjectTags}
  IN {from_major_minor(t, h, m) : t \in tags, h \in {0, 1, 2 * Len(f.table)}, m \in {0, 1}}
     \union Refs(f.table) \union {Val("Bad", 0), Val("Void", 1)} \union (IF ty = "U32Val" THEN {from_u32(U32Max)} ELSE {})

ArgTuples(f, sig) ==
  LET C(i) == Candidates(f, sig[i])
      n == Len(sig)
  IN CASE n = 0 -> {<<>>}
       [] n = 1 -> {<<x>> : x \in C(1)}
       [] n = 2 -> C(1) \X C(2)
       [] n = 3 -> C(1) \X C(2) \X C(3)
       [] n = 4 -> C(1) \X C(2) \X C(3) \X C(4)

\* Bound "chained": after its first host call a frame goes on with what the call
\* before returned; fresh is the first table entry that is new (0: any).
Chained(f, sig, a) ==
  f.fresh = 0 \/ \E i \in DOMAIN f.table, j \in DOMAIN sig :
                   i >= f.fresh /\ ~IsPlain(sig[j]) /\ a[j] = Ref(f.table, i)

\* Bound "one atom": of several arguments at most one is a small value that is
\* neither Void nor a number of U32s; the others refer to objects.
OneAtom(sig, a) ==
  Cardinality({j \in DOMAIN sig : ~IsPlain(sig[j]) /\ a[j] \in Atoms \ {from_void}}) <= 1

Args(f, sig) ==
  LET good == ArgTuples(f, sig)
      any(ty) == CHOOSE x \in (IF Candidates(f, ty) = {} THEN Forged(f, ty) ELSE Candidates(f, ty)) : TRUE
      default == [i \in DOMAIN sig |-> any(sig[i])]
      vals == {i \in DOMAIN sig : ~IsPlain(sig[i])}
  IN {a \in good : Chained(f, sig, a) /\ OneAtom(sig, a)} \union
     UNION {{[default EXCEPT ![i] = x] : x \in Forged(f, sig[i])} : i \in vals}

-----------------------------------------------------------------------------
(* The invocation.                                                             *)

NewObjects(old, new) ==
  {from_major_minor(ObjectTag[new[i].ty], 2 * (i - 1) + 1, 0) : i \in Len(old) + 1 .. Len(new)}

\* Host::invoke_function: the arguments become host values, the frame gets a
\* reference to each object among them (invoke_function_raw).
Init ==
  \E i \in DOMAIN Invocations :
    LET p == to_host_vals(<<>>, DepthLimit, Invocations[i].args)
        q == to_relative(<<>>, p.v.vals)
    IN /\ p.ok /\ q.ok
       /\ objs = p.v.objs
       /\ frames = <<Frame(q.v.table, Invocations[i].mem, FALSE, Objects(p.v.vals))>>
       /\ calls = 0
       /\ err = <<>>

is_recoverable(e) == e[2] # "InternalError"

\* A failed host function traps the VM; the error goes up the frames to the
\* nearest one that try_call made, whose caller gets an error value.
Trap(e) ==
  LET tries == {i \in DOMAIN frames : frames[i].try /\ is_recoverable(e)}
      i == CHOOSE i \in tries : \A j \in tries : j <= i
  IN /\ err' = e
     /\ frames' = IF tries = {} THEN <<>> ELSE SubSeq(frames, 1, i - 1)
     /\ UNCHANGED objs

\* A host function of signature sig has answered r to the arguments in.
Answer(sig, in, r) ==
  LET out == result_out(r)
      st == out.v.st
      top == [Top EXCEPT !.table = st.table, !.mem = st.mem,
                         !.given = @ \union NewObjects(objs, st.objs),
                         !.used = {in.v[i] : i \in {j \in DOMAIN sig : ~IsPlain(sig[j]) /\ is_object(in.v[j])}},
                         !.fresh = IF st.mem # Top.mem /\ st.table # Top.table THEN 0 ELSE Len(Top.table) + 1]
  IN IF ~out.ok THEN Trap(out.v)
     ELSE /\ objs' = st.objs
          /\ frames' = [frames EXCEPT ![Len(frames)] = top]
          /\ err' = err

HostCall(sig, a, Run(_)) ==
  LET in == args_in(State(Top), sig, a)
  IN Answer(sig, in, Then(in, Run))
Running == frames # <<>> /\ calls < MaxCalls
Counted == calls' = calls + 1

IntCall == Running /\ Counted /\ \E f \in DOMAIN IntSig : \E a \in Args(Top, IntSig[f]) :
  HostCall(IntSig[f], a, LAMBDA v : IntFn(f, State(Top), v))
MapCall == Running /\ Counted /\ \E f \in DOMAIN MapSig : \E a \in Args(Top, MapSig[f]) :
  HostCall(MapSig[f], a, LAMBDA v : MapFn(f, State(Top), v))
VecCall == Running /\ Counted /\ \E f \in DOMAIN VecSig : \E a \in Args(Top, VecSig[f]) :
  HostCall(VecSig[f], a, LAMBDA v : VecFn(f, State(Top), v))
BufCall == Running /\ Counted /\ \E f \in DOMAIN BufSig : \E a \in Args(Top, BufSig[f]) :
  HostCall(BufSig[f], a, LAMBDA v : BufFn(f, State(Top), v))
CmpCall == Running /\ Counted /\ \E f \in DOMAIN CmpSig : \E a \in Args(Top, CmpSig[f]) :
  HostCall(CmpSig[f], a, LAMBDA v : CmpFn(f, State(Top), v))

\* call and try_call: the callee's references are to the elements of the vector.
MemImages == {Invocations[i].mem : i \in DOMAIN Invocations}
contract_id_from_address(st, v) ==
  Then(Visit(st, "Address", v), LAMBDA id : Require(id[1] = 1, Err("Object", "InvalidInput"), Ok(id)))
ContractCall ==
  /\ Running /\ Len(frames) < MaxFrames /\ Counted
  /\ \E f \in DOMAIN CallSig : \E a \in Args(Top, CallSig[f]) : \E mem \in MemImages :
       LET st == State(Top)
           in == args_in(st, CallSig[f], a)
           args == Then(in, LAMBDA v : Then(Visit(st, "Vec", v[3]), LAMBDA vs :
                     Then(contract_id_from_address(st, v[1]), LAMBDA id : Ok(vs))))
           q == to_relative(<<>>, args.v)
       IN IF ~args.ok THEN Trap(args.v)
          ELSE /\ frames' = Append(frames, Frame(q.v.table, mem, f = "try_call", Objects(args.v)))
               /\ UNCHANGED <<objs, err>>

\* with_frame: a returned Error value is an error, and only contract errors are
\* taken at their word.
frame_exit(v) ==
  IF v.tag # "Error" THEN Ok(v)
  ELSE IF get_minor(v) = 0 THEN Err("Contract", "Any") ELSE Err("Context", "InvalidAction")

\* The guest returns: its reference is translated with its own table, and then
\* the caller gets a reference to the same object.  The result of the outermost
\* frame is converted for the embedder.
VmReturn ==
  /\ frames # <<>>
  /\ \E x \in Candidates(Top, "Val") \union Forged(Top, "Val") :
       LET r == Then(IF try_marshal_from_value("Val", x) THEN relative_to_absolute(Top.table, x) ELSE ConversionError,
                     frame_exit)
           caller == frames[Len(frames) - 1]
           out == result_out(Then(r, LAMBDA v : Ret(State(caller), v)))
           sc == Then(r, LAMBDA v : from_host_val(objs, DepthLimit, v))
       IN IF ~r.ok THEN Trap(r.v)
          ELSE IF Len(frames) > 1 /\ ~out.ok THEN Trap(out.v)
          ELSE IF Len(frames) = 1
               THEN frames' = <<>> /\ err' = (IF sc.ok THEN err ELSE sc.v) /\ UNCHANGED objs
               ELSE /\ frames' = [SubSeq(frames, 1, Len(frames) - 1) EXCEPT ![Len(frames) - 1] =
                                    [@ EXCEPT !.table = out.v.st.table,
                                              !.given = @ \union Objects(<<r.v>>),
                                              !.fresh = Len(caller.table) + 1]]
                    /\ UNCHANGED <<objs, err>>
  /\ UNCHANGED calls

Next == IntCall \/ MapCall \/ VecCall \/ BufCall \/ CmpCall \/ ContractCall \/ VmReturn
Spec == Init /\ [][Next]_vars

-----------------------------------------------------------------------------
(* Properties.                                                                 *)

\* A Val the host holds: good bits, and an absolute handle of an existing object
\* whose type is the one the tag names.
HostVal(v) ==
  /\ is_good(v)
  /\ is_object(v) => /\ ~is_relative_object_handle(get_major(v))
                     /\ handle_to_index(get_major(v)) < Len(objs)
                     /\ ObjectTag[objs[handle_to_index(get_major(v)) + 1].ty] = v.tag
Elements(ho) == CASE ho.ty = "Vec" -> ho.v [] ho.ty = "Map" -> Flatten(ho.v) [] OTHER -> <<>>

\* Every value inside a host object and in a frame's table of references is a
\* good one, whatever bits guests passed in or wrote to their memories: what
\* visit_obj relies on when it calls a mismatch an internal error.
TypeOK ==
  /\ \A i \in DOMAIN objs : LET s == Elements(objs[i]) IN \A j \in DOMAIN s : HostVal(s[j])
  /\ \A i \in DOMAIN frames : \A j \in DOMAIN frames[i].table :
       is_object(frames[i].table[j]) /\ HostVal(frames[i].table[j])
  /\ calls \in 0 .. MaxCalls

RECURSIVE Reach(_)
Reach(S) ==
  LET inside(v) == LET h == handle_to_index(get_major(v))
                   IN IF h < Len(objs) THEN Objects(Elements(objs[h + 1])) ELSE {}
      next == S \union UNION {inside(v) : v \in S}
  IN IF next = S THEN S ELSE Reach(next)

\* A frame refers only to objects it was given as arguments or results or made
\* itself, and to what is inside those: handles are capabilities
\* (relative_to_absolute, absolute_to_relative), across calls and returns and
\* whatever handles the guest makes up.
FramesSeeOnlyWhatTheyWereGiven ==
  \A i \in DOMAIN frames :
    frames[i].used \union Objects(frames[i].table) \subseteq Reach(frames[i].given)

\* No argument a guest can pass, and no sequence of calls, makes a host function
\* or a conversion fail with InternalError, the code host.rs and conversion.rs
\* keep for states "that should never happen".
NoInternalErrors == err # <<>> => err[2] # "InternalError"

ScOf(v) == from_host_val(objs, DepthLimit, v)

\* The keys of every host map, as the ScVals that are stored and hashed, are in
\* strictly increasing order: no map has a key twice or in a place where the
\* binary search of metered_map.rs would miss it, whether it was built by
\* map_put, from linear memory, or from XDR.
MapsAreOrderedFunctions ==
  \A i \in DOMAIN objs : objs[i].ty = "Map" =>
    \A j \in 1 .. Len(objs[i].v) - 1 :
      LET a == ScOf(objs[i].v[j][1])
          b == ScOf(objs[i].v[j + 1][1])
      IN a.ok /\ b.ok => cmp_scval(DepthLimit, a.v, b.v) = Ok(Less)

\* Handles stay distinct up to 2^31 objects (index_to_handle).
HandlesLeft(os) == 2 * Len(os) <= U32Max + 1

ComparesAs(a, b, order) ==
  /\ \A c \in {compare(objs, DepthLimit, a, b)} : c.ok => c.v = order
  /\ \A c \in {compare(objs, DepthLimit, b, a)} : c.ok => c.v = -order
LoadsAs(p, sc) ==
  p.ok /\ (HandlesLeft(p.v.objs) => from_host_val(p.v.objs, DepthLimit, p.v.val) = Ok(sc))
LoadsAgain(sc) == LoadsAs(to_host_val(<<>>, DepthLimit, sc), sc)

\* Objects are immutable, so each state in which a guest runs checks its newest
\* object, alone or with every other value.
Newest == {v \in NewObjects(<<>>, objs) : frames # <<>> /\ handle_to_index(get_major(v)) = Len(objs) - 1}

\* Every short symbol in an ScVal consists of symbol characters.
RECURSIVE ShortSymbolsAreSymbols(_)
ShortSymbolsAreSymbols(sc) ==
  CASE sc.t = "Symbol" -> Len(sc.v) > MaxSmallChars \/ Range(sc.v) \subseteq DOMAIN CharCode
    [] sc.t = "Vec"    -> \A x \in Range(sc.v[1]) : ShortSymbolsAreSymbols(x)
    [] sc.t = "Map"    -> \A x \in Range(Flatten(sc.v[1])) : ShortSymbolsAreSymbols(x)
    [] OTHER           -> TRUE

\* Vals stand for ScVals.  Comparing a Val with any other, small or object, on
\* either side, gives what comparing their ScVals gives (compare,
\* try_compare_to_small): a map sorted in the host is sorted in the ledger.  And a
\* value that is converted to an ScVal (from_host_val) and loaded again
\* (to_host_val), as in the next transaction, stands for the same ScVal whatever
\* mix of small and object forms it had, PROVIDED its short symbols consist of
\* symbol characters; ValsLoadAgain is the round trip without that proviso.
ValsStandForScVals ==
  \A a \in Newest : \A x \in {ScOf(a)} : x.ok =>
    /\ ShortSymbolsAreSymbols(x.v) => LoadsAgain(x.v)
    /\ \A b \in NewObjects(<<>>, objs) \union Atoms : \A y \in {ScOf(b)} : y.ok =>
         \A o \in {cmp_scval(DepthLimit, x.v, y.v)} : o.ok => ComparesAs(a, b, o.v)

\* Every value that can be converted to an ScVal can be loaded again as the same
\* ScVal.  symbol.rs has it that Symbols only admit characters of [a-zA-Z0-9_] and
\* that forming a SymbolObject of others is an error, so that a short one always
\* fits the small form into which to_host_val loads it.  The code violates this:
\* symbol_new_from_linear_memory does not look at the characters.
ValsLoadAgain == \A a \in Newest : \A x \in {ScOf(a)} : x.ok => LoadsAgain(x.v)
=============================================================================
