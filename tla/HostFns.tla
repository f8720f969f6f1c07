------------------------------- MODULE HostFns -------------------------------
(* The host functions on numbers, maps, vectors, bytes, strings and symbols    *)
(* that env.json exports to guests, as host.rs implements them over the host   *)
(* objects and the linear memory of the calling VM, and the dispatch layer     *)
(* (vm/dispatch.rs) that checks and translates every argument and result.      *)
(* st is what a call may read and change: the host objects, the frame's table  *)
(* of object references and its memory.  A host function answers with the new  *)
(* st and its result, an absolute Val or a plain number.                       *)
EXTENDS HostValues

CONSTANTS
  ValSize,     \* bytes of a Val in linear memory (8)
  U32Size,     \* bytes of a u32 in linear memory (4)
  SymbolLimit, \* the longest symbol (SCSYMBOL_LIMIT, 32)
  Wire         \* the ScVals whose XDR the model's byte strings may hold

ASSUME SizeAssumption ==
  ByteBits * ValSize > BodyBits /\ ByteBits * U32Size >= MajorBits /\ SymbolLimit >= MaxSmallChars

ByteMax == 2^ByteBits - 1
IndexBounds == Err("Object", "IndexBounds")
ArithDomain == Err("Value", "ArithDomain")
OutOfMemoryBounds == Err("WasmVm", "IndexBounds")

Ret(st, v) == Ok([st |-> st, ret |-> v])
RetNumber(st, n) == Ret(st, [tag |-> "number", body |-> n])
RetU32(st, n) == Ret(st, from_u32(n))
New(st, ty, v) ==
  Then(add_host_object(st.objs, HostObject(ty, v)), LAMBDA p : Ret([st EXCEPT !.objs = p.objs], p.val))
Visit(st, ty, v) == visit_obj(st.objs, ty, v)

-----------------------------------------------------------------------------
(* Numbers.                                                                    *)

\* A number as a Val, small when it fits, and back.
num_to_val(st, ty, x) == IF is_small(ty, x) THEN Ret(st, num_to_small(ty, x)) ELSE New(st, ty, x)
num_from_val(st, ty, v) == IF is_object(v) THEN Visit(st, ty, v) ELSE Ok(small_to_num(v))

obj_from_num(st, ty, x) == New(st, ty, x)
obj_to_num(st, ty, v) == Then(Visit(st, ty, v), LAMBDA x : RetNumber(st, x))
obj_from_pieces(st, ty, p) == New(st, ty, from_pieces(ty, p))
obj_to_piece(st, ty, i, v) == Then(Visit(st, ty, v), LAMBDA x : RetNumber(st, into_pieces(ty, x)[i]))

NumBytes(ty) == NumBits(ty) \div ByteBits
fixed_length_bytes(b, n) == Require(Len(b) = n, Err("Object", "UnexpectedSize"), Ok(b))
val_from_be_bytes(st, ty, b) ==
  Then(Visit(st, "Bytes", b), LAMBDA s : Then(fixed_length_bytes(s, NumBytes(ty)), LAMBDA t :
    LET acc[i \in 0 .. Len(t)] == IF i = 0 THEN 0 ELSE acc[i - 1] * 2^ByteBits + t[i]
    IN num_to_val(st, ty, IF IsSigned(ty) THEN Signed(NumBits(ty), acc[Len(t)]) ELSE acc[Len(t)])))
val_to_be_bytes(st, ty, v) ==
  Then(num_from_val(st, ty, v), LAMBDA x :
    LET n == NumBytes(ty)
    IN New(st, "Bytes", [i \in 1 .. n |-> (x \div 2^(ByteBits * (n - i))) % 2^ByteBits]))

MinNum(ty) == IF IsSigned(ty) THEN -(2^(NumBits(ty) - 1)) ELSE 0
MaxNum(ty) == IF IsSigned(ty) THEN 2^(NumBits(ty) - 1) - 1 ELSE 2^NumBits(ty) - 1
Abs(x) == IF x < 0 THEN -x ELSE x

\* Option<number>: the number when the type can hold it.
Checked(ty, x) == IF x \in MinNum(ty) .. MaxNum(ty) THEN <<x>> ELSE <<>>
checked_mul(ty, x, y) ==
  IF x = 0 \/ y = 0 THEN <<0>>
  ELSE IF Abs(x) > (MaxNum(ty) + 1) \div Abs(y) THEN <<>> ELSE Checked(ty, x * y)
checked_div(ty, x, y) ==
  IF y = 0 THEN <<>>
  ELSE Checked(ty, LET q == Abs(x) \div Abs(y) IN IF (x < 0) # (y < 0) THEN -q ELSE q)
checked_rem_euclid(ty, x, y) ==
  IF y = 0 \/ checked_div(ty, x, y) = <<>> THEN <<>> ELSE <<x % Abs(y)>>
checked_pow(ty, x, n) ==
  LET pow[i \in 0 .. n] == IF i = 0 THEN <<1>>
                           ELSE LET p == pow[i - 1] IN IF p = <<>> THEN p ELSE checked_mul(ty, p[1], x)
  IN pow[n]
checked_shl(ty, x, n) ==
  LET w == NumBits(ty)
      bits == ((x % 2^w) % 2^(w - n)) * 2^n
  IN IF n >= w THEN <<>> ELSE <<IF IsSigned(ty) THEN Signed(w, bits) ELSE bits>>
checked_shr(ty, x, n) == IF n >= NumBits(ty) THEN <<>> ELSE <<x \div 2^n>>

BigNumOp(op, ty, x, y) ==
  CASE op = "add" -> Checked(ty, x + y)
    [] op = "sub" -> Checked(ty, x - y)
    [] op = "mul" -> checked_mul(ty, x, y)
    [] op = "div" -> checked_div(ty, x, y)
    [] op = "rem" -> checked_rem_euclid(ty, x, y)
    [] op = "pow" -> checked_pow(ty, x, y)
    [] op = "shl" -> checked_shl(ty, x, y)
    [] op = "shr" -> checked_shr(ty, x, y)
BigNumResult(st, ty, r) ==
  Require(r # <<>>, Err("Object", "ArithDomain"), num_to_val(st, ty, r[1]))
bignum_host_fn(st, ty, op, lhs, rhs) ==
  Then(num_from_val(st, ty, lhs), LAMBDA x : Then(num_from_val(st, ty, rhs), LAMBDA y :
    BigNumResult(st, ty, BigNumOp(op, ty, x, y))))
bignum_host_fn_rhs_u32(st, ty, op, lhs, rhs) ==
  Then(num_from_val(st, ty, lhs), LAMBDA x : BigNumResult(st, ty, BigNumOp(op, ty, x, u32_of(rhs))))

-----------------------------------------------------------------------------
(* Linear memory.                                                              *)

\* Little endian, and the coding of a Val in its payload: the tag is lowest.
FromLe(b) == LET acc[i \in 0 .. Len(b)] == IF i = 0 THEN 0 ELSE acc[i - 1] + b[i] * 2^(ByteBits * (i - 1))
             IN acc[Len(b)]
ToLe(x, n) == [i \in 1 .. n |-> (x \div 2^(ByteBits * (i - 1))) % 2^ByteBits]
TagCodes == 2^(ByteBits * ValSize - BodyBits)
from_payload(p) == Val(from_u8((p % TagCodes) + 1), p \div TagCodes)
get_payload(v) == v.body * TagCodes + (TagNumber[v.tag] - 1)

read_bytes(mem, pos, len) ==
  Require(pos + len <= Len(mem), OutOfMemoryBounds, Ok(SubSeq(mem, pos + 1, pos + len)))
write_bytes(mem, pos, b) ==
  Require(pos + Len(b) <= Len(mem), OutOfMemoryBounds,
          Ok([i \in DOMAIN mem |-> IF i - pos \in DOMAIN b THEN b[i - pos] ELSE mem[i]]))

\* The bytes of n items of a size from pos on, in u32 arithmetic.
mem_items(mem, pos, n, size) ==
  IF n * size > U32Max \/ pos + n * size > U32Max THEN ArithDomain ELSE read_bytes(mem, pos, n * size)

\* Mutant: the payloads are not checked to be good Vals.
read_vals_unchecked(st, pos, n) ==
  Then(mem_items(st.mem, pos, n, ValSize), LAMBDA b :
    Collect([i \in 1 .. n |-> relative_to_absolute(st.table,
               from_payload(FromLe(SubSeq(b, (i - 1) * ValSize + 1, i * ValSize))))]))

\* References read from memory are the frame's: translate, then check.
read_vals(st, pos, n) ==
  Then(mem_items(st.mem, pos, n, ValSize), LAMBDA b :
    Then(Collect([i \in 1 .. n |-> relative_to_absolute(st.table,
                    from_payload(FromLe(SubSeq(b, (i - 1) * ValSize + 1, i * ValSize))))]),
         LAMBDA vs : Collect([i \in DOMAIN vs |-> check_val_integrity(st.objs, vs[i])])))

\* Writing values out gives the frame a reference to each object among them.
RECURSIVE to_relative(_, _)
to_relative(table, vals) ==
  IF vals = <<>> THEN Ok([table |-> table, vals |-> <<>>])
  ELSE Then(to_relative(table, SubSeq(vals, 1, Len(vals) - 1)),
            LAMBDA p : Then(absolute_to_relative(p.table, vals[Len(vals)]),
                            LAMBDA q : Ok([table |-> q.table, vals |-> Append(p.vals, q.val)])))
write_vals(st, pos, vals) ==
  Then(mem_items(st.mem, pos, Len(vals), ValSize), LAMBDA b :
    Then(to_relative(st.table, vals), LAMBDA p :
      Then(write_bytes(st.mem, pos, [i \in 1 .. Len(b) |->
             ToLe(get_payload(p.vals[((i - 1) \div ValSize) + 1]), ValSize)[((i - 1) % ValSize) + 1]]),
           LAMBDA m : Ret([st EXCEPT !.table = p.table, !.mem = m], from_void))))

\* The i-th of the slices that (pointer, length) pairs at pos refer to.
scan_slice(mem, pos, i) ==
  Then(mem_items(mem, pos + (i - 1) * 2 * U32Size, 1, 2 * U32Size), LAMBDA b :
    LET ptr == Wrap(MajorBits, FromLe(SubSeq(b, 1, U32Size)))
        len == Wrap(MajorBits, FromLe(SubSeq(b, U32Size + 1, 2 * U32Size)))
    IN mem_items(mem, ptr, len, 1))

symbol_chars(st, v) == IF is_object(v) THEN Visit(st, "Symbol", v) ELSE Ok(SymbolChars(v))
symbol_matches(st, s, v) == Then(symbol_chars(st, v), LAMBDA c : Ok(CmpSeq(c, s) = Equal))
check_symbol_matches(st, s, v) ==
  Then(symbol_matches(st, s, v), LAMBDA same : Require(same, Err("Value", "InvalidInput"), Ok(v)))

memobj_copy_to_linear_memory(st, ty, obj, obj_pos, lm_pos, len) ==
  Then(Visit(st, ty, obj), LAMBDA s :
    IF obj_pos + len > U32Max THEN ArithDomain
    ELSE IF obj_pos + len > Len(s) THEN IndexBounds
         ELSE Then(write_bytes(st.mem, lm_pos, SubSeq(s, obj_pos + 1, obj_pos + len)),
                   LAMBDA m : Ret([st EXCEPT !.mem = m], from_void)))

\* The object is extended with zeros up to the range that is overwritten.
memobj_copy_from_linear_memory(st, ty, obj, obj_pos, lm_pos, len) ==
  Then(Visit(st, ty, obj), LAMBDA s :
    IF obj_pos + len > U32Max THEN ArithDomain
    ELSE LET end == obj_pos + len
             n == IF Len(s) < end THEN end ELSE Len(s)
         IN Then(read_bytes(st.mem, lm_pos, len), LAMBDA b :
              New(st, ty, [i \in 1 .. n |-> IF i - obj_pos \in DOMAIN b THEN b[i - obj_pos]
                                            ELSE IF i \in DOMAIN s THEN s[i] ELSE 0])))

\* The bytes of a new symbol are not checked to be symbol characters, only their
\* number is bounded.
ScSymbol(b) == Require(Len(b) <= SymbolLimit, Err("Value", "InvalidInput"), Ok(b))
memobj_new_from_linear_memory(st, ty, lm_pos, len) ==
  Then(read_bytes(st.mem, lm_pos, len), LAMBDA b :
    Then(IF ty = "Symbol" THEN ScSymbol(b) ELSE Ok(b), LAMBDA s : New(st, ty, s)))
=============================================================================
