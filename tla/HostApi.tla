------------------------------- MODULE HostApi -------------------------------
(* The functions that env.json exports to guests from its modules "int",       *)
(* "map", "vec" and "buf", and obj_cmp, call and try_call: the types of their  *)
(* arguments, and for all but the calls the host function that is run.         *)
EXTENDS HostCollections

(* The signatures of the exported functions, by env.json module.               *)

IntSig == [
  obj_from_u64 |-> <<"u64">>, obj_to_u64 |-> <<"U64Object">>,
  obj_from_i64 |-> <<"i64">>, obj_to_i64 |-> <<"I64Object">>,
  timepoint_obj_from_u64 |-> <<"u64">>, timepoint_obj_to_u64 |-> <<"TimepointObject">>,
  duration_obj_from_u64 |-> <<"u64">>, duration_obj_to_u64 |-> <<"DurationObject">>,
  obj_from_u128_pieces |-> <<"u64", "u64">>,
  obj_to_u128_lo64 |-> <<"U128Object">>, obj_to_u128_hi64 |-> <<"U128Object">>,
  obj_from_i128_pieces |-> <<"i64", "u64">>,
  obj_to_i128_lo64 |-> <<"I128Object">>, obj_to_i128_hi64 |-> <<"I128Object">>,
  obj_from_u256_pieces |-> <<"u64", "u64", "u64", "u64">>,
  obj_to_u256_hi_hi |-> <<"U256Object">>, obj_to_u256_hi_lo |-> <<"U256Object">>,
  obj_to_u256_lo_hi |-> <<"U256Object">>, obj_to_u256_lo_lo |-> <<"U256Object">>,
  u256_val_from_be_bytes |-> <<"BytesObject">>, u256_val_to_be_bytes |-> <<"U256Val">>,
  obj_from_i256_pieces |-> <<"i64", "u64", "u64", "u64">>,
  obj_to_i256_hi_hi |-> <<"I256Object">>, obj_to_i256_hi_lo |-> <<"I256Object">>,
  obj_to_i256_lo_hi |-> <<"I256Object">>, obj_to_i256_lo_lo |-> <<"I256Object">>,
  i256_val_from_be_bytes |-> <<"BytesObject">>, i256_val_to_be_bytes |-> <<"I256Val">>,
  u256_add |-> <<"U256Val", "U256Val">>, u256_sub |-> <<"U256Val", "U256Val">>,
  u256_mul |-> <<"U256Val", "U256Val">>, u256_div |-> <<"U256Val", "U256Val">>,
  u256_rem_euclid |-> <<"U256Val", "U256Val">>, u256_pow |-> <<"U256Val", "U32Val">>,
  u256_shl |-> <<"U256Val", "U32Val">>, u256_shr |-> <<"U256Val", "U32Val">>,
  i256_add |-> <<"I256Val", "I256Val">>, i256_sub |-> <<"I256Val", "I256Val">>,
  i256_mul |-> <<"I256Val", "I256Val">>, i256_div |-> <<"I256Val", "I256Val">>,
  i256_rem_euclid |-> <<"I256Val", "I256Val">>, i256_pow |-> <<"I256Val", "U32Val">>,
  i256_shl |-> <<"I256Val", "U32Val">>, i256_shr |-> <<"I256Val", "U32Val">>]

MapSig == [
  map_new |-> <<>>, map_put |-> <<"MapObject", "Val", "Val">>, map_get |-> <<"MapObject", "Val">>,
  map_del |-> <<"MapObject", "Val">>, map_len |-> <<"MapObject">>, map_has |-> <<"MapObject", "Val">>,
  map_key_by_pos |-> <<"MapObject", "U32Val">>, map_val_by_pos |-> <<"MapObject", "U32Val">>,
  map_keys |-> <<"MapObject">>, map_values |-> <<"MapObject">>,
  map_new_from_linear_memory |-> <<"U32Val", "U32Val", "U32Val">>,
  map_unpack_to_linear_memory |-> <<"MapObject", "U32Val", "U32Val", "U32Val">>]

VecSig == [
  vec_new |-> <<>>, vec_put |-> <<"VecObject", "U32Val", "Val">>, vec_get |-> <<"VecObject", "U32Val">>,
  vec_del |-> <<"VecObject", "U32Val">>, vec_len |-> <<"VecObject">>,
  vec_push_front |-> <<"VecObject", "Val">>, vec_pop_front |-> <<"VecObject">>,
  vec_push_back |-> <<"VecObject", "Val">>, vec_pop_back |-> <<"VecObject">>,
  vec_front |-> <<"VecObject">>, vec_back |-> <<"VecObject">>,
  vec_insert |-> <<"VecObject", "U32Val", "Val">>, vec_append |-> <<"VecObject", "VecObject">>,
  vec_slice |-> <<"VecObject", "U32Val", "U32Val">>, vec_first_index_of |-> <<"VecObject", "Val">>,
  vec_last_index_of |-> <<"VecObject", "Val">>, vec_binary_search |-> <<"VecObject", "Val">>,
  vec_new_from_linear_memory |-> <<"U32Val", "U32Val">>,
  vec_unpack_to_linear_memory |-> <<"VecObject", "U32Val", "U32Val">>]

BufSig == [
  serialize_to_bytes |-> <<"Val">>, deserialize_from_bytes |-> <<"BytesObject">>,
  bytes_copy_to_linear_memory |-> <<"BytesObject", "U32Val", "U32Val", "U32Val">>,
  bytes_copy_from_linear_memory |-> <<"BytesObject", "U32Val", "U32Val", "U32Val">>,
  bytes_new_from_linear_memory |-> <<"U32Val", "U32Val">>, bytes_new |-> <<>>,
  bytes_put |-> <<"BytesObject", "U32Val", "U32Val">>, bytes_get |-> <<"BytesObject", "U32Val">>,
  bytes_del |-> <<"BytesObject", "U32Val">>, bytes_len |-> <<"BytesObject">>,
  bytes_push |-> <<"BytesObject", "U32Val">>, bytes_pop |-> <<"BytesObject">>,
  bytes_front |-> <<"BytesObject">>, bytes_back |-> <<"BytesObject">>,
  bytes_insert |-> <<"BytesObject", "U32Val", "U32Val">>, bytes_append |-> <<"BytesObject", "BytesObject">>,
  bytes_slice |-> <<"BytesObject", "U32Val", "U32Val">>,
  string_copy_to_linear_memory |-> <<"StringObject", "U32Val", "U32Val", "U32Val">>,
  symbol_copy_to_linear_memory |-> <<"SymbolObject", "U32Val", "U32Val", "U32Val">>,
  string_new_from_linear_memory |-> <<"U32Val", "U32Val">>,
  symbol_new_from_linear_memory |-> <<"U32Val", "U32Val">>, string_len |-> <<"StringObject">>,
  symbol_len |-> <<"SymbolObject">>, symbol_index_in_linear_memory |-> <<"Symbol", "U32Val", "U32Val">>]

CmpSig == [obj_cmp |-> <<"Val", "Val">>]
CallSig == [call |-> <<"AddressObject", "Symbol", "VecObject">>,
            try_call |-> <<"AddressObject", "Symbol", "VecObject">>]

IntFn(f, st, a) ==
  CASE f = "obj_from_u64"           -> obj_from_num(st, "U64", a[1])
    [] f = "obj_from_i64"           -> obj_from_num(st, "I64", a[1])
    [] f = "timepoint_obj_from_u64" -> obj_from_num(st, "Timepoint", a[1])
    [] f = "duration_obj_from_u64"  -> obj_from_num(st, "Duration", a[1])
    [] f = "obj_to_u64"             -> obj_to_num(st, "U64", a[1])
    [] f = "obj_to_i64"             -> obj_to_num(st, "I64", a[1])
    [] f = "timepoint_obj_to_u64"   -> obj_to_num(st, "Timepoint", a[1])
    [] f = "duration_obj_to_u64"    -> obj_to_num(st, "Duration", a[1])
    [] f = "obj_from_u128_pieces"   -> obj_from_pieces(st, "U128", a)
    [] f = "obj_from_i128_pieces"   -> obj_from_pieces(st, "I128", a)
    [] f = "obj_from_u256_pieces"   -> obj_from_pieces(st, "U256", a)
    [] f = "obj_from_i256_pieces"   -> obj_from_pieces(st, "I256", a)
    [] f = "obj_to_u128_hi64"       -> obj_to_piece(st, "U128", 1, a[1])
    [] f = "obj_to_u128_lo64"       -> obj_to_piece(st, "U128", 2, a[1])
    [] f = "obj_to_i128_hi64"       -> obj_to_piece(st, "I128", 1, a[1])
    [] f = "obj_to_i128_lo64"       -> obj_to_piece(st, "I128", 2, a[1])
    [] f = "obj_to_u256_hi_hi"      -> obj_to_piece(st, "U256", 1, a[1])
    [] f = "obj_to_u256_hi_lo"      -> obj_to_piece(st, "U256", 2, a[1])
    [] f = "obj_to_u256_lo_hi"      -> obj_to_piece(st, "U256", 3, a[1])
    [] f = "obj_to_u256_lo_lo"      -> obj_to_piece(st, "U256", 4, a[1])
    [] f = "obj_to_i256_hi_hi"      -> obj_to_piece(st, "I256", 1, a[1])
    [] f = "obj_to_i256_hi_lo"      -> obj_to_piece(st, "I256", 2, a[1])
    [] f = "obj_to_i256_lo_hi"      -> obj_to_piece(st, "I256", 3, a[1])
    [] f = "obj_to_i256_lo_lo"      -> obj_to_piece(st, "I256", 4, a[1])
    [] f = "u256_val_from_be_bytes" -> val_from_be_bytes(st, "U256", a[1])
    [] f = "i256_val_from_be_bytes" -> val_from_be_bytes(st, "I256", a[1])
    [] f = "u256_val_to_be_bytes"   -> val_to_be_bytes(st, "U256", a[1])
    [] f = "i256_val_to_be_bytes"   -> val_to_be_bytes(st, "I256", a[1])
    [] f = "u256_add" -> bignum_host_fn(st, "U256", "add", a[1], a[2])
    [] f = "u256_sub" -> bignum_host_fn(st, "U256", "sub", a[1], a[2])
    [] f = "u256_mul" -> bignum_host_fn(st, "U256", "mul", a[1], a[2])
    [] f = "u256_div" -> bignum_host_fn(st, "U256", "div", a[1], a[2])
    [] f = "u256_rem_euclid" -> bignum_host_fn(st, "U256", "rem", a[1], a[2])
    [] f = "u256_pow" -> bignum_host_fn_rhs_u32(st, "U256", "pow", a[1], a[2])
    [] f = "u256_shl" -> bignum_host_fn_rhs_u32(st, "U256", "shl", a[1], a[2])
    [] f = "u256_shr" -> bignum_host_fn_rhs_u32(st, "U256", "shr", a[1], a[2])
    [] f = "i256_add" -> bignum_host_fn(st, "I256", "add", a[1], a[2])
    [] f = "i256_sub" -> bignum_host_fn(st, "I256", "sub", a[1], a[2])
    [] f = "i256_mul" -> bignum_host_fn(st, "I256", "mul", a[1], a[2])
    [] f = "i256_div" -> bignum_host_fn(st, "I256", "div", a[1], a[2])
    [] f = "i256_rem_euclid" -> bignum_host_fn(st, "I256", "rem", a[1], a[2])
    [] f = "i256_pow" -> bignum_host_fn_rhs_u32(st, "I256", "pow", a[1], a[2])
    [] f = "i256_shl" -> bignum_host_fn_rhs_u32(st, "I256", "shl", a[1], a[2])
    [] f = "i256_shr" -> bignum_host_fn_rhs_u32(st, "I256", "shr", a[1], a[2])

MapFn(f, st, a) ==
  CASE f = "map_new"  -> map_new(st)
    [] f = "map_put"  -> map_put(st, a[1], a[2], a[3])
    [] f = "map_get"  -> map_get(st, a[1], a[2])
    [] f = "map_del"  -> map_del(st, a[1], a[2])
    [] f = "map_len"  -> map_len(st, a[1])
    [] f = "map_has"  -> map_has(st, a[1], a[2])
    [] f = "map_key_by_pos" -> map_key_by_pos(st, a[1], a[2])
    [] f = "map_val_by_pos" -> map_val_by_pos(st, a[1], a[2])
    [] f = "map_keys"   -> map_keys(st, a[1])
    [] f = "map_values" -> map_values(st, a[1])
    [] f = "map_new_from_linear_memory"  -> map_new_from_linear_memory(st, a[1], a[2], a[3])
    [] f = "map_unpack_to_linear_memory" -> map_unpack_to_linear_memory(st, a[1], a[2], a[3], a[4])

VecFn(f, st, a) ==
  CASE f = "vec_new" -> vec_new(st)
    [] f = "vec_put" -> vec_put(st, a[1], a[2], a[3])
    [] f = "vec_get" -> vec_get(st, a[1], a[2])
    [] f = "vec_del" -> vec_del(st, a[1], a[2])
    [] f = "vec_len" -> vec_len(st, a[1])
    [] f = "vec_push_front" -> vec_push_front(st, a[1], a[2])
    [] f = "vec_pop_front"  -> vec_pop_front(st, a[1])
    [] f = "vec_push_back"  -> vec_push_back(st, a[1], a[2])
    [] f = "vec_pop_back"   -> vec_pop_back(st, a[1])
    [] f = "vec_front"  -> vec_front(st, a[1])
    [] f = "vec_back"   -> vec_back(st, a[1])
    [] f = "vec_insert" -> vec_insert(st, a[1], a[2], a[3])
    [] f = "vec_append" -> vec_append(st, a[1], a[2])
    [] f = "vec_slice"  -> vec_slice(st, a[1], a[2], a[3])
    [] f = "vec_first_index_of" -> vec_first_index_of(st, a[1], a[2])
    [] f = "vec_last_index_of"  -> vec_last_index_of(st, a[1], a[2])
    [] f = "vec_binary_search"  -> vec_binary_search(st, a[1], a[2])
    [] f = "vec_new_from_linear_memory"  -> vec_new_from_linear_memory(st, a[1], a[2])
    [] f = "vec_unpack_to_linear_memory" -> vec_unpack_to_linear_memory(st, a[1], a[2], a[3])

BufFn(f, st, a) ==
  CASE f = "serialize_to_bytes"     -> serialize_to_bytes(st, a[1])
    [] f = "deserialize_from_bytes" -> deserialize_from_bytes(st, a[1])
    [] f = "bytes_copy_to_linear_memory"   -> buf_copy_to_linear_memory(st, "Bytes", a[1], a[2], a[3], a[4])
    [] f = "string_copy_to_linear_memory"  -> buf_copy_to_linear_memory(st, "String", a[1], a[2], a[3], a[4])
    [] f = "symbol_copy_to_linear_memory"  -> buf_copy_to_linear_memory(st, "Symbol", a[1], a[2], a[3], a[4])
    [] f = "bytes_copy_from_linear_memory" -> bytes_copy_from_linear_memory(st, a[1], a[2], a[3], a[4])
    [] f = "bytes_new_from_linear_memory"  -> buf_new_from_linear_memory(st, "Bytes", a[1], a[2])
    [] f = "string_new_from_linear_memory" -> buf_new_from_linear_memory(st, "String", a[1], a[2])
    [] f = "symbol_new_from_linear_memory" -> buf_new_from_linear_memory(st, "Symbol", a[1], a[2])
    [] f = "symbol_index_in_linear_memory" -> symbol_index_in_linear_memory(st, a[1], a[2], a[3])
    [] f = "bytes_len"  -> buf_len(st, "Bytes", a[1])
    [] f = "string_len" -> buf_len(st, "String", a[1])
    [] f = "symbol_len" -> buf_len(st, "Symbol", a[1])
    [] f = "bytes_new"  -> bytes_new(st)
    [] f = "bytes_put"  -> bytes_put(st, a[1], a[2], a[3])
    [] f = "bytes_get"  -> bytes_get(st, a[1], a[2])
    [] f = "bytes_del"  -> bytes_del(st, a[1], a[2])
    [] f = "bytes_push" -> bytes_push(st, a[1], a[2])
    [] f = "bytes_pop"  -> bytes_pop(st, a[1])
    [] f = "bytes_front" -> bytes_front(st, a[1])
    [] f = "bytes_back"  -> bytes_back(st, a[1])
    [] f = "bytes_insert" -> bytes_insert(st, a[1], a[2], a[3])
    [] f = "bytes_append" -> bytes_append(st, a[1], a[2])
    [] f = "bytes_slice"  -> bytes_slice(st, a[1], a[2], a[3])

CmpFn(f, st, a) == Then(obj_cmp(st.objs, DepthLimit, a[1], a[2]), LAMBDA o : RetNumber(st, o))
=============================================================================
