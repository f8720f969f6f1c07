--------------------------- MODULE HostCollections ---------------------------
(* The host functions on maps, vectors, bytes, strings and symbols, and the    *)
(* tables that say which arguments each exported function takes (env.json).    *)
EXTENDS HostFns

-----------------------------------------------------------------------------
(* "map" module.                                                               *)

map_new(st) == New(st, "Map", <<>>)
map_put(st, m, k, v) ==
  Then(Visit(st, "Map", m), LAMBDA hm : Then(map_insert(st.objs, hm, k, v), LAMBDA new : New(st, "Map", new)))
map_get(st, m, k) ==
  Then(Visit(st, "Map", m), LAMBDA hm : Then(map_lookup(st.objs, hm, k), LAMBDA f :
    Require(f # <<>>, Err("Object", "MissingValue"), Ret(st, f[1]))))
map_del(st, m, k) ==
  Then(Visit(st, "Map", m), LAMBDA hm : Then(map_remove(st.objs, hm, k), LAMBDA r :
    Require(r # <<>>, Err("Object", "MissingValue"), New(st, "Map", r[1]))))
map_len(st, m) == Then(Visit(st, "Map", m), LAMBDA hm : RetU32(st, Len(hm)))
map_has(st, m, k) ==
  Then(Visit(st, "Map", m), LAMBDA hm : Then(map_find(st.objs, hm, k), LAMBDA f : Ret(st, from_bool(f[1]))))
map_key_by_pos(st, m, i) ==
  Then(Visit(st, "Map", m), LAMBDA hm : Then(get_at_index(hm, u32_of(i)), LAMBDA e : Ret(st, e[1])))
map_val_by_pos(st, m, i) ==
  Then(Visit(st, "Map", m), LAMBDA hm : Then(get_at_index(hm, u32_of(i)), LAMBDA e : Ret(st, e[2])))
map_keys(st, m) ==
  Then(Visit(st, "Map", m), LAMBDA hm : New(st, "Vec", [i \in DOMAIN hm |-> hm[i][1]]))
map_values(st, m) ==
  Then(Visit(st, "Map", m), LAMBDA hm : New(st, "Vec", [i \in DOMAIN hm |-> hm[i][2]]))

\* Keys are slices of bytes that go through the conversion of a symbol ScVal,
\* values are references of the frame; from_exact_iter checks the order.
map_new_from_linear_memory(st, keys_pos, vals_pos, len) ==
  LET n == u32_of(len)
  IN Then(Collect([i \in 1 .. n |-> Then(scan_slice(st.mem, u32_of(keys_pos), i), ScSymbol)]), LAMBDA slices :
       Then(to_host_vals(st.objs, DepthLimit, [i \in 1 .. n |-> Sc("Symbol", slices[i])]), LAMBDA p :
         LET new == [st EXCEPT !.objs = p.objs]
         IN Then(read_vals(new, u32_of(vals_pos), n), LAMBDA vs :
              Then(from_map(new.objs, [i \in 1 .. n |-> <<p.vals[i], vs[i]>>]),
                   LAMBDA m : New(new, "Map", m)))))

map_unpack_to_linear_memory(st, m, keys_pos, vals_pos, len) ==
  Then(Visit(st, "Map", m), LAMBDA hm :
    LET n == u32_of(len)
        check(i) == Then(scan_slice(st.mem, u32_of(keys_pos), i), LAMBDA s :
                      Require(hm[i][1].tag \in {"SymbolSmall", "SymbolObject"}, ConversionError,
                              check_symbol_matches(st, s, hm[i][1])))
    IN IF Len(hm) # n THEN Err("Object", "UnexpectedSize")
       ELSE Then(Collect([i \in 1 .. n |-> check(i)]),
                 LAMBDA ks : write_vals(st, u32_of(vals_pos), [i \in 1 .. n |-> hm[i][2]])))

-----------------------------------------------------------------------------
(* "vec" module; the same splices serve the "buf" functions on bytes.          *)

validate_index_lt_bound(i, n, r) == Require(i < n, IndexBounds, r)
validate_index_le_bound(i, n, r) == Require(i <= n, IndexBounds, r)
valid_range_from_start_end_bound(start, end, n, r) ==
  validate_index_le_bound(start, n, validate_index_le_bound(end, n,
    Require(start <= end, Err("Object", "InvalidInput"), r)))
validate_usize_sum_fits_in_u32(a, b, r) == Require(a + b <= U32Max, ArithDomain, r)

DropAt(s, i) == SubSeq(s, 1, i) \o SubSeq(s, i + 2, Len(s))
InsertAt0(s, i, x) == SubSeq(s, 1, i) \o <<x>> \o SubSeq(s, i + 1, Len(s))

vec_new(st) == New(st, "Vec", <<>>)
vec_put(st, v, i, x) ==
  Then(Visit(st, "Vec", v), LAMBDA hv :
    validate_index_lt_bound(u32_of(i), Len(hv), New(st, "Vec", [hv EXCEPT ![u32_of(i) + 1] = x])))
vec_get(st, v, i) ==
  Then(Visit(st, "Vec", v), LAMBDA hv : validate_index_lt_bound(u32_of(i), Len(hv), Ret(st, hv[u32_of(i) + 1])))
vec_del(st, v, i) ==
  Then(Visit(st, "Vec", v), LAMBDA hv :
    validate_index_lt_bound(u32_of(i), Len(hv), New(st, "Vec", DropAt(hv, u32_of(i)))))
vec_len(st, v) == Then(Visit(st, "Vec", v), LAMBDA hv : RetU32(st, Len(hv)))
vec_push_front(st, v, x) ==
  Then(Visit(st, "Vec", v), LAMBDA hv : Require(Len(hv) < U32Max, IndexBounds, New(st, "Vec", <<x>> \o hv)))
vec_pop_front(st, v) ==
  Then(Visit(st, "Vec", v), LAMBDA hv : Require(hv # <<>>, IndexBounds, New(st, "Vec", SubSeq(hv, 2, Len(hv)))))
vec_push_back(st, v, x) ==
  Then(Visit(st, "Vec", v), LAMBDA hv : Require(Len(hv) < U32Max, IndexBounds, New(st, "Vec", Append(hv, x))))
vec_pop_back(st, v) ==
  Then(Visit(st, "Vec", v), LAMBDA hv : Require(hv # <<>>, IndexBounds, New(st, "Vec", SubSeq(hv, 1, Len(hv) - 1))))
vec_front(st, v) == Then(Visit(st, "Vec", v), LAMBDA hv : Require(hv # <<>>, IndexBounds, Ret(st, hv[1])))
vec_back(st, v) == Then(Visit(st, "Vec", v), LAMBDA hv : Require(hv # <<>>, IndexBounds, Ret(st, hv[Len(hv)])))
vec_insert(st, v, i, x) ==
  Then(Visit(st, "Vec", v), LAMBDA hv : validate_index_le_bound(u32_of(i), Len(hv),
    Require(Len(hv) < U32Max, IndexBounds, New(st, "Vec", InsertAt0(hv, u32_of(i), x)))))
vec_append(st, v1, v2) ==
  Then(Visit(st, "Vec", v1), LAMBDA a : Then(Visit(st, "Vec", v2), LAMBDA b :
    validate_usize_sum_fits_in_u32(Len(a), Len(b), New(st, "Vec", a \o b))))
vec_slice(st, v, start, end) ==
  Then(Visit(st, "Vec", v), LAMBDA hv : valid_range_from_start_end_bound(u32_of(start), u32_of(end), Len(hv),
    New(st, "Vec", SubSeq(hv, u32_of(start) + 1, u32_of(end)))))

\* The first position in the given order whose element equals x; a comparison
\* that fails before it ends the search.
FirstEqual(st, rs, order) ==
  LET stop == {i \in DOMAIN rs : ~rs[i].ok \/ rs[i].v = Equal}
  IN IF stop = {} THEN Ret(st, from_void)
     ELSE Then(rs[First(stop)], LAMBDA o : RetU32(st, order[First(stop)] - 1))
IndexIn(st, hv, order, x) ==
  FirstEqual(st, [i \in DOMAIN order |-> compare(st.objs, DepthLimit, x, hv[order[i]])], order)
vec_first_index_of(st, v, x) ==
  Then(Visit(st, "Vec", v), LAMBDA hv : IndexIn(st, hv, [i \in DOMAIN hv |-> i], x))
vec_last_index_of(st, v, x) ==
  Then(Visit(st, "Vec", v), LAMBDA hv : IndexIn(st, hv, [i \in DOMAIN hv |-> Len(hv) + 1 - i], x))
vec_binary_search(st, v, x) ==
  Then(Visit(st, "Vec", v), LAMBDA hv :
    Then(BinarySearch([i \in DOMAIN hv |-> compare(st.objs, DepthLimit, hv[i], x)]),
         LAMBDA f : RetNumber(st, f[2] + (IF f[1] THEN 2^MajorBits ELSE 0))))
vec_new_from_linear_memory(st, pos, len) ==
  Then(read_vals(st, u32_of(pos), u32_of(len)), LAMBDA vs : New(st, "Vec", vs))
vec_unpack_to_linear_memory(st, v, pos, len) ==
  Then(Visit(st, "Vec", v), LAMBDA hv :
    Require(Len(hv) = u32_of(len), Err("Object", "UnexpectedSize"), write_vals(st, u32_of(pos), hv)))

-----------------------------------------------------------------------------
(* "buf" module.  The XDR codec is not modelled: the bytes of the i-th ScVal   *)
(* of Wire are the one byte i, and other bytes are the XDR of nothing.         *)

WriteXdr(sc) ==
  LET same == {i \in DOMAIN Wire : Wire[i] = sc}
  IN IF same = {} THEN <<ByteMax, ByteMax>> ELSE <<First(same)>>
ReadXdr(b) ==
  IF Len(b) = 1 /\ b[1] \in DOMAIN Wire THEN Ok(Wire[b[1]]) ELSE Err("Value", "InvalidInput")

serialize_to_bytes(st, v) ==
  Then(from_host_val(st.objs, DepthLimit, v), LAMBDA sc : New(st, "Bytes", WriteXdr(sc)))
deserialize_from_bytes(st, b) ==
  Then(Visit(st, "Bytes", b), LAMBDA s : Then(ReadXdr(s), LAMBDA sc :
    Require(can_represent_scval(sc), Err("Value", "UnexpectedType"),
            Then(to_host_val(st.objs, DepthLimit, sc), LAMBDA p : Ret([st EXCEPT !.objs = p.objs], p.val)))))

\* {bytes,string,symbol}_{copy_to,new_from}_linear_memory and _len.
buf_copy_to_linear_memory(st, ty, b, b_pos, lm_pos, len) ==
  memobj_copy_to_linear_memory(st, ty, b, u32_of(b_pos), u32_of(lm_pos), u32_of(len))
bytes_copy_from_linear_memory(st, b, b_pos, lm_pos, len) ==
  memobj_copy_from_linear_memory(st, "Bytes", b, u32_of(b_pos), u32_of(lm_pos), u32_of(len))
buf_new_from_linear_memory(st, ty, lm_pos, len) ==
  memobj_new_from_linear_memory(st, ty, u32_of(lm_pos), u32_of(len))
buf_len(st, ty, b) == Then(Visit(st, ty, b), LAMBDA s : RetU32(st, Len(s)))

symbol_index_in_linear_memory(st, sym, pos, len) ==
  Then(Collect([i \in 1 .. u32_of(len) |->
         Then(scan_slice(st.mem, u32_of(pos), i), LAMBDA s : symbol_matches(st, s, sym))]), LAMBDA ms :
    LET hits == {i \in DOMAIN ms : ms[i]}
    IN Require(hits # {}, Err("Value", "MissingValue"),
               RetU32(st, First(hits) - 1)))

u8_from_u32val_input(u) == Require(u32_of(u) <= ByteMax, ArithDomain, Ok(u32_of(u)))
bytes_new(st) == New(st, "Bytes", <<>>)
bytes_put(st, b, i, u) ==
  Then(u8_from_u32val_input(u), LAMBDA x : Then(Visit(st, "Bytes", b), LAMBDA s :
    Require(u32_of(i) < Len(s), IndexBounds, New(st, "Bytes", [s EXCEPT ![u32_of(i) + 1] = x]))))
bytes_get(st, b, i) ==
  Then(Visit(st, "Bytes", b), LAMBDA s : Require(u32_of(i) < Len(s), IndexBounds, RetU32(st, s[u32_of(i) + 1])))
bytes_del(st, b, i) ==
  Then(Visit(st, "Bytes", b), LAMBDA s :
    validate_index_lt_bound(u32_of(i), Len(s), New(st, "Bytes", DropAt(s, u32_of(i)))))
bytes_push(st, b, u) ==
  Then(u8_from_u32val_input(u), LAMBDA x : Then(Visit(st, "Bytes", b), LAMBDA s :
    validate_usize_sum_fits_in_u32(Len(s), 1, New(st, "Bytes", Append(s, x)))))
bytes_pop(st, b) ==
  Then(Visit(st, "Bytes", b), LAMBDA s : Require(s # <<>>, IndexBounds, New(st, "Bytes", SubSeq(s, 1, Len(s) - 1))))
bytes_front(st, b) == Then(Visit(st, "Bytes", b), LAMBDA s : Require(s # <<>>, IndexBounds, RetU32(st, s[1])))
bytes_back(st, b) == Then(Visit(st, "Bytes", b), LAMBDA s : Require(s # <<>>, IndexBounds, RetU32(st, s[Len(s)])))
bytes_insert(st, b, i, u) ==
  Then(u8_from_u32val_input(u), LAMBDA x : Then(Visit(st, "Bytes", b), LAMBDA s :
    validate_index_le_bound(u32_of(i), Len(s),
      validate_usize_sum_fits_in_u32(Len(s), 1, New(st, "Bytes", InsertAt0(s, u32_of(i), x))))))
bytes_append(st, b1, b2) ==
  Then(Visit(st, "Bytes", b1), LAMBDA a : Then(Visit(st, "Bytes", b2), LAMBDA b :
    validate_usize_sum_fits_in_u32(Len(a), Len(b), New(st, "Bytes", a \o b))))
bytes_slice(st, b, start, end) ==
  Then(Visit(st, "Bytes", b), LAMBDA s : valid_range_from_start_end_bound(u32_of(start), u32_of(end), Len(s),
    New(st, "Bytes", SubSeq(s, u32_of(start) + 1, u32_of(end)))))
=============================================================================
