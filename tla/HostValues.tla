----------------------------- MODULE HostValues -----------------------------
(* The host side of values: the table of host objects and the handles into it *)
(* (host_object.rs), the order of Vals and of ScVals (compare.rs, obj_cmp,     *)
(* host/comparison.rs), the conversions between them (host/conversion.rs) and  *)
(* the ordered map (host/metered_map.rs).  A host object is [ty, v]: v is a     *)
(* number, a sequence of bytes, a sequence of Vals or of <<key, value>> pairs. *)
(* The object table is passed around as objs; an operator that allocates       *)
(* answers with the table it leaves.                                           *)
EXTENDS Values

CONSTANT DepthLimit     \* nesting of a conversion or comparison (limits.rs)

ASSUME DepthAssumption == DepthLimit \in Nat \ {0}

ExceededLimit == Err("Context", "ExceededLimit")

-----------------------------------------------------------------------------
(* Handles: even ones index the frame's table, odd ones the host's.            *)

is_relative_object_handle(h) == h % 2 = 0
handle_to_index(h) == h \div 2

\* checked_shl refuses only shifts of 32 bits and more, so the top bit of the
\* index is lost silently.
index_to_handle(index, relative) ==
  Require(index <= U32Max, Err("Value", "ArithDomain"),
          Ok(Wrap(MajorBits, 2 * index) + (IF relative THEN 0 ELSE 1)))

\* Mutant: absolute handles pass through.
relative_to_absolute_open(table, v) ==
  LET index == handle_to_index(get_major(v))
  IN IF ~is_object(v) \/ ~is_relative_object_handle(get_major(v)) THEN Ok(v)
     ELSE IF index < Len(table) /\ table[index + 1].tag = v.tag
          THEN Ok(table[index + 1]) ELSE Err("Value", "InvalidInput")

relative_to_absolute(table, v) ==
  LET index == handle_to_index(get_major(v))
  IN IF ~is_object(v) THEN Ok(v)
     ELSE IF is_relative_object_handle(get_major(v)) /\ index < Len(table) /\ table[index + 1].tag = v.tag
          THEN Ok(table[index + 1]) ELSE Err("Value", "InvalidInput")

absolute_to_relative(table, v) ==
  IF ~is_object(v) THEN Ok([table |-> table, val |-> v])
  ELSE IF is_relative_object_handle(get_major(v)) THEN Err("Context", "InternalError")
       ELSE Then(index_to_handle(Len(table), TRUE),
                 LAMBDA h : Ok([table |-> Append(table, v), val |-> from_major_minor(v.tag, h, 0)]))

HostObject(ty, v) == [ty |-> ty, v |-> v]

add_host_object(objs, ho) ==
  Then(index_to_handle(Len(objs), FALSE),
       LAMBDA h : Ok([objs |-> Append(objs, ho), val |-> from_major_minor(ObjectTag[ho.ty], h, 0)]))

visit_obj_untyped(objs, v) ==
  LET index == handle_to_index(get_major(v))
  IN IF is_relative_object_handle(get_major(v)) THEN Err("Object", "InternalError")
     ELSE Require(index < Len(objs), Err("Value", "InvalidInput"), Ok(objs[index + 1]))

\* visit_obj: by the time a handle gets here its tag must match its object.
visit_obj(objs, ty, v) ==
  Then(visit_obj_untyped(objs, v),
       LAMBDA ho : Require(ho.ty = ty, Err("Object", "InternalError"), Ok(ho.v)))

check_obj_integrity(objs, v) ==
  Then(visit_obj_untyped(objs, v),
       LAMBDA ho : Require(ObjectTag[ho.ty] = v.tag, Err("Value", "InvalidInput"), Ok(v)))

check_val_integrity(objs, v) ==
  IF is_object(v) /\ is_good(v) THEN check_obj_integrity(objs, v)
  ELSE Require(is_good(v), Err("Value", "InvalidInput"), Ok(v))

-----------------------------------------------------------------------------
(* The order of Vals.                                                          *)

\* The elements of a sequence of pairs in a row: comparing these is comparing
\* the pairs, first component first.
Flatten(pairs) == [i \in 1 .. 2 * Len(pairs) |-> pairs[(i + 1) \div 2][2 - (i % 2)]]
Pairs(s) == [i \in 1 .. Len(s) \div 2 |-> <<s[2 * i - 1], s[2 * i]>>]

\* Compare<Vec<T>>: the first pair of elements that differs or fails to compare
\* decides, then the lengths.
CmpElements(rs, n, m) ==
  LET stop == {i \in DOMAIN rs : ~rs[i].ok \/ rs[i].v # Equal}
  IN IF stop = {} THEN Ok(Cmp(n, m)) ELSE rs[First(stop)]

host_obj_discriminant(ho) == TagNumber[ObjectTag[ho.ty]]

\* Mutants: small numbers are read as unsigned ones; one type is forgotten.
try_compare_to_small_unsigned(ho, small) ==
  CASE ho.ty \in NumTypes /\ small.tag = SmallTag[ho.ty] -> <<Cmp(ho.v, small.body)>>
    [] ho.ty = "Symbol" /\ small.tag = "SymbolSmall"     -> <<CmpSeq(ho.v, SymbolChars(small))>>
    [] OTHER                                             -> <<>>
try_compare_to_small_forgetful(ho, small) ==
  CASE ho.ty \in NumTypes \ {"I128"} /\ small.tag = SmallTag[ho.ty] -> <<Cmp(ho.v, small_to_num(small))>>
    [] ho.ty = "Symbol" /\ small.tag = "SymbolSmall" -> <<CmpSeq(ho.v, SymbolChars(small))>>
    [] OTHER                                         -> <<>>

\* Shallow comparison with a small value of the same type; no answer (<<>>) for
\* a value of another type.
try_compare_to_small(ho, small) ==
  CASE ho.ty \in NumTypes /\ small.tag = SmallTag[ho.ty] -> <<Cmp(ho.v, small_to_num(small))>>
    [] ho.ty = "Symbol" /\ small.tag = "SymbolSmall"     -> <<CmpSeq(ho.v, SymbolChars(small))>>
    [] OTHER                                             -> <<>>

RECURSIVE compare(_, _, _, _)
RECURSIVE cmp_host_obj(_, _, _, _)

\* An object against a small value: by value if there is an answer, else by type.
cmp_types(a, b) == Require(a # b, Err("Value", "InternalError"), Ok(Cmp(a, b)))
small_answer(o, sign, ta, tb) == IF o = <<>> THEN cmp_types(ta, tb) ELSE Ok(sign * o[1])
scval_type_of(v) == ScValTypeNumber[get_scval_type(v.tag)]

\* obj_cmp of two values that are not equal bit by bit, d levels deep at most.
obj_cmp(objs, d, a, b) ==
  CASE is_object(a) /\ is_object(b) ->
         Then(visit_obj_untyped(objs, a),
              LAMBDA ao : Then(visit_obj_untyped(objs, b), LAMBDA bo : cmp_host_obj(objs, d, ao, bo)))
    [] is_object(a) /\ ~is_object(b) ->
         Then(visit_obj_untyped(objs, a),
              LAMBDA ao : small_answer(try_compare_to_small(ao, b), 1, scval_type_of(a), scval_type_of(b)))
    [] ~is_object(a) /\ is_object(b) ->
         Then(visit_obj_untyped(objs, b),
              LAMBDA bo : small_answer(try_compare_to_small(bo, a), -1, scval_type_of(a), scval_type_of(b)))
    [] OTHER -> Err("Value", "UnexpectedType")

\* Compare<Val>.
compare(objs, d, a, b) ==
  IF a = b THEN Ok(Equal)
  ELSE IF is_object(a) \/ is_object(b) THEN obj_cmp(objs, d, a, b)
       ELSE IF a.tag # b.tag THEN Ok(Cmp(TagNumber[a.tag], TagNumber[b.tag]))
            ELSE Ok(cmp_small(a, b))

\* Compare<MeteredVector<Val>>, and on flattened entries Compare<MeteredOrdMap>.
cmp_vals(objs, d, s, t) ==
  CmpElements([i \in DOMAIN s \intersect DOMAIN t |-> compare(objs, d, s[i], t[i])], Len(s), Len(t))

\* Compare<HostObject>, where the depth of a Val comparison is limited.
cmp_host_obj(objs, d, ao, bo) ==
  CASE d = 0                   -> ExceededLimit
    [] d > 0 /\ ao.ty # bo.ty  -> Ok(Cmp(host_obj_discriminant(ao), host_obj_discriminant(bo)))
    [] d > 0 /\ ao.ty = bo.ty /\ ao.ty \in NumTypes -> Ok(Cmp(ao.v, bo.v))
    [] d > 0 /\ ao.ty = bo.ty /\ ao.ty = "Vec"      -> cmp_vals(objs, d - 1, ao.v, bo.v)
    [] d > 0 /\ ao.ty = bo.ty /\ ao.ty = "Map"      -> cmp_vals(objs, d - 1, Flatten(ao.v), Flatten(bo.v))
    [] OTHER                   -> Ok(CmpSeq(ao.v, bo.v))

(* The order of ScVals, by which the ledger and the footprint sort.            *)
RECURSIVE cmp_scval(_, _, _)
cmp_scvals(d, s, t) ==
  CmpElements([i \in DOMAIN s \intersect DOMAIN t |-> cmp_scval(d, s[i], t[i])], Len(s), Len(t))

IsNone(sc) == sc.t \in {"Vec", "Map"} /\ sc.v = <<>>
cmp_scval(d, a, b) ==
  CASE d = 0                                 -> ExceededLimit
    [] d > 0 /\ (IsNone(a) \/ IsNone(b))     -> Err("Value", "InvalidInput")
    [] d > 0 /\ ~IsNone(a) /\ ~IsNone(b) /\ a.t # b.t ->
         Ok(Cmp(ScValTypeNumber[a.t], ScValTypeNumber[b.t]))
    [] d > 0 /\ ~IsNone(a) /\ ~IsNone(b) /\ a.t = b.t /\ a.t = "Vec" -> cmp_scvals(d - 1, a.v[1], b.v[1])
    [] d > 0 /\ ~IsNone(a) /\ ~IsNone(b) /\ a.t = b.t /\ a.t = "Map" ->
         cmp_scvals(d - 1, Flatten(a.v[1]), Flatten(b.v[1]))
    [] OTHER                                 -> Ok(CmpSeq(a.v, b.v))

-----------------------------------------------------------------------------
(* The metered ordered map: a sequence of pairs with strictly growing keys.    *)

\* The standard library's binary search over the answers of the comparisons
\* with each element: <<found, position>>, or the failure of a comparison made.
BinarySearch(rs) ==
  LET search[left \in 0 .. Len(rs), right \in 0 .. Len(rs)] ==
        LET mid == left + (right - left) \div 2
            r == rs[mid + 1]
        IN IF left >= right THEN Ok(<<FALSE, left>>)
           ELSE IF ~r.ok THEN r
                ELSE CASE r.v = Equal   -> Ok(<<TRUE, mid>>)
                       [] r.v = Less    -> search[mid + 1, right]
                       [] r.v = Greater -> search[left, mid]
  IN search[0, Len(rs)]

\* Mutant: the order of the keys is not checked.
from_map_unchecked(objs, m) == Ok(m)

in_order(rs, m) ==
  LET stop == {i \in DOMAIN rs : ~rs[i].ok \/ rs[i].v # Less}
  IN IF stop = {} THEN Ok(m) ELSE Then(rs[First(stop)], LAMBDA o : Err("Object", "InvalidInput"))

from_map(objs, m) ==
  in_order([i \in 1 .. Len(m) - 1 |-> compare(objs, DepthLimit, m[i][1], m[i + 1][1])], m)

map_find(objs, m, k) ==
  BinarySearch([i \in DOMAIN m |-> compare(objs, DepthLimit, m[i][1], k)])

\* insert: replace the entry, key included, or put a new one in its place.
map_insert(objs, m, k, v) ==
  Then(map_find(objs, m, k),
       LAMBDA f : from_map(objs, SubSeq(m, 1, f[2]) \o << <<k, v>> >>
                                 \o SubSeq(m, IF f[1] THEN f[2] + 2 ELSE f[2] + 1, Len(m))))

\* remove: the map without the key, or nothing when there is no such key.
map_remove(objs, m, k) ==
  Then(map_find(objs, m, k),
       LAMBDA f : IF f[1] THEN Then(from_map(objs, SubSeq(m, 1, f[2]) \o SubSeq(m, f[2] + 2, Len(m))),
                                    LAMBDA new : Ok(<<new>>))
                  ELSE Ok(<<>>))

map_lookup(objs, m, k) ==
  Then(map_find(objs, m, k), LAMBDA f : Ok(IF f[1] THEN <<m[f[2] + 1][2]>> ELSE <<>>))

get_at_index(m, i) == Require(i < Len(m), Err("Object", "IndexBounds"), Ok(m[i + 1]))

-----------------------------------------------------------------------------
(* Conversions.                                                                *)

RECURSIVE can_represent_scval(_)
can_represent_scval(sc) ==
  CASE sc.t = "Vec" -> sc.v # <<>> /\ \A i \in DOMAIN sc.v[1] : can_represent_scval(sc.v[1][i])
    [] sc.t = "Map" -> sc.v # <<>> /\ LET s == Flatten(sc.v[1]) IN \A i \in DOMAIN s : can_represent_scval(s[i])
    [] OTHER        -> can_represent_scval_type(sc.t)

check_val_representable_scval(sc) ==
  Require(can_represent_scval(sc), Err("Value", "InternalError"), Ok(sc))

RECURSIVE from_host_val(_, _, _)
from_host_vals(objs, d, s) == Collect([i \in DOMAIN s |-> from_host_val(objs, d, s[i])])

from_host_obj(objs, d, v) ==
  Then(visit_obj_untyped(objs, v), LAMBDA ho :
    CASE ho.ty \in NumTypes -> Ok(Sc(ho.ty, into_pieces(ho.ty, ho.v)))
      [] ho.ty = "Vec"      -> Then(from_host_vals(objs, d, ho.v), LAMBDA s : Ok(Sc("Vec", <<s>>)))
      [] ho.ty = "Map"      -> Then(from_host_vals(objs, d, Flatten(ho.v)), LAMBDA s : Ok(Sc("Map", <<Pairs(s)>>)))
      [] OTHER              -> Ok(Sc(ho.ty, ho.v)))

Masked(r) == IF r.ok THEN r ELSE ConversionError

\* from_host_val: what went wrong inside an object is lost in a ConversionError.
from_host_val(objs, d, v) ==
  IF d = 0 THEN ExceededLimit
  ELSE Then(IF ~is_object(v) THEN scval_from_small(v)
            ELSE Masked(from_host_obj(objs, d - 1, v)),
            LAMBDA sc : check_val_representable_scval(sc))

RECURSIVE to_host_val(_, _, _)
RECURSIVE to_host_vals(_, _, _)
to_host_obj(objs, d, sc) ==
  CASE sc.t \in NumTypes -> add_host_object(objs, HostObject(sc.t, from_pieces(sc.t, sc.v)))
    [] sc.t = "Vec"      -> Then(to_host_vals(objs, d, sc.v[1]),
                                 LAMBDA p : add_host_object(p.objs, HostObject("Vec", p.vals)))
    [] sc.t = "Map"      -> Then(to_host_vals(objs, d, Flatten(sc.v[1])),
                                 LAMBDA p : Then(from_map(p.objs, Pairs(p.vals)),
                                                 LAMBDA m : add_host_object(p.objs, HostObject("Map", m))))
    [] OTHER             -> add_host_object(objs, HostObject(sc.t, sc.v))

to_host_val(objs, d, sc) ==
  IF ~can_represent_scval(sc) THEN Err("Value", "InternalError")
  ELSE IF d = 0 THEN ExceededLimit
       ELSE IF ~classify(sc) THEN Then(small_from_scval(sc), LAMBDA v : Ok([objs |-> objs, val |-> v]))
            ELSE Masked(to_host_obj(objs, d - 1, sc))

\* One after the other, each on the table the one before left.
to_host_vals(objs, d, scs) ==
  IF scs = <<>> THEN Ok([objs |-> objs, vals |-> <<>>])
  ELSE Then(to_host_vals(objs, d, SubSeq(scs, 1, Len(scs) - 1)),
            LAMBDA p : Then(to_host_val(p.objs, d, scs[Len(scs)]),
                            LAMBDA q : Ok([objs |-> q.objs, vals |-> Append(p.vals, q.val)])))
=============================================================================
