------------------------------- MODULE Values -------------------------------
(* The 64-bit tagged words ("Val") that guests and host exchange, and the      *)
(* ScVals they stand for in the ledger's XDR: soroban-env-common val.rs,       *)
(* num.rs, symbol.rs, error.rs and object.rs, at parameterised widths.         *)
(* A Val is [tag, body]; an ScVal is [t, v]; an error is <<type, code>>.       *)
EXTENDS Integers, Sequences, FiniteSets

CONSTANTS
  MajorBits,      \* 32 in the code: u32, i32, object handles, error codes
  MinorBits,      \* 24: error types
  WordBits,       \* 64: u64 and i64; two words make a 128-bit, four a 256-bit
  CodeBits,       \* 6: one character of a small symbol
  MaxSmallChars,  \* 9
  ByteBits,       \* 8
  CharCode,       \* encode_char: the bytes that may occur in a symbol -> code
  ErrorTypes,     \* the discriminants of ScErrorType; 0 is Contract
  ErrorCodes      \* the discriminants of ScErrorCode

BodyBits == MajorBits + MinorBits
TagBits == WordBits - BodyBits

ASSUME WidthAssumption ==
  /\ \A n \in {MajorBits, MinorBits, WordBits, CodeBits, MaxSmallChars, ByteBits} : n \in Nat \ {0}
  /\ TagBits > 0
  /\ CodeBits * MaxSmallChars + 2 = BodyBits
  /\ DOMAIN CharCode \subseteq 0 .. 2^ByteBits - 1
  /\ \A b \in DOMAIN CharCode : CharCode[b] \in 1 .. 2^CodeBits - 1
  /\ \A a, b \in DOMAIN CharCode : CharCode[a] = CharCode[b] => a = b
  /\ 0 \in ErrorTypes /\ ErrorTypes \subseteq 0 .. 2^MinorBits - 1
  /\ ErrorCodes \subseteq 0 .. 2^MajorBits - 1

-----------------------------------------------------------------------------
(* Results and orderings.                                                      *)

Ok(v) == [ok |-> TRUE, v |-> v]
Err(type, code) == [ok |-> FALSE, v |-> <<type, code>>]
ConversionError == Err("Value", "UnexpectedType")
Then(r, F(_)) == IF r.ok THEN F(r.v) ELSE r
Require(cond, e, r) == IF cond THEN r ELSE e

First(S) == CHOOSE i \in S : \A j \in S : i <= j

\* The results of a sequence of calls of which the first failure ends the rest.
Collect(rs) ==
  LET bad == {i \in DOMAIN rs : ~rs[i].ok}
  IN IF bad = {} THEN Ok([i \in DOMAIN rs |-> rs[i].v]) ELSE rs[First(bad)]

Less == -1
Equal == 0
Greater == 1
Cmp(a, b) == IF a < b THEN Less ELSE IF a = b THEN Equal ELSE Greater

\* Lexicographic order of sequences of numbers.
CmpFrom(s, t, d) == IF d = {} THEN Cmp(Len(s), Len(t)) ELSE Cmp(s[First(d)], t[First(d)])
CmpSeq(s, t) == CmpFrom(s, t, {i \in DOMAIN s \intersect DOMAIN t : s[i] # t[i]})

\* The two's complement reading of the low w bits of x, and the bits of x.
Signed(w, x) == LET u == x % 2^w IN IF u < 2^(w - 1) THEN u ELSE u - 2^w
Wrap(w, x) == x % 2^w
U32Max == 2^MajorBits - 1

-----------------------------------------------------------------------------
(* Tags, in the order of the enum; Bad is what every unassigned code maps to.  *)

SmallTags == <<"False", "True", "Void", "Error", "U32Val", "I32Val", "U64Small", "I64Small",
  "TimepointSmall", "DurationSmall", "U128Small", "I128Small", "U256Small", "I256Small", "SymbolSmall">>

ObjectTags == <<"U64Object", "I64Object", "TimepointObject", "DurationObject", "U128Object",
  "I128Object", "U256Object", "I256Object", "BytesObject", "StringObject", "SymbolObject",
  "VecObject", "MapObject", "AddressObject">>

Tags == SmallTags \o ObjectTags \o <<"Bad">>
TagNumber == [t \in {Tags[i] : i \in DOMAIN Tags} |-> CHOOSE i \in DOMAIN Tags : Tags[i] = t]

\* Tag::from_u8: a code outside the assigned ones is Bad.
from_u8(n) == IF n \in DOMAIN Tags THEN Tags[n] ELSE "Bad"

ScValTypes == <<"Bool", "Void", "Error", "U32", "I32", "U64", "I64", "Timepoint", "Duration", "U128",
  "I128", "U256", "I256", "Bytes", "String", "Symbol", "Vec", "Map", "Address", "ContractInstance",
  "LedgerKeyContractInstance", "LedgerKeyNonce">>
ScValTypeNumber ==
  [t \in {ScValTypes[i] : i \in DOMAIN ScValTypes} |-> CHOOSE i \in DOMAIN ScValTypes : ScValTypes[i] = t]

\* get_scval_type: the small tags after the two Booleans follow the order of
\* ScValType, and so do the object tags from U64 on.
scval_type_number(n) ==
  CASE n \in {1, 2}          -> 1
    [] n = Len(SmallTags)    -> ScValTypeNumber["Symbol"]
    [] n \in 3 .. Len(SmallTags) - 1 -> n - 1
    [] OTHER                 -> n - Len(SmallTags) + 5
get_scval_type(tag) == ScValTypes[scval_type_number(TagNumber[tag])]

Val(tag, body) == [tag |-> tag, body |-> body]
from_major_minor(tag, major, minor) == Val(tag, major * 2^MinorBits + minor)
get_major(v) == v.body \div 2^MinorBits
get_minor(v) == v.body % 2^MinorBits
get_signed_body(v) == Signed(BodyBits, v.body)

IsObjectTag(tag) == TagNumber[tag] > Len(SmallTags) /\ tag # "Bad"
is_object(v) == IsObjectTag(v.tag)

\* The fixed constructors.
from_bool(b) == Val(IF b THEN "True" ELSE "False", 0)
from_void == Val("Void", 0)
from_u32(n) == from_major_minor("U32Val", n, 0)
from_i32(n) == from_major_minor("I32Val", Wrap(MajorBits, n), 0)
u32_of(v) == get_major(v)
i32_of(v) == Signed(MajorBits, get_major(v))

\* ScError::try_from: a known type and, for all but contract errors, a known code.
IsScError(type, code) == type \in ErrorTypes /\ (type # 0 => code \in ErrorCodes)
from_error(type, code) == from_major_minor("Error", code, type)

-----------------------------------------------------------------------------
(* Small symbols.                                                              *)

SmallMask == 2^(CodeBits * MaxSmallChars)
try_from_body(body) == body < SmallMask

\* try_from_bytes: the codes are packed so that the last character is lowest.
try_from_bytes(b) ==
  IF Len(b) > MaxSmallChars \/ \E i \in DOMAIN b : b[i] \notin DOMAIN CharCode
  THEN ConversionError
  ELSE LET acc[i \in 0 .. Len(b)] == IF i = 0 THEN 0 ELSE acc[i - 1] * 2^CodeBits + CharCode[b[i]]
       IN Ok(Val("SymbolSmall", acc[Len(b)]))

\* SymbolSmallIter: from the top code to the lowest, passing over zeros.
SymbolChars(v) ==
  LET code(i) == (v.body \div 2^(CodeBits * (MaxSmallChars - i))) % 2^CodeBits
      codes == SelectSeq([i \in 1 .. MaxSmallChars |-> code(i)], LAMBDA k : k # 0)
  IN [i \in DOMAIN codes |-> CHOOSE b \in DOMAIN CharCode : CharCode[b] = codes[i]]

\* Val::is_good: an assigned tag, valid defined bits, and undefined bits zero.
is_good(v) ==
  CASE v.tag = "Bad"                                  -> FALSE
    [] v.tag \in {"True", "False", "Void"}            -> v.body = 0
    [] v.tag \in {"I32Val", "U32Val"} \/ is_object(v) -> get_minor(v) = 0
    [] v.tag = "Error"                                -> IsScError(get_minor(v), get_major(v))
    [] v.tag = "SymbolSmall"                          -> try_from_body(v.body)
    [] OTHER                                          -> TRUE

-----------------------------------------------------------------------------
(* Integers with a small and an object form.                                   *)

NumTypes == {"U64", "I64", "Timepoint", "Duration", "U128", "I128", "U256", "I256"}
NumWords(ty) == IF ty \in {"U128", "I128"} THEN 2 ELSE IF ty \in {"U256", "I256"} THEN 4 ELSE 1
NumBits(ty) == WordBits * NumWords(ty)
IsSigned(ty) == ty \in {"I64", "I128", "I256"}
SmallTag == [U64 |-> "U64Small", I64 |-> "I64Small", Timepoint |-> "TimepointSmall",
  Duration |-> "DurationSmall", U128 |-> "U128Small", I128 |-> "I128Small", U256 |-> "U256Small",
  I256 |-> "I256Small"]
ObjectTag == [U64 |-> "U64Object", I64 |-> "I64Object", Timepoint |-> "TimepointObject",
  Duration |-> "DurationObject", U128 |-> "U128Object", I128 |-> "I128Object", U256 |-> "U256Object",
  I256 |-> "I256Object", Bytes |-> "BytesObject", String |-> "StringObject", Symbol |-> "SymbolObject",
  Vec |-> "VecObject", Map |-> "MapObject", Address |-> "AddressObject"]

\* is_small_u64 and is_small_i64: the word survives losing its tag bits.
is_small_word(signed, x) ==
  IF signed THEN x = Signed(WordBits, Wrap(WordBits, x * 2^TagBits)) \div 2^TagBits
  ELSE x = Wrap(WordBits, x * 2^TagBits) \div 2^TagBits

\* is_small_u128 ... is_small_i256: the low word is small and is the number.
is_small(ty, x) ==
  LET word == IF IsSigned(ty) THEN Signed(WordBits, x) ELSE Wrap(WordBits, x)
  IN is_small_word(IsSigned(ty), word) /\ x = word

\* The low bits of a number below a tag, and back with the sign of the type.
num_to_small(ty, x) == Val(SmallTag[ty], Wrap(BodyBits, x))
small_to_num(v) ==
  IF IsSigned(get_scval_type(v.tag)) THEN get_signed_body(v) ELSE v.body

\* {u128,i128,u256,i256}_into_pieces and _from_pieces: most significant first,
\* the leading piece with the sign of the type.
into_pieces(ty, x) ==
  LET n == NumWords(ty)
      piece(i) == (x \div 2^(WordBits * (n - i))) % 2^WordBits
  IN [i \in 1 .. n |-> IF i = 1 /\ IsSigned(ty) THEN Signed(WordBits, piece(1)) ELSE piece(i)]
from_pieces(ty, p) ==
  LET acc[i \in 1 .. Len(p)] == IF i = 1 THEN p[1] ELSE acc[i - 1] * 2^WordBits + p[i]
  IN acc[Len(p)]

-----------------------------------------------------------------------------
(* ScVals.                                                                     *)

Sc(t, v) == [t |-> t, v |-> v]

can_represent_scval_type(t) == t \notin {"ContractInstance", "LedgerKeyContractInstance", "LedgerKeyNonce"}

\* ScValObjRef::classify: does this ScVal live in a host object?
classify(sc) ==
  CASE sc.t \in {"Bytes", "String", "Vec", "Map", "Address"} -> TRUE
    [] sc.t \in NumTypes  -> ~is_small(sc.t, from_pieces(sc.t, sc.v))
    [] sc.t = "Symbol"    -> Len(sc.v) > MaxSmallChars
    [] OTHER              -> FALSE

\* ScVal from a Val that is not an object.
small_body(t, v) ==
  CASE t = "Bool"     -> <<TagNumber[v.tag]>>
    [] t = "Void"     -> <<>>
    [] t = "Error"    -> <<get_minor(v), get_major(v)>>
    [] t = "U32"      -> <<u32_of(v)>>
    [] t = "I32"      -> <<i32_of(v)>>
    [] t = "Symbol"   -> SymbolChars(v)
    [] t \in NumTypes -> into_pieces(t, small_to_num(v))
scval_of_type(t, v) ==
  Require(t = "Error" => is_good(v), ConversionError, Ok(Sc(t, small_body(t, v))))
scval_from_small(v) == scval_of_type(get_scval_type(v.tag), v)

num_to_small_checked(ty, x) == Require(is_small(ty, x), ConversionError, Ok(num_to_small(ty, x)))

\* Val from an ScVal that classify has not sent to an object.
small_from_scval(sc) ==
  CASE sc.t = "Bool"     -> Ok(Val(Tags[sc.v[1]], 0))
    [] sc.t = "Void"     -> Ok(from_void)
    [] sc.t = "Error"    -> Ok(from_error(sc.v[1], sc.v[2]))
    [] sc.t = "U32"      -> Ok(from_u32(sc.v[1]))
    [] sc.t = "I32"      -> Ok(from_i32(sc.v[1]))
    [] sc.t = "Symbol"   -> try_from_bytes(sc.v)
    [] sc.t \in NumTypes -> num_to_small_checked(sc.t, from_pieces(sc.t, sc.v))
    [] OTHER             -> ConversionError

\* Comparison of two small Vals of one tag by their wrapper types.
cmp_small(a, b) ==
  CASE a.tag = "Error"       -> CmpSeq(<<get_minor(a), get_major(a)>>, <<get_minor(b), get_major(b)>>)
    [] a.tag = "U32Val"      -> Cmp(u32_of(a), u32_of(b))
    [] a.tag = "I32Val"      -> Cmp(i32_of(a), i32_of(b))
    [] a.tag = "SymbolSmall" -> CmpSeq(SymbolChars(a), SymbolChars(b))
    [] get_scval_type(a.tag) \in NumTypes -> Cmp(small_to_num(a), small_to_num(b))
    [] OTHER                 -> Equal
=============================================================================
