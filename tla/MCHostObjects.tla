--------------------------- MODULE MCHostObjects ---------------------------
(* Guests and host objects at small widths.  Numbers: 5-bit u32, 7-bit words   *)
(* with 6 bits below the tag, so that 128- and 256-bit numbers have 14 and 28  *)
(* bits.  Symbols: two characters fit a small one; the byte order of the three *)
(* symbol characters differs from the order of their codes, as '_' does.       *)
EXTENDS HostObjects, TLC

\* An ScVal of type t.
S(t, v) == Sc(t, v)

MCCharCode == (3 :> 1) @@ (1 :> 2) @@ (5 :> 3)

S_U64(n) == S("U64", <<n>>)
S_Sym(s) == S("Symbol", s)
S_Vec(s) == S("Vec", <<s>>)
S_Map(m) == S("Map", <<m>>)
Contract == S("Address", <<1, 7>>)

\* What byte strings may decode to: also ScVals that no Val can represent, a map
\* that is not sorted, one nested too deeply, and symbols of bad characters.
MCWire == <<
  S_U64(100), S_U64(5), S_Sym(<<3, 1, 5>>), S_Sym(<<0>>), S("Vec", <<>>),
  S_Map(<< <<S_U64(100), S("Void", <<>>)>>, <<S_U64(5), S("Void", <<>>)>> >>),
  S_Map(<< <<S_U64(5), S("Void", <<>>)>>, <<S_U64(100), S_Sym(<<5>>)>> >>),
  S_Vec(<<S_Vec(<<S_Vec(<<S_Vec(<<>>)>>)>>)>>), S("LedgerKeyNonce", <<1>>) >>

\* A memory image: two slices (at 0 and 4), two symbol characters and another
\* byte (at 8) which the slices are over, and the payloads of two Vals (at 11).
Image(x, y) == ToLe(8, U32Size) \o ToLe(2, U32Size) \o ToLe(9, U32Size) \o ToLe(1, U32Size)
               \o <<1, 3, 0>> \o ToLe(get_payload(x), ValSize) \o ToLe(get_payload(y), ValSize)
Mem1 == Image(from_major_minor("VecObject", 0, 1), from_u32(3))
Mem2 == Image(from_major_minor("U64Object", 2, 0), Val("Bad", 0))

\* Numbers on both sides of the small limit, symbols of both forms, nested and
\* empty containers, a contract to call.
Inv(args, mem) == [args |-> args, mem |-> mem]
MCInvocations == <<
  Inv(<< S_Vec(<<S_U64(100), S_Sym(<<1>>)>>), S_Sym(<<3, 1, 5>>) >>, Mem1),
  Inv(<< S_Map(<< <<S_U64(5), S("Void", <<>>)>>, <<S_U64(100), S_Sym(<<5>>)>> >>), S_U64(70) >>, Mem2),
  Inv(<< S_Map(<< <<S_Sym(<<1, 3>>), S("U32", <<2>>)>>, <<S_Sym(<<3>>), S_U64(70)>> >>), S_Vec(<<S_Vec(<<S_Vec(<<>>)>>)>>) >>, Mem1),
  Inv(<< S("I256", <<-1, 127, 127, 60>>), S("U256", <<0, 0, 1, 2>>), S("Bytes", <<15, 15, 15, 15, 15, 15, 14>>) >>, Mem2),
  Inv(<< S("I128", <<-1, 20>>), S("U128", <<0, 90>>), S("I64", <<-40>>), S("Timepoint", <<80>>) >>, Mem2),
  Inv(<< S("Bytes", <<5>>), S("String", <<1, 2>>), S("Duration", <<77>>) >>, Mem2),
  Inv(<< S("Bytes", <<1, 2>>), Contract, S_Vec(<<S_U64(99)>>) >>, Mem1) >>

MCAtoms == {from_void, Val("U64Small", 5), Val("U256Small", 2),
            Val("I256Small", 63), Val("I128Small", 40), Val("SymbolSmall", 8), Val("SymbolSmall", 2),
            from_error(0, 9)}
============================================================================
