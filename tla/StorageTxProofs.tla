--------------------------- MODULE StorageTxProofs ---------------------------
(***************************************************************************)
(* Proofs about StorageTx for every set of keys, ledger, network           *)
(* configuration and nesting depth.                                        *)
(*                                                                         *)
(* The invariants of StorageTx speak about the storage map and about every *)
(* rollback point, and for each they hold key by key.  KeyInv collects     *)
(* what they say of one key; an operation changes one key and may raise    *)
(* its access type, and KeyInv survives a raise (KeyInvGrows), which is    *)
(* why the rollback points stay good while the footprint moves on.         *)
(***************************************************************************)
EXTENDS StorageTx, TLAPS

KeyInv(mode, a, k, e) ==
    /\ e \in Entry \union {NoEntry, NotLoaded}
    /\ a # "ReadWrite" => e = NotLoaded \/ SameValue(e, Source[k])
    /\ mode = "Enforcing" => (e = NotLoaded <=> a = "NoAccess")
    /\ mode = "Recording" => (e # NotLoaded => a # "NoAccess")
    /\ e \notin {NoEntry, NotLoaded} =>
          /\ LiveEntry(k, e)
          /\ get_key_durability(k) # "None" =>
                \/ e.live_until <= max_live_until_ledger
                \/ Source[k] # NoEntry /\ e.live_until = Source[k].live_until

MapInv(mode, fp, m) ==
    /\ m \in StorageMap
    /\ \A k \in Key : KeyInv(mode, fp[k], k, m[k])

StorageInv(s) ==
    /\ s \in Storage
    /\ MapInv(s.mode, s.footprint, s.map)

\* How an operation may change the mode and the footprint.
Grows(s, t) ==
    /\ t.mode = s.mode
    /\ \A k \in Key : AccessLeq(s.footprint[k], t.footprint[k])
    /\ s.mode = "Enforcing" => t.footprint = s.footprint

\* The outcome of an operation that starts from a good storage s.
GoodOutcome(s, o) ==
    /\ StorageInv(o.storage)
    /\ Grows(s, o.storage)
    /\ o.err \in ErrorCode

Inv ==
    /\ StorageInv(storage)
    /\ saved \in Seq(StorageMap)
    /\ \A i \in 1 .. Len(saved) :
          MapInv(storage.mode, storage.footprint, saved[i])
    /\ status \in {"run", "fail", "abort"}
    /\ err \in ErrorCode

-----------------------------------------------------------------------------
(* Growing footprints. *)

\* What KeyInv says of an entry survives a recorded access of a higher type.
LEMMA KeyInvGrows ==
    ASSUME NEW mode \in {"Recording", "Enforcing"}, NEW k \in Key,
           NEW a, NEW b, NEW e, KeyInv(mode, a, k, e),
           AccessLeq(a, b), mode = "Enforcing" => b = a
    PROVE  KeyInv(mode, b, k, e)
  BY DEF KeyInv, AccessLeq

\* So does what MapInv says of a map, for instance of a rollback point.
LEMMA MapInvGrows ==
    ASSUME NEW s \in Storage, NEW t \in Storage, Grows(s, t),
           NEW m, MapInv(s.mode, s.footprint, m)
    PROVE  MapInv(t.mode, t.footprint, m)
<1>1. m \in StorageMap
  BY DEF MapInv
<1>2. ASSUME NEW k \in Key
      PROVE  KeyInv(t.mode, t.footprint[k], k, m[k])
  <2>1. KeyInv(s.mode, s.footprint[k], k, m[k])
    BY DEF MapInv
  <2>2. s.mode \in {"Recording", "Enforcing"} /\ t.mode = s.mode
    BY DEF Storage, Grows
  <2>3. AccessLeq(s.footprint[k], t.footprint[k])
    BY DEF Grows
  <2>4. s.mode = "Enforcing" => t.footprint[k] = s.footprint[k]
    BY DEF Grows
  <2> QED
    BY <2>1, <2>2, <2>3, <2>4, KeyInvGrows
<1> QED
  BY <1>1, <1>2 DEF MapInv

LEMMA GrowsReflexive ==
    ASSUME NEW s \in Storage
    PROVE  Grows(s, s)
  BY DEF Grows, AccessLeq, Storage, Footprint, AccessType

LEMMA GrowsTransitive ==
    ASSUME NEW s \in Storage, NEW t \in Storage, NEW u \in Storage,
           Grows(s, t), Grows(t, u)
    PROVE  Grows(s, u)
<1>1. ASSUME NEW k \in Key
      PROVE  AccessLeq(s.footprint[k], u.footprint[k])
  <2>1. AccessLeq(s.footprint[k], t.footprint[k])
        /\ AccessLeq(t.footprint[k], u.footprint[k])
    BY DEF Grows
  <2> QED
    BY <2>1 DEF AccessLeq
<1> QED
  BY <1>1 DEF Grows

\* A storage that differs from a good one in one key that is good is good.
LEMMA UpdateGood ==
    ASSUME NEW s, StorageInv(s), NEW k \in Key, NEW fp \in Footprint,
           NEW m \in StorageMap,
           \A j \in Key \ {k} : fp[j] = s.footprint[j] /\ m[j] = s.map[j],
           KeyInv(s.mode, fp[k], k, m[k]), AccessLeq(s.footprint[k], fp[k]),
           s.mode = "Enforcing" => fp = s.footprint
    PROVE  StorageInv(Store(s, fp, m)) /\ Grows(s, Store(s, fp, m))
<1> DEFINE t == Store(s, fp, m)
<1>1. /\ t \in Storage
      /\ t.mode = s.mode /\ t.footprint = fp /\ t.map = m
  BY DEF StorageInv, Storage, Store
<1>2. ASSUME NEW j \in Key
      PROVE  KeyInv(t.mode, t.footprint[j], j, t.map[j])
  BY <1>1 DEF StorageInv, MapInv
<1>3. ASSUME NEW j \in Key
      PROVE  AccessLeq(s.footprint[j], t.footprint[j])
  <2>1. s.footprint[j] \in AccessType \union {"NoAccess"}
    BY DEF StorageInv, Storage, Footprint
  <2> QED
    BY <1>1, <2>1 DEF AccessLeq, AccessType
<1>4. StorageInv(t)
  BY <1>1, <1>2 DEF StorageInv, MapInv
<1>5. Grows(s, t)
  BY <1>1, <1>3 DEF Grows
<1> QED
  BY <1>4, <1>5

-----------------------------------------------------------------------------
(* The operations. *)

\* The live-until bound of KeyInv, for an entry that an operation writes.
GoodEntry(k, e) ==
    /\ e \in Entry
    /\ LiveEntry(k, e)
    /\ get_key_durability(k) # "None" =>
          \/ e.live_until <= max_live_until_ledger
          \/ Source[k] # NoEntry /\ e.live_until = Source[k].live_until

\* An entry of a good storage is a good entry.
LEMMA StoredEntryGood ==
    ASSUME NEW s, StorageInv(s), NEW k \in Key,
           s.map[k] \notin {NoEntry, NotLoaded}
    PROVE  GoodEntry(k, s.map[k])
  BY DEF StorageInv, MapInv, KeyInv, GoodEntry

\* Entries that are read through from the ledger are good.
LEMMA SourceGood ==
    ASSUME NEW k \in Key
    PROVE  /\ Source[k] \in Entry \union {NoEntry}
           /\ Source[k] # NotLoaded
           /\ Source[k] # NoEntry => GoodEntry(k, Source[k])
  BY ConstantsAssumption, SourceAssumption DEF GoodEntry

\* A granted read finds its key in the map: the internal error of
\* try_get_full is unreachable from a good storage.
LEMMA ReadGood ==
    ASSUME NEW s, StorageInv(s), NEW k \in Key
    PROVE  /\ GoodOutcome(s, try_get_full(s, k))
           /\ try_get_full(s, k).err \in {"Ok", "ExceededLimit"}
           /\ try_get_full(s, k).err = "Ok" =>
                 try_get_full(s, k).storage.map[k] # NotLoaded
<1> DEFINE p == prepare_read_only_access(s, k)
<1>0. /\ s \in Storage /\ s.footprint \in Footprint /\ s.map \in StorageMap
      /\ s.mode \in {"Recording", "Enforcing"}
      /\ KeyInv(s.mode, s.footprint[k], k, s.map[k])
  BY DEF StorageInv, MapInv, Storage
<1>1. CASE s.mode = "Recording"
  <2> DEFINE fp == record_access(s.footprint, k, "ReadOnly")
             m  == [s.map EXCEPT ![k] = IF @ = NotLoaded THEN Source[k] ELSE @]
  <2>1. p = Outcome(Store(s, fp, m), "Ok")
    BY <1>1 DEF prepare_read_only_access
  <2>2. fp \in Footprint /\ m \in StorageMap
    BY <1>0, SourceGood DEF record_access, Footprint, AccessType, StorageMap
  <2>3. \A j \in Key \ {k} : fp[j] = s.footprint[j] /\ m[j] = s.map[j]
    BY <1>0 DEF record_access, Footprint, StorageMap
  <2>4. /\ fp[k] = IF s.footprint[k] = "ReadWrite" THEN "ReadWrite" ELSE "ReadOnly"
        /\ m[k] = IF s.map[k] = NotLoaded THEN Source[k] ELSE s.map[k]
    BY <1>0 DEF record_access, Footprint, StorageMap
  <2>5. s.footprint[k] \in {"NoAccess", "ReadOnly", "ReadWrite"}
    BY <1>0 DEF Footprint, AccessType
  <2>6. AccessLeq(s.footprint[k], fp[k])
    BY <2>4, <2>5 DEF AccessLeq
  <2>7. KeyInv(s.mode, fp[k], k, m[k])
    BY <1>0, <1>1, <2>4, <2>5, SourceGood DEF KeyInv, GoodEntry, SameValue
  <2>8. StorageInv(Store(s, fp, m)) /\ Grows(s, Store(s, fp, m))
    BY <1>1, <2>2, <2>3, <2>6, <2>7, UpdateGood
  <2>9. m[k] # NotLoaded
    BY <2>4, SourceGood
  <2>10. /\ p.err = "Ok" /\ p.storage = Store(s, fp, m)
         /\ p.storage.map[k] # NotLoaded
    <3> HIDE DEF p, fp, m
    <3>1. p.err = "Ok" /\ p.storage = Store(s, fp, m)
      BY <2>1 DEF Outcome
    <3> QED
      BY <2>9, <3>1 DEF Store
  <2>11. try_get_full(s, k) = p
    BY <2>10 DEF try_get_full
  <2> QED
    BY <2>8, <2>10, <2>11 DEF GoodOutcome, ErrorCode
<1>2. CASE s.mode = "Enforcing"
  <2>1. /\ p.storage = s /\ p.err \in {"Ok", "ExceededLimit"}
        /\ p.err = "Ok" => s.footprint[k] # "NoAccess"
    BY <1>2 DEF prepare_read_only_access, Outcome, enforce_access
  <2>2. p.err = "Ok" => s.map[k] # NotLoaded
    BY <1>0, <1>2, <2>1 DEF KeyInv
  <2>3. try_get_full(s, k) = p
    BY <2>1, <2>2 DEF try_get_full
  <2> QED
    BY <1>0, <2>1, <2>2, <2>3, GrowsReflexive DEF GoodOutcome, ErrorCode
<1> QED
  BY <1>0, <1>1, <1>2

\* A get that succeeds finds an entry.
LEMMA GetGood ==
    ASSUME NEW s, StorageInv(s), NEW k \in Key
    PROVE  LET g == get_with_live_until_ledger(s, k)
           IN  /\ GoodOutcome(s, g)
               /\ g.err \in {"Ok", "ExceededLimit", "MissingValue"}
               /\ g.err = "Ok" => GoodEntry(k, g.storage.map[k])
<1> DEFINE t == try_get_full(s, k)
           g == get_with_live_until_ledger(s, k)
<1>1. /\ GoodOutcome(s, t) /\ t.err \in {"Ok", "ExceededLimit"}
      /\ t.err = "Ok" => t.storage.map[k] # NotLoaded
  BY ReadGood
<1>2. /\ g.storage = t.storage
      /\ g.err \in {"Ok", "ExceededLimit", "MissingValue"}
      /\ g.err = "Ok" => t.storage.map[k] \notin {NoEntry, NotLoaded}
  BY <1>1 DEF get_with_live_until_ledger, Outcome
<1>3. g.err = "Ok" => GoodEntry(k, g.storage.map[k])
  BY <1>1, <1>2, StoredEntryGood DEF GoodOutcome
<1> QED
  BY <1>1, <1>2, <1>3 DEF GoodOutcome, ErrorCode

\* Writing a good entry, or deleting one.
LEMMA PutGood ==
    ASSUME NEW s, StorageInv(s), NEW k \in Key, NEW e,
           e = NoEntry \/ GoodEntry(k, e)
    PROVE  GoodOutcome(s, put_opt(s, k, e))
<1>0. /\ s \in Storage /\ s.footprint \in Footprint /\ s.map \in StorageMap
      /\ s.mode \in {"Recording", "Enforcing"}
      /\ KeyInv(s.mode, s.footprint[k], k, s.map[k])
      /\ e \in Entry \union {NoEntry} /\ e # NotLoaded
  BY ConstantsAssumption DEF StorageInv, MapInv, Storage, GoodEntry
<1> DEFINE m == [s.map EXCEPT ![k] = e]
<1>1. m \in StorageMap /\ m[k] = e /\ \A j \in Key \ {k} : m[j] = s.map[j]
  BY <1>0 DEF StorageMap
<1>2. CASE s.mode = "Recording"
  <2> DEFINE fp == record_access(s.footprint, k, "ReadWrite")
  <2>1. /\ fp \in Footprint /\ fp[k] = "ReadWrite"
        /\ \A j \in Key \ {k} : fp[j] = s.footprint[j]
    BY <1>0 DEF record_access, Footprint, AccessType
  <2>2. KeyInv(s.mode, fp[k], k, m[k])
    BY <1>0, <1>1, <1>2, <2>1 DEF KeyInv, GoodEntry
  <2>3. AccessLeq(s.footprint[k], fp[k])
    BY <2>1 DEF AccessLeq
  <2>4. StorageInv(Store(s, fp, m)) /\ Grows(s, Store(s, fp, m))
    BY <1>1, <1>2, <2>1, <2>2, <2>3, UpdateGood
  <2> QED
    BY <1>2, <2>4 DEF put_opt, Outcome, GoodOutcome, ErrorCode
<1>3. CASE s.mode = "Enforcing" /\ enforce_access(s.footprint, k, "ReadWrite")
  <2>1. s.footprint[k] = "ReadWrite"
    BY <1>3 DEF enforce_access
  <2>2. KeyInv(s.mode, s.footprint[k], k, m[k])
    BY <1>0, <1>1, <1>3, <2>1 DEF KeyInv, GoodEntry
  <2>3. AccessLeq(s.footprint[k], s.footprint[k])
    BY <2>1 DEF AccessLeq
  <2>4. /\ StorageInv(Store(s, s.footprint, m))
        /\ Grows(s, Store(s, s.footprint, m))
    BY <1>0, <1>1, <2>2, <2>3, UpdateGood
  <2> QED
    BY <1>3, <2>4 DEF put_opt, Outcome, GoodOutcome, ErrorCode
<1>4. CASE s.mode = "Enforcing" /\ ~ enforce_access(s.footprint, k, "ReadWrite")
  BY <1>0, <1>4, GrowsReflexive DEF put_opt, Outcome, GoodOutcome, ErrorCode
<1> QED
  BY <1>0, <1>2, <1>3, <1>4

\* Extending a TTL keeps the entry good: at most the maximal live-until
\* ledger, and not below the current one.
LEMMA ExtendGood ==
    ASSUME NEW s, StorageInv(s), NEW k \in Key,
           NEW threshold \in 0 .. U32Max, NEW extend_to \in 0 .. U32Max
    PROVE  GoodOutcome(s, extend_ttl(s, k, threshold, extend_to))
<1> DEFINE g   == get_with_live_until_ledger(s, k)
           e   == g.storage.map[k]
           new == clamped_live_until(extend_to)
           o   == extend_ttl(s, k, threshold, extend_to)
           Extends == /\ g.err = "Ok"
                      /\ e.live_until # NoTtl
                      /\ ~ (SeqNum + extend_to > U32Max)
                      /\ o = Outcome(set_live_until(g.storage, k, new), "Ok")
<1>0. s \in Storage
  BY DEF StorageInv
<1>1. GoodOutcome(s, g) /\ (g.err = "Ok" => GoodEntry(k, e))
  BY GetGood
<1>2. \/ o.storage \in {s, g.storage} /\ o.err \in ErrorCode
      \/ Extends
  BY <1>1 DEF extend_ttl, Outcome, ErrorCode, GoodOutcome
<1>3. CASE o.storage \in {s, g.storage} /\ o.err \in ErrorCode
  BY <1>0, <1>1, <1>3, GrowsReflexive DEF GoodOutcome
<1>4. CASE Extends
  <2> DEFINE u  == g.storage
             fp == u.footprint
             f  == [val |-> e.val, live_until |-> new]
             m  == [u.map EXCEPT ![k] = f]
  <2>0. set_live_until(u, k, new) = Store(u, fp, m)
    BY DEF set_live_until
  <2>1. /\ StorageInv(u) /\ Grows(s, u) /\ u \in Storage
        /\ fp \in Footprint /\ u.map \in StorageMap
        /\ u.mode \in {"Recording", "Enforcing"}
        /\ KeyInv(u.mode, fp[k], k, e)
    BY <1>1 DEF GoodOutcome, StorageInv, Storage, MapInv
  <2>2. e \in Entry /\ LiveEntry(k, e)
    BY <1>1, <1>4 DEF GoodEntry
  <2>3. /\ get_key_durability(k) # "None"
        /\ e.live_until \in SeqNum .. U32Max
    BY <1>4, <2>2 DEF LiveEntry
  <2>4. /\ new \in SeqNum .. U32Max
        /\ new <= max_live_until_ledger
    BY <1>4, ConstantsAssumption, NetworkAssumption
    DEF clamped_live_until, max_live_until_ledger
  <2>5. f \in Entry /\ f.val = e.val /\ f.live_until = new
    BY <2>2, <2>4, ConstantsAssumption DEF Entry, LiveUntil
  <2>6. f \notin {NoEntry, NotLoaded} /\ e \notin {NoEntry, NotLoaded}
    BY <2>2, <2>5, ConstantsAssumption
  <2>7. m \in StorageMap /\ m[k] = f /\ \A j \in Key \ {k} : m[j] = u.map[j]
    BY <2>1, <2>5 DEF StorageMap
  <2>8. KeyInv(u.mode, fp[k], k, f)
    BY <2>1, <2>3, <2>4, <2>5, <2>6 DEF KeyInv, SameValue, LiveEntry
  <2>9. AccessLeq(fp[k], fp[k])
    BY <2>1 DEF AccessLeq, Footprint, AccessType
  <2>10. StorageInv(Store(u, fp, m)) /\ Grows(u, Store(u, fp, m))
    <3> HIDE DEF u, m, f
    <3> QED
      BY <2>1, <2>7, <2>8, <2>9, UpdateGood
  <2>11. Grows(s, Store(u, fp, m))
    BY <1>0, <2>1, <2>10, GrowsTransitive DEF StorageInv
  <2> QED
    BY <1>4, <2>0, <2>10, <2>11 DEF Outcome, GoodOutcome, ErrorCode
<1> QED
  BY <1>2, <1>3, <1>4

\* A write that follows a successful read of the same key.
LEMMA PutAfterReadGood ==
    ASSUME NEW s, StorageInv(s), NEW h, GoodOutcome(s, h),
           NEW k \in Key, NEW e, GoodEntry(k, e)
    PROVE  GoodOutcome(s, put_opt(h.storage, k, e))
<1>1. GoodOutcome(h.storage, put_opt(h.storage, k, e))
  BY PutGood DEF GoodOutcome
<1> QED
  BY <1>1, GrowsTransitive DEF GoodOutcome, StorageInv

\* The minimal TTLs respect the maximal one.
LEMMA MinimalTtlGood ==
    ASSUME NEW k \in Key, NEW v \in Val, get_key_durability(k) # "None",
           NEW d
    PROVE  GoodEntry(k, [val |-> v, live_until |-> get_min_live_until_ledger(d)])
<1>1. /\ get_min_live_until_ledger(d) \in SeqNum .. U32Max
      /\ get_min_live_until_ledger(d) <= max_live_until_ledger
  BY ConstantsAssumption, NetworkAssumption
  DEF get_min_live_until_ledger, max_live_until_ledger
<1> QED
  BY <1>1, ConstantsAssumption DEF GoodEntry, Entry, LiveUntil, LiveEntry

\* The read-then-write helpers of the host.
LEMMA HelpersGood ==
    ASSUME NEW s, StorageInv(s), NEW k \in Key, NEW v \in Val
    PROVE  /\ get_key_durability(k) # "None" =>
                 /\ GoodOutcome(s, put_contract_data_into_ledger(s, k, v))
                 /\ GoodOutcome(s, upload_contract_wasm(s, k, v))
                 /\ \A l \in SeqNum .. max_live_until_ledger :
                       GoodOutcome(s, consume_nonce(s, k, v, l))
           /\ get_key_durability(k) = "None" =>
                 GoodOutcome(s, write_account(s, k, v))
<1> DEFINE h == has(s, k)
           min == get_min_live_until_ledger("Temporary")
<1>1. /\ GoodOutcome(s, h)
      /\ h.err = "Ok" => h.storage.map[k] # NotLoaded
  BY ReadGood DEF has
<1>2. ASSUME get_key_durability(k) # "None"
      PROVE  GoodOutcome(s, put_contract_data_into_ledger(s, k, v))
  <2> DEFINE e == h.storage.map[k]
             f == [val |-> v, live_until |-> e.live_until]
             n == [val |-> v, live_until |->
                      get_min_live_until_ledger(get_key_durability(k))]
  <2>1. CASE h.err # "Ok"
    BY <1>1, <2>1 DEF put_contract_data_into_ledger
  <2>2. CASE h.err = "Ok" /\ e # NoEntry
    <3>1. GoodEntry(k, e)
      BY <1>1, <2>2, StoredEntryGood DEF GoodOutcome
    <3>2. GoodEntry(k, f)
      BY <3>1 DEF GoodEntry, Entry, LiveEntry
    <3>3. put_contract_data_into_ledger(s, k, v) = put_opt(h.storage, k, f)
      BY <2>2 DEF put_contract_data_into_ledger, put
    <3> HIDE DEF h, f
    <3> QED
      BY <1>1, <3>2, <3>3, PutAfterReadGood
  <2>3. CASE h.err = "Ok" /\ e = NoEntry
    <3>1. GoodEntry(k, n)
      BY <1>2, MinimalTtlGood
    <3>2. put_contract_data_into_ledger(s, k, v) = put_opt(h.storage, k, n)
      BY <2>3 DEF put_contract_data_into_ledger, put
    <3> HIDE DEF h, n
    <3> QED
      BY <1>1, <3>1, <3>2, PutAfterReadGood
  <2> QED
    BY <2>1, <2>2, <2>3
<1>3. ASSUME get_key_durability(k) # "None"
      PROVE  GoodOutcome(s, upload_contract_wasm(s, k, v))
  <2> DEFINE n == [val |-> v,
                   live_until |-> get_min_live_until_ledger("Persistent")]
  <2>1. GoodEntry(k, n)
    BY <1>3, MinimalTtlGood
  <2>2. GoodOutcome(s, put_opt(h.storage, k, n))
    <3> HIDE DEF h, n
    <3> QED
      BY <1>1, <2>1, PutAfterReadGood
  <2> QED
    BY <1>1, <2>2 DEF upload_contract_wasm, put
<1>4. ASSUME get_key_durability(k) # "None",
             NEW l \in SeqNum .. max_live_until_ledger
      PROVE  GoodOutcome(s, consume_nonce(s, k, v, l))
  <2> DEFINE x == IF l > min THEN l ELSE min
             n == [val |-> v, live_until |-> x]
  <2>1. /\ x \in SeqNum .. U32Max /\ x <= max_live_until_ledger
    BY ConstantsAssumption, NetworkAssumption
    DEF get_min_live_until_ledger, max_live_until_ledger
  <2>2. GoodEntry(k, n)
    BY <1>4, <2>1, ConstantsAssumption DEF GoodEntry, Entry, LiveUntil, LiveEntry
  <2>3. GoodOutcome(s, put_opt(h.storage, k, n))
    <3> HIDE DEF h, n
    <3> QED
      BY <1>1, <2>2, PutAfterReadGood
  <2>4. \/ consume_nonce(s, k, v, l) = h
        \/ consume_nonce(s, k, v, l) = Outcome(h.storage, "ExistingValue")
        \/ consume_nonce(s, k, v, l) = put_opt(h.storage, k, n)
    BY DEF consume_nonce, put
  <2> QED
    BY <1>1, <2>3, <2>4 DEF GoodOutcome, Outcome, ErrorCode
<1>5. ASSUME get_key_durability(k) = "None"
      PROVE  GoodOutcome(s, write_account(s, k, v))
  <2> DEFINE g == get_with_live_until_ledger(s, k)
             n == [val |-> v, live_until |-> NoTtl]
  <2>1. GoodOutcome(s, g)
    BY GetGood
  <2>2. GoodEntry(k, n)
    BY <1>5 DEF GoodEntry, Entry, LiveUntil, LiveEntry
  <2>3. GoodOutcome(s, put_opt(g.storage, k, n))
    <3> HIDE DEF g, n
    <3> QED
      BY <2>1, <2>2, PutAfterReadGood
  <2> QED
    BY <2>1, <2>3 DEF write_account, put
<1> QED
  BY <1>2, <1>3, <1>4, <1>5

-----------------------------------------------------------------------------
(* The transaction. *)

\* A host function with a good outcome preserves the invariant.
LEMMA ExecInv ==
    ASSUME Inv, NEW o, GoodOutcome(storage, o), Exec(o)
    PROVE  Inv' /\ Grows(storage, storage')
<1>1. /\ storage' = o.storage /\ saved' = saved
      /\ err' \in ErrorCode /\ status' \in {"run", "fail", "abort"}
  BY DEF Exec, GoodOutcome
<1>2. StorageInv(storage') /\ Grows(storage, storage')
  BY <1>1 DEF GoodOutcome
<1>3. storage \in Storage /\ storage' \in Storage
  BY <1>2 DEF Inv, StorageInv
<1>4. ASSUME NEW i \in 1 .. Len(saved)
      PROVE  MapInv(storage'.mode, storage'.footprint, saved[i])
  BY <1>2, <1>3, MapInvGrows DEF Inv
<1> QED
  BY <1>1, <1>2, <1>4 DEF Inv

LEMMA InitInv == Init => Inv
<1> SUFFICES ASSUME Init PROVE Inv
  OBVIOUS
<1>1. /\ with_recording_footprint \in Storage
      /\ StorageInv(with_recording_footprint)
  BY ConstantsAssumption
  DEF with_recording_footprint, Storage, Footprint, StorageMap, StorageInv,
      MapInv, KeyInv
<1>2. ASSUME NEW fp \in Footprint
      PROVE  StorageInv(with_enforcing_footprint_and_map(fp))
  <2> DEFINE s == with_enforcing_footprint_and_map(fp)
  <2>1. /\ s.mode = "Enforcing" /\ s.footprint = fp
        /\ s.map = [k \in Key |-> IF fp[k] = "NoAccess" THEN NotLoaded
                                  ELSE Source[k]]
    BY DEF with_enforcing_footprint_and_map
  <2>2. s.map \in StorageMap /\ s \in Storage
    BY SourceGood DEF with_enforcing_footprint_and_map, StorageMap, Storage
  <2>3. ASSUME NEW k \in Key
        PROVE  KeyInv("Enforcing", fp[k], k, s.map[k])
    BY <2>1, SourceGood DEF KeyInv, GoodEntry, SameValue
  <2> QED
    BY <2>1, <2>2, <2>3 DEF StorageInv, MapInv
<1>3. ASSUME NEW rw, NEW ro
      PROVE  build_storage_footprint(rw, ro) \in Footprint
  BY DEF build_storage_footprint, Footprint, AccessType
<1>4. StorageInv(storage)
  BY <1>1, <1>2, <1>3 DEF Init
<1>5. /\ saved \in Seq(StorageMap)
      /\ \A i \in 1 .. Len(saved) :
            MapInv(storage.mode, storage.footprint, saved[i])
  BY <1>4 DEF Init, StorageInv, Storage
<1> QED
  BY <1>4, <1>5 DEF Inv, Init, ErrorCode

\* The operations of contracts have good outcomes.
LEMMA OperationsGood ==
    ASSUME Inv, NEW k \in Key
    PROVE  /\ GoodOutcome(storage, has(storage, k))
           /\ GoodOutcome(storage, get_with_live_until_ledger(storage, k))
           /\ GoodOutcome(storage, del(storage, k))
  BY ReadGood, GetGood, PutGood DEF Inv, has, del

LEMMA ExtendBothGood ==
    ASSUME Inv, NEW i \in Key, NEW c \in Key,
           NEW threshold \in 0 .. U32Max, NEW extend_to \in 0 .. U32Max
    PROVE  LET o == extend_ttl(storage, i, threshold, extend_to)
           IN  GoodOutcome(storage,
                  IF o.err # "Ok" THEN o
                  ELSE extend_ttl(o.storage, c, threshold, extend_to))
<1> DEFINE o == extend_ttl(storage, i, threshold, extend_to)
           q == extend_ttl(o.storage, c, threshold, extend_to)
<1>1. GoodOutcome(storage, o)
  BY ExtendGood DEF Inv
<1>2. GoodOutcome(o.storage, q)
  BY <1>1, ExtendGood DEF GoodOutcome
<1>3. GoodOutcome(storage, q)
  <2> HIDE DEF o, q
  <2> QED
    BY <1>1, <1>2, GrowsTransitive DEF GoodOutcome, Inv, StorageInv
<1> QED
  BY <1>1, <1>3

\* Frames: a rollback restores a map that is good for today's footprint.
LEMMA FramesInv ==
    ASSUME Inv, PushFrame \/ PopFrame \/ RollbackFrame
    PROVE  Inv' /\ Grows(storage, storage')
<1>0. storage \in Storage /\ storage.map \in StorageMap
  BY DEF Inv, StorageInv, Storage
<1>1. CASE PushFrame
  <2>1. /\ saved' = Append(saved, storage.map)
        /\ storage' = storage /\ status' = status /\ err' = err
    BY <1>1 DEF PushFrame
  <2>2. saved' \in Seq(StorageMap)
    BY <1>0, <2>1 DEF Inv
  <2>3. ASSUME NEW i \in 1 .. Len(saved')
        PROVE  MapInv(storage.mode, storage.footprint, saved'[i])
    <3>1. CASE i = Len(saved) + 1
      BY <2>1, <3>1, <1>0 DEF Inv, StorageInv
    <3>2. CASE i \in 1 .. Len(saved)
      BY <2>1, <3>2, <1>0 DEF Inv
    <3> QED
      BY <2>1, <3>1, <3>2, <1>0 DEF Inv
  <2> QED
    BY <1>0, <2>1, <2>2, <2>3, GrowsReflexive DEF Inv
<1>2. CASE PopFrame
  <2>1. /\ saved' = SubSeq(saved, 1, Len(saved) - 1) /\ Len(saved) > 0
        /\ storage' = storage /\ status' = status /\ err' = err
    BY <1>2 DEF PopFrame, Running
  <2> QED
    BY <1>0, <2>1, GrowsReflexive DEF Inv
<1>3. CASE RollbackFrame
  <2> DEFINE m == saved[Len(saved)]
  <2>1. /\ saved' = SubSeq(saved, 1, Len(saved) - 1) /\ Len(saved) > 0
        /\ storage' = Store(storage, storage.footprint, m)
        /\ status' \in {"run", "fail", "abort"} /\ err' = err
    BY <1>3 DEF RollbackFrame
  <2>2. Len(saved) \in 1 .. Len(saved) /\ m \in StorageMap
    BY <2>1 DEF Inv
  <2>3. MapInv(storage.mode, storage.footprint, m)
    BY <2>2 DEF Inv
  <2>4. /\ storage'.mode = storage.mode /\ storage'.map = m
        /\ storage'.footprint = storage.footprint /\ storage' \in Storage
    BY <1>0, <2>1, <2>2 DEF Store, Storage
  <2>5. StorageInv(storage')
    BY <2>3, <2>4 DEF StorageInv
  <2>6. Grows(storage, storage')
    BY <1>0, <2>4, GrowsReflexive DEF Grows
  <2>7. /\ saved' \in Seq(StorageMap)
        /\ \A i \in 1 .. Len(saved') :
              i \in 1 .. Len(saved) /\ saved'[i] = saved[i]
    BY <2>1 DEF Inv
  <2> QED
    BY <2>1, <2>4, <2>5, <2>6, <2>7 DEF Inv
<1> QED
  BY <1>1, <1>2, <1>3

\* Every step of the transaction preserves the invariant.
LEMMA NextInv ==
    ASSUME Inv, [Next]_vars
    PROVE  Inv' /\ Grows(storage, storage')
<1>0. storage \in Storage /\ StorageInv(storage)
  BY DEF Inv, StorageInv
<1>1. ASSUME NEW k \in ContractDataKey,
             HasContractData(k) \/ GetContractData(k) \/ DelContractData(k)
      PROVE  Inv' /\ Grows(storage, storage')
  BY <1>1, OperationsGood, ExecInv
  DEF HasContractData, GetContractData, DelContractData, ContractDataKey
<1>2. ASSUME NEW k \in ContractDataKey, NEW v \in Val, PutContractData(k, v)
      PROVE  Inv' /\ Grows(storage, storage')
  BY <1>0, <1>2, HelpersGood, ExecInv
  DEF PutContractData, ContractDataKey, get_key_durability
<1>3. ASSUME NEW k \in ContractDataKey, NEW threshold \in 0 .. U32Max,
             NEW extend_to \in 0 .. U32Max,
             ExtendContractDataTtl(k, threshold, extend_to)
      PROVE  Inv' /\ Grows(storage, storage')
  BY <1>0, <1>3, ExtendGood, ExecInv DEF ExtendContractDataTtl, ContractDataKey
<1>4. ASSUME NEW k \in Key, NEW v \in Val, KeyType[k] = "ContractCode",
             UploadContractWasm(k, v)
      PROVE  Inv' /\ Grows(storage, storage')
  BY <1>0, <1>4, HelpersGood, ExecInv DEF UploadContractWasm, get_key_durability
<1>5. ASSUME NEW k \in Key, NEW v \in Val, KeyType[k] = "Account",
             WriteAccount(k, v)
      PROVE  Inv' /\ Grows(storage, storage')
  BY <1>0, <1>5, HelpersGood, ExecInv DEF WriteAccount, get_key_durability
<1>6. ASSUME NEW k \in Key, NEW v \in Val, KeyType[k] = "Nonce",
             NEW l \in SeqNum .. max_live_until_ledger, ConsumeNonce(k, v, l)
      PROVE  Inv' /\ Grows(storage, storage')
  BY <1>0, <1>6, HelpersGood, ExecInv DEF ConsumeNonce, get_key_durability
<1>7. ASSUME NEW i \in Key, NEW c \in Key, NEW threshold \in 0 .. U32Max,
             NEW extend_to \in 0 .. U32Max,
             ExtendInstanceAndCodeTtl(i, c, threshold, extend_to)
      PROVE  Inv' /\ Grows(storage, storage')
  BY <1>7, ExtendBothGood, ExecInv DEF ExtendInstanceAndCodeTtl
<1>8. CASE PushFrame \/ PopFrame \/ RollbackFrame
  BY <1>8, FramesInv
<1>9. ASSUME NEW k \in Key, LoadEntry(k)
       PROVE  Inv' /\ Grows(storage, storage')
  BY <1>9, OperationsGood, ExecInv DEF LoadEntry
<1>10. CASE UNCHANGED vars
  <2>1. Inv'
    BY <1>10 DEF Inv, vars
  <2> QED
    BY <1>0, <1>10, <2>1, GrowsReflexive DEF vars
<1> QED
  BY <1>1, <1>2, <1>3, <1>4, <1>5, <1>6, <1>7, <1>8, <1>9, <1>10
  DEF Next

-----------------------------------------------------------------------------
(* What holds of every transaction. *)

\* The invariant implies each of the properties that the runs check.
LEMMA InvImplies ==
    ASSUME Inv
    PROVE  /\ TypeOK
           /\ UnwrittenKeysKeepValue
           /\ EnforcingMapIsFootprint
           /\ RecordedKeysAreInFootprint
           /\ TtlInRange
<1>1. ASSUME NEW m \in LiveMaps
      PROVE  MapInv(storage.mode, storage.footprint, m)
  BY DEF LiveMaps, Inv, StorageInv
<1>2. ASSUME NEW m \in LiveMaps, NEW k \in Key
      PROVE  KeyInv(storage.mode, storage.footprint[k], k, m[k])
  BY <1>1 DEF MapInv
<1>3. TypeOK
  BY DEF Inv, StorageInv, TypeOK
<1>4. UnwrittenKeysKeepValue
  BY <1>2 DEF UnwrittenKeysKeepValue, KeyInv
<1>5. EnforcingMapIsFootprint
  BY <1>2 DEF EnforcingMapIsFootprint, KeyInv
<1>6. RecordedKeysAreInFootprint
  BY <1>2 DEF RecordedKeysAreInFootprint, KeyInv
<1>7. TtlInRange
  BY <1>2 DEF TtlInRange, KeyInv
<1> QED
  BY <1>3, <1>4, <1>5, <1>6, <1>7

\* The inductive invariant holds throughout every transaction.
THEOREM Invariance == Spec => []Inv
<1>1. Init => Inv
  BY InitInv
<1>2. Inv /\ [Next]_vars => Inv'
  BY NextInv
<1> QED
  BY <1>1, <1>2, PTL DEF Spec

\* The storage is always a storage: no operation, nesting or rollback leaves
\* a malformed map, footprint or error code behind.
THEOREM TypeCorrect == Spec => []TypeOK
<1>1. Inv => TypeOK
  BY InvImplies
<1> QED
  BY <1>1, Invariance, PTL

\* Storage partitions transactions by their footprints: no sequence of
\* operations and rollbacks changes the value of an entry that is not in
\* the footprint as ReadWrite.
THEOREM FootprintIsRespected == Spec => []UnwrittenKeysKeepValue
<1>1. Inv => UnwrittenKeysKeepValue
  BY InvImplies
<1> QED
  BY <1>1, Invariance, PTL

\* The map of an enforcing storage always has exactly the footprint's keys,
\* so try_get_full never meets its internal error.
THEOREM MapIsFootprint == Spec => []EnforcingMapIsFootprint
<1>1. Inv => EnforcingMapIsFootprint
  BY InvImplies
<1> QED
  BY <1>1, Invariance, PTL

\* A recording storage never holds a key its footprint does not mention.
THEOREM RecordingIsComplete == Spec => []RecordedKeysAreInFootprint
<1>1. Inv => RecordedKeysAreInFootprint
  BY InvImplies
<1> QED
  BY <1>1, Invariance, PTL

\* Entries stay live and within the maximal TTL.
THEOREM TtlStaysInRange == Spec => []TtlInRange
<1>1. Inv => TtlInRange
  BY InvImplies
<1> QED
  BY <1>1, Invariance, PTL

\* The declared footprint is fixed and a recorded one only grows, rollbacks
\* of frames included.
THEOREM FootprintIsMonotone == Spec => FootprintGrows
<1>1. Inv /\ [Next]_vars =>
         [ /\ FootprintLeq(storage.footprint, storage'.footprint)
           /\ storage.mode = "Enforcing" =>
                 storage'.footprint = storage.footprint ]_vars
  BY NextInv DEF Grows, FootprintLeq
<1> QED
  BY <1>1, Invariance, PTL DEF Spec, FootprintGrows

-----------------------------------------------------------------------------
(* Failing transactions. *)

\* The storage map at the start of a transaction.
StartMap ==
    [k \in Key |-> IF storage.mode = "Recording"
                      \/ storage.footprint[k] = "NoAccess"
                   THEN NotLoaded ELSE Source[k]]

\* The outermost rollback point is the map the transaction started with, and
\* it is what a failed transaction ends with.
FirstSaved ==
    /\ Len(saved) > 0 => saved[1] = StartMap
    /\ Len(saved) = 0 /\ status # "run" => storage.map = StartMap

LEMMA StartMapStable ==
    ASSUME Inv, Grows(storage, storage')
    PROVE  StartMap' = StartMap
<1>1. storage'.mode = storage.mode
      /\ (storage.mode = "Enforcing" => storage'.footprint = storage.footprint)
      /\ storage.mode \in {"Recording", "Enforcing"}
  BY DEF Grows, Inv, StorageInv, Storage
<1> QED
  BY <1>1 DEF StartMap

LEMMA FirstSavedStep ==
    ASSUME Inv, FirstSaved, Next
    PROVE  FirstSaved'
<1>1. StartMap' = StartMap
  BY NextInv, StartMapStable
<1>2. saved \in Seq(StorageMap)
  BY DEF Inv
<1>3. ASSUME NEW o, Exec(o)
      PROVE  FirstSaved'
  BY <1>1, <1>3 DEF Exec, Running, FirstSaved
<1>4. CASE PushFrame
  BY <1>1, <1>2, <1>4 DEF PushFrame, Running, FirstSaved
<1>5. CASE PopFrame
  <2>1. saved' = SubSeq(saved, 1, Len(saved) - 1) /\ Len(saved) > 0
        /\ status' = "run"
    BY <1>5 DEF PopFrame, Running
  <2>2. Len(saved') > 0 => saved'[1] = saved[1]
    BY <1>2, <2>1
  <2> QED
    BY <1>1, <2>1, <2>2 DEF FirstSaved
<1>6. CASE RollbackFrame
  <2>1. saved' = SubSeq(saved, 1, Len(saved) - 1) /\ Len(saved) > 0
        /\ storage'.map = saved[Len(saved)]
    BY <1>6 DEF RollbackFrame, Store
  <2>2. Len(saved') > 0 => saved'[1] = saved[1]
    BY <1>2, <2>1
  <2>3. Len(saved') = 0 => Len(saved) = 1
    <3>1. Len(saved) \in Nat
      BY <1>2
    <3>2. Len(saved) > 1 => Len(saved') = Len(saved) - 1
      BY <1>2, <2>1
    <3>3. Len(saved) > 0
      BY <2>1
    <3> QED
      BY <3>1, <3>2, <3>3
  <2> QED
    BY <1>1, <2>1, <2>2, <2>3 DEF FirstSaved
<1> QED
  BY <1>3, <1>4, <1>5, <1>6
  DEF Next, HasContractData, GetContractData, DelContractData, PutContractData,
      ExtendContractDataTtl, UploadContractWasm, WriteAccount, ConsumeNonce,
      LoadEntry, ExtendInstanceAndCodeTtl

\* A transaction whose host function fails, at whatever depth and after
\* whatever was committed by inner frames, leaves the map it started with.
THEOREM FailureIsAtomic == Spec => []FailedTxLeavesNoTrace
<1>1. Init => FirstSaved
  <2> SUFFICES ASSUME Init PROVE FirstSaved
    OBVIOUS
  <2>1. storage.map = StartMap
    BY DEF Init, StartMap, with_recording_footprint,
           with_enforcing_footprint_and_map
  <2> QED
    BY <2>1 DEF Init, FirstSaved
<1>2. Inv /\ FirstSaved /\ [Next]_vars => FirstSaved'
  <2>1. CASE UNCHANGED vars
    BY <2>1 DEF vars, FirstSaved, StartMap
  <2> QED
    BY <2>1, FirstSavedStep
<1>3. FirstSaved => FailedTxLeavesNoTrace
  BY DEF FirstSaved, FailedTxLeavesNoTrace, StartMap
<1> QED
  BY <1>1, <1>2, <1>3, Invariance, PTL DEF Spec

-----------------------------------------------------------------------------
(* Lifetimes. *)

Present(e) == e \notin {NoEntry, NotLoaded}

LongerLived(k, e, f) ==
    get_key_durability(k) # "None" => f.live_until >= e.live_until

\* An operation that writes no values keeps every entry, for as long at least.
KeepsEntries(s, t) ==
    \A k \in Key : Present(s.map[k]) =>
        Present(t.map[k]) /\ LongerLived(k, s.map[k], t.map[k])

\* Any operation keeps the life of the entries that it leaves in the map.
KeepsLife(s, t) ==
    \A k \in Key : Present(s.map[k]) /\ Present(t.map[k]) =>
        LongerLived(k, s.map[k], t.map[k])

LEMMA EntryLife ==
    ASSUME NEW s, StorageInv(s), NEW k \in Key, Present(s.map[k]),
           get_key_durability(k) # "None"
    PROVE  s.map[k].live_until \in SeqNum .. U32Max
  BY DEF StorageInv, MapInv, KeyInv, Present, LiveEntry

\* A read leaves what was in the map as it was.
LEMMA ReadKeeps ==
    ASSUME NEW s, StorageInv(s), NEW k \in Key, NEW j \in Key, Present(s.map[j])
    PROVE  /\ try_get_full(s, k).storage.map[j] = s.map[j]
           /\ get_with_live_until_ledger(s, k).storage.map[j] = s.map[j]
<1> DEFINE p == prepare_read_only_access(s, k)
<1>1. s.map \in StorageMap
  BY DEF StorageInv, Storage
<1>2. p.storage.map[j] = s.map[j]
  BY <1>1 DEF prepare_read_only_access, Outcome, Store, StorageMap, Present
<1>3. try_get_full(s, k).storage = p.storage
  BY DEF try_get_full, Outcome
<1>4. get_with_live_until_ledger(s, k).storage = try_get_full(s, k).storage
  BY DEF get_with_live_until_ledger, Outcome
<1> QED
  BY <1>2, <1>3, <1>4

LEMMA KeepsEntriesReflexive ==
    ASSUME NEW s, StorageInv(s)
    PROVE  KeepsEntries(s, s)
<1>1. ASSUME NEW k \in Key, Present(s.map[k])
      PROVE  LongerLived(k, s.map[k], s.map[k])
  BY <1>1, EntryLife, ConstantsAssumption DEF LongerLived
<1> QED
  BY <1>1 DEF KeepsEntries

LEMMA ReadKeepsEntries ==
    ASSUME NEW s, StorageInv(s), NEW k \in Key
    PROVE  /\ KeepsEntries(s, try_get_full(s, k).storage)
           /\ KeepsEntries(s, get_with_live_until_ledger(s, k).storage)
<1>1. ASSUME NEW j \in Key, Present(s.map[j])
      PROVE  LongerLived(j, s.map[j], s.map[j])
  BY <1>1, KeepsEntriesReflexive DEF KeepsEntries
<1> QED
  BY <1>1, ReadKeeps DEF KeepsEntries

\* extend_ttl replaces a live-until ledger by a later one only.
LEMMA ExtendKeeps ==
    ASSUME NEW s, StorageInv(s), NEW k \in Key,
           NEW threshold \in 0 .. U32Max, NEW extend_to \in 0 .. U32Max
    PROVE  KeepsEntries(s, extend_ttl(s, k, threshold, extend_to).storage)
<1> DEFINE g   == get_with_live_until_ledger(s, k)
           e   == g.storage.map[k]
           new == clamped_live_until(extend_to)
           o   == extend_ttl(s, k, threshold, extend_to)
           Extends == /\ g.err = "Ok"
                      /\ new > e.live_until
                      /\ o.storage = set_live_until(g.storage, k, new)
<1>1. o.storage \in {s, g.storage} \/ Extends
  BY DEF extend_ttl, Outcome
<1>2. KeepsEntries(s, s) /\ KeepsEntries(s, g.storage)
  BY KeepsEntriesReflexive, ReadKeepsEntries
<1>3. CASE Extends
  <2> SUFFICES ASSUME NEW j \in Key, Present(s.map[j])
               PROVE  /\ Present(o.storage.map[j])
                      /\ LongerLived(j, s.map[j], o.storage.map[j])
    BY DEF KeepsEntries
  <2>1. GoodOutcome(s, g) /\ g.storage.map[j] = s.map[j]
    BY GetGood, ReadKeeps
  <2>2. g.storage.map \in StorageMap
    BY <2>1 DEF GoodOutcome, StorageInv, Storage
  <2>3. o.storage.map = [g.storage.map EXCEPT ![k] = [val |-> e.val, live_until |-> new]]
    BY <1>3 DEF set_live_until, Store
  <2>4. CASE j # k
    BY <1>2, <2>1, <2>2, <2>3, <2>4 DEF KeepsEntries, StorageMap
  <2>5. CASE j = k
    <3> DEFINE f == [val |-> e.val, live_until |-> new]
    <3>1. o.storage.map[j] = f
      BY <2>2, <2>3, <2>5 DEF StorageMap
    <3>2. e \in Entry
      BY <2>1, <2>2, <2>5 DEF StorageMap, Present
    <3>3. new \in Nat
      BY ConstantsAssumption, NetworkAssumption
      DEF clamped_live_until, max_live_until_ledger
    <3>4. extend_to \in Nat /\ SeqNum \in Nat /\ U32Max \in Nat
      BY ConstantsAssumption
    <3>5. Present(f)
      <4>1. max_live_until_ledger \in 0 .. U32Max
        BY ConstantsAssumption, NetworkAssumption DEF max_live_until_ledger
      <4>2. new \in 0 .. U32Max
        BY <3>3, <3>4, <4>1 DEF clamped_live_until
      <4>3. f \in Entry
        BY <3>2, <4>2 DEF Entry, LiveUntil
      <4> QED
        BY <4>3, ConstantsAssumption DEF Present
    <3>6. f.live_until = new /\ s.map[j] = e
      BY <2>1, <2>5
    <3>7. get_key_durability(j) # "None" => e.live_until \in Nat
      BY <3>4, <3>6, EntryLife
    <3>8. LongerLived(j, s.map[j], f)
      BY <1>3, <3>3, <3>6, <3>7 DEF LongerLived
    <3> QED
      BY <3>1, <3>5, <3>8
  <2> QED
    BY <2>4, <2>5
<1> QED
  BY <1>1, <1>2, <1>3

\* A write after a read of the same key: the other entries are left alone.
LEMMA PutKeeps ==
    ASSUME NEW s, StorageInv(s), NEW h, GoodOutcome(s, h), NEW k \in Key,
           KeepsEntries(s, h.storage), NEW e,
           Present(s.map[k]) /\ Present(e) => LongerLived(k, s.map[k], e)
    PROVE  KeepsLife(s, put_opt(h.storage, k, e).storage)
<1> DEFINE u == h.storage
           t == put_opt(u, k, e).storage
<1>1. u.map \in StorageMap
  BY DEF GoodOutcome, StorageInv, Storage
<1>2. t.map = u.map \/ t.map = [u.map EXCEPT ![k] = e]
  BY DEF put_opt, Outcome, Store
<1> HIDE DEF t
<1>3. ASSUME NEW j \in Key, Present(s.map[j]), Present(t.map[j])
      PROVE  LongerLived(j, s.map[j], t.map[j])
  <2>1. t.map[j] = u.map[j] \/ (j = k /\ t.map[j] = e)
    BY <1>1, <1>2 DEF StorageMap
  <2> QED
    BY <1>3, <2>1 DEF KeepsEntries
<1> QED
  BY <1>3 DEF KeepsLife, t

LEMMA HelpersKeepLife ==
    ASSUME NEW s, StorageInv(s), NEW k \in Key, NEW v
    PROVE  /\ KeepsLife(s, put_contract_data_into_ledger(s, k, v).storage)
           /\ KeepsLife(s, upload_contract_wasm(s, k, v).storage)
           /\ \A l : KeepsLife(s, consume_nonce(s, k, v, l).storage)
           /\ get_key_durability(k) = "None" =>
                 KeepsLife(s, write_account(s, k, v).storage)
           /\ KeepsLife(s, del(s, k).storage)
<1> DEFINE h == has(s, k)
           g == get_with_live_until_ledger(s, k)
<1>1. /\ GoodOutcome(s, h) /\ KeepsEntries(s, h.storage)
      /\ GoodOutcome(s, g) /\ KeepsEntries(s, g.storage)
      /\ Present(s.map[k]) => h.storage.map[k] = s.map[k]
  BY ReadGood, GetGood, ReadKeepsEntries, ReadKeeps DEF has
<1>2. KeepsLife(s, h.storage) /\ KeepsLife(s, g.storage)
  BY <1>1 DEF KeepsEntries, KeepsLife
<1> HIDE DEF h, g
<1>3. ASSUME NEW x, ~ Present(s.map[k])
      PROVE  KeepsLife(s, put_opt(h.storage, k, x).storage)
  BY <1>1, <1>3, PutKeeps
<1>4. Present(s.map[k]) => h.storage.map[k] # NoEntry
  BY <1>1 DEF Present
<1>5. KeepsLife(s, put_contract_data_into_ledger(s, k, v).storage)
  <2>1. CASE h.err = "Ok" /\ Present(s.map[k])
    <3> DEFINE f == [val |-> v, live_until |-> s.map[k].live_until]
    <3>1. put_contract_data_into_ledger(s, k, v) = put_opt(h.storage, k, f)
      BY <1>1, <1>4, <2>1 DEF put_contract_data_into_ledger, put, h
    <3>2. LongerLived(k, s.map[k], s.map[k])
      BY <2>1, KeepsEntriesReflexive DEF KeepsEntries
    <3>3. LongerLived(k, s.map[k], f)
      BY <3>2 DEF LongerLived
    <3> HIDE DEF f
    <3> QED
      BY <1>1, <3>1, <3>3, PutKeeps
  <2>2. CASE ~ Present(s.map[k])
    BY <1>2, <1>3, <2>2 DEF put_contract_data_into_ledger, put, h
  <2>3. CASE h.err # "Ok"
    BY <1>2, <2>3 DEF put_contract_data_into_ledger, h
  <2> QED
    BY <2>1, <2>2, <2>3
<1>6. KeepsLife(s, upload_contract_wasm(s, k, v).storage)
  BY <1>2, <1>3, <1>4 DEF upload_contract_wasm, put, h
<1>7. ASSUME NEW l
      PROVE  KeepsLife(s, consume_nonce(s, k, v, l).storage)
  <2>1. \/ consume_nonce(s, k, v, l).storage = h.storage
        \/ ~ Present(s.map[k])
           /\ \E x : consume_nonce(s, k, v, l) = put_opt(h.storage, k, x)
    BY <1>4 DEF consume_nonce, put, h, Outcome
  <2> QED
    BY <1>2, <1>3, <2>1
<1>8. ASSUME get_key_durability(k) = "None"
      PROVE  KeepsLife(s, write_account(s, k, v).storage)
  <2> DEFINE f == [val |-> v, live_until |-> NoTtl]
  <2>1. write_account(s, k, v) \in {g, put_opt(g.storage, k, f)}
    BY DEF write_account, put, g
  <2>2. LongerLived(k, s.map[k], f)
    BY <1>8 DEF LongerLived
  <2> HIDE DEF f
  <2> QED
    BY <1>1, <1>2, <2>1, <2>2, PutKeeps
<1>9. KeepsLife(s, del(s, k).storage)
  <2>1. GoodOutcome(s, Outcome(s, "Ok")) /\ Outcome(s, "Ok").storage = s
    BY GrowsReflexive DEF GoodOutcome, Outcome, ErrorCode, StorageInv
  <2>2. KeepsEntries(s, s) /\ ~ Present(NoEntry)
    BY KeepsEntriesReflexive DEF Present
  <2> QED
    BY <2>1, <2>2, PutKeeps DEF del
<1> QED
  BY <1>5, <1>6, <1>7, <1>8, <1>9

\* No operation of a contract shortens the life of an entry that it leaves in
\* the map: put_contract_data keeps the TTL of an entry it overwrites and
\* extend_ttl never lowers one.  Only a rollback does.
THEOREM LifeIsNotShortened == Spec => OnlyRollbackShortensTtl
<1>1. ASSUME Inv, [Next]_vars
      PROVE  saved' # saved \/ UNCHANGED vars \/ KeepsLife(storage, storage')
  <2>0. StorageInv(storage)
    BY <1>1 DEF Inv
  <2>1. ASSUME NEW s, StorageInv(s), NEW t, KeepsEntries(s, t)
        PROVE  KeepsLife(s, t)
    BY <2>1 DEF KeepsEntries, KeepsLife
  <2>2. ASSUME NEW k \in Key, HasContractData(k) \/ GetContractData(k) \/ LoadEntry(k)
        PROVE  KeepsLife(storage, storage')
    BY <2>0, <2>1, <2>2, ReadKeepsEntries
    DEF HasContractData, GetContractData, LoadEntry, Exec, has
  <2>3. ASSUME NEW k \in Key, DelContractData(k)
        PROVE  KeepsLife(storage, storage')
    BY <2>0, <2>3, HelpersKeepLife DEF DelContractData, Exec
  <2>4. ASSUME NEW k \in Key, NEW v \in Val,
               \/ PutContractData(k, v)
               \/ UploadContractWasm(k, v)
               \/ KeyType[k] = "Account" /\ WriteAccount(k, v)
               \/ \E l \in SeqNum .. max_live_until_ledger : ConsumeNonce(k, v, l)
        PROVE  KeepsLife(storage, storage')
    BY <2>0, <2>4, HelpersKeepLife
    DEF PutContractData, UploadContractWasm, WriteAccount, ConsumeNonce, Exec,
        get_key_durability
  <2>5. ASSUME NEW k \in Key, NEW threshold \in 0 .. U32Max, NEW extend_to \in 0 .. U32Max,
               ExtendContractDataTtl(k, threshold, extend_to)
        PROVE  KeepsLife(storage, storage')
    BY <2>0, <2>1, <2>5, ExtendKeeps DEF ExtendContractDataTtl, Exec
  <2>6. ASSUME NEW i \in Key, NEW c \in Key, NEW threshold \in 0 .. U32Max,
               NEW extend_to \in 0 .. U32Max,
               ExtendInstanceAndCodeTtl(i, c, threshold, extend_to)
        PROVE  KeepsLife(storage, storage')
    <3> DEFINE o == extend_ttl(storage, i, threshold, extend_to)
               q == extend_ttl(o.storage, c, threshold, extend_to)
    <3>1. KeepsEntries(storage, o.storage) /\ GoodOutcome(storage, o)
      BY <2>0, ExtendKeeps, ExtendGood
    <3>2. KeepsEntries(o.storage, q.storage) /\ GoodOutcome(o.storage, q)
      BY <3>1, ExtendKeeps, ExtendGood DEF GoodOutcome
    <3>3. storage' \in {o.storage, q.storage}
      BY <2>6 DEF ExtendInstanceAndCodeTtl, Exec
    <3> HIDE DEF o, q
    <3>4. KeepsEntries(storage, q.storage)
      <4> SUFFICES ASSUME NEW k \in Key, Present(storage.map[k])
                   PROVE  /\ Present(q.storage.map[k])
                          /\ LongerLived(k, storage.map[k], q.storage.map[k])
        BY DEF KeepsEntries
      <4>1. /\ Present(o.storage.map[k]) /\ Present(q.storage.map[k])
            /\ LongerLived(k, storage.map[k], o.storage.map[k])
            /\ LongerLived(k, o.storage.map[k], q.storage.map[k])
        BY <3>1, <3>2 DEF KeepsEntries
      <4>2. get_key_durability(k) # "None" =>
               /\ storage.map[k].live_until \in SeqNum .. U32Max
               /\ o.storage.map[k].live_until \in SeqNum .. U32Max
               /\ q.storage.map[k].live_until \in SeqNum .. U32Max
        BY <2>0, <3>1, <3>2, <4>1, EntryLife DEF GoodOutcome
      <4> QED
        BY <4>1, <4>2, ConstantsAssumption DEF LongerLived
    <3> QED
      BY <2>0, <2>1, <3>1, <3>3, <3>4
  <2>7. CASE PushFrame \/ PopFrame \/ RollbackFrame
    <3>1. saved \in Seq(StorageMap)
      BY <1>1 DEF Inv
    <3>2. \/ saved' = Append(saved, storage.map)
          \/ saved' = SubSeq(saved, 1, Len(saved) - 1) /\ Len(saved) > 0
      BY <2>7 DEF PushFrame, PopFrame, RollbackFrame, Running
    <3>3. storage.map \in StorageMap
      BY <2>0 DEF StorageInv, Storage
    <3>4. Len(saved') # Len(saved)
      BY <3>1, <3>2, <3>3
    <3> QED
      BY <3>4
  <2> QED
    BY <1>1, <2>2, <2>3, <2>4, <2>5, <2>6, <2>7 DEF Next, ContractDataKey
<1>2. Inv /\ Inv' /\ [Next]_vars =>
         [(\E k \in Key : TtlShrinks(k)) => saved' # saved]_vars
  <2> SUFFICES ASSUME Inv, Inv', [Next]_vars, saved' = saved, ~ UNCHANGED vars,
                      NEW k \in Key, TtlShrinks(k)
               PROVE  FALSE
    OBVIOUS
  <2>1. LongerLived(k, storage.map[k], storage'.map[k])
    BY <1>1 DEF KeepsLife, Present, TtlShrinks
  <2>2. /\ storage.map[k].live_until \in SeqNum .. U32Max
        /\ storage'.map[k].live_until \in SeqNum .. U32Max
    BY EntryLife DEF Inv, Present, TtlShrinks
  <2> QED
    BY <2>1, <2>2, ConstantsAssumption DEF LongerLived, TtlShrinks
<1> QED
  BY <1>2, Invariance, PTL DEF Spec, OnlyRollbackShortensTtl
=============================================================================
