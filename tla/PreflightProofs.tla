--------------------------- MODULE PreflightProofs ---------------------------
(***************************************************************************)
(* The recorded footprint is exact, proved for every ledger, network       *)
(* configuration, declared footprint and nesting depth.                    *)
(*                                                                         *)
(* The argument follows one operation through both storages.  Two storages *)
(* are Together if the declared footprint covers the recorded one and both *)
(* show the same ledger.  Every operation on storages that are together    *)
(* ends with outcomes that are InStep: either still together, with the     *)
(* same error code and the same entry, or the execution was refused an     *)
(* access that the preflight recorded (Parted).  A read-then-write helper  *)
(* can part at its read or at its write; when it parts at the read the     *)
(* preflight goes on alone, and its footprint can only grow further beyond *)
(* the declared one.                                                       *)
(***************************************************************************)
EXTENDS Preflight, TLAPS

\* A recording storage, and an enforcing one, whose map has the keys of its
\* footprint.
Recorder(s) == s \in Storage /\ s.mode = "Recording"

MapOfFootprint(fp, m) == \A k \in Key : m[k] = NotLoaded <=> fp[k] = "NoAccess"

Enforcer(s) ==
    s \in Storage /\ s.mode = "Enforcing" /\ MapOfFootprint(s.footprint, s.map)

Together(s, t) ==
    /\ FootprintLeq(s.footprint, t.footprint)
    /\ SameView(s.map, t.map)

Parted(r, e) ==
    /\ e.err = "ExceededLimit" /\ r.err # "ExceededLimit"
    /\ ~ FootprintLeq(r.storage.footprint, e.storage.footprint)

\* The outcomes r and e of one operation on key k, the latter of storage t.
Typed(r, e, t) ==
    /\ Recorder(r.storage) /\ Enforcer(e.storage)
    /\ e.storage.footprint = t.footprint

InStep(r, e, t, k) ==
    /\ Typed(r, e, t)
    /\ \/ Parted(r, e)
       \/ /\ Together(r.storage, e.storage)
          /\ r.err = e.err
          /\ r.err = "Ok" => r.storage.map[k] = e.storage.map[k]

RollbackPoint == [rec : StorageMap, enf : StorageMap]

PInv ==
    /\ Recorder(rec) /\ Enforcer(enf)
    /\ saved \in Seq(RollbackPoint)
    /\ diverged \in BOOLEAN
    /\ \A i \in 1 .. Len(saved) : MapOfFootprint(enf.footprint, saved[i].enf)
    /\ RecordedFootprintIsExact
    /\ ExecutionSeesPreflightState

-----------------------------------------------------------------------------
\* What an operation leaves of footprint and map when it touches key k.
LEMMA LeqRecorded ==
    ASSUME NEW fp \in Footprint, NEW g \in Footprint, FootprintLeq(fp, g),
           NEW k \in Key, NEW ty \in AccessType
    PROVE  /\ record_access(fp, k, ty) \in Footprint
           /\ FootprintLeq(fp, record_access(fp, k, ty))
           /\ FootprintLeq(record_access(fp, k, ty), g) <=> enforce_access(g, k, ty)
<1>1. record_access(fp, k, ty) \in Footprint
  BY DEF Footprint, AccessType, record_access
<1>2. FootprintLeq(fp, record_access(fp, k, ty))
  BY DEF Footprint, AccessType, record_access, FootprintLeq, AccessLeq
<1>3. ASSUME enforce_access(g, k, ty), NEW j \in Key
      PROVE  AccessLeq(record_access(fp, k, ty)[j], g[j])
  BY <1>3 DEF Footprint, AccessType, record_access, enforce_access, FootprintLeq, AccessLeq
<1>4. ASSUME FootprintLeq(record_access(fp, k, ty), g)
      PROVE  enforce_access(g, k, ty)
  <2>1. AccessLeq(record_access(fp, k, ty)[k], g[k])
    BY <1>4 DEF FootprintLeq
  <2> QED
    BY <2>1 DEF Footprint, AccessType, record_access, enforce_access, AccessLeq
<1> QED
  BY <1>1, <1>2, <1>3, <1>4 DEF FootprintLeq

LEMMA LeqTransitive ==
    ASSUME NEW f \in Footprint, NEW g \in Footprint, NEW h \in Footprint,
           FootprintLeq(f, g), FootprintLeq(g, h)
    PROVE  FootprintLeq(f, h)
<1>1. ASSUME NEW k \in Key PROVE AccessLeq(f[k], h[k])
  <2>1. AccessLeq(f[k], g[k]) /\ AccessLeq(g[k], h[k])
    BY DEF FootprintLeq
  <2> QED
    BY <2>1 DEF AccessLeq
<1> QED
  BY <1>1 DEF FootprintLeq

LEMMA RecordGrows ==
    ASSUME NEW fp \in Footprint, NEW k \in Key, NEW ty \in AccessType
    PROVE  /\ record_access(fp, k, ty) \in Footprint
           /\ FootprintLeq(fp, record_access(fp, k, ty))
  BY DEF Footprint, AccessType, record_access, FootprintLeq, AccessLeq

\* The constructor Store, field by field.
LEMMA StoreFields ==
    ASSUME NEW s \in Storage, NEW fp \in Footprint, NEW m \in StorageMap
    PROVE  LET t == Store(s, fp, m)
           IN  t \in Storage /\ t.mode = s.mode /\ t.footprint = fp /\ t.map = m
  BY DEF Store, Storage

LEMMA OutcomeFields ==
    ASSUME NEW s, NEW err
    PROVE  Outcome(s, err).storage = s /\ Outcome(s, err).err = err
  BY DEF Outcome

LEMMA StorageFields ==
    ASSUME NEW s \in Storage
    PROVE  s.footprint \in Footprint /\ s.map \in StorageMap
  BY DEF Storage

\* Both maps get the same entry, or the recording one loads the entry that the
\* enforcing one has.
LEMMA SameViewUpdate ==
    ASSUME NEW r \in StorageMap, NEW m \in StorageMap, SameView(r, m), NEW k \in Key,
           NEW e \in Entry \union {NoEntry}
    PROVE  /\ [r EXCEPT ![k] = e] \in StorageMap
           /\ SameView([r EXCEPT ![k] = e], [m EXCEPT ![k] = e])
           /\ m[k] = e => SameView([r EXCEPT ![k] = e], m)
  BY ConstantsAssumption DEF StorageMap, SameView

LEMMA MapUpdate ==
    ASSUME NEW m \in StorageMap, NEW fp \in Footprint, MapOfFootprint(fp, m),
           NEW k \in Key, fp[k] # "NoAccess", NEW e \in Entry \union {NoEntry}
    PROVE  /\ [m EXCEPT ![k] = e] \in StorageMap
           /\ MapOfFootprint(fp, [m EXCEPT ![k] = e])
  BY ConstantsAssumption DEF StorageMap, MapOfFootprint

-----------------------------------------------------------------------------
(***************************************************************************)
(* The preflight on its own: a recording storage grants every access and   *)
(* its footprint only grows.                                               *)
(***************************************************************************)
Loaded(s, k) == IF s.map[k] = NotLoaded THEN Source[k] ELSE s.map[k]

LEMMA LoadedEntry ==
    ASSUME NEW s \in Storage, NEW k \in Key
    PROVE  Loaded(s, k) \in Entry \union {NoEntry}
  BY ConstantsAssumption DEF Loaded, Storage, StorageMap

LEMMA RecorderReads ==
    ASSUME NEW s, Recorder(s), NEW k \in Key
    PROVE  LET r == try_get_full(s, k)
           IN  /\ Recorder(r.storage) /\ r.err = "Ok"
               /\ r.storage.footprint = record_access(s.footprint, k, "ReadOnly")
               /\ r.storage.map = [s.map EXCEPT ![k] = Loaded(s, k)]
               /\ r.storage.map[k] = Loaded(s, k)
               /\ FootprintLeq(s.footprint, r.storage.footprint)
<1> DEFINE fp == record_access(s.footprint, k, "ReadOnly")
           m  == [s.map EXCEPT ![k] = Loaded(s, k)]
           t  == Store(s, fp, m)
<1>1. s \in Storage /\ s.mode = "Recording"
  BY DEF Recorder
<1>2. s.footprint \in Footprint /\ s.map \in StorageMap
  BY <1>1, StorageFields
<1>3. fp \in Footprint /\ FootprintLeq(s.footprint, fp)
  BY <1>2, RecordGrows DEF AccessType
<1>4. Loaded(s, k) \in Entry \union {NoEntry}
  BY <1>1, LoadedEntry
<1>5. m \in StorageMap /\ m[k] = Loaded(s, k)
  BY <1>2, <1>4 DEF StorageMap
<1>6. t \in Storage /\ t.mode = "Recording" /\ t.footprint = fp /\ t.map = m
  BY <1>1, <1>3, <1>5, StoreFields
<1>7. prepare_read_only_access(s, k) = Outcome(t, "Ok")
  BY <1>1 DEF prepare_read_only_access, Loaded
<1>8. Loaded(s, k) # NotLoaded
  BY <1>4, ConstantsAssumption
<1> HIDE DEF t, m, fp
<1>9. try_get_full(s, k) = Outcome(t, "Ok")
  BY <1>5, <1>6, <1>7, <1>8, OutcomeFields DEF try_get_full
<1>10. try_get_full(s, k).storage = t /\ try_get_full(s, k).err = "Ok"
  BY <1>9, OutcomeFields
<1>11. Recorder(t)
  BY <1>6 DEF Recorder
<1>12. /\ t.footprint = record_access(s.footprint, k, "ReadOnly")
       /\ t.map = [s.map EXCEPT ![k] = Loaded(s, k)]
  BY <1>6 DEF fp, m
<1> QED
  BY <1>3, <1>5, <1>6, <1>10, <1>11, <1>12

LEMMA RecorderWrites ==
    ASSUME NEW s, Recorder(s), NEW k \in Key, NEW e \in Entry \union {NoEntry}
    PROVE  LET r == put_opt(s, k, e)
           IN  /\ Recorder(r.storage) /\ r.err = "Ok"
               /\ r.storage.footprint = record_access(s.footprint, k, "ReadWrite")
               /\ r.storage.map = [s.map EXCEPT ![k] = e]
               /\ FootprintLeq(s.footprint, r.storage.footprint)
<1> DEFINE fp == record_access(s.footprint, k, "ReadWrite")
           m  == [s.map EXCEPT ![k] = e]
           t  == Store(s, fp, m)
<1>1. s \in Storage /\ s.mode = "Recording"
  BY DEF Recorder
<1>2. s.footprint \in Footprint /\ s.map \in StorageMap
  BY <1>1, StorageFields
<1>3. fp \in Footprint /\ FootprintLeq(s.footprint, fp)
  BY <1>2, RecordGrows DEF AccessType
<1>4. m \in StorageMap
  BY <1>2 DEF StorageMap
<1>5. t \in Storage /\ t.mode = "Recording" /\ t.footprint = fp /\ t.map = m
  BY <1>1, <1>3, <1>4, StoreFields
<1>6. put_opt(s, k, e) = Outcome(t, "Ok")
  BY <1>1 DEF put_opt
<1> HIDE DEF t, m, fp
<1> QED
  BY <1>3, <1>5, <1>6, OutcomeFields DEF Recorder, fp, m

\* Once the execution has been refused, nothing that the preflight records
\* afterwards brings the footprints together again.
LEMMA StaysParted ==
    ASSUME NEW s, Recorder(s), NEW t, Recorder(t), NEW u, Enforcer(u),
           FootprintLeq(s.footprint, t.footprint),
           ~ FootprintLeq(s.footprint, u.footprint)
    PROVE  ~ FootprintLeq(t.footprint, u.footprint)
<1>1. /\ s.footprint \in Footprint /\ t.footprint \in Footprint
      /\ u.footprint \in Footprint
  BY StorageFields DEF Recorder, Enforcer
<1> QED
  BY <1>1, LeqTransitive

-----------------------------------------------------------------------------
(***************************************************************************)
(* Both together: the reads and the writes of the storage.                 *)
(***************************************************************************)
LEMMA ReadInStep ==
    ASSUME NEW s, Recorder(s), NEW t, Enforcer(t), Together(s, t), NEW k \in Key
    PROVE  LET r == try_get_full(s, k)
               e == try_get_full(t, k)
           IN  InStep(r, e, t, k) /\ e.err \in {"Ok", "ExceededLimit"}
<1> DEFINE r == try_get_full(s, k)
           e == try_get_full(t, k)
           granted == enforce_access(t.footprint, k, "ReadOnly")
<1>1. /\ Recorder(r.storage) /\ r.err = "Ok"
      /\ r.storage.footprint = record_access(s.footprint, k, "ReadOnly")
      /\ r.storage.map = [s.map EXCEPT ![k] = Loaded(s, k)]
      /\ r.storage.map[k] = Loaded(s, k)
  BY RecorderReads
<1>2. /\ s \in Storage /\ t \in Storage /\ t.mode = "Enforcing"
      /\ MapOfFootprint(t.footprint, t.map)
      /\ FootprintLeq(s.footprint, t.footprint) /\ SameView(s.map, t.map)
  BY DEF Recorder, Enforcer, Together
<1>3. /\ s.footprint \in Footprint /\ s.map \in StorageMap
      /\ t.footprint \in Footprint /\ t.map \in StorageMap
  BY <1>2, StorageFields
<1>4. FootprintLeq(r.storage.footprint, t.footprint) <=> granted
  BY <1>1, <1>2, <1>3, LeqRecorded DEF AccessType
<1>5. prepare_read_only_access(t, k) = Outcome(t, IF granted THEN "Ok" ELSE "ExceededLimit")
  BY <1>2 DEF prepare_read_only_access
<1>6. CASE ~ granted
  <2>1. e = Outcome(t, "ExceededLimit")
    BY <1>5, <1>6, OutcomeFields DEF try_get_full
  <2> HIDE DEF r, e, granted
  <2> QED
    BY <1>1, <1>4, <1>6, <2>1, OutcomeFields DEF r, e, InStep, Typed, Parted
<1>7. CASE granted
  <2>1. t.map[k] # NotLoaded
    <3>1. t.footprint[k] # "NoAccess"
      BY <1>7 DEF enforce_access
    <3> QED
      BY <3>1, <1>2 DEF MapOfFootprint
  <2>2. e = Outcome(t, "Ok")
    BY <1>5, <1>7, <2>1, OutcomeFields DEF try_get_full
  <2>3. t.map[k] = Loaded(s, k)
    BY <1>2, <2>1 DEF SameView, Loaded
  <2>4. SameView(r.storage.map, t.map)
    <3>1. Loaded(s, k) \in Entry \union {NoEntry}
      BY <1>2, LoadedEntry
    <3>2. SameView([s.map EXCEPT ![k] = Loaded(s, k)], t.map)
      BY <3>1, <1>2, <1>3, <2>3, SameViewUpdate
    <3> HIDE DEF r
    <3> QED
      BY <3>2, <1>1
  <2> HIDE DEF r, e, granted
  <2> QED
    BY <1>1, <1>4, <1>7, <2>2, <2>3, <2>4, OutcomeFields
       DEF r, e, InStep, Typed, Together
<1> QED
  BY <1>6, <1>7

LEMMA WriteInStep ==
    ASSUME NEW s, Recorder(s), NEW t, Enforcer(t), Together(s, t), NEW k \in Key,
           NEW v \in Entry \union {NoEntry}
    PROVE  InStep(put_opt(s, k, v), put_opt(t, k, v), t, k)
<1> DEFINE r == put_opt(s, k, v)
           e == put_opt(t, k, v)
           granted == enforce_access(t.footprint, k, "ReadWrite")
           m == [t.map EXCEPT ![k] = v]
           u == Store(t, t.footprint, m)
<1>1. /\ Recorder(r.storage) /\ r.err = "Ok"
      /\ r.storage.footprint = record_access(s.footprint, k, "ReadWrite")
      /\ r.storage.map = [s.map EXCEPT ![k] = v]
  BY RecorderWrites
<1>2. /\ s \in Storage /\ t \in Storage /\ t.mode = "Enforcing"
      /\ MapOfFootprint(t.footprint, t.map)
      /\ FootprintLeq(s.footprint, t.footprint) /\ SameView(s.map, t.map)
  BY DEF Recorder, Enforcer, Together
<1>3. /\ s.footprint \in Footprint /\ s.map \in StorageMap
      /\ t.footprint \in Footprint /\ t.map \in StorageMap
  BY <1>2, StorageFields
<1>4. FootprintLeq(r.storage.footprint, t.footprint) <=> granted
  BY <1>1, <1>2, <1>3, LeqRecorded DEF AccessType
<1>5. CASE ~ granted
  <2>1. e = Outcome(t, "ExceededLimit")
    BY <1>2, <1>5 DEF put_opt
  <2> HIDE DEF r, e, granted
  <2> QED
    BY <1>1, <1>4, <1>5, <2>1, OutcomeFields DEF r, e, InStep, Typed, Parted
<1>6. CASE granted
  <2>1. t.footprint[k] # "NoAccess"
    BY <1>6 DEF enforce_access
  <2>2. m \in StorageMap /\ MapOfFootprint(t.footprint, m)
    BY <1>2, <1>3, <2>1, MapUpdate
  <2>3. u \in Storage /\ u.mode = "Enforcing" /\ u.footprint = t.footprint /\ u.map = m
    <3> HIDE DEF m, r, e
    <3>1. t \in Storage /\ t.footprint \in Footprint /\ m \in StorageMap
      BY <1>2, <1>3, <2>2
    <3> QED
      BY ONLY <3>1, <1>2, StoreFields
  <2>4. e = Outcome(u, "Ok")
    BY <1>2, <1>6 DEF put_opt
  <2>5. SameView(r.storage.map, m)
    BY <1>1, <1>2, <1>3, SameViewUpdate
  <2>6. r.storage.map[k] = m[k]
    BY <1>1, <1>3 DEF StorageMap
  <2> HIDE DEF r, e, granted, u, m
  <2> QED
    BY <1>1, <1>4, <1>6, <2>2, <2>3, <2>4, <2>5, <2>6, OutcomeFields
       DEF r, e, InStep, Typed, Together, Enforcer
<1> QED
  BY <1>5, <1>6

\* A new entry for a key that may be read: what extend_ttl does.
Touched(s, k, v) == Store(s, s.footprint, [s.map EXCEPT ![k] = v])

LEMMA TouchedRecorder ==
    ASSUME NEW s, Recorder(s), NEW k \in Key, NEW v \in Entry \union {NoEntry}
    PROVE  /\ Recorder(Touched(s, k, v))
           /\ Touched(s, k, v).footprint = s.footprint
           /\ Touched(s, k, v).map = [s.map EXCEPT ![k] = v]
<1> DEFINE m == [s.map EXCEPT ![k] = v]
<1>1. s \in Storage /\ s.mode = "Recording"
  BY DEF Recorder
<1>2. s.footprint \in Footprint /\ m \in StorageMap
  BY <1>1, StorageFields DEF StorageMap
<1>3. Touched(s, k, v) = Store(s, s.footprint, m)
  BY DEF Touched
<1> HIDE DEF m
<1>4. /\ Store(s, s.footprint, m) \in Storage
      /\ Store(s, s.footprint, m).mode = "Recording"
      /\ Store(s, s.footprint, m).footprint = s.footprint
      /\ Store(s, s.footprint, m).map = m
  BY ONLY <1>1, <1>2, StoreFields
<1> QED
  BY <1>3, <1>4 DEF Recorder, m

LEMMA TouchedEnforcer ==
    ASSUME NEW t, Enforcer(t), NEW k \in Key, NEW v \in Entry \union {NoEntry},
           t.map[k] # NotLoaded
    PROVE  /\ Enforcer(Touched(t, k, v))
           /\ Touched(t, k, v).footprint = t.footprint
           /\ Touched(t, k, v).map = [t.map EXCEPT ![k] = v]
<1> DEFINE m == [t.map EXCEPT ![k] = v]
<1>1. t \in Storage /\ t.mode = "Enforcing" /\ MapOfFootprint(t.footprint, t.map)
  BY DEF Enforcer
<1>2. t.footprint \in Footprint /\ t.map \in StorageMap
  BY <1>1, StorageFields
<1>3. t.footprint[k] # "NoAccess"
  BY <1>1 DEF MapOfFootprint
<1>4. m \in StorageMap /\ MapOfFootprint(t.footprint, m)
  BY <1>1, <1>2, <1>3, MapUpdate
<1>5. Touched(t, k, v) = Store(t, t.footprint, m)
  BY DEF Touched
<1> HIDE DEF m
<1>6. /\ Store(t, t.footprint, m) \in Storage
      /\ Store(t, t.footprint, m).mode = "Enforcing"
      /\ Store(t, t.footprint, m).footprint = t.footprint
      /\ Store(t, t.footprint, m).map = m
  BY ONLY <1>1, <1>2, <1>4, StoreFields
<1> QED
  BY <1>4, <1>5, <1>6 DEF Enforcer, m

LEMMA TouchInStep ==
    ASSUME NEW s, Recorder(s), NEW t, Enforcer(t), Together(s, t), NEW k \in Key,
           t.map[k] # NotLoaded, NEW v \in Entry \union {NoEntry}
    PROVE  InStep(Outcome(Touched(s, k, v), "Ok"), Outcome(Touched(t, k, v), "Ok"), t, k)
<1>1. /\ Recorder(Touched(s, k, v)) /\ Touched(s, k, v).footprint = s.footprint
      /\ Touched(s, k, v).map = [s.map EXCEPT ![k] = v]
  BY TouchedRecorder
<1>2. /\ Enforcer(Touched(t, k, v)) /\ Touched(t, k, v).footprint = t.footprint
      /\ Touched(t, k, v).map = [t.map EXCEPT ![k] = v]
  BY TouchedEnforcer
<1>3. s.map \in StorageMap /\ t.map \in StorageMap
  BY StorageFields DEF Recorder, Enforcer
<1>4. SameView([s.map EXCEPT ![k] = v], [t.map EXCEPT ![k] = v])
  BY <1>3, SameViewUpdate DEF Together
<1>5. [s.map EXCEPT ![k] = v][k] = [t.map EXCEPT ![k] = v][k]
  BY <1>3 DEF StorageMap
<1>6. Together(Touched(s, k, v), Touched(t, k, v))
  BY <1>1, <1>2, <1>4 DEF Together
<1>7. Touched(s, k, v).map[k] = Touched(t, k, v).map[k]
  BY <1>1, <1>2, <1>5
<1> DEFINE a == Touched(s, k, v)
           b == Touched(t, k, v)
           r == Outcome(a, "Ok")
           e == Outcome(b, "Ok")
<1>8. r.storage = a /\ r.err = "Ok" /\ e.storage = b /\ e.err = "Ok"
  BY OutcomeFields
<1> HIDE DEF a, b, r, e
<1>9. /\ Recorder(a) /\ Enforcer(b) /\ b.footprint = t.footprint
      /\ Together(a, b) /\ a.map[k] = b.map[k]
  BY <1>1, <1>2, <1>6, <1>7 DEF a, b
<1>10. InStep(r, e, t, k)
  BY <1>8, <1>9 DEF InStep, Typed
<1> QED
  BY <1>10 DEF r, e, a, b

-----------------------------------------------------------------------------
(***************************************************************************)
(* What comes after a read h.  Goes says what the preflight may do next,   *)
(* whatever the execution does; Alike that both do the same.               *)
(***************************************************************************)
Goes(r, h, k) ==
    /\ r.err # "ExceededLimit"
    /\ \/ r.storage = h.storage
       \/ \E v \in Entry \union {NoEntry} : r = put_opt(h.storage, k, v)
       \/ \E v \in Entry \union {NoEntry} : r.storage = Touched(h.storage, k, v)

Alike(r, e, h, g, k) ==
    \/ \E err : r = Outcome(h.storage, err) /\ e = Outcome(g.storage, err)
    \/ \E v \in Entry \union {NoEntry} :
          r = put_opt(h.storage, k, v) /\ e = put_opt(g.storage, k, v)
    \/ \E v \in Entry \union {NoEntry} :
          /\ r = Outcome(Touched(h.storage, k, v), "Ok")
          /\ e = Outcome(Touched(g.storage, k, v), "Ok")

LEMMA AfterRead ==
    ASSUME NEW s, Recorder(s), NEW t, Enforcer(t), Together(s, t), NEW k \in Key,
           NEW h, h = try_get_full(s, k), NEW g, g = try_get_full(t, k),
           NEW r, NEW e,
           Goes(r, h, k),
           g.err # "Ok" => e = g,
           g.err = "Ok" /\ h.storage.map[k] = g.storage.map[k]
              => Alike(r, e, h, g, k)
    PROVE  InStep(r, e, t, k)
<1>1. InStep(h, g, t, k)
  BY ReadInStep
<1>2. /\ Recorder(h.storage) /\ h.err = "Ok"
      /\ h.storage.map[k] = Loaded(s, k)
  BY RecorderReads
<1>3. Enforcer(g.storage) /\ g.storage.footprint = t.footprint
  BY <1>1 DEF InStep, Typed
<1>4. CASE Parted(h, g)
  <2>1. /\ g.err = "ExceededLimit" /\ e = g
        /\ ~ FootprintLeq(h.storage.footprint, g.storage.footprint)
    BY <1>4 DEF Parted
  <2>2. Recorder(r.storage) /\ FootprintLeq(h.storage.footprint, r.storage.footprint)
    <3>1. h.storage.footprint \in Footprint
      BY <1>2, StorageFields DEF Recorder
    <3>2. FootprintLeq(h.storage.footprint, h.storage.footprint)
      BY <3>1 DEF FootprintLeq, AccessLeq
    <3>3. CASE r.storage = h.storage
      BY <3>2, <3>3, <1>2
    <3>4. ASSUME NEW v \in Entry \union {NoEntry}, r = put_opt(h.storage, k, v)
          PROVE  /\ Recorder(r.storage)
                 /\ FootprintLeq(h.storage.footprint, r.storage.footprint)
      <4> DEFINE q == put_opt(h.storage, k, v)
      <4>1. Recorder(q.storage) /\ FootprintLeq(h.storage.footprint, q.storage.footprint)
        BY <1>2, RecorderWrites
      <4> QED
        BY <3>4, <4>1
    <3>5. ASSUME NEW v \in Entry \union {NoEntry}, r.storage = Touched(h.storage, k, v)
          PROVE  /\ Recorder(r.storage)
                 /\ FootprintLeq(h.storage.footprint, r.storage.footprint)
      <4>0. k \in Key /\ v \in Entry \union {NoEntry} /\ Recorder(h.storage)
        BY <1>2
      <4>1. /\ Recorder(Touched(h.storage, k, v))
            /\ Touched(h.storage, k, v).footprint = h.storage.footprint
        BY ONLY <4>0, TouchedRecorder
      <4>2. r.storage.footprint = h.storage.footprint
        BY <4>1, <3>5
      <4> QED
        BY <4>1, <4>2, <3>5, <3>2
    <3> QED
      BY <3>3, <3>4, <3>5 DEF Goes
  <2>3. ~ FootprintLeq(r.storage.footprint, g.storage.footprint)
    BY <1>2, <1>3, <2>1, <2>2, StaysParted
  <2> QED
    BY <1>3, <2>1, <2>2, <2>3 DEF InStep, Typed, Parted, Goes
<1>5. CASE ~ Parted(h, g)
  <2>1. /\ Together(h.storage, g.storage) /\ g.err = "Ok"
        /\ h.storage.map[k] = g.storage.map[k]
    BY <1>1, <1>2, <1>5 DEF InStep
  <2>2. g.storage.map[k] \in Entry \union {NoEntry}
    BY <1>2, <2>1, LoadedEntry DEF Recorder
  <2>3. g.storage.map[k] # NotLoaded
    BY <2>2, ConstantsAssumption
  <2>4. ASSUME NEW err, r = Outcome(h.storage, err), e = Outcome(g.storage, err)
        PROVE  InStep(r, e, t, k)
    BY <1>2, <1>3, <2>1, <2>4, OutcomeFields DEF InStep, Typed
  <2>5. ASSUME NEW v \in Entry \union {NoEntry},
               r = put_opt(h.storage, k, v), e = put_opt(g.storage, k, v)
        PROVE  InStep(r, e, t, k)
    <3>1. InStep(r, e, g.storage, k)
      BY <1>2, <1>3, <2>1, <2>5, WriteInStep
    <3> QED
      BY <3>1, <1>3 DEF InStep, Typed
  <2>6. ASSUME NEW v \in Entry \union {NoEntry},
               r = Outcome(Touched(h.storage, k, v), "Ok"),
               e = Outcome(Touched(g.storage, k, v), "Ok")
        PROVE  InStep(r, e, t, k)
    <3>1. InStep(r, e, g.storage, k)
      BY <1>2, <1>3, <2>1, <2>3, <2>6, TouchInStep
    <3> QED
      BY <3>1, <1>3 DEF InStep, Typed
  <2>7. Alike(r, e, h, g, k)
    BY <2>1, <2>2
  <2> QED
    BY <2>4, <2>5, <2>6, <2>7 DEF Alike
<1> QED
  BY <1>4, <1>5

LEMMA ReadFacts ==
    ASSUME NEW s, Recorder(s), NEW k \in Key, NEW h, h = try_get_full(s, k)
    PROVE  /\ Recorder(h.storage) /\ h.err = "Ok"
           /\ h.storage.map[k] \in Entry \union {NoEntry}
<1>1. Recorder(h.storage) /\ h.err = "Ok" /\ h.storage.map[k] = Loaded(s, k)
  BY RecorderReads
<1> QED
  BY <1>1, LoadedEntry DEF Recorder

LEMMA WriteOk ==
    ASSUME NEW s, Recorder(s), NEW k \in Key, NEW v \in Entry \union {NoEntry}
    PROVE  put_opt(s, k, v).err = "Ok"
  BY OutcomeFields DEF Recorder, put_opt

LEMMA ReadIsOutcome ==
    ASSUME NEW s, NEW k
    PROVE  try_get_full(s, k) = Outcome(try_get_full(s, k).storage, try_get_full(s, k).err)
  BY DEF try_get_full, prepare_read_only_access, Outcome

-----------------------------------------------------------------------------
(***************************************************************************)
(* The operations, one by one.                                             *)
(***************************************************************************)
LEMMA GetInStep ==
    ASSUME NEW s, Recorder(s), NEW t, Enforcer(t), Together(s, t), NEW k \in Key
    PROVE  InStep(get_with_live_until_ledger(s, k), get_with_live_until_ledger(t, k), t, k)
<1> DEFINE h == try_get_full(s, k)
           g == try_get_full(t, k)
           r == get_with_live_until_ledger(s, k)
           e == get_with_live_until_ledger(t, k)
<1>1. h.err = "Ok"
  BY RecorderReads
<1>2. h = Outcome(h.storage, h.err) /\ g = Outcome(g.storage, g.err)
  BY ReadIsOutcome
<1>3. /\ r = IF h.err = "Ok" /\ h.storage.map[k] = NoEntry
             THEN Outcome(h.storage, "MissingValue") ELSE h
      /\ e = IF g.err = "Ok" /\ g.storage.map[k] = NoEntry
             THEN Outcome(g.storage, "MissingValue") ELSE g
  BY DEF get_with_live_until_ledger
<1>4. h = try_get_full(s, k) /\ g = try_get_full(t, k)
  OBVIOUS
<1> HIDE DEF h, g, r, e
<1>5. Goes(r, h, k)
  BY <1>1, <1>3, OutcomeFields DEF Goes
<1>6. g.err # "Ok" => e = g
  BY <1>3
<1>7. g.err = "Ok" /\ h.storage.map[k] = g.storage.map[k] => Alike(r, e, h, g, k)
  BY <1>1, <1>2, <1>3 DEF Alike
<1>8. k \in Key /\ Recorder(s) /\ Enforcer(t) /\ Together(s, t)
  OBVIOUS
<1>9. InStep(r, e, t, k)
  BY ONLY <1>4, <1>5, <1>6, <1>7, <1>8, AfterRead
<1> QED
  BY <1>9 DEF r, e

\* The entries that the helpers write are well-formed.
LEMMA NewEntry ==
    ASSUME NEW v \in Val, NEW l \in LiveUntil
    PROVE  [val |-> v, live_until |-> l] \in Entry \union {NoEntry}
  BY DEF Entry

LEMMA LiveUntilValues ==
    /\ \A d : get_min_live_until_ledger(d) \in LiveUntil /\ get_min_live_until_ledger(d) \in Nat
    /\ max_live_until_ledger \in LiveUntil /\ max_live_until_ledger \in Nat
    /\ max_live_until_ledger <= U32Max
    /\ \A l \in SeqNum .. max_live_until_ledger : l \in LiveUntil
    /\ \A n \in 0 .. U32Max : clamped_live_until(n) \in LiveUntil
    /\ NoTtl \in LiveUntil
<1>1. /\ SeqNum \in Nat /\ MinTempTtl \in Nat /\ MinPersTtl \in Nat /\ MaxEntryTtl \in Nat
      /\ U32Max \in Nat /\ MinTempTtl \in 1 .. MaxEntryTtl /\ MinPersTtl \in 1 .. MaxEntryTtl
      /\ SeqNum + MaxEntryTtl - 1 <= U32Max
  BY ConstantsAssumption, NetworkAssumption
<1>2. /\ SeqNum + MinTempTtl - 1 \in 0 .. U32Max /\ SeqNum + MinPersTtl - 1 \in 0 .. U32Max
      /\ SeqNum + MaxEntryTtl - 1 \in 0 .. U32Max
  BY <1>1
<1>3. \A d : get_min_live_until_ledger(d) \in 0 .. U32Max
  BY <1>2 DEF get_min_live_until_ledger
<1>4. max_live_until_ledger \in 0 .. U32Max
  BY <1>2 DEF max_live_until_ledger
<1>5. \A l \in SeqNum .. max_live_until_ledger : l \in 0 .. U32Max
  BY <1>1, <1>4
<1>6. \A n \in 0 .. U32Max : clamped_live_until(n) \in 0 .. U32Max
  BY <1>1, <1>4 DEF clamped_live_until
<1> QED
  BY <1>1, <1>3, <1>4, <1>5, <1>6 DEF LiveUntil

LEMMA PutContractDataInStep ==
    ASSUME NEW s, Recorder(s), NEW t, Enforcer(t), Together(s, t), NEW k \in Key,
           NEW v \in Val
    PROVE  InStep(put_contract_data_into_ledger(s, k, v),
                  put_contract_data_into_ledger(t, k, v), t, k)
<1> DEFINE h == try_get_full(s, k)
           g == try_get_full(t, k)
           r == put_contract_data_into_ledger(s, k, v)
           e == put_contract_data_into_ledger(t, k, v)
           Life(m) == IF m[k] # NoEntry THEN m[k].live_until
                      ELSE get_min_live_until_ledger(get_key_durability(k))
           New(m) == [val |-> v, live_until |-> Life(m)]
<1>1. /\ Recorder(h.storage) /\ h.err = "Ok"
      /\ h.storage.map[k] \in Entry \union {NoEntry}
  BY ReadFacts
<1>2. /\ r = IF h.err # "Ok" THEN h ELSE put_opt(h.storage, k, New(h.storage.map))
      /\ e = IF g.err # "Ok" THEN g ELSE put_opt(g.storage, k, New(g.storage.map))
  BY DEF put_contract_data_into_ledger, has, put
<1>3. New(h.storage.map) \in Entry \union {NoEntry}
  <2>1. Life(h.storage.map) \in LiveUntil
    BY <1>1, LiveUntilValues DEF Entry
  <2> QED
    BY <2>1, NewEntry
<1>4. h.storage.map[k] = g.storage.map[k] => New(g.storage.map) = New(h.storage.map)
  OBVIOUS
<1>5. h = try_get_full(s, k) /\ g = try_get_full(t, k)
  OBVIOUS
<1> HIDE DEF h, g, r, e, New
<1>6. put_opt(h.storage, k, New(h.storage.map)).err = "Ok"
  BY <1>1, <1>3, WriteOk
<1>7. Goes(r, h, k)
  BY <1>1, <1>2, <1>3, <1>6 DEF Goes
<1>8. g.err # "Ok" => e = g
  BY <1>2
<1>9. g.err = "Ok" /\ h.storage.map[k] = g.storage.map[k] => Alike(r, e, h, g, k)
  BY <1>1, <1>2, <1>3, <1>4 DEF Alike
<1>10. k \in Key /\ Recorder(s) /\ Enforcer(t) /\ Together(s, t)
  OBVIOUS
<1>11. InStep(r, e, t, k)
  BY ONLY <1>5, <1>7, <1>8, <1>9, <1>10, AfterRead
<1> QED
  BY <1>11 DEF r, e

LEMMA UploadInStep ==
    ASSUME NEW s, Recorder(s), NEW t, Enforcer(t), Together(s, t), NEW k \in Key,
           NEW v \in Val
    PROVE  InStep(upload_contract_wasm(s, k, v), upload_contract_wasm(t, k, v), t, k)
<1> DEFINE h == try_get_full(s, k)
           g == try_get_full(t, k)
           r == upload_contract_wasm(s, k, v)
           e == upload_contract_wasm(t, k, v)
           n == [val |-> v, live_until |-> get_min_live_until_ledger("Persistent")]
<1>1. Recorder(h.storage) /\ h.err = "Ok"
  BY ReadFacts
<1>2. /\ r = IF h.err # "Ok" \/ h.storage.map[k] # NoEntry THEN h ELSE put_opt(h.storage, k, n)
      /\ e = IF g.err # "Ok" \/ g.storage.map[k] # NoEntry THEN g ELSE put_opt(g.storage, k, n)
  BY DEF upload_contract_wasm, has, put
<1>3. n \in Entry \union {NoEntry}
  BY LiveUntilValues, NewEntry
<1>4. h = Outcome(h.storage, h.err) /\ g = Outcome(g.storage, g.err)
  BY ReadIsOutcome
<1>5. h = try_get_full(s, k) /\ g = try_get_full(t, k)
  OBVIOUS
<1> HIDE DEF h, g, r, e, n
<1>6. put_opt(h.storage, k, n).err = "Ok"
  BY <1>1, <1>3, WriteOk
<1>7. Goes(r, h, k)
  BY <1>1, <1>2, <1>3, <1>6 DEF Goes
<1>8. g.err # "Ok" => e = g
  BY <1>2
<1>9. g.err = "Ok" /\ h.storage.map[k] = g.storage.map[k] => Alike(r, e, h, g, k)
  BY <1>1, <1>2, <1>3, <1>4 DEF Alike
<1>10. k \in Key /\ Recorder(s) /\ Enforcer(t) /\ Together(s, t)
  OBVIOUS
<1>11. InStep(r, e, t, k)
  BY ONLY <1>5, <1>7, <1>8, <1>9, <1>10, AfterRead
<1> QED
  BY <1>11 DEF r, e

LEMMA ConsumeNonceInStep ==
    ASSUME NEW s, Recorder(s), NEW t, Enforcer(t), Together(s, t), NEW k \in Key,
           NEW v \in Val, NEW l \in SeqNum .. max_live_until_ledger
    PROVE  InStep(consume_nonce(s, k, v, l), consume_nonce(t, k, v, l), t, k)
<1> DEFINE h == try_get_full(s, k)
           g == try_get_full(t, k)
           r == consume_nonce(s, k, v, l)
           e == consume_nonce(t, k, v, l)
           min == get_min_live_until_ledger("Temporary")
           n == [val |-> v, live_until |-> IF l > min THEN l ELSE min]
<1>1. Recorder(h.storage) /\ h.err = "Ok"
  BY ReadFacts
<1>2. /\ r = IF h.err # "Ok" THEN h
             ELSE IF h.storage.map[k] # NoEntry THEN Outcome(h.storage, "ExistingValue")
             ELSE put_opt(h.storage, k, n)
      /\ e = IF g.err # "Ok" THEN g
             ELSE IF g.storage.map[k] # NoEntry THEN Outcome(g.storage, "ExistingValue")
             ELSE put_opt(g.storage, k, n)
  BY DEF consume_nonce, has, put
<1>3. n \in Entry \union {NoEntry}
  <2>1. (IF l > min THEN l ELSE min) \in LiveUntil
    BY LiveUntilValues
  <2> QED
    BY <2>1, NewEntry
<1>4. h = try_get_full(s, k) /\ g = try_get_full(t, k)
  OBVIOUS
<1> HIDE DEF h, g, r, e, n
<1>5. put_opt(h.storage, k, n).err = "Ok"
  BY <1>1, <1>3, WriteOk
<1>6. Outcome(h.storage, "ExistingValue").err = "ExistingValue"
      /\ Outcome(h.storage, "ExistingValue").storage = h.storage
  BY OutcomeFields
<1>7. Goes(r, h, k)
  BY <1>1, <1>2, <1>3, <1>5, <1>6 DEF Goes
<1>8. g.err # "Ok" => e = g
  BY <1>2
<1>9. g.err = "Ok" /\ h.storage.map[k] = g.storage.map[k] => Alike(r, e, h, g, k)
  BY <1>1, <1>2, <1>3 DEF Alike
<1>10. k \in Key /\ Recorder(s) /\ Enforcer(t) /\ Together(s, t)
  OBVIOUS
<1>11. InStep(r, e, t, k)
  BY ONLY <1>4, <1>7, <1>8, <1>9, <1>10, AfterRead
<1> QED
  BY <1>11 DEF r, e

LEMMA WriteAccountInStep ==
    ASSUME NEW s, Recorder(s), NEW t, Enforcer(t), Together(s, t), NEW k \in Key,
           NEW v \in Val
    PROVE  InStep(write_account(s, k, v), write_account(t, k, v), t, k)
<1> DEFINE h == try_get_full(s, k)
           g == try_get_full(t, k)
           r == write_account(s, k, v)
           e == write_account(t, k, v)
           n == [val |-> v, live_until |-> NoTtl]
<1>1. Recorder(h.storage) /\ h.err = "Ok"
  BY ReadFacts
<1>2. /\ r = IF h.err # "Ok" THEN h
             ELSE IF h.storage.map[k] = NoEntry THEN Outcome(h.storage, "MissingValue")
             ELSE put_opt(h.storage, k, n)
      /\ e = IF g.err # "Ok" THEN g
             ELSE IF g.storage.map[k] = NoEntry THEN Outcome(g.storage, "MissingValue")
             ELSE put_opt(g.storage, k, n)
  BY OutcomeFields DEF write_account, get_with_live_until_ledger, put
<1>3. n \in Entry \union {NoEntry}
  BY LiveUntilValues, NewEntry
<1>4. h = try_get_full(s, k) /\ g = try_get_full(t, k)
  OBVIOUS
<1> HIDE DEF h, g, r, e, n
<1>5. put_opt(h.storage, k, n).err = "Ok"
  BY <1>1, <1>3, WriteOk
<1>6. Outcome(h.storage, "MissingValue").err = "MissingValue"
      /\ Outcome(h.storage, "MissingValue").storage = h.storage
  BY OutcomeFields
<1>7. Goes(r, h, k)
  BY <1>1, <1>2, <1>3, <1>5, <1>6 DEF Goes
<1>8. g.err # "Ok" => e = g
  BY <1>2
<1>9. g.err = "Ok" /\ h.storage.map[k] = g.storage.map[k] => Alike(r, e, h, g, k)
  BY <1>1, <1>2, <1>3 DEF Alike
<1>10. k \in Key /\ Recorder(s) /\ Enforcer(t) /\ Together(s, t)
  OBVIOUS
<1>11. InStep(r, e, t, k)
  BY ONLY <1>4, <1>7, <1>8, <1>9, <1>10, AfterRead
<1> QED
  BY <1>11 DEF r, e

\* extend_ttl looks at the entry and the ledger only, and writes without asking
\* for more than read access.
LEMMA ExtendInStep ==
    ASSUME NEW s, Recorder(s), NEW t, Enforcer(t), Together(s, t), NEW k \in Key,
           NEW threshold \in 0 .. U32Max, NEW n \in 0 .. U32Max
    PROVE  InStep(extend_ttl(s, k, threshold, n), extend_ttl(t, k, threshold, n), t, k)
<1> DEFINE h == try_get_full(s, k)
           g == try_get_full(t, k)
           r == extend_ttl(s, k, threshold, n)
           e == extend_ttl(t, k, threshold, n)
           New(m) == [val |-> m[k].val, live_until |-> clamped_live_until(n)]
           Verdict(m) ==
               IF m[k] = NoEntry THEN "MissingValue"
               ELSE IF m[k].live_until = NoTtl THEN "InternalError"
               ELSE IF m[k].live_until < SeqNum \/ SeqNum + n > U32Max THEN "InternalError"
               ELSE IF SeqNum + n > max_live_until_ledger /\ get_key_durability(k) = "None"
                    THEN "InternalError"
               ELSE IF SeqNum + n > max_live_until_ledger
                       /\ get_key_durability(k) = "Temporary" THEN "InvalidAction"
               ELSE "Ok"
           Longer(m) == /\ clamped_live_until(n) > m[k].live_until
                        /\ m[k].live_until - SeqNum <= threshold
           After(u) == IF Verdict(u.map) = "Ok" /\ Longer(u.map)
                       THEN Outcome(Touched(u, k, New(u.map)), "Ok")
                       ELSE Outcome(u, Verdict(u.map))
<1>1. CASE threshold > n
  <2>1. r = Outcome(s, "InvalidInput") /\ e = Outcome(t, "InvalidInput")
    BY <1>1 DEF extend_ttl
  <2> HIDE DEF r, e
  <2>2. InStep(r, e, t, k)
    BY <2>1, OutcomeFields DEF InStep, Typed
  <2> QED
    BY <2>2 DEF r, e
<1>2. CASE ~ (threshold > n)
  <2>1. /\ Recorder(h.storage) /\ h.err = "Ok"
        /\ h.storage.map[k] \in Entry \union {NoEntry}
    BY ReadFacts
  <2>2. h = Outcome(h.storage, h.err) /\ g = Outcome(g.storage, g.err)
    BY ReadIsOutcome
  <2>3. h = try_get_full(s, k) /\ g = try_get_full(t, k)
    OBVIOUS
  <2>4. ASSUME NEW u, try_get_full(u, k).err = "Ok"
        PROVE  extend_ttl(u, k, threshold, n) = After(try_get_full(u, k).storage)
    <3> DEFINE q == try_get_full(u, k)
    <3>1. q = Outcome(q.storage, "Ok")
      BY <2>4, ReadIsOutcome
    <3>2. get_with_live_until_ledger(u, k) =
             IF q.storage.map[k] = NoEntry THEN Outcome(q.storage, "MissingValue") ELSE q
      BY <2>4 DEF get_with_live_until_ledger
    <3>3. CASE q.storage.map[k] = NoEntry
      BY <1>2, <3>2, <3>3, OutcomeFields DEF extend_ttl
    <3>4. CASE q.storage.map[k] # NoEntry
      <4>1. get_with_live_until_ledger(u, k) = q
        BY <3>2, <3>4
      <4> QED
        BY <1>2, <2>4, <3>1, <3>4, <4>1 DEF extend_ttl, set_live_until, Touched
    <3> QED
      BY <3>3, <3>4
  <2>5. r = After(h.storage)
    BY <2>1, <2>4
  <2>6. g.err = "Ok" => e = After(g.storage)
    BY <2>4
  <2>7. g.err # "Ok" => e = g
    BY <1>2 DEF extend_ttl, get_with_live_until_ledger
  <2>8. h.storage.map[k] # NoEntry => New(h.storage.map) \in Entry \union {NoEntry}
    <3>1. h.storage.map[k] # NoEntry => h.storage.map[k].val \in Val
      BY <2>1 DEF Entry
    <3> QED
      BY <3>1, LiveUntilValues, NewEntry
  <2>9. h.storage.map[k] = g.storage.map[k]
           => /\ New(h.storage.map) = New(g.storage.map)
              /\ Verdict(h.storage.map) = Verdict(g.storage.map)
              /\ Longer(h.storage.map) <=> Longer(g.storage.map)
    OBVIOUS
  <2>10. /\ Verdict(h.storage.map) # "ExceededLimit"
         /\ Verdict(h.storage.map) = "Ok" => h.storage.map[k] # NoEntry
    OBVIOUS
  <2> HIDE DEF h, g, r, e, New, Verdict, Longer
  <2>11. Goes(r, h, k)
    BY <2>5, <2>8, <2>10, OutcomeFields DEF Goes
  <2>12. g.err = "Ok" /\ h.storage.map[k] = g.storage.map[k] => Alike(r, e, h, g, k)
    BY <2>5, <2>6, <2>8, <2>9, <2>10 DEF Alike
  <2>13. k \in Key /\ Recorder(s) /\ Enforcer(t) /\ Together(s, t)
    OBVIOUS
  <2>14. InStep(r, e, t, k)
    BY ONLY <2>3, <2>7, <2>11, <2>12, <2>13, AfterRead
  <2> QED
    BY <2>14 DEF r, e
<1> QED
  BY <1>1, <1>2

-----------------------------------------------------------------------------
(***************************************************************************)
(* The invariant.                                                          *)
(***************************************************************************)
LEMMA InitPInv == Init => PInv
<1> SUFFICES ASSUME Init PROVE PInv
  OBVIOUS
<1> USE DEF Init
<1> DEFINE none == [k \in Key |-> "NoAccess"]
           empty == [k \in Key |-> NotLoaded]
<1>1. none \in Footprint /\ empty \in StorageMap
  BY DEF Footprint, StorageMap
<1>2. rec \in Storage /\ rec.mode = "Recording" /\ rec.footprint = none /\ rec.map = empty
  BY <1>1 DEF with_recording_footprint, Storage
<1>3. PICK fp \in Footprint : enf = with_enforcing_footprint_and_map(fp)
  OBVIOUS
<1> DEFINE m == [k \in Key |-> IF fp[k] = "NoAccess" THEN NotLoaded ELSE Source[k]]
<1>4. m \in StorageMap /\ MapOfFootprint(fp, m) /\ SameView(empty, m)
  BY ConstantsAssumption DEF StorageMap, MapOfFootprint, SameView
<1>5. enf \in Storage /\ enf.mode = "Enforcing" /\ enf.footprint = fp /\ enf.map = m
  BY <1>3, <1>4 DEF with_enforcing_footprint_and_map, Storage
<1>6. FootprintLeq(none, fp)
  BY DEF FootprintLeq, AccessLeq
<1> HIDE DEF none, empty, m
<1> DEFINE p == [rec |-> empty, enf |-> m]
<1>7. p \in RollbackPoint /\ p.rec = empty /\ p.enf = m /\ saved = <<p>>
  BY <1>1, <1>2, <1>4, <1>5 DEF RollbackPoint
<1> HIDE DEF p
<1>8. saved \in Seq(RollbackPoint) /\ Len(saved) = 1 /\ \A i \in 1 .. 1 : saved[i] = p
  BY <1>7
<1>9. Recorder(rec) /\ Enforcer(enf)
  BY <1>2, <1>4, <1>5 DEF Recorder, Enforcer
<1>10. RecordedFootprintIsExact
  BY <1>2, <1>5, <1>6 DEF RecordedFootprintIsExact
<1>11. ExecutionSeesPreflightState
  BY <1>2, <1>4, <1>5, <1>7, <1>8 DEF ExecutionSeesPreflightState
<1>12. \A i \in 1 .. Len(saved) : MapOfFootprint(enf.footprint, saved[i].enf)
  BY <1>4, <1>5, <1>7, <1>8
<1> QED
  BY <1>8, <1>9, <1>10, <1>11, <1>12 DEF PInv

LEMMA ExecPInv ==
    ASSUME PInv, NEW k \in Key, NEW r, NEW e, InStep(r, e, enf, k), Exec(r, e, k)
    PROVE  PInv'
<1>1. /\ rec' = r.storage /\ enf' = e.storage /\ saved' = saved /\ ~ diverged
      /\ diverged' \in BOOLEAN
      /\ diverged' <=> ( \/ r.err # e.err
                         \/ r.err = "Ok" /\ r.storage.map[k] # e.storage.map[k] )
  BY DEF Exec, Running
<1>2. /\ Recorder(r.storage) /\ Enforcer(e.storage)
      /\ e.storage.footprint = enf.footprint
  BY DEF InStep, Typed
<1>3. Recorder(rec') /\ Enforcer(enf') /\ enf'.footprint = enf.footprint
  BY <1>1, <1>2
<1>4. \A i \in 1 .. Len(saved') : MapOfFootprint(enf'.footprint, saved'[i].enf)
  BY <1>1, <1>3 DEF PInv
<1>5. saved' \in Seq(RollbackPoint)
  BY <1>1 DEF PInv
<1>6. CASE Parted(r, e)
  <2>1. diverged'
    BY <1>1, <1>6 DEF Parted
  <2>2. ~ FootprintLeq(rec'.footprint, enf'.footprint)
    BY <1>1, <1>6 DEF Parted
  <2>3. RecordedFootprintIsExact' /\ ExecutionSeesPreflightState'
    BY <2>1, <2>2 DEF RecordedFootprintIsExact, ExecutionSeesPreflightState
  <2> QED
    BY <1>1, <1>3, <1>4, <1>5, <2>3 DEF PInv, Recorder, Enforcer
<1>7. CASE ~ Parted(r, e)
  <2>1. /\ Together(r.storage, e.storage) /\ r.err = e.err
        /\ r.err = "Ok" => r.storage.map[k] = e.storage.map[k]
    BY <1>7 DEF InStep
  <2>2. ~ diverged'
    BY <1>1, <2>1
  <2>3. FootprintLeq(rec'.footprint, enf'.footprint) /\ SameView(rec'.map, enf'.map)
    BY <1>1, <2>1 DEF Together
  <2>4. \A i \in 1 .. Len(saved) : SameView(saved[i].rec, saved[i].enf)
    BY <1>1 DEF PInv, ExecutionSeesPreflightState
  <2>5. RecordedFootprintIsExact' /\ ExecutionSeesPreflightState'
    BY <1>1, <2>2, <2>3, <2>4 DEF RecordedFootprintIsExact, ExecutionSeesPreflightState
  <2> QED
    BY <1>1, <1>3, <1>4, <1>5, <2>5 DEF PInv, Recorder, Enforcer
<1> QED
  BY <1>6, <1>7

LEMMA FramesPInv ==
    ASSUME PInv, PushFrame \/ PopFrame \/ RollbackFrame
    PROVE  PInv'
<1>1. /\ Recorder(rec) /\ Enforcer(enf) /\ saved \in Seq(RollbackPoint)
      /\ diverged' = diverged /\ ~ diverged
      /\ Together(rec, enf)
      /\ \A i \in 1 .. Len(saved) : /\ MapOfFootprint(enf.footprint, saved[i].enf)
                                    /\ SameView(saved[i].rec, saved[i].enf)
  BY DEF PInv, RecordedFootprintIsExact, ExecutionSeesPreflightState, Together,
         PushFrame, PopFrame, RollbackFrame, Running
<1>2. /\ rec \in Storage /\ enf \in Storage /\ rec.map \in StorageMap /\ enf.map \in StorageMap
      /\ rec.footprint \in Footprint /\ enf.footprint \in Footprint
      /\ MapOfFootprint(enf.footprint, enf.map)
  BY <1>1, StorageFields DEF Recorder, Enforcer
<1>3. SUFFICES /\ Recorder(rec') /\ Enforcer(enf') /\ saved' \in Seq(RollbackPoint)
               /\ Together(rec', enf')
               /\ \A i \in 1 .. Len(saved') :
                     /\ MapOfFootprint(enf'.footprint, saved'[i].enf)
                     /\ SameView(saved'[i].rec, saved'[i].enf)
  BY <1>1 DEF PInv, RecordedFootprintIsExact, ExecutionSeesPreflightState, Together,
              Recorder, Enforcer
<1>4. CASE PushFrame
  <2> DEFINE p == [rec |-> rec.map, enf |-> enf.map]
  <2>1. p \in RollbackPoint /\ p.rec = rec.map /\ p.enf = enf.map
    BY <1>2 DEF RollbackPoint
  <2>2. saved' = Append(saved, p) /\ rec' = rec /\ enf' = enf
    BY <1>4 DEF PushFrame
  <2> HIDE DEF p
  <2>3. /\ saved' \in Seq(RollbackPoint) /\ Len(saved') = Len(saved) + 1
        /\ \A i \in 1 .. Len(saved') :
              IF i = Len(saved') THEN saved'[i] = p
              ELSE i \in 1 .. Len(saved) /\ saved'[i] = saved[i]
    BY <1>1, <2>1, <2>2
  <2>4. SameView(p.rec, p.enf) /\ MapOfFootprint(enf.footprint, p.enf)
    BY <1>1, <1>2, <2>1 DEF Together
  <2> QED
    BY <1>1, <2>2, <2>3, <2>4
<1>5. CASE PopFrame \/ RollbackFrame
  <2>1. Len(saved) > 0 /\ saved' = SubSeq(saved, 1, Len(saved) - 1)
    BY <1>5 DEF PopFrame, RollbackFrame, Running
  <2>2. /\ saved' \in Seq(RollbackPoint)
        /\ \A i \in 1 .. Len(saved') : i \in 1 .. Len(saved) /\ saved'[i] = saved[i]
    BY <1>1, <2>1
  <2>3. CASE PopFrame
    BY <1>1, <2>2, <2>3 DEF PopFrame
  <2>4. CASE RollbackFrame
    <3> DEFINE p == saved[Len(saved)]
    <3>1. /\ p \in RollbackPoint /\ SameView(p.rec, p.enf)
          /\ MapOfFootprint(enf.footprint, p.enf)
      BY <1>1, <2>1
    <3>2. p.rec \in StorageMap /\ p.enf \in StorageMap
      BY <3>1 DEF RollbackPoint
    <3>3. rec' = Store(rec, rec.footprint, p.rec) /\ enf' = Store(enf, enf.footprint, p.enf)
      BY <2>4 DEF RollbackFrame
    <3> HIDE DEF p
    <3>4. /\ rec' \in Storage /\ rec'.mode = rec.mode /\ rec'.footprint = rec.footprint
          /\ rec'.map = p.rec
      BY <1>2, <3>2, <3>3 DEF Store, Storage
    <3>5. /\ enf' \in Storage /\ enf'.mode = enf.mode /\ enf'.footprint = enf.footprint
          /\ enf'.map = p.enf
      BY <1>2, <3>2, <3>3 DEF Store, Storage
    <3>6. Recorder(rec') /\ Enforcer(enf') /\ Together(rec', enf')
      BY <1>1, <3>1, <3>4, <3>5 DEF Recorder, Enforcer, Together
    <3> QED
      BY <1>1, <2>2, <3>5, <3>6
  <2> QED
    BY <1>5, <2>3, <2>4
<1> QED
  BY <1>4, <1>5

LEMMA NextPInv ==
    ASSUME PInv, [Next]_vars
    PROVE  PInv'
<1>1. CASE ~ diverged
  <2>1. Recorder(rec) /\ Enforcer(enf) /\ Together(rec, enf)
    BY <1>1 DEF PInv, RecordedFootprintIsExact, ExecutionSeesPreflightState, Together
  <2>2. ASSUME NEW k \in Key, HasContractData(k)
        PROVE  PInv'
    BY <2>1, <2>2, ReadInStep, ExecPInv DEF HasContractData, has
  <2>3. ASSUME NEW k \in Key, GetContractData(k) \/ LoadEntry(k)
        PROVE  PInv'
    BY <2>1, <2>3, GetInStep, ExecPInv DEF GetContractData, LoadEntry
  <2>4. ASSUME NEW k \in Key, DelContractData(k)
        PROVE  PInv'
    BY <2>1, <2>4, WriteInStep, ExecPInv DEF DelContractData, del
  <2>5. ASSUME NEW k \in Key, NEW v \in Val, PutContractData(k, v)
        PROVE  PInv'
    BY <2>1, <2>5, PutContractDataInStep, ExecPInv DEF PutContractData
  <2>6. ASSUME NEW k \in Key, NEW threshold \in 0 .. U32Max, NEW n \in 0 .. U32Max,
               ExtendContractDataTtl(k, threshold, n)
        PROVE  PInv'
    BY <2>1, <2>6, ExtendInStep, ExecPInv DEF ExtendContractDataTtl
  <2>7. ASSUME NEW k \in Key, NEW v \in Val, UploadContractWasm(k, v)
        PROVE  PInv'
    BY <2>1, <2>7, UploadInStep, ExecPInv DEF UploadContractWasm
  <2>8. ASSUME NEW k \in Key, NEW v \in Val, WriteAccount(k, v)
        PROVE  PInv'
    BY <2>1, <2>8, WriteAccountInStep, ExecPInv DEF WriteAccount
  <2>9. ASSUME NEW k \in Key, NEW v \in Val, NEW l \in SeqNum .. max_live_until_ledger,
               ConsumeNonce(k, v, l)
        PROVE  PInv'
    BY <2>1, <2>9, ConsumeNonceInStep, ExecPInv DEF ConsumeNonce
  <2>10. CASE UNCHANGED vars
    BY <2>10 DEF vars, PInv, RecordedFootprintIsExact, ExecutionSeesPreflightState,
                 Recorder, Enforcer
  <2> QED
    BY <2>2, <2>3, <2>4, <2>5, <2>6, <2>7, <2>8, <2>9, <2>10, FramesPInv DEF Next
<1>2. CASE diverged
  <2>1. UNCHANGED vars
    BY <1>2 DEF Next, HasContractData, GetContractData, PutContractData, DelContractData,
                ExtendContractDataTtl, UploadContractWasm, ConsumeNonce, LoadEntry,
                WriteAccount, Exec, PushFrame, PopFrame, RollbackFrame, Running
  <2> QED
    BY <2>1 DEF vars, PInv, RecordedFootprintIsExact, ExecutionSeesPreflightState,
                Recorder, Enforcer
<1> QED
  BY <1>1, <1>2

\* The two executions stay in step until the execution is refused an access.
THEOREM Lockstep == Spec => []PInv
<1>1. Init => PInv
  BY InitPInv
<1>2. PInv /\ [Next]_vars => PInv'
  BY NextPInv
<1> QED
  BY <1>1, <1>2, PTL DEF Spec

(***************************************************************************)
(* The footprint that a preflight records (storage.rs, FootprintMode) is   *)
(* exactly what the execution needs, for every program, ledger and         *)
(* declared footprint: with at least the recorded accesses declared, no    *)
(* operation behaves differently, and with any of them missing or weaker,  *)
(* one does.                                                               *)
(***************************************************************************)
THEOREM PreflightIsExact == Spec => []RecordedFootprintIsExact
<1>1. PInv => RecordedFootprintIsExact
  BY DEF PInv
<1> QED
  BY <1>1, Lockstep, PTL

(***************************************************************************)
(* As long as the two executions have not parted they see the same ledger, *)
(* in every frame and after every rollback, although the recording storage *)
(* loads entries when they are first read and forgets them on rollback.    *)
(***************************************************************************)
THEOREM SameLedgerIsSeen == Spec => []ExecutionSeesPreflightState
<1>1. PInv => ExecutionSeesPreflightState
  BY DEF PInv
<1> QED
  BY <1>1, Lockstep, PTL
=============================================================================
