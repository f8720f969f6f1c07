------------------------------ MODULE AuthProofs ------------------------------
(***************************************************************************)
(* The authorization manager, for any contracts and accounts, any          *)
(* transaction with any number of authorization entries and trees of any   *)
(* shape, and any nesting of calls, creations, authentications and         *)
(* failures.                                                               *)
(*                                                                         *)
(* The books of the manager are kept in three places that a rollback       *)
(* restores separately: the spent nodes and the verification status in the *)
(* trackers, the nonces in storage, and (the observer's record) the grants *)
(* that still stand.  The invariant Books says that they agree now and in  *)
(* the snapshot of every frame.  The exception is an entry whose           *)
(* __check_auth is running: its tracker is borrowed, so it is in no        *)
(* snapshot from that frame on, and nothing above that frame changes it.   *)
(***************************************************************************)
EXTENDS Auth, WellFoundedInduction, TLAPS

Spent(g, e) == {n \in EntryNode(e) : g[e][n] = 1}

Grants(g) == DOMAIN g = Entry /\ \A e \in Entry : g[e] \in [EntryNode(e) -> {0, 1}]

EntryTracker(e) == [tracker : Tracker(Entries[e].tree), verified : BOOLEAN]

Accounts(acct) == DOMAIN acct = Entry /\ \A e \in Entry : acct[e] \in EntryTracker(e)

Verified(acct) == {e \in Entry : acct[e].verified = TRUE}

\* An entry that has been authenticated, or whose grants stand, owns its nonce.
Owner(g, v, e) == ~ Entries[e].source /\ (e \in v \/ Spent(g, e) # {})

NoncesOK(g, v, nn) ==
    /\ UsedNonces \subseteq nn
    /\ \A e \in Entry : Owner(g, v, e) =>
           /\ Entries[e].live
           /\ NonceKey(e) \in nn /\ NonceKey(e) \notin UsedNonces
    /\ \A e, x \in Entry : e # x /\ Owner(g, v, e) /\ Owner(g, v, x) =>
           NonceKey(e) # NonceKey(x)

\* What frame f restores, if the entries of `held' were borrowed when it was pushed.
FrameOK(f, held) ==
    /\ f.auth # 0 => f.auth \in Entry /\ f.node \in EntryNode(f.auth)
    /\ f.entry = "auth" <=> f.auth # 0
    /\ Grants(f.grants)
    /\ \A e \in Entry :
          IF e \in held THEN f.snapshot.account[e] = NoSnapshot
          ELSE /\ f.snapshot.account[e].present = TRUE
               /\ f.snapshot.account[e].verified \in BOOLEAN
               /\ f.snapshot.account[e].exhausted = Spent(f.grants, e)
    /\ NoncesOK(f.grants, Verified(f.snapshot.account), f.nonces)

HeldBy(c, i) == {c[j].auth : j \in 1 .. i} \ {0}

Held(c) == HeldBy(c, Len(c))

IsSeq(s) == \E S : s \in Seq(S)

ContextsOK(c) ==
    /\ IsSeq(c)
    /\ \A i \in 1 .. Len(c) : FrameOK(c[i], HeldBy(c, i))
    /\ \A i, j \in 1 .. Len(c) : i # j /\ c[i].auth # 0 => c[i].auth # c[j].auth
    /\ Len(c) > 0 => c[1].entry = "host"

\* The entry that frame i authenticates: the node it asks for is spent and has
\* granted nothing yet, and the frame and those above it see the same grants.
Waits(c, acct, g, i) ==
    /\ acct[c[i].auth].verified = FALSE
    /\ c[i].node \notin Spent(g, c[i].auth)
    /\ acct[c[i].auth].tracker.exhausted = Spent(g, c[i].auth) \union {c[i].node}
    /\ \A j \in i .. Len(c) : c[j].grants[c[i].auth] = g[c[i].auth]

Waiting(c, acct, g) ==
    \A i \in 1 .. Len(c) : c[i].auth # 0 => Waits(c, acct, g, i)

Free(c, acct, g) ==
    \A e \in Entry : e \notin Held(c) => acct[e].tracker.exhausted = Spent(g, e)

Books(c, acct, g, nn, st) ==
    /\ ContextsOK(c) /\ Accounts(acct) /\ Grants(g)
    /\ NoncesOK(g, {}, nn)
    /\ st \in {"run", "recoverable", "unrecoverable"} =>
          NoncesOK(g, Verified(acct), nn) /\ Waiting(c, acct, g)
    /\ st = "run" => Free(c, acct, g)

BInv ==
    /\ tx \in Transaction
    /\ Books(ctx, account, grants, nonces, status)
    /\ status = "run" /\ Creating => Len(ctx) > 0

-----------------------------------------------------------------------------
(***************************************************************************)
(* Sequences and least elements.                                           *)
(***************************************************************************)
LEMMA LenNat == ASSUME NEW s, IsSeq(s) PROVE Len(s) \in Nat
  BY DEF IsSeq

LEMMA SeqPush ==
    ASSUME NEW s, IsSeq(s), NEW x
    PROVE  /\ IsSeq(Append(s, x)) /\ Len(Append(s, x)) = Len(s) + 1
           /\ \A i \in 1 .. Len(s) : Append(s, x)[i] = s[i]
           /\ Append(s, x)[Len(s) + 1] = x
<1>1. PICK S : s \in Seq(S)
  BY DEF IsSeq
<1>2. s \in Seq(S \union {x}) /\ Len(s) \in Nat
  BY <1>1
<1>3. Append(s, x) \in Seq(S \union {x})
  BY <1>2
<1> QED
  BY <1>2, <1>3 DEF IsSeq

Below(s) == SubSeq(s, 1, Len(s) - 1)

LEMMA SeqPop ==
    ASSUME NEW s, IsSeq(s), Len(s) > 0
    PROVE  /\ IsSeq(Below(s)) /\ Len(Below(s)) = Len(s) - 1
           /\ \A i \in 1 .. Len(s) - 1 : Below(s)[i] = s[i]
<1> DEFINE n == Len(s)
           t == SubSeq(s, 1, n - 1)
<1>1. PICK S : s \in Seq(S)
  BY DEF IsSeq
<1>2. n \in Nat /\ n > 0
  BY <1>1
<1>3. t \in Seq(S) /\ Len(t) = n - 1 /\ \A i \in 1 .. n - 1 : t[i] = s[i]
  <2>1. CASE n = 1
    BY <1>1, <1>2, <2>1
  <2>2. CASE n > 1
    BY <1>1, <1>2, <2>2
  <2> HIDE DEF t, n
  <2>3. n = 1 \/ n > 1
    BY <1>2
  <2> QED
    BY <2>1, <2>2, <2>3
<1> QED
  BY <1>3 DEF IsSeq, Below

LEMMA MinIn ==
    ASSUME NEW S \in SUBSET Nat, S # {}
    PROVE  Min(S) \in S
<1> DEFINE R == {ss \in Nat \X Nat : ss[1] < ss[2]}
<1>1. \E x \in S : \A y \in S : ~ (<<y, x>> \in R)
  <2>1. IsWellFoundedOn(R, Nat)
    BY NatLessThanWellFounded, Zenon DEF OpToRel
  <2> HIDE DEF R
  <2> QED
    BY <2>1, WFMin
<1>2. \A x, y \in S : ~ (<<y, x>> \in R) => x <= y
  OBVIOUS
<1>3. \E x \in S : \A y \in S : x <= y
  BY <1>1, <1>2
<1> QED
  BY <1>3 DEF Min

-----------------------------------------------------------------------------
\* The entries are those of one transaction.
LEMMA SameTx ==
    ASSUME tx' = tx, tx \in Transaction,
           Books(ctx', account', grants', nonces', status'),
           status' = "run" => Len(ctx') > 0 \/ ~ Creating'
    PROVE  BInv'
<1>1. Entries' = Entries
  BY DEF Entries
<1>2. Entry' = Entry
  BY <1>1 DEF Entry
<1>3. \A e : EntryNode(e)' = EntryNode(e)
  BY <1>1 DEF EntryNode
<1>4. \A e : NonceKey(e)' = NonceKey(e)
  BY <1>1 DEF NonceKey
<1>5. \A e : EntryTracker(e)' = EntryTracker(e)
  BY <1>1 DEF EntryTracker
<1>6. Grants(grants)'
  BY <1>2, <1>3 DEF Books, Grants
<1>7. Accounts(account)'
  BY <1>2, <1>5 DEF Books, Accounts
<1>8. NoncesOK(grants, {}, nonces)'
  BY <1>1, <1>2, <1>3, <1>4 DEF Books, NoncesOK, Owner, Spent
<1>9. Consistent' => NoncesOK(grants, Verified(account), nonces)' /\ Waiting(ctx, account, grants)'
  BY <1>1, <1>2, <1>3, <1>4 DEF Books, NoncesOK, Owner, Spent, Verified, Waiting, Waits, Consistent
<1>10. status' = "run" => Free(ctx, account, grants)'
  BY <1>2, <1>3 DEF Books, Free, Spent, Held, HeldBy
<1>11. ContextsOK(ctx)'
  <2>1. \A i \in 1 .. Len(ctx') : FrameOK(ctx[i], HeldBy(ctx, i))'
    BY <1>1, <1>2, <1>3, <1>4 DEF Books, ContextsOK, FrameOK, HeldBy, Grants, NoncesOK, Owner, Spent, Verified
  <2> QED
    BY <2>1 DEF Books, ContextsOK
<1> QED
  BY <1>6, <1>7, <1>8, <1>9, <1>10, <1>11 DEF BInv, Books, Consistent

-----------------------------------------------------------------------------
(***************************************************************************)
(* What can happen to the books.                                           *)
(***************************************************************************)
LEMMA NoncesWeaken ==
    ASSUME NEW g, NEW v, NEW nn, NoncesOK(g, v, nn)
    PROVE  NoncesOK(g, {}, nn)
  BY DEF NoncesOK, Owner

\* A tracker gains or loses frames: what was spent and verified is kept.
Kept(t, u) == u.verified = t.verified /\ u.tracker.exhausted = t.tracker.exhausted

LEMMA BooksQuiet ==
    ASSUME NEW c, NEW acct, NEW g, NEW nn, NEW st, Books(c, acct, g, nn, st),
           NEW b, Accounts(b), \A e \in Entry : Kept(acct[e], b[e]),
           NEW st2, st2 = st \/ (st = "run" /\ st2 # "run")
    PROVE  Books(c, b, g, nn, st2)
<1>1. Verified(b) = Verified(acct)
  BY DEF Verified, Kept
<1>2. st2 = "run" => st = "run"
  OBVIOUS
<1>3. st2 \in {"run", "recoverable", "unrecoverable"} => st \in {"run", "recoverable", "unrecoverable"}
  OBVIOUS
<1>4. ASSUME Waiting(c, acct, g) PROVE Waiting(c, b, g)
  <2>1. \A i \in 1 .. Len(c) : c[i].auth # 0 => c[i].auth \in Entry
    BY DEF Books, ContextsOK, FrameOK
  <2> QED
    BY <1>4, <2>1 DEF Waiting, Waits, Kept
<1>5. ASSUME Free(c, acct, g) PROVE Free(c, b, g)
  BY <1>5 DEF Free, Kept
<1>6. st2 = "run" => Free(c, b, g)
  BY <1>2, <1>5 DEF Books
<1>7. st2 \in {"run", "recoverable", "unrecoverable"} =>
          NoncesOK(g, Verified(b), nn) /\ Waiting(c, b, g)
  BY <1>1, <1>3, <1>4 DEF Books
<1> QED
  BY <1>6, <1>7 DEF Books

LEMMA HeldPush ==
    ASSUME NEW c, IsSeq(c), NEW f
    PROVE  /\ \A i \in 1 .. Len(c) : HeldBy(Append(c, f), i) = HeldBy(c, i)
           /\ Held(Append(c, f)) = Held(c) \union ({f.auth} \ {0})
<1> DEFINE d == Append(c, f)
<1>1. /\ Len(c) \in Nat /\ Len(d) = Len(c) + 1
      /\ \A i \in 1 .. Len(c) : d[i] = c[i]
      /\ d[Len(c) + 1] = f
  BY LenNat, SeqPush
<1> HIDE DEF d
<1>2. \A i \in 1 .. Len(c) : HeldBy(d, i) = HeldBy(c, i)
  BY <1>1 DEF HeldBy
<1>3. Held(d) = Held(c) \union ({f.auth} \ {0})
  <2>1. 1 .. Len(d) = (1 .. Len(c)) \union {Len(c) + 1}
    BY <1>1
  <2> QED
    BY <1>1, <2>1 DEF Held, HeldBy
<1> QED
  BY <1>2, <1>3 DEF d

LEMMA HeldPop ==
    ASSUME NEW c, IsSeq(c), Len(c) > 0, NEW d, d = Below(c)
    PROVE  /\ IsSeq(d) /\ Len(d) = Len(c) - 1 /\ Len(c) \in Nat
           /\ \A i \in 1 .. Len(d) : d[i] = c[i] /\ HeldBy(d, i) = HeldBy(c, i)
           /\ Held(c) = Held(d) \union ({c[Len(c)].auth} \ {0})
<1>1. /\ Len(c) \in Nat /\ IsSeq(d) /\ Len(d) = Len(c) - 1
      /\ \A i \in 1 .. Len(c) - 1 : d[i] = c[i]
  BY LenNat, SeqPop
<1>2. \A i \in 1 .. Len(d) : d[i] = c[i]
  BY <1>1
<1>3. \A i \in 1 .. Len(d) : HeldBy(d, i) = HeldBy(c, i)
  BY <1>1, <1>2 DEF HeldBy
<1>4. Held(c) = Held(d) \union ({c[Len(c)].auth} \ {0})
  <2>1. 1 .. Len(c) = (1 .. Len(d)) \union {Len(c)}
    BY <1>1
  <2> QED
    BY <1>2, <2>1 DEF Held, HeldBy
<1> QED
  BY <1>1, <1>2, <1>3, <1>4

LEMMA ContextsPop ==
    ASSUME NEW c, ContextsOK(c), Len(c) > 0, NEW d, d = Below(c)
    PROVE  /\ ContextsOK(d)
           /\ c[Len(c)].auth # 0 => c[Len(c)].auth \notin Held(d)
<1>1. /\ IsSeq(d) /\ Len(d) = Len(c) - 1 /\ Len(c) \in Nat
      /\ \A i \in 1 .. Len(d) : d[i] = c[i] /\ HeldBy(d, i) = HeldBy(c, i)
  <2>1. IsSeq(c)
    BY DEF ContextsOK
  <2> QED
    BY <2>1, HeldPop
<1>2. \A i \in 1 .. Len(d) : i \in 1 .. Len(c) /\ i # Len(c) /\ Len(c) \in 1 .. Len(c)
  BY <1>1
<1>3. \A i \in 1 .. Len(d) : FrameOK(d[i], HeldBy(d, i))
  BY <1>1, <1>2 DEF ContextsOK
<1>4. \A i, j \in 1 .. Len(d) : i # j /\ d[i].auth # 0 => d[i].auth # d[j].auth
  BY <1>1, <1>2 DEF ContextsOK
<1>5. Len(d) > 0 => d[1].entry = "host"
  BY <1>1 DEF ContextsOK
<1>6. ASSUME c[Len(c)].auth # 0 PROVE c[Len(c)].auth \notin Held(d)
  <2>1. \A i \in 1 .. Len(d) : c[Len(c)].auth # d[i].auth
    BY <1>1, <1>2, <1>6 DEF ContextsOK
  <2> QED
    BY <2>1 DEF Held, HeldBy
<1> QED
  BY <1>1, <1>3, <1>4, <1>5, <1>6 DEF ContextsOK

LEMMA SnapshotFields ==
    ASSUME NEW x, NEW v, NEW s, s = [exhausted |-> x, verified |-> v, present |-> TRUE]
    PROVE  s.exhausted = x /\ s.verified = v /\ s.present = TRUE
  OBVIOUS

\* A frame is pushed.  It authenticates entry f.auth, which is not borrowed yet,
\* or none.
LEMMA BooksPush ==
    ASSUME NEW c, NEW acct, NEW g, NEW nn, Books(c, acct, g, nn, "run"), Len(c) > 0,
           NEW b, Accounts(b), NEW f,
           \A e \in Entry : e # f.auth => Kept(acct[e], b[e]),
           f.entry = "auth" <=> f.auth # 0,
           f.auth # 0 => /\ f.auth \in Entry /\ f.auth \notin Held(c)
                         /\ f.node \in EntryNode(f.auth) /\ f.node \notin Spent(g, f.auth)
                         /\ acct[f.auth].verified = FALSE
                         /\ b[f.auth].verified = FALSE
                         /\ b[f.auth].tracker.exhausted = Spent(g, f.auth) \union {f.node},
           f.grants = g, f.nonces = nn,
           \A e \in Entry : f.snapshot.account[e] =
               IF e \in Held(c) \union {f.auth} THEN NoSnapshot
               ELSE [exhausted |-> acct[e].tracker.exhausted, verified |-> acct[e].verified,
                     present |-> TRUE]
    PROVE  Books(Append(c, f), b, g, nn, "run")
<1> DEFINE d == Append(c, f)
<1>1. /\ IsSeq(c) /\ IsSeq(d) /\ Len(c) \in Nat /\ Len(d) = Len(c) + 1
      /\ \A i \in 1 .. Len(c) : d[i] = c[i] /\ HeldBy(d, i) = HeldBy(c, i)
      /\ d[Len(c) + 1] = f
      /\ Held(d) = Held(c) \union ({f.auth} \ {0})
  <2>1. IsSeq(c)
    BY DEF Books, ContextsOK
  <2> QED
    BY <2>1, LenNat, SeqPush, HeldPush
<1> HIDE DEF d
<1>2. \A i \in 1 .. Len(d) : i \in 1 .. Len(c) \/ i = Len(d)
  BY <1>1
<1>3. 0 \notin Entry
  BY DEF Entry
<1>4. \A i \in 1 .. Len(c) : c[i].auth # 0 => c[i].auth \in Entry /\ c[i].auth \in Held(c)
  BY DEF Books, ContextsOK, FrameOK, Held, HeldBy
<1>5. \A e \in Entry : acct[e].verified \in BOOLEAN
  BY DEF Books, Accounts, EntryTracker
<1>6. ASSUME NEW e \in Entry, e \notin Held(d)
      PROVE  /\ f.snapshot.account[e].present = TRUE
             /\ f.snapshot.account[e].verified = acct[e].verified
             /\ f.snapshot.account[e].exhausted = Spent(g, e)
             /\ b[e].tracker.exhausted = Spent(g, e)
  <2>1. e \notin Held(c) /\ e # f.auth
    BY <1>1, <1>3, <1>6
  <2>2. acct[e].tracker.exhausted = Spent(g, e)
    BY <2>1 DEF Books, Free
  <2>3. f.snapshot.account[e] =
          [exhausted |-> acct[e].tracker.exhausted, verified |-> acct[e].verified,
           present |-> TRUE]
    BY <2>1
  <2>4. b[e].tracker.exhausted = Spent(g, e)
    BY <2>1, <2>2 DEF Kept
  <2> QED
    BY <2>2, <2>3, <2>4, SnapshotFields
<1>7. \A e \in Entry : e \in Held(d) => f.snapshot.account[e] = NoSnapshot
  BY <1>1
<1>8. \A e \in Entry : e \in Held(c) => acct[e].verified = FALSE
  <2>1. \A i \in 1 .. Len(c) : c[i].auth # 0 => acct[c[i].auth].verified = FALSE
    BY DEF Books, Waiting, Waits
  <2> QED
    BY <2>1 DEF Held, HeldBy
<1>9. Verified(f.snapshot.account) = Verified(acct)
  <2>1. ASSUME NEW e \in Entry
        PROVE  f.snapshot.account[e].verified = acct[e].verified
    <3>1. CASE e \in Held(d)
      <4>1. acct[e].verified = FALSE
        BY <1>1, <1>8, <3>1
      <4>2. NoSnapshot.verified = FALSE
        BY DEF NoSnapshot
      <4> QED
        BY <1>7, <3>1, <4>1, <4>2
    <3> QED
      BY <1>6, <3>1
  <2> QED
    BY <2>1 DEF Verified
<1>10. NoncesOK(g, Verified(acct), nn) /\ Grants(g)
  BY DEF Books
<1>11. FrameOK(f, Held(d))
  <2>1. \A e \in Entry :
          IF e \in Held(d) THEN f.snapshot.account[e] = NoSnapshot
          ELSE /\ f.snapshot.account[e].present = TRUE
               /\ f.snapshot.account[e].verified \in BOOLEAN
               /\ f.snapshot.account[e].exhausted = Spent(f.grants, e)
    BY <1>5, <1>6, <1>7
  <2> QED
    BY <1>9, <1>10, <2>1 DEF FrameOK
<1>12. ContextsOK(d)
  <2>1. \A i \in 1 .. Len(d) : FrameOK(d[i], HeldBy(d, i))
    BY <1>1, <1>2, <1>11 DEF Books, ContextsOK, Held
  <2>2. ASSUME NEW i \in 1 .. Len(d), NEW j \in 1 .. Len(d), i # j, d[i].auth # 0
        PROVE  d[i].auth # d[j].auth
    <3>1. CASE i \in 1 .. Len(c) /\ j \in 1 .. Len(c)
      BY <1>1, <2>2, <3>1 DEF Books, ContextsOK
    <3>2. CASE i \in 1 .. Len(c) /\ j = Len(d)
      BY <1>1, <1>4, <2>2, <3>2
    <3>3. CASE i = Len(d) /\ j \in 1 .. Len(c)
      BY <1>1, <1>4, <2>2, <3>3
    <3> QED
      BY <1>2, <2>2, <3>1, <3>2, <3>3
  <2>3. d[1].entry = "host"
    BY <1>1 DEF Books, ContextsOK
  <2> QED
    BY <1>1, <2>1, <2>2, <2>3 DEF ContextsOK
<1>13. Verified(b) = Verified(acct)
  <2>1. \A e \in Entry : b[e].verified = acct[e].verified
    <3>1. f.auth \in Entry => b[f.auth].verified = acct[f.auth].verified
      BY <1>3
    <3> QED
      BY <3>1 DEF Kept
  <2> QED
    BY <2>1 DEF Verified
<1>14. Waiting(d, b, g)
  <2>1. ASSUME NEW i \in 1 .. Len(c), c[i].auth # 0
        PROVE  Waits(d, b, g, i)
    <3>1. Waits(c, acct, g, i)
      BY <2>1 DEF Books, Waiting
    <3>2. Kept(acct[c[i].auth], b[c[i].auth])
      BY <1>4, <2>1
    <3>3. \A j \in i .. Len(d) : d[j].grants[c[i].auth] = g[c[i].auth]
      <4>1. \A j \in i .. Len(d) : j \in i .. Len(c) \/ j = Len(d)
        BY <1>1
      <4>2. \A j \in i .. Len(c) : j \in 1 .. Len(c)
        BY <1>1
      <4> QED
        BY <1>1, <3>1, <4>1, <4>2 DEF Waits
    <3> QED
      BY <1>1, <3>1, <3>2, <3>3 DEF Waits, Kept
  <2>2. f.auth # 0 => Waits(d, b, g, Len(d))
    <3>1. \A j \in Len(d) .. Len(d) : j = Len(d)
      BY <1>1
    <3> QED
      BY <1>1, <3>1 DEF Waits
  <2> QED
    BY <1>1, <1>2, <2>1, <2>2 DEF Waiting
<1>15. Free(d, b, g)
  BY <1>6 DEF Free
<1>16. NoncesOK(g, {}, nn)
  BY DEF Books
<1>17. Books(d, b, g, nn, "run")
  BY <1>10, <1>12, <1>13, <1>14, <1>15, <1>16 DEF Books
<1> QED
  BY <1>17 DEF d

LEMMA WaitingPop ==
    ASSUME NEW c, NEW acct, NEW g, Waiting(c, acct, g), NEW d,
           Len(d) = Len(c) - 1, Len(c) \in Nat, \A i \in 1 .. Len(d) : d[i] = c[i]
    PROVE  Waiting(d, acct, g)
<1>1. ASSUME NEW i \in 1 .. Len(d), d[i].auth # 0
      PROVE  Waits(d, acct, g, i)
  <2>1. i \in 1 .. Len(c) /\ \A j \in i .. Len(d) : j \in i .. Len(c) /\ j \in 1 .. Len(d)
    OBVIOUS
  <2>2. Waits(c, acct, g, i)
    BY <1>1, <2>1 DEF Waiting
  <2> QED
    BY <1>1, <2>1, <2>2 DEF Waits
<1> QED
  BY <1>1 DEF Waiting

\* A frame that authenticates nothing returns.
LEMMA BooksPop ==
    ASSUME NEW c, NEW acct, NEW g, NEW nn, NEW st, Books(c, acct, g, nn, st), Len(c) > 0,
           c[Len(c)].auth = 0, NEW d, d = Below(c)
    PROVE  Books(d, acct, g, nn, st)
<1>1. IsSeq(c) /\ ContextsOK(c)
  BY DEF Books, ContextsOK
<1>2. /\ Len(d) = Len(c) - 1 /\ Len(c) \in Nat /\ Held(d) = Held(c)
      /\ \A i \in 1 .. Len(d) : d[i] = c[i]
  <2>1. /\ Len(d) = Len(c) - 1 /\ Len(c) \in Nat
        /\ Held(c) = Held(d) \union ({c[Len(c)].auth} \ {0})
        /\ \A i \in 1 .. Len(d) : d[i] = c[i]
    BY <1>1, HeldPop
  <2> QED
    BY <2>1
<1>3. ContextsOK(d)
  BY <1>1, ContextsPop
<1>4. ASSUME Waiting(c, acct, g) PROVE Waiting(d, acct, g)
  BY <1>2, <1>4, WaitingPop
<1>5. Free(c, acct, g) => Free(d, acct, g)
  BY <1>2 DEF Free
<1> QED
  BY <1>3, <1>4, <1>5 DEF Books

\* An authentication is done: the entry e of the frame or of the call, which no
\* frame holds any more, grants node n.
AddGrant(g, e, n) == [g EXCEPT ![e] = [@ EXCEPT ![n] = g[e][n] + 1]]

LEMMA BooksGrant ==
    ASSUME NEW d, NEW acct, NEW g, NEW nn,
           ContextsOK(d), Accounts(acct), Grants(g), NoncesOK(g, Verified(acct), nn),
           Waiting(d, acct, g),
           NEW e \in Entry, e \notin Held(d), NEW n \in EntryNode(e), n \notin Spent(g, e),
           \A x \in Entry : x # e /\ x \notin Held(d)
                                => acct[x].tracker.exhausted = Spent(g, x),
           NEW b, Accounts(b),
           \A x \in Entry : x # e => Kept(acct[x], b[x]),
           b[e].tracker.exhausted = Spent(g, e) \union {n},
           NEW mm, \/ (acct[e].verified = TRUE \/ Entries[e].source) /\ mm = nn
                   \/ NonceAcceptable(e) /\ nn = nonces /\ mm = nn \union {NonceKey(e)},
           NEW h, h = AddGrant(g, e, n)
    PROVE  Books(d, b, h, mm, "run")
<1>1. DOMAIN g = Entry /\ g[e] \in [EntryNode(e) -> {0, 1}] /\ g[e][n] = 0
  BY DEF Grants, Spent
<1>2. /\ DOMAIN h = Entry /\ h[e] = [g[e] EXCEPT ![n] = 1]
      /\ \A x \in Entry : x # e => h[x] = g[x]
  BY <1>1 DEF AddGrant
<1>3. h[e] \in [EntryNode(e) -> {0, 1}] /\ Spent(h, e) = Spent(g, e) \union {n}
  BY <1>1, <1>2 DEF Spent
<1>4. \A x \in Entry : x # e => Spent(h, x) = Spent(g, x)
  BY <1>2 DEF Spent
<1>5. Grants(h)
  BY <1>2, <1>3 DEF Grants
<1> DEFINE v == Verified(acct) \union {e}
<1>6. Verified(b) \subseteq v
  BY DEF Verified, Kept
<1>7. \A x \in Entry : Owner(h, v, x) => x = e \/ Owner(g, Verified(acct), x)
  BY <1>4 DEF Owner
<1>8. Entries[e].source => \A x \in Entry : Owner(h, v, x) => Owner(g, Verified(acct), x)
  BY <1>7 DEF Owner
<1>9. NoncesOK(h, v, mm)
  <2>1. CASE Entries[e].source /\ mm = nn
    BY <1>8, <2>1 DEF NoncesOK
  <2>2. CASE acct[e].verified = TRUE /\ ~ Entries[e].source /\ mm = nn
    <3>1. Owner(g, Verified(acct), e)
      BY <2>2 DEF Owner, Verified
    <3>2. \A x \in Entry : Owner(h, v, x) => Owner(g, Verified(acct), x)
      BY <1>7, <3>1
    <3> QED
      BY <2>2, <3>2 DEF NoncesOK
  <2>3. CASE NonceAcceptable(e) /\ nn = nonces /\ mm = nn \union {NonceKey(e)}
    <3>1. Entries[e].live /\ NonceKey(e) \notin nn
      BY <2>3 DEF NonceAcceptable
    <3>2. \A x \in Entry : Owner(g, Verified(acct), x) => NonceKey(x) # NonceKey(e)
      BY <3>1 DEF NoncesOK
    <3> HIDE DEF v
    <3>3. UsedNonces \subseteq mm /\ NonceKey(e) \notin UsedNonces
      BY <2>3, <3>1 DEF NoncesOK
    <3>4. \A x \in Entry : Owner(h, v, x) =>
             Entries[x].live /\ NonceKey(x) \in mm /\ NonceKey(x) \notin UsedNonces
      BY <1>7, <2>3, <3>1, <3>3 DEF NoncesOK
    <3>5. \A x, y \in Entry : x # y /\ Owner(h, v, x) /\ Owner(h, v, y) =>
             NonceKey(x) # NonceKey(y)
      BY <1>7, <3>2 DEF NoncesOK
    <3> QED
      BY <3>3, <3>4, <3>5 DEF NoncesOK
  <2> QED
    BY <2>1, <2>2, <2>3
<1>10. NoncesOK(h, Verified(b), mm) /\ NoncesOK(h, {}, mm)
  <2>1. \A x \in Entry : Owner(h, Verified(b), x) => Owner(h, v, x)
    BY <1>6 DEF Owner
  <2> HIDE DEF v
  <2>2. NoncesOK(h, Verified(b), mm)
    BY <1>9, <2>1 DEF NoncesOK
  <2> QED
    BY <2>2, NoncesWeaken
<1>11. Waiting(d, b, h)
  <2>1. ASSUME NEW i \in 1 .. Len(d), d[i].auth # 0
        PROVE  Waits(d, b, h, i)
    <3>1. d[i].auth \in Entry /\ d[i].auth # e
      BY <2>1 DEF ContextsOK, FrameOK, Held, HeldBy
    <3>2. Waits(d, acct, g, i)
      BY <2>1 DEF Waiting
    <3>3. /\ Kept(acct[d[i].auth], b[d[i].auth]) /\ h[d[i].auth] = g[d[i].auth]
          /\ Spent(h, d[i].auth) = Spent(g, d[i].auth)
      BY <1>2, <1>4, <3>1
    <3> QED
      BY <3>2, <3>3 DEF Waits, Kept
  <2> QED
    BY <2>1 DEF Waiting
<1>12. Free(d, b, h)
  BY <1>3, <1>4 DEF Free, Kept
<1> QED
  BY <1>5, <1>10, <1>11, <1>12 DEF Books

\* A frame fails: storage and grants are those of its start, and the trackers
\* that its snapshot holds are rolled back.
LEMMA BooksUnwind ==
    ASSUME NEW c, NEW acct, NEW g, NEW nn, NEW st, Books(c, acct, g, nn, st),
           st \in {"recoverable", "unrecoverable"}, Len(c) > 0,
           NEW d, d = Below(c), NEW f, f = c[Len(c)],
           NEW b, Accounts(b),
           \A e \in Entry :
              IF f.snapshot.account[e].present = TRUE
              THEN /\ b[e].verified = f.snapshot.account[e].verified
                   /\ b[e].tracker.exhausted = f.snapshot.account[e].exhausted
              ELSE Kept(acct[e], b[e]),
           NEW st2, st2 = "run" => f.entry # "auth"
    PROVE  Books(d, b, f.grants, f.nonces, st2)
<1>1. ContextsOK(c) /\ IsSeq(c) /\ Waiting(c, acct, g)
  BY DEF Books, ContextsOK
<1>2. /\ Len(d) = Len(c) - 1 /\ Len(c) \in Nat
      /\ \A i \in 1 .. Len(d) : d[i] = c[i]
      /\ Held(c) = Held(d) \union ({f.auth} \ {0})
  BY <1>1, HeldPop
<1>3. ContextsOK(d)
  BY <1>1, ContextsPop
<1>4. FrameOK(f, Held(c))
  <2>1. Len(c) \in 1 .. Len(c)
    BY <1>2
  <2> QED
    BY <1>1, <2>1 DEF ContextsOK, Held
<1>5. Grants(f.grants) /\ NoncesOK(f.grants, Verified(f.snapshot.account), f.nonces)
  BY <1>4 DEF FrameOK
<1>6. ASSUME NEW e \in Entry, e \notin Held(c)
      PROVE  /\ b[e].tracker.exhausted = Spent(f.grants, e)
             /\ b[e].verified = f.snapshot.account[e].verified
  BY <1>4, <1>6 DEF FrameOK
<1>7. ASSUME NEW e \in Entry, e \in Held(c)
      PROVE  Kept(acct[e], b[e]) /\ f.snapshot.account[e].verified = FALSE
  <2>1. f.snapshot.account[e] = NoSnapshot
    BY <1>4, <1>7 DEF FrameOK
  <2>2. NoSnapshot.present = FALSE /\ NoSnapshot.verified = FALSE
    BY DEF NoSnapshot
  <2> QED
    BY <2>1, <2>2
<1>8. ASSUME NEW i \in 1 .. Len(c), c[i].auth # 0
      PROVE  /\ c[i].auth \in Entry /\ c[i].auth \in Held(c)
             /\ b[c[i].auth].verified = FALSE
             /\ f.grants[c[i].auth] = g[c[i].auth]
  <2>1. c[i].auth \in Entry /\ c[i].auth \in Held(c)
    BY <1>1, <1>8 DEF ContextsOK, FrameOK, Held, HeldBy
  <2>2. Waits(c, acct, g, i)
    BY <1>1, <1>8 DEF Waiting
  <2>3. Len(c) \in i .. Len(c)
    BY <1>2
  <2> QED
    BY <1>7, <2>1, <2>2, <2>3 DEF Waits, Kept
<1>9. Verified(b) = Verified(f.snapshot.account)
  <2>1. ASSUME NEW e \in Entry, e \in Held(c)
        PROVE  b[e].verified = FALSE
    BY <1>8, <2>1 DEF Held, HeldBy
  <2>2. ASSUME NEW e \in Entry
        PROVE  b[e].verified = f.snapshot.account[e].verified
    <3>1. CASE e \in Held(c)
      BY <1>7, <2>1, <3>1
    <3>2. CASE e \notin Held(c)
      BY <1>6, <3>2
    <3> QED
      BY <3>1, <3>2
  <2> QED
    BY <2>2 DEF Verified
<1>10. NoncesOK(f.grants, Verified(b), f.nonces) /\ NoncesOK(f.grants, {}, f.nonces)
  BY <1>5, <1>9, NoncesWeaken
<1>11. Waiting(d, b, f.grants)
  <2>1. ASSUME NEW i \in 1 .. Len(d), d[i].auth # 0
        PROVE  Waits(d, b, f.grants, i)
    <3> DEFINE e == c[i].auth
    <3>1. i \in 1 .. Len(c) /\ d[i] = c[i] /\ e # 0
      BY <1>2, <2>1
    <3>2. /\ e \in Entry /\ e \in Held(c) /\ b[e].verified = FALSE
          /\ f.grants[e] = g[e]
      BY <1>8, <3>1
    <3>3. Kept(acct[e], b[e]) /\ Spent(f.grants, e) = Spent(g, e)
      BY <1>7, <3>2 DEF Spent
    <3>4. Waits(c, acct, g, i)
      BY <1>1, <3>1 DEF Waiting
    <3>5. \A j \in i .. Len(d) : d[j].grants[e] = g[e]
      <4>1. \A j \in i .. Len(d) : j \in i .. Len(c) /\ j \in 1 .. Len(d)
        BY <1>2, <2>1
      <4> QED
        BY <1>2, <3>4, <4>1 DEF Waits
    <3> HIDE DEF e
    <3>6. /\ c[i].node \notin Spent(g, e)
          /\ acct[e].tracker.exhausted = Spent(g, e) \union {c[i].node}
      BY <3>4 DEF Waits, e
    <3> QED
      BY <3>1, <3>2, <3>3, <3>5, <3>6 DEF Waits, Kept, e
  <2> QED
    BY <2>1 DEF Waiting
<1>12. ASSUME st2 = "run" PROVE Free(d, b, f.grants)
  <2>1. f.auth = 0
    BY <1>4, <1>12 DEF FrameOK
  <2> QED
    BY <1>2, <1>6, <2>1 DEF Free
<1> QED
  BY <1>3, <1>5, <1>10, <1>11, <1>12 DEF Books

\* After an internal error of the manager storage and grants still agree.
LEMMA BooksUnwindInternal ==
    ASSUME NEW c, NEW acct, NEW g, NEW nn, NEW st, Books(c, acct, g, nn, st),
           st \in {"bad_snapshot", "bad_match_stack"}, Len(c) > 0,
           NEW d, d = Below(c), NEW f, f = c[Len(c)]
    PROVE  Books(d, acct, f.grants, f.nonces, st)
<1>1. ContextsOK(c) /\ IsSeq(c)
  BY DEF Books, ContextsOK
<1>2. ContextsOK(d) /\ Len(c) \in Nat
  BY <1>1, ContextsPop, LenNat
<1>3. FrameOK(f, Held(c))
  <2>1. Len(c) \in 1 .. Len(c)
    BY <1>2
  <2> QED
    BY <1>1, <2>1 DEF ContextsOK, Held
<1>4. Grants(f.grants) /\ NoncesOK(f.grants, {}, f.nonces)
  BY <1>3, NoncesWeaken DEF FrameOK
<1> QED
  BY <1>2, <1>4 DEF Books

-----------------------------------------------------------------------------
(***************************************************************************)
(* Trackers.                                                               *)
(***************************************************************************)
LEMMA SeqShorter ==
    ASSUME NEW S, NEW s \in Seq(S)
    PROVE  SubSeq(s, 1, IF Len(s) > 0 THEN Len(s) - 1 ELSE 0) \in Seq(S)
<1>1. CASE Len(s) > 1
  BY <1>1
<1>2. CASE Len(s) = 1 \/ Len(s) = 0
  BY <1>2
<1> QED
  BY <1>1, <1>2

LEMMA SeqChanged ==
    ASSUME NEW S, NEW s \in Seq(S), NEW i, NEW x \in S
    PROVE  [s EXCEPT ![i] = x] \in Seq(S)
<1> DEFINE t == [s EXCEPT ![i] = x]
<1>1. s \in [1 .. Len(s) -> S] /\ Len(s) \in Nat
  OBVIOUS
<1>2. t \in [1 .. Len(s) -> S]
  BY <1>1
<1> QED
  BY <1>1, <1>2

LEMMA PushTracker ==
    ASSUME NEW tree, NEW t \in Tracker(tree)
    PROVE  push_frame(t) \in Tracker(tree) /\ push_frame(t).exhausted = t.exhausted
<1>1. t.match \in Seq(Node(tree) \union {0})
  BY DEF Tracker
<1>2. Append(t.match, 0) \in Seq(Node(tree) \union {0})
  BY <1>1
<1> QED
  BY <1>2 DEF Tracker, push_frame

LEMMA PopTracker ==
    ASSUME NEW tree, NEW t \in Tracker(tree)
    PROVE  pop_frame(t) \in Tracker(tree) /\ pop_frame(t).exhausted = t.exhausted
<1> DEFINE n == IF Len(t.match) > 0 THEN Len(t.match) - 1 ELSE 0
           m == SubSeq(t.match, 1, n)
           done == t.done \/ (t.root_frame # 0 /\ t.root_frame > n)
<1>1. t.match \in Seq(Node(tree) \union {0})
  BY DEF Tracker
<1>2. m \in Seq(Node(tree) \union {0})
  BY <1>1, SeqShorter
<1>3. done \in BOOLEAN
  OBVIOUS
<1>4. pop_frame(t) = [t EXCEPT !.match = m, !.done = done]
  BY DEF pop_frame, Tracker
<1> HIDE DEF m, done
<1> QED
  BY <1>2, <1>3, <1>4 DEF Tracker

LEMMA ExtendTracker ==
    ASSUME NEW tree, NEW t \in Tracker(tree), NEW n \in Node(tree)
    PROVE  /\ extend_match(t, n) \in Tracker(tree)
           /\ extend_match(t, n).exhausted = t.exhausted \union {n}
<1> DEFINE m == [t.match EXCEPT ![Len(t.match)] = n]
           r == IF n = 1 THEN Len(t.match) ELSE t.root_frame
           x == t.exhausted \union {n}
<1>1. t.match \in Seq(Node(tree) \union {0})
  BY DEF Tracker
<1>2. m \in Seq(Node(tree) \union {0})
  BY <1>1, SeqChanged
<1>3. r \in Nat
  BY <1>1 DEF Tracker
<1>4. x \in SUBSET Node(tree)
  BY DEF Tracker
<1>5. extend_match(t, n) = [t EXCEPT !.exhausted = x, !.match = m, !.root_frame = r]
  BY DEF extend_match, Tracker
<1> HIDE DEF m, r, x
<1>6. extend_match(t, n) \in Tracker(tree) /\ extend_match(t, n).exhausted = x
  BY <1>2, <1>3, <1>4, <1>5 DEF Tracker
<1> QED
  BY <1>6 DEF x

LEMMA RollbackTracker ==
    ASSUME NEW tree, NEW t \in Tracker(tree), NEW x \in SUBSET Node(tree)
    PROVE  /\ rollback_tracker(t, x) \in Tracker(tree)
           /\ rollback_tracker(t, x).exhausted = x
<1> DEFINE r == IF 1 \in x THEN t.root_frame ELSE 0
           done == IF 1 \in x THEN t.done ELSE FALSE
<1>1. r \in Nat /\ done \in BOOLEAN
  BY DEF Tracker
<1>2. rollback_tracker(t, x) = [t EXCEPT !.exhausted = x, !.root_frame = r, !.done = done]
  BY DEF rollback_tracker
<1> HIDE DEF r, done
<1> QED
  BY <1>1, <1>2 DEF Tracker

\* All the trackers but the borrowed ones gain or lose a frame.
LEMMA PushedKept ==
    ASSUME NEW acct, Accounts(acct), NEW held
    PROVE  /\ Accounts(Pushed(acct, held)) /\ \A e \in Entry : Kept(acct[e], Pushed(acct, held)[e])
           /\ Accounts(Popped(acct, held)) /\ \A e \in Entry : Kept(acct[e], Popped(acct, held)[e])
<1>1. DOMAIN Pushed(acct, held) = Entry /\ DOMAIN Popped(acct, held) = Entry
  BY DEF Pushed, Popped
<1>2. ASSUME NEW e \in Entry
      PROVE  /\ Pushed(acct, held)[e] \in EntryTracker(e) /\ Kept(acct[e], Pushed(acct, held)[e])
             /\ Popped(acct, held)[e] \in EntryTracker(e) /\ Kept(acct[e], Popped(acct, held)[e])
  <2> DEFINE t == acct[e].tracker
  <2>1. acct[e] \in EntryTracker(e) /\ t \in Tracker(Entries[e].tree)
    BY DEF Accounts, EntryTracker
  <2>2. /\ push_frame(t) \in Tracker(Entries[e].tree) /\ push_frame(t).exhausted = t.exhausted
        /\ pop_frame(t) \in Tracker(Entries[e].tree) /\ pop_frame(t).exhausted = t.exhausted
    BY <2>1, PushTracker, PopTracker
  <2>3. CASE e \in held
    BY <2>1, <2>3 DEF Pushed, Popped, Kept
  <2>4. CASE e \notin held
    <3>1. /\ Pushed(acct, held)[e] = [acct[e] EXCEPT !.tracker = push_frame(t)]
          /\ Popped(acct, held)[e] = [acct[e] EXCEPT !.tracker = pop_frame(t)]
      BY <2>4 DEF Pushed, Popped
    <3> QED
      BY <2>1, <2>2, <3>1 DEF EntryTracker, Kept
  <2> QED
    BY <2>3, <2>4
<1> QED
  BY <1>1, <1>2 DEF Accounts

-----------------------------------------------------------------------------
(***************************************************************************)
(* The node that a call finds.                                             *)
(***************************************************************************)
LEMMA MatchingNodeIn ==
    ASSUME NEW t, NEW tree, NEW f, NEW root, MatchingNode(t, tree, f, root) # 0
    PROVE  MatchingNode(t, tree, f, root) \in Node(tree) \ t.exhausted
<1> DEFINE last == last_authorized_invocation(t)
           subs == {n \in Node(tree) : /\ tree.parent[n] = last /\ tree.fn[n] = f
                                       /\ n \notin t.exhausted}
<1>1. subs # {} /\ MatchingNode(t, tree, f, root) = Min(subs)
  BY DEF MatchingNode
<1>2. subs \in SUBSET Nat
  BY DEF Node
<1>3. Min(subs) \in subs
  BY <1>1, <1>2, MinIn
<1> QED
  BY <1>1, <1>3

LEMMA MatchingEntryIn ==
    ASSUME NEW addr, NEW f, MatchingEntries(addr, f) # {}, NEW e,
           e = Min(MatchingEntries(addr, f)), NEW n, n = EntryMatch(e, f)
    PROVE  /\ e \in Entry /\ e \notin Held(ctx) /\ Entries[e].addr = addr
           /\ n \in EntryNode(e) /\ n \notin account[e].tracker.exhausted
<1>1. MatchingEntries(addr, f) \in SUBSET Nat
  BY DEF MatchingEntries, Entry
<1>2. e \in MatchingEntries(addr, f)
  BY <1>1, MinIn
<1>3. e \in Entry /\ e \notin Borrowed /\ Entries[e].addr = addr /\ n # 0
  BY <1>2 DEF MatchingEntries
<1>4. n \in Node(Entries[e].tree) \ account[e].tracker.exhausted
  BY <1>3, MatchingNodeIn DEF EntryMatch
<1> QED
  BY <1>3, <1>4 DEF EntryNode, Borrowed, Held, HeldBy

-----------------------------------------------------------------------------
(***************************************************************************)
(* The actions.                                                            *)
(***************************************************************************)
LEMMA BFacts ==
    ASSUME BInv
    PROVE  /\ tx \in Transaction /\ Books(ctx, account, grants, nonces, status)
           /\ IsSeq(ctx) /\ Len(ctx) \in Nat /\ Accounts(account) /\ Grants(grants)
           /\ Len(ctx) > 0 => FrameOK(Top, Held(ctx))
           /\ Borrowed = Held(ctx)
<1>1. tx \in Transaction /\ Books(ctx, account, grants, nonces, status)
  BY DEF BInv
<1>2. ContextsOK(ctx) /\ Accounts(account) /\ Grants(grants)
  BY <1>1 DEF Books
<1>3. IsSeq(ctx)
  BY <1>2 DEF ContextsOK
<1>4. Len(ctx) \in Nat
  BY <1>3, LenNat
<1>5. ASSUME Len(ctx) > 0 PROVE FrameOK(Top, Held(ctx))
  <2>1. Len(ctx) \in 1 .. Len(ctx)
    BY <1>4, <1>5
  <2> QED
    BY <1>2, <2>1 DEF ContextsOK, Top, Held
<1>6. Borrowed = Held(ctx)
  BY DEF Borrowed, Held, HeldBy
<1> QED
  BY <1>1, <1>2, <1>3, <1>4, <1>5, <1>6

LEMMA QuietStep ==
    ASSUME BInv, tx' = tx, ctx' = ctx, nonces' = nonces, grants' = grants,
           Accounts(account'), \A e \in Entry : Kept(account[e], account'[e]),
           status' = status \/ (status = "run" /\ status' # "run"),
           Len(ctx) > 0 \/ status' # "run"
    PROVE  BInv'
<1>1. Books(ctx, account', grants, nonces, status')
  BY BFacts, BooksQuiet
<1>2. Books(ctx', account', grants', nonces', status')
  BY <1>1
<1>3. status' = "run" => Len(ctx') > 0 \/ ~ Creating'
  OBVIOUS
<1> QED
  BY <1>2, <1>3, BFacts, SameTx

LEMMA SameKept == \A e \in Entry : Kept(account[e], account[e])
  BY DEF Kept

\* A failure, or a step of the manager that touches no entry.
LEMMA UntouchedStep ==
    ASSUME BInv, tx' = tx, ctx' = ctx, nonces' = nonces, grants' = grants,
           account' = account,
           status' = status \/ (status = "run" /\ status' # "run"),
           Len(ctx) > 0 \/ status' # "run"
    PROVE  BInv'
<1>1. Accounts(account') /\ \A e \in Entry : Kept(account[e], account'[e])
  BY BFacts, SameKept
<1> QED
  BY <1>1, QuietStep

LEMMA CallBooks ==
    ASSUME BInv, NEW c \in Contract, NEW entry \in {"call", "try"}, Call(c, entry)
    PROVE  BInv'
<1> DEFINE f == NewContext(c, entry, 0, 0)
<1>1. /\ tx' = tx /\ nonces' = nonces /\ grants' = grants /\ status' = status
      /\ status = "run" /\ ctx' = Append(ctx, f) /\ account' = Pushed(account, Borrowed)
      /\ Len(ctx) > 0
  <2>1. InContract \/ InHostFn
    BY DEF Call
  <2>2. status = "run" /\ Len(ctx) > 0
    BY <2>1, BFacts DEF InContract, InHostFn
  <2> QED
    BY <2>2 DEF Call
<1>2. Accounts(account') /\ \A e \in Entry : Kept(account[e], account'[e])
  BY <1>1, BFacts, PushedKept
<1>3. /\ f.auth = 0 /\ f.entry # "auth" /\ f.grants = grants /\ f.nonces = nonces
      /\ f.snapshot.account =
            [e \in Entry |-> IF e \in Borrowed \union {f.auth} THEN NoSnapshot
                             ELSE [exhausted |-> account[e].tracker.exhausted,
                                   verified |-> account[e].verified, present |-> TRUE]]
  BY DEF NewContext, Snapshot
<1> HIDE DEF f
<1>4. \A e \in Entry : f.snapshot.account[e] =
         IF e \in Held(ctx) \union {f.auth} THEN NoSnapshot
         ELSE [exhausted |-> account[e].tracker.exhausted, verified |-> account[e].verified,
               present |-> TRUE]
  BY <1>3, BFacts
<1>5. Books(ctx, account, grants, nonces, "run")
  BY <1>1, BFacts
<1>6. Books(Append(ctx, f), account', grants, nonces, "run")
  BY <1>1, <1>2, <1>3, <1>4, <1>5, BooksPush
<1>7. Books(ctx', account', grants', nonces', status')
  BY <1>1, <1>6
<1>8. Len(ctx') > 0
  BY <1>1, BFacts, SeqPush
<1> QED
  BY <1>1, <1>7, <1>8, BFacts, SameTx

\* The trackers after that of entry e found node n.
Spends(acct, e, n) ==
    acct = [account EXCEPT ![e] =
              [@ EXCEPT !.tracker = extend_match(account[e].tracker, n)]]

LEMMA ExtendedAccounts ==
    ASSUME BInv, NEW e \in Entry, NEW n \in EntryNode(e), NEW acct, Spends(acct, e, n)
    PROVE  /\ Accounts(acct) /\ \A x \in Entry : x # e => acct[x] = account[x]
           /\ acct[e].verified = account[e].verified
           /\ acct[e].tracker.exhausted = account[e].tracker.exhausted \union {n}
<1> USE DEF Spends
<1> DEFINE t == extend_match(account[e].tracker, n)
<1>1. /\ DOMAIN account = Entry /\ account[e] \in EntryTracker(e)
      /\ account[e].tracker \in Tracker(Entries[e].tree)
  BY BFacts DEF Accounts, EntryTracker
<1>2. t \in Tracker(Entries[e].tree) /\ t.exhausted = account[e].tracker.exhausted \union {n}
  BY <1>1, ExtendTracker DEF EntryNode
<1> HIDE DEF t
<1>3. /\ DOMAIN acct = Entry /\ acct[e] = [account[e] EXCEPT !.tracker = t]
      /\ \A x \in Entry : x # e => acct[x] = account[x]
  BY <1>1 DEF t
<1>4. /\ acct[e] \in EntryTracker(e) /\ acct[e].tracker = t
      /\ acct[e].verified = account[e].verified
  BY <1>1, <1>2, <1>3 DEF EntryTracker
<1>5. Accounts(acct)
  BY <1>3, <1>4, BFacts DEF Accounts
<1> QED
  BY <1>2, <1>3, <1>4, <1>5

MarkVerified(acct, e) == [acct EXCEPT ![e] = [@ EXCEPT !.verified = TRUE]]

LEMMA VerifiedAccounts ==
    ASSUME NEW acct, Accounts(acct), NEW e \in Entry, NEW b, b = MarkVerified(acct, e)
    PROVE  /\ Accounts(b) /\ \A x \in Entry : x # e => b[x] = acct[x]
           /\ b[e].tracker = acct[e].tracker
<1>1. DOMAIN acct = Entry /\ acct[e] \in EntryTracker(e)
  BY DEF Accounts
<1>2. /\ DOMAIN b = Entry /\ b[e] = [acct[e] EXCEPT !.verified = TRUE]
      /\ \A x \in Entry : x # e => b[x] = acct[x]
  BY <1>1 DEF MarkVerified
<1>3. b[e] \in EntryTracker(e) /\ b[e].tracker = acct[e].tracker
  BY <1>1, <1>2 DEF EntryTracker
<1> QED
  BY <1>2, <1>3 DEF Accounts

\* An entry is asked in vain: the failure that follows puts its tracker back.
LEMMA SpentInVain ==
    ASSUME BInv, status = "run", NEW e \in Entry, e \notin Held(ctx), NEW n \in EntryNode(e),
           NEW acct, Accounts(acct), \A x \in Entry : x # e => acct[x] = account[x],
           acct[e].verified = account[e].verified
    PROVE  Books(ctx, acct, grants, nonces, "recoverable")
<1>1. Books(ctx, account, grants, nonces, "run")
  BY BFacts
<1>2. Verified(acct) = Verified(account)
  BY DEF Verified
<1>3. Waiting(ctx, acct, grants)
  <2>1. \A i \in 1 .. Len(ctx) : ctx[i].auth # 0 => ctx[i].auth \in Entry /\ ctx[i].auth # e
    BY <1>1 DEF Books, ContextsOK, FrameOK, Held, HeldBy
  <2> QED
    BY <1>1, <2>1 DEF Books, Waiting, Waits
<1> QED
  BY <1>1, <1>2, <1>3 DEF Books

\* require_auth spends a node of entry e: it grants the call, authenticates in
\* vain, or starts __check_auth.
LEMMA ByEntryBooks ==
    ASSUME BInv, status = "run", Len(ctx) > 0, NEW addr, NEW f, ByEntry(addr, f)
    PROVE  BInv'
<1> DEFINE e == Min(MatchingEntries(addr, f))
           n == EntryMatch(e, f)
           acct == [account EXCEPT ![e] =
                      [@ EXCEPT !.tracker = extend_match(account[e].tracker, n)]]
           granted == /\ account[e].verified \/ Entries[e].source
                      /\ Grant(acct, e, n)
                      /\ UNCHANGED <<tx, ctx, nonces, status>>
           signed == /\ NonceAcceptable(e) /\ Grant(acct, e, n)
                     /\ nonces' = nonces \union {NonceKey(e)}
                     /\ UNCHANGED <<tx, ctx, status>>
           refused == Error("recoverable") /\ account' = acct
           asked == ~ account[e].verified /\ EnterCheckAuth(acct, e, n)
<1>1. granted \/ signed \/ refused \/ asked
  BY Zenon DEF ByEntry
<1>2. MatchingEntries(addr, f) # {}
  BY DEF ByEntry
<1> HIDE DEF e, n
<1>3. /\ e \in Entry /\ e \notin Held(ctx)
      /\ n \in EntryNode(e) /\ n \notin account[e].tracker.exhausted
  BY <1>2, MatchingEntryIn DEF e, n
<1>a. Spends(acct, e, n)
  BY DEF Spends
<1> HIDE DEF acct
<1>4. /\ Accounts(acct) /\ \A x \in Entry : x # e => acct[x] = account[x]
      /\ acct[e].verified = account[e].verified
      /\ acct[e].tracker.exhausted = account[e].tracker.exhausted \union {n}
  BY <1>3, <1>a, ExtendedAccounts
<1>5. Books(ctx, account, grants, nonces, "run") /\ account[e].verified \in BOOLEAN
  BY <1>3, BFacts DEF Accounts, EntryTracker
<1>6. account[e].tracker.exhausted = Spent(grants, e) /\ n \notin Spent(grants, e)
  BY <1>3, <1>5 DEF Books, Free
<1>7. ASSUME Grant(acct, e, n), tx' = tx, ctx' = ctx, status' = status,
             \/ (account[e].verified = TRUE \/ Entries[e].source) /\ nonces' = nonces
             \/ NonceAcceptable(e) /\ nonces' = nonces \union {NonceKey(e)}
      PROVE  BInv'
  <2>1. account' = MarkVerified(acct, e) /\ grants' = AddGrant(grants, e, n)
    BY <1>7 DEF Grant, MarkVerified, AddGrant
  <2>2. /\ Accounts(account') /\ \A x \in Entry : x # e => account'[x] = acct[x]
        /\ account'[e].tracker = acct[e].tracker
    BY <1>3, <1>4, <2>1, VerifiedAccounts
  <2>3. /\ \A x \in Entry : x # e => Kept(account[x], account'[x])
        /\ account'[e].tracker.exhausted = Spent(grants, e) \union {n}
    BY <1>4, <1>6, <2>2 DEF Kept
  <2>4. /\ ContextsOK(ctx) /\ Accounts(account) /\ Grants(grants)
        /\ NoncesOK(grants, Verified(account), nonces) /\ Waiting(ctx, account, grants)
        /\ \A x \in Entry : x # e /\ x \notin Held(ctx)
                               => account[x].tracker.exhausted = Spent(grants, x)
    BY <1>5 DEF Books, Free
  <2>5. Books(ctx, account', grants', nonces', "run")
    BY <1>3, <1>6, <1>7, <2>1, <2>2, <2>3, <2>4, BooksGrant
  <2>6. Books(ctx', account', grants', nonces', status')
    BY <1>7, <2>5
  <2>7. Len(ctx') > 0
    BY <1>7
  <2> QED
    BY <1>7, <2>6, <2>7, BFacts, SameTx
<1>8. CASE granted
  <2>1. account[e].verified = TRUE \/ Entries[e].source
    BY <1>5, <1>8
  <2> QED
    BY <1>7, <1>8, <2>1
<1>9. CASE signed
  BY <1>7, <1>9
<1>10. CASE refused
  <2>1. /\ status' = "recoverable" /\ account' = acct
        /\ UNCHANGED <<tx, ctx, nonces, grants>>
    BY <1>10 DEF Error
  <2>2. Books(ctx, acct, grants, nonces, "recoverable")
    BY <1>3, <1>4, SpentInVain
  <2>3. Books(ctx', account', grants', nonces', status')
    BY <2>1, <2>2
  <2> QED
    BY <2>1, <2>3, BFacts, SameTx
<1>11. CASE asked
  <2> DEFINE c == NewContext(Entries[e].addr, "auth", e, n)
  <2>1. /\ account' = Pushed(acct, Borrowed \union {e}) /\ ctx' = Append(ctx, c)
        /\ UNCHANGED <<tx, nonces, status, grants>>
    BY <1>11 DEF EnterCheckAuth
  <2>2. Accounts(account') /\ \A x \in Entry : Kept(acct[x], account'[x])
    BY <1>4, <2>1, PushedKept
  <2>3. /\ c.auth = e /\ c.node = n /\ c.entry = "auth" /\ c.grants = grants
        /\ c.nonces = nonces
        /\ c.snapshot.account =
              [x \in Entry |-> IF x \in Borrowed \union {e} THEN NoSnapshot
                               ELSE [exhausted |-> account[x].tracker.exhausted,
                                     verified |-> account[x].verified, present |-> TRUE]]
    BY DEF NewContext, Snapshot
  <2> HIDE DEF c
  <2>4. \A x \in Entry : c.snapshot.account[x] =
           IF x \in Held(ctx) \union {c.auth} THEN NoSnapshot
           ELSE [exhausted |-> account[x].tracker.exhausted,
                 verified |-> account[x].verified, present |-> TRUE]
    BY <2>3, BFacts
  <2>5. \A x \in Entry : x # c.auth => Kept(account[x], account'[x])
    BY <1>4, <2>2, <2>3 DEF Kept
  <2>6. c.auth # 0
    BY <1>3, <2>3 DEF Entry
  <2>7. /\ c.auth \in Entry /\ c.auth \notin Held(ctx)
        /\ c.node \in EntryNode(c.auth) /\ c.node \notin Spent(grants, c.auth)
    BY <1>3, <1>6, <2>3
  <2>8. /\ account[c.auth].verified = FALSE /\ account'[c.auth].verified = FALSE
        /\ account'[c.auth].tracker.exhausted = Spent(grants, c.auth) \union {c.node}
    <3>1. account[e].verified = FALSE
      BY <1>5, <1>11
    <3> QED
      BY <1>3, <1>4, <1>6, <2>2, <2>3, <3>1 DEF Kept
  <2>9. Books(Append(ctx, c), account', grants, nonces, "run")
    BY <1>5, <2>2, <2>3, <2>4, <2>5, <2>6, <2>7, <2>8, BooksPush
  <2>10. Books(ctx', account', grants', nonces', status')
    BY <2>1, <2>9
  <2>11. Len(ctx') > 0
    BY <2>1, BFacts, SeqPush
  <2> QED
    BY <2>1, <2>10, <2>11, BFacts, SameTx
<1> QED
  BY <1>1, <1>8, <1>9, <1>10, <1>11

LEMMA RequireAuthBooks ==
    ASSUME BInv, status = "run", Len(ctx) > 0, NEW addr, NEW f,
           require_auth_internal(addr, f)
    PROVE  BInv'
<1>1. CASE ByDirectInvoker(addr)
  BY <1>1, UntouchedStep DEF ByDirectInvoker
<1>2. CASE ByInvokerTracker(addr, f)
  <2>1. /\ tx' = tx /\ ctx' = ctx /\ nonces' = nonces /\ grants' = grants
        /\ account' = account /\ (status' = status \/ status' = "bad_match_stack")
    BY <1>2 DEF ByInvokerTracker, Error
  <2> QED
    BY <2>1, UntouchedStep
<1>3. CASE ByEntry(addr, f)
  BY <1>3, ByEntryBooks
<1>4. CASE Unauthorized(addr, f)
  <2>1. /\ tx' = tx /\ ctx' = ctx /\ nonces' = nonces /\ grants' = grants
        /\ account' = account /\ status' = "recoverable"
    BY <1>4 DEF Unauthorized, Error
  <2> QED
    BY <2>1, UntouchedStep
<1> QED
  BY <1>1, <1>2, <1>3, <1>4 DEF require_auth_internal

LEMMA CreateBooks ==
    ASSUME BInv, \/ \E d \in Address, f \in CreateFn : CreateContract(d, f)
                 \/ FinishCreate
    PROVE  BInv'
<1>1. /\ tx' = tx /\ ctx' = ctx /\ nonces' = nonces /\ grants' = grants
      /\ account' \in {Pushed(account, Borrowed), Popped(account, Borrowed)}
  BY DEF CreateContract, FinishCreate
<1>2. Accounts(account') /\ \A e \in Entry : Kept(account[e], account'[e])
  BY <1>1, BFacts, PushedKept
<1>3. CASE \E d \in Address, f \in CreateFn : CreateContract(d, f)
  <2>1. status' = status /\ (InContract \/ InHostFn)
    BY <1>3 DEF CreateContract
  <2>2. Len(ctx) > 0
    BY <2>1, BFacts DEF InContract, InHostFn
  <2> QED
    BY <1>1, <1>2, <2>1, <2>2, QuietStep
<1>4. CASE FinishCreate
  <2>1. Creating
    BY <1>4 DEF FinishCreate
  <2>2. CASE status = "run"
    <3>1. status' \in {"run", "recoverable"} /\ Len(ctx) > 0
      BY <1>4, <2>1, <2>2 DEF FinishCreate, BInv
    <3> QED
      BY <1>1, <1>2, <2>2, <3>1, QuietStep
  <2>3. CASE status # "run"
    <3>1. status' = status
      BY <1>4, <2>3 DEF FinishCreate
    <3> QED
      BY <1>1, <1>2, <2>3, <3>1, QuietStep
  <2> QED
    BY <2>2, <2>3
<1> QED
  BY <1>3, <1>4

\* A contract, or the host function, returns.
LEMMA ReturnBooks ==
    ASSUME BInv, Return \/ ReturnFromHostFn
    PROVE  BInv'
<1>1. /\ tx' = tx /\ ctx' = Below(ctx) /\ nonces' = nonces /\ grants' = grants
      /\ status = "run" /\ status' = "run" /\ Len(ctx) > 0
  <2>1. CASE Return
    BY <2>1, BFacts DEF Return, InContract, PopCtx, Below
  <2>2. CASE ReturnFromHostFn
    BY <2>2, BFacts DEF ReturnFromHostFn, PopCtx, Below
  <2> QED
    BY <2>1, <2>2
<1>2. Accounts(account') /\ \A e \in Entry : Kept(account[e], account'[e])
  <2>1. account' \in {account, Popped(account, Borrowed)}
    BY DEF Return, ReturnFromHostFn
  <2> QED
    BY <2>1, BFacts, PushedKept, SameKept
<1>3. ctx[Len(ctx)].auth = 0
  <2>1. Top.entry # "auth"
    <3>1. CASE Return
      BY <3>1 DEF Return
    <3>2. CASE ReturnFromHostFn
      <4>1. Len(ctx) = 1 /\ ctx[1].entry = "host"
        BY <3>2, BFacts DEF ReturnFromHostFn, Books, ContextsOK
      <4> QED
        BY <4>1 DEF Top
    <3> QED
      BY <3>1, <3>2
  <2> QED
    BY <1>1, <2>1, BFacts DEF FrameOK, Top
<1>4. Books(ctx, account', grants, nonces, "run")
  <2>1. Books(ctx, account, grants, nonces, "run")
    BY <1>1, BFacts
  <2> QED
    BY <1>2, <2>1, BooksQuiet
<1>5. Books(Below(ctx), account', grants, nonces, "run")
  BY <1>1, <1>3, <1>4, BooksPop
<1>6. Books(ctx', account', grants', nonces', status')
  BY <1>1, <1>5
<1>7. Len(ctx') > 0 \/ ~ Creating'
  <2>1. CASE Return
    <3>1. Len(ctx) > 1
      BY <2>1 DEF Return, InContract
    <3>2. Len(Below(ctx)) = Len(ctx) - 1 /\ Len(ctx) \in Nat
      BY <1>1, BFacts, SeqPop
    <3> QED
      BY <1>1, <3>1, <3>2
  <2>2. CASE ReturnFromHostFn
    BY <2>2 DEF ReturnFromHostFn, Creating, TopCall
  <2> QED
    BY <2>1, <2>2
<1> QED
  BY <1>1, <1>6, <1>7, BFacts, SameTx

\* __check_auth returns, and the entry it was run for grants the call or fails.
LEMMA ReturnFromCheckAuthBooks ==
    ASSUME BInv, ReturnFromCheckAuth
    PROVE  BInv'
<1> DEFINE e == Top.auth
           n == Top.node
           acct == Popped(account, Borrowed)
           d == Below(ctx)
<1>1. /\ tx' = tx /\ ctx' = d /\ status = "run" /\ Len(ctx) > 1 /\ Top.entry = "auth"
      /\ \/ /\ NonceAcceptable(e) /\ nonces' = nonces \union {NonceKey(e)}
            /\ Grant(acct, e, n) /\ status' = status
         \/ /\ status' = "recoverable" /\ account' = acct
            /\ nonces' = nonces /\ grants' = grants
  BY Zenon DEF ReturnFromCheckAuth, InContract, PopCtx, Below
<1>2. Len(ctx) > 0 /\ Len(ctx) \in Nat /\ FrameOK(Top, Held(ctx)) /\ IsSeq(ctx)
  BY <1>1, BFacts
<1>3. e \in Entry /\ n \in EntryNode(e) /\ e # 0
  BY <1>1, <1>2 DEF FrameOK
<1>4. Accounts(acct) /\ \A x \in Entry : Kept(account[x], acct[x])
  BY BFacts, PushedKept
<1> HIDE DEF acct, d
<1>5. Books(ctx, acct, grants, nonces, "run")
  <2>1. Books(ctx, account, grants, nonces, "run")
    BY <1>1, BFacts
  <2> QED
    BY <1>4, <2>1, BooksQuiet
<1>6. /\ ContextsOK(ctx) /\ Grants(grants) /\ NoncesOK(grants, Verified(acct), nonces)
      /\ NoncesOK(grants, {}, nonces)
      /\ Waiting(ctx, acct, grants) /\ Free(ctx, acct, grants)
  BY <1>5 DEF Books
<1>7. ContextsOK(d) /\ e \notin Held(d)
  BY <1>2, <1>3, <1>6, ContextsPop DEF Top, d
<1>8. /\ Len(d) = Len(ctx) - 1 /\ \A i \in 1 .. Len(d) : d[i] = ctx[i]
      /\ Held(ctx) = Held(d) \union ({e} \ {0})
  BY <1>2, HeldPop DEF Top, d
<1>9. Waiting(d, acct, grants)
  BY <1>2, <1>6, <1>8, WaitingPop
<1>10. /\ acct[e].tracker.exhausted = Spent(grants, e) \union {n}
       /\ n \notin Spent(grants, e)
  <2>1. Len(ctx) \in 1 .. Len(ctx) /\ ctx[Len(ctx)].auth # 0
    BY <1>2, <1>3 DEF Top
  <2>2. Waits(ctx, acct, grants, Len(ctx))
    BY <1>6, <2>1 DEF Waiting
  <2> QED
    BY <2>2 DEF Waits, Top
<1>11. \A x \in Entry : x # e /\ x \notin Held(d) => acct[x].tracker.exhausted = Spent(grants, x)
  BY <1>6, <1>8 DEF Free
<1> HIDE DEF e, n
<1>12. Len(ctx') > 0
  BY <1>1, <1>2, <1>8
<1>13. CASE /\ NonceAcceptable(e) /\ nonces' = nonces \union {NonceKey(e)}
            /\ Grant(acct, e, n) /\ status' = status
  <2>1. account' = MarkVerified(acct, e) /\ grants' = AddGrant(grants, e, n)
    BY <1>13 DEF Grant, MarkVerified, AddGrant
  <2>2. /\ Accounts(account') /\ \A x \in Entry : x # e => account'[x] = acct[x]
        /\ account'[e].tracker = acct[e].tracker
    BY <1>3, <1>4, <2>1, VerifiedAccounts
  <2>3. /\ \A x \in Entry : x # e => Kept(acct[x], account'[x])
        /\ account'[e].tracker.exhausted = Spent(grants, e) \union {n}
    BY <1>10, <2>2 DEF Kept
  <2>4. Books(d, account', grants', nonces', "run")
    BY <1>3, <1>4, <1>6, <1>7, <1>9, <1>10, <1>11, <1>13, <2>1, <2>2, <2>3, BooksGrant
  <2>5. Books(ctx', account', grants', nonces', status')
    BY <1>1, <1>13, <2>4
  <2> QED
    BY <1>1, <1>12, <2>5, BFacts, SameTx
<1>14. CASE /\ status' = "recoverable" /\ account' = acct
            /\ nonces' = nonces /\ grants' = grants
  <2>1. Books(d, acct, grants, nonces, "recoverable")
    BY <1>4, <1>6, <1>7, <1>9 DEF Books
  <2>2. Books(ctx', account', grants', nonces', status')
    BY <1>1, <1>14, <2>1
  <2> QED
    BY <1>1, <1>14, <2>2, BFacts, SameTx
<1> QED
  BY <1>1, <1>13, <1>14

LEMMA RolledBackFacts ==
    ASSUME BInv, Len(ctx) > 0
    PROVE  /\ Accounts(RolledBack)
           /\ \A e \in Entry :
                 IF Top.snapshot.account[e].present = TRUE
                 THEN /\ RolledBack[e].verified = Top.snapshot.account[e].verified
                      /\ RolledBack[e].tracker.exhausted = Top.snapshot.account[e].exhausted
                 ELSE Kept(account[e], RolledBack[e])
<1>1. FrameOK(Top, Held(ctx)) /\ Accounts(account)
  BY BFacts
<1>2. ASSUME NEW e \in Entry
      PROVE  /\ RolledBack[e] \in EntryTracker(e)
             /\ IF Top.snapshot.account[e].present = TRUE
                THEN /\ RolledBack[e].verified = Top.snapshot.account[e].verified
                     /\ RolledBack[e].tracker.exhausted = Top.snapshot.account[e].exhausted
                ELSE Kept(account[e], RolledBack[e])
  <2> DEFINE s == Top.snapshot.account[e]
  <2>1. account[e] \in EntryTracker(e) /\ account[e].tracker \in Tracker(Entries[e].tree)
    BY <1>1 DEF Accounts, EntryTracker
  <2>2. CASE e \in Held(ctx)
    <3>1. s = NoSnapshot
      BY <1>1, <2>2 DEF FrameOK
    <3>2. s.present = FALSE
      BY <3>1 DEF NoSnapshot
    <3>3. RolledBack[e] = account[e]
      BY <3>2 DEF RolledBack
    <3> QED
      BY <2>1, <3>2, <3>3 DEF Kept
  <2>3. CASE e \notin Held(ctx)
    <3> DEFINE t == rollback_tracker(account[e].tracker, s.exhausted)
    <3>1. s.present = TRUE /\ s.verified \in BOOLEAN /\ s.exhausted = Spent(Top.grants, e)
      BY <1>1, <2>3 DEF FrameOK
    <3>2. s.exhausted \in SUBSET Node(Entries[e].tree)
      BY <3>1 DEF Spent, EntryNode
    <3>3. t \in Tracker(Entries[e].tree) /\ t.exhausted = s.exhausted
      BY <2>1, <3>2, RollbackTracker
    <3>4. RolledBack[e] = [tracker |-> t, verified |-> s.verified]
      BY <3>1 DEF RolledBack
    <3> HIDE DEF t, s
    <3>5. /\ RolledBack[e] \in EntryTracker(e) /\ RolledBack[e].tracker = t
          /\ RolledBack[e].verified = s.verified
      BY <3>1, <3>3, <3>4 DEF EntryTracker
    <3> QED
      BY <3>1, <3>3, <3>5 DEF s
  <2> QED
    BY <2>2, <2>3
<1>3. DOMAIN RolledBack = Entry
  BY DEF RolledBack
<1> QED
  BY <1>2, <1>3 DEF Accounts

LEMMA UnwindBooks ==
    ASSUME BInv, Unwind
    PROVE  BInv'
<1>1. /\ tx' = tx /\ ctx' = Below(ctx) /\ nonces' = Top.nonces /\ grants' = Top.grants
      /\ status \in {"recoverable", "unrecoverable"} /\ Len(ctx) > 0
      /\ account' \in {RolledBack, Popped(RolledBack, Borrowed)}
      /\ status' = "run" => Top.entry = "try"
  BY DEF Unwind, PopCtx, Below
<1>2. /\ Accounts(account')
      /\ \A e \in Entry :
            IF Top.snapshot.account[e].present = TRUE
            THEN /\ account'[e].verified = Top.snapshot.account[e].verified
                 /\ account'[e].tracker.exhausted = Top.snapshot.account[e].exhausted
            ELSE Kept(account[e], account'[e])
  <2>1. CASE account' = RolledBack
    BY <1>1, <2>1, RolledBackFacts
  <2>2. CASE account' = Popped(RolledBack, Borrowed)
    <3>1. Accounts(account') /\ \A e \in Entry : Kept(RolledBack[e], account'[e])
      BY <1>1, <2>2, RolledBackFacts, PushedKept
    <3> QED
      BY <1>1, <3>1, RolledBackFacts DEF Kept
  <2> QED
    BY <1>1, <2>1, <2>2
<1>3. Books(ctx, account, grants, nonces, status) /\ Top = ctx[Len(ctx)]
  BY BFacts DEF Top
<1>4. status' = "run" => Top.entry # "auth"
  BY <1>1
<1>5. Books(Below(ctx), account', Top.grants, Top.nonces, status')
  BY <1>1, <1>2, <1>3, <1>4, BooksUnwind
<1>6. Books(ctx', account', grants', nonces', status')
  BY <1>1, <1>5
<1>7. ASSUME status' = "run" PROVE Len(ctx') > 0
  <2>1. ctx[1].entry = "host" /\ Len(ctx) \in Nat
    BY <1>1, BFacts DEF Books, ContextsOK
  <2>2. Len(ctx) # 1
    BY <1>1, <1>7, <2>1 DEF Top
  <2>3. Len(Below(ctx)) = Len(ctx) - 1
    BY <1>1, BFacts, SeqPop
  <2> QED
    BY <1>1, <2>1, <2>2, <2>3
<1> QED
  BY <1>1, <1>6, <1>7, BFacts, SameTx

LEMMA UnwindInternalBooks ==
    ASSUME BInv, UnwindInternal
    PROVE  BInv'
<1>1. /\ tx' = tx /\ ctx' = Below(ctx) /\ nonces' = Top.nonces /\ grants' = Top.grants
      /\ status \in {"bad_snapshot", "bad_match_stack"} /\ Len(ctx) > 0
      /\ account' = account /\ status' = status
  BY DEF UnwindInternal, PopCtx, Below
<1>2. Books(ctx, account, grants, nonces, status) /\ Top = ctx[Len(ctx)]
  BY BFacts DEF Top
<1>3. Books(Below(ctx), account, Top.grants, Top.nonces, status)
  BY <1>1, <1>2, BooksUnwindInternal
<1>4. Books(ctx', account', grants', nonces', status')
  BY <1>1, <1>3
<1>5. status' # "run"
  BY <1>1
<1> QED
  BY <1>1, <1>4, <1>5, BFacts, SameTx

LEMMA NextBooks ==
    ASSUME BInv, [Next]_vars
    PROVE  BInv'
<1>1. ASSUME NEW c \in Contract, NEW entry \in {"call", "try"}, Call(c, entry)
      PROVE  BInv'
  BY <1>1, CallBooks
<1>2. ASSUME NEW t, AuthorizeAsCurrContract(t)
      PROVE  BInv'
  <2>1. /\ tx' = tx /\ ctx' = ctx /\ nonces' = nonces /\ grants' = grants
        /\ account' = account /\ status' = status /\ Len(ctx) > 0
    BY <1>2, BFacts DEF AuthorizeAsCurrContract, InContract
  <2> QED
    BY <2>1, UntouchedStep
<1>3. ASSUME NEW addr, NEW f, RequireAuth(addr, f)
      PROVE  BInv'
  <2>1. status = "run" /\ Len(ctx) > 0 /\ require_auth_internal(addr, f)
    BY <1>3, BFacts DEF RequireAuth, InContract
  <2> QED
    BY <2>1, RequireAuthBooks
<1>4. CASE AuthorizeCreate
  <2>1. status = "run" /\ Creating /\ require_auth_internal(TopCall.deployer, TopCall.fn)
    BY <1>4 DEF AuthorizeCreate
  <2>2. Len(ctx) > 0
    BY <2>1 DEF BInv
  <2> QED
    BY <2>1, <2>2, RequireAuthBooks
<1>5. CASE Fail
  <2>1. /\ tx' = tx /\ ctx' = ctx /\ nonces' = nonces /\ grants' = grants
        /\ account' = account /\ status = "run" /\ status' # "run"
    BY <1>5 DEF Fail, Error
  <2> QED
    BY <2>1, UntouchedStep
<1>6. CASE UNCHANGED vars
  <2>1. /\ tx' = tx /\ ctx' = ctx /\ nonces' = nonces /\ grants' = grants
        /\ account' = account /\ status' = status /\ call_stack' = call_stack
    BY <1>6 DEF vars
  <2>2. Books(ctx', account', grants', nonces', status')
    BY <2>1, BFacts
  <2>3. status' = "run" => Len(ctx') > 0 \/ ~ Creating'
    BY <2>1 DEF BInv, Creating, TopCall
  <2> QED
    BY <2>1, <2>2, <2>3, BFacts, SameTx
<1> QED
  BY <1>1, <1>2, <1>3, <1>4, <1>5, <1>6, CreateBooks, ReturnBooks,
     ReturnFromCheckAuthBooks, UnwindBooks, UnwindInternalBooks DEF Next

-----------------------------------------------------------------------------
(***************************************************************************)
(* The theorems.                                                           *)
(***************************************************************************)
LEMMA InitBooks == Init => BInv
<1> SUFFICES ASSUME Init PROVE BInv
  OBVIOUS
<1>1. \A e \in Entry :
        account[e].tracker = NewTracker /\ account[e].verified = FALSE
  BY DEF Init
<1>2. \A e \in Entry : account[e] \in EntryTracker(e)
  <2> SUFFICES ASSUME NEW e \in Entry PROVE account[e] \in EntryTracker(e)
    OBVIOUS
  <2>1. NewTracker \in Tracker(Entries[e].tree)
    BY DEF NewTracker, Tracker
  <2> HIDE DEF NewTracker
  <2> QED
    BY <2>1 DEF Init, EntryTracker
<1>3. Accounts(account) /\ Verified(account) = {}
  BY <1>1, <1>2 DEF Accounts, Verified, Init
<1>4. Grants(grants) /\ \A e \in Entry : Spent(grants, e) = {}
  BY DEF Grants, Spent, Init
<1>5. NoncesOK(grants, {}, nonces)
  BY <1>4 DEF NoncesOK, Owner, Init
<1>6. /\ IsSeq(ctx) /\ Len(ctx) = 1
      /\ ctx[1].entry = "host" /\ ctx[1].auth = 0
      /\ ctx[1].nonces = nonces /\ ctx[1].grants = grants
      /\ \A e \in Entry : ctx[1].snapshot.account[e] =
            [exhausted |-> {}, verified |-> FALSE, present |-> TRUE]
  <2> DEFINE snap == [account |-> [e \in Entry |->
                         [exhausted |-> {}, verified |-> FALSE, present |-> TRUE]],
                      invoker |-> << >>]
             f == [contract |-> NoContract, entry |-> "host", auth |-> 0, node |-> 0,
                   height |-> 0,
                   snapshot |-> snap, nonces |-> nonces, grants |-> grants]
  <2>1. ctx = << f >>
    BY DEF Init
  <2>2. snap.account = [e \in Entry |->
                          [exhausted |-> {}, verified |-> FALSE, present |-> TRUE]]
    OBVIOUS
  <2> HIDE DEF snap
  <2>3. /\ f.entry = "host" /\ f.auth = 0 /\ f.nonces = nonces /\ f.grants = grants
        /\ f.snapshot = snap
    OBVIOUS
  <2> HIDE DEF f
  <2>4. IsSeq(ctx) /\ Len(ctx) = 1 /\ ctx[1] = f
    <3>1. ctx \in Seq({f})
      BY <2>1
    <3> QED
      BY <2>1, <3>1 DEF IsSeq
  <2> QED
    BY <2>2, <2>3, <2>4, Zenon
<1>7. HeldBy(ctx, 1) = {} /\ Held(ctx) = {}
  BY <1>6 DEF HeldBy, Held
<1>8. ContextsOK(ctx)
  <2>1. \A e \in Entry : /\ ctx[1].snapshot.account[e].present = TRUE
                         /\ ctx[1].snapshot.account[e].verified = FALSE
                         /\ ctx[1].snapshot.account[e].exhausted = {}
    BY <1>6, SnapshotFields
  <2>2. Verified(ctx[1].snapshot.account) = {}
    BY <2>1 DEF Verified
  <2>3. FrameOK(ctx[1], {})
    BY <1>4, <1>5, <1>6, <2>1, <2>2 DEF FrameOK
  <2> QED
    BY <1>6, <1>7, <2>3 DEF ContextsOK
<1>9. Waiting(ctx, account, grants)
  BY <1>6 DEF Waiting
<1>10. Free(ctx, account, grants)
  <2>1. NewTracker.exhausted = {}
    BY DEF NewTracker
  <2> QED
    BY <1>1, <1>4, <2>1 DEF Free
<1>11. tx \in Transaction
  BY DEF Init
<1> QED
  BY <1>3, <1>4, <1>5, <1>6, <1>8, <1>9, <1>10, <1>11 DEF BInv, Books

(***************************************************************************)
(* The manager's books, in the trackers, in storage and in the snapshots   *)
(* of all frames, agree at every step (snapshot and rollback of the        *)
(* trackers, verify_and_consume_nonce).                                    *)
(***************************************************************************)
THEOREM Invariance == Spec => []BInv
  BY InitBooks, NextBooks, PTL DEF Spec

LEMMA SpentFollows == BInv => NodesAreSpentOnce
<1> SUFFICES ASSUME BInv, status = "run", NEW e \in Entry
             PROVE  /\ \A n \in EntryNode(e) : grants[e][n] <= 1
                    /\ account[e].tracker.exhausted = Spent(grants, e) \union Pending(e)
  BY DEF NodesAreSpentOnce, Spent
<1>1. \A n \in EntryNode(e) : grants[e][n] <= 1
  <2>1. grants[e] \in [EntryNode(e) -> {0, 1}]
    BY BFacts DEF Grants
  <2> QED
    BY <2>1
<1>2. /\ ContextsOK(ctx) /\ Waiting(ctx, account, grants)
      /\ Free(ctx, account, grants)
  BY DEF BInv, Books
<1>3. CASE e \notin Held(ctx)
  <2>1. \A i \in 1 .. Len(ctx) : ctx[i].auth # e
    BY <1>3 DEF Held, HeldBy, Entry
  <2>2. Pending(e) = {}
    BY <2>1 DEF Pending
  <2> QED
    BY <1>1, <1>2, <1>3, <2>2 DEF Free
<1>4. CASE e \in Held(ctx)
  <2>1. PICK i \in 1 .. Len(ctx) : ctx[i].auth = e /\ e # 0
    BY <1>4 DEF Held, HeldBy
  <2>2. \A j \in 1 .. Len(ctx) : ctx[j].auth = e => j = i
    BY <1>2, <2>1 DEF ContextsOK
  <2>3. Pending(e) = {ctx[i].node}
    BY <2>1, <2>2 DEF Pending
  <2> QED
    BY <1>1, <1>2, <2>1, <2>3 DEF Waiting, Waits
<1> QED
  BY <1>3, <1>4

(***************************************************************************)
(* Whatever calls fail and are recovered from, the spent nodes of every    *)
(* entry are those of the require_auth calls that stand, each of which     *)
(* spent a node of its own (is_exhausted and its rollback).                *)
(***************************************************************************)
THEOREM NodesSpentOnce == Spec => []NodesAreSpentOnce
  BY Invariance, SpentFollows, PTL

LEMMA NoReplayFollows == BInv => NoReplay
<1> SUFFICES ASSUME BInv PROVE NoReplay
  OBVIOUS
<1>1. NoncesOK(grants, {}, nonces)
  BY DEF BInv, Books
<1>2. ASSUME NEW e \in Entry, HasGrants(e) PROVE Spent(grants, e) # {}
  <2>1. grants[e] \in [EntryNode(e) -> {0, 1}]
    BY BFacts DEF Grants
  <2>2. PICK n \in EntryNode(e) : grants[e][n] > 0
    BY <1>2 DEF HasGrants
  <2>3. grants[e][n] = 1
    BY <2>1, <2>2
  <2> QED
    BY <2>3 DEF Spent
<1>3. \A e \in Entry : HasGrants(e) /\ ~ Entries[e].source => Owner(grants, {}, e)
  BY <1>2 DEF Owner
<1> QED
  BY <1>1, <1>3 DEF NoReplay, NoncesOK

(***************************************************************************)
(* An entry with address credentials that authorized a standing call has   *)
(* consumed its nonce, which no earlier transaction and no other entry had *)
(* (verify_and_consume_nonce), also after every rollback and every         *)
(* internal error.                                                         *)
(***************************************************************************)
THEOREM ReplayIsImpossible == Spec => []NoReplay
  BY Invariance, NoReplayFollows, PTL
=============================================================================
