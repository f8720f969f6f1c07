--------------------------- MODULE AuthStackProofs ---------------------------
(***************************************************************************)
(* The stacks of the authorization manager, for any contracts and          *)
(* accounts, any transaction, and any nesting of calls, creations,         *)
(* authentications and failures.                                           *)
(*                                                                         *)
(* The manager keeps one match stack per authorization entry and per       *)
(* invoker tracker, pushed and popped with the call stack; nothing in the  *)
(* code ties them together but the order of the calls.  The invariant SInv *)
(* says how they are tied:                                                 *)
(*   Calls     every context above the host function's has its frame at a  *)
(*             known height of the call stack, and between the frames are  *)
(*             creations at most;                                          *)
(*   Stacks    the match stack of an entry is as high as the call stack    *)
(*             or, while __check_auth runs, as the stack below that frame, *)
(*             and holds a path of its tree.  A tracker with its root on   *)
(*             the stack is active (Rooted), which has_active_tracker      *)
(*             relies on, and no rollback undoes that (KeepsRoot);         *)
(*   Speakers  invoker trackers are ordered by depth, speak for the frame  *)
(*             below their match stack, and those in a frame's snapshot    *)
(*             live as long as the frame (Covers).                         *)
(* The books (BInv of AuthProofs) say what a snapshot holds.               *)
(***************************************************************************)
EXTENDS AuthProofs, TLAPS

-----------------------------------------------------------------------------
(***************************************************************************)
(* The invariant.  Its parts are about any contexts c, call stack cs,      *)
(* account trackers acct and invoker trackers inv, so that a lemma about   *)
(* them can be used for the next state, or for one in the middle of an     *)
(* action.                                                                 *)
(***************************************************************************)
\* The frame of contract c on the call stack.
ContractFrame(c) == [kind |-> "contract", contract |-> c]

\* Frame g of the call stack is the call that function f describes.
CallAt(g, f) ==
    IF g.kind = "create" THEN g.fn = f
    ELSE f \in Function /\ FnContract[f] = g.contract

\* The frames up to k of the call stack are those up to h, and a creation.
Follows(cs, h, k) == k = h \/ (k = h + 1 /\ cs[k].kind = "create")

\* The call stack has the frames of the contexts above the host function's, and
\* a creation above some of them.
Calls(c, cs) ==
    /\ cs \in Seq(AuthStackFrame)
    /\ Len(c) = 0 => Len(cs) = 0
    /\ Len(c) > 0 => c[1].height = 0 /\ Follows(cs, c[Len(c)].height, Len(cs))
    /\ \A i \in 1 .. Len(c) : c[i].height \in 0 .. Len(cs)
    /\ \A i \in 2 .. Len(c) :
          /\ c[i].height > 0
          /\ cs[c[i].height] = ContractFrame(c[i].contract)
          /\ Follows(cs, c[i - 1].height, c[i].height - 1)
    /\ \A i, j \in 1 .. Len(c) : i < j => c[i].height < c[j].height

\* v is the node that the last matched of the first k frames matched.
LastIs(m, k, v) ==
    \/ v = 0 /\ \A i \in 1 .. k : m[i] = 0
    \/ \E i \in 1 .. k : m[i] = v /\ v # 0 /\ \A j \in 1 .. k : i < j => m[j] = 0

\* What IsMatchedPath says of match stack m.
Path(cs, m, tree, base) ==
    \A i \in 1 .. Len(m) : m[i] # 0 =>
        CallAt(cs[base + i], tree.fn[m[i]]) /\ LastIs(m, i - 1, tree.parent[m[i]])

\* A tracker whose root is on its match stack is active, and one whose root is
\* not spent has not been.
Rooted(t) ==
    /\ \A i \in 1 .. Len(t.match) :
          t.match[i] = 1 => 1 \in t.exhausted /\ t.root_frame = i /\ t.done = FALSE
    /\ 1 \notin t.exhausted => t.root_frame = 0 /\ t.done = FALSE

\* The tracker of entry e follows the call stack.
EntryOK(c, cs, e, t) ==
    /\ Path(cs, t.match, Entries[e].tree, 0) /\ Rooted(t)
    /\ \A p \in 1 .. Len(c) : c[p].auth = e => Len(t.match) = c[p].height - 1
    /\ e \notin Held(c) => Len(t.match) = Len(cs)

\* m and k are the match stacks of two entries of one address.
Apart(m, k) ==
    \A i \in 1 .. Len(m), j \in 1 .. Len(k) :
        i < j /\ j <= Len(m) /\ m[i] = 1 /\ k[j] = 1 => m[j] # 0

\* A rollback of frame f keeps a root that matched below the frame.
KeepsRoot(f, e, t) ==
    f.snapshot.account[e].present = TRUE =>
        \A i \in 1 .. Len(t.match) :
            i < f.height /\ t.match[i] = 1 => 1 \in f.snapshot.account[e].exhausted

\* All the entries' trackers.
Stacks(c, cs, acct) ==
    /\ \A e \in Entry : EntryOK(c, cs, e, acct[e].tracker)
    /\ \A e, x \in Entry : e # x /\ Entries[e].addr = Entries[x].addr =>
           Apart(acct[e].tracker.match, acct[x].tracker.match)
    /\ \A p \in 1 .. Len(c), e \in Entry : KeepsRoot(c[p], e, acct[e].tracker)

\* An invoker tracker of this transaction.
IsInvoker(v) ==
    /\ DOMAIN v = {"addr", "tree", "tracker"}
    /\ v.addr \in Contract /\ v.tree \in tx.invoker_trees
    /\ v.tracker \in Tracker(v.tree)

InvokersOK(inv) == IsSeq(inv) /\ \A i \in 1 .. Len(inv) : IsInvoker(inv[i])

\* The frames above the one that tracker i speaks for.
Depth(inv, i) == Len(inv[i].tracker.match)

\* The tracker speaks for the frame below its match stack.
SpeaksFor(cs, v) ==
    /\ Len(v.tracker.match) < Len(cs)
    /\ cs[Len(cs) - Len(v.tracker.match)] = ContractFrame(v.addr)
    /\ Path(cs, v.tracker.match, v.tree, Len(cs) - Len(v.tracker.match))

\* The trackers in the snapshot of frame f are there as long as the frame.
Covers(f, cs, inv) ==
    /\ IsSeq(f.snapshot.invoker)
    /\ Len(f.snapshot.invoker) <= Len(inv)
    /\ \A i \in 1 .. Len(f.snapshot.invoker) :
          /\ f.snapshot.invoker[i] \in SUBSET Node(inv[i].tree)
          /\ Depth(inv, i) + f.height > Len(cs)

\* All the invoker trackers: the shorter lived on top.
Speakers(c, cs, inv) ==
    /\ \A i \in 1 .. Len(inv) : SpeaksFor(cs, inv[i])
    /\ \A i, j \in 1 .. Len(inv) : i < j => Depth(inv, j) <= Depth(inv, i)
    /\ \A p \in 1 .. Len(c) : Covers(c[p], cs, inv)

\* A context's contract and kind.
FrameType(f) ==
    /\ f.contract \in Contract \union {NoContract}
    /\ f.entry \in {"host", "call", "try", "auth"}

Errors == {"recoverable", "unrecoverable", "bad_snapshot", "bad_match_stack"}

\* After an internal error only the types are left.
StackInv(c, cs, acct, inv, st) ==
    /\ \A i \in 1 .. Len(c) : FrameType(c[i])
    /\ cs \in Seq(AuthStackFrame)
    /\ InvokersOK(inv)
    /\ st \in {"run"} \union Errors
    /\ st \in {"run", "recoverable", "unrecoverable"} =>
          Calls(c, cs) /\ Stacks(c, cs, acct) /\ Speakers(c, cs, inv)

SInv ==
    /\ StackInv(ctx, call_stack, account, invoker, status)
    /\ started \in BOOLEAN

-----------------------------------------------------------------------------
(***************************************************************************)
(* Heights, greatest elements and the last matched frame.                  *)
(***************************************************************************)
\* A place of a stack that is not above k.
LEMMA HeightIn ==
    ASSUME NEW x \in Nat, x > 0, NEW k \in Nat, x <= k
    PROVE  x \in 1 .. k /\ x - 1 \in Nat /\ x - 1 <= k
  OBVIOUS

\* A push or a pop moves both sides.
LEMMA DepthSum ==
    ASSUME NEW a \in Nat, NEW h \in Nat, NEW n \in Nat, a + h > n
    PROVE  (a + 1) + h > n + 1 /\ (a - 1) + h > n - 1
  OBVIOUS

\* The domain of a sequence.
LEMMA SeqDomain ==
    ASSUME NEW S, NEW s \in Seq(S)
    PROVE  Len(s) \in Nat /\ DOMAIN s = 1 .. Len(s)
  OBVIOUS

\* A set of naturals has a least element.
LEMMA LeastOf ==
    ASSUME NEW S \in SUBSET Nat, S # {}
    PROVE  \E x \in S : \A y \in S : x <= y
<1> DEFINE R == {ss \in Nat \X Nat : ss[1] < ss[2]}
<1>1. \E x \in S : \A y \in S : ~ (<<y, x>> \in R)
  <2>1. IsWellFoundedOn(R, Nat)
    BY NatLessThanWellFounded, Zenon DEF OpToRel
  <2> HIDE DEF R
  <2> QED
    BY <2>1, WFMin
<1>2. \A x, y \in S : ~ (<<y, x>> \in R) => x <= y
  OBVIOUS
<1> QED
  BY <1>1, <1>2

\* Max of a set of frames is its greatest element.
LEMMA MaxIn ==
    ASSUME NEW n \in Nat, NEW S \in SUBSET (1 .. n), S # {}
    PROVE  Max(S) \in S /\ \A y \in S : y <= Max(S)
<1> DEFINE T == {n - x : x \in S}
<1>1. T \in SUBSET Nat /\ T # {}
  <2>1. \A x \in S : n - x \in Nat
    OBVIOUS
  <2>2. PICK x : x \in S
    OBVIOUS
  <2>3. n - x \in T
    BY <2>2
  <2> QED
    BY <2>1, <2>3
<1>2. PICK z \in T : \A y \in T : z <= y
  <2> HIDE DEF T
  <2> QED
    BY <1>1, LeastOf
<1>3. PICK x \in S : z = n - x
  BY <1>2
<1>4. \A y \in S : x >= y
  <2> SUFFICES ASSUME NEW y \in S PROVE x >= y
    OBVIOUS
  <2>1. n - y \in T
    OBVIOUS
  <2>2. n - x <= n - y
    BY <1>2, <1>3, <2>1
  <2> QED
    BY <2>2
<1>5. \E a \in S : \A y \in S : a >= y
  BY <1>3, <1>4
<1>6. Max(S) \in S /\ \A y \in S : Max(S) >= y
  BY <1>5 DEF Max
<1> QED
  BY <1>6

\* last_authorized_invocation is the node of the last matched frame.
LEMMA LastOf ==
    ASSUME NEW t, NEW S, t.match \in Seq(S)
    PROVE  LastIs(t.match, Len(t.match), last_authorized_invocation(t))
<1> DEFINE m == t.match
           k == Len(m)
           matched == {i \in 1 .. k : m[i] # 0}
<1>1. k \in Nat
  OBVIOUS
<1>2. last_authorized_invocation(t) = IF matched = {} THEN 0 ELSE m[Max(matched)]
  BY DEF last_authorized_invocation
<1>3. CASE matched = {}
  BY <1>2, <1>3 DEF LastIs
<1>4. CASE matched # {}
  <2>1. matched \in SUBSET (1 .. k)
    OBVIOUS
  <2>2. Max(matched) \in matched /\ \A y \in matched : y <= Max(matched)
    <3> HIDE DEF matched
    <3> QED
      BY <1>1, <1>4, <2>1, MaxIn
  <2> DEFINE i == Max(matched)
  <2>3. i \in 1 .. k /\ m[i] # 0
    BY <2>2
  <2>4. \A j \in 1 .. k : i < j => m[j] = 0
    <3> SUFFICES ASSUME NEW j \in 1 .. k, i < j, m[j] # 0 PROVE FALSE
      OBVIOUS
    <3>1. j \in matched
      OBVIOUS
    <3>2. j <= i
      BY <2>2, <3>1
    <3> HIDE DEF i
    <3> QED
      BY <2>3, <3>2
  <2> HIDE DEF matched, i
  <2> QED
    BY <1>2, <1>4, <2>3, <2>4 DEF LastIs, i
<1> QED
  BY <1>3, <1>4

\* There is one last matched node.
LEMMA LastUnique ==
    ASSUME NEW m, NEW k \in Nat, NEW v, NEW w, LastIs(m, k, v), LastIs(m, k, w)
    PROVE  v = w
  BY DEF LastIs

\* It depends on the frames up to k only.
LEMMA LastSame ==
    ASSUME NEW m, NEW n, NEW k, \A j \in 1 .. k : n[j] = m[j], NEW v, LastIs(m, k, v)
    PROVE  LastIs(n, k, v)
  BY DEF LastIs

\* An unmatched frame on top does not change it.
LEMMA LastDrop ==
    ASSUME NEW m, NEW k \in Nat, k > 0, m[k] = 0, NEW v, LastIs(m, k, v)
    PROVE  LastIs(m, k - 1, v)
<1>1. \A i \in 1 .. k : m[i] # 0 => i \in 1 .. k - 1
  OBVIOUS
<1>2. \A i \in 1 .. k - 1 : i \in 1 .. k
  OBVIOUS
<1> QED
  BY <1>1, <1>2 DEF LastIs

-----------------------------------------------------------------------------
(***************************************************************************)
(* Match stacks that lose or gain frames.                                  *)
(***************************************************************************)
Trim(m, n) ==
    /\ Len(m) \in Nat /\ Len(n) \in Nat
    /\ \A i \in 1 .. Len(n) : n[i] = IF i <= Len(m) THEN m[i] ELSE 0

\* A path stays a path when frames above it come and go.
LEMMA PathTrim ==
    ASSUME NEW cs, NEW m, NEW tree, NEW base, Path(cs, m, tree, base),
           NEW n, Trim(m, n), NEW ds,
           \A i \in 1 .. Len(n) : i <= Len(m) =>
               \A f : CallAt(ds[base + i], f) = CallAt(cs[base + i], f)
    PROVE  Path(ds, n, tree, base)
<1> SUFFICES ASSUME NEW i \in 1 .. Len(n), n[i] # 0
             PROVE  /\ CallAt(ds[base + i], tree.fn[n[i]])
                    /\ LastIs(n, i - 1, tree.parent[n[i]])
  BY DEF Path
<1>1. i \in 1 .. Len(m) /\ n[i] = m[i] /\ m[i] # 0
  BY DEF Trim
<1>2. CallAt(cs[base + i], tree.fn[m[i]]) /\ LastIs(m, i - 1, tree.parent[m[i]])
  BY <1>1 DEF Path
<1>3. \A j \in 1 .. i - 1 : n[j] = m[j]
  BY <1>1 DEF Trim
<1>4. LastIs(n, i - 1, tree.parent[m[i]])
  BY <1>2, <1>3, LastSame
<1> QED
  BY <1>1, <1>2, <1>4

\* Two entries of one address stay apart when frames come and go.
LEMMA ApartTrim ==
    ASSUME NEW m, NEW k, Apart(m, k), NEW n, NEW l, Trim(m, n), Trim(k, l),
           Len(n) <= Len(m) \/ Len(k) <= Len(m)
    PROVE  Apart(n, l)
<1> SUFFICES ASSUME NEW i \in 1 .. Len(n), NEW j \in 1 .. Len(l), i < j, j <= Len(n),
                    n[i] = 1, l[j] = 1
             PROVE  n[j] # 0
  BY DEF Apart
<1>1. i \in 1 .. Len(m) /\ m[i] = 1 /\ j \in 1 .. Len(k) /\ k[j] = 1
  BY DEF Trim
<1>2. j <= Len(m)
  BY <1>1 DEF Trim
<1>3. m[j] # 0
  BY <1>1, <1>2 DEF Apart
<1> QED
  BY <1>2, <1>3 DEF Trim

\* What a rollback keeps does not depend on the frames above.
LEMMA KeepsRootTrim ==
    ASSUME NEW f, NEW e, NEW t, NEW u, KeepsRoot(f, e, t), Trim(t.match, u.match)
    PROVE  KeepsRoot(f, e, u)
<1>1. \A i \in 1 .. Len(u.match) : u.match[i] = 1 => i \in 1 .. Len(t.match) /\ t.match[i] = 1
  BY DEF Trim
<1> QED
  BY <1>1 DEF KeepsRoot

\* A match stack that does not change.
LEMMA TrimSame ==
    ASSUME NEW m, Len(m) \in Nat
    PROVE  Trim(m, m)
  BY DEF Trim

\* The fields of a tracker.
LEMMA TrackerMatch ==
    ASSUME NEW tree, NEW t \in Tracker(tree)
    PROVE  /\ t.match \in Seq(Node(tree) \union {0}) /\ Len(t.match) \in Nat
           /\ t.exhausted \in SUBSET Node(tree) /\ t.root_frame \in Nat /\ t.done \in BOOLEAN
<1>1. t.match \in Seq(Node(tree) \union {0})
  BY DEF Tracker
<1> QED
  BY <1>1 DEF Tracker

\* push_frame of a tracker.
LEMMA PushMatch ==
    ASSUME NEW tree, NEW t \in Tracker(tree), NEW u, u = push_frame(t)
    PROVE  /\ Trim(t.match, u.match) /\ Len(u.match) = Len(t.match) + 1
           /\ Rooted(t) => Rooted(u)
<1> DEFINE m == t.match
<1>1. m \in Seq(Node(tree) \union {0}) /\ Len(m) \in Nat
  BY TrackerMatch
<1>2. /\ u.match = Append(m, 0) /\ u.exhausted = t.exhausted
      /\ u.root_frame = t.root_frame /\ u.done = t.done
  BY DEF push_frame, Tracker
<1>3. /\ Len(u.match) = Len(m) + 1
      /\ \A i \in 1 .. Len(u.match) : u.match[i] = IF i <= Len(m) THEN m[i] ELSE 0
  BY <1>1, <1>2
<1>4. Trim(m, u.match)
  BY <1>1, <1>3 DEF Trim
<1>5. ASSUME Rooted(t) PROVE Rooted(u)
  <2>1. \A i \in 1 .. Len(u.match) : u.match[i] = 1 => i \in 1 .. Len(m) /\ m[i] = 1
    BY <1>1, <1>3
  <2> QED
    BY <1>2, <1>5, <2>1 DEF Rooted
<1> QED
  BY <1>3, <1>4, <1>5

\* pop_frame of a tracker.
LEMMA PopMatch ==
    ASSUME NEW tree, NEW t \in Tracker(tree), NEW u, u = pop_frame(t)
    PROVE  /\ Trim(t.match, u.match)
           /\ Len(u.match) = IF Len(t.match) > 0 THEN Len(t.match) - 1 ELSE 0
           /\ Rooted(t) => Rooted(u)
           /\ u.exhausted = t.exhausted /\ u.root_frame = t.root_frame
           /\ t.done = FALSE /\ t.root_frame <= Len(u.match) => u.done = FALSE
           /\ t.done = FALSE /\ t.root_frame = 0 => u.done = FALSE
<1> DEFINE m == t.match
           n == IF Len(m) > 0 THEN Len(m) - 1 ELSE 0
<1>1. m \in Seq(Node(tree) \union {0}) /\ Len(m) \in Nat
  BY TrackerMatch
<1>2. /\ u.match = SubSeq(m, 1, n) /\ u.exhausted = t.exhausted
      /\ u.root_frame = t.root_frame
      /\ u.done = (t.done \/ (t.root_frame # 0 /\ t.root_frame > n))
  BY DEF pop_frame, Tracker
<1>3. n \in Nat /\ n <= Len(m)
  BY <1>1
<1>4. Len(u.match) = n /\ \A i \in 1 .. n : u.match[i] = m[i]
  <2> HIDE DEF n
  <2>1. CASE n = 0
    BY <1>1, <1>2, <2>1
  <2>2. CASE n > 0
    BY <1>1, <1>2, <1>3, <2>2
  <2> QED
    BY <1>3, <2>1, <2>2
<1>5. Trim(m, u.match)
  BY <1>1, <1>3, <1>4 DEF Trim
<1>6. ASSUME Rooted(t) PROVE Rooted(u)
  <2>6. ASSUME 1 \notin u.exhausted PROVE u.root_frame = 0 /\ u.done = FALSE
    <3>1. t.root_frame = 0 /\ t.done = FALSE
      BY <1>2, <1>6, <2>6 DEF Rooted
    <3>2. (t.done \/ (t.root_frame # 0 /\ t.root_frame > n)) = FALSE
      BY <3>1, Zenon
    <3> QED
      BY <1>2, <3>1, <3>2
  <2> SUFFICES ASSUME NEW i \in 1 .. Len(u.match), u.match[i] = 1
               PROVE  1 \in u.exhausted /\ u.root_frame = i /\ u.done = FALSE
    BY <2>6 DEF Rooted
  <2>1. i \in 1 .. Len(m) /\ m[i] = 1 /\ i <= n
    BY <1>3, <1>4
  <2>2. 1 \in t.exhausted /\ t.root_frame = i /\ t.done = FALSE
    BY <1>6, <2>1 DEF Rooted
  <2>3. ~ (t.root_frame > n)
    BY <1>3, <2>1, <2>2
  <2>4. (t.done \/ (t.root_frame # 0 /\ t.root_frame > n)) = FALSE
    <3> HIDE DEF n
    <3> QED
      BY <2>2, <2>3, Zenon
  <2>5. u.done = FALSE
    BY <1>2, <2>4
  <2> QED
    BY <1>2, <2>2, <2>5
<1>7. ASSUME t.done = FALSE, t.root_frame <= n PROVE u.done = FALSE
  <2>1. ~ (t.root_frame > n)
    <3>1. t.root_frame \in Nat
      BY TrackerMatch
    <3> HIDE DEF n
    <3> QED
      BY <1>3, <1>7, <3>1
  <2>2. (t.done \/ (t.root_frame # 0 /\ t.root_frame > n)) = FALSE
    <3> HIDE DEF n
    <3> QED
      BY <1>7, <2>1, Zenon
  <2> QED
    BY <1>2, <2>2
<1>8. t.root_frame = 0 => t.root_frame <= n
  BY <1>3
<1> HIDE DEF n
<1> QED
  BY <1>2, <1>4, <1>5, <1>6, <1>7, <1>8 DEF n

-----------------------------------------------------------------------------
(***************************************************************************)
(* The call stack under the contexts.                                      *)
(***************************************************************************)
\* ds has the frames of cs up to k.
Agree(cs, ds, k) == \A i \in 1 .. k : ds[i] = cs[i]

\* Follows depends on the frames up to k only.
LEMMA FollowsAgree ==
    ASSUME NEW cs, NEW ds, NEW k \in Nat, Agree(cs, ds, k),
           NEW h \in Nat, NEW j \in Nat, j <= k, Follows(cs, h, j)
    PROVE  Follows(ds, h, j)
  BY DEF Follows, Agree

\* The heights are places of the call stack.
LEMMA CallsFacts ==
    ASSUME NEW c, IsSeq(c), NEW cs, Calls(c, cs)
    PROVE  /\ IsSeq(cs) /\ Len(cs) \in Nat /\ Len(c) \in Nat
           /\ \A i \in 1 .. Len(c) : c[i].height \in Nat /\ c[i].height <= Len(cs)
<1>1. cs \in Seq(AuthStackFrame) /\ Len(c) \in Nat
  BY LenNat DEF Calls
<1>2. IsSeq(cs) /\ Len(cs) \in Nat
  BY <1>1, LenNat DEF IsSeq
<1> QED
  BY <1>1, <1>2 DEF Calls

\* A contract is entered.
LEMMA CallsPush ==
    ASSUME NEW c, IsSeq(c), NEW cs, Calls(c, cs), Len(c) > 0,
           NEW f, f.height = Len(cs) + 1, f.contract \in Contract,
           NEW d, d = Append(c, f), NEW ds, ds = Append(cs, ContractFrame(f.contract))
    PROVE  Calls(d, ds)
<1>1. /\ Len(c) \in Nat /\ Len(d) = Len(c) + 1 /\ d[Len(c) + 1] = f
      /\ \A i \in 1 .. Len(c) : d[i] = c[i]
  BY LenNat, SeqPush
<1>2. /\ IsSeq(cs) /\ Len(cs) \in Nat
      /\ \A i \in 1 .. Len(c) : c[i].height \in Nat /\ c[i].height <= Len(cs)
  BY CallsFacts
<1>3. ds \in Seq(AuthStackFrame)
  <2>1. ContractFrame(f.contract) \in AuthStackFrame
    BY DEF ContractFrame, AuthStackFrame
  <2> QED
    BY <2>1 DEF Calls
<1>4. /\ Len(ds) = Len(cs) + 1 /\ ds[Len(cs) + 1] = ContractFrame(f.contract)
      /\ Agree(cs, ds, Len(cs))
  BY <1>2, SeqPush DEF Agree
<1>5. d[1].height = 0 /\ d[Len(d)].height = Len(ds) /\ Len(d) > 0
  BY <1>1, <1>4 DEF Calls
<1>6. \A i \in 1 .. Len(d) : d[i].height \in 0 .. Len(ds)
  BY <1>1, <1>2, <1>4
<1>7. ASSUME NEW i \in 2 .. Len(d)
      PROVE  /\ d[i].height > 0
             /\ ds[d[i].height] = ContractFrame(d[i].contract)
             /\ Follows(ds, d[i - 1].height, d[i].height - 1)
  <2>1. CASE i = Len(c) + 1
    <3>1. d[i] = f /\ d[i - 1] = c[Len(c)] /\ d[i].height - 1 = Len(cs)
      BY <1>1, <1>2, <2>1
    <3>2. Follows(cs, c[Len(c)].height, Len(cs))
      BY DEF Calls
    <3>3. c[Len(c)].height \in Nat
      BY <1>1, <1>2
    <3>4. Follows(ds, c[Len(c)].height, Len(cs))
      BY <1>2, <1>4, <3>2, <3>3, FollowsAgree
    <3> QED
      BY <1>2, <1>4, <3>1, <3>4
  <2>2. CASE i # Len(c) + 1
    <3>1. i \in 2 .. Len(c) /\ i - 1 \in 1 .. Len(c) /\ i \in 1 .. Len(c)
      BY <1>1, <2>2
    <3>2. d[i] = c[i] /\ d[i - 1] = c[i - 1]
      BY <1>1, <3>1
    <3>3. /\ c[i].height > 0 /\ cs[c[i].height] = ContractFrame(c[i].contract)
          /\ Follows(cs, c[i - 1].height, c[i].height - 1)
      BY <3>1 DEF Calls
    <3>4. /\ c[i].height \in 1 .. Len(cs) /\ c[i].height - 1 \in Nat
          /\ c[i].height - 1 <= Len(cs) /\ c[i - 1].height \in Nat
      BY <1>2, <3>1, <3>3
    <3>5. Follows(ds, c[i - 1].height, c[i].height - 1)
      BY <1>2, <1>4, <3>3, <3>4, FollowsAgree
    <3>6. ds[c[i].height] = cs[c[i].height]
      BY <1>4, <3>4 DEF Agree
    <3> QED
      BY <3>2, <3>3, <3>5, <3>6
  <2> QED
    BY <2>1, <2>2
<1>8. \A i, j \in 1 .. Len(d) : i < j => d[i].height < d[j].height
  <2> SUFFICES ASSUME NEW i \in 1 .. Len(d), NEW j \in 1 .. Len(d), i < j
               PROVE  d[i].height < d[j].height
    OBVIOUS
  <2>1. i \in 1 .. Len(c) /\ d[i] = c[i]
    BY <1>1
  <2>2. CASE j = Len(c) + 1
    BY <1>1, <1>2, <2>1, <2>2
  <2>3. CASE j # Len(c) + 1
    BY <1>1, <2>1, <2>3 DEF Calls
  <2> QED
    BY <2>2, <2>3
<1>9. Follows(ds, d[Len(d)].height, Len(ds))
  BY <1>5 DEF Follows
<1> QED
  BY <1>1, <1>3, <1>5, <1>6, <1>7, <1>8, <1>9 DEF Calls

\* The call stack changes above the top frame only.
LEMMA CallsAbove ==
    ASSUME NEW c, IsSeq(c), NEW cs, Calls(c, cs), Len(c) > 0,
           NEW ds \in Seq(AuthStackFrame), c[Len(c)].height <= Len(ds),
           Agree(cs, ds, c[Len(c)].height), Follows(ds, c[Len(c)].height, Len(ds))
    PROVE  Calls(c, ds)
<1> DEFINE h == c[Len(c)].height
<1>1. /\ Len(c) \in Nat /\ Len(cs) \in Nat /\ Len(ds) \in Nat
      /\ \A i \in 1 .. Len(c) : c[i].height \in Nat
  BY CallsFacts
<1>2. h \in Nat /\ \A i \in 1 .. Len(c) : c[i].height <= h
  <2>1. h \in Nat
    BY <1>1
  <2>2. \A i \in 1 .. Len(c) : i < Len(c) => c[i].height < h
    BY <1>1 DEF Calls
  <2> QED
    BY <1>1, <2>1, <2>2
<1>3. \A i \in 1 .. Len(c) : c[i].height \in 0 .. Len(ds)
  BY <1>1, <1>2
<1>4. ASSUME NEW i \in 2 .. Len(c)
      PROVE  /\ c[i].height > 0
             /\ ds[c[i].height] = ContractFrame(c[i].contract)
             /\ Follows(ds, c[i - 1].height, c[i].height - 1)
  <2>1. i \in 1 .. Len(c) /\ i - 1 \in 1 .. Len(c)
    BY <1>1
  <2>2. /\ c[i].height > 0 /\ cs[c[i].height] = ContractFrame(c[i].contract)
        /\ Follows(cs, c[i - 1].height, c[i].height - 1)
    BY DEF Calls
  <2>3. /\ c[i].height \in 1 .. h /\ c[i].height - 1 \in Nat /\ c[i].height - 1 <= h
        /\ c[i - 1].height \in Nat
    <3>1. c[i].height \in Nat /\ c[i].height <= h /\ c[i - 1].height \in Nat
      BY <1>1, <1>2, <2>1
    <3> HIDE DEF h
    <3> QED
      BY <1>2, <2>2, <3>1, HeightIn
  <2>4. Follows(ds, c[i - 1].height, c[i].height - 1)
    BY <1>2, <2>2, <2>3, FollowsAgree
  <2>5. ds[c[i].height] = cs[c[i].height]
    BY <2>3 DEF Agree
  <2> QED
    BY <2>2, <2>4, <2>5
<1> QED
  BY <1>1, <1>3, <1>4 DEF Calls

\* A contract is left, or the host function.
LEMMA CallsPop ==
    ASSUME NEW c, IsSeq(c), NEW cs, Calls(c, cs), Len(c) > 0, c[Len(c)].height = Len(cs),
           NEW d, d = Below(c), NEW ds, ds = IF Len(cs) = 0 THEN cs ELSE Below(cs)
    PROVE  Calls(d, ds)
<1>1. /\ Len(c) \in Nat /\ Len(d) = Len(c) - 1
      /\ \A i \in 1 .. Len(d) : d[i] = c[i]
  BY HeldPop
<1>2. /\ IsSeq(cs) /\ Len(cs) \in Nat
      /\ \A i \in 1 .. Len(c) : c[i].height \in Nat
  BY CallsFacts
<1>3. CASE Len(cs) = 0
  <2>1. Len(c) = 1
    <3>1. ~ (1 < Len(c))
      BY <1>1, <1>2, <1>3 DEF Calls
    <3> QED
      BY <1>1, <3>1
  <2> QED
    BY <1>1, <1>3, <2>1 DEF Calls
<1>4. CASE Len(cs) > 0
  <2>1. /\ ds = Below(cs) /\ Len(ds) = Len(cs) - 1 /\ Agree(cs, ds, Len(cs) - 1)
    BY <1>2, <1>4, SeqPop DEF Agree
  <2>2. ds \in Seq(AuthStackFrame)
    <3>1. cs \in Seq(AuthStackFrame)
      BY DEF Calls
    <3> QED
      BY <1>2, <1>4, <2>1, <3>1, SeqShorter DEF Below
  <2>3. Len(c) > 1 /\ Len(c) \in 2 .. Len(c)
    <3>1. Len(c) # 1
      BY <1>4 DEF Calls
    <3> QED
      BY <1>1, <3>1
  <2>4. Follows(cs, c[Len(c) - 1].height, Len(cs) - 1)
    BY <2>3 DEF Calls
  <2> DEFINE k == c[Len(c) - 1].height
  <2>5. k \in Nat /\ k < Len(cs) /\ d[Len(d)] = c[Len(c) - 1]
    BY <1>1, <1>2, <2>3 DEF Calls
  <2>6. Follows(ds, k, Len(ds))
    BY <1>2, <2>1, <2>4, <2>5, FollowsAgree
  <2>12. /\ Len(c) - 1 \in 1 .. Len(c) /\ Len(cs) - 1 \in Nat
         /\ \A i \in 1 .. Len(d) : i \in 1 .. Len(c) /\ i <= Len(c) - 1
    BY <1>1, <1>2, <1>4, <2>3
  <2>7. \A i \in 1 .. Len(d) : c[i].height <= k /\ c[i].height <= Len(cs) - 1
    <3> SUFFICES ASSUME NEW i \in 1 .. Len(d) PROVE c[i].height <= k /\ c[i].height <= Len(cs) - 1
      OBVIOUS
    <3>1. i < Len(c) - 1 => c[i].height < k
      BY <2>12 DEF Calls
    <3>2. i = Len(c) - 1 \/ i < Len(c) - 1
      BY <1>1, <2>12
    <3>3. c[i].height \in Nat
      BY <1>2, <2>12
    <3>4. c[i].height <= k
      BY <2>5, <3>1, <3>2, <3>3
    <3> HIDE DEF k
    <3> QED
      BY <1>2, <2>5, <3>3, <3>4
  <2>8. \A i \in 1 .. Len(d) : d[i].height \in 0 .. Len(ds)
    BY <1>1, <1>2, <2>1, <2>7, <2>12
  <2>9. ASSUME NEW i \in 2 .. Len(d)
        PROVE  /\ d[i].height > 0
               /\ ds[d[i].height] = ContractFrame(d[i].contract)
               /\ Follows(ds, d[i - 1].height, d[i].height - 1)
    <3>1. /\ i \in 1 .. Len(d) /\ i - 1 \in 1 .. Len(d) /\ i \in 2 .. Len(c)
          /\ i \in 1 .. Len(c) /\ i - 1 \in 1 .. Len(c)
      BY <1>1
    <3>2. /\ c[i].height > 0 /\ cs[c[i].height] = ContractFrame(c[i].contract)
          /\ Follows(cs, c[i - 1].height, c[i].height - 1)
      BY <3>1 DEF Calls
    <3>3. /\ c[i].height \in 1 .. Len(cs) - 1 /\ c[i].height - 1 \in Nat
          /\ c[i].height - 1 <= Len(cs) - 1 /\ c[i - 1].height \in Nat /\ Len(cs) - 1 \in Nat
      <4>1. c[i].height <= Len(cs) - 1
        BY <2>7, <3>1
      <4>2. c[i].height \in Nat /\ c[i - 1].height \in Nat
        BY <1>2, <3>1
      <4>3. Len(cs) - 1 \in Nat
        BY <2>12
      <4> QED
        BY <3>2, <4>1, <4>2, <4>3, HeightIn
    <3>4. Follows(ds, c[i - 1].height, c[i].height - 1)
      BY <2>1, <3>2, <3>3, FollowsAgree
    <3>5. ds[c[i].height] = cs[c[i].height]
      BY <2>1, <3>3 DEF Agree
    <3>6. d[i] = c[i] /\ d[i - 1] = c[i - 1]
      BY <1>1, <3>1
    <3> QED
      BY <3>2, <3>4, <3>5, <3>6
  <2>10. \A i, j \in 1 .. Len(d) : i < j => d[i].height < d[j].height
    <3>1. \A i, j \in 1 .. Len(d) : i < j => c[i].height < c[j].height
      BY <2>12 DEF Calls
    <3> QED
      BY <1>1, <3>1
  <2>11. Len(d) > 0 /\ d[1].height = 0
    BY <1>1, <2>3 DEF Calls
  <2> QED
    BY <2>2, <2>5, <2>6, <2>8, <2>9, <2>10, <2>11 DEF Calls
<1> QED
  BY <1>2, <1>3, <1>4

-----------------------------------------------------------------------------
(***************************************************************************)
(* The trackers of the entries as frames come and go.                      *)
(***************************************************************************)
SameCall(g, k) == \A f : CallAt(g, f) = CallAt(k, f)

\* The part of EntryOK that is about lengths.
InStep(c, cs, e, t) ==
    /\ \A p \in 1 .. Len(c) : c[p].auth = e => Len(t.match) = c[p].height - 1
    /\ e \notin Held(c) => Len(t.match) = Len(cs)

\* Every tracker of b is one of acct after frames were pushed or popped.
Trimmed(cs, ds, acct, b) ==
    \A e \in Entry :
        /\ Trim(acct[e].tracker.match, b[e].tracker.match)
        /\ Rooted(b[e].tracker)
        /\ \/ Len(b[e].tracker.match) <= Len(acct[e].tracker.match)
           \/ Len(acct[e].tracker.match) = Len(cs)
        /\ \A i \in 1 .. Len(b[e].tracker.match) :
              i <= Len(acct[e].tracker.match) => SameCall(ds[i], cs[i])

\* The entries' trackers after frames were pushed or popped.
LEMMA StacksTrim ==
    ASSUME NEW c, NEW cs, NEW acct, Stacks(c, cs, acct),
           \A e \in Entry : Len(acct[e].tracker.match) <= Len(cs),
           NEW d, NEW ds, NEW b, Trimmed(cs, ds, acct, b),
           \A e \in Entry : InStep(d, ds, e, b[e].tracker),
           \A p \in 1 .. Len(d), e \in Entry : KeepsRoot(d[p], e, b[e].tracker)
    PROVE  Stacks(d, ds, b)
<1>1. ASSUME NEW e \in Entry PROVE EntryOK(d, ds, e, b[e].tracker)
  <2> DEFINE m == acct[e].tracker.match
             n == b[e].tracker.match
             tree == Entries[e].tree
  <2>1. Path(cs, m, tree, 0)
    BY DEF Stacks, EntryOK
  <2>2. Trim(m, n) /\ Rooted(b[e].tracker)
    BY DEF Trimmed
  <2>3. \A i \in 1 .. Len(n) : i <= Len(m) => \A f : CallAt(ds[0 + i], f) = CallAt(cs[0 + i], f)
    <3>1. \A i \in 1 .. Len(n) : i <= Len(m) => SameCall(ds[i], cs[i])
      BY DEF Trimmed
    <3>2. \A i \in 1 .. Len(n) : 0 + i = i
      BY <2>2 DEF Trim
    <3> QED
      BY <3>1, <3>2 DEF SameCall
  <2>4. Path(ds, n, tree, 0)
    BY <2>1, <2>2, <2>3, PathTrim
  <2> QED
    BY <2>2, <2>4 DEF EntryOK, InStep
<1>2. ASSUME NEW e \in Entry, NEW x \in Entry, e # x, Entries[e].addr = Entries[x].addr
      PROVE  Apart(b[e].tracker.match, b[x].tracker.match)
  <2>1. Apart(acct[e].tracker.match, acct[x].tracker.match)
    BY <1>2 DEF Stacks
  <2>2. /\ Trim(acct[e].tracker.match, b[e].tracker.match)
        /\ Trim(acct[x].tracker.match, b[x].tracker.match)
        /\ \/ Len(b[e].tracker.match) <= Len(acct[e].tracker.match)
           \/ Len(acct[x].tracker.match) <= Len(acct[e].tracker.match)
    BY DEF Trimmed
  <2> QED
    BY <2>1, <2>2, ApartTrim
<1> QED
  BY <1>1, <1>2 DEF Stacks

\* An entry is held by a frame that authenticates it.
LEMMA Holder ==
    ASSUME NEW c, NEW e \in Entry
    PROVE  e \in Held(c) <=> \E p \in 1 .. Len(c) : c[p].auth = e
<1>1. e # 0
  BY DEF Entry
<1> QED
  BY <1>1 DEF Held, HeldBy

\* The height of an entry's match stack.
LEMMA StacksFacts ==
    ASSUME NEW c, IsSeq(c), NEW cs, Calls(c, cs), NEW acct, Accounts(acct), Stacks(c, cs, acct),
           NEW e \in Entry
    PROVE  /\ acct[e].tracker \in Tracker(Entries[e].tree)
           /\ Len(acct[e].tracker.match) \in Nat /\ Len(cs) \in Nat
           /\ Len(acct[e].tracker.match) <= Len(cs)
           /\ e \in Held(c) => Len(acct[e].tracker.match) < Len(cs)
           /\ e \notin Held(c) => Len(acct[e].tracker.match) = Len(cs)
           /\ Rooted(acct[e].tracker)
<1>1. acct[e].tracker \in Tracker(Entries[e].tree)
  BY DEF Accounts, EntryTracker
<1>2. Len(acct[e].tracker.match) \in Nat
  BY <1>1, TrackerMatch
<1>3. EntryOK(c, cs, e, acct[e].tracker)
  BY DEF Stacks
<1>4. /\ Len(cs) \in Nat
      /\ \A i \in 1 .. Len(c) : c[i].height \in Nat /\ c[i].height <= Len(cs)
  BY CallsFacts
<1>5. CASE e \in Held(c)
  <2>1. PICK p \in 1 .. Len(c) : c[p].auth = e
    BY <1>5, Holder
  <2>2. Len(acct[e].tracker.match) = c[p].height - 1
    BY <1>3, <2>1 DEF EntryOK
  <2> QED
    BY <1>1, <1>2, <1>3, <1>4, <1>5, <2>2 DEF EntryOK
<1>6. CASE e \notin Held(c)
  BY <1>1, <1>2, <1>3, <1>4, <1>6 DEF EntryOK
<1> QED
  BY <1>5, <1>6

\* push_frame of the entries' trackers.
LEMMA PushedTrim ==
    ASSUME NEW acct, Accounts(acct), NEW held, NEW b, b = Pushed(acct, held), NEW e \in Entry,
           Rooted(acct[e].tracker)
    PROVE  /\ Trim(acct[e].tracker.match, b[e].tracker.match) /\ Rooted(b[e].tracker)
           /\ Len(b[e].tracker.match) =
                 IF e \in held THEN Len(acct[e].tracker.match)
                 ELSE Len(acct[e].tracker.match) + 1
<1>1. acct[e] \in EntryTracker(e) /\ acct[e].tracker \in Tracker(Entries[e].tree)
  BY DEF Accounts, EntryTracker
<1>2. CASE e \in held
  BY <1>1, <1>2, TrimSame, TrackerMatch DEF Pushed
<1>3. CASE e \notin held
  <2>1. b[e] = [acct[e] EXCEPT !.tracker = push_frame(acct[e].tracker)]
    BY <1>3 DEF Pushed
  <2>2. b[e].tracker = push_frame(acct[e].tracker)
    BY <1>1, <2>1 DEF EntryTracker
  <2> QED
    BY <1>1, <1>3, <2>2, PushMatch
<1> QED
  BY <1>2, <1>3

\* pop_frame of the entries' trackers.
LEMMA PoppedTrim ==
    ASSUME NEW acct, Accounts(acct), NEW held, NEW b, b = Popped(acct, held), NEW e \in Entry
    PROVE  IF e \in held THEN b[e] = acct[e]
           ELSE b[e].tracker = pop_frame(acct[e].tracker)
<1>1. acct[e] \in EntryTracker(e)
  BY DEF Accounts
<1>2. CASE e \in held
  BY <1>2 DEF Popped
<1>3. CASE e \notin held
  <2>1. b[e] = [acct[e] EXCEPT !.tracker = pop_frame(acct[e].tracker)]
    BY <1>3 DEF Popped
  <2> QED
    BY <1>1, <1>3, <2>1 DEF EntryTracker
<1> QED
  BY <1>2, <1>3

\* A frame is pushed: a creation, or a context f, which may hold an entry.
Enters(c, cs, acct, d, f) ==
    \/ d = c
    \/ /\ d = Append(c, f) /\ f.height = Len(cs) + 1
       /\ f.auth = 0 \/ f.auth \notin Held(c)
       /\ \A e \in Entry : f.snapshot.account[e].present = TRUE =>
             f.snapshot.account[e].exhausted = acct[e].tracker.exhausted

LEMMA StacksPush ==
    ASSUME NEW c, IsSeq(c), NEW cs, Calls(c, cs), NEW acct, Accounts(acct), Stacks(c, cs, acct),
           NEW d, NEW g, NEW ds, ds = Append(cs, g), NEW b, b = Pushed(acct, Held(d)), NEW f,
           Enters(c, cs, acct, d, f)
    PROVE  Stacks(d, ds, b)
<1> USE DEF Enters
<1>1. /\ IsSeq(cs) /\ Len(cs) \in Nat /\ Len(c) \in Nat
  BY CallsFacts
<1>2. Len(ds) = Len(cs) + 1 /\ \A i \in 1 .. Len(cs) : ds[i] = cs[i]
  BY <1>1, SeqPush
<1>3. ASSUME NEW e \in Entry
      PROVE  /\ acct[e].tracker \in Tracker(Entries[e].tree)
             /\ Len(acct[e].tracker.match) \in Nat
             /\ Len(acct[e].tracker.match) <= Len(cs)
             /\ e \notin Held(c) => Len(acct[e].tracker.match) = Len(cs)
             /\ Rooted(acct[e].tracker)
  BY StacksFacts
<1>4. ASSUME NEW e \in Entry
      PROVE  /\ Trim(acct[e].tracker.match, b[e].tracker.match) /\ Rooted(b[e].tracker)
             /\ Len(b[e].tracker.match) =
                   IF e \in Held(d) THEN Len(acct[e].tracker.match)
                   ELSE Len(acct[e].tracker.match) + 1
  BY <1>3, PushedTrim
<1>5. Held(c) \subseteq Held(d)
  <2>1. Held(Append(c, f)) = Held(c) \union ({f.auth} \ {0})
    BY HeldPush
  <2> QED
    BY <2>1
<1>6. Trimmed(cs, ds, acct, b)
  <2> SUFFICES ASSUME NEW e \in Entry
               PROVE  /\ \/ Len(b[e].tracker.match) <= Len(acct[e].tracker.match)
                         \/ Len(acct[e].tracker.match) = Len(cs)
                      /\ \A i \in 1 .. Len(b[e].tracker.match) :
                            i <= Len(acct[e].tracker.match) => SameCall(ds[i], cs[i])
    BY <1>4 DEF Trimmed
  <2>1. \A i \in 1 .. Len(b[e].tracker.match) :
            i <= Len(acct[e].tracker.match) => i \in 1 .. Len(cs)
    BY <1>1, <1>3, <1>4
  <2>2. \/ Len(b[e].tracker.match) <= Len(acct[e].tracker.match)
        \/ Len(acct[e].tracker.match) = Len(cs)
    BY <1>3, <1>4, <1>5
  <2> QED
    BY <1>2, <2>1, <2>2 DEF SameCall
<1>7. /\ \A p \in 1 .. Len(c) : d[p] = c[p]
      /\ \A p \in 1 .. Len(d) : p \in 1 .. Len(c) \/ (d[p] = f /\ d # c)
  <2>1. CASE d = c
    BY <2>1
  <2>2. CASE d # c
    BY <1>1, <2>2, SeqPush
  <2> QED
    BY <2>1, <2>2
<1>8. ASSUME NEW e \in Entry PROVE InStep(d, ds, e, b[e].tracker)
  <2>1. ASSUME NEW p \in 1 .. Len(d), d[p].auth = e
        PROVE  Len(b[e].tracker.match) = d[p].height - 1
    <3>1. e \in Held(d)
      BY <2>1, Holder
    <3>2. Len(b[e].tracker.match) = Len(acct[e].tracker.match)
      BY <1>4, <3>1
    <3>3. CASE p \in 1 .. Len(c)
      <4>1. c[p].auth = e /\ d[p] = c[p]
        BY <1>7, <2>1, <3>3
      <4> QED
        BY <3>2, <3>3, <4>1 DEF Stacks, EntryOK
    <3>4. CASE d[p] = f /\ d # c
      <4>1. f.auth = e /\ f.auth # 0
        BY <2>1, <3>4 DEF Entry
      <4>2. e \notin Held(c) /\ f.height = Len(cs) + 1
        BY <3>4, <4>1
      <4> QED
        BY <1>1, <1>3, <3>2, <3>4, <4>2
    <3> QED
      BY <1>7, <3>3, <3>4
  <2>2. ASSUME e \notin Held(d) PROVE Len(b[e].tracker.match) = Len(ds)
    BY <1>2, <1>3, <1>4, <1>5, <2>2
  <2> QED
    BY <2>1, <2>2 DEF InStep
<1>9. ASSUME NEW p \in 1 .. Len(d), NEW e \in Entry PROVE KeepsRoot(d[p], e, b[e].tracker)
  <2>1. CASE p \in 1 .. Len(c)
    <3>1. KeepsRoot(c[p], e, acct[e].tracker)
      BY <2>1 DEF Stacks
    <3> QED
      BY <1>4, <1>7, <2>1, <3>1, KeepsRootTrim
  <2>2. CASE d[p] = f /\ d # c
    <3>1. KeepsRoot(f, e, acct[e].tracker)
      <4>1. \A i \in 1 .. Len(acct[e].tracker.match) :
               acct[e].tracker.match[i] = 1 => 1 \in acct[e].tracker.exhausted
        BY <1>3 DEF Rooted
      <4>2. f.snapshot.account[e].present = TRUE =>
               f.snapshot.account[e].exhausted = acct[e].tracker.exhausted
        BY <2>2
      <4> QED
        BY <4>1, <4>2 DEF KeepsRoot
    <3> QED
      BY <1>4, <2>2, <3>1, KeepsRootTrim
  <2> QED
    BY <1>7, <2>1, <2>2
<1>10. \A e \in Entry : Len(acct[e].tracker.match) <= Len(cs)
  BY <1>3
<1> QED
  BY <1>6, <1>8, <1>9, <1>10, StacksTrim

\* A frame is popped: a creation, or the top context.
LEMMA StacksPop ==
    ASSUME NEW c, IsSeq(c), NEW cs, Calls(c, cs), NEW acct, Accounts(acct), Stacks(c, cs, acct),
           Len(cs) > 0, NEW ds, ds = Below(cs),
           NEW d, d = c \/ (Len(c) > 0 /\ d = Below(c) /\ c[Len(c)].height = Len(cs)),
           NEW b, \A e \in Entry :
               /\ Trim(acct[e].tracker.match, b[e].tracker.match) /\ Rooted(b[e].tracker)
               /\ Len(b[e].tracker.match) =
                     IF e \in Held(c) THEN Len(acct[e].tracker.match)
                     ELSE Len(acct[e].tracker.match) - 1
    PROVE  Stacks(d, ds, b)
<1>1. /\ IsSeq(cs) /\ Len(cs) \in Nat /\ Len(c) \in Nat
      /\ \A i \in 1 .. Len(c) : c[i].height \in Nat /\ c[i].height <= Len(cs)
  BY CallsFacts
<1>2. Len(ds) = Len(cs) - 1 /\ \A i \in 1 .. Len(cs) - 1 : ds[i] = cs[i]
  BY <1>1, SeqPop
<1>3. ASSUME NEW e \in Entry
      PROVE  /\ Len(acct[e].tracker.match) \in Nat
             /\ Len(acct[e].tracker.match) <= Len(cs)
             /\ e \in Held(c) => Len(acct[e].tracker.match) < Len(cs)
             /\ e \notin Held(c) => Len(acct[e].tracker.match) = Len(cs)
  BY StacksFacts
<1>4. Trimmed(cs, ds, acct, b)
  <2> SUFFICES ASSUME NEW e \in Entry
               PROVE  /\ \/ Len(b[e].tracker.match) <= Len(acct[e].tracker.match)
                         \/ Len(acct[e].tracker.match) = Len(cs)
                      /\ \A i \in 1 .. Len(b[e].tracker.match) :
                            i <= Len(acct[e].tracker.match) => SameCall(ds[i], cs[i])
    BY DEF Trimmed
  <2>1. \A i \in 1 .. Len(b[e].tracker.match) : i \in 1 .. Len(cs) - 1
    <3>1. Len(b[e].tracker.match) <= Len(cs) - 1 /\ Len(b[e].tracker.match) \in Int
      <4>1. CASE e \in Held(c)
        BY <1>1, <1>3, <4>1
      <4>2. CASE e \notin Held(c)
        <5>1. Len(b[e].tracker.match) = Len(acct[e].tracker.match) - 1
          BY <4>2
        <5>2. Len(acct[e].tracker.match) = Len(cs)
          BY <1>3, <4>2
        <5> QED
          BY <1>1, <5>1, <5>2
      <4> QED
        BY <4>1, <4>2
    <3> QED
      BY <1>1, <3>1
  <2>2. Len(b[e].tracker.match) <= Len(acct[e].tracker.match)
    BY <1>3
  <2> QED
    BY <1>2, <2>1, <2>2 DEF SameCall
<1>5. /\ \A p \in 1 .. Len(d) : p \in 1 .. Len(c) /\ d[p] = c[p]
      /\ d # c => Held(c) = Held(d) \union ({c[Len(c)].auth} \ {0})
  <2>1. CASE d = c
    BY <2>1
  <2>2. CASE d # c
    <3>1. /\ Len(d) = Len(c) - 1 /\ \A i \in 1 .. Len(d) : d[i] = c[i]
          /\ Held(c) = Held(d) \union ({c[Len(c)].auth} \ {0})
      BY <2>2, HeldPop
    <3> QED
      BY <1>1, <3>1
  <2> QED
    BY <2>1, <2>2
<1>6. ASSUME NEW e \in Entry PROVE InStep(d, ds, e, b[e].tracker)
  <2>1. ASSUME NEW p \in 1 .. Len(d), d[p].auth = e
        PROVE  Len(b[e].tracker.match) = d[p].height - 1
    <3>1. p \in 1 .. Len(c) /\ c[p].auth = e /\ d[p] = c[p]
      BY <1>5, <2>1
    <3>2. e \in Held(c)
      BY <3>1, Holder
    <3> QED
      BY <3>1, <3>2 DEF Stacks, EntryOK
  <2>2. ASSUME e \notin Held(d) PROVE Len(b[e].tracker.match) = Len(ds)
    <3>1. CASE e \notin Held(c)
      BY <1>2, <1>3, <3>1
    <3>2. CASE e \in Held(c)
      <4>1. d # c /\ e = c[Len(c)].auth /\ Len(c) \in 1 .. Len(c) /\ c[Len(c)].height = Len(cs)
        BY <1>1, <1>5, <2>2, <3>2
      <4>2. Len(acct[e].tracker.match) = Len(cs) - 1
        BY <4>1 DEF Stacks, EntryOK
      <4> QED
        BY <1>2, <3>2, <4>2
    <3> QED
      BY <3>1, <3>2
  <2> QED
    BY <2>1, <2>2 DEF InStep
<1>7. ASSUME NEW p \in 1 .. Len(d), NEW e \in Entry PROVE KeepsRoot(d[p], e, b[e].tracker)
  <2>1. KeepsRoot(c[p], e, acct[e].tracker) /\ d[p] = c[p]
    BY <1>5 DEF Stacks
  <2> QED
    BY <2>1, KeepsRootTrim
<1>8. \A e \in Entry : Len(acct[e].tracker.match) <= Len(cs)
  BY <1>3
<1> QED
  BY <1>4, <1>6, <1>7, <1>8, StacksTrim

\* The call stack only records that a creation is authorized, and entries are
\* marked as verified.
LEMMA StacksSame ==
    ASSUME NEW c, IsSeq(c), NEW cs, Calls(c, cs), NEW acct, Accounts(acct), Stacks(c, cs, acct),
           NEW ds, Len(ds) = Len(cs), \A i \in 1 .. Len(cs) : SameCall(ds[i], cs[i]),
           NEW b, \A e \in Entry : b[e].tracker = acct[e].tracker
    PROVE  Stacks(c, ds, b)
<1>1. ASSUME NEW e \in Entry
      PROVE  /\ Len(acct[e].tracker.match) \in Nat /\ Len(cs) \in Nat
             /\ Len(acct[e].tracker.match) <= Len(cs)
             /\ Rooted(acct[e].tracker)
  BY StacksFacts
<1>2. Trimmed(cs, ds, acct, b)
  <2>1. \A e \in Entry : Trim(acct[e].tracker.match, b[e].tracker.match)
    BY <1>1, TrimSame
  <2>2. \A e \in Entry : \A i \in 1 .. Len(b[e].tracker.match) : i \in 1 .. Len(cs)
    BY <1>1
  <2> QED
    BY <1>1, <2>1, <2>2 DEF Trimmed
<1>3. \A e \in Entry : InStep(c, ds, e, b[e].tracker)
  BY DEF InStep, Stacks, EntryOK
<1>4. \A p \in 1 .. Len(c), e \in Entry : KeepsRoot(c[p], e, b[e].tracker)
  BY DEF Stacks
<1> QED
  BY <1>1, <1>2, <1>3, <1>4, StacksTrim

\* No contract is on the stack.
LEMMA StacksEmpty ==
    ASSUME NEW d, NEW ds, Len(ds) = 0, NEW b,
           \A e \in Entry : Len(b[e].tracker.match) = 0 /\ Rooted(b[e].tracker),
           \A p \in 1 .. Len(d) : d[p].auth = 0
    PROVE  Stacks(d, ds, b)
<1>1. \A e \in Entry : e # 0
  BY DEF Entry
<1> QED
  BY <1>1 DEF Stacks, EntryOK, Path, Apart, KeepsRoot

-----------------------------------------------------------------------------
(***************************************************************************)
(* A call finds a node.                                                    *)
(***************************************************************************)
Finds(t, tree, f, root, n) ==
    /\ n \in Node(tree) /\ n \notin t.exhausted /\ tree.fn[n] = f
    /\ LastIs(t.match, Len(t.match), tree.parent[n])
    /\ Len(t.match) > 0 => t.match[Len(t.match)] = 0
    /\ tree.parent[n] = 0 => root = TRUE

\* maybe_extend_invocation_match finds a child of the last matched node.
LEMMA MatchingNodeFacts ==
    ASSUME NEW tree, NEW t \in Tracker(tree), NEW f, NEW root \in BOOLEAN,
           MatchingNode(t, tree, f, root) # 0
    PROVE  Finds(t, tree, f, root, MatchingNode(t, tree, f, root))
<1> DEFINE last == last_authorized_invocation(t)
           subs == {k \in Node(tree) : /\ tree.parent[k] = last /\ tree.fn[k] = f
                                       /\ k \notin t.exhausted}
           n == MatchingNode(t, tree, f, root)
<1>1. /\ subs # {} /\ n = Min(subs) /\ ~ current_frame_is_already_matched(t)
      /\ ~ (last = 0 /\ ~ root)
  BY DEF MatchingNode
<1>2. subs \in SUBSET Nat
  BY DEF Node
<1>3. n \in subs
  BY <1>1, <1>2, MinIn
<1>4. LastIs(t.match, Len(t.match), last)
  BY LastOf, TrackerMatch
<1>5. Len(t.match) > 0 => t.match[Len(t.match)] = 0
  BY <1>1 DEF current_frame_is_already_matched
<1>6. tree.parent[n] = last /\ n \in Node(tree) /\ n \notin t.exhausted /\ tree.fn[n] = f
  BY <1>3
<1> HIDE DEF last, subs, n
<1>7. tree.parent[n] = 0 => root = TRUE
  BY <1>1, <1>6
<1>8. Finds(t, tree, f, root, n)
  BY <1>4, <1>5, <1>6, <1>7 DEF Finds
<1> QED
  BY <1>8 DEF n

\* The match is written to the frame on top.
LEMMA ExtendMatch ==
    ASSUME NEW tree, NEW t \in Tracker(tree), NEW n, NEW u, u = extend_match(t, n),
           Len(t.match) > 0
    PROVE  /\ Len(u.match) = Len(t.match) /\ u.match[Len(t.match)] = n
           /\ \A i \in 1 .. Len(t.match) : i # Len(t.match) => u.match[i] = t.match[i]
           /\ u.exhausted = t.exhausted \union {n} /\ u.done = t.done
           /\ u.root_frame = IF n = 1 THEN Len(t.match) ELSE t.root_frame
<1> DEFINE m == t.match
           k == [m EXCEPT ![Len(m)] = n]
<1>1. m \in Seq(Node(tree) \union {0}) /\ Len(m) \in Nat
  BY TrackerMatch
<1>2. u.match = k /\ u.exhausted = t.exhausted \union {n} /\ u.done = t.done
      /\ u.root_frame = IF n = 1 THEN Len(t.match) ELSE t.root_frame
  BY DEF extend_match, Tracker
<1>3. Len(k) = Len(m) /\ \A i \in 1 .. Len(m) : k[i] = IF i = Len(m) THEN n ELSE m[i]
  <2>1. m \in Seq(Node(tree) \union {0, n})
    BY <1>1
  <2>2. k \in Seq(Node(tree) \union {0, n})
    BY <2>1, SeqChanged
  <2>3. DOMAIN m = 1 .. Len(m) /\ DOMAIN k = DOMAIN m /\ DOMAIN k = 1 .. Len(k) /\ Len(k) \in Nat
    BY <1>1, <2>2
  <2>4. Len(k) = Len(m)
    <3> HIDE DEF k, m
    <3> QED
      BY <1>1, <2>3
  <2> QED
    BY <1>1, <2>3, <2>4
<1> QED
  BY <1>1, <1>2, <1>3

\* What the tracker of an entry, or of an invoker, becomes.
LEMMA PathExtend ==
    ASSUME NEW tree, NEW t \in Tracker(tree), NEW n, NEW u, u = extend_match(t, n),
           Len(t.match) > 0, t.match[Len(t.match)] = 0,
           LastIs(t.match, Len(t.match), tree.parent[n]),
           NEW cs, NEW base, CallAt(cs[base + Len(t.match)], tree.fn[n]),
           Path(cs, t.match, tree, base)
    PROVE  Path(cs, u.match, tree, base)
<1> DEFINE m == t.match
           k == u.match
<1>1. /\ Len(k) = Len(m) /\ k[Len(m)] = n /\ Len(m) \in Nat
      /\ \A i \in 1 .. Len(m) : i # Len(m) => k[i] = m[i]
  BY ExtendMatch, TrackerMatch
<1>2. LastIs(m, Len(m) - 1, tree.parent[n])
  BY <1>1, LastDrop
<1> HIDE DEF m, k
<1>3. Len(m) > 0 /\ CallAt(cs[base + Len(m)], tree.fn[n]) /\ Path(cs, m, tree, base)
  BY DEF m
<1> SUFFICES ASSUME NEW i \in 1 .. Len(k), k[i] # 0
             PROVE  /\ CallAt(cs[base + i], tree.fn[k[i]])
                    /\ LastIs(k, i - 1, tree.parent[k[i]])
  BY DEF Path, k
<1>4. \A j \in 1 .. i - 1 : k[j] = m[j]
  BY <1>1
<1>5. CASE i = Len(m)
  <2>1. LastIs(k, i - 1, tree.parent[n])
    BY <1>2, <1>4, <1>5, LastSame
  <2> QED
    BY <1>1, <1>3, <1>5, <2>1
<1>6. CASE i # Len(m)
  <2>1. i \in 1 .. Len(m) /\ k[i] = m[i]
    BY <1>1, <1>6
  <2>2. CallAt(cs[base + i], tree.fn[m[i]]) /\ LastIs(m, i - 1, tree.parent[m[i]])
    BY <1>3, <2>1 DEF Path
  <2>3. LastIs(k, i - 1, tree.parent[m[i]])
    BY <1>4, <2>2, LastSame
  <2> QED
    BY <2>1, <2>2, <2>3
<1> QED
  BY <1>5, <1>6

\* A tracker that matches its root becomes active.
LEMMA RootedExtend ==
    ASSUME NEW tree, NEW t \in Tracker(tree), NEW n, NEW u, u = extend_match(t, n),
           Len(t.match) > 0, n \notin t.exhausted, Rooted(t)
    PROVE  Rooted(u)
<1>1. /\ Len(u.match) = Len(t.match) /\ u.match[Len(t.match)] = n /\ Len(t.match) \in Nat
      /\ \A i \in 1 .. Len(t.match) : i # Len(t.match) => u.match[i] = t.match[i]
      /\ u.exhausted = t.exhausted \union {n} /\ u.done = t.done
      /\ u.root_frame = IF n = 1 THEN Len(t.match) ELSE t.root_frame
  BY ExtendMatch, TrackerMatch
<1>2. ASSUME NEW i \in 1 .. Len(u.match), u.match[i] = 1
      PROVE  1 \in u.exhausted /\ u.root_frame = i /\ u.done = FALSE
  <2>1. CASE i = Len(t.match)
    BY <1>1, <1>2, <2>1 DEF Rooted
  <2>2. CASE i # Len(t.match)
    <3>1. i \in 1 .. Len(t.match) /\ t.match[i] = 1
      BY <1>1, <1>2, <2>2
    <3>2. 1 \in t.exhausted /\ t.root_frame = i /\ t.done = FALSE
      BY <3>1 DEF Rooted
    <3> QED
      BY <1>1, <3>2
  <2> QED
    BY <2>1, <2>2
<1>3. 1 \notin u.exhausted => u.root_frame = 0 /\ u.done = FALSE
  BY <1>1 DEF Rooted
<1> QED
  BY <1>2, <1>3 DEF Rooted

\* Free entry e spends node n at the top of the call stack.  If that is the root,
\* the other entries of the address are not active there.
LEMMA StacksExtend ==
    ASSUME NEW c, IsSeq(c), NEW cs, Calls(c, cs), NEW acct, Accounts(acct), Stacks(c, cs, acct),
           Len(cs) > 0, NEW e \in Entry, e \notin Held(c), NEW n, n # 0, NEW t,
           t = acct[e].tracker, n \notin t.exhausted, t.match[Len(t.match)] = 0,
           LastIs(t.match, Len(t.match), Entries[e].tree.parent[n]),
           CallAt(cs[Len(cs)], Entries[e].tree.fn[n]),
           n = 1 => \A x \in Entry \ Held(c) : Entries[x].addr = Entries[e].addr =>
                       ~ is_active(acct[x].tracker)
                       \/ current_frame_is_already_matched(acct[x].tracker),
           NEW b, b[e].tracker = extend_match(t, n),
           \A x \in Entry : x # e => b[x].tracker = acct[x].tracker
    PROVE  Stacks(c, cs, b)
<1> DEFINE u == b[e].tracker
           m == t.match
           k == u.match
<1>1. /\ t \in Tracker(Entries[e].tree) /\ Len(m) \in Nat /\ Len(m) = Len(cs) /\ Rooted(t)
      /\ Len(m) > 0
  BY StacksFacts
<1>2. /\ Len(k) = Len(m) /\ k[Len(m)] = n
      /\ \A i \in 1 .. Len(m) : i # Len(m) => k[i] = m[i]
  BY <1>1, ExtendMatch
<1>3. Rooted(u)
  BY <1>1, RootedExtend
<1>4. Path(cs, k, Entries[e].tree, 0)
  <2>1. Path(cs, m, Entries[e].tree, 0)
    BY DEF Stacks, EntryOK
  <2>2. 0 + Len(m) = Len(cs)
    BY <1>1
  <2> QED
    BY <1>1, <2>1, <2>2, PathExtend
<1> HIDE DEF u, m, k
<1>5. ASSUME NEW x \in Entry PROVE EntryOK(c, cs, x, b[x].tracker)
  <2>1. CASE x = e
    <3>1. \A p \in 1 .. Len(c) : c[p].auth # e
      BY Holder
    <3> QED
      BY <1>1, <1>2, <1>3, <1>4, <2>1, <3>1 DEF EntryOK, u, k
  <2>2. CASE x # e
    BY <2>2 DEF Stacks
  <2> QED
    BY <2>1, <2>2
<1>6. ASSUME NEW x \in Entry, NEW y \in Entry, x # y, Entries[x].addr = Entries[y].addr
      PROVE  Apart(b[x].tracker.match, b[y].tracker.match)
  <2>1. Apart(acct[x].tracker.match, acct[y].tracker.match)
    BY <1>6 DEF Stacks
  <2>2. CASE x # e /\ y # e
    BY <2>1, <2>2
  <2>3. CASE x = e
    <3> DEFINE l == acct[y].tracker.match
    <3>1. y # e /\ b[y].tracker = acct[y].tracker
      BY <1>6, <2>3
    <3>2. Apart(m, l)
      BY <2>1, <2>3 DEF m
    <3> HIDE DEF l
    <3>3. Apart(k, l)
      <4> SUFFICES ASSUME NEW i \in 1 .. Len(k), NEW j \in 1 .. Len(l), i < j, j <= Len(k),
                          k[i] = 1, l[j] = 1
                   PROVE  k[j] # 0
        BY DEF Apart
      <4>1. i \in 1 .. Len(m) /\ i # Len(m) /\ m[i] = 1
        BY <1>1, <1>2
      <4>2. m[j] # 0 /\ j \in 1 .. Len(m)
        BY <1>2, <3>2, <4>1 DEF Apart
      <4> QED
        BY <1>2, <4>2
    <3> QED
      BY <2>3, <3>1, <3>3 DEF k, l, u
  <2>4. CASE y = e
    <3> DEFINE s == acct[x].tracker
               l == s.match
    <3>1. x # e /\ b[x].tracker = acct[x].tracker
      BY <1>6, <2>4
    <3>2. /\ Apart(l, m) /\ Len(l) \in Nat /\ Rooted(s)
          /\ x \in Held(c) => Len(l) < Len(cs)
          /\ x \notin Held(c) => Len(l) = Len(cs)
      BY <2>1, <2>4, StacksFacts DEF m
    <3>3. n = 1 /\ x \notin Held(c) => ~ is_active(s) \/ current_frame_is_already_matched(s)
      BY <1>6, <2>4
    <3>4. Apart(l, k)
      <4> SUFFICES ASSUME NEW i \in 1 .. Len(l), NEW j \in 1 .. Len(k), i < j, j <= Len(l),
                          l[i] = 1, k[j] = 1
                   PROVE  l[j] # 0
        BY DEF Apart
      <4>1. CASE j = Len(m)
        <5>1. n = 1 /\ x \notin Held(c) /\ Len(l) = j
          BY <1>1, <1>2, <3>2, <4>1
        <5>2. is_active(s)
          BY <3>2 DEF Rooted, is_active
        <5> QED
          BY <3>3, <5>1, <5>2 DEF current_frame_is_already_matched
      <4>2. CASE j # Len(m)
        <5>1. j \in 1 .. Len(m) /\ m[j] = 1
          BY <1>2, <4>2
        <5> QED
          BY <3>2, <5>1 DEF Apart
      <4> QED
        BY <4>1, <4>2
    <3> QED
      BY <2>4, <3>1, <3>4 DEF k, u
  <2> QED
    BY <2>2, <2>3, <2>4
<1>7. ASSUME NEW p \in 1 .. Len(c), NEW x \in Entry PROVE KeepsRoot(c[p], x, b[x].tracker)
  <2>1. KeepsRoot(c[p], x, acct[x].tracker)
    BY DEF Stacks
  <2>2. CASE x = e
    <3>1. c[p].height \in Nat /\ c[p].height <= Len(m)
      BY <1>1, CallsFacts
    <3>2. \A i \in 1 .. Len(k) : i < c[p].height => i \in 1 .. Len(m) /\ k[i] = m[i]
      BY <1>1, <1>2, <3>1
    <3> QED
      BY <2>1, <2>2, <3>2 DEF KeepsRoot, k, m, u
  <2>3. CASE x # e
    BY <2>1, <2>3
  <2> QED
    BY <2>2, <2>3
<1> QED
  BY <1>5, <1>6, <1>7 DEF Stacks

-----------------------------------------------------------------------------
(***************************************************************************)
(* A frame is rolled back and popped.                                      *)
(***************************************************************************)
LEMMA RollbackPop ==
    ASSUME NEW tree, NEW t \in Tracker(tree), NEW x \in SUBSET Node(tree),
           NEW u, u = pop_frame(rollback_tracker(t, x))
    PROVE  /\ Trim(t.match, u.match)
           /\ Len(u.match) = IF Len(t.match) > 0 THEN Len(t.match) - 1 ELSE 0
           /\ Rooted(t) /\ (\A i \in 1 .. Len(t.match) :
                               i < Len(t.match) /\ t.match[i] = 1 => 1 \in x) => Rooted(u)
<1> DEFINE r == rollback_tracker(t, x)
<1>1. r \in Tracker(tree) /\ r.exhausted = x
  BY RollbackTracker
<1>2. /\ r.match = t.match
      /\ r.root_frame = IF 1 \in x THEN t.root_frame ELSE 0
      /\ r.done = IF 1 \in x THEN t.done ELSE FALSE
  BY DEF rollback_tracker, Tracker
<1> HIDE DEF r
<1>3. /\ Trim(r.match, u.match)
      /\ Len(u.match) = IF Len(r.match) > 0 THEN Len(r.match) - 1 ELSE 0
      /\ u.exhausted = r.exhausted /\ u.root_frame = r.root_frame
      /\ r.done = FALSE /\ r.root_frame <= Len(u.match) => u.done = FALSE
      /\ r.done = FALSE /\ r.root_frame = 0 => u.done = FALSE
  <2>1. u = pop_frame(r)
    BY DEF r
  <2> QED
    BY <1>1, <2>1, PopMatch
<1>4. ASSUME Rooted(t),
             \A i \in 1 .. Len(t.match) : i < Len(t.match) /\ t.match[i] = 1 => 1 \in x
      PROVE  Rooted(u)
  <2>1. ASSUME NEW i \in 1 .. Len(u.match), u.match[i] = 1
        PROVE  1 \in u.exhausted /\ u.root_frame = i /\ u.done = FALSE
    <3>1. i \in 1 .. Len(t.match) /\ i < Len(t.match) /\ t.match[i] = 1
      BY <1>2, <1>3, <2>1 DEF Trim
    <3>2. 1 \in x /\ t.root_frame = i /\ t.done = FALSE
      BY <1>4, <3>1 DEF Rooted
    <3>3. r.done = FALSE /\ r.root_frame = i
      BY <1>2, <3>2
    <3>4. i <= Len(u.match)
      BY <1>3 DEF Trim
    <3> QED
      BY <1>1, <1>3, <3>2, <3>3, <3>4
  <2>2. ASSUME 1 \notin u.exhausted PROVE u.root_frame = 0 /\ u.done = FALSE
    BY <1>1, <1>2, <1>3, <2>2
  <2> QED
    BY <2>1, <2>2 DEF Rooted
<1> QED
  BY <1>2, <1>3, <1>4

-----------------------------------------------------------------------------
(***************************************************************************)
(* The invoker trackers.                                                   *)
(***************************************************************************)
\* w speaks for the same contract and tree as v.
SameInvoker(v, w) == w.addr = v.addr /\ w.tree = v.tree

Deeper(inv) == \A i, j \in 1 .. Len(inv) : i < j => Depth(inv, j) <= Depth(inv, i)

\* push_frame and pop_frame of one invoker tracker.
LEMMA InvokerFacts ==
    ASSUME NEW v, IsInvoker(v)
    PROVE  /\ v.tracker \in Tracker(v.tree) /\ Len(v.tracker.match) \in Nat
           /\ v.tracker.match \in Seq(Node(v.tree) \union {0})
           /\ v.tracker.exhausted \in SUBSET Node(v.tree)
           /\ IsInvoker([v EXCEPT !.tracker = push_frame(@)])
           /\ SameInvoker(v, [v EXCEPT !.tracker = push_frame(@)])
           /\ [v EXCEPT !.tracker = push_frame(@)].tracker = push_frame(v.tracker)
           /\ IsInvoker([v EXCEPT !.tracker = pop_frame(@)])
           /\ SameInvoker(v, [v EXCEPT !.tracker = pop_frame(@)])
           /\ [v EXCEPT !.tracker = pop_frame(@)].tracker = pop_frame(v.tracker)
<1>1. v.tracker \in Tracker(v.tree)
  BY DEF IsInvoker
<1>2. /\ Len(v.tracker.match) \in Nat /\ v.tracker.match \in Seq(Node(v.tree) \union {0})
      /\ v.tracker.exhausted \in SUBSET Node(v.tree)
  BY <1>1, TrackerMatch
<1>3. push_frame(v.tracker) \in Tracker(v.tree) /\ pop_frame(v.tracker) \in Tracker(v.tree)
  BY <1>1, PushTracker, PopTracker
<1>4. ASSUME NEW t, t \in Tracker(v.tree)
      PROVE  /\ IsInvoker([v EXCEPT !.tracker = t]) /\ SameInvoker(v, [v EXCEPT !.tracker = t])
             /\ [v EXCEPT !.tracker = t].tracker = t
  BY <1>4 DEF IsInvoker, SameInvoker
<1> QED
  BY <1>1, <1>2, <1>3, <1>4

\* A function on 1 .. n is a sequence.
IsList(w, n) == w = [i \in 1 .. n |-> w[i]]

LEMMA SeqOf ==
    ASSUME NEW n \in Nat, NEW w, IsList(w, n)
    PROVE  IsSeq(w) /\ Len(w) = n
<1> USE DEF IsList
<1> DEFINE S == {w[i] : i \in 1 .. n}
<1>1. DOMAIN w = 1 .. n /\ \A i \in 1 .. n : w[i] \in S
  OBVIOUS
<1>2. w \in [1 .. n -> S]
  BY <1>1
<1>3. w \in Seq(S)
  BY <1>2
<1>4. Len(w) = n
  BY <1>1, <1>3
<1> QED
  BY <1>3, <1>4 DEF IsSeq

\* A function on 1 .. n to invoker trackers is a list of them.
LEMMA InvokersSeq ==
    ASSUME NEW n \in Nat, NEW w, IsList(w, n), \A i \in 1 .. n : IsInvoker(w[i])
    PROVE  IsSeq(w) /\ Len(w) = n /\ InvokersOK(w)
<1>1. IsSeq(w) /\ Len(w) = n
  BY SeqOf
<1> QED
  BY <1>1 DEF InvokersOK

\* pop_frame drops exactly the trackers without a frame left.
LEMMA PoppedInvokersFacts ==
    ASSUME NEW inv, InvokersOK(inv), Deeper(inv), NEW w, w = PoppedInvokers(inv)
    PROVE  /\ InvokersOK(w) /\ Len(w) \in Nat /\ Len(w) <= Len(inv)
           /\ \A i \in 1 .. Len(inv) : i <= Len(w) <=> Depth(inv, i) > 1
           /\ \A i \in 1 .. Len(w) : w[i] = [inv[i] EXCEPT !.tracker = pop_frame(@)]
<1> DEFINE n == Len(inv)
           popped == [i \in 1 .. n |-> [inv[i] EXCEPT !.tracker = pop_frame(@)]]
           inScope == {i \in 1 .. n : popped[i].tracker.match # << >>}
           k == IF inScope = {} THEN 0 ELSE Max(inScope)
<1>1. w = SubSeq(popped, 1, k)
  BY DEF PoppedInvokers
<1>2. n \in Nat /\ \A i \in 1 .. n : IsInvoker(inv[i])
  BY LenNat DEF InvokersOK
<1>3. \A i \in 1 .. n : /\ IsInvoker(popped[i])
                        /\ popped[i].tracker = pop_frame(inv[i].tracker)
                        /\ Depth(inv, i) \in Nat
  BY <1>2, InvokerFacts DEF Depth
<1>4. \A i \in 1 .. n : i \in inScope <=> Depth(inv, i) > 1
  <2> SUFFICES ASSUME NEW i \in 1 .. n
               PROVE  popped[i].tracker.match # << >> <=> Depth(inv, i) > 1
    OBVIOUS
  <2>1. Len(popped[i].tracker.match) = IF Depth(inv, i) > 0 THEN Depth(inv, i) - 1 ELSE 0
    BY <1>2, <1>3, InvokerFacts, PopMatch DEF Depth
  <2>2. popped[i].tracker.match \in Seq(Node(popped[i].tree) \union {0})
    BY <1>3, InvokerFacts
  <2>3. popped[i].tracker.match # << >> <=> Len(popped[i].tracker.match) # 0
    <3> DEFINE m == popped[i].tracker.match
    <3> HIDE DEF m
    <3>1. \E S : m \in Seq(S)
      BY <2>2 DEF m
    <3>2. m # << >> <=> Len(m) # 0
      BY <3>1
    <3> QED
      BY <3>2 DEF m
  <2> QED
    BY <1>3, <2>1, <2>3
<1>5. popped \in Seq({popped[i] : i \in 1 .. n}) /\ Len(popped) = n
  <2>1. popped \in [1 .. n -> {popped[i] : i \in 1 .. n}]
    OBVIOUS
  <2> HIDE DEF popped
  <2>2. popped \in Seq({popped[i] : i \in 1 .. n})
    BY <1>2, <2>1
  <2> QED
    BY <1>2, <2>1, <2>2
<1>6. k \in Nat /\ k <= n /\ \A i \in 1 .. n : i <= k <=> Depth(inv, i) > 1
  <2>1. inScope \in SUBSET (1 .. n)
    OBVIOUS
  <2> HIDE DEF inScope, n
  <2>2. CASE inScope = {}
    BY <1>2, <1>4, <2>2
  <2>3. CASE inScope # {}
    <3>1. k = Max(inScope) /\ k \in inScope /\ \A y \in inScope : y <= k
      BY <1>2, <2>1, <2>3, MaxIn
    <3>2. k \in 1 .. n /\ Depth(inv, k) > 1
      BY <1>4, <2>1, <3>1
    <3>3. ASSUME NEW i \in 1 .. n, i <= k PROVE Depth(inv, i) > 1
      <4>1. i = k \/ i < k
        BY <3>2, <3>3
      <4>2. i < k => Depth(inv, k) <= Depth(inv, i)
        BY <3>2 DEF Deeper, n
      <4>3. Depth(inv, i) \in Nat /\ Depth(inv, k) \in Nat
        BY <1>3, <3>2
      <4> HIDE DEF k, popped
      <4> QED
        BY <3>2, <4>1, <4>2, <4>3
    <3>4. ASSUME NEW i \in 1 .. n, Depth(inv, i) > 1 PROVE i <= k
      BY <1>4, <3>1, <3>4
    <3> HIDE DEF k
    <3> QED
      BY <1>2, <3>2, <3>3, <3>4
  <2> QED
    BY <2>2, <2>3
<1> HIDE DEF k, inScope
<1>7. Len(w) = k /\ w = [i \in 1 .. k |-> w[i]] /\ \A i \in 1 .. k : w[i] = popped[i]
  <2> HIDE DEF popped, n
  <2>1. CASE k = 0
    <3>1. w = << >>
      BY <1>1, <1>5, <2>1
    <3> QED
      BY <2>1, <3>1
  <2>2. CASE k > 0
    <3>1. w = [i \in 1 .. k |-> popped[i]]
      BY <1>1, <1>5, <1>6, <2>2
    <3>2. Len(w) = k
      BY <1>1, <1>5, <1>6, <2>2
    <3> QED
      BY <3>1, <3>2
  <2> QED
    BY <1>6, <2>1, <2>2
<1>8. \A i \in 1 .. k : IsInvoker(w[i])
  <2>1. \A i \in 1 .. k : i \in 1 .. n
    BY <1>2, <1>6
  <2> HIDE DEF popped, n
  <2> QED
    BY <1>3, <1>7, <2>1
<1>9. InvokersOK(w)
  <2>1. IsList(w, k)
    BY <1>7 DEF IsList
  <2> QED
    BY <1>6, <1>8, <2>1, InvokersSeq
<1>10. \A i \in 1 .. k : popped[i] = [inv[i] EXCEPT !.tracker = pop_frame(@)]
  BY <1>2, <1>6
<1> HIDE DEF popped
<1> QED
  BY <1>2, <1>6, <1>7, <1>9, <1>10

\* The trackers w are those of inv, in the same places.
Paired(inv, w) == \A i \in 1 .. Len(w) : i \in 1 .. Len(inv) /\ SameInvoker(inv[i], w[i])

\* The frame that an invoker tracker speaks for is on the call stack.
LEMMA SpeaksForFacts ==
    ASSUME NEW cs, Len(cs) \in Nat, NEW v, IsInvoker(v), SpeaksFor(cs, v)
    PROVE  /\ Len(v.tracker.match) \in Nat /\ Len(v.tracker.match) < Len(cs)
           /\ Len(cs) - Len(v.tracker.match) \in 1 .. Len(cs)
<1>1. Len(v.tracker.match) \in Nat /\ Len(v.tracker.match) < Len(cs)
  BY InvokerFacts DEF SpeaksFor
<1> QED
  BY <1>1

\* Frames were pushed or popped above the frame that v speaks for.
LEMMA SpeaksForTrim ==
    ASSUME NEW cs, Len(cs) \in Nat, NEW v, IsInvoker(v), SpeaksFor(cs, v), NEW ds, NEW w,
           SameInvoker(v, w), Trim(v.tracker.match, w.tracker.match),
           Len(ds) \in Nat, Len(ds) - Len(w.tracker.match) = Len(cs) - Len(v.tracker.match),
           \A i \in 1 .. Len(cs) : i <= Len(ds) => SameCall(ds[i], cs[i]),
           \A i \in 1 .. Len(cs) : i <= Len(ds) /\ cs[i].kind = "contract" => ds[i] = cs[i]
    PROVE  SpeaksFor(ds, w)
<1> DEFINE m == v.tracker.match
           n == w.tracker.match
           base == Len(cs) - Len(m)
<1>1. Len(m) \in Nat /\ Len(m) < Len(cs) /\ base \in 1 .. Len(cs) /\ Len(n) \in Nat
  BY SpeaksForFacts DEF Trim
<1>2. Len(ds) - Len(n) = base /\ Len(n) < Len(ds) /\ base <= Len(ds)
  <2>1. Len(ds) - Len(n) = base /\ Len(ds) \in Nat
    OBVIOUS
  <2> HIDE DEF m, n, base
  <2> QED
    BY <1>1, <2>1
<1>3. cs[base] = ContractFrame(v.addr) /\ Path(cs, m, v.tree, base)
  BY DEF SpeaksFor
<1>4. Trim(m, n)
  OBVIOUS
<1>5. \A i \in 1 .. Len(n) : i <= Len(m) => base + i \in 1 .. Len(cs) /\ base + i <= Len(ds)
  BY <1>1, <1>2
<1> HIDE DEF m, n, base
<1>6. ds[base] = ContractFrame(v.addr)
  <2>1. cs[base].kind = "contract"
    BY <1>3 DEF ContractFrame
  <2> QED
    BY <1>1, <1>2, <1>3, <2>1
<1>7. \A i \in 1 .. Len(n) : i <= Len(m) =>
         \A f : CallAt(ds[base + i], f) = CallAt(cs[base + i], f)
  BY <1>5 DEF SameCall
<1>8. Path(ds, n, v.tree, base)
  BY <1>3, <1>4, <1>7, PathTrim
<1> QED
  BY <1>2, <1>6, <1>8 DEF SpeaksFor, SameInvoker, n

\* A frame is pushed: a creation, or a context f with its snapshot.
Snaps(c, cs, inv, d, f) ==
    \/ d = c
    \/ /\ d = Append(c, f) /\ f.height = Len(cs) + 1
       /\ f.snapshot.invoker = [i \in 1 .. Len(inv) |-> inv[i].tracker.exhausted]

LEMMA SpeakersPush ==
    ASSUME NEW c, IsSeq(c), NEW cs, Calls(c, cs), NEW inv, InvokersOK(inv), Speakers(c, cs, inv),
           NEW g, NEW ds, ds = Append(cs, g),
           NEW w, Len(w) = Len(inv), Paired(inv, w),
           \A i \in 1 .. Len(inv) : w[i].tracker = push_frame(inv[i].tracker),
           NEW d, NEW f, Snaps(c, cs, inv, d, f)
    PROVE  Speakers(d, ds, w)
<1> USE DEF Snaps
<1>1. IsSeq(cs) /\ Len(cs) \in Nat /\ Len(c) \in Nat
      /\ \A i \in 1 .. Len(c) : c[i].height \in Nat
  BY CallsFacts
<1>2. Len(ds) = Len(cs) + 1 /\ \A i \in 1 .. Len(cs) : ds[i] = cs[i]
  BY <1>1, SeqPush
<1>3. Len(inv) \in Nat /\ \A i \in 1 .. Len(inv) : IsInvoker(inv[i]) /\ SpeaksFor(cs, inv[i])
  BY LenNat DEF InvokersOK, Speakers
<1>4. ASSUME NEW i \in 1 .. Len(inv)
      PROVE  /\ Trim(inv[i].tracker.match, w[i].tracker.match) /\ SameInvoker(inv[i], w[i])
             /\ Depth(inv, i) \in Nat /\ Depth(w, i) = Depth(inv, i) + 1
             /\ inv[i].tracker.exhausted \in SUBSET Node(inv[i].tree)
  BY <1>3, InvokerFacts, PushMatch DEF Depth, Paired
<1>5. ASSUME NEW i \in 1 .. Len(w) PROVE SpeaksFor(ds, w[i])
  <2>1. i \in 1 .. Len(inv) /\ IsInvoker(inv[i]) /\ SpeaksFor(cs, inv[i])
    BY <1>3
  <2>2. /\ Trim(inv[i].tracker.match, w[i].tracker.match) /\ SameInvoker(inv[i], w[i])
        /\ Len(inv[i].tracker.match) \in Nat
        /\ Len(w[i].tracker.match) = Len(inv[i].tracker.match) + 1
    BY <1>4, <2>1 DEF Depth
  <2>3. Len(ds) \in Nat /\ Len(ds) - Len(w[i].tracker.match) = Len(cs) - Len(inv[i].tracker.match)
    BY <1>1, <1>2, <2>2
  <2>4. \A j \in 1 .. Len(cs) : SameCall(ds[j], cs[j])
    BY <1>2 DEF SameCall
  <2> QED
    BY <1>1, <1>2, <2>1, <2>2, <2>3, <2>4, SpeaksForTrim
<1>6. ASSUME NEW i \in 1 .. Len(w), NEW j \in 1 .. Len(w), i < j
      PROVE  Depth(w, j) <= Depth(w, i)
  <2>1. Depth(inv, j) <= Depth(inv, i)
    BY <1>6 DEF Speakers
  <2> QED
    BY <1>4, <2>1
<1>7. /\ \A p \in 1 .. Len(c) : d[p] = c[p]
      /\ \A p \in 1 .. Len(d) : p \in 1 .. Len(c) \/ (d[p] = f /\ d # c)
  <2>1. CASE d = c
    BY <2>1
  <2>2. CASE d # c
    <3>1. /\ Len(d) = Len(c) + 1 /\ d[Len(c) + 1] = f
          /\ \A p \in 1 .. Len(c) : d[p] = c[p]
      BY <2>2, SeqPush
    <3> QED
      BY <1>1, <2>2, <3>1
  <2> QED
    BY <2>1, <2>2
<1>8. ASSUME NEW p \in 1 .. Len(d) PROVE Covers(d[p], ds, w)
  <2>1. CASE p \in 1 .. Len(c)
    <3> DEFINE s == c[p].snapshot.invoker
    <3>1. Covers(c[p], cs, inv) /\ d[p] = c[p] /\ c[p].height \in Nat
      BY <1>1, <1>7, <2>1 DEF Speakers
    <3>2. IsSeq(s) /\ Len(s) \in Nat /\ Len(s) <= Len(inv)
      BY <3>1, LenNat DEF Covers
    <3>3. ASSUME NEW i \in 1 .. Len(s)
          PROVE  s[i] \in SUBSET Node(w[i].tree) /\ Depth(w, i) + c[p].height > Len(ds)
      <4>1. i \in 1 .. Len(inv)
        BY <1>3, <3>2
      <4>2. s[i] \in SUBSET Node(inv[i].tree) /\ Depth(inv, i) + c[p].height > Len(cs)
        BY <3>1 DEF Covers
      <4>3. Depth(inv, i) \in Nat /\ Depth(w, i) = Depth(inv, i) + 1 /\ w[i].tree = inv[i].tree
        BY <1>4, <4>1 DEF SameInvoker
      <4>4. Depth(w, i) + c[p].height > Len(ds)
        <5> HIDE DEF s
        <5>1. (Depth(inv, i) + 1) + c[p].height > Len(cs) + 1
          BY <1>1, <3>1, <4>2, <4>3, DepthSum
        <5> QED
          BY <1>2, <4>3, <5>1
      <4> QED
        BY <4>2, <4>3, <4>4
    <3> QED
      BY <3>1, <3>2, <3>3 DEF Covers
  <2>2. CASE d[p] = f /\ d # c
    <3> DEFINE s == f.snapshot.invoker
    <3>1. s = [i \in 1 .. Len(inv) |-> inv[i].tracker.exhausted] /\ f.height = Len(cs) + 1
      BY <2>2
    <3> HIDE DEF s
    <3>2. IsSeq(s) /\ Len(s) = Len(inv)
      <4>1. IsList(s, Len(inv))
        BY <3>1 DEF IsList
      <4> QED
        BY <1>3, <4>1, SeqOf
    <3>3. ASSUME NEW i \in 1 .. Len(s)
          PROVE  s[i] \in SUBSET Node(w[i].tree) /\ Depth(w, i) + f.height > Len(ds)
      <4>1. i \in 1 .. Len(inv) /\ s[i] = inv[i].tracker.exhausted
        BY <3>1, <3>2
      <4>2. /\ inv[i].tracker.exhausted \in SUBSET Node(inv[i].tree)
            /\ Depth(inv, i) \in Nat /\ Depth(w, i) = Depth(inv, i) + 1 /\ w[i].tree = inv[i].tree
        BY <1>4, <4>1 DEF SameInvoker
      <4> QED
        BY <1>1, <1>2, <3>1, <4>1, <4>2
    <3> QED
      BY <1>3, <2>2, <3>2, <3>3 DEF Covers, s
  <2> QED
    BY <1>7, <2>1, <2>2
<1> QED
  BY <1>5, <1>6, <1>8 DEF Speakers

\* A frame is popped, and the trackers of the frame below go with it.
LEMMA SpeakersPop ==
    ASSUME NEW c, IsSeq(c), NEW cs, Calls(c, cs), NEW inv, InvokersOK(inv), Speakers(c, cs, inv),
           Len(cs) > 0, NEW ds, ds = Below(cs),
           NEW w, Len(w) \in Nat, Paired(inv, w),
           \A i \in 1 .. Len(inv) : i <= Len(w) <=> Depth(inv, i) > 1,
           \A i \in 1 .. Len(w) : /\ Trim(inv[i].tracker.match, w[i].tracker.match)
                                  /\ Depth(w, i) = Depth(inv, i) - 1,
           NEW d, \A p \in 1 .. Len(d) : p \in 1 .. Len(c) /\ d[p] = c[p] /\ c[p].height < Len(cs)
    PROVE  Speakers(d, ds, w)
<1>1. IsSeq(cs) /\ Len(cs) \in Nat /\ Len(c) \in Nat
      /\ \A i \in 1 .. Len(c) : c[i].height \in Nat
  BY CallsFacts
<1>2. Len(ds) = Len(cs) - 1 /\ \A i \in 1 .. Len(cs) - 1 : ds[i] = cs[i]
  BY <1>1, SeqPop
<1>3. Len(inv) \in Nat /\ \A i \in 1 .. Len(inv) : IsInvoker(inv[i]) /\ SpeaksFor(cs, inv[i])
  BY LenNat DEF InvokersOK, Speakers
<1>4. ASSUME NEW i \in 1 .. Len(inv) PROVE Depth(inv, i) \in Nat
  BY <1>3, InvokerFacts DEF Depth
<1>5. ASSUME NEW i \in 1 .. Len(w) PROVE SpeaksFor(ds, w[i])
  <2>1. /\ i \in 1 .. Len(inv) /\ IsInvoker(inv[i]) /\ SpeaksFor(cs, inv[i])
        /\ SameInvoker(inv[i], w[i])
    BY <1>3 DEF Paired
  <2>2. /\ Trim(inv[i].tracker.match, w[i].tracker.match)
        /\ Len(inv[i].tracker.match) \in Nat
        /\ Len(w[i].tracker.match) = Len(inv[i].tracker.match) - 1
    BY <1>4, <2>1 DEF Depth
  <2>3. Len(ds) \in Nat /\ Len(ds) - Len(w[i].tracker.match) = Len(cs) - Len(inv[i].tracker.match)
    BY <1>1, <1>2, <2>2
  <2>4. \A j \in 1 .. Len(cs) : j <= Len(ds) => ds[j] = cs[j]
    BY <1>1, <1>2
  <2>5. \A j \in 1 .. Len(cs) : j <= Len(ds) => SameCall(ds[j], cs[j])
    BY <2>4 DEF SameCall
  <2> QED
    BY <1>1, <2>1, <2>2, <2>3, <2>4, <2>5, SpeaksForTrim
<1>6. ASSUME NEW i \in 1 .. Len(w), NEW j \in 1 .. Len(w), i < j
      PROVE  Depth(w, j) <= Depth(w, i)
  <2>1. i \in 1 .. Len(inv) /\ j \in 1 .. Len(inv)
    BY DEF Paired
  <2>2. Depth(inv, j) <= Depth(inv, i)
    BY <1>6, <2>1 DEF Speakers
  <2> QED
    BY <1>4, <2>1, <2>2
<1>7. ASSUME NEW p \in 1 .. Len(d) PROVE Covers(d[p], ds, w)
  <2> DEFINE s == c[p].snapshot.invoker
  <2>1. Covers(c[p], cs, inv) /\ d[p] = c[p] /\ c[p].height \in Nat /\ c[p].height < Len(cs)
    BY <1>1 DEF Speakers
  <2>2. IsSeq(s) /\ Len(s) \in Nat /\ Len(s) <= Len(inv)
    BY <2>1, LenNat DEF Covers
  <2>3. ASSUME NEW i \in 1 .. Len(s)
        PROVE  /\ i <= Len(w)
               /\ s[i] \in SUBSET Node(w[i].tree) /\ Depth(w, i) + c[p].height > Len(ds)
    <3>1. i \in 1 .. Len(inv)
      BY <1>3, <2>2
    <3>2. s[i] \in SUBSET Node(inv[i].tree) /\ Depth(inv, i) + c[p].height > Len(cs)
      BY <2>1 DEF Covers
    <3>3. Depth(inv, i) > 1
      BY <1>1, <1>4, <2>1, <3>1, <3>2
    <3>4. i \in 1 .. Len(w)
      BY <3>1, <3>3
    <3>5. Depth(w, i) = Depth(inv, i) - 1 /\ w[i].tree = inv[i].tree /\ Depth(inv, i) \in Nat
      BY <1>4, <3>1, <3>4 DEF SameInvoker, Paired
    <3>6. (Depth(inv, i) - 1) + c[p].height > Len(cs) - 1
      BY <1>1, <2>1, <3>2, <3>5, DepthSum
    <3>7. Depth(w, i) + c[p].height > Len(ds)
      BY <1>2, <3>5, <3>6
    <3>8. i <= Len(w)
      BY <3>4
    <3> QED
      BY <3>2, <3>5, <3>7, <3>8
  <2>4. Len(s) <= Len(w)
    <3>1. CASE Len(s) = 0
      BY <3>1
    <3>2. CASE Len(s) > 0
      <4>1. Len(s) \in 1 .. Len(s)
        BY <2>2, <3>2
      <4> QED
        BY <2>3, <4>1
    <3> QED
      BY <2>2, <3>1, <3>2
  <2> QED
    BY <2>1, <2>2, <2>3, <2>4 DEF Covers
<1> QED
  BY <1>5, <1>6, <1>7 DEF Speakers

\* The call stack only records that a creation is authorized.
LEMMA SpeakersSame ==
    ASSUME NEW c, IsSeq(c), NEW cs, Calls(c, cs), NEW inv, InvokersOK(inv), Speakers(c, cs, inv),
           NEW ds, Len(ds) = Len(cs), \A i \in 1 .. Len(cs) : SameCall(ds[i], cs[i]),
           \A i \in 1 .. Len(cs) : cs[i].kind = "contract" => ds[i] = cs[i]
    PROVE  Speakers(c, ds, inv)
<1>1. Len(cs) \in Nat
  BY CallsFacts
<1>2. \A i \in 1 .. Len(inv) : SpeaksFor(ds, inv[i])
  <2> SUFFICES ASSUME NEW i \in 1 .. Len(inv) PROVE SpeaksFor(ds, inv[i])
    OBVIOUS
  <2>1. IsInvoker(inv[i]) /\ SpeaksFor(cs, inv[i]) /\ SameInvoker(inv[i], inv[i])
    BY DEF InvokersOK, Speakers, SameInvoker
  <2>2. Trim(inv[i].tracker.match, inv[i].tracker.match)
    BY <2>1, InvokerFacts, TrimSame
  <2> QED
    BY <1>1, <2>1, <2>2, SpeaksForTrim
<1> QED
  BY <1>2 DEF Speakers, Covers

\* A tracker authorizes the call on top of the stack.
LEMMA SpeakersExtend ==
    ASSUME NEW c, NEW cs, Len(cs) \in Nat, NEW inv, InvokersOK(inv), Speakers(c, cs, inv),
           NEW k \in 1 .. Len(inv), NEW n \in Node(inv[k].tree), NEW t, t = inv[k].tracker,
           Len(t.match) > 0, t.match[Len(t.match)] = 0,
           LastIs(t.match, Len(t.match), inv[k].tree.parent[n]),
           CallAt(cs[Len(cs)], inv[k].tree.fn[n]),
           NEW w, w = [inv EXCEPT ![k].tracker = extend_match(t, n)]
    PROVE  InvokersOK(w) /\ Speakers(c, cs, w)
<1> DEFINE v == [inv[k] EXCEPT !.tracker = extend_match(t, n)]
<1>1. IsSeq(inv) /\ Len(inv) \in Nat /\ \A i \in 1 .. Len(inv) : IsInvoker(inv[i])
  BY LenNat DEF InvokersOK
<1>2. PICK S : inv \in Seq(S)
  BY <1>1 DEF IsSeq
<1>3. DOMAIN inv = 1 .. Len(inv)
  BY <1>2
<1>4. w = [inv EXCEPT ![k] = v]
  OBVIOUS
<1>5. t \in Tracker(inv[k].tree) /\ Len(t.match) \in Nat
  BY <1>1, InvokerFacts
<1>6. extend_match(t, n) \in Tracker(inv[k].tree)
  BY <1>5, ExtendTracker
<1>7. IsInvoker(v) /\ SameInvoker(inv[k], v) /\ v.tracker = extend_match(t, n)
  <2> DEFINE u == extend_match(t, n)
  <2> HIDE DEF u
  <2>1. u \in Tracker(inv[k].tree)
    BY <1>6 DEF u
  <2>2. v = [inv[k] EXCEPT !.tracker = u]
    BY DEF u
  <2>3. IsInvoker(inv[k])
    BY <1>1
  <2>4. IsInvoker(v) /\ SameInvoker(inv[k], v) /\ v.tracker = u
    BY <2>1, <2>2, <2>3 DEF IsInvoker, SameInvoker
  <2> QED
    BY <2>4 DEF u
<1>8. Len(v.tracker.match) = Len(t.match)
  BY <1>5, <1>7, ExtendMatch
<1> HIDE DEF v
<1>9. /\ Len(w) = Len(inv) /\ w[k] = v /\ IsSeq(w)
      /\ \A i \in 1 .. Len(inv) : i # k => w[i] = inv[i]
  <2>1. IsList(w, Len(inv))
    BY <1>3, <1>4 DEF IsList
  <2>2. IsSeq(w) /\ Len(w) = Len(inv)
    BY <1>1, <2>1, SeqOf
  <2>3. w[k] = v
    BY <1>3, <1>4, Zenon
  <2>4. \A i \in 1 .. Len(inv) : i # k => w[i] = inv[i]
    BY <1>3, <1>4, Zenon
  <2> QED
    BY <2>2, <2>3, <2>4, Zenon
<1>10. InvokersOK(w)
  BY <1>1, <1>7, <1>9 DEF InvokersOK
<1>11. \A i \in 1 .. Len(inv) : Depth(w, i) = Depth(inv, i) /\ w[i].tree = inv[i].tree
  BY <1>7, <1>8, <1>9 DEF Depth, SameInvoker
<1>12. SpeaksFor(cs, v)
  <2> DEFINE base == Len(cs) - Len(t.match)
  <2>1. SpeaksFor(cs, inv[k])
    BY DEF Speakers
  <2>2. cs[base] = ContractFrame(v.addr) /\ Path(cs, t.match, inv[k].tree, base)
        /\ Len(t.match) < Len(cs)
    BY <1>7, <2>1 DEF SpeaksFor, SameInvoker
  <2>3. base + Len(t.match) = Len(cs)
    BY <1>5
  <2> HIDE DEF base
  <2>4. Path(cs, v.tracker.match, inv[k].tree, base)
    BY <1>5, <1>7, <2>2, <2>3, PathExtend
  <2> QED
    BY <1>7, <1>8, <2>2, <2>4 DEF SpeaksFor, SameInvoker, base
<1>13. \A i \in 1 .. Len(w) : SpeaksFor(cs, w[i])
  BY <1>9, <1>12 DEF Speakers
<1>14. \A i, j \in 1 .. Len(w) : i < j => Depth(w, j) <= Depth(w, i)
  <2>1. \A i, j \in 1 .. Len(inv) : i < j => Depth(inv, j) <= Depth(inv, i)
    BY DEF Speakers
  <2> SUFFICES ASSUME NEW i \in 1 .. Len(w), NEW j \in 1 .. Len(w), i < j
               PROVE  Depth(w, j) <= Depth(w, i)
    OBVIOUS
  <2>2. Depth(w, j) = Depth(inv, j) /\ Depth(w, i) = Depth(inv, i)
    BY <1>9, <1>11
  <2> QED
    BY <1>9, <2>1, <2>2
<1>15. ASSUME NEW p \in 1 .. Len(c) PROVE Covers(c[p], cs, w)
  <2>1. Covers(c[p], cs, inv)
    BY DEF Speakers
  <2>2. \A i \in 1 .. Len(c[p].snapshot.invoker) : i \in 1 .. Len(inv)
    BY <1>1, <2>1, LenNat DEF Covers
  <2> QED
    BY <1>9, <1>11, <2>1, <2>2 DEF Covers
<1> QED
  BY <1>10, <1>13, <1>14, <1>15 DEF Speakers

\* The contract on top of the stack authorizes calls.
LEMMA SpeakersAppend ==
    ASSUME NEW c, NEW cs, Len(cs) \in Nat, NEW inv, InvokersOK(inv), Speakers(c, cs, inv),
           Len(cs) > 0, NEW a \in Contract, cs[Len(cs)] = ContractFrame(a),
           NEW tree \in tx.invoker_trees,
           NEW w, w = Append(inv, [addr |-> a, tree |-> tree, tracker |-> NewTracker])
    PROVE  InvokersOK(w) /\ Speakers(c, cs, w)
<1> DEFINE v == [addr |-> a, tree |-> tree, tracker |-> NewTracker]
<1>1. IsSeq(inv) /\ Len(inv) \in Nat /\ \A i \in 1 .. Len(inv) : IsInvoker(inv[i])
  BY LenNat DEF InvokersOK
<1>2. /\ IsSeq(w) /\ Len(w) = Len(inv) + 1 /\ w[Len(inv) + 1] = v
      /\ \A i \in 1 .. Len(inv) : w[i] = inv[i]
  BY <1>1, SeqPush
<1>3. IsInvoker(v) /\ v.addr = a /\ Len(v.tracker.match) = 0
  <2>1. NewTracker \in Tracker(tree) /\ NewTracker.match = << >>
    BY DEF NewTracker, Tracker
  <2> HIDE DEF NewTracker
  <2> QED
    BY <2>1 DEF IsInvoker
<1> HIDE DEF v
<1>4. InvokersOK(w)
  BY <1>1, <1>2, <1>3 DEF InvokersOK
<1>5. SpeaksFor(cs, v)
  BY <1>3 DEF SpeaksFor, Path
<1>6. \A i \in 1 .. Len(w) : SpeaksFor(cs, w[i])
  BY <1>1, <1>2, <1>5 DEF Speakers
<1>7. ASSUME NEW i \in 1 .. Len(w), NEW j \in 1 .. Len(w), i < j
      PROVE  Depth(w, j) <= Depth(w, i)
  <2>1. i \in 1 .. Len(inv) /\ Depth(w, i) = Depth(inv, i)
    BY <1>1, <1>2, <1>7 DEF Depth
  <2>2. Depth(inv, i) \in Nat
    BY <1>1, <2>1, InvokerFacts DEF Depth
  <2>3. CASE j = Len(inv) + 1
    BY <1>2, <1>3, <2>1, <2>2, <2>3 DEF Depth
  <2>4. CASE j # Len(inv) + 1
    <3>1. j \in 1 .. Len(inv) /\ Depth(w, j) = Depth(inv, j)
      BY <1>1, <1>2, <2>4 DEF Depth
    <3> QED
      BY <1>7, <2>1, <3>1 DEF Speakers
  <2> QED
    BY <2>3, <2>4
<1>8. ASSUME NEW p \in 1 .. Len(c) PROVE Covers(c[p], cs, w)
  <2>1. Covers(c[p], cs, inv)
    BY DEF Speakers
  <2>2. Len(c[p].snapshot.invoker) \in Nat
    BY <2>1, LenNat DEF Covers
  <2>3. \A i \in 1 .. Len(c[p].snapshot.invoker) : i \in 1 .. Len(inv)
    BY <1>1, <2>1, <2>2 DEF Covers
  <2>4. \A i \in 1 .. Len(inv) : Depth(w, i) = Depth(inv, i) /\ w[i].tree = inv[i].tree
    BY <1>2 DEF Depth
  <2>5. Len(c[p].snapshot.invoker) <= Len(w)
    BY <1>1, <1>2, <2>1, <2>2 DEF Covers
  <2> QED
    BY <2>1, <2>3, <2>4, <2>5 DEF Covers
<1> QED
  BY <1>4, <1>6, <1>7, <1>8 DEF Speakers

-----------------------------------------------------------------------------
(***************************************************************************)
(* The actions.                                                            *)
(***************************************************************************)
\* The entries are those of one transaction.
LEMMA SameTxStacks ==
    ASSUME tx' = tx, StackInv(ctx', call_stack', account', invoker', status'),
           started' \in BOOLEAN
    PROVE  SInv'
<1>1. Entries' = Entries
  BY DEF Entries
<1>2. Entry' = Entry
  BY <1>1 DEF Entry
<1>3. InvokersOK(invoker)'
  BY DEF StackInv, InvokersOK, IsInvoker
<1>4. Stacks(ctx', call_stack', account') => Stacks(ctx, call_stack, account)'
  <2>1. \A e : EntryOK(ctx', call_stack', e, account'[e].tracker)
                  => EntryOK(ctx, call_stack, e, account[e].tracker)'
    BY <1>1 DEF EntryOK
  <2> QED
    BY <1>1, <1>2, <2>1 DEF Stacks
<1> QED
  BY <1>3, <1>4 DEF StackInv, SInv

\* The invariant, in the current state.
LEMMA SFacts ==
    ASSUME SInv
    PROVE  /\ StackInv(ctx, call_stack, account, invoker, status)
           /\ \A i \in 1 .. Len(ctx) : FrameType(ctx[i])
           /\ call_stack \in Seq(AuthStackFrame) /\ IsSeq(call_stack)
           /\ Len(call_stack) \in Nat /\ InvokersOK(invoker) /\ Len(invoker) \in Nat
           /\ status \in {"run", "recoverable", "unrecoverable"} =>
                 /\ Calls(ctx, call_stack) /\ Stacks(ctx, call_stack, account)
                 /\ Speakers(ctx, call_stack, invoker)
<1>1. /\ StackInv(ctx, call_stack, account, invoker, status)
      /\ \A i \in 1 .. Len(ctx) : FrameType(ctx[i])
      /\ call_stack \in Seq(AuthStackFrame) /\ InvokersOK(invoker)
      /\ status \in {"run", "recoverable", "unrecoverable"} =>
            /\ Calls(ctx, call_stack) /\ Stacks(ctx, call_stack, account)
            /\ Speakers(ctx, call_stack, invoker)
  BY DEF SInv, StackInv
<1>2. IsSeq(call_stack) /\ IsSeq(invoker)
  BY <1>1 DEF IsSeq, InvokersOK
<1> QED
  BY <1>1, <1>2, LenNat

\* The frame on top of the call stack is the context's, or a creation.
LEMMA TopFacts ==
    ASSUME BInv, SInv, Consistent, Len(ctx) > 0
    PROVE  /\ Top.height \in Nat
           /\ ~ Creating => /\ Top.height = Len(call_stack)
                            /\ Len(ctx) = 1 => Len(call_stack) = 0
                            /\ Len(ctx) > 1 => /\ Len(call_stack) > 0
                                               /\ TopCall = ContractFrame(Top.contract)
           /\ Creating => Top.height = Len(call_stack) - 1
<1> DEFINE n == Len(ctx)
           h == Top.height
           l == Len(call_stack)
<1>1. Calls(ctx, call_stack) /\ IsSeq(ctx) /\ n \in Nat /\ l \in Nat
  BY SFacts, BFacts DEF Consistent
<1>2. Top = ctx[n] /\ h \in Nat /\ n \in 1 .. n
  BY <1>1, CallsFacts DEF Top
<1>3. Follows(call_stack, h, l) /\ ctx[1].height = 0
  BY <1>1, <1>2 DEF Calls
<1>4. n > 1 => h > 0 /\ call_stack[h] = ContractFrame(Top.contract)
  <2>1. n > 1 => n \in 2 .. n
    BY <1>1
  <2> QED
    BY <1>1, <1>2, <2>1 DEF Calls
<1>5. n = 1 => h = 0
  BY <1>2, <1>3
<1> HIDE DEF n, h, l
<1>6. Len(ctx) = n /\ Len(call_stack) = l /\ Top.height = h
  BY DEF n, h, l
<1>7. CASE l = h
  <2>1. ~ Creating
    <3>1. n > 1 => call_stack[h].kind = "contract"
      BY <1>4 DEF ContractFrame
    <3> QED
      BY <1>1, <1>2, <1>5, <1>6, <1>7, <3>1 DEF Creating, TopCall
  <2> QED
    BY <1>1, <1>2, <1>4, <1>5, <1>6, <1>7, <2>1 DEF TopCall
<1>8. CASE l = h + 1 /\ call_stack[l].kind = "create"
  BY <1>2, <1>6, <1>8 DEF Creating, TopCall
<1> QED
  BY <1>3, <1>7, <1>8 DEF Follows

\* Proceed, as a function of the call stack.
Marked(stack) ==
    IF Len(stack) > 0 /\ stack[Len(stack)].kind = "create"
    THEN [stack EXCEPT ![Len(stack)].authed = TRUE] ELSE stack

\* The top of a sequence is replaced.
LEMMA SeqTopSet ==
    ASSUME NEW S, NEW s \in Seq(S), Len(s) > 0, NEW x \in S,
           NEW t, t = [s EXCEPT ![Len(s)] = x]
    PROVE  /\ s[Len(s)] \in S /\ t \in Seq(S) /\ Len(t) = Len(s)
           /\ \A i \in 1 .. Len(s) : t[i] = IF i = Len(s) THEN x ELSE s[i]
  OBVIOUS

\* Recording that a creation is authorized changes no call.
LEMMA MarkedFacts ==
    ASSUME NEW cs \in Seq(AuthStackFrame), NEW ds, ds = Marked(cs)
    PROVE  /\ ds \in Seq(AuthStackFrame) /\ Len(ds) = Len(cs) /\ Len(cs) \in Nat
           /\ \A i \in 1 .. Len(cs) :
                 /\ ds[i] = cs[i] \/ (i = Len(cs) /\ cs[i].kind = "create")
                 /\ ds[i].kind = cs[i].kind /\ SameCall(ds[i], cs[i])
<1>1. Len(cs) \in Nat /\ DOMAIN cs = 1 .. Len(cs)
  BY SeqDomain, Zenon
<1> DEFINE n == Len(cs)
           g == cs[n]
           k == [g EXCEPT !.authed = TRUE]
<1>2. CASE n > 0 /\ g.kind = "create"
  <2>1. g \in AuthStackFrame
    BY <1>1, <1>2
  <2>2. g \in [kind : {"create"}, deployer : Address, fn : CreateFn, authed : BOOLEAN]
    BY <1>2, <2>1 DEF AuthStackFrame
  <2>3. k \in AuthStackFrame /\ k.kind = g.kind /\ k.fn = g.fn
    BY <2>2 DEF AuthStackFrame
  <2>4. SameCall(k, g)
    BY <1>2, <2>3 DEF SameCall, CallAt
  <2> HIDE DEF k
  <2>5. ds = [cs EXCEPT ![n] = k]
    BY <1>2 DEF Marked, k
  <2>6. n > 0
    BY <1>2
  <2>7. /\ ds \in Seq(AuthStackFrame) /\ Len(ds) = n
        /\ \A i \in 1 .. n : ds[i] = IF i = n THEN k ELSE cs[i]
    BY <2>3, <2>5, <2>6, SeqTopSet
  <2>9. \A i \in 1 .. n : /\ ds[i] = cs[i] \/ (i = n /\ cs[i].kind = "create")
                          /\ ds[i].kind = cs[i].kind /\ SameCall(ds[i], cs[i])
    <3> SUFFICES ASSUME NEW i \in 1 .. n
                 PROVE  /\ ds[i] = cs[i] \/ (i = n /\ cs[i].kind = "create")
                        /\ ds[i].kind = cs[i].kind /\ SameCall(ds[i], cs[i])
      OBVIOUS
    <3>1. CASE i = n
      BY <1>2, <2>3, <2>4, <2>7, <3>1
    <3>2. CASE i # n
      BY <2>7, <3>2 DEF SameCall
    <3> QED
      BY <3>1, <3>2
  <2> QED
    BY <1>1, <2>7, <2>9, Zenon
<1>3. CASE ~ (n > 0 /\ g.kind = "create")
  BY <1>1, <1>3 DEF Marked, SameCall
<1> QED
  BY <1>2, <1>3

\* Heights from 1 on.
LEMMA AtLeastOne == ASSUME NEW n \in Nat, n > 1 \/ n = 1 PROVE n > 0
  OBVIOUS

\* ... and the other way round.
LEMMA OneOrMore == ASSUME NEW n \in Nat, n > 0 PROVE n = 1 \/ n > 1
  OBVIOUS

\* An authorized creation goes on, and entries are marked as verified.
LEMMA StackInvProceed ==
    ASSUME NEW c, IsSeq(c), Len(c) > 0, NEW cs, NEW acct, Accounts(acct), NEW inv,
           StackInv(c, cs, acct, inv, "run"), NEW ds, ds = Marked(cs),
           NEW b, \A e \in Entry : b[e].tracker = acct[e].tracker
    PROVE  StackInv(c, ds, b, inv, "run")
<1>1. /\ cs \in Seq(AuthStackFrame) /\ InvokersOK(inv)
      /\ Calls(c, cs) /\ Stacks(c, cs, acct) /\ Speakers(c, cs, inv)
  BY DEF StackInv
<1>2. /\ ds \in Seq(AuthStackFrame) /\ Len(ds) = Len(cs) /\ Len(cs) \in Nat
      /\ \A i \in 1 .. Len(cs) :
            /\ ds[i] = cs[i] \/ (i = Len(cs) /\ cs[i].kind = "create")
            /\ ds[i].kind = cs[i].kind /\ SameCall(ds[i], cs[i])
  BY <1>1, MarkedFacts
<1>3. Calls(c, ds)
  <2> DEFINE h == c[Len(c)].height
  <2>1. h \in Nat /\ h <= Len(cs) /\ Len(c) \in Nat
    BY <1>1, CallsFacts
  <2>2. Follows(cs, h, Len(cs))
    BY <1>1 DEF Calls
  <2>3. h > 0 => cs[h].kind = "contract"
    <3>1. Len(c) = 1 => h = 0
      BY <1>1 DEF Calls
    <3>2. Len(c) > 1 => Len(c) \in 2 .. Len(c)
      BY <2>1
    <3>3. Len(c) > 1 => cs[h] = ContractFrame(c[Len(c)].contract)
      BY <1>1, <3>2 DEF Calls
    <3>4. ContractFrame(c[Len(c)].contract).kind = "contract"
      BY DEF ContractFrame
    <3>5. Len(c) = 1 \/ Len(c) > 1
      <4>1. Len(c) \in Nat
        BY LenNat
      <4> QED
        BY <4>1, OneOrMore
    <3> HIDE DEF h
    <3>6. CASE Len(c) = 1
      BY <3>1, <3>6
    <3>7. CASE Len(c) > 1
      BY <3>3, <3>4, <3>7
    <3> QED
      BY <3>5, <3>6, <3>7
  <2> HIDE DEF h
  <2>4. Agree(cs, ds, h)
    <3> SUFFICES ASSUME NEW i \in 1 .. h PROVE ds[i] = cs[i]
      BY DEF Agree
    <3>1. i \in 1 .. Len(cs) /\ h > 0
      BY <1>2, <2>1
    <3>2. i = Len(cs) => i = h
      BY <1>2, <2>1
    <3> QED
      BY <1>2, <2>3, <3>1, <3>2
  <2>5. Follows(ds, h, Len(ds))
    BY <1>2, <2>1, <2>2 DEF Follows
  <2> QED
    BY <1>1, <1>2, <2>1, <2>4, <2>5, CallsAbove DEF h
<1>4. Stacks(c, ds, b)
  BY <1>1, <1>2, StacksSame
<1>5. Speakers(c, ds, inv)
  BY <1>1, <1>2, SpeakersSame
<1> QED
  BY <1>2, <1>3, <1>4, <1>5 DEF StackInv

\* A failure.
LEMMA StackInvFails ==
    ASSUME NEW c, NEW cs, NEW acct, NEW inv, StackInv(c, cs, acct, inv, "run"),
           NEW st \in Errors
    PROVE  StackInv(c, cs, acct, inv, st)
  BY DEF StackInv

\* authorize_as_curr_contract adds a tracker for the frame on top.
LEMMA AuthorizeAsStacks ==
    ASSUME BInv, SInv, NEW tree \in tx.invoker_trees, AuthorizeAsCurrContract(tree)
    PROVE  SInv'
<1>1. /\ status = "run" /\ Len(ctx) > 1 /\ Len(ctx) > 0 /\ ~ Creating
      /\ invoker' = Append(invoker, [addr |-> Top.contract, tree |-> tree, tracker |-> NewTracker])
      /\ UNCHANGED <<tx, ctx, call_stack, account, status, started>>
  BY BFacts DEF AuthorizeAsCurrContract, InContract
<1>2. Len(call_stack) > 0 /\ call_stack[Len(call_stack)] = ContractFrame(Top.contract)
  BY <1>1, TopFacts DEF Consistent, TopCall
<1>3. Top.contract \in Contract
  <2>1. /\ call_stack \in Seq(AuthStackFrame) /\ Len(call_stack) \in Nat
    BY SFacts
  <2>2. ContractFrame(Top.contract) \in AuthStackFrame
    BY <1>2, <2>1
  <2> QED
    BY <2>2 DEF ContractFrame, AuthStackFrame
<1>4. /\ Len(call_stack) \in Nat /\ InvokersOK(invoker)
      /\ Calls(ctx, call_stack) /\ Stacks(ctx, call_stack, account)
      /\ Speakers(ctx, call_stack, invoker)
  BY <1>1, SFacts
<1>5. InvokersOK(invoker') /\ Speakers(ctx, call_stack, invoker')
  BY <1>1, <1>2, <1>3, <1>4, SpeakersAppend
<1>6. StackInv(ctx, call_stack, account, invoker', status)
  BY <1>4, <1>5, SFacts DEF StackInv
<1>7. StackInv(ctx', call_stack', account', invoker', status') /\ started' \in BOOLEAN
  BY <1>1, <1>6 DEF SInv
<1> QED
  BY <1>1, <1>7, SameTxStacks

\* push_frame of the invoker trackers.
LEMMA PushedInvokersFacts ==
    ASSUME SInv
    PROVE  /\ InvokersOK(PushedInvokers) /\ Len(PushedInvokers) = Len(invoker)
           /\ Paired(invoker, PushedInvokers)
           /\ \A i \in 1 .. Len(invoker) :
                 PushedInvokers[i].tracker = push_frame(invoker[i].tracker)
<1> DEFINE w == PushedInvokers
           n == Len(invoker)
<1>1. n \in Nat /\ \A i \in 1 .. n : IsInvoker(invoker[i])
  BY SFacts DEF InvokersOK
<1>2. IsList(w, n)
  BY DEF PushedInvokers, IsList
<1>3. \A i \in 1 .. n : w[i] = [invoker[i] EXCEPT !.tracker = push_frame(@)]
  BY DEF PushedInvokers
<1> HIDE DEF w
<1>4. \A i \in 1 .. n : /\ IsInvoker(w[i]) /\ SameInvoker(invoker[i], w[i])
                        /\ w[i].tracker = push_frame(invoker[i].tracker)
  BY <1>1, <1>3, InvokerFacts
<1>5. InvokersOK(w) /\ Len(w) = n
  BY <1>1, <1>2, <1>4, InvokersSeq
<1> QED
  BY <1>4, <1>5 DEF Paired, w

\* A contract is entered, with context f.
Enterable(f, acct) ==
    /\ FrameType(f) /\ f.contract \in Contract /\ f.height = Len(call_stack) + 1
    /\ f.auth = 0 \/ f.auth \notin Held(ctx)
    /\ \A e \in Entry : f.snapshot.account[e].present = TRUE =>
          f.snapshot.account[e].exhausted = acct[e].tracker.exhausted
    /\ f.snapshot.invoker = [i \in 1 .. Len(invoker) |-> invoker[i].tracker.exhausted]

LEMMA StackInvEnter ==
    ASSUME BInv, SInv, Len(ctx) > 0, NEW acct, Accounts(acct),
           StackInv(ctx, call_stack, acct, invoker, "run"),
           NEW f, Enterable(f, acct),
           NEW b, b = Pushed(acct, Held(ctx) \union ({f.auth} \ {0})),
           NEW d, d = Append(ctx, f),
           NEW ds, ds = Append(call_stack, ContractFrame(f.contract))
    PROVE  StackInv(d, ds, b, PushedInvokers, "run")
<1> USE DEF Enterable
<1>1. /\ IsSeq(ctx) /\ Calls(ctx, call_stack) /\ Stacks(ctx, call_stack, acct)
      /\ Speakers(ctx, call_stack, invoker) /\ InvokersOK(invoker)
      /\ \A i \in 1 .. Len(ctx) : FrameType(ctx[i])
  BY BFacts DEF StackInv
<1>2. Calls(d, ds)
  BY <1>1, CallsPush
<1>3. Held(d) = Held(ctx) \union ({f.auth} \ {0})
  BY <1>1, HeldPush
<1>4. Stacks(d, ds, b)
  <2>1. Enters(ctx, call_stack, acct, d, f) /\ b = Pushed(acct, Held(d))
    BY <1>3 DEF Enters
  <2> QED
    BY <1>1, <2>1, StacksPush
<1>5. Speakers(d, ds, PushedInvokers)
  <2>1. Snaps(ctx, call_stack, invoker, d, f)
    BY DEF Snaps
  <2> QED
    BY <1>1, <2>1, PushedInvokersFacts, SpeakersPush
<1>6. \A i \in 1 .. Len(d) : FrameType(d[i])
  <2>1. /\ Len(d) = Len(ctx) + 1 /\ d[Len(ctx) + 1] = f /\ Len(ctx) \in Nat
        /\ \A i \in 1 .. Len(ctx) : d[i] = ctx[i]
    BY <1>1, SeqPush, LenNat
  <2>2. \A i \in 1 .. Len(d) : i \in 1 .. Len(ctx) \/ i = Len(ctx) + 1
    BY <2>1
  <2> QED
    BY <1>1, <2>1, <2>2
<1>7. ds \in Seq(AuthStackFrame)
  BY <1>2 DEF Calls
<1> QED
  BY <1>2, <1>4, <1>5, <1>6, <1>7, PushedInvokersFacts DEF StackInv

IsContext(f, c, entry, e) ==
    /\ f.contract = c /\ f.entry = entry /\ f.auth = e
    /\ f.height = Len(call_stack) + 1
    /\ f.snapshot.invoker = [i \in 1 .. Len(invoker) |-> invoker[i].tracker.exhausted]
    /\ \A x \in Entry : f.snapshot.account[x].present = TRUE =>
          /\ x \notin Borrowed \union {e}
          /\ f.snapshot.account[x].exhausted = account[x].tracker.exhausted

\* What the context of a new frame holds.
LEMMA NewContextFacts ==
    ASSUME NEW c, NEW entry, NEW e, NEW n
    PROVE  IsContext(NewContext(c, entry, e, n), c, entry, e)
<1> DEFINE s == Snapshot(Borrowed \union {e})
           f == NewContext(c, entry, e, n)
<1>1. /\ f.contract = c /\ f.entry = entry /\ f.auth = e
      /\ f.height = Len(call_stack) + 1 /\ f.snapshot = s
  BY DEF NewContext
<1>2. s.invoker = [i \in 1 .. Len(invoker) |-> invoker[i].tracker.exhausted]
  BY DEF Snapshot
<1>3. \A x \in Entry : s.account[x] =
          IF x \in Borrowed \union {e} THEN NoSnapshot
          ELSE [exhausted |-> account[x].tracker.exhausted,
                verified |-> account[x].verified, present |-> TRUE]
  BY DEF Snapshot
<1>4. NoSnapshot.present = FALSE
  BY DEF NoSnapshot
<1> HIDE DEF s, f
<1>5. ASSUME NEW x \in Entry, s.account[x].present = TRUE
      PROVE  x \notin Borrowed \union {e} /\ s.account[x].exhausted = account[x].tracker.exhausted
  <2>1. x \notin Borrowed \union {e}
    BY <1>3, <1>4, <1>5
  <2>2. s.account[x] = [exhausted |-> account[x].tracker.exhausted,
                        verified |-> account[x].verified, present |-> TRUE]
    BY <1>3, <2>1
  <2> QED
    BY <2>1, <2>2, SnapshotFields
<1>6. IsContext(f, c, entry, e)
  BY <1>1, <1>2, <1>5 DEF IsContext
<1> QED
  BY <1>6 DEF f

\* A contract is called.
LEMMA CallStacks ==
    ASSUME BInv, SInv, NEW c \in Contract, NEW entry \in {"call", "try"}, Call(c, entry)
    PROVE  SInv'
<1> DEFINE f == NewContext(c, entry, 0, 0)
<1>1. /\ status = "run" /\ Len(ctx) > 0
      /\ account' = Pushed(account, Borrowed) /\ invoker' = PushedInvokers
      /\ ctx' = Append(ctx, f) /\ call_stack' = Append(call_stack, ContractFrame(c))
      /\ started' = TRUE /\ tx' = tx /\ status' = status
  <2>1. InContract \/ InHostFn
    BY DEF Call
  <2>2. status = "run" /\ Len(ctx) > 0
    BY <2>1, BFacts DEF InContract, InHostFn
  <2> QED
    BY <2>2 DEF Call, ContractFrame
<1>2. /\ f.contract = c /\ f.entry = entry /\ f.auth = 0
      /\ f.height = Len(call_stack) + 1
      /\ f.snapshot.invoker = [i \in 1 .. Len(invoker) |-> invoker[i].tracker.exhausted]
      /\ \A x \in Entry : f.snapshot.account[x].present = TRUE =>
            f.snapshot.account[x].exhausted = account[x].tracker.exhausted
  <2>1. IsContext(f, c, entry, 0)
    BY NewContextFacts
  <2> HIDE DEF f
  <2> QED
    BY <2>1 DEF IsContext
<1> HIDE DEF f
<1>3. FrameType(f) /\ f.contract \in Contract
  BY <1>2 DEF FrameType
<1>4. account' = Pushed(account, Held(ctx) \union ({f.auth} \ {0}))
  <2>1. Held(ctx) \union ({f.auth} \ {0}) = Held(ctx)
    BY <1>2
  <2> QED
    BY <1>1, <2>1, BFacts
<1>5. StackInv(ctx, call_stack, account, invoker, "run") /\ Accounts(account)
  BY <1>1, SFacts, BFacts
<1>6. call_stack' = Append(call_stack, ContractFrame(f.contract))
  BY <1>1, <1>2
<1>9. Enterable(f, account)
  BY <1>2, <1>3 DEF Enterable
<1>7. StackInv(ctx', call_stack', account', PushedInvokers, "run")
  BY <1>1, <1>4, <1>5, <1>6, <1>9, StackInvEnter
<1>8. StackInv(ctx', call_stack', account', invoker', status') /\ started' \in BOOLEAN
  BY <1>1, <1>7
<1> QED
  BY <1>1, <1>8, SameTxStacks

\* A creation starts.
LEMMA CreateStacks ==
    ASSUME BInv, SInv, NEW a \in Address, NEW f \in CreateFn, CreateContract(a, f)
    PROVE  SInv'
<1> DEFINE g == [kind |-> "create", deployer |-> a, fn |-> f, authed |-> FALSE]
<1>1. /\ status = "run" /\ Len(ctx) > 0 /\ ~ Creating
      /\ account' = Pushed(account, Borrowed) /\ invoker' = PushedInvokers
      /\ ctx' = ctx /\ call_stack' = Append(call_stack, g)
      /\ started' = TRUE /\ tx' = tx /\ status' = status
  <2>1. InContract \/ InHostFn
    BY DEF CreateContract
  <2>2. status = "run" /\ Len(ctx) > 0 /\ ~ Creating
    <3>1. status = "run" /\ ~ Creating /\ (Len(ctx) > 1 \/ Len(ctx) = 1)
      BY <2>1 DEF InContract, InHostFn
    <3>2. Len(ctx) \in Nat
      BY BFacts
    <3>3. Len(ctx) > 0
      BY <3>1, <3>2, AtLeastOne, Zenon
    <3> QED
      BY <3>1, <3>3
  <2> QED
    BY <2>2 DEF CreateContract
<1>2. g \in AuthStackFrame /\ g.kind = "create"
  BY DEF AuthStackFrame
<1> HIDE DEF g
<1>3. /\ IsSeq(ctx) /\ Calls(ctx, call_stack) /\ Stacks(ctx, call_stack, account)
      /\ Speakers(ctx, call_stack, invoker) /\ InvokersOK(invoker) /\ Accounts(account)
      /\ call_stack \in Seq(AuthStackFrame) /\ IsSeq(call_stack) /\ Len(call_stack) \in Nat
  BY <1>1, BFacts, SFacts
<1>4. call_stack' \in Seq(AuthStackFrame)
  BY <1>1, <1>2, <1>3
<1>5. /\ Len(call_stack') = Len(call_stack) + 1 /\ call_stack'[Len(call_stack) + 1] = g
      /\ Agree(call_stack, call_stack', Len(call_stack))
  BY <1>1, <1>3, SeqPush DEF Agree
<1>6. Calls(ctx, call_stack')
  <2>1. ctx[Len(ctx)].height = Len(call_stack)
    BY <1>1, TopFacts DEF Consistent, Top
  <2>2. Follows(call_stack', ctx[Len(ctx)].height, Len(call_stack'))
    BY <1>2, <1>5, <2>1 DEF Follows
  <2>3. ctx[Len(ctx)].height <= Len(call_stack')
    BY <1>3, <1>5, <2>1
  <2> QED
    BY <1>1, <1>3, <1>4, <1>5, <2>1, <2>2, <2>3, CallsAbove
<1>7. account' = Pushed(account, Held(ctx))
  BY <1>1, BFacts
<1>8. Stacks(ctx, call_stack', account')
  <2>1. Enters(ctx, call_stack, account, ctx, 0)
    BY DEF Enters
  <2> QED
    BY <1>1, <1>3, <1>7, <2>1, StacksPush
<1>9. Speakers(ctx, call_stack', invoker')
  <2>1. Snaps(ctx, call_stack, invoker, ctx, 0)
    BY DEF Snaps
  <2> QED
    BY <1>1, <1>3, <2>1, PushedInvokersFacts, SpeakersPush
<1>10. StackInv(ctx', call_stack', account', invoker', status') /\ started' \in BOOLEAN
  BY <1>1, <1>4, <1>6, <1>8, <1>9, PushedInvokersFacts, SFacts DEF StackInv
<1> QED
  BY <1>1, <1>10, SameTxStacks

-----------------------------------------------------------------------------
(***************************************************************************)
(* require_auth, for the call on top of the stack.                         *)
(***************************************************************************)
\* Entry e spends node n.
LEMMA ExtendedStacks ==
    ASSUME BInv, SInv, status = "run", Len(call_stack) > 0, NEW f, CallAt(TopCall, f),
           NEW e \in Entry, e \notin Held(ctx), NEW n, n = EntryMatch(e, f), n # 0,
           NEW acct, acct[e].tracker = extend_match(account[e].tracker, n),
           \A x \in Entry : x # e => acct[x] = account[x]
    PROVE  StackInv(ctx, call_stack, acct, invoker, "run")
<1> DEFINE t == account[e].tracker
           tree == Entries[e].tree
           root == ~ has_active_tracker(Entries[e].addr)
<1>1. /\ IsSeq(ctx) /\ Calls(ctx, call_stack) /\ Stacks(ctx, call_stack, account)
      /\ Accounts(account) /\ StackInv(ctx, call_stack, account, invoker, "run")
      /\ tx \in Transaction /\ Borrowed = Held(ctx)
  BY BFacts, SFacts
<1>2. t \in Tracker(tree) /\ Len(t.match) = Len(call_stack) /\ Len(t.match) > 0
  BY <1>1, StacksFacts
<1>3. root \in BOOLEAN /\ n = MatchingNode(t, tree, f, root)
  BY DEF EntryMatch
<1> HIDE DEF root
<1>4. /\ n \in Node(tree) /\ n \notin t.exhausted /\ tree.fn[n] = f
      /\ LastIs(t.match, Len(t.match), tree.parent[n])
      /\ t.match[Len(t.match)] = 0
      /\ tree.parent[n] = 0 => root = TRUE
  <2> HIDE DEF t, tree
  <2>1. Finds(t, tree, f, root, n)
    BY <1>2, <1>3, MatchingNodeFacts
  <2> QED
    BY <1>2, <2>1 DEF Finds
<1>5. tree.parent[1] = 0
  <2>1. IsEntry(Entries[e])
    BY <1>1, AuthAssumption DEF Entries, Entry
  <2>2. IsTree(tree)
    BY <2>1 DEF IsEntry
  <2> QED
    BY <2>2 DEF IsTree
<1>6. n = 1 => \A x \in Entry \ Held(ctx) : Entries[x].addr = Entries[e].addr =>
                  ~ is_active(account[x].tracker)
                  \/ current_frame_is_already_matched(account[x].tracker)
  <2>1. n = 1 => root = TRUE
    BY <1>4, <1>5
  <2> QED
    BY <1>1, <2>1 DEF root, has_active_tracker
<1>7. CallAt(call_stack[Len(call_stack)], tree.fn[n])
  BY <1>4 DEF TopCall
<1>8. \A x \in Entry : x # e => acct[x].tracker = account[x].tracker
  OBVIOUS
<1>9. Stacks(ctx, call_stack, acct)
  BY <1>1, <1>4, <1>6, <1>7, <1>8, StacksExtend
<1> QED
  BY <1>1, <1>9 DEF StackInv

\* An entry is asked, and grants, fails or starts __check_auth.
LEMMA ByEntryStacks ==
    ASSUME BInv, SInv, status = "run", Len(ctx) > 0, Len(call_stack) > 0,
           NEW addr, NEW f, CallAt(TopCall, f), ByEntry(addr, f)
    PROVE  SInv'
<1> DEFINE e == Min(MatchingEntries(addr, f))
           n == EntryMatch(e, f)
           acct == [account EXCEPT ![e] =
                      [@ EXCEPT !.tracker = extend_match(account[e].tracker, n)]]
           granted == /\ Grant(acct, e, n) /\ Proceed(call_stack)
                      /\ UNCHANGED <<tx, ctx, invoker, status, started>>
           refused == Error("recoverable") /\ account' = acct /\ UNCHANGED invoker
           asked == addr \in Contract /\ EnterCheckAuth(acct, e, n)
<1>1. granted \/ refused \/ asked
  BY Zenon DEF ByEntry
<1>2. MatchingEntries(addr, f) # {}
  BY DEF ByEntry
<1> HIDE DEF e, n
<1>3. /\ e \in Entry /\ e \notin Held(ctx) /\ Entries[e].addr = addr
      /\ n \in EntryNode(e) /\ n # 0 /\ n = EntryMatch(e, f)
  <2>1. /\ e \in Entry /\ e \notin Held(ctx) /\ Entries[e].addr = addr /\ n \in EntryNode(e)
    BY <1>2, MatchingEntryIn DEF e, n
  <2> QED
    BY <2>1 DEF EntryNode, Node, n
<1>a. Spends(acct, e, n)
  BY DEF Spends
<1>5. acct[e].tracker = extend_match(account[e].tracker, n)
  BY <1>3, BFacts DEF Accounts, EntryTracker
<1> HIDE DEF acct
<1>4. Accounts(acct) /\ \A x \in Entry : x # e => acct[x] = account[x]
  BY <1>3, <1>a, ExtendedAccounts
<1>6. StackInv(ctx, call_stack, acct, invoker, "run")
  BY <1>3, <1>4, <1>5, ExtendedStacks
<1>7. CASE granted
  <2>1. account' = MarkVerified(acct, e) /\ call_stack' = Marked(call_stack)
    BY <1>7 DEF Grant, MarkVerified, Proceed, Marked
  <2>2. \A x \in Entry : account'[x].tracker = acct[x].tracker
    BY <1>3, <1>4, <2>1, VerifiedAccounts
  <2>3. StackInv(ctx, call_stack', account', invoker, "run")
    BY <1>4, <1>6, <2>1, <2>2, StackInvProceed, BFacts
  <2>4. StackInv(ctx', call_stack', account', invoker', status') /\ started' \in BOOLEAN /\ tx' = tx
    BY <1>7, <2>3 DEF SInv
  <2> QED
    BY <2>4, SameTxStacks
<1>8. CASE refused
  <2>1. /\ status' = "recoverable" /\ account' = acct
        /\ UNCHANGED <<tx, ctx, call_stack, invoker, started>>
    BY <1>8 DEF Error
  <2>2. StackInv(ctx, call_stack, acct, invoker, "recoverable")
    BY <1>6, StackInvFails DEF Errors
  <2>3. StackInv(ctx', call_stack', account', invoker', status') /\ started' \in BOOLEAN
    BY <2>1, <2>2 DEF SInv
  <2> QED
    BY <2>1, <2>3, SameTxStacks
<1>9. CASE asked
  <2> DEFINE c == NewContext(Entries[e].addr, "auth", e, n)
  <2>1. /\ account' = Pushed(acct, Borrowed \union {e}) /\ invoker' = PushedInvokers
        /\ ctx' = Append(ctx, c) /\ call_stack' = Append(call_stack, ContractFrame(addr))
        /\ UNCHANGED <<tx, status, started>> /\ addr \in Contract
    BY <1>3, <1>9 DEF EnterCheckAuth, ContractFrame
  <2>2. IsContext(c, addr, "auth", e)
    BY <1>3, NewContextFacts
  <2> HIDE DEF c
  <2>3. /\ c.contract = addr /\ c.entry = "auth" /\ c.auth = e
        /\ c.height = Len(call_stack) + 1
        /\ c.snapshot.invoker = [i \in 1 .. Len(invoker) |-> invoker[i].tracker.exhausted]
        /\ \A x \in Entry : c.snapshot.account[x].present = TRUE =>
              /\ x \notin Borrowed \union {e}
              /\ c.snapshot.account[x].exhausted = account[x].tracker.exhausted
    BY <2>2 DEF IsContext
  <2>4. \A x \in Entry : c.snapshot.account[x].present = TRUE =>
            c.snapshot.account[x].exhausted = acct[x].tracker.exhausted
    BY <1>4, <2>3
  <2>5. FrameType(c) /\ c.contract \in Contract
    BY <2>1, <2>3 DEF FrameType
  <2>6. account' = Pushed(acct, Held(ctx) \union ({c.auth} \ {0}))
    <3>1. Held(ctx) \union ({c.auth} \ {0}) = Borrowed \union {e}
      BY <1>3, <2>3, BFacts DEF Entry
    <3> QED
      BY <2>1, <3>1
  <2>7. call_stack' = Append(call_stack, ContractFrame(c.contract))
    BY <2>1, <2>3
  <2>10. Enterable(c, acct)
    BY <1>3, <2>3, <2>4, <2>5 DEF Enterable
  <2>8. StackInv(ctx', call_stack', account', PushedInvokers, "run")
    BY <1>4, <1>6, <2>1, <2>6, <2>7, <2>10, StackInvEnter
  <2>9. StackInv(ctx', call_stack', account', invoker', status') /\ started' \in BOOLEAN
    BY <2>1, <2>8 DEF SInv
  <2> QED
    BY <2>1, <2>9, SameTxStacks
<1> QED
  BY <1>1, <1>7, <1>8, <1>9

\* An invoker tracker grants the call on top of the stack.
LEMMA ByInvokerStacks ==
    ASSUME BInv, SInv, status = "run", Len(ctx) > 0, Len(call_stack) > 0,
           NEW addr, NEW f, CallAt(TopCall, f), ByInvokerTracker(addr, f)
    PROVE  SInv'
<1> DEFINE k == Min(MatchingInvokers(addr, f))
           t == invoker[k].tracker
           tree == invoker[k].tree
           n == MatchingNode(t, tree, f, TRUE)
<1>1. \/ t.match = << >> /\ Error("bad_match_stack") /\ UNCHANGED <<account, invoker>>
      \/ /\ t.match # << >> /\ Proceed(call_stack)
         /\ invoker' = [invoker EXCEPT ![k].tracker = extend_match(t, n)]
         /\ UNCHANGED <<tx, ctx, account, status, started>>
  BY DEF ByInvokerTracker
<1>2. k \in 1 .. Len(invoker) /\ n # 0
  <2>1. MatchingInvokers(addr, f) # {} /\ MatchingInvokers(addr, f) \in SUBSET Nat
    <3>1. MatchingInvokers(addr, f) # {}
      BY DEF ByInvokerTracker
    <3>2. MatchingInvokers(addr, f) \subseteq 1 .. Len(invoker)
      BY DEF MatchingInvokers
    <3> QED
      BY <3>1, <3>2
  <2>2. k \in MatchingInvokers(addr, f)
    BY <2>1, MinIn
  <2> HIDE DEF k
  <2> QED
    BY <2>2 DEF MatchingInvokers
<1> HIDE DEF k
<1>3. /\ IsSeq(ctx) /\ Calls(ctx, call_stack) /\ Stacks(ctx, call_stack, account)
      /\ Speakers(ctx, call_stack, invoker) /\ InvokersOK(invoker) /\ Accounts(account)
      /\ call_stack \in Seq(AuthStackFrame) /\ Len(call_stack) \in Nat
      /\ StackInv(ctx, call_stack, account, invoker, "run")
  BY BFacts, SFacts
<1>4. t \in Tracker(tree) /\ t.match \in Seq(Node(tree) \union {0}) /\ Len(t.match) \in Nat
  BY <1>2, <1>3, InvokerFacts DEF InvokersOK
<1>5. /\ n \in Node(tree) /\ tree.fn[n] = f
      /\ LastIs(t.match, Len(t.match), tree.parent[n])
      /\ Len(t.match) > 0 => t.match[Len(t.match)] = 0
  <2>1. n = MatchingNode(t, tree, f, TRUE) /\ TRUE \in BOOLEAN
    OBVIOUS
  <2> HIDE DEF n, t, tree
  <2>2. Finds(t, tree, f, TRUE, n)
    BY <1>2, <1>4, <2>1, MatchingNodeFacts
  <2> QED
    BY <2>2 DEF Finds
<1>6. CASE t.match = << >> /\ Error("bad_match_stack") /\ UNCHANGED <<account, invoker>>
  <2>1. /\ status' = "bad_match_stack"
        /\ UNCHANGED <<tx, ctx, call_stack, account, invoker, started>>
    BY <1>6 DEF Error
  <2>2. StackInv(ctx, call_stack, account, invoker, "bad_match_stack")
    BY <1>3, StackInvFails DEF Errors
  <2>3. StackInv(ctx', call_stack', account', invoker', status') /\ started' \in BOOLEAN
    BY <2>1, <2>2 DEF SInv
  <2> QED
    BY <2>1, <2>3, SameTxStacks
<1>7. CASE /\ t.match # << >> /\ Proceed(call_stack)
           /\ invoker' = [invoker EXCEPT ![k].tracker = extend_match(t, n)]
           /\ UNCHANGED <<tx, ctx, account, status, started>>
  <2>1. Len(t.match) > 0
    <3> DEFINE m == t.match
    <3>1. m # << >> /\ \E S : m \in Seq(S)
      BY <1>4, <1>7
    <3> HIDE DEF m
    <3>2. Len(m) > 0
      BY <3>1
    <3> QED
      BY <3>2 DEF m
  <2>2. CallAt(call_stack[Len(call_stack)], tree.fn[n])
    BY <1>5 DEF TopCall
  <2>3. InvokersOK(invoker') /\ Speakers(ctx, call_stack, invoker')
    <3> HIDE DEF n
    <3> QED
      BY <1>2, <1>3, <1>5, <1>7, <2>1, <2>2, SpeakersExtend
  <2>4. StackInv(ctx, call_stack, account, invoker', "run")
    BY <1>3, <2>3 DEF StackInv
  <2>5. call_stack' = Marked(call_stack)
    BY <1>7 DEF Proceed, Marked
  <2>6. StackInv(ctx, call_stack', account, invoker', "run")
    BY <1>3, <2>4, <2>5, StackInvProceed
  <2>7. StackInv(ctx', call_stack', account', invoker', status') /\ started' \in BOOLEAN /\ tx' = tx
    BY <1>7, <2>6 DEF SInv
  <2> QED
    BY <2>7, SameTxStacks
<1> QED
  BY <1>1, <1>6, <1>7

\* require_auth_internal, whoever authorizes the call.
LEMMA RequireAuthStacks ==
    ASSUME BInv, SInv, status = "run", Len(ctx) > 0, Len(call_stack) > 0,
           NEW addr, NEW f, CallAt(TopCall, f), require_auth_internal(addr, f)
    PROVE  SInv'
<1>1. StackInv(ctx, call_stack, account, invoker, "run") /\ Accounts(account) /\ IsSeq(ctx)
  BY BFacts, SFacts
<1>2. CASE ByDirectInvoker(addr)
  <2>1. /\ call_stack' = Marked(call_stack)
        /\ UNCHANGED <<tx, ctx, account, invoker, status, started>>
    BY <1>2 DEF ByDirectInvoker, Proceed, Marked
  <2>2. StackInv(ctx, call_stack', account, invoker, "run")
    BY <1>1, <2>1, StackInvProceed
  <2>3. StackInv(ctx', call_stack', account', invoker', status') /\ started' \in BOOLEAN
    BY <2>1, <2>2 DEF SInv
  <2> QED
    BY <2>1, <2>3, SameTxStacks
<1>3. CASE Unauthorized(addr, f)
  <2>1. /\ status' = "recoverable"
        /\ UNCHANGED <<tx, ctx, call_stack, account, invoker, started>>
    BY <1>3 DEF Unauthorized, Error
  <2>2. StackInv(ctx, call_stack, account, invoker, "recoverable")
    BY <1>1, StackInvFails DEF Errors
  <2>3. StackInv(ctx', call_stack', account', invoker', status') /\ started' \in BOOLEAN
    BY <2>1, <2>2 DEF SInv
  <2> QED
    BY <2>1, <2>3, SameTxStacks
<1> QED
  BY <1>2, <1>3, ByEntryStacks, ByInvokerStacks DEF require_auth_internal

-----------------------------------------------------------------------------
(***************************************************************************)
(* The end of a frame.                                                     *)
(***************************************************************************)
PopsEntries(c, acct, b) ==
    \A e \in Entry :
        /\ Trim(acct[e].tracker.match, b[e].tracker.match) /\ Rooted(b[e].tracker)
        /\ Len(b[e].tracker.match) =
              IF e \in Held(c) THEN Len(acct[e].tracker.match)
              ELSE Len(acct[e].tracker.match) - 1

PopsInvokers(inv, w) ==
    /\ InvokersOK(w) /\ Len(w) \in Nat /\ Paired(inv, w)
    /\ \A i \in 1 .. Len(inv) : i <= Len(w) <=> Depth(inv, i) > 1
    /\ \A i \in 1 .. Len(w) : /\ Trim(inv[i].tracker.match, w[i].tracker.match)
                              /\ Depth(w, i) = Depth(inv, i) - 1

\* The frame on top is popped, a contract's or a creation's.
LEMMA StackInvPop ==
    ASSUME NEW c, IsSeq(c), Len(c) > 0, NEW cs, Len(cs) > 0, NEW acct, Accounts(acct), NEW inv,
           StackInv(c, cs, acct, inv, "run"), NEW d,
           \/ d = Below(c) /\ c[Len(c)].height = Len(cs)
           \/ d = c /\ c[Len(c)].height = Len(cs) - 1,
           NEW ds, ds = Below(cs), NEW b, PopsEntries(c, acct, b), NEW w, PopsInvokers(inv, w)
    PROVE  StackInv(d, ds, b, w, "run")
<1>1. /\ Calls(c, cs) /\ Stacks(c, cs, acct) /\ Speakers(c, cs, inv) /\ InvokersOK(inv)
      /\ cs \in Seq(AuthStackFrame) /\ \A i \in 1 .. Len(c) : FrameType(c[i])
  BY DEF StackInv
<1>2. /\ IsSeq(cs) /\ Len(cs) \in Nat /\ Len(c) \in Nat
      /\ \A i \in 1 .. Len(c) : c[i].height \in Nat
  BY <1>1, CallsFacts
<1>3. /\ Len(ds) = Len(cs) - 1 /\ ds \in Seq(AuthStackFrame)
      /\ \A i \in 1 .. Len(cs) - 1 : ds[i] = cs[i]
  <2>1. Len(ds) = Len(cs) - 1 /\ \A i \in 1 .. Len(cs) - 1 : ds[i] = cs[i]
    BY <1>2, SeqPop
  <2>2. ds \in Seq(AuthStackFrame)
    BY <1>1, SeqShorter DEF Below
  <2> QED
    BY <2>1, <2>2
<1>4. Calls(d, ds)
  <2>1. CASE d = Below(c) /\ c[Len(c)].height = Len(cs)
    <3>1. ds = IF Len(cs) = 0 THEN cs ELSE Below(cs)
      BY <1>2
    <3> QED
      BY <1>1, <2>1, <3>1, CallsPop
  <2>2. CASE d = c /\ c[Len(c)].height = Len(cs) - 1
    <3>1. Agree(cs, ds, c[Len(c)].height) /\ Follows(ds, c[Len(c)].height, Len(ds))
          /\ c[Len(c)].height <= Len(ds)
      BY <1>2, <1>3, <2>2 DEF Agree, Follows
    <3> QED
      BY <1>1, <1>3, <2>2, <3>1, CallsAbove
  <2> QED
    BY <2>1, <2>2
<1>5. Stacks(d, ds, b)
  <2>1. d = c \/ (Len(c) > 0 /\ d = Below(c) /\ c[Len(c)].height = Len(cs))
    OBVIOUS
  <2> QED
    BY <1>1, <2>1, StacksPop DEF PopsEntries
<1>6. \A p \in 1 .. Len(d) : p \in 1 .. Len(c) /\ d[p] = c[p] /\ c[p].height < Len(cs)
  <2> SUFFICES ASSUME NEW p \in 1 .. Len(d)
               PROVE  p \in 1 .. Len(c) /\ d[p] = c[p] /\ c[p].height < Len(cs)
    OBVIOUS
  <2>1. \A i, j \in 1 .. Len(c) : i < j => c[i].height < c[j].height
    BY <1>1 DEF Calls
  <2>2. CASE d = Below(c) /\ c[Len(c)].height = Len(cs)
    <3>1. Len(d) = Len(c) - 1 /\ d[p] = c[p]
      BY <2>2, HeldPop
    <3>2. p \in 1 .. Len(c) /\ Len(c) \in 1 .. Len(c) /\ p < Len(c)
      BY <1>2, <3>1
    <3> QED
      BY <2>1, <2>2, <3>1, <3>2
  <2>3. CASE d = c /\ c[Len(c)].height = Len(cs) - 1
    <3>1. p = Len(c) \/ p < Len(c)
      BY <1>2, <2>3
    <3>2. p < Len(c) => c[p].height < c[Len(c)].height
      BY <1>2, <2>1, <2>3
    <3>3. p \in 1 .. Len(c) /\ c[p].height \in Nat
      BY <1>2, <2>3
    <3> QED
      BY <1>2, <2>3, <3>1, <3>2, <3>3
  <2> QED
    BY <2>2, <2>3
<1>7. Speakers(d, ds, w)
  BY <1>1, <1>6, SpeakersPop DEF PopsInvokers
<1> QED
  BY <1>1, <1>3, <1>4, <1>5, <1>6, <1>7 DEF StackInv, PopsInvokers

\* A failure that is no internal error leaves the stacks tied.
LEMMA StackInvStatus ==
    ASSUME NEW c, NEW cs, NEW acct, NEW inv, NEW st \in {"run", "recoverable", "unrecoverable"},
           NEW s2 \in {"run", "recoverable", "unrecoverable"}, StackInv(c, cs, acct, inv, st)
    PROVE  StackInv(c, cs, acct, inv, s2)
  BY DEF StackInv, Errors

\* pop_frame, for the entries.
LEMMA PoppedPops ==
    ASSUME NEW c, IsSeq(c), NEW cs, Len(cs) > 0, NEW acct, Accounts(acct),
           Calls(c, cs), Stacks(c, cs, acct), NEW b, b = Popped(acct, Held(c))
    PROVE  PopsEntries(c, acct, b)
<1> SUFFICES ASSUME NEW e \in Entry
             PROVE  /\ Trim(acct[e].tracker.match, b[e].tracker.match) /\ Rooted(b[e].tracker)
                    /\ Len(b[e].tracker.match) =
                          IF e \in Held(c) THEN Len(acct[e].tracker.match)
                          ELSE Len(acct[e].tracker.match) - 1
  BY DEF PopsEntries
<1>1. /\ acct[e].tracker \in Tracker(Entries[e].tree) /\ Len(acct[e].tracker.match) \in Nat
      /\ e \notin Held(c) => Len(acct[e].tracker.match) = Len(cs)
      /\ Rooted(acct[e].tracker)
  BY StacksFacts
<1>2. CASE e \in Held(c)
  BY <1>1, <1>2, PoppedTrim, TrimSame
<1>3. CASE e \notin Held(c)
  <2>1. b[e].tracker = pop_frame(acct[e].tracker)
    BY <1>3, PoppedTrim
  <2> QED
    BY <1>1, <1>3, <2>1, PopMatch
<1> QED
  BY <1>2, <1>3

\* pop_frame, for the invoker trackers, after a rollback or without.
LEMMA PoppedInvokersPop ==
    ASSUME NEW inv, InvokersOK(inv), NEW r, InvokersOK(r), Len(r) = Len(inv), Deeper(inv),
           \A i \in 1 .. Len(inv) : /\ SameInvoker(inv[i], r[i])
                                    /\ r[i].tracker.match = inv[i].tracker.match,
           NEW w, w = PoppedInvokers(r)
    PROVE  PopsInvokers(inv, w)
<1>1. \A i \in 1 .. Len(inv) : Depth(r, i) = Depth(inv, i)
  BY DEF Depth
<1>2. Deeper(r)
  BY <1>1 DEF Deeper
<1>3. /\ InvokersOK(w) /\ Len(w) \in Nat /\ Len(w) <= Len(inv) /\ Len(inv) \in Nat
      /\ \A i \in 1 .. Len(inv) : i <= Len(w) <=> Depth(r, i) > 1
      /\ \A i \in 1 .. Len(w) : w[i] = [r[i] EXCEPT !.tracker = pop_frame(@)]
  <2>1. Len(inv) \in Nat
    BY LenNat DEF InvokersOK
  <2> QED
    BY <1>2, <2>1, PoppedInvokersFacts
<1>4. ASSUME NEW i \in 1 .. Len(w)
      PROVE  /\ i \in 1 .. Len(inv) /\ SameInvoker(inv[i], w[i])
             /\ Trim(inv[i].tracker.match, w[i].tracker.match)
             /\ Depth(w, i) = Depth(inv, i) - 1
  <2>1. i \in 1 .. Len(inv) /\ i \in 1 .. Len(r) /\ Depth(r, i) > 1
    BY <1>3
  <2>2. IsInvoker(r[i])
    BY <2>1 DEF InvokersOK
  <2>3. /\ r[i].tracker \in Tracker(r[i].tree) /\ Len(r[i].tracker.match) \in Nat
        /\ SameInvoker(r[i], w[i]) /\ w[i].tracker = pop_frame(r[i].tracker)
    <3>1. w[i] = [r[i] EXCEPT !.tracker = pop_frame(@)]
      BY <1>3
    <3>2. /\ r[i].tracker \in Tracker(r[i].tree) /\ Len(r[i].tracker.match) \in Nat
          /\ SameInvoker(r[i], [r[i] EXCEPT !.tracker = pop_frame(@)])
          /\ [r[i] EXCEPT !.tracker = pop_frame(@)].tracker = pop_frame(r[i].tracker)
      BY <2>2, InvokerFacts
    <3> QED
      BY <3>1, <3>2
  <2>4. /\ Trim(r[i].tracker.match, w[i].tracker.match)
        /\ Len(w[i].tracker.match) = IF Len(r[i].tracker.match) > 0
                                     THEN Len(r[i].tracker.match) - 1 ELSE 0
    BY <2>3, PopMatch
  <2>5. Depth(w, i) = Depth(r, i) - 1
    BY <2>1, <2>3, <2>4 DEF Depth
  <2> QED
    BY <1>1, <2>1, <2>3, <2>4, <2>5 DEF SameInvoker
<1> QED
  BY <1>1, <1>3, <1>4 DEF PopsInvokers, Paired

\* pop_frame of the running state.
LEMMA PopFacts ==
    ASSUME BInv, SInv, Consistent, Len(call_stack) > 0
    PROVE  /\ PopsEntries(ctx, account, Popped(account, Borrowed))
           /\ PopsInvokers(invoker, PoppedInvokers(invoker))
           /\ StackInv(ctx, call_stack, account, invoker, "run")
           /\ Deeper(invoker)
<1>1. /\ IsSeq(ctx) /\ Calls(ctx, call_stack) /\ Stacks(ctx, call_stack, account)
      /\ Speakers(ctx, call_stack, invoker) /\ InvokersOK(invoker) /\ Accounts(account)
      /\ Borrowed = Held(ctx) /\ StackInv(ctx, call_stack, account, invoker, status)
  BY BFacts, SFacts DEF Consistent
<1>2. PopsEntries(ctx, account, Popped(account, Borrowed))
  BY <1>1, PoppedPops
<1>3. Deeper(invoker)
  BY <1>1 DEF Speakers, Deeper
<1>4. PopsInvokers(invoker, PoppedInvokers(invoker))
  <2>1. \A i \in 1 .. Len(invoker) : SameInvoker(invoker[i], invoker[i])
    BY DEF SameInvoker
  <2> QED
    BY <1>1, <1>3, <2>1, PoppedInvokersPop
<1> QED
  BY <1>1, <1>2, <1>3, <1>4, StackInvStatus DEF Consistent
-----------------------------------------------------------------------------
(***************************************************************************)
(* A frame is rolled back.                                                 *)
(***************************************************************************)
\* What the rollback does to the tracker of entry e.
LEMMA RolledBackTracker ==
    ASSUME BInv, Len(ctx) > 0, NEW e \in Entry
    PROVE  /\ e \in Held(ctx) => RolledBack[e] = account[e]
           /\ e \notin Held(ctx) =>
                 /\ Top.snapshot.account[e].present = TRUE
                 /\ Top.snapshot.account[e].exhausted \in SUBSET Node(Entries[e].tree)
                 /\ RolledBack[e].tracker =
                       rollback_tracker(account[e].tracker, Top.snapshot.account[e].exhausted)
<1>1. FrameOK(Top, Held(ctx))
  BY BFacts
<1>2. CASE e \in Held(ctx)
  <2>1. Top.snapshot.account[e] = NoSnapshot
    BY <1>1, <1>2 DEF FrameOK
  <2>2. Top.snapshot.account[e].present = FALSE
    BY <2>1 DEF NoSnapshot
  <2> QED
    BY <1>2, <2>2 DEF RolledBack
<1>3. CASE e \notin Held(ctx)
  <2>1. /\ Top.snapshot.account[e].present = TRUE
        /\ Top.snapshot.account[e].exhausted = Spent(Top.grants, e)
    BY <1>1, <1>3 DEF FrameOK
  <2>2. Top.snapshot.account[e].exhausted \in SUBSET Node(Entries[e].tree)
    BY <2>1 DEF Spent, EntryNode
  <2>3. RolledBack[e].tracker =
           rollback_tracker(account[e].tracker, Top.snapshot.account[e].exhausted)
    BY <2>1 DEF RolledBack
  <2> QED
    BY <1>3, <2>1, <2>2, <2>3
<1> QED
  BY <1>2, <1>3

\* The rollback and the pop, for the entries.
LEMMA RolledBackPops ==
    ASSUME BInv, SInv, Consistent, Len(ctx) > 0, Len(call_stack) > 0, ~ Creating,
           NEW b, b = Popped(RolledBack, Borrowed)
    PROVE  PopsEntries(ctx, account, b)
<1>1. /\ IsSeq(ctx) /\ Len(ctx) \in Nat /\ Accounts(account) /\ Borrowed = Held(ctx)
      /\ Calls(ctx, call_stack) /\ Stacks(ctx, call_stack, account)
      /\ Accounts(RolledBack)
  BY BFacts, SFacts, RolledBackFacts DEF Consistent
<1>2. Top.height = Len(call_stack)
  BY TopFacts
<1> SUFFICES ASSUME NEW e \in Entry
             PROVE  /\ Trim(account[e].tracker.match, b[e].tracker.match) /\ Rooted(b[e].tracker)
                    /\ Len(b[e].tracker.match) =
                          IF e \in Held(ctx) THEN Len(account[e].tracker.match)
                          ELSE Len(account[e].tracker.match) - 1
  BY DEF PopsEntries
<1>3. /\ account[e].tracker \in Tracker(Entries[e].tree)
      /\ Len(account[e].tracker.match) \in Nat /\ Len(call_stack) \in Nat
      /\ e \notin Held(ctx) => Len(account[e].tracker.match) = Len(call_stack)
      /\ Rooted(account[e].tracker)
  BY <1>1, StacksFacts
<1>4. CASE e \in Held(ctx)
  <2>1. b[e] = account[e]
    <3>1. RolledBack[e] = account[e]
      BY <1>4, RolledBackTracker
    <3>2. b[e] = RolledBack[e]
      BY <1>1, <1>4, PoppedTrim
    <3> QED
      BY <3>1, <3>2
  <2> QED
    BY <1>3, <1>4, <2>1, TrimSame
<1>5. CASE e \notin Held(ctx)
  <2> DEFINE x == Top.snapshot.account[e].exhausted
             t == account[e].tracker
  <2>1. /\ Top.snapshot.account[e].present = TRUE /\ x \in SUBSET Node(Entries[e].tree)
        /\ RolledBack[e].tracker = rollback_tracker(t, x)
    BY <1>5, RolledBackTracker
  <2>2. b[e].tracker = pop_frame(RolledBack[e].tracker)
    BY <1>1, <1>5, PoppedTrim
  <2>3. b[e].tracker = pop_frame(rollback_tracker(t, x))
    BY <2>1, <2>2
  <2>4. \A i \in 1 .. Len(t.match) : i < Len(t.match) /\ t.match[i] = 1 => 1 \in x
    <3>1. KeepsRoot(Top, e, t)
      BY <1>1 DEF Stacks, Top
    <3>2. Len(t.match) = Top.height
      BY <1>2, <1>3, <1>5
    <3> QED
      BY <2>1, <3>1, <3>2 DEF KeepsRoot
  <2> HIDE DEF x, t
  <2>5. t \in Tracker(Entries[e].tree) /\ Rooted(t) /\ Len(t.match) = Len(call_stack)
    BY <1>3, <1>5 DEF t
  <2>6. /\ Trim(t.match, b[e].tracker.match) /\ Rooted(b[e].tracker)
        /\ Len(b[e].tracker.match) = IF Len(t.match) > 0 THEN Len(t.match) - 1 ELSE 0
    BY <2>1, <2>3, <2>4, <2>5, RollbackPop
  <2>7. Len(b[e].tracker.match) = Len(t.match) - 1
    BY <1>3, <2>5, <2>6
  <2> QED
    BY <1>5, <2>6, <2>7 DEF t
<1> QED
  BY <1>4, <1>5

\* The rollback, for the invokers.
LEMMA RolledBackInvokersFacts ==
    ASSUME BInv, SInv, Consistent, Len(ctx) > 0, Len(invoker) = Len(Top.snapshot.invoker),
           NEW r, r = RolledBackInvokers
    PROVE  /\ InvokersOK(r) /\ Len(r) = Len(invoker)
           /\ \A i \in 1 .. Len(invoker) : /\ SameInvoker(invoker[i], r[i])
                                           /\ r[i].tracker.match = invoker[i].tracker.match
<1>1. /\ IsSeq(ctx) /\ Len(ctx) \in Nat /\ Speakers(ctx, call_stack, invoker)
      /\ InvokersOK(invoker) /\ Len(invoker) \in Nat
  BY BFacts, SFacts DEF Consistent
<1>2. Covers(Top, call_stack, invoker)
  BY <1>1 DEF Speakers, Top
<1>3. IsList(r, Len(invoker))
  BY DEF RolledBackInvokers, IsList
<1>4. ASSUME NEW i \in 1 .. Len(invoker)
      PROVE  /\ IsInvoker(r[i]) /\ SameInvoker(invoker[i], r[i])
             /\ r[i].tracker.match = invoker[i].tracker.match
  <2> DEFINE v == invoker[i]
             x == Top.snapshot.invoker[i]
  <2>1. IsInvoker(v) /\ x \in SUBSET Node(v.tree)
    BY <1>1, <1>2 DEF InvokersOK, Covers
  <2>2. r[i] = [v EXCEPT !.tracker = rollback_tracker(@, x)]
    BY DEF RolledBackInvokers
  <2> HIDE DEF v, x
  <2>3. rollback_tracker(v.tracker, x) \in Tracker(v.tree)
    BY <2>1, RollbackTracker DEF IsInvoker
  <2>4. rollback_tracker(v.tracker, x).match = v.tracker.match
    BY <2>1 DEF IsInvoker, Tracker, rollback_tracker
  <2>5. /\ r[i].tracker = rollback_tracker(v.tracker, x) /\ r[i].addr = v.addr
        /\ r[i].tree = v.tree /\ DOMAIN r[i] = DOMAIN v
    BY <2>1, <2>2 DEF IsInvoker
  <2>6. IsInvoker(r[i])
    BY <2>1, <2>3, <2>5 DEF IsInvoker
  <2> QED
    BY <2>4, <2>5, <2>6 DEF SameInvoker, v
<1>5. InvokersOK(r) /\ Len(r) = Len(invoker)
  BY <1>1, <1>3, <1>4, InvokersSeq
<1> QED
  BY <1>4, <1>5
-----------------------------------------------------------------------------
(***************************************************************************)
(* The actions that end a frame.                                           *)
(***************************************************************************)
LEMMA FinishCreateStacks ==
    ASSUME BInv, SInv, FinishCreate
    PROVE  SInv'
<1>1. /\ Creating /\ Consistent /\ status' \in {"run", "recoverable", "unrecoverable"}
      /\ account' = Popped(account, Borrowed) /\ invoker' = PoppedInvokers(invoker)
      /\ call_stack' = Below(call_stack) /\ tx' = tx /\ ctx' = ctx /\ started' = started
  BY DEF FinishCreate, Consistent, Below
<1>2. /\ IsSeq(ctx) /\ Len(ctx) \in Nat /\ Accounts(account) /\ Len(call_stack) > 0
      /\ Calls(ctx, call_stack)
  BY <1>1, BFacts, SFacts DEF Creating, Consistent
<1>3. Len(ctx) > 0
  BY <1>2 DEF Calls
<1>4. ctx[Len(ctx)].height = Len(call_stack) - 1
  BY <1>1, <1>3, TopFacts DEF Top
<1>5. /\ PopsEntries(ctx, account, account') /\ PopsInvokers(invoker, invoker')
      /\ StackInv(ctx, call_stack, account, invoker, "run")
  BY <1>1, <1>2, PopFacts
<1>6. StackInv(ctx, call_stack', account', invoker', "run")
  BY <1>1, <1>2, <1>3, <1>4, <1>5, StackInvPop
<1>7. StackInv(ctx', call_stack', account', invoker', status')
  BY <1>1, <1>6, StackInvStatus
<1>8. started' \in BOOLEAN
  BY <1>1 DEF SInv
<1> QED
  BY <1>1, <1>7, <1>8, SameTxStacks

\* A contract frame is popped.
LEMMA ContractPops ==
    ASSUME BInv, SInv, InContract, NEW d, d = Below(ctx), NEW ds, ds = Below(call_stack),
           NEW b, b = Popped(account, Borrowed), NEW w, w = PoppedInvokers(invoker)
    PROVE  StackInv(d, ds, b, w, "run")
<1>1. /\ Consistent /\ Len(ctx) > 1 /\ ~ Creating
  BY DEF InContract, Consistent
<1>2. IsSeq(ctx) /\ Len(ctx) \in Nat /\ Accounts(account)
  BY BFacts
<1>3. Len(ctx) > 0
  BY <1>1, <1>2
<1>4. ctx[Len(ctx)].height = Len(call_stack) /\ Len(call_stack) > 0
  BY <1>1, <1>3, TopFacts DEF Top
<1>5. /\ PopsEntries(ctx, account, b) /\ PopsInvokers(invoker, w)
      /\ StackInv(ctx, call_stack, account, invoker, "run")
  BY <1>1, <1>4, PopFacts
<1> QED
  BY <1>2, <1>3, <1>4, <1>5, StackInvPop

\* A contract returns.
LEMMA ReturnStacks ==
    ASSUME BInv, SInv, Return
    PROVE  SInv'
<1>1. /\ InContract /\ ctx' = Below(ctx) /\ call_stack' = Below(call_stack)
      /\ account' = Popped(account, Borrowed) /\ invoker' = PoppedInvokers(invoker)
      /\ tx' = tx /\ status' = status /\ started' = started /\ status = "run"
  BY DEF Return, PopCtx, Below, InContract
<1>2. StackInv(ctx', call_stack', account', invoker', "run")
  BY <1>1, ContractPops
<1>3. started' \in BOOLEAN
  BY <1>1 DEF SInv
<1> QED
  BY <1>1, <1>2, <1>3, SameTxStacks

\* No contract is running, and no tracker of an invoker is left.
LEMMA NoCalls ==
    ASSUME BInv, SInv, Consistent, Len(ctx) = 1, ~ Creating
    PROVE  /\ Len(call_stack) = 0 /\ Len(invoker) = 0 /\ Top.height = 0
           /\ Held(ctx) = {}
           /\ \A e \in Entry : Len(account[e].tracker.match) = 0
<1>1. /\ IsSeq(ctx) /\ Accounts(account) /\ Calls(ctx, call_stack)
      /\ Stacks(ctx, call_stack, account) /\ Speakers(ctx, call_stack, invoker)
      /\ InvokersOK(invoker) /\ Len(invoker) \in Nat /\ ContextsOK(ctx)
  BY BFacts, SFacts DEF Consistent, Books
<1>2. Len(call_stack) = 0 /\ Top.height = 0
  BY TopFacts
<1>3. Len(invoker) = 0
  <2> SUFFICES ASSUME Len(invoker) > 0 PROVE FALSE
    BY <1>1
  <2>1. IsInvoker(invoker[1]) /\ SpeaksFor(call_stack, invoker[1])
    BY <1>1 DEF InvokersOK, Speakers
  <2>2. Len(invoker[1].tracker.match) \in Nat
    BY <2>1, InvokerFacts
  <2> QED
    BY <1>2, <2>1, <2>2 DEF SpeaksFor
<1>4. Held(ctx) = {}
  <2>1. FrameOK(ctx[1], HeldBy(ctx, 1)) /\ ctx[1].entry = "host"
    BY <1>1 DEF ContextsOK
  <2>2. ctx[1].auth = 0
    BY <2>1 DEF FrameOK
  <2> QED
    BY <2>2 DEF Held, HeldBy
<1>5. \A e \in Entry : Len(account[e].tracker.match) = 0
  BY <1>1, <1>2, <1>4, StacksFacts
<1> QED
  BY <1>2, <1>3, <1>4, <1>5

\* The host function's frame ends.
LEMMA HostFnPops ==
    ASSUME BInv, SInv, Consistent, Len(ctx) = 1, ~ Creating, NEW d, d = Below(ctx),
           NEW b, \A e \in Entry : Len(b[e].tracker.match) = 0 /\ Rooted(b[e].tracker),
           NEW w, InvokersOK(w), Len(w) = 0
    PROVE  StackInv(d, call_stack, b, w, "run")
<1>1. /\ IsSeq(ctx) /\ Calls(ctx, call_stack) /\ call_stack \in Seq(AuthStackFrame)
      /\ Len(call_stack) = 0 /\ ctx[Len(ctx)].height = Len(call_stack)
  BY BFacts, SFacts, NoCalls DEF Consistent, Top
<1>2. Len(d) = 0
  <2>1. Len(ctx) > 0
    OBVIOUS
  <2>2. Len(d) = Len(ctx) - 1
    BY <1>1, <2>1, SeqPop
  <2> QED
    BY <2>2
<1>3. Calls(d, call_stack)
  BY <1>1, CallsPop
<1>4. Stacks(d, call_stack, b)
  BY <1>1, <1>2, StacksEmpty
<1>5. Speakers(d, call_stack, w)
  BY <1>2 DEF Speakers
<1> QED
  BY <1>1, <1>2, <1>3, <1>4, <1>5 DEF StackInv

\* The host function returns.
LEMMA ReturnFromHostFnStacks ==
    ASSUME BInv, SInv, ReturnFromHostFn
    PROVE  SInv'
<1>1. /\ status = "run" /\ Consistent /\ Len(ctx) = 1 /\ ~ Creating /\ ctx' = Below(ctx)
      /\ call_stack' = call_stack /\ account' = account /\ invoker' = invoker /\ tx' = tx
      /\ status' = status /\ started' = started
  BY DEF ReturnFromHostFn, PopCtx, Below, Consistent
<1>2. \A e \in Entry : Len(account[e].tracker.match) = 0 /\ Rooted(account[e].tracker)
  <2>1. IsSeq(ctx) /\ Calls(ctx, call_stack) /\ Accounts(account)
        /\ Stacks(ctx, call_stack, account)
    BY <1>1, BFacts, SFacts
  <2> QED
    BY <1>1, <2>1, NoCalls, StacksFacts
<1>3. InvokersOK(invoker) /\ Len(invoker) = 0
  BY <1>1, SFacts, NoCalls
<1>4. StackInv(ctx', call_stack', account', invoker', "run")
  BY <1>1, <1>2, <1>3, HostFnPops
<1>5. started' \in BOOLEAN
  BY <1>1 DEF SInv
<1> QED
  BY <1>1, <1>4, <1>5, SameTxStacks

\* __check_auth returns: the borrowed tracker is in step again.
LEMMA ReturnFromCheckAuthStacks ==
    ASSUME BInv, SInv, ReturnFromCheckAuth
    PROVE  SInv'
<1> DEFINE e == Top.auth
           acct == Popped(account, Borrowed)
           stack == Below(call_stack)
<1>1. /\ InContract /\ Top.entry = "auth" /\ status = "run" /\ ctx' = Below(ctx) /\ tx' = tx
      /\ started' = started /\ invoker' = PoppedInvokers(invoker)
      /\ \/ /\ account' = MarkVerified(acct, e) /\ call_stack' = Marked(stack)
            /\ status' = status
         \/ status' = "recoverable" /\ account' = acct /\ call_stack' = stack
  BY DEF ReturnFromCheckAuth, InContract, PopCtx, Below, Grant, MarkVerified, Proceed, Marked
<1>2. /\ IsSeq(ctx) /\ Len(ctx) \in Nat /\ Len(ctx) > 1 /\ FrameOK(Top, Held(ctx))
      /\ Accounts(account)
  BY <1>1, BFacts DEF InContract
<1>3. e \in Entry
  BY <1>1, <1>2 DEF FrameOK
<1>4. Accounts(acct)
  BY <1>2, PushedKept
<1> HIDE DEF e, acct, stack
<1>5. StackInv(ctx', stack, acct, invoker', "run")
  BY <1>1, ContractPops DEF acct, stack
<1>6. IsSeq(ctx') /\ Len(ctx') > 0
  BY <1>1, <1>2, SeqPop
<1>7. started' \in BOOLEAN
  BY <1>1 DEF SInv
<1>8. CASE account' = MarkVerified(acct, e) /\ call_stack' = Marked(stack) /\ status' = status
  <2>1. \A x \in Entry : account'[x].tracker = acct[x].tracker
    BY <1>3, <1>4, <1>8, VerifiedAccounts
  <2>2. StackInv(ctx', call_stack', account', invoker', "run")
    BY <1>4, <1>5, <1>6, <1>8, <2>1, StackInvProceed
  <2> QED
    BY <1>1, <1>7, <1>8, <2>2, SameTxStacks
<1>9. CASE status' = "recoverable" /\ account' = acct /\ call_stack' = stack
  <2>1. StackInv(ctx', call_stack', account', invoker', "recoverable")
    BY <1>5, <1>9, StackInvStatus
  <2> QED
    BY <1>1, <1>7, <1>9, <2>1, SameTxStacks
<1> QED
  BY <1>1, <1>8, <1>9

\* A rollback to a frame below which nothing matched.
LEMMA RollbackRooted ==
    ASSUME NEW tree, NEW t \in Tracker(tree), NEW x \in SUBSET Node(tree),
           Len(t.match) = 0, Rooted(t)
    PROVE  LET u == rollback_tracker(t, x) IN Len(u.match) = 0 /\ Rooted(u)
<1> DEFINE u == rollback_tracker(t, x)
<1>1. /\ u.match = t.match /\ u.exhausted = x
      /\ 1 \notin x => u.root_frame = 0 /\ u.done = FALSE
  BY DEF rollback_tracker, Tracker
<1> QED
  BY <1>1 DEF Rooted

\* A frame fails: its trackers are rolled back and popped.
LEMMA UnwindStacks ==
    ASSUME BInv, SInv, Unwind
    PROVE  SInv'
<1>1. /\ Consistent /\ status \in {"recoverable", "unrecoverable"} /\ Len(ctx) > 0
      /\ ~ Creating /\ ctx' = Below(ctx) /\ tx' = tx /\ started' = started
      /\ \/ /\ Len(invoker) # Len(Top.snapshot.invoker)
            /\ status' = "bad_snapshot" /\ call_stack' = call_stack /\ invoker' = invoker
         \/ /\ Len(invoker) = Len(Top.snapshot.invoker) /\ status' \in {"run", status}
            /\ \/ /\ call_stack = << >> /\ account' = RolledBack
                  /\ invoker' = RolledBackInvokers /\ call_stack' = call_stack
               \/ /\ call_stack # << >> /\ account' = Popped(RolledBack, Borrowed)
                  /\ invoker' = PoppedInvokers(RolledBackInvokers)
                  /\ call_stack' = Below(call_stack)
  BY DEF Unwind, PopCtx, Below, Consistent
<1>2. /\ IsSeq(ctx) /\ Len(ctx) \in Nat /\ Accounts(account)
      /\ call_stack \in Seq(AuthStackFrame) /\ Len(call_stack) \in Nat
      /\ InvokersOK(invoker) /\ Len(invoker) \in Nat
      /\ StackInv(ctx, call_stack, account, invoker, status)
      /\ \A i \in 1 .. Len(ctx) : FrameType(ctx[i])
      /\ Calls(ctx, call_stack) /\ Stacks(ctx, call_stack, account)
      /\ Speakers(ctx, call_stack, invoker)
  BY <1>1, BFacts, SFacts
<1>3. started' \in BOOLEAN
  BY <1>1 DEF SInv
<1>4. CASE /\ Len(invoker) # Len(Top.snapshot.invoker)
           /\ status' = "bad_snapshot" /\ call_stack' = call_stack /\ invoker' = invoker
  <2>1. \A i \in 1 .. Len(ctx') : FrameType(ctx'[i])
    <3>1. Len(ctx') = Len(ctx) - 1 /\ \A i \in 1 .. Len(ctx) - 1 : ctx'[i] = ctx[i]
      BY <1>1, <1>2, SeqPop
    <3> QED
      BY <1>2, <3>1
  <2>2. StackInv(ctx', call_stack', account', invoker', status')
    BY <1>2, <1>4, <2>1 DEF StackInv, Errors
  <2> QED
    BY <1>1, <1>3, <2>2, SameTxStacks
<1>5. CASE /\ Len(invoker) = Len(Top.snapshot.invoker) /\ status' \in {"run", status}
           /\ call_stack = << >> /\ account' = RolledBack
           /\ invoker' = RolledBackInvokers /\ call_stack' = call_stack
  <2>1. Len(ctx) = 1
    <3>1. Len(ctx) = 1 \/ Len(ctx) > 1
      BY <1>1, <1>2, OneOrMore
    <3>2. Len(call_stack) = 0
      BY <1>5
    <3> QED
      BY <1>1, <3>1, <3>2, TopFacts
  <2>2. /\ Len(invoker) = 0 /\ Held(ctx) = {}
        /\ \A e \in Entry : Len(account[e].tracker.match) = 0
    BY <1>1, <2>1, NoCalls
  <2>3. InvokersOK(invoker') /\ Len(invoker') = 0
    BY <1>1, <1>5, <2>2, RolledBackInvokersFacts
  <2>4. ASSUME NEW e \in Entry
        PROVE  Len(account'[e].tracker.match) = 0 /\ Rooted(account'[e].tracker)
    <3>1. /\ Top.snapshot.account[e].exhausted \in SUBSET Node(Entries[e].tree)
          /\ account'[e].tracker =
                rollback_tracker(account[e].tracker, Top.snapshot.account[e].exhausted)
      BY <1>1, <1>5, <2>2, RolledBackTracker
    <3>2. account[e].tracker \in Tracker(Entries[e].tree) /\ Rooted(account[e].tracker)
      BY <1>2, StacksFacts
    <3> QED
      BY <2>2, <3>1, <3>2, RollbackRooted
  <2>5. StackInv(ctx', call_stack, account', invoker', "run")
    BY <1>1, <2>1, <2>3, <2>4, HostFnPops
  <2>6. StackInv(ctx', call_stack', account', invoker', status')
    BY <1>1, <1>5, <2>5, StackInvStatus
  <2> QED
    BY <1>1, <1>3, <2>6, SameTxStacks
<1>6. CASE /\ Len(invoker) = Len(Top.snapshot.invoker) /\ status' \in {"run", status}
           /\ call_stack # << >> /\ account' = Popped(RolledBack, Borrowed)
           /\ invoker' = PoppedInvokers(RolledBackInvokers)
           /\ call_stack' = Below(call_stack)
  <2>1. Len(call_stack) > 0
    BY <1>2, <1>6
  <2>2. PopsEntries(ctx, account, account')
    BY <1>1, <1>6, <2>1, RolledBackPops
  <2>3. PopsInvokers(invoker, invoker')
    <3>1. Deeper(invoker)
      BY <1>2 DEF Speakers, Deeper
    <3> DEFINE r == RolledBackInvokers
    <3>2. /\ InvokersOK(r) /\ Len(r) = Len(invoker)
          /\ \A i \in 1 .. Len(invoker) : /\ SameInvoker(invoker[i], r[i])
                                          /\ r[i].tracker.match = invoker[i].tracker.match
      BY <1>1, <1>6, RolledBackInvokersFacts
    <3>3. invoker' = PoppedInvokers(r)
      BY <1>6
    <3> HIDE DEF r
    <3> QED
      BY <1>2, <3>1, <3>2, <3>3, PoppedInvokersPop
  <2>4. ctx[Len(ctx)].height = Len(call_stack)
    BY <1>1, TopFacts DEF Top
  <2>5. StackInv(ctx, call_stack, account, invoker, "run")
    BY <1>1, <1>2, StackInvStatus
  <2>6. StackInv(ctx', call_stack', account', invoker', "run")
    BY <1>1, <1>2, <1>6, <2>1, <2>2, <2>3, <2>4, <2>5, StackInvPop
  <2>7. StackInv(ctx', call_stack', account', invoker', status')
    BY <1>1, <1>6, <2>6, StackInvStatus
  <2> QED
    BY <1>1, <1>3, <2>7, SameTxStacks
<1> QED
  BY <1>1, <1>4, <1>5, <1>6

\* A frame fails after an internal error of the manager.
LEMMA UnwindInternalStacks ==
    ASSUME BInv, SInv, UnwindInternal
    PROVE  SInv'
<1>1. /\ status \in {"bad_snapshot", "bad_match_stack"} /\ Len(ctx) > 0 /\ ctx' = Below(ctx)
      /\ tx' = tx /\ call_stack' = call_stack /\ account' = account /\ invoker' = invoker
      /\ status' = status /\ started' = started
  BY DEF UnwindInternal, PopCtx, Below
<1>2. \A i \in 1 .. Len(ctx') : FrameType(ctx'[i])
  <2>1. IsSeq(ctx) /\ Len(ctx) \in Nat /\ \A i \in 1 .. Len(ctx) : FrameType(ctx[i])
    BY BFacts, SFacts
  <2>2. Len(ctx') = Len(ctx) - 1 /\ \A i \in 1 .. Len(ctx) - 1 : ctx'[i] = ctx[i]
    BY <1>1, <2>1, SeqPop
  <2> QED
    BY <2>1, <2>2
<1>3. call_stack \in Seq(AuthStackFrame) /\ InvokersOK(invoker)
  BY SFacts
<1>4. StackInv(ctx', call_stack', account', invoker', status')
  BY <1>1, <1>2, <1>3 DEF StackInv, Errors
<1>5. started' \in BOOLEAN
  BY <1>1 DEF SInv
<1> QED
  BY <1>1, <1>4, <1>5, SameTxStacks

\* A frame starts to fail.
LEMMA FailStacks ==
    ASSUME BInv, SInv, Fail
    PROVE  SInv'
<1>1. /\ status = "run" /\ status' \in Errors /\ tx' = tx /\ ctx' = ctx
      /\ call_stack' = call_stack /\ account' = account /\ invoker' = invoker
      /\ started' = started
  BY DEF Fail, Error, Errors
<1>2. StackInv(ctx', call_stack', account', invoker', status')
  BY <1>1, SFacts, StackInvFails
<1>3. started' \in BOOLEAN
  BY <1>1 DEF SInv
<1> QED
  BY <1>1, <1>2, <1>3, SameTxStacks

\* A contract calls require_auth.
LEMMA RequireStacks ==
    ASSUME BInv, SInv, NEW addr \in Address, NEW f \in Function, RequireAuth(addr, f)
    PROVE  SInv'
<1>1. /\ status = "run" /\ Consistent /\ Len(ctx) > 1 /\ ~ Creating
      /\ FnContract[f] = Top.contract /\ require_auth_internal(addr, f)
  BY DEF RequireAuth, InContract, Consistent
<1>2. Len(ctx) > 0
  BY <1>1, BFacts
<1>3. Len(call_stack) > 0 /\ TopCall = ContractFrame(Top.contract)
  BY <1>1, <1>2, TopFacts
<1>4. CallAt(TopCall, f)
  BY <1>1, <1>3 DEF CallAt, ContractFrame
<1> QED
  BY <1>1, <1>2, <1>3, <1>4, RequireAuthStacks

\* A creation asks its deployer.
LEMMA AuthorizeCreateStacks ==
    ASSUME BInv, SInv, AuthorizeCreate
    PROVE  SInv'
<1>1. /\ status = "run" /\ Creating /\ Len(call_stack) > 0 /\ TopCall.kind = "create"
      /\ require_auth_internal(TopCall.deployer, TopCall.fn)
  BY DEF AuthorizeCreate, Creating
<1>2. Len(ctx) > 0
  BY <1>1 DEF BInv
<1>3. CallAt(TopCall, TopCall.fn)
  BY <1>1 DEF CallAt
<1> QED
  BY <1>1, <1>2, <1>3, RequireAuthStacks

\* Every step keeps the stacks tied.
LEMMA NextStacks ==
    ASSUME BInv, SInv, [Next]_vars
    PROVE  SInv'
<1>1. CASE \E c \in Contract, entry \in {"call", "try"} : Call(c, entry)
  BY <1>1, CallStacks
<1>2. CASE \E t \in tx.invoker_trees : AuthorizeAsCurrContract(t)
  BY <1>2, AuthorizeAsStacks
<1>3. CASE \E addr \in Address, f \in Function : RequireAuth(addr, f)
  BY <1>3, RequireStacks
<1>4. CASE \E d \in Address, f \in CreateFn : CreateContract(d, f)
  BY <1>4, CreateStacks
<1>5. CASE AuthorizeCreate \/ FinishCreate
  BY <1>5, AuthorizeCreateStacks, FinishCreateStacks
<1>6. CASE Fail
  BY <1>6, FailStacks
<1>7. CASE Return \/ ReturnFromHostFn \/ ReturnFromCheckAuth
  BY <1>7, ReturnStacks, ReturnFromHostFnStacks, ReturnFromCheckAuthStacks
<1>8. CASE Unwind \/ UnwindInternal
  BY <1>8, UnwindStacks, UnwindInternalStacks
<1>9. CASE UNCHANGED vars
  <2>1. /\ tx' = tx /\ ctx' = ctx /\ call_stack' = call_stack /\ account' = account
        /\ invoker' = invoker /\ status' = status /\ started' = started
    BY <1>9 DEF vars
  <2>2. StackInv(ctx', call_stack', account', invoker', status') /\ started' \in BOOLEAN
    BY <2>1 DEF SInv
  <2> QED
    BY <2>1, <2>2, SameTxStacks
<1> QED
  BY <1>1, <1>2, <1>3, <1>4, <1>5, <1>6, <1>7, <1>8, <1>9 DEF Next

-----------------------------------------------------------------------------
(***************************************************************************)
(* The theorems.                                                           *)
(***************************************************************************)
LEMMA InitStacks == Init => SInv
<1> SUFFICES ASSUME Init PROVE SInv
  OBVIOUS
<1>1. /\ Len(ctx) = 1 /\ ctx[1].contract = NoContract /\ ctx[1].entry = "host"
      /\ ctx[1].auth = 0 /\ ctx[1].height = 0 /\ ctx[1].snapshot.invoker = << >>
      /\ call_stack = << >> /\ invoker = << >> /\ status = "run" /\ started = FALSE
      /\ \A e \in Entry : account[e].tracker = NewTracker
  BY DEF Init
<1>2. /\ call_stack \in Seq(AuthStackFrame) /\ Len(call_stack) = 0
      /\ IsSeq(invoker) /\ Len(invoker) = 0
      /\ IsSeq(ctx[1].snapshot.invoker) /\ Len(ctx[1].snapshot.invoker) = 0
  BY <1>1 DEF IsSeq
<1>3. Calls(ctx, call_stack)
  BY <1>1, <1>2 DEF Calls, Follows
<1>4. Stacks(ctx, call_stack, account)
  <2>1. ASSUME NEW e \in Entry
        PROVE  Len(account[e].tracker.match) = 0 /\ Rooted(account[e].tracker)
    BY <1>1 DEF NewTracker, Rooted
  <2>2. \A p \in 1 .. Len(ctx) : ctx[p].auth = 0
    BY <1>1
  <2> QED
    BY <1>2, <2>1, <2>2, StacksEmpty
<1>5. Speakers(ctx, call_stack, invoker)
  BY <1>1, <1>2 DEF Speakers, Covers
<1>6. \A i \in 1 .. Len(ctx) : FrameType(ctx[i])
  BY <1>1 DEF FrameType
<1>7. InvokersOK(invoker)
  BY <1>2 DEF InvokersOK
<1>8. StackInv(ctx, call_stack, account, invoker, "run")
  BY <1>2, <1>3, <1>4, <1>5, <1>6, <1>7 DEF StackInv
<1> QED
  BY <1>1, <1>8 DEF SInv

(***************************************************************************)
(* The call stack, the match stacks and the invoker trackers are tied      *)
(* together as SInv says in every reachable state: push_frame, pop_frame   *)
(* and the rollback keep them in step.                                     *)
(***************************************************************************)
THEOREM StackInvariance == Spec => []SInv
<1>1. Init => SInv
  BY InitStacks
<1>2. BInv /\ SInv /\ [Next]_vars => SInv'
  BY NextStacks
<1> QED
  BY <1>1, <1>2, Invariance, PTL DEF Spec

\* The invariants give the types ...
LEMMA TypesFollow == BInv /\ SInv => TypeOK
<1> SUFFICES ASSUME BInv, SInv PROVE TypeOK
  OBVIOUS
<1>1. /\ tx \in Transaction /\ Accounts(account) /\ Grants(grants) /\ ContextsOK(ctx)
  BY BFacts DEF Books
<1>2. ASSUME NEW i \in 1 .. Len(ctx)
      PROVE  /\ ctx[i].contract \in Contract \union {NoContract}
             /\ ctx[i].entry \in {"host", "call", "try", "auth"}
             /\ ctx[i].auth # 0 =>
                   ctx[i].auth \in Entry /\ ctx[i].node \in EntryNode(ctx[i].auth)
  <2>1. FrameType(ctx[i])
    BY SFacts
  <2>2. FrameOK(ctx[i], HeldBy(ctx, i))
    BY <1>1 DEF ContextsOK
  <2> QED
    BY <2>1, <2>2 DEF FrameType, FrameOK
<1>3. ASSUME NEW e \in Entry
      PROVE  /\ account[e].tracker \in Tracker(Entries[e].tree)
             /\ account[e].verified \in BOOLEAN
             /\ grants[e] \in [EntryNode(e) -> Nat]
  <2>1. account[e] \in EntryTracker(e)
    BY <1>1 DEF Accounts
  <2>2. account[e].tracker \in Tracker(Entries[e].tree) /\ account[e].verified \in BOOLEAN
    BY <2>1 DEF EntryTracker
  <2>3. grants[e] \in [EntryNode(e) -> Nat]
    BY <1>1 DEF Grants
  <2> QED
    BY <2>2, <2>3
<1>4. /\ call_stack \in Seq(AuthStackFrame)
      /\ \A i \in 1 .. Len(invoker) :
            /\ invoker[i].addr \in Contract /\ invoker[i].tree \in tx.invoker_trees
            /\ invoker[i].tracker \in Tracker(invoker[i].tree)
  BY SFacts DEF InvokersOK, IsInvoker
<1>5. status \in {"run", "recoverable", "unrecoverable", "bad_snapshot", "bad_match_stack"}
      /\ started \in BOOLEAN
  BY DEF SInv, StackInv, Errors
<1> QED
  BY <1>1, <1>2, <1>3, <1>4, <1>5 DEF TypeOK

(***************************************************************************)
(* In every reachable state of the authorization manager the call stack,   *)
(* the trackers of the entries and of the invokers, the contexts and the   *)
(* record of grants have their types; after an internal error too.         *)
(***************************************************************************)
THEOREM TypeCorrect == Spec => []TypeOK
  BY TypesFollow, Invariance, StackInvariance, PTL

\* Path says of a tracker's match stack what IsMatchedPath says.
LEMMA PathMatched ==
    ASSUME NEW tree, NEW t \in Tracker(tree), NEW base \in Nat,
           Path(call_stack, t.match, tree, base)
    PROVE  IsMatchedPath(t, tree, base)
<1>1. t.match \in Seq(Node(tree) \union {0}) /\ Len(t.match) \in Nat
  BY TrackerMatch
<1> SUFFICES ASSUME NEW i \in 1 .. Len(t.match), t.match[i] # 0
             PROVE  /\ IsCallOf(base + i, tree.fn[t.match[i]])
                    /\ tree.parent[t.match[i]] =
                          last_authorized_invocation([t EXCEPT !.match = SubSeq(@, 1, i - 1)])
  BY DEF IsMatchedPath
<1>2. /\ CallAt(call_stack[base + i], tree.fn[t.match[i]])
      /\ LastIs(t.match, i - 1, tree.parent[t.match[i]])
  BY DEF Path
<1>3. IsCallOf(base + i, tree.fn[t.match[i]])
  BY <1>2 DEF IsCallOf, CallAt
<1> DEFINE m == SubSeq(t.match, 1, i - 1)
           u == [t EXCEPT !.match = SubSeq(@, 1, i - 1)]
<1>4. u.match = m
  BY DEF Tracker
<1>5. /\ m \in Seq(Node(tree) \union {0}) /\ Len(m) = i - 1
      /\ \A j \in 1 .. i - 1 : m[j] = t.match[j]
  BY <1>1
<1> HIDE DEF m, u
<1>6. LastIs(m, i - 1, last_authorized_invocation(u))
  <2>1. LastIs(u.match, Len(u.match), last_authorized_invocation(u))
    BY <1>4, <1>5, LastOf
  <2> QED
    BY <1>4, <1>5, <2>1
<1>7. LastIs(m, i - 1, tree.parent[t.match[i]])
  BY <1>2, <1>5, LastSame
<1>8. i - 1 \in Nat
  BY <1>1
<1>9. tree.parent[t.match[i]] = last_authorized_invocation(u)
  BY <1>6, <1>7, <1>8, LastUnique
<1> QED
  BY <1>3, <1>9 DEF u

\* ... the paths of the entries ...
LEMMA MatchesFollow == BInv /\ SInv => MatchesFollowCallStack
<1> SUFFICES ASSUME BInv, SInv, Consistent, NEW e \in Entry
             PROVE  LET t == account[e].tracker
                    IN  /\ IsMatchedPath(t, Entries[e].tree, 0)
                        /\ IF e \in Borrowed THEN Len(t.match) < Len(call_stack)
                           ELSE Len(t.match) = Len(call_stack)
  BY DEF MatchesFollowCallStack
<1>1. /\ IsSeq(ctx) /\ Accounts(account) /\ Borrowed = Held(ctx) /\ Calls(ctx, call_stack)
      /\ Stacks(ctx, call_stack, account)
  BY BFacts, SFacts DEF Consistent
<1>2. /\ account[e].tracker \in Tracker(Entries[e].tree)
      /\ e \in Held(ctx) => Len(account[e].tracker.match) < Len(call_stack)
      /\ e \notin Held(ctx) => Len(account[e].tracker.match) = Len(call_stack)
  BY <1>1, StacksFacts
<1>3. Path(call_stack, account[e].tracker.match, Entries[e].tree, 0)
  BY <1>1 DEF Stacks, EntryOK
<1>4. IsMatchedPath(account[e].tracker, Entries[e].tree, 0)
  BY <1>2, <1>3, PathMatched
<1> QED
  BY <1>1, <1>2, <1>4

(***************************************************************************)
(* The match stack of every authorization entry stays in step with the     *)
(* call stack, whatever calls, creations, authentications and failures     *)
(* happen, and the nodes on it are a path of the entry's tree from its     *)
(* root, each matched by a call of its own function: a node authorizes a   *)
(* call only inside the calls that its ancestors authorized.               *)
(***************************************************************************)
THEOREM MatchesFollowTheCallStack == Spec => []MatchesFollowCallStack
  BY MatchesFollow, Invariance, StackInvariance, PTL

\* ... that trees are not mixed ...
LEMMA TreesApart == BInv /\ SInv => TreesAreNotMixed
<1> SUFFICES ASSUME BInv, SInv, Consistent, NEW e \in Entry \ Borrowed, NEW x \in Entry \ Borrowed,
                    e # x, Entries[e].addr = Entries[x].addr,
                    NEW i \in 1 .. Len(call_stack), NEW j \in 1 .. Len(call_stack),
                    i < j, account[e].tracker.match[i] = 1, account[x].tracker.match[j] = 1
             PROVE  account[e].tracker.match[j] # 0
  BY DEF TreesAreNotMixed
<1>1. /\ IsSeq(ctx) /\ Accounts(account) /\ Borrowed = Held(ctx) /\ Calls(ctx, call_stack)
      /\ Stacks(ctx, call_stack, account)
  BY BFacts, SFacts DEF Consistent
<1>2. /\ Len(call_stack) \in Nat
      /\ Len(account[e].tracker.match) = Len(call_stack)
      /\ Len(account[x].tracker.match) = Len(call_stack)
  BY <1>1, StacksFacts
<1>3. Apart(account[e].tracker.match, account[x].tracker.match)
  BY <1>1 DEF Stacks
<1> QED
  BY <1>2, <1>3 DEF Apart

(***************************************************************************)
(* has_active_tracker keeps the trees of one address apart: where a second *)
(* entry of the address starts inside the call where a first one started,  *)
(* the first one has authorized that very call.                            *)
(***************************************************************************)
THEOREM TreesStayApart == Spec => []TreesAreNotMixed
  BY TreesApart, Invariance, StackInvariance, PTL

\* ... and the frames of the invoker trackers.
LEMMA InvokersSpeak == BInv /\ SInv => InvokersSpeakForTheirFrame
<1> SUFFICES ASSUME BInv, SInv, Consistent, NEW i \in 1 .. Len(invoker)
             PROVE  LET t    == invoker[i].tracker
                        base == Len(call_stack) - Len(t.match)
                    IN  /\ base > 0
                        /\ call_stack[base] = [kind |-> "contract", contract |-> invoker[i].addr]
                        /\ IsMatchedPath(t, invoker[i].tree, base)
                        /\ i < Len(invoker) =>
                              Len(invoker[i + 1].tracker.match) <= Len(t.match)
  BY DEF InvokersSpeakForTheirFrame
<1>1. /\ InvokersOK(invoker) /\ Len(invoker) \in Nat /\ Len(call_stack) \in Nat
      /\ Speakers(ctx, call_stack, invoker)
  BY SFacts DEF Consistent
<1> DEFINE t == invoker[i].tracker
           base == Len(call_stack) - Len(t.match)
<1>2. IsInvoker(invoker[i]) /\ SpeaksFor(call_stack, invoker[i])
  BY <1>1 DEF InvokersOK, Speakers
<1>3. t \in Tracker(invoker[i].tree) /\ Len(t.match) \in Nat
  BY <1>2, InvokerFacts
<1>4. base \in Nat /\ base > 0
  BY <1>1, <1>2, <1>3 DEF SpeaksFor
<1>5. /\ call_stack[base] = ContractFrame(invoker[i].addr)
      /\ Path(call_stack, t.match, invoker[i].tree, base)
  BY <1>2 DEF SpeaksFor
<1>6. i < Len(invoker) => Len(invoker[i + 1].tracker.match) <= Len(t.match)
  BY <1>1 DEF Speakers, Depth
<1> HIDE DEF t, base
<1>7. IsMatchedPath(t, invoker[i].tree, base)
  BY <1>3, <1>4, <1>5, PathMatched
<1> QED
  BY <1>4, <1>5, <1>6, <1>7 DEF t, base, ContractFrame

(***************************************************************************)
(* A tracker that authorize_as_curr_contract created speaks for the frame  *)
(* below its match stack, which is one of the contract that created it,    *)
(* until that frame's next call is over; trackers with the shorter         *)
(* lifetime are on top, so that pop_frame drops exactly those whose call   *)
(* is over (the comment in pop_frame).                                     *)
(***************************************************************************)
THEOREM InvokersSpeakForFrames == Spec => []InvokersSpeakForTheirFrame
  BY InvokersSpeak, Invariance, StackInvariance, PTL
=============================================================================
