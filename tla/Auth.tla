--------------------------------- MODULE Auth ---------------------------------
(***************************************************************************)
(* The authorization manager in enforcing mode                             *)
(* (soroban-env-host/src/auth.rs) under the host's context stack: which    *)
(* node of which authorization entry a require_auth call spends, lazy      *)
(* authentication with its nonce, authorizations that contracts give       *)
(* themselves, and the rollback of all of it when calls fail.  Contracts   *)
(* and custom accounts are arbitrary programs.                             *)
(*                                                                         *)
(* An AuthorizedInvocation tree is a numbering of its nodes in preorder:   *)
(* node 1 is the root, fn[n] the function node n authorizes and parent[n]  *)
(* its parent.  The arguments of require_auth are part of the function.    *)
(***************************************************************************)
EXTENDS Naturals, Sequences, FiniteSets, FiniteSetsExt

CONSTANTS
    Contract,       \* contract addresses, each possibly a custom account
    Account,        \* classic account addresses
    Function,       \* contract functions with arguments
    FnContract,     \* the contract a function belongs to
    CreateFn,       \* the CreateContractArgs of create_contract
    Transaction,    \* the transactions: their SorobanAuthorizationEntries and
                    \* what contracts pass to authorize_as_curr_contract
    UsedNonces,     \* nonces of the ledger before the transaction
    MaxDepth,       \* DEFAULT_HOST_DEPTH_LIMIT
    MaxInvokers     \* bound on the invoker trackers that exist at a time

Address == Contract \union Account

AnyFn == Function \union CreateFn

IsTree(t) ==
    /\ DOMAIN t = {"fn", "parent"}
    /\ Len(t.fn) > 0 /\ Len(t.fn) = Len(t.parent)
    /\ \A n \in 1 .. Len(t.fn) :
          /\ t.fn[n] \in AnyFn
          /\ IF n = 1 THEN t.parent[n] = 0 ELSE t.parent[n] \in 1 .. n - 1

Node(t) == 1 .. Len(t.fn)

\* An entry: who authorizes the tree, whether as the transaction's source
\* account, the nonce, and whether the signature expiration is acceptable.
IsEntry(e) ==
    /\ e.addr \in Address /\ e.source \in BOOLEAN
    /\ e.source => e.addr \in Account
    /\ e.nonce \in Nat /\ e.live \in BOOLEAN
    /\ IsTree(e.tree)

ASSUME AuthAssumption ==
    /\ Contract \intersect Account = {} /\ Function \intersect CreateFn = {}
    /\ FnContract \in [Function -> Contract]
    /\ \A x \in Transaction :
          /\ DOMAIN x = {"entries", "invoker_trees"}
          /\ \A i \in 1 .. Len(x.entries) : IsEntry(x.entries[i])
          /\ \A t \in x.invoker_trees : IsTree(t)
    /\ MaxDepth \in Nat \ {0} /\ MaxInvokers \in Nat

VARIABLES
    tx,             \* the transaction that is executed
    ctx,            \* HostImpl.context_stack with the rollback points
    call_stack,     \* AuthorizationManager.call_stack
    account,        \* account_trackers: one per entry
    invoker,        \* invoker_contract_trackers
    nonces,         \* the nonce entries in storage
    status,         \* "run", or the error that is being propagated
    started,        \* the host function frame has made its one call
    grants          \* history: how often each node has authorized a call
                    \* that has not been rolled back

vars == <<tx, ctx, call_stack, account, invoker, nonces, status, started, grants>>

Entries == tx.entries

Entry == 1 .. Len(Entries)

EntryNode(e) == Node(Entries[e].tree)

NonceKey(e) == <<Entries[e].addr, Entries[e].nonce>>

-----------------------------------------------------------------------------
(* InvocationTracker.  match[i] is the node that frame i of the call stack
   matched, 0 for MatchState::Unmatched.  root_frame is the 1-based
   root_exhausted_frame, 0 for None. *)

NewTracker == [exhausted |-> {}, match |-> << >>, root_frame |-> 0, done |-> FALSE]

push_frame(t) == [t EXCEPT !.match = Append(@, 0)]

pop_frame(t) ==
    LET n == IF Len(t.match) > 0 THEN Len(t.match) - 1 ELSE 0
    IN  [t EXCEPT !.match = SubSeq(@, 1, n),
                  !.done = @ \/ (t.root_frame # 0 /\ t.root_frame > n)]

is_active(t) == 1 \in t.exhausted /\ ~ t.done

current_frame_is_already_matched(t) ==
    Len(t.match) > 0 /\ t.match[Len(t.match)] # 0

last_authorized_invocation(t) ==
    LET matched == {i \in 1 .. Len(t.match) : t.match[i] # 0}
    IN  IF matched = {} THEN 0 ELSE t.match[Max(matched)]

\* Mutant: the index is one too large.
MatchingNode_OffByOne(t, tree, f, allow_matching_root) ==
    LET last == last_authorized_invocation(t)
        subs == {n \in Node(tree) : /\ tree.parent[n] = last /\ tree.fn[n] = f
                                    /\ n \notin t.exhausted}
    IN  IF \/ current_frame_is_already_matched(t)
           \/ subs = {}
           \/ last = 0 /\ ~ allow_matching_root
        THEN 0 ELSE Min(subs) + 1

\* The node that maybe_extend_invocation_match finds; 0 if there is none.
MatchingNode(t, tree, f, allow_matching_root) ==
    LET last == last_authorized_invocation(t)
        subs == {n \in Node(tree) : /\ tree.parent[n] = last /\ tree.fn[n] = f
                                    /\ n \notin t.exhausted}
    IN  IF \/ current_frame_is_already_matched(t)
           \/ subs = {}
           \/ last = 0 /\ ~ allow_matching_root
        THEN 0 ELSE Min(subs)

\* ... and what it does to the tracker.
extend_match(t, n) ==
    [t EXCEPT !.exhausted = @ \union {n},
              !.match = [@ EXCEPT ![Len(t.match)] = n],
              !.root_frame = IF n = 1 THEN Len(t.match) ELSE @]

\* Mutant: only the processing state is rolled back.
rollback_tracker_KeepsExhausted(t, exhausted) ==
    [t EXCEPT !.root_frame = IF 1 \in exhausted THEN @ ELSE 0,
              !.done = IF 1 \in exhausted THEN @ ELSE FALSE]

\* Only the tree is rolled back, not the stack.
rollback_tracker(t, exhausted) ==
    [t EXCEPT !.exhausted = exhausted,
              !.root_frame = IF 1 \in exhausted THEN @ ELSE 0,
              !.done = IF 1 \in exhausted THEN @ ELSE FALSE]

-----------------------------------------------------------------------------
(* AuthorizationManager *)

\* The trackers that wait for a __check_auth frame hold their own borrow.
Borrowed == {ctx[i].auth : i \in 1 .. Len(ctx)} \ {0}

\* push_tracker_frame
Pushed(acct, borrowed) ==
    [e \in Entry |-> IF e \in borrowed THEN acct[e]
                     ELSE [acct[e] EXCEPT !.tracker = push_frame(@)]]

PushedInvokers ==
    [i \in 1 .. Len(invoker) |-> [invoker[i] EXCEPT !.tracker = push_frame(@)]]

\* Mutant: trackers that are being authenticated are popped as well.
Popped_Borrowed(acct, borrowed) ==
    [e \in Entry |-> [acct[e] EXCEPT !.tracker = pop_frame(@)]]

\* Mutant: at most one tracker is dropped.
PoppedInvokers_One(inv) ==
    LET popped == [i \in 1 .. Len(inv) |-> [inv[i] EXCEPT !.tracker = pop_frame(@)]]
    IN  IF Len(inv) > 0 /\ popped[Len(inv)].tracker.match = << >>
        THEN SubSeq(popped, 1, Len(inv) - 1) ELSE popped

\* The rest of pop_frame: borrowed trackers are skipped, and the invoker
\* trackers that went out of scope are dropped from the end of the list.
Popped(acct, borrowed) ==
    [e \in Entry |-> IF e \in borrowed THEN acct[e]
                     ELSE [acct[e] EXCEPT !.tracker = pop_frame(@)]]

PoppedInvokers(inv) ==
    LET popped == [i \in 1 .. Len(inv) |-> [inv[i] EXCEPT !.tracker = pop_frame(@)]]
        inScope == {i \in 1 .. Len(inv) : popped[i].tracker.match # << >>}
    IN  SubSeq(popped, 1, IF inScope = {} THEN 0 ELSE Max(inScope))

NoSnapshot == [exhausted |-> {}, verified |-> FALSE, present |-> FALSE]

\* push_frame of a contract frame: the snapshot is taken after the push, which
\* does not change what it holds.
Snapshot(borrowed) ==
    [account |-> [e \in Entry |->
                     IF e \in borrowed THEN NoSnapshot
                     ELSE [exhausted |-> account[e].tracker.exhausted,
                           verified |-> account[e].verified, present |-> TRUE]],
     invoker |-> [i \in 1 .. Len(invoker) |-> invoker[i].tracker.exhausted]]

\* The context of a frame that authenticates entry e, or no entry (0); height
\* is history: the place of the frame on the call stack.
NewContext(c, entry, e, n) ==
    [contract |-> c, entry |-> entry, auth |-> e, node |-> n,
     height |-> Len(call_stack) + 1,
     snapshot |-> Snapshot(Borrowed \union {e}), nonces |-> nonces, grants |-> grants]

NoContract == "none"

Init ==
    /\ tx \in Transaction
    /\ account = [e \in Entry |-> [tracker |-> NewTracker, verified |-> FALSE]]
    /\ invoker = << >>
    /\ nonces = UsedNonces
    /\ grants = [e \in Entry |-> [n \in EntryNode(e) |-> 0]]
    /\ call_stack = << >>
    /\ status = "run"
    /\ started = FALSE
    /\ ctx = << [contract |-> NoContract, entry |-> "host", auth |-> 0, node |-> 0,
                 height |-> 0,
                 snapshot |-> [account |-> [e \in Entry |->
                                  [exhausted |-> {}, verified |-> FALSE, present |-> TRUE]],
                               invoker |-> << >>],
                 nonces |-> nonces, grants |-> grants] >>

Top == ctx[Len(ctx)]

TopCall == call_stack[Len(call_stack)]

Creating == Len(call_stack) > 0 /\ TopCall.kind = "create"

\* A contract of the top frame is running.
InContract ==
    /\ status = "run" /\ Len(ctx) > 1
    /\ ~ Creating

InHostFn == status = "run" /\ Len(ctx) = 1 /\ ~ Creating /\ ~ started

Error(kind) ==
    /\ status' = kind
    /\ UNCHANGED <<tx, ctx, call_stack, nonces, started, grants>>

OnStack(c) == \E i \in 1 .. Len(ctx) : ctx[i].contract = c

\* call and try_call of a contract; a call that is refused is a Fail.
Call(c, entry) ==
    /\ InContract \/ (InHostFn /\ entry = "call")
    /\ ~ OnStack(c) /\ Len(ctx) < MaxDepth
    /\ account' = Pushed(account, Borrowed)
    /\ invoker' = PushedInvokers
    /\ ctx' = Append(ctx, NewContext(c, entry, 0, 0))
    /\ call_stack' = Append(call_stack, [kind |-> "contract", contract |-> c])
    /\ started' = TRUE
    /\ UNCHANGED <<tx, nonces, status, grants>>

\* authorize_as_curr_contract
AuthorizeAsCurrContract(tree) ==
    /\ InContract
    /\ Len(invoker) < MaxInvokers
    /\ invoker' = Append(invoker, [addr |-> Top.contract, tree |-> tree,
                                   tracker |-> NewTracker])
    /\ UNCHANGED <<tx, ctx, call_stack, account, nonces, status, started, grants>>

-----------------------------------------------------------------------------
(* require_auth *)

\* The call is authorized; a create_contract goes on.
Proceed(stack) ==
    call_stack' = IF Len(stack) > 0 /\ stack[Len(stack)].kind = "create"
                  THEN [stack EXCEPT ![Len(stack)].authed = TRUE]
                  ELSE stack

\* The direct invoker is considered to have authorized the call.
DirectInvoker(addr) ==
    /\ Len(call_stack) > 1
    /\ LET caller == call_stack[Len(call_stack) - 1]
       IN  caller.kind = "contract" /\ caller.contract = addr

MatchingInvokers(addr, f) ==
    {i \in 1 .. Len(invoker) :
        /\ invoker[i].addr = addr
        /\ MatchingNode(invoker[i].tracker, invoker[i].tree, f, TRUE) # 0}

ByDirectInvoker(addr) ==
    /\ DirectInvoker(addr)
    /\ Proceed(call_stack)
    /\ UNCHANGED <<tx, ctx, account, invoker, nonces, status, started, grants>>

\* maybe_check_invoker_contract_auth; a tracker without frames has no place to
\* write the match to.
ByInvokerTracker(addr, f) ==
    /\ ~ DirectInvoker(addr) /\ Len(call_stack) > 1
    /\ MatchingInvokers(addr, f) # {}
    /\ LET i == Min(MatchingInvokers(addr, f))
           t == invoker[i].tracker
       IN  IF t.match = << >>
           THEN Error("bad_match_stack") /\ UNCHANGED <<account, invoker>>
           ELSE /\ invoker' = [invoker EXCEPT ![i].tracker =
                      extend_match(t, MatchingNode(t, invoker[i].tree, f, TRUE))]
                /\ Proceed(call_stack)
                /\ UNCHANGED <<tx, ctx, account, nonces, status, started, grants>>

\* Mutant: every entry may start at every call.
has_active_tracker_Never(addr) == FALSE

has_active_tracker(addr) ==
    \E e \in Entry \ Borrowed :
        /\ Entries[e].addr = addr
        /\ is_active(account[e].tracker)
        /\ ~ current_frame_is_already_matched(account[e].tracker)

EntryMatch(e, f) ==
    MatchingNode(account[e].tracker, Entries[e].tree, f,
                 ~ has_active_tracker(Entries[e].addr))

MatchingEntries(addr, f) ==
    {e \in Entry \ Borrowed : Entries[e].addr = addr /\ EntryMatch(e, f) # 0}

\* Mutant: an existing nonce entry is overwritten.
NonceAcceptable_Overwrites(e) == Entries[e].live

\* verify_and_consume_nonce, consume_nonce
NonceAcceptable(e) == Entries[e].live /\ NonceKey(e) \notin nonces

Grant(acct, e, n) ==
    /\ account' = [acct EXCEPT ![e] = [@ EXCEPT !.verified = TRUE]]
    /\ grants' = [grants EXCEPT ![e] = [@ EXCEPT ![n] = grants[e][n] + 1]]

CheckAuthAllowed(c) ==
    /\ ~ OnStack(c) \/ Top.contract = c
    /\ Len(ctx) < MaxDepth

\* check_account_contract_auth: the tracker is borrowed, not pushed, while
\* __check_auth runs.
EnterCheckAuth(acct, e, n) ==
    /\ account' = Pushed(acct, Borrowed \union {e})
    /\ invoker' = PushedInvokers
    /\ ctx' = Append(ctx, NewContext(Entries[e].addr, "auth", e, n))
    /\ call_stack' = Append(call_stack,
                            [kind |-> "contract", contract |-> Entries[e].addr])
    /\ UNCHANGED <<tx, nonces, status, started, grants>>

\* require_auth_enforcing, maybe_authorize_invocation
ByEntry(addr, f) ==
    /\ ~ DirectInvoker(addr)
    /\ Len(call_stack) > 1 => MatchingInvokers(addr, f) = {}
    /\ MatchingEntries(addr, f) # {}
    /\ LET e == Min(MatchingEntries(addr, f))
           n == EntryMatch(e, f)
           acct == [account EXCEPT ![e] =
                      [@ EXCEPT !.tracker = extend_match(account[e].tracker, n)]]
       IN  \/ /\ account[e].verified \/ Entries[e].source
              /\ Grant(acct, e, n)
              /\ Proceed(call_stack)
              /\ UNCHANGED <<tx, ctx, invoker, nonces, status, started>>
           \/ /\ ~ account[e].verified /\ ~ Entries[e].source
              /\ addr \in Account
              \* check_account_authentication, then the nonce
              /\ \/ /\ NonceAcceptable(e)
                    /\ Grant(acct, e, n)
                    /\ nonces' = nonces \union {NonceKey(e)}
                    /\ Proceed(call_stack)
                    /\ UNCHANGED <<tx, ctx, invoker, status, started>>
                 \/ /\ Error("recoverable")
                    /\ account' = acct
                    /\ UNCHANGED invoker
           \/ /\ ~ account[e].verified /\ ~ Entries[e].source
              /\ addr \in Contract
              /\ IF CheckAuthAllowed(addr)
                 THEN EnterCheckAuth(acct, e, n)
                 ELSE /\ Error("recoverable")
                      /\ account' = acct
                      /\ UNCHANGED invoker

Unauthorized(addr, f) ==
    /\ ~ DirectInvoker(addr)
    /\ Len(call_stack) > 1 => MatchingInvokers(addr, f) = {}
    /\ MatchingEntries(addr, f) = {}
    /\ Error("recoverable")
    /\ UNCHANGED <<account, invoker>>

require_auth_internal(addr, f) ==
    \/ ByDirectInvoker(addr)
    \/ ByInvokerTracker(addr, f)
    \/ ByEntry(addr, f)
    \/ Unauthorized(addr, f)

\* require_auth and require_auth_for_args
RequireAuth(addr, f) ==
    /\ InContract
    /\ FnContract[f] = Top.contract
    /\ require_auth_internal(addr, f)

-----------------------------------------------------------------------------
(* create_contract_internal with a deployer: a frame of the authorization
   manager only, popped whatever happens. *)

CreateContract(d, f) ==
    /\ InContract \/ InHostFn
    /\ account' = Pushed(account, Borrowed)
    /\ invoker' = PushedInvokers
    /\ started' = TRUE
    /\ call_stack' = Append(call_stack, [kind |-> "create", deployer |-> d,
                                         fn |-> f, authed |-> FALSE])
    /\ UNCHANGED <<tx, ctx, nonces, status, grants>>

AuthorizeCreate ==
    /\ status = "run" /\ Creating /\ ~ TopCall.authed
    /\ require_auth_internal(TopCall.deployer, TopCall.fn)

\* Mutant: a failed creation leaves the frame on the trackers.
FinishCreate_KeepsTrackers ==
    /\ Creating
    /\ IF status = "run"
       THEN TopCall.authed /\ status' \in {"run", "recoverable"}
       ELSE status \in {"recoverable", "unrecoverable"} /\ UNCHANGED status
    /\ IF status' = "run"
       THEN account' = Popped(account, Borrowed) /\ invoker' = PoppedInvokers(invoker)
       ELSE UNCHANGED <<account, invoker>>
    /\ call_stack' = SubSeq(call_stack, 1, Len(call_stack) - 1)
    /\ UNCHANGED <<tx, ctx, nonces, started, grants>>

\* create_contract_with_id may fail too.
FinishCreate ==
    /\ Creating
    /\ IF status = "run"
       THEN TopCall.authed /\ status' \in {"run", "recoverable"}
       ELSE status \in {"recoverable", "unrecoverable"} /\ UNCHANGED status
    /\ account' = Popped(account, Borrowed)
    /\ invoker' = PoppedInvokers(invoker)
    /\ call_stack' = SubSeq(call_stack, 1, Len(call_stack) - 1)
    /\ UNCHANGED <<tx, ctx, nonces, started, grants>>

-----------------------------------------------------------------------------
(* The end of a frame *)

\* with_frame fails, whatever the reason.
Fail ==
    /\ status = "run" /\ Len(ctx) > 0
    /\ Error("recoverable") \/ Error("unrecoverable")
    /\ UNCHANGED <<account, invoker>>

PopCtx == ctx' = SubSeq(ctx, 1, Len(ctx) - 1)

\* pop_frame without a snapshot.  The host function frame is not on the call
\* stack.
Return ==
    /\ InContract /\ Top.entry # "auth"
    /\ PopCtx
    /\ call_stack' = SubSeq(call_stack, 1, Len(call_stack) - 1)
    /\ account' = Popped(account, Borrowed)
    /\ invoker' = PoppedInvokers(invoker)
    /\ UNCHANGED <<tx, nonces, status, started, grants>>

ReturnFromHostFn ==
    /\ status = "run" /\ Len(ctx) = 1 /\ ~ Creating /\ started
    /\ PopCtx
    /\ UNCHANGED <<tx, call_stack, account, invoker, nonces, status, started, grants>>

\* __check_auth returns: its frame is popped, the borrow is still held; then
\* maybe_authorize_invocation checks the result and consumes the nonce.
ReturnFromCheckAuth ==
    /\ InContract /\ Top.entry = "auth"
    /\ PopCtx
    /\ invoker' = PoppedInvokers(invoker)
    /\ UNCHANGED <<tx, started>>
    /\ LET e == Top.auth
           stack == SubSeq(call_stack, 1, Len(call_stack) - 1)
           acct == Popped(account, Borrowed)
       IN  \/ /\ NonceAcceptable(e)
              /\ nonces' = nonces \union {NonceKey(e)}
              /\ Grant(acct, e, Top.node)
              /\ Proceed(stack)
              /\ UNCHANGED status
           \/ /\ status' = "recoverable"
              /\ account' = acct
              /\ call_stack' = stack
              /\ UNCHANGED <<nonces, grants>>

\* Mutant: the verification status survives the rollback.
RolledBack_KeepsVerified ==
    [e \in Entry |->
        IF Top.snapshot.account[e].present
        THEN [account[e] EXCEPT !.tracker =
                 rollback_tracker(@, Top.snapshot.account[e].exhausted)]
        ELSE account[e]]

\* pop_frame with the snapshot: rollback, then the pop.
RolledBack ==
    [e \in Entry |->
        IF Top.snapshot.account[e].present
        THEN [tracker |-> rollback_tracker(account[e].tracker,
                                           Top.snapshot.account[e].exhausted),
              verified |-> Top.snapshot.account[e].verified]
        ELSE account[e]]

RolledBackInvokers ==
    [i \in 1 .. Len(invoker) |->
        [invoker[i] EXCEPT !.tracker = rollback_tracker(@, Top.snapshot.invoker[i])]]

Unwind ==
    /\ status \in {"recoverable", "unrecoverable"}
    /\ Len(ctx) > 0 /\ ~ Creating
    /\ PopCtx
    /\ nonces' = Top.nonces
    /\ grants' = Top.grants
    /\ UNCHANGED <<tx, started>>
    /\ IF Len(invoker) # Len(Top.snapshot.invoker)
       THEN \* `unexpected bad auth snapshot', an internal error
            /\ status' = "bad_snapshot"
            /\ account' = RolledBack
            /\ UNCHANGED <<call_stack, invoker>>
       ELSE /\ status' = IF Top.entry = "try" /\ status = "recoverable"
                         THEN "run" ELSE status
            /\ IF call_stack = << >>
               THEN /\ account' = RolledBack
                    /\ invoker' = RolledBackInvokers
                    /\ UNCHANGED call_stack
               ELSE /\ account' = Popped(RolledBack, Borrowed)
                    /\ invoker' = PoppedInvokers(RolledBackInvokers)
                    /\ call_stack' = SubSeq(call_stack, 1, Len(call_stack) - 1)

\* After an internal error of the manager every frame fails; only what storage
\* holds still matters.
UnwindInternal ==
    /\ status \in {"bad_snapshot", "bad_match_stack"}
    /\ Len(ctx) > 0
    /\ PopCtx
    /\ nonces' = Top.nonces
    /\ grants' = Top.grants
    /\ UNCHANGED <<tx, call_stack, account, invoker, status, started>>

Next ==
    \/ \E c \in Contract, entry \in {"call", "try"} : Call(c, entry)
    \/ \E t \in tx.invoker_trees : AuthorizeAsCurrContract(t)
    \/ \E addr \in Address, f \in Function : RequireAuth(addr, f)
    \/ \E d \in Address, f \in CreateFn : CreateContract(d, f)
    \/ AuthorizeCreate \/ FinishCreate
    \/ Fail
    \/ Return \/ ReturnFromHostFn \/ ReturnFromCheckAuth
    \/ Unwind \/ UnwindInternal

Spec == Init /\ [][Next]_vars

-----------------------------------------------------------------------------
(* Correctness. *)

Tracker(tree) ==
    [exhausted : SUBSET Node(tree), match : Seq(Node(tree) \union {0}),
     root_frame : Nat, done : BOOLEAN]

AuthStackFrame ==
    [kind : {"contract"}, contract : Contract]
    \union [kind : {"create"}, deployer : Address, fn : CreateFn, authed : BOOLEAN]

TypeOK ==
    /\ tx \in Transaction
    /\ \A i \in 1 .. Len(ctx) :
          /\ ctx[i].contract \in Contract \union {NoContract}
          /\ ctx[i].entry \in {"host", "call", "try", "auth"}
          /\ ctx[i].auth # 0 =>
                ctx[i].auth \in Entry /\ ctx[i].node \in EntryNode(ctx[i].auth)
    /\ call_stack \in Seq(AuthStackFrame)
    /\ \A e \in Entry :
          /\ account[e].tracker \in Tracker(Entries[e].tree)
          /\ account[e].verified \in BOOLEAN
          /\ grants[e] \in [EntryNode(e) -> Nat]
    /\ \A i \in 1 .. Len(invoker) :
          /\ invoker[i].addr \in Contract /\ invoker[i].tree \in tx.invoker_trees
          /\ invoker[i].tracker \in Tracker(invoker[i].tree)
    /\ status \in {"run", "recoverable", "unrecoverable",
                   "bad_snapshot", "bad_match_stack"}
    /\ started \in BOOLEAN

Consistent == status \in {"run", "recoverable", "unrecoverable"}

\* The node that e waits for __check_auth to authorize.
Pending(e) == {ctx[i].node : i \in {j \in 1 .. Len(ctx) : ctx[j].auth = e}}

(***************************************************************************)
(* Each node of an authorization entry authorizes at most one call, and it *)
(* is available again exactly if that call was rolled back: whatever       *)
(* failures try_call recovered from, the spent nodes (is_exhausted) are    *)
(* those of the require_auth calls that still stand, and the one whose     *)
(* __check_auth is running.                                                *)
(***************************************************************************)
NodesAreSpentOnce ==
    status = "run" =>
        \A e \in Entry :
            /\ \A n \in EntryNode(e) : grants[e][n] <= 1
            /\ account[e].tracker.exhausted =
                  {n \in EntryNode(e) : grants[e][n] = 1} \union Pending(e)

HasGrants(e) == \E n \in EntryNode(e) : grants[e][n] > 0

(***************************************************************************)
(* Replay protection: an entry with address credentials that authorized a  *)
(* standing call has an acceptable expiration and has consumed its nonce,  *)
(* which neither an earlier transaction nor another entry had consumed     *)
(* (verify_and_consume_nonce, consume_nonce and the rollback of            *)
(* `verified').                                                            *)
(***************************************************************************)
NoReplay ==
    \A e \in Entry :
        HasGrants(e) /\ ~ Entries[e].source =>
            /\ Entries[e].live
            /\ NonceKey(e) \in nonces \ UsedNonces
            /\ \A x \in Entry \ {e} :
                  HasGrants(x) /\ ~ Entries[x].source => NonceKey(x) # NonceKey(e)

\* Frame i of the call stack is the call that function f describes.
IsCallOf(i, f) ==
    IF call_stack[i].kind = "create" THEN call_stack[i].fn = f
    ELSE f \in Function /\ FnContract[f] = call_stack[i].contract

\* The matched nodes from the bottom up are a path from the root, each
\* matched by a frame that is a call of the node's function.
IsMatchedPath(t, tree, base) ==
    \A i \in 1 .. Len(t.match) :
        t.match[i] # 0 =>
            /\ IsCallOf(base + i, tree.fn[t.match[i]])
            /\ tree.parent[t.match[i]] =
                  last_authorized_invocation([t EXCEPT !.match = SubSeq(@, 1, i - 1)])

(***************************************************************************)
(* A node of an entry authorizes a call only inside the calls that its     *)
(* ancestors authorized: the match stack of every tracker stays in step    *)
(* with the call stack (a tracker that waits for __check_auth with the     *)
(* stack below that frame), and holds a path of the tree.                  *)
(***************************************************************************)
MatchesFollowCallStack ==
    Consistent =>
        \A e \in Entry :
            LET t == account[e].tracker
            IN  /\ IsMatchedPath(t, Entries[e].tree, 0)
                /\ IF e \in Borrowed THEN Len(t.match) < Len(call_stack)
                   ELSE Len(t.match) = Len(call_stack)

(***************************************************************************)
(* The trees of two entries are not mixed in one tree of calls (the        *)
(* comment in require_auth_enforcing): when a second entry of the same     *)
(* address starts inside the call where a first one started, the first one *)
(* has authorized that very call, or was busy authenticating.              *)
(***************************************************************************)
TreesAreNotMixed ==
    Consistent =>
        \A e, x \in Entry \ Borrowed :
            e # x /\ Entries[e].addr = Entries[x].addr =>
                LET m == account[e].tracker.match
                    k == account[x].tracker.match
                IN  \A i, j \in 1 .. Len(call_stack) :
                        i < j /\ m[i] = 1 /\ k[j] = 1 => m[j] # 0

(***************************************************************************)
(* `Trackers form a stack where the shorter lifetime trackers are at the   *)
(* top', and each lives for the next call of the frame that created it     *)
(* (the comment in pop_frame): the frame below its match stack is one of   *)
(* the contract it speaks for, and it authorizes calls above that frame.   *)
(***************************************************************************)
InvokersSpeakForTheirFrame ==
    Consistent =>
        \A i \in 1 .. Len(invoker) :
            LET t    == invoker[i].tracker
                base == Len(call_stack) - Len(t.match)
            IN  /\ base > 0
                /\ call_stack[base] = [kind |-> "contract", contract |-> invoker[i].addr]
                /\ IsMatchedPath(t, invoker[i].tree, base)
                /\ i < Len(invoker) => Len(invoker[i + 1].tracker.match) <= Len(t.match)

(***************************************************************************)
(* `When the contract that created the tracker is going out of scope       *)
(* without calling any sub-contracts [...] The invariant above is          *)
(* maintained' (the comment in pop_frame): rolling back a frame never      *)
(* finds a different number of invoker trackers than its snapshot.         *)
(***************************************************************************)
RollbackFindsItsTrackers == status # "bad_snapshot"
=============================================================================
