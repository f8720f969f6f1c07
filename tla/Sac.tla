--------------------------------- MODULE Sac ---------------------------------
(***************************************************************************)
(* The Stellar asset contract (stellar_asset_contract/contract.rs): one    *)
(* action per contract function that changes the ledger, the ledgers that  *)
(* close between calls and the options the issuer sets on its account.     *)
(*                                                                         *)
(* A call is one step: the contract calls no other contract, so nothing    *)
(* runs between its reads and its writes except authorization, and a call  *)
(* that fails is rolled back by its frame (module Frames), so it leaves    *)
(* the ledger as it was.                                                   *)
(*                                                                         *)
(* The functions that only read (balance, allowance, authorized, admin,    *)
(* name, symbol, decimals) are the operators of SacOps.                    *)
(***************************************************************************)
EXTENDS SacOps

CONSTANTS
    Pair,           \* the <<from, spender>> pairs that approve is called with
    Amount,         \* the amounts that callers pass
    AdminArg,       \* the addresses that set_admin is called with
    LiveUntilArg,   \* the live-until ledgers that approve is called with
    IssuerState,    \* the flags the issuer's account can have; NoEntry: no account
    Start,          \* the classic entries before the first call, by kind of asset
    MaxSeq          \* bound on the ledgers closed

ASSUME SacInputAssumption ==
    /\ Pair \subseteq ScAddress \X ScAddress
    /\ Amount \subseteq Int /\ \A amount \in Amount : amount <= I128Max
    /\ AdminArg \subseteq ScAddress
    /\ LiveUntilArg \subseteq Nat
    /\ IssuerState \subseteq {NoEntry} \union SUBSET IssuerFlag
    /\ Start \in [{"native", "credit"} -> SUBSET [Account -> ClassicEntry \union {NoEntry}]]
    /\ \A c \in Start["credit"] : c[Issuer] = NoEntry
    /\ MaxSeq \in Nat

VARIABLES
    ledger,     \* the entries the contract reads and writes
    last,       \* the last call: function, authorizing address, error
    booked,     \* history: the balances an observer of the events computes
    consent     \* history: what each owner has approved and not yet seen spent

vars == <<ledger, last, booked, consent>>

Ledger ==
    [id : {"native", "credit"}, asset : {"native", "credit", NoEntry},
     issuer : {NoEntry} \union SUBSET IssuerFlag, seq : Nat,
     classic : [Account -> ClassicEntry \union {NoEntry}],
     balance : [Contract -> BalanceValue \union {NoEntry}],
     allowance : [Pair -> AllowanceEntry \union {NoEntry}],
     admin : ScAddress \union {NoEntry}]

\* What the ledger holds for address a, zero if nothing.
Holding(l, a) ==
    IF a \in Account
    THEN IF l.classic[a] = NoEntry THEN 0 ELSE l.classic[a].balance
    ELSE IF l.balance[a] = NoEntry THEN 0 ELSE l.balance[a].amount

Init ==
    /\ \E id \in {"native", "credit"}, flags \in IssuerState : \E c \in Start[id] :
         ledger = [id |-> id, asset |-> NoEntry, issuer |-> flags, seq |-> 1,
                   classic |-> c, balance |-> [a \in Contract |-> NoEntry],
                   allowance |-> [p \in Pair |-> NoEntry], admin |-> NoEntry]
    /\ last = [fn |-> "none", by |-> NoEntry, err |-> "Ok"]
    /\ booked = [a \in ScAddress |-> Holding(ledger, a)]
    /\ consent = [p \in Pair |-> [left |-> 0, until |-> 0, voided |-> 0]]

-----------------------------------------------------------------------------
(***************************************************************************)
(* Events, and what they tell an observer.  The events transfer, mint,     *)
(* burn and clawback move an amount; the others move nothing.  The issuer  *)
(* of a credit asset has no balance to book.                               *)
(***************************************************************************)
Moved(from, to, amount) == [from |-> from, to |-> to, amount |-> amount]
NothingMoved == Moved(NoEntry, NoEntry, 0)

BookedAfter(e) ==
    [a \in ScAddress |->
        IF IsIssuer(ledger, a) THEN booked[a]
        ELSE booked[a] + (IF a = e.to THEN e.amount ELSE 0)
                       - (IF a = e.from THEN e.amount ELSE 0)]

\* A call with outcome o: the ledger it leaves and the event it emitted.
Call(fn, by, o, event) ==
    IF o.err = "Ok"
    THEN /\ ledger' = o.l
         /\ last' = [fn |-> fn, by |-> by, err |-> "Ok"]
         /\ booked' = BookedAfter(event)
    ELSE /\ last' = [fn |-> "failed", by |-> by, err |-> o.err]
         /\ UNCHANGED <<ledger, booked>>

After(checks, o) ==
    IF FirstError(checks) = "Ok" THEN o ELSE Fail(ledger, FirstError(checks))

Spent(p, amount) ==
    [consent EXCEPT ![p] = [@ EXCEPT !.left = consent[p].left - amount]]

Initialized == ledger.asset # NoEntry

-----------------------------------------------------------------------------
(***************************************************************************)
(* The contract's functions.                                               *)
(***************************************************************************)
\* The contract's id is derived from its asset; a malformed asset is refused.
InitAsset(asset) ==
    LET err == IF Initialized THEN "AlreadyInitialized"
               ELSE IF asset = "malformed" THEN "InvalidInput"
               ELSE IF asset # ledger.id THEN "InternalError" ELSE "Ok"
        l   == [ledger EXCEPT !.asset = asset,
                              !.admin = IF asset = "native" THEN NoEntry ELSE Issuer]
    IN  Call("init_asset", NoEntry, Fail(l, err), NothingMoved) /\ UNCHANGED consent

Approve(by, p, amount, live_until) ==
    LET o == After(<<check_nonnegative_amount(amount), require_auth(by, p[1])>>,
                   write_allowance(ledger, p, amount, live_until))
        voided == IF amount = 0 /\ live_until > consent[p].voided
                  THEN live_until ELSE consent[p].voided
    IN  /\ Initialized
        /\ Call("approve", by, o, NothingMoved)
        /\ consent' = IF o.err = "Ok"
                      THEN [consent EXCEPT ![p] = [left |-> amount, until |-> live_until,
                                                   voided |-> voided]]
                      ELSE consent

\* Mutant: the receiver's balance is read before the spender's is written.
move_balance_StaleRead(l, from, to, amount) ==
    LET spent    == spend_balance(l, from, amount)
        received == receive_balance(l, to, amount)
    IN  Fail([received.l EXCEPT !.balance = [a \in Contract |->
                 IF a = from /\ a # to THEN spent.l.balance[a] ELSE received.l.balance[a]],
                                !.classic = [a \in Account |->
                 IF a = from /\ a # to THEN spent.l.classic[a] ELSE received.l.classic[a]]],
             FirstError(<<spent.err, received.err>>))

move_balance(l, from, to, amount) ==
    LET spent    == spend_balance(l, from, amount)
        received == receive_balance(spent.l, to, amount)
    IN  Fail(received.l, FirstError(<<spent.err, received.err>>))

Transfer(by, from, to, amount) ==
    LET o == After(<<check_nonnegative_amount(amount), require_auth(by, from)>>,
                   move_balance(ledger, from, to, amount))
    IN  /\ Initialized
        /\ Call("transfer", by, o, Moved(from, to, amount))
        /\ UNCHANGED consent

TransferFrom(by, p, to, amount) ==
    LET allowed == spend_allowance(ledger, p, amount)
        o == After(<<check_nonnegative_amount(amount), require_auth(by, p[2]), allowed.err>>,
                   move_balance(allowed.l, p[1], to, amount))
    IN  /\ Initialized
        /\ Call("transfer_from", by, o, Moved(p[1], to, amount))
        /\ consent' = IF o.err = "Ok" THEN Spent(p, amount) ELSE consent

Burn(by, from, amount) ==
    LET o == After(<<check_nonnegative_amount(amount), check_non_native(ledger),
                     check_not_issuer(ledger, from), require_auth(by, from)>>,
                   spend_balance(ledger, from, amount))
    IN  /\ Initialized
        /\ Call("burn", by, o, Moved(from, NoEntry, amount))
        /\ UNCHANGED consent

BurnFrom(by, p, amount) ==
    LET allowed == spend_allowance(ledger, p, amount)
        o == After(<<check_nonnegative_amount(amount), check_non_native(ledger),
                     check_not_issuer(ledger, p[1]), require_auth(by, p[2]), allowed.err>>,
                   spend_balance(allowed.l, p[1], amount))
    IN  /\ Initialized
        /\ Call("burn_from", by, o, Moved(p[1], NoEntry, amount))
        /\ consent' = IF o.err = "Ok" THEN Spent(p, amount) ELSE consent

Clawback(by, from, amount) ==
    LET o == After(<<check_nonnegative_amount(amount), check_clawbackable(ledger, from),
                     check_not_issuer(ledger, from), require_admin(ledger, by)>>,
                   spend_balance_no_authorization_check(ledger, from, amount))
    IN  /\ Initialized
        /\ Call("clawback", by, o, Moved(from, NoEntry, amount))
        /\ UNCHANGED consent

SetAuthorized(by, a, authorize) ==
    LET o == After(<<require_admin(ledger, by)>>,
                   write_authorization(ledger, a, authorize))
    IN  /\ Initialized
        /\ Call("set_authorized", by, o, NothingMoved)
        /\ UNCHANGED consent

Mint(by, to, amount) ==
    LET o == After(<<check_nonnegative_amount(amount), check_not_issuer(ledger, to),
                     require_admin(ledger, by)>>,
                   receive_balance(ledger, to, amount))
    IN  /\ Initialized
        /\ Call("mint", by, o, Moved(NoEntry, to, amount))
        /\ UNCHANGED consent

SetAdmin(by, new_admin) ==
    LET o == After(<<require_admin(ledger, by)>>,
                   Done([ledger EXCEPT !.admin = new_admin]))
    IN  /\ Initialized
        /\ Call("set_admin", by, o, NothingMoved)
        /\ UNCHANGED consent

-----------------------------------------------------------------------------
(***************************************************************************)
(* The environment: ledgers close, temporary entries whose TTL has run out *)
(* are gone for good, and the issuer sets options on its account.          *)
(***************************************************************************)
Idle(fn) == last' = [fn |-> fn, by |-> NoEntry, err |-> "Ok"] /\ UNCHANGED <<booked, consent>>

CloseLedger ==
    /\ ledger.seq < MaxSeq
    /\ ledger' = [ledger EXCEPT !.seq = @ + 1,
                     !.allowance = [p \in Pair |->
                         IF @[p] # NoEntry /\ @[p].ttl <= ledger.seq THEN NoEntry ELSE @[p]]]
    /\ Idle("close_ledger")

IssuerSetsOptions(flags) ==
    /\ ledger.id = "credit"
    /\ ledger' = [ledger EXCEPT !.issuer = flags]
    /\ Idle("set_options")

Next ==
    \/ \E asset \in {"native", "credit", "malformed"} : InitAsset(asset)
    \/ \E by \in ScAddress, p \in Pair, amount \in Amount, until \in LiveUntilArg :
          Approve(by, p, amount, until)
    \/ \E by, from, to \in ScAddress, amount \in Amount : Transfer(by, from, to, amount)
    \/ \E by, to \in ScAddress, p \in Pair, amount \in Amount :
          TransferFrom(by, p, to, amount)
    \/ \E by, from \in ScAddress, amount \in Amount : Burn(by, from, amount)
    \/ \E by \in ScAddress, p \in Pair, amount \in Amount : BurnFrom(by, p, amount)
    \/ \E by, from \in ScAddress, amount \in Amount : Clawback(by, from, amount)
    \/ \E by, a \in ScAddress, authorize \in BOOLEAN : SetAuthorized(by, a, authorize)
    \/ \E by, to \in ScAddress, amount \in Amount : Mint(by, to, amount)
    \/ \E by \in ScAddress, new_admin \in AdminArg : SetAdmin(by, new_admin)
    \/ CloseLedger
    \/ \E flags \in IssuerState : IssuerSetsOptions(flags)

Spec == Init /\ [][Next]_vars

-----------------------------------------------------------------------------
(***************************************************************************)
(* The type invariant: in particular no balance and no allowance is ever   *)
(* negative or beyond the range of its integer type.                       *)
(***************************************************************************)
TypeOK ==
    /\ ledger \in Ledger
    /\ booked \in [ScAddress -> Int]
    /\ consent \in [Pair -> [left : Int, until : Nat, voided : Nat]]

(***************************************************************************)
(* The balances are those that the emitted events add up to, for every     *)
(* holder but the issuer, whose balance is not kept: no transfer (to       *)
(* oneself included), mint, burn or clawback loses, duplicates or          *)
(* misreports an amount.                                                   *)
(***************************************************************************)
BalancesMatchEvents ==
    \A a \in ScAddress : IsIssuer(ledger, a) \/ Holding(ledger, a) = booked[a]

(***************************************************************************)
(* A spender's usable allowance is what the owner last approved less what  *)
(* was spent since, and nothing once the ledger the owner named has        *)
(* passed.  Before that ledger it can lapse only when the owner had        *)
(* approved zero with a ledger at least as late: write_allowance stores    *)
(* that ledger without extending the entry's TTL, and the next approval    *)
(* then sees no need to extend it.                                         *)
(***************************************************************************)
AllowanceIsConsented ==
    \A p \in Pair :
        LET c == consent[p] IN
        /\ c.left >= 0
        /\ read_allowance(ledger, p) =
              IF c.until < ledger.seq THEN 0
              ELSE IF LiveAllowance(ledger, p) THEN c.left ELSE 0
        /\ c.left > 0 /\ c.until >= ledger.seq /\ ~LiveAllowance(ledger, p)
              => c.until <= c.voided

(***************************************************************************)
(* A classic balance that a call changes stays clear of its liabilities:   *)
(* at least the reserve (native) and the selling liabilities, at most the  *)
(* limit less the buying liabilities.                                      *)
(***************************************************************************)
LiabilitiesAreHonoured ==
    [][\A a \in Account :
         Holding(ledger', a) # Holding(ledger, a) =>
            LET e == ledger'.classic[a] IN
            /\ e.balance >= e.selling + (IF ledger.id = "native" THEN Reserve ELSE 0)
            /\ e.balance + e.buying <= (IF ledger.id = "native" THEN I64Max ELSE e.limit)]_ledger

(***************************************************************************)
(* The balance of a holder who is not authorized changes by clawback only. *)
(* A contract without a balance entry is authorized unless the issuer      *)
(* requires authorization.                                                 *)
(***************************************************************************)
MayHold(l, a) ==
    \/ l.id = "native"
    \/ a \in Account /\ "Authorized" \in l.classic[a].flags
    \/ a \in Contract /\ IF l.balance[a] = NoEntry
                         THEN l.issuer # NoEntry /\ "Required" \notin l.issuer
                         ELSE l.balance[a].authorized

DeauthorizedIsFrozen ==
    [][\A a \in ScAddress :
         Holding(ledger', a) # Holding(ledger, a) =>
            last'.fn = "clawback" \/ MayHold(ledger, a)]_ledger

(***************************************************************************)
(* A balance falls only by the owner's own call, by a spender within the   *)
(* owner's unexpired approval, or by the administrator's clawback from an  *)
(* entry that was marked for it.  Balances rise without another falling    *)
(* only by the administrator's mint or by the issuer's own transfer.       *)
(***************************************************************************)
Fell(a) == Holding(ledger', a) < Holding(ledger, a)

Consented(a, amount) ==
    \/ last'.by = a /\ last'.fn \in {"transfer", "burn"}
    \/ /\ last'.fn \in {"transfer_from", "burn_from"}
       /\ <<a, last'.by>> \in Pair
       /\ consent[<<a, last'.by>>].left >= amount
       /\ consent[<<a, last'.by>>].until >= ledger.seq

ClawedBack(a) ==
    /\ last'.fn = "clawback" /\ last'.by = ledger.admin
    /\ IF a \in Account THEN "ClawbackEnabled" \in ledger.classic[a].flags
       ELSE ledger.balance[a].clawback

MovesAreConsented ==
    [][/\ \A a \in ScAddress :
            Fell(a) => \/ ClawedBack(a)
                       \/ Consented(a, Holding(ledger, a) - Holding(ledger', a))
       /\ \A a \in ScAddress :
            Holding(ledger', a) > Holding(ledger, a) =>
               \/ \E b \in ScAddress : Fell(b)
               \/ last'.fn = "mint" /\ last'.by = ledger.admin
               \/ ledger.id = "credit"
                  /\ Consented(Issuer, Holding(ledger', a) - Holding(ledger, a))]_ledger
=============================================================================
