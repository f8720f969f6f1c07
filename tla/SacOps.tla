------------------------------- MODULE SacOps -------------------------------
(***************************************************************************)
(* The Stellar asset contract's balances, authorizations and allowances,   *)
(* as operators on a ledger record                                         *)
(*                                                                         *)
(*     [asset, issuer, seq, classic, balance, allowance, admin]            *)
(*                                                                         *)
(* translated from builtin_contracts/stellar_asset_contract.  An operator  *)
(* that writes returns an outcome [l, err]; an operator that only reads or *)
(* checks returns its answer or the error code that stops the call.        *)
(*                                                                         *)
(* Accounts hold the asset in a classic ledger entry: the account entry    *)
(* itself if the asset is native, a trustline otherwise.  Contracts hold   *)
(* it in a persistent contract data entry, whose TTL is not kept: the      *)
(* extension of a persistent entry is clamped and never fails.  Allowances *)
(* are temporary entries, whose TTL is kept.                               *)
(***************************************************************************)
EXTENDS Integers, Sequences

CONSTANTS
    Account,        \* ScAddress::Account
    Contract,       \* ScAddress::Contract
    Issuer,         \* the issuer of the asset, unless the asset is native
    I64Max,         \* i64::MAX, the range of classic balances
    I128Max,        \* i128::MAX, the range of contract balances
    Reserve,        \* net_entries * base_reserve of an account
    MinTempTtl,     \* LedgerInfo.min_temp_entry_ttl
    MaxEntryTtl,    \* LedgerInfo.max_entry_ttl
    NoEntry         \* an entry that does not exist

ScAddress == Account \union Contract

IssuerFlag == {"Required", "Revocable", "ClawbackEnabled"}
TrustLineFlag == {"Authorized", "MaintainLiabilities", "ClawbackEnabled"}

\* The parts of AccountEntry and TrustLineEntry that the contract reads; an
\* account entry uses neither limit nor flags.
ClassicEntry ==
    [balance : 0 .. I64Max, selling : 0 .. I64Max, buying : 0 .. I64Max,
     limit : 0 .. I64Max, flags : SUBSET TrustLineFlag]

BalanceValue == [amount : 0 .. I128Max, authorized : BOOLEAN, clawback : BOOLEAN]

\* An allowance and the live-until ledger of the entry that holds it.
AllowanceEntry == [amount : 0 .. I128Max, live_until_ledger : Nat, ttl : Nat]

ASSUME SacAssumption ==
    /\ Issuer \in Account
    /\ Account \intersect Contract = {}
    /\ I64Max \in Nat /\ I128Max \in Nat /\ I64Max <= I128Max
    /\ Reserve \in Nat
    /\ MinTempTtl \in Nat /\ MaxEntryTtl \in Nat
    /\ 1 <= MinTempTtl /\ MinTempTtl <= MaxEntryTtl
    /\ NoEntry \notin ClassicEntry \union BalanceValue \union AllowanceEntry
    /\ \A flags \in SUBSET IssuerFlag : flags # NoEntry
    /\ NoEntry \notin ScAddress \union {"native", "credit"}

Done(l) == [l |-> l, err |-> "Ok"]
Fail(l, e) == [l |-> l, err |-> e]

\* The error of the first step of a call that fails, or "Ok".
FirstError(errs) ==
    IF \A i \in DOMAIN errs : errs[i] = "Ok" THEN "Ok"
    ELSE errs[CHOOSE i \in DOMAIN errs :
                /\ errs[i] # "Ok"
                /\ \A j \in DOMAIN errs : j < i => errs[j] = "Ok"]

YesNo(b) == IF b THEN "Yes" ELSE "No"

-----------------------------------------------------------------------------
(***************************************************************************)
(* Checks and issuer flags.                                                *)
(***************************************************************************)
\* Mutant: any amount is accepted.
check_nonnegative_amount_Any(amount) == "Ok"

check_nonnegative_amount(amount) == IF amount < 0 THEN "NegativeAmount" ELSE "Ok"

check_non_native(l) == IF l.asset = "native" THEN "OperationNotSupported" ELSE "Ok"

IsIssuer(l, a) == l.asset # "native" /\ a = Issuer

check_not_issuer(l, a) == IF IsIssuer(l, a) THEN "OperationNotSupported" ELSE "Ok"

\* A native asset has no issuer, and an issuer account may have been merged away.
is_asset_issuer_flag_set(l, flag) ==
    IF l.asset = "native" THEN "No"
    ELSE IF l.issuer = NoEntry THEN "AccountMissing"
    ELSE YesNo(flag \in l.issuer)

\* Address::require_auth: `by' is the address whose authorization the call has.
require_auth(by, a) == IF by = a THEN "Ok" ELSE "Unauthorized"

\* The native asset contract has no administrator.
read_administrator(l) == l.admin

require_admin(l, by) ==
    IF read_administrator(l) = NoEntry THEN "MissingValue"
    ELSE require_auth(by, read_administrator(l))

-----------------------------------------------------------------------------
(***************************************************************************)
(* Balances.                                                               *)
(***************************************************************************)
\* Mutant: liabilities are forgotten.
min_balance_NoLiabilities(l, e) == IF l.asset = "native" THEN Reserve ELSE 0

min_balance(l, e) == (IF l.asset = "native" THEN Reserve ELSE 0) + e.selling

max_balance(l, e) == (IF l.asset = "native" THEN I64Max ELSE e.limit) - e.buying

MissingClassic(l) == IF l.asset = "native" THEN "AccountMissing" ELSE "TrustlineMissing"

LimitBelowLiabilities(l, e) == l.asset # "native" /\ e.limit < e.buying

\* transfer_account_balance and transfer_trustline_balance.
transfer_entry_balance(l, a, amount) ==
    LET e   == l.classic[a]
        new == e.balance + amount
    IN  IF e = NoEntry THEN Fail(l, MissingClassic(l))
        ELSE IF LimitBelowLiabilities(l, e) THEN Fail(l, "InternalError")
        ELSE IF new > I64Max \/ new < min_balance(l, e) \/ new > max_balance(l, e)
             THEN Fail(l, "BalanceError")
        ELSE Done([l EXCEPT !.classic = [@ EXCEPT ![a] = [e EXCEPT !.balance = new]]])

\* The issuer's own balance is unlimited and not kept.
transfer_classic_balance(l, a, amount) ==
    IF IsIssuer(l, a) THEN Done(l) ELSE transfer_entry_balance(l, a, amount)

\* get_account_balance and get_trustline_balance.  An entry whose balance is out
\* of range, for example since the reserve was raised, has no readable balance.
get_entry_balance(l, a) ==
    LET e == l.classic[a]
    IN  IF e = NoEntry THEN MissingClassic(l)
        ELSE IF \/ LimitBelowLiabilities(l, e)
                \/ e.balance < min_balance(l, e) \/ e.balance > max_balance(l, e)
             THEN "InternalError"
        ELSE e.balance

get_classic_balance(l, a) ==
    IF IsIssuer(l, a) THEN I64Max ELSE get_entry_balance(l, a)

read_balance(l, a) ==
    IF a \in Account THEN get_classic_balance(l, a)
    ELSE IF l.balance[a] = NoEntry THEN 0 ELSE l.balance[a].amount

is_account_authorized(l, a) ==
    IF l.asset = "native" \/ IsIssuer(l, a) THEN "Yes"
    ELSE IF l.classic[a] = NoEntry THEN "TrustlineMissing"
    ELSE YesNo("Authorized" \in l.classic[a].flags)

\* Mutant: a contract that has no balance entry may always hold the asset.
is_authorized_NotRequired(l, a) ==
    IF a \in Account THEN is_account_authorized(l, a)
    ELSE IF l.balance[a] # NoEntry THEN YesNo(l.balance[a].authorized)
    ELSE "Yes"

is_authorized(l, a) ==
    IF a \in Account THEN is_account_authorized(l, a)
    ELSE IF l.balance[a] # NoEntry THEN YesNo(l.balance[a].authorized)
    ELSE LET required == is_asset_issuer_flag_set(l, "Required")
         IN  CASE required = "Yes" -> "No"
               [] required = "No"  -> "Yes"
               [] OTHER            -> required

check_authorized(l, a) ==
    CASE is_authorized(l, a) = "Yes" -> "Ok"
      [] is_authorized(l, a) = "No"  -> "BalanceDeauthorized"
      [] OTHER                       -> is_authorized(l, a)

write_contract_balance(l, a, value) ==
    Done([l EXCEPT !.balance = [@ EXCEPT ![a] = value]])

NewBalance(l, authorized) ==
    [amount |-> 0, authorized |-> authorized,
     clawback |-> is_asset_issuer_flag_set(l, "ClawbackEnabled") = "Yes"]

ContractBalance(l, a) ==
    IF l.balance[a] = NoEntry THEN NewBalance(l, TRUE) ELSE l.balance[a]

receive_balance(l, a, amount) ==
    IF check_authorized(l, a) # "Ok" THEN Fail(l, check_authorized(l, a))
    ELSE IF a \in Account
         THEN IF amount > I64Max THEN Fail(l, "Overflow")
              ELSE transfer_classic_balance(l, a, amount)
    ELSE LET b == ContractBalance(l, a)
         IN  IF b.amount + amount > I128Max THEN Fail(l, "Overflow")
             ELSE write_contract_balance(l, a, [b EXCEPT !.amount = @ + amount])

spend_balance_no_authorization_check(l, a, amount) ==
    IF a \in Account
    THEN IF amount > I64Max THEN Fail(l, "Overflow")
         ELSE transfer_classic_balance(l, a, -amount)
    ELSE IF l.balance[a] = NoEntry
         THEN IF amount > 0 THEN Fail(l, "BalanceError") ELSE Done(l)
    ELSE IF l.balance[a].amount < amount THEN Fail(l, "BalanceError")
    ELSE write_contract_balance(l, a, [l.balance[a] EXCEPT !.amount = @ - amount])

spend_balance(l, a, amount) ==
    IF check_authorized(l, a) # "Ok" THEN Fail(l, check_authorized(l, a))
    ELSE spend_balance_no_authorization_check(l, a, amount)

-----------------------------------------------------------------------------
(***************************************************************************)
(* Authorization and clawback.                                             *)
(***************************************************************************)
\* Deauthorization keeps the right to maintain liabilities, so that offers and
\* pool shares stay where they are.
set_trustline_flags(flags, authorize) ==
    IF ("Authorized" \in flags) = authorize THEN flags
    ELSE IF authorize
         THEN (flags \ {"MaintainLiabilities"}) \union {"Authorized"}
         ELSE (flags \ {"Authorized"}) \union {"MaintainLiabilities"}

set_authorization(l, a, authorize) ==
    LET e     == l.classic[a]
        flags == set_trustline_flags(e.flags, authorize)
    IN  IF l.asset = "native" \/ IsIssuer(l, a) THEN Fail(l, "OperationNotSupported")
        ELSE IF e = NoEntry THEN Fail(l, "TrustlineMissing")
        ELSE Done([l EXCEPT !.classic = [@ EXCEPT ![a] = [e EXCEPT !.flags = flags]]])

write_authorization(l, a, authorize) ==
    LET revocable == is_asset_issuer_flag_set(l, "Revocable")
        clawback  == is_asset_issuer_flag_set(l, "ClawbackEnabled")
    IN  IF ~authorize /\ revocable = "No" THEN Fail(l, "OperationNotSupported")
        ELSE IF ~authorize /\ revocable # "Yes" THEN Fail(l, revocable)
        ELSE IF a \in Account THEN set_authorization(l, a, authorize)
        ELSE IF l.balance[a] # NoEntry
             THEN write_contract_balance(l, a, [l.balance[a] EXCEPT !.authorized = authorize])
        ELSE IF clawback \notin {"Yes", "No"} THEN Fail(l, clawback)
        ELSE write_contract_balance(l, a, NewBalance(l, authorize))

\* Mutant: the flag is looked up on the issuer, not on the holder's entry.
check_clawbackable_ByIssuer(l, a) ==
    IF is_asset_issuer_flag_set(l, "ClawbackEnabled") = "Yes"
       /\ ~(a \in Account /\ l.classic[a] = NoEntry)
    THEN "Ok" ELSE "BalanceError"

check_clawbackable(l, a) ==
    IF a \in Account
    THEN IF l.asset = "native" \/ IsIssuer(l, a) THEN "OperationNotSupported"
         ELSE IF l.classic[a] = NoEntry THEN "TrustlineMissing"
         ELSE IF "ClawbackEnabled" \in l.classic[a].flags THEN "Ok" ELSE "BalanceError"
    ELSE IF l.balance[a] # NoEntry /\ l.balance[a].clawback THEN "Ok" ELSE "BalanceError"

-----------------------------------------------------------------------------
(***************************************************************************)
(* Allowances.  A pair p is <<from, spender>>.                             *)
(***************************************************************************)
max_live_until_ledger(l) == l.seq + MaxEntryTtl - 1

\* try_get_contract_data on a temporary entry: one that has expired is gone.
LiveAllowance(l, p) == l.allowance[p] # NoEntry /\ l.allowance[p].ttl >= l.seq

read_allowance(l, p) ==
    IF LiveAllowance(l, p) /\ l.allowance[p].live_until_ledger >= l.seq
    THEN l.allowance[p].amount ELSE 0

PutAllowance(l, p, amount, live_until, ttl) ==
    [l EXCEPT !.allowance = [@ EXCEPT ![p] =
        [amount |-> amount, live_until_ledger |-> live_until, ttl |-> ttl]]]

\* The storage refuses to extend a temporary entry past the maximum.
write_allowance(l, p, amount, live_until) ==
    LET exists   == LiveAllowance(l, p)
        old      == IF exists THEN l.allowance[p].live_until_ledger ELSE 0
        ttl      == IF exists THEN l.allowance[p].ttl ELSE l.seq + MinTempTtl - 1
        live_for == live_until - l.seq + 1
        extended == l.seq + live_for
    IN  IF \/ live_until > max_live_until_ledger(l)
           \/ amount > 0 /\ live_until < l.seq
        THEN Fail(l, "AllowanceError")
        ELSE IF ~exists /\ amount = 0 THEN Done(l)
        ELSE IF amount = 0 \/ old >= live_until
             THEN Done(PutAllowance(l, p, amount, live_until, ttl))
        ELSE IF extended > max_live_until_ledger(l) THEN Fail(l, "StorageInvalidAction")
        ELSE IF extended > ttl /\ ttl - l.seq <= live_for
             THEN Done(PutAllowance(l, p, amount, live_until, extended))
        ELSE Done(PutAllowance(l, p, amount, live_until, ttl))

\* Mutant: the allowance is checked but not used up.
spend_allowance_NotWritten(l, p, amount) ==
    IF read_allowance(l, p) < amount THEN Fail(l, "AllowanceError") ELSE Done(l)

spend_allowance(l, p, amount) ==
    IF read_allowance(l, p) < amount THEN Fail(l, "AllowanceError")
    ELSE IF amount > 0
         THEN write_allowance(l, p, read_allowance(l, p) - amount,
                              l.allowance[p].live_until_ledger)
    ELSE Done(l)
=============================================================================
