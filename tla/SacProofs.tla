------------------------------ MODULE SacProofs ------------------------------
(***************************************************************************)
(* The Stellar asset contract, for every set of addresses, every reserve,  *)
(* limit and liability, both kinds of asset and any sequence of calls.     *)
(*                                                                         *)
(* Every operator of SacOps that moves an amount gets one lemma in terms   *)
(* of Moves: the ledger afterwards is the ledger before with the amount    *)
(* added at one address, within the limits of its entry, and nothing else  *)
(* changed.  A transfer is two such moves, of which the second works on    *)
(* what the first left, also when both are at the same address.            *)
(***************************************************************************)
EXTENDS Sac, TLAPS

\* The contract is never initialized for an asset other than its own, and until
\* it is initialized nothing has moved.
AssetIsId == ledger.asset \in {NoEntry, ledger.id}

BookedBefore ==
    ledger.asset = NoEntry => \A a \in ScAddress : booked[a] = Holding(ledger, a)

\* An allowance entry al against what its owner consented to, c: the entry that
\* exists is live and says what the owner said, and it lives as long as the owner
\* asked unless the owner had approved zero up to that ledger or a later one.
AllowanceInv(al, c, seq) ==
    /\ c.left >= 0
    /\ al # NoEntry => /\ al.ttl >= seq
                       /\ al.amount = c.left /\ al.live_until_ledger = c.until
                       /\ al.ttl >= c.until \/ c.until <= c.voided
    /\ al = NoEntry => (c.left > 0 /\ c.until >= seq => c.until <= c.voided)

SInv ==
    /\ TypeOK
    /\ AssetIsId
    /\ BookedBefore
    /\ BalancesMatchEvents
    /\ \A p \in Pair : AllowanceInv(ledger.allowance[p], consent[p], ledger.seq)

-----------------------------------------------------------------------------
(***************************************************************************)
(* Outcomes and checks.                                                    *)
(***************************************************************************)
LEMMA FailFields ==
    ASSUME NEW l, NEW e
    PROVE  /\ Fail(l, e).l = l /\ Fail(l, e).err = e
           /\ Done(l).l = l /\ Done(l).err = "Ok"
  BY DEF Fail, Done

\* No call makes more than five checks.
LEMMA FirstErrorOk ==
    ASSUME NEW s, DOMAIN s \subseteq 1 .. 5
    PROVE  FirstError(s) = "Ok" <=> \A i \in DOMAIN s : s[i] = "Ok"
<1>1. CASE \A i \in DOMAIN s : s[i] = "Ok"
  BY <1>1 DEF FirstError
<1>2. CASE \E i \in DOMAIN s : s[i] # "Ok"
  <2> DEFINE Bad(i) == s[i] # "Ok" /\ \A j \in DOMAIN s : j < i => s[j] = "Ok"
  <2>1. \E i \in DOMAIN s : Bad(i)
    <3>1. CASE 1 \in DOMAIN s /\ s[1] # "Ok"
      BY <3>1
    <3>2. CASE ~ (1 \in DOMAIN s /\ s[1] # "Ok") /\ 2 \in DOMAIN s /\ s[2] # "Ok"
      BY <3>2
    <3>3. CASE /\ ~ (1 \in DOMAIN s /\ s[1] # "Ok") /\ ~ (2 \in DOMAIN s /\ s[2] # "Ok")
               /\ 3 \in DOMAIN s /\ s[3] # "Ok"
      BY <3>3
    <3>4. CASE /\ ~ (1 \in DOMAIN s /\ s[1] # "Ok") /\ ~ (2 \in DOMAIN s /\ s[2] # "Ok")
               /\ ~ (3 \in DOMAIN s /\ s[3] # "Ok") /\ 4 \in DOMAIN s /\ s[4] # "Ok"
      BY <3>4
    <3>5. CASE /\ ~ (1 \in DOMAIN s /\ s[1] # "Ok") /\ ~ (2 \in DOMAIN s /\ s[2] # "Ok")
               /\ ~ (3 \in DOMAIN s /\ s[3] # "Ok") /\ ~ (4 \in DOMAIN s /\ s[4] # "Ok")
      BY <3>5, <1>2
    <3> QED
      BY <3>1, <3>2, <3>3, <3>4, <3>5
  <2>2. Bad(CHOOSE i \in DOMAIN s : Bad(i))
    BY <2>1
  <2> QED
    BY <1>2, <2>2 DEF FirstError
<1> QED
  BY <1>1, <1>2

\* A call succeeds when its checks and its work do.
LEMMA AfterOk ==
    ASSUME NEW s, DOMAIN s \subseteq 1 .. 5, NEW o, After(s, o).err = "Ok"
    PROVE  (\A i \in DOMAIN s : s[i] = "Ok") /\ After(s, o) = o
<1>1. FirstError(s) = "Ok"
  BY FailFields DEF After
<1> QED
  BY <1>1, FirstErrorOk DEF After

LEMMA MoveBalanceOk ==
    ASSUME NEW l, NEW from, NEW to, NEW amount, move_balance(l, from, to, amount).err = "Ok"
    PROVE  LET spent == spend_balance(l, from, amount)
               received == receive_balance(spent.l, to, amount)
           IN  /\ spent.err = "Ok" /\ received.err = "Ok"
               /\ move_balance(l, from, to, amount).l = received.l
<1> DEFINE spent == spend_balance(l, from, amount)
           received == receive_balance(spent.l, to, amount)
           s == <<spent.err, received.err>>
<1>1. move_balance(l, from, to, amount) = Fail(received.l, FirstError(s))
  BY DEF move_balance
<1>2. FirstError(s) = "Ok" /\ move_balance(l, from, to, amount).l = received.l
  BY <1>1, FailFields
<1> HIDE DEF spent, received
<1>3. DOMAIN s \subseteq 1 .. 5 /\ 1 \in DOMAIN s /\ 2 \in DOMAIN s
      /\ s[1] = spent.err /\ s[2] = received.err
  OBVIOUS
<1>4. \A i \in DOMAIN s : s[i] = "Ok"
  BY <1>2, <1>3, FirstErrorOk
<1> QED
  BY <1>2, <1>3, <1>4 DEF spent, received

-----------------------------------------------------------------------------
(***************************************************************************)
(* Moving an amount.                                                       *)
(***************************************************************************)
\* Everything but the entries that hold the asset is as before.
SameTerms(l, m) ==
    /\ m.id = l.id /\ m.asset = l.asset /\ m.issuer = l.issuer /\ m.seq = l.seq
    /\ m.admin = l.admin /\ m.allowance = l.allowance

\* Only the entry of address a may differ.
OnlyAt(l, m, a) ==
    /\ \A b \in Account : b # a => m.classic[b] = l.classic[b]
    /\ \A b \in Contract : b # a => m.balance[b] = l.balance[b]

InLimits(native, e) ==
    /\ e.balance >= e.selling + (IF native THEN Reserve ELSE 0)
    /\ e.balance + e.buying <= (IF native THEN I64Max ELSE e.limit)

Moves(l, m, a, d) ==
    /\ m \in Ledger /\ SameTerms(l, m) /\ OnlyAt(l, m, a)
    /\ IsIssuer(l, a) => m = l
    /\ ~ IsIssuer(l, a) => /\ Holding(m, a) = Holding(l, a) + d
                           /\ a \in Account => InLimits(l.asset = "native", m.classic[a])

LEMMA LedgerFields ==
    ASSUME NEW l \in Ledger
    PROVE  /\ l.id \in {"native", "credit"} /\ l.asset \in {"native", "credit", NoEntry}
           /\ l.issuer \in {NoEntry} \union SUBSET IssuerFlag /\ l.seq \in Nat
           /\ l.classic \in [Account -> ClassicEntry \union {NoEntry}]
           /\ l.balance \in [Contract -> BalanceValue \union {NoEntry}]
           /\ l.allowance \in [Pair -> AllowanceEntry \union {NoEntry}]
           /\ l.admin \in ScAddress \union {NoEntry}
  BY DEF Ledger

LEMMA NewClassic ==
    ASSUME NEW l \in Ledger, NEW c \in [Account -> ClassicEntry \union {NoEntry}]
    PROVE  /\ [l EXCEPT !.classic = c] \in Ledger
           /\ SameTerms(l, [l EXCEPT !.classic = c])
           /\ [l EXCEPT !.classic = c].classic = c
           /\ [l EXCEPT !.classic = c].balance = l.balance
  BY DEF Ledger, SameTerms

LEMMA NewBalances ==
    ASSUME NEW l \in Ledger, NEW c \in [Contract -> BalanceValue \union {NoEntry}]
    PROVE  /\ [l EXCEPT !.balance = c] \in Ledger
           /\ SameTerms(l, [l EXCEPT !.balance = c])
           /\ [l EXCEPT !.balance = c].balance = c
           /\ [l EXCEPT !.balance = c].classic = l.classic
  BY DEF Ledger, SameTerms

LEMMA NewAllowances ==
    ASSUME NEW l \in Ledger, NEW c \in [Pair -> AllowanceEntry \union {NoEntry}]
    PROVE  /\ [l EXCEPT !.allowance = c] \in Ledger
           /\ [l EXCEPT !.allowance = c].allowance = c
           /\ [l EXCEPT !.allowance = c].balance = l.balance
           /\ [l EXCEPT !.allowance = c].classic = l.classic
           /\ [l EXCEPT !.allowance = c].id = l.id
           /\ [l EXCEPT !.allowance = c].asset = l.asset
           /\ [l EXCEPT !.allowance = c].issuer = l.issuer
           /\ [l EXCEPT !.allowance = c].seq = l.seq
           /\ [l EXCEPT !.allowance = c].admin = l.admin
  BY DEF Ledger

\* What a call leaves when it writes one entry.
LEMMA WriteClassic ==
    ASSUME NEW l \in Ledger, NEW a \in Account, NEW e \in ClassicEntry
    PROVE  LET m == [l EXCEPT !.classic = [l.classic EXCEPT ![a] = e]]
           IN  /\ m \in Ledger /\ SameTerms(l, m) /\ OnlyAt(l, m, a)
               /\ m.classic[a] = e /\ Holding(m, a) = e.balance
<1> DEFINE c == [l.classic EXCEPT ![a] = e]
           m == [l EXCEPT !.classic = c]
<1>1. l.classic \in [Account -> ClassicEntry \union {NoEntry}]
  BY LedgerFields
<1>2. /\ c \in [Account -> ClassicEntry \union {NoEntry}]
      /\ c[a] = e /\ \A b \in Account : b # a => c[b] = l.classic[b]
  BY <1>1
<1> HIDE DEF c
<1>3. m \in Ledger /\ SameTerms(l, m) /\ m.classic = c /\ m.balance = l.balance
  BY <1>2, NewClassic
<1> HIDE DEF m
<1>4. OnlyAt(l, m, a) /\ m.classic[a] = e
  BY <1>2, <1>3 DEF OnlyAt
<1>5. Holding(m, a) = e.balance
  BY <1>4, SacAssumption DEF Holding
<1> QED
  BY <1>3, <1>4, <1>5 DEF m, c

LEMMA WriteBalance ==
    ASSUME NEW l \in Ledger, NEW a \in Contract, NEW v \in BalanceValue
    PROVE  LET m == write_contract_balance(l, a, v).l
           IN  /\ m \in Ledger /\ SameTerms(l, m) /\ OnlyAt(l, m, a)
               /\ m.balance[a] = v /\ Holding(m, a) = v.amount
<1> DEFINE c == [l.balance EXCEPT ![a] = v]
           m == [l EXCEPT !.balance = c]
<1>1. l.balance \in [Contract -> BalanceValue \union {NoEntry}]
  BY LedgerFields
<1>2. /\ c \in [Contract -> BalanceValue \union {NoEntry}]
      /\ c[a] = v /\ \A b \in Contract : b # a => c[b] = l.balance[b]
  BY <1>1
<1>3. write_contract_balance(l, a, v) = Done(m)
  BY DEF write_contract_balance
<1> HIDE DEF c
<1>4. m \in Ledger /\ SameTerms(l, m) /\ m.balance = c /\ m.classic = l.classic
  BY <1>2, NewBalances
<1> HIDE DEF m
<1>5. OnlyAt(l, m, a) /\ m.balance[a] = v
  BY <1>2, <1>4 DEF OnlyAt
<1>6. Holding(m, a) = v.amount
  BY <1>5, SacAssumption DEF Holding
<1> QED
  BY <1>3, <1>4, <1>5, <1>6, FailFields

LEMMA HoldingInt ==
    ASSUME NEW l \in Ledger, NEW a \in ScAddress
    PROVE  Holding(l, a) \in Int /\ Holding(l, a) >= 0
<1>1. /\ l.classic \in [Account -> ClassicEntry \union {NoEntry}]
      /\ l.balance \in [Contract -> BalanceValue \union {NoEntry}]
  BY LedgerFields
<1>2. CASE a \in Account
  BY <1>1, <1>2, SacAssumption DEF Holding, ClassicEntry
<1>3. CASE a \in Contract /\ a \notin Account
  BY <1>1, <1>3, SacAssumption DEF Holding, BalanceValue
<1> QED
  BY <1>2, <1>3 DEF ScAddress

LEMMA EntryMoves ==
    ASSUME NEW l \in Ledger, NEW a \in Account, NEW d \in Int, ~ IsIssuer(l, a),
           transfer_entry_balance(l, a, d).err = "Ok"
    PROVE  Moves(l, transfer_entry_balance(l, a, d).l, a, d)
<1> DEFINE e == l.classic[a]
           new == e.balance + d
           f == [e EXCEPT !.balance = new]
           m == [l EXCEPT !.classic = [l.classic EXCEPT ![a] = f]]
           native == l.asset = "native"
<1>1. e \in ClassicEntry \union {NoEntry}
  BY LedgerFields
<1>2. /\ e # NoEntry /\ ~ LimitBelowLiabilities(l, e)
      /\ ~ (new > I64Max \/ new < min_balance(l, e) \/ new > max_balance(l, e))
  <2> DEFINE bad == new > I64Max \/ new < min_balance(l, e) \/ new > max_balance(l, e)
  <2>1. transfer_entry_balance(l, a, d) =
           IF e = NoEntry THEN Fail(l, MissingClassic(l))
           ELSE IF LimitBelowLiabilities(l, e) THEN Fail(l, "InternalError")
           ELSE IF bad THEN Fail(l, "BalanceError") ELSE Done(m)
    BY DEF transfer_entry_balance
  <2> HIDE DEF e, m, bad
  <2>2. MissingClassic(l) # "Ok"
    BY DEF MissingClassic
  <2>3. e # NoEntry /\ ~ LimitBelowLiabilities(l, e) /\ ~ bad
    BY <2>1, <2>2, FailFields
  <2> QED
    BY <2>3 DEF bad
<1>3. transfer_entry_balance(l, a, d) = Done(m)
  BY <1>2 DEF transfer_entry_balance
<1>4. /\ e \in ClassicEntry /\ e.balance \in Nat /\ e.selling \in Nat /\ e.buying \in Nat
      /\ e.limit \in Nat /\ I64Max \in Nat /\ Reserve \in Nat
  BY <1>1, <1>2, SacAssumption DEF ClassicEntry
<1>5. new \in Int /\ new \in 0 .. I64Max
  BY <1>2, <1>4 DEF min_balance
<1>6. f \in ClassicEntry /\ f.balance = new /\ f.selling = e.selling /\ f.buying = e.buying
      /\ f.limit = e.limit
  BY <1>4, <1>5 DEF ClassicEntry
<1>7. InLimits(native, f)
  BY <1>2, <1>4, <1>5, <1>6 DEF InLimits, min_balance, max_balance
<1>8. Holding(l, a) = e.balance
  BY <1>2 DEF Holding
<1> HIDE DEF f, e
<1>9. m \in Ledger /\ SameTerms(l, m) /\ OnlyAt(l, m, a) /\ m.classic[a] = f
      /\ Holding(m, a) = f.balance
  BY <1>6, WriteClassic
<1> HIDE DEF m
<1>10. Moves(l, m, a, d)
  BY <1>6, <1>7, <1>8, <1>9 DEF Moves
<1> QED
  BY <1>3, <1>10, FailFields

LEMMA StillMoves ==
    ASSUME NEW l \in Ledger, NEW a \in ScAddress, IsIssuer(l, a), NEW d
    PROVE  Moves(l, l, a, d)
  BY DEF Moves, SameTerms, OnlyAt

LEMMA ClassicMoves ==
    ASSUME NEW l \in Ledger, NEW a \in Account, NEW d \in Int,
           transfer_classic_balance(l, a, d).err = "Ok"
    PROVE  Moves(l, transfer_classic_balance(l, a, d).l, a, d)
<1>1. CASE IsIssuer(l, a)
  BY <1>1, StillMoves, FailFields DEF transfer_classic_balance, ScAddress
<1>2. CASE ~ IsIssuer(l, a)
  <2>1. transfer_classic_balance(l, a, d) = transfer_entry_balance(l, a, d)
    BY <1>2 DEF transfer_classic_balance
  <2> QED
    BY <1>2, <2>1, EntryMoves
<1> QED
  BY <1>1, <1>2

\* The issuer is an account.
LEMMA ContractFacts ==
    ASSUME NEW l \in Ledger, NEW a \in ScAddress, a \notin Account
    PROVE  /\ a \in Contract /\ ~ IsIssuer(l, a)
           /\ l.balance[a] \in BalanceValue \union {NoEntry}
           /\ Holding(l, a) = IF l.balance[a] = NoEntry THEN 0 ELSE l.balance[a].amount
  BY LedgerFields, SacAssumption DEF ScAddress, IsIssuer, Holding

LEMMA SpendMoves ==
    ASSUME NEW l \in Ledger, NEW a \in ScAddress, NEW amount \in Nat,
           spend_balance_no_authorization_check(l, a, amount).err = "Ok"
    PROVE  Moves(l, spend_balance_no_authorization_check(l, a, amount).l, a, -amount)
<1> DEFINE o == spend_balance_no_authorization_check(l, a, amount)
<1>1. CASE a \in Account
  <2>1. o = transfer_classic_balance(l, a, -amount)
    BY <1>1, FailFields DEF spend_balance_no_authorization_check
  <2>2. -amount \in Int
    OBVIOUS
  <2> QED
    BY <1>1, <2>1, <2>2, ClassicMoves
<1>2. CASE a \notin Account
  <2>1. /\ a \in Contract /\ ~ IsIssuer(l, a)
        /\ l.balance[a] \in BalanceValue \union {NoEntry}
        /\ Holding(l, a) = IF l.balance[a] = NoEntry THEN 0 ELSE l.balance[a].amount
    BY <1>2, ContractFacts
  <2>2. CASE l.balance[a] = NoEntry
    <3>1. amount = 0 /\ o = Done(l)
      BY <1>2, <2>2, FailFields DEF spend_balance_no_authorization_check
    <3> QED
      BY <1>2, <2>1, <2>2, <3>1, FailFields DEF Moves, SameTerms, OnlyAt
  <2>3. CASE l.balance[a] # NoEntry
    <3> DEFINE b == l.balance[a]
               v == [b EXCEPT !.amount = b.amount - amount]
    <3>1. b \in BalanceValue /\ b.amount \in 0 .. I128Max /\ I128Max \in Nat
      BY <2>1, <2>3, SacAssumption DEF BalanceValue
    <3>2. ~ (b.amount < amount) /\ o = write_contract_balance(l, a, v)
      BY <1>2, <2>3, FailFields DEF spend_balance_no_authorization_check
    <3>3. b.amount - amount \in 0 .. I128Max
      BY <3>1, <3>2
    <3>4. v \in BalanceValue /\ v.amount = b.amount - amount
      BY <3>1, <3>3 DEF BalanceValue
    <3>5. Holding(l, a) = b.amount
      BY <2>1, <2>3
    <3> HIDE DEF v, b
    <3> DEFINE m == write_contract_balance(l, a, v).l
    <3>6. m \in Ledger /\ SameTerms(l, m) /\ OnlyAt(l, m, a) /\ Holding(m, a) = v.amount
      BY <2>1, <3>4, WriteBalance
    <3> HIDE DEF m
    <3>7. v.amount = b.amount + (-amount)
      BY <3>1, <3>4
    <3>8. Moves(l, m, a, -amount)
      BY <1>2, <2>1, <3>5, <3>6, <3>7 DEF Moves
    <3> QED
      BY <3>2, <3>8 DEF m
  <2> QED
    BY <2>2, <2>3
<1> QED
  BY <1>1, <1>2

LEMMA NewBalanceType ==
    ASSUME NEW l, NEW authorized \in BOOLEAN
    PROVE  NewBalance(l, authorized) \in BalanceValue /\ NewBalance(l, authorized).amount = 0
<1>1. (is_asset_issuer_flag_set(l, "ClawbackEnabled") = "Yes") \in BOOLEAN
  OBVIOUS
<1>2. 0 \in 0 .. I128Max
  BY SacAssumption
<1> QED
  BY <1>1, <1>2 DEF NewBalance, BalanceValue

LEMMA ReceiveMoves ==
    ASSUME NEW l \in Ledger, NEW a \in ScAddress, NEW amount \in Nat,
           receive_balance(l, a, amount).err = "Ok"
    PROVE  /\ check_authorized(l, a) = "Ok"
           /\ Moves(l, receive_balance(l, a, amount).l, a, amount)
<1> DEFINE o == receive_balance(l, a, amount)
<1>1. check_authorized(l, a) = "Ok"
  BY FailFields DEF receive_balance
<1>2. CASE a \in Account
  <2>1. o = transfer_classic_balance(l, a, amount)
    BY <1>1, <1>2, FailFields DEF receive_balance
  <2> QED
    BY <1>1, <1>2, <2>1, ClassicMoves
<1>3. CASE a \notin Account
  <2> DEFINE b == ContractBalance(l, a)
             v == [b EXCEPT !.amount = b.amount + amount]
  <2>1. /\ a \in Contract /\ ~ IsIssuer(l, a)
        /\ l.balance[a] \in BalanceValue \union {NoEntry}
        /\ Holding(l, a) = IF l.balance[a] = NoEntry THEN 0 ELSE l.balance[a].amount
    BY <1>3, ContractFacts
  <2>2. b \in BalanceValue /\ b.amount = Holding(l, a)
    BY <2>1, NewBalanceType DEF ContractBalance
  <2>3. ~ (b.amount + amount > I128Max) /\ o = write_contract_balance(l, a, v)
    BY <1>1, <1>3, FailFields DEF receive_balance
  <2> HIDE DEF b
  <2>4. b.amount \in 0 .. I128Max /\ I128Max \in Nat
    BY <2>2, SacAssumption DEF BalanceValue
  <2>5. b.amount + amount \in 0 .. I128Max
    BY <2>3, <2>4
  <2>6. v \in BalanceValue /\ v.amount = b.amount + amount
    BY <2>2, <2>5 DEF BalanceValue
  <2> HIDE DEF v
  <2> DEFINE m == write_contract_balance(l, a, v).l
  <2>7. m \in Ledger /\ SameTerms(l, m) /\ OnlyAt(l, m, a) /\ Holding(m, a) = v.amount
    BY <2>1, <2>6, WriteBalance
  <2> HIDE DEF m
  <2>8. Moves(l, m, a, amount)
    BY <1>3, <2>1, <2>2, <2>6, <2>7 DEF Moves
  <2> QED
    BY <1>1, <2>3, <2>8 DEF m
<1> QED
  BY <1>2, <1>3

LEMMA SpendAuthorized ==
    ASSUME NEW l \in Ledger, NEW a \in ScAddress, NEW amount \in Nat,
           spend_balance(l, a, amount).err = "Ok"
    PROVE  /\ check_authorized(l, a) = "Ok"
           /\ Moves(l, spend_balance(l, a, amount).l, a, -amount)
<1>1. check_authorized(l, a) = "Ok"
  BY FailFields DEF spend_balance
<1>2. spend_balance(l, a, amount) = spend_balance_no_authorization_check(l, a, amount)
  BY <1>1 DEF spend_balance
<1> QED
  BY <1>1, <1>2, SpendMoves

-----------------------------------------------------------------------------
(***************************************************************************)
(* What a call does to all the holdings: an amount goes from one address   *)
(* to another; NoEntry stands for nobody.  The issuer's holding is not     *)
(* kept.                                                                   *)
(***************************************************************************)
Delta(a, from, to, amount) ==
    (IF a = to THEN amount ELSE 0) - (IF a = from THEN amount ELSE 0)

Flow(l, m, from, to, amount) ==
    \A a \in ScAddress :
        /\ Holding(m, a) = Holding(l, a)
                           + (IF IsIssuer(l, a) THEN 0 ELSE Delta(a, from, to, amount))
        /\ a \in Account /\ Holding(m, a) # Holding(l, a)
              => InLimits(l.asset = "native", m.classic[a])

LEMMA OnlyAtHolding ==
    ASSUME NEW l, NEW m, NEW a, OnlyAt(l, m, a), NEW b \in ScAddress, b # a
    PROVE  Holding(m, b) = Holding(l, b) /\ (b \in Account => m.classic[b] = l.classic[b])
  BY DEF OnlyAt, Holding, ScAddress

LEMMA FlowOne ==
    ASSUME NEW l \in Ledger, NEW m, NEW a \in ScAddress, NEW d \in Int, Moves(l, m, a, d),
           NEW from, NEW to, NEW amount \in Int, Delta(a, from, to, amount) = d,
           \A b \in ScAddress : b # a => Delta(b, from, to, amount) = 0
    PROVE  Flow(l, m, from, to, amount)
<1> SUFFICES ASSUME NEW b \in ScAddress
             PROVE  /\ Holding(m, b) = Holding(l, b)
                           + (IF IsIssuer(l, b) THEN 0 ELSE Delta(b, from, to, amount))
                    /\ b \in Account /\ Holding(m, b) # Holding(l, b)
                          => InLimits(l.asset = "native", m.classic[b])
  BY DEF Flow
<1>1. Holding(l, b) \in Int
  BY HoldingInt
<1>2. CASE b # a
  <2>1. Holding(m, b) = Holding(l, b) /\ Delta(b, from, to, amount) = 0
    BY <1>2, OnlyAtHolding DEF Moves
  <2> QED
    BY <1>1, <2>1
<1>3. CASE b = a /\ IsIssuer(l, a)
  BY <1>1, <1>3 DEF Moves
<1>4. CASE b = a /\ ~ IsIssuer(l, a)
  BY <1>1, <1>4 DEF Moves
<1> QED
  BY <1>2, <1>3, <1>4

LEMMA FlowSpend ==
    ASSUME NEW l \in Ledger, NEW m, NEW a \in ScAddress, NEW amount \in Nat,
           Moves(l, m, a, -amount)
    PROVE  Flow(l, m, a, NoEntry, amount)
<1>1. NoEntry \notin ScAddress
  BY SacAssumption
<1>2. -amount \in Int /\ Delta(a, a, NoEntry, amount) = -amount
  BY <1>1 DEF Delta
<1>3. \A b \in ScAddress : b # a => Delta(b, a, NoEntry, amount) = 0
  BY <1>1 DEF Delta
<1> QED
  BY <1>2, <1>3, FlowOne

LEMMA FlowReceive ==
    ASSUME NEW l \in Ledger, NEW m, NEW a \in ScAddress, NEW amount \in Nat,
           Moves(l, m, a, amount)
    PROVE  Flow(l, m, NoEntry, a, amount)
<1>1. NoEntry \notin ScAddress
  BY SacAssumption
<1>2. Delta(a, NoEntry, a, amount) = amount
  BY <1>1 DEF Delta
<1>3. \A b \in ScAddress : b # a => Delta(b, NoEntry, a, amount) = 0
  BY <1>1 DEF Delta
<1> QED
  BY <1>2, <1>3, FlowOne

LEMMA FlowTransfer ==
    ASSUME NEW l \in Ledger, NEW k, NEW m, NEW from \in ScAddress, NEW to \in ScAddress,
           NEW amount \in Nat, Moves(l, k, from, -amount), Moves(k, m, to, amount)
    PROVE  /\ m \in Ledger /\ SameTerms(l, m)
           /\ Flow(l, m, from, to, amount)
<1>1. k \in Ledger /\ m \in Ledger /\ SameTerms(l, k) /\ SameTerms(k, m)
  BY DEF Moves
<1>2. SameTerms(l, m)
  BY <1>1 DEF SameTerms
<1>3. k.asset = l.asset /\ \A a : IsIssuer(k, a) <=> IsIssuer(l, a)
  BY <1>1 DEF SameTerms, IsIssuer
<1>4. Flow(l, k, from, NoEntry, amount) /\ Flow(k, m, NoEntry, to, amount)
  BY <1>1, FlowSpend, FlowReceive
<1>5. ASSUME NEW a \in ScAddress
      PROVE  /\ Holding(m, a) = Holding(l, a)
                     + (IF IsIssuer(l, a) THEN 0 ELSE Delta(a, from, to, amount))
             /\ a \in Account /\ Holding(m, a) # Holding(l, a)
                   => InLimits(l.asset = "native", m.classic[a])
  <2>1. Holding(l, a) \in Int /\ Holding(k, a) \in Int /\ Holding(m, a) \in Int
    BY <1>1, HoldingInt
  <2>2. a # NoEntry
    BY SacAssumption
  <2>3. /\ Holding(k, a) = Holding(l, a)
                  + (IF IsIssuer(l, a) THEN 0 ELSE Delta(a, from, NoEntry, amount))
        /\ Holding(m, a) = Holding(k, a)
                  + (IF IsIssuer(l, a) THEN 0 ELSE Delta(a, NoEntry, to, amount))
    BY <1>3, <1>4 DEF Flow
  <2>4. Holding(m, a) = Holding(l, a)
                  + (IF IsIssuer(l, a) THEN 0 ELSE Delta(a, from, to, amount))
    BY <2>1, <2>2, <2>3 DEF Delta
  <2>5. ASSUME a \in Account, Holding(m, a) # Holding(l, a)
        PROVE  InLimits(l.asset = "native", m.classic[a])
    <3>1. CASE a = to
      <4>1. Holding(m, a) # Holding(k, a)
        BY <2>1, <2>2, <2>3, <2>5, <3>1 DEF Delta
      <4> QED
        BY <1>3, <1>4, <2>5, <4>1 DEF Flow
    <3>2. CASE a # to
      <4>1. m.classic[a] = k.classic[a] /\ Holding(m, a) = Holding(k, a)
        BY <2>5, <3>2, OnlyAtHolding DEF Moves
      <4> QED
        BY <1>4, <2>5, <4>1 DEF Flow
    <3> QED
      BY <3>1, <3>2
  <2> QED
    BY <2>4, <2>5
<1> QED
  BY <1>1, <1>2, <1>5 DEF Flow

-----------------------------------------------------------------------------
(***************************************************************************)
(* Authorization.  MayFlow: only holders who are authorized lose or gain.  *)
(***************************************************************************)
MayFlow(l, m) ==
    \A a \in ScAddress : Holding(m, a) # Holding(l, a) => MayHold(l, a)

LEMMA AuthorizedMayHold ==
    ASSUME NEW l \in Ledger, l.asset = l.id, NEW a \in ScAddress,
           check_authorized(l, a) = "Ok"
    PROVE  IsIssuer(l, a) \/ MayHold(l, a)
<1>1. is_authorized(l, a) = "Yes"
  <2>1. is_authorized(l, a) # "Ok"
    <3>1. CASE a \in Account
      BY <3>1 DEF is_authorized, is_account_authorized, YesNo
    <3>2. CASE a \notin Account
      BY <3>2 DEF is_authorized, is_asset_issuer_flag_set, YesNo
    <3> QED
      BY <3>1, <3>2
  <2> QED
    BY <2>1 DEF check_authorized
<1>2. CASE a \in Account
  BY <1>1, <1>2 DEF is_authorized, is_account_authorized, YesNo, MayHold
<1>3. CASE a \notin Account /\ l.balance[a] # NoEntry
  BY <1>1, <1>3 DEF is_authorized, YesNo, MayHold, ScAddress
<1>4. CASE a \notin Account /\ l.balance[a] = NoEntry
  <2>1. is_asset_issuer_flag_set(l, "Required") = "No"
    <3>1. is_asset_issuer_flag_set(l, "Required") \in {"Yes", "No", "AccountMissing"}
      BY DEF is_asset_issuer_flag_set, YesNo
    <3> QED
      BY <1>1, <1>4, <3>1 DEF is_authorized
  <2>2. l.asset = "native" \/ (l.issuer # NoEntry /\ "Required" \notin l.issuer)
    BY <2>1 DEF is_asset_issuer_flag_set, YesNo
  <2> QED
    BY <1>4, <2>2 DEF MayHold, ScAddress
<1> QED
  BY <1>2, <1>3, <1>4

LEMMA MovesMayFlow ==
    ASSUME NEW l \in Ledger, l.asset = l.id, NEW a \in ScAddress, NEW m, NEW d,
           Moves(l, m, a, d), check_authorized(l, a) = "Ok"
    PROVE  MayFlow(l, m)
<1>1. ASSUME NEW b \in ScAddress, Holding(m, b) # Holding(l, b)
      PROVE  MayHold(l, b)
  <2>1. b = a
    BY <1>1, OnlyAtHolding DEF Moves
  <2>2. ~ IsIssuer(l, a)
    BY <1>1, <2>1 DEF Moves
  <2> QED
    BY <2>1, <2>2, AuthorizedMayHold
<1> QED
  BY <1>1 DEF MayFlow

\* A transfer: spend_balance, then receive_balance on what it left.
LEMMA MoveBalance ==
    ASSUME NEW l \in Ledger, l.asset = l.id, NEW from \in ScAddress, NEW to \in ScAddress,
           NEW amount \in Nat, move_balance(l, from, to, amount).err = "Ok",
           NEW m, m = move_balance(l, from, to, amount).l
    PROVE  /\ m \in Ledger /\ SameTerms(l, m)
           /\ Flow(l, m, from, to, amount) /\ MayFlow(l, m)
<1> DEFINE spent == spend_balance(l, from, amount)
           k == spent.l
           received == receive_balance(k, to, amount)
<1>1. spent.err = "Ok" /\ received.err = "Ok" /\ m = received.l
  BY MoveBalanceOk
<1>2. check_authorized(l, from) = "Ok" /\ Moves(l, k, from, -amount)
  BY <1>1, SpendAuthorized
<1> HIDE DEF k
<1>3. k \in Ledger /\ SameTerms(l, k) /\ OnlyAt(l, k, from)
  BY <1>2 DEF Moves
<1>4. check_authorized(k, to) = "Ok" /\ Moves(k, m, to, amount)
  BY <1>1, <1>3, ReceiveMoves
<1>5. m \in Ledger /\ SameTerms(l, m) /\ Flow(l, m, from, to, amount)
  BY <1>2, <1>4, FlowTransfer
<1>6. k.asset = k.id
  BY <1>3 DEF SameTerms
<1>7. MayFlow(l, k) /\ MayFlow(k, m)
  BY <1>2, <1>3, <1>4, <1>6, MovesMayFlow
<1>8. ASSUME NEW a \in ScAddress, Holding(m, a) # Holding(l, a)
      PROVE  MayHold(l, a)
  <2>1. CASE Holding(k, a) # Holding(l, a)
    BY <1>7, <2>1 DEF MayFlow
  <2>2. CASE Holding(k, a) = Holding(l, a)
    <3>1. a = to /\ MayHold(k, a)
      BY <1>7, <1>8, <2>2, <1>4, OnlyAtHolding DEF MayFlow, Moves
    <3>2. CASE from # a
      <4>1. a \in Account => k.classic[a] = l.classic[a]
        BY <1>3, <3>2 DEF OnlyAt
      <4>2. a \in Contract => k.balance[a] = l.balance[a]
        BY <1>3, <3>2 DEF OnlyAt
      <4>3. k.id = l.id /\ k.issuer = l.issuer
        BY <1>3 DEF SameTerms
      <4> QED
        BY <3>1, <4>1, <4>2, <4>3 DEF MayHold
    <3>3. CASE from = a
      BY <1>2, <3>3, <1>8, <1>5, <3>1, AuthorizedMayHold, HoldingInt DEF Flow
    <3> QED
      BY <3>2, <3>3
  <2> QED
    BY <2>1, <2>2
<1> QED
  BY <1>5, <1>8 DEF MayFlow

\* set_authorized moves nothing; it may create an empty balance.
LEMMA WriteAuthorization ==
    ASSUME NEW l \in Ledger, NEW a \in ScAddress, NEW authorize \in BOOLEAN,
           write_authorization(l, a, authorize).err = "Ok",
           NEW m, m = write_authorization(l, a, authorize).l
    PROVE  /\ m \in Ledger /\ SameTerms(l, m)
           /\ \A b \in ScAddress : Holding(m, b) = Holding(l, b)
<1> DEFINE revocable == is_asset_issuer_flag_set(l, "Revocable")
           clawback == is_asset_issuer_flag_set(l, "ClawbackEnabled")
           b == l.balance[a]
           set == set_authorization(l, a, authorize)
           old == write_contract_balance(l, a, [b EXCEPT !.authorized = authorize])
           new == write_contract_balance(l, a, NewBalance(l, authorize))
<1>1. write_authorization(l, a, authorize) =
           IF ~authorize /\ revocable = "No" THEN Fail(l, "OperationNotSupported")
           ELSE IF ~authorize /\ revocable # "Yes" THEN Fail(l, revocable)
           ELSE IF a \in Account THEN set
           ELSE IF b # NoEntry THEN old
           ELSE IF clawback \notin {"Yes", "No"} THEN Fail(l, clawback)
           ELSE new
  BY DEF write_authorization
<1>2. revocable # "Ok" /\ clawback # "Ok"
  BY DEF is_asset_issuer_flag_set, YesNo
<1>3. m = IF a \in Account THEN set.l ELSE IF b # NoEntry THEN old.l ELSE new.l
  <2> HIDE DEF revocable, clawback, set, old, new
  <2> QED
    BY <1>1, <1>2, FailFields
<1>4. a \in Account => set.err = "Ok"
  <2> HIDE DEF revocable, clawback, set, old, new
  <2> QED
    BY <1>1, <1>2, FailFields
<1>5. CASE a \in Account
  <2> DEFINE e == l.classic[a]
             f == [e EXCEPT !.flags = set_trustline_flags(e.flags, authorize)]
             n == [l EXCEPT !.classic = [l.classic EXCEPT ![a] = f]]
  <2>1. m = set.l /\ set.err = "Ok"
    BY <1>5, <1>3, <1>4
  <2>2. set_authorization(l, a, authorize) =
           IF l.asset = "native" \/ IsIssuer(l, a) THEN Fail(l, "OperationNotSupported")
           ELSE IF e = NoEntry THEN Fail(l, "TrustlineMissing")
           ELSE Done(n)
    BY DEF set_authorization
  <2>3. e \in ClassicEntry \union {NoEntry}
    BY <1>5, LedgerFields
  <2> HIDE DEF n, e
  <2>4. e # NoEntry /\ m = n
    BY <2>1, <2>2, FailFields
  <2>5. f \in ClassicEntry /\ f.balance = e.balance
    <3>1. e \in ClassicEntry
      BY <2>3, <2>4
    <3>2. set_trustline_flags(e.flags, authorize) \in SUBSET TrustLineFlag
      BY <3>1 DEF set_trustline_flags, TrustLineFlag, ClassicEntry
    <3> QED
      BY <3>1, <3>2 DEF ClassicEntry
  <2>6. Holding(l, a) = e.balance
    BY <1>5, <2>4 DEF Holding, e
  <2> HIDE DEF f
  <2>7. n \in Ledger /\ SameTerms(l, n) /\ OnlyAt(l, n, a) /\ Holding(n, a) = f.balance
    BY <1>5, <2>5, WriteClassic DEF n
  <2> QED
    BY <2>4, <2>5, <2>6, <2>7, OnlyAtHolding
<1>6. CASE a \notin Account
  <2>1. /\ a \in Contract /\ l.balance[a] \in BalanceValue \union {NoEntry}
        /\ Holding(l, a) = IF l.balance[a] = NoEntry THEN 0 ELSE l.balance[a].amount
    BY <1>6, ContractFacts
  <2>2. \E v \in BalanceValue : /\ v.amount = Holding(l, a)
                                /\ m = write_contract_balance(l, a, v).l
    <3>1. CASE l.balance[a] # NoEntry
      <4> DEFINE v == [b EXCEPT !.authorized = authorize]
      <4>1. v \in BalanceValue /\ v.amount = Holding(l, a)
        BY <2>1, <3>1 DEF BalanceValue
      <4>2. m = write_contract_balance(l, a, v).l
        BY <1>6, <1>3, <3>1
      <4> QED
        BY <4>1, <4>2
    <3>2. CASE l.balance[a] = NoEntry
      <4>1. m = write_contract_balance(l, a, NewBalance(l, authorize)).l
        BY <1>6, <1>3, <3>2
      <4> QED
        BY <2>1, <3>2, <4>1, NewBalanceType
    <3> QED
      BY <3>1, <3>2
  <2>3. PICK v \in BalanceValue : /\ v.amount = Holding(l, a)
                                  /\ m = write_contract_balance(l, a, v).l
    BY <2>2
  <2>4. m \in Ledger /\ SameTerms(l, m) /\ OnlyAt(l, m, a) /\ Holding(m, a) = v.amount
    BY <2>1, <2>3, WriteBalance
  <2> QED
    BY <2>3, <2>4, OnlyAtHolding
<1> QED
  BY <1>5, <1>6

-----------------------------------------------------------------------------
(***************************************************************************)
(* Allowances.                                                             *)
(***************************************************************************)
\* Ledger m is l with another allowance al for the pair p.
AllowanceSet(l, m, p, al) ==
    /\ m \in Ledger
    /\ m.id = l.id /\ m.asset = l.asset /\ m.issuer = l.issuer /\ m.seq = l.seq
    /\ m.admin = l.admin /\ m.classic = l.classic /\ m.balance = l.balance
    /\ m.allowance[p] = al
    /\ \A q \in Pair : q # p => m.allowance[q] = l.allowance[q]

LEMMA PutAllowanceSets ==
    ASSUME NEW l \in Ledger, NEW p \in Pair, NEW amount \in 0 .. I128Max,
           NEW live \in Nat, NEW ttl \in Nat
    PROVE  LET al == [amount |-> amount, live_until_ledger |-> live, ttl |-> ttl]
           IN  /\ al # NoEntry
               /\ AllowanceSet(l, PutAllowance(l, p, amount, live, ttl), p, al)
<1> DEFINE al == [amount |-> amount, live_until_ledger |-> live, ttl |-> ttl]
           c  == [l.allowance EXCEPT ![p] = al]
           m  == [l EXCEPT !.allowance = c]
<1>1. al \in AllowanceEntry /\ al # NoEntry
  BY SacAssumption DEF AllowanceEntry
<1>2. m = PutAllowance(l, p, amount, live, ttl)
  BY DEF PutAllowance
<1> HIDE DEF al
<1>3. /\ c \in [Pair -> AllowanceEntry \union {NoEntry}] /\ c[p] = al
      /\ \A q \in Pair : q # p => c[q] = l.allowance[q]
  BY <1>1, LedgerFields
<1> HIDE DEF c
<1>4. /\ m \in Ledger /\ m.allowance = c
      /\ m.id = l.id /\ m.asset = l.asset /\ m.issuer = l.issuer /\ m.seq = l.seq
      /\ m.admin = l.admin /\ m.classic = l.classic /\ m.balance = l.balance
  BY <1>3, NewAllowances
<1>5. AllowanceSet(l, m, p, al)
  BY <1>3, <1>4 DEF AllowanceSet
<1> QED
  BY <1>1, <1>2, <1>5 DEF al

LEMMA AllowanceFields ==
    ASSUME NEW l \in Ledger, NEW p \in Pair, l.allowance[p] # NoEntry
    PROVE  /\ l.allowance[p].amount \in 0 .. I128Max
           /\ l.allowance[p].live_until_ledger \in Nat /\ l.allowance[p].ttl \in Nat
<1>1. l.allowance[p] \in AllowanceEntry
  BY LedgerFields
<1> QED
  BY <1>1 DEF AllowanceEntry

\* What write_allowance can do when it succeeds: nothing, or the entry is
\* replaced, and lives long enough unless it was said to do so already.
LEMMA WriteAllowanceCases ==
    ASSUME NEW l \in Ledger, NEW p \in Pair, NEW amount \in Nat, NEW live \in Nat,
           write_allowance(l, p, amount, live).err = "Ok",
           NEW m, m = write_allowance(l, p, amount, live).l
    PROVE  \/ ~ LiveAllowance(l, p) /\ amount = 0 /\ m = l
           \/ \E ttl \in Nat :
                 /\ m = PutAllowance(l, p, amount, live, ttl)
                 /\ ttl >= l.seq
                 /\ \/ amount = 0
                    \/ ttl >= live
                    \/ /\ LiveAllowance(l, p)
                       /\ l.allowance[p].live_until_ledger >= live
                 /\ LiveAllowance(l, p) /\ l.allowance[p].live_until_ledger >= live
                       => ttl = l.allowance[p].ttl
<1> DEFINE exists   == LiveAllowance(l, p)
           old      == IF exists THEN l.allowance[p].live_until_ledger ELSE 0
           ttl      == IF exists THEN l.allowance[p].ttl ELSE l.seq + MinTempTtl - 1
           live_for == live - l.seq + 1
           extended == l.seq + live_for
           late     == \/ live > max_live_until_ledger(l)
                       \/ amount > 0 /\ live < l.seq
           same     == PutAllowance(l, p, amount, live, ttl)
           longer   == PutAllowance(l, p, amount, live, extended)
           refused  == extended > max_live_until_ledger(l)
           extend   == extended > ttl /\ ttl - l.seq <= live_for
<1>1. write_allowance(l, p, amount, live) =
         IF late THEN Fail(l, "AllowanceError")
         ELSE IF ~exists /\ amount = 0 THEN Done(l)
         ELSE IF amount = 0 \/ old >= live THEN Done(same)
         ELSE IF refused THEN Fail(l, "StorageInvalidAction")
         ELSE IF extend THEN Done(longer)
         ELSE Done(same)
  BY DEF write_allowance
<1>2. l.seq \in Nat /\ MinTempTtl \in Nat /\ 1 <= MinTempTtl
  BY LedgerFields, SacAssumption
<1>3. exists => /\ l.allowance[p].live_until_ledger \in Nat /\ l.allowance[p].ttl \in Nat
                /\ l.allowance[p].ttl >= l.seq
  BY AllowanceFields DEF LiveAllowance
<1>4. ttl \in Nat /\ ttl >= l.seq /\ old \in Nat /\ extended = live + 1
  BY <1>2, <1>3
<1>5. /\ ~ late
      /\ \/ ~exists /\ amount = 0 /\ m = l
         \/ (amount = 0 \/ old >= live) /\ m = same
         \/ ~ (old >= live) /\ extend /\ m = longer
         \/ ~ (old >= live) /\ ~ extend /\ m = same
  <2> HIDE DEF exists, old, late, same, longer, refused, extend
  <2> QED
    BY <1>1, FailFields
<1>6. amount > 0 => live >= l.seq
  BY <1>5, <1>2
<1> HIDE DEF same, longer
<1>7. CASE (amount = 0 \/ old >= live) /\ m = same
  <2>1. /\ \/ amount = 0 \/ ttl >= live
           \/ exists /\ l.allowance[p].live_until_ledger >= live
        /\ exists => ttl = l.allowance[p].ttl
    BY <1>2, <1>4, <1>6, <1>7
  <2> QED
    BY <1>4, <1>7, <2>1 DEF same
<1>8. CASE ~ (old >= live) /\ extend /\ m = longer
  <2>1. /\ extended \in Nat /\ extended >= l.seq /\ extended >= live
        /\ ~ (exists /\ l.allowance[p].live_until_ledger >= live)
    BY <1>2, <1>4, <1>8
  <2> QED
    BY <1>8, <2>1 DEF longer
<1>9. CASE ~ (old >= live) /\ ~ extend /\ m = same
  <2>1. ttl >= live /\ ~ (exists /\ l.allowance[p].live_until_ledger >= live)
    BY <1>2, <1>4, <1>9
  <2> QED
    BY <1>4, <1>9, <2>1 DEF same
<1> QED
  BY <1>5, <1>7, <1>8, <1>9

Consent == [left : Int, until : Nat, voided : Nat]

LEMMA AllowanceSetSame ==
    ASSUME NEW l \in Ledger, NEW p \in Pair
    PROVE  AllowanceSet(l, l, p, l.allowance[p])
  BY DEF AllowanceSet

\* approve: the owner's consent is replaced.
LEMMA ApproveAllowance ==
    ASSUME NEW l \in Ledger, NEW p \in Pair, NEW amount \in 0 .. I128Max, NEW live \in Nat,
           write_allowance(l, p, amount, live).err = "Ok",
           NEW m, m = write_allowance(l, p, amount, live).l,
           NEW c \in Consent, AllowanceInv(l.allowance[p], c, l.seq),
           NEW d \in Consent, d.left = amount, d.until = live, d.voided >= c.voided,
           amount = 0 => d.voided >= live
    PROVE  \E al : AllowanceSet(l, m, p, al) /\ AllowanceInv(al, d, l.seq)
<1>1. /\ amount \in Nat /\ l.seq \in Nat /\ I128Max \in Nat
      /\ c.voided \in Nat /\ d.voided \in Nat /\ c.until \in Nat
  BY LedgerFields, SacAssumption DEF Consent
<1>2. CASE ~ LiveAllowance(l, p) /\ amount = 0 /\ m = l
  <2>1. AllowanceSet(l, m, p, l.allowance[p])
    BY <1>2, AllowanceSetSame
  <2>2. l.allowance[p] = NoEntry
    BY <1>2, AllowanceFields, <1>1 DEF LiveAllowance, AllowanceInv
  <2>3. AllowanceInv(l.allowance[p], d, l.seq)
    BY <1>1, <1>2, <2>2 DEF AllowanceInv
  <2> QED
    BY <2>1, <2>3
<1>3. ASSUME NEW ttl \in Nat, m = PutAllowance(l, p, amount, live, ttl), ttl >= l.seq,
             \/ amount = 0
             \/ ttl >= live
             \/ LiveAllowance(l, p) /\ l.allowance[p].live_until_ledger >= live,
             LiveAllowance(l, p) /\ l.allowance[p].live_until_ledger >= live
                => ttl = l.allowance[p].ttl
      PROVE  \E al : AllowanceSet(l, m, p, al) /\ AllowanceInv(al, d, l.seq)
  <2> DEFINE al == [amount |-> amount, live_until_ledger |-> live, ttl |-> ttl]
  <2>1. al # NoEntry /\ AllowanceSet(l, m, p, al)
    BY <1>3, PutAllowanceSets
  <2>2. ttl >= live \/ live <= d.voided
    <3>1. CASE amount = 0
      BY <3>1, <1>1
    <3>2. CASE LiveAllowance(l, p) /\ l.allowance[p].live_until_ledger >= live
      <4>1. /\ l.allowance[p].live_until_ledger = c.until
            /\ l.allowance[p].ttl >= c.until \/ c.until <= c.voided
        BY <3>2 DEF LiveAllowance, AllowanceInv
      <4> QED
        BY <1>1, <1>3, <3>2, <4>1
    <3> QED
      BY <1>3, <3>1, <3>2
  <2>3. al.amount = amount /\ al.live_until_ledger = live /\ al.ttl = ttl
    OBVIOUS
  <2> HIDE DEF al
  <2>4. AllowanceInv(al, d, l.seq)
    BY <1>1, <1>3, <2>1, <2>2, <2>3 DEF AllowanceInv
  <2> QED
    BY <2>1, <2>4
<1> QED
  BY <1>1, <1>2, <1>3, WriteAllowanceCases

\* transfer_from and burn_from: the owner's consent is used up.
LEMMA SpendAllowance ==
    ASSUME NEW l \in Ledger, NEW p \in Pair, NEW amount \in Nat,
           spend_allowance(l, p, amount).err = "Ok",
           NEW m, m = spend_allowance(l, p, amount).l,
           NEW c \in Consent, AllowanceInv(l.allowance[p], c, l.seq),
           NEW d \in Consent, d.left = c.left - amount, d.until = c.until,
           d.voided = c.voided
    PROVE  /\ \E al : AllowanceSet(l, m, p, al) /\ AllowanceInv(al, d, l.seq)
           /\ amount > 0 => c.left >= amount /\ c.until >= l.seq
<1> DEFINE al == l.allowance[p]
           rest == read_allowance(l, p) - amount
<1>1. /\ ~ (read_allowance(l, p) < amount)
      /\ amount > 0 => /\ write_allowance(l, p, rest, al.live_until_ledger).err = "Ok"
                       /\ m = write_allowance(l, p, rest, al.live_until_ledger).l
      /\ amount = 0 => m = l
  BY FailFields DEF spend_allowance
<1>2. /\ l.seq \in Nat /\ I128Max \in Nat
      /\ c.left \in Int /\ c.voided \in Nat /\ c.until \in Nat
  BY LedgerFields, SacAssumption DEF Consent
<1>3. CASE amount = 0
  <2>1. AllowanceInv(al, d, l.seq)
    BY <1>2, <1>3 DEF AllowanceInv
  <2>2. AllowanceSet(l, m, p, al)
    BY <1>1, <1>3, AllowanceSetSame
  <2> QED
    BY <1>3, <2>1, <2>2
<1>4. CASE amount > 0
  <2>1. LiveAllowance(l, p) /\ al.live_until_ledger >= l.seq /\ read_allowance(l, p) = al.amount
    BY <1>1, <1>4 DEF read_allowance
  <2>2. al # NoEntry
    BY <2>1 DEF LiveAllowance
  <2>3. /\ al.amount = c.left /\ al.live_until_ledger = c.until
        /\ al.ttl >= c.until \/ c.until <= c.voided
    BY <2>2 DEF AllowanceInv
  <2>4. al.amount \in 0 .. I128Max /\ al.ttl \in Nat
    BY <2>2, AllowanceFields
  <2>5. rest = c.left - amount /\ rest \in 0 .. I128Max /\ c.left >= amount /\ c.until >= l.seq
    BY <1>1, <1>2, <2>1, <2>3, <2>4
  <2> HIDE DEF rest, al
  <2>6. PICK ttl \in Nat :
           /\ m = PutAllowance(l, p, rest, c.until, ttl) /\ ttl >= l.seq
           /\ ttl = al.ttl
    <3>1. /\ rest \in Nat /\ c.until \in Nat
          /\ write_allowance(l, p, rest, c.until).err = "Ok"
          /\ m = write_allowance(l, p, rest, c.until).l
      BY <1>1, <1>2, <1>4, <2>3, <2>5
    <3>2. \E ttl \in Nat :
                 /\ m = PutAllowance(l, p, rest, c.until, ttl)
                 /\ ttl >= l.seq
                 /\ LiveAllowance(l, p) /\ l.allowance[p].live_until_ledger >= c.until
                       => ttl = l.allowance[p].ttl
      BY <2>1, <3>1, WriteAllowanceCases
    <3> QED
      BY <1>2, <2>1, <2>3, <3>2 DEF al
  <2> DEFINE n == [amount |-> rest, live_until_ledger |-> c.until, ttl |-> ttl]
  <2>7. n # NoEntry /\ AllowanceSet(l, m, p, n)
    BY <1>2, <2>5, <2>6, PutAllowanceSets
  <2>8. n.amount = rest /\ n.live_until_ledger = c.until /\ n.ttl = ttl
    OBVIOUS
  <2> HIDE DEF n
  <2>9. AllowanceInv(n, d, l.seq)
    BY <1>2, <2>3, <2>5, <2>6, <2>7, <2>8 DEF AllowanceInv
  <2> QED
    BY <2>5, <2>7, <2>9
<1> QED
  BY <1>3, <1>4

-----------------------------------------------------------------------------
(***************************************************************************)
(* The calls.  A call that fails changes nothing.  One that succeeds has   *)
(* an Effect: an amount (perhaps none) went from one address to another,   *)
(* the event said so, and the allowances still are what their owners       *)
(* consented to.                                                           *)
(***************************************************************************)
Quiet == UNCHANGED <<ledger, booked, consent>>

AllowancesOK(l, cs) ==
    /\ cs \in [Pair -> Consent]
    /\ \A p \in Pair : AllowanceInv(l.allowance[p], cs[p], l.seq)

Effect(fn, by, from, to, amount) ==
    /\ Initialized
    /\ last'.fn = fn /\ last'.by = by
    /\ ledger' \in Ledger /\ ledger'.id = ledger.id /\ ledger'.asset = ledger.asset
    /\ amount \in Nat /\ Flow(ledger, ledger', from, to, amount)
    /\ fn = "clawback" \/ MayFlow(ledger, ledger')
    /\ booked' = BookedAfter(Moved(from, to, amount))
    /\ AllowancesOK(ledger', consent')

\* Who asked for a call that took the amount from an address.
OwnerAsked(fn, by, from) == by = from /\ fn \in {"transfer", "burn"}

SpenderAsked(fn, by, from, amount) ==
    /\ fn \in {"transfer_from", "burn_from"} /\ <<from, by>> \in Pair
    /\ amount > 0 => /\ consent[<<from, by>>].left >= amount
                     /\ consent[<<from, by>>].until >= ledger.seq

AdminAsked(fn, by, from) ==
    /\ fn = "clawback" /\ by = ledger.admin
    /\ IF from \in Account THEN "ClawbackEnabled" \in ledger.classic[from].flags
       ELSE ledger.balance[from].clawback

Justified(fn, by, from, to, amount) ==
    \/ from = NoEntry /\ (amount = 0 \/ (fn = "mint" /\ by = ledger.admin))
    \/ /\ from \in ScAddress
       /\ \/ OwnerAsked(fn, by, from)
          \/ SpenderAsked(fn, by, from, amount)
          \/ AdminAsked(fn, by, from) /\ to = NoEntry

LEMMA CallCases ==
    ASSUME NEW fn, NEW by, NEW o, NEW event, Call(fn, by, o, event)
    PROVE  \/ o.err # "Ok" /\ UNCHANGED <<ledger, booked>>
           \/ /\ o.err = "Ok" /\ ledger' = o.l /\ booked' = BookedAfter(event)
              /\ last'.fn = fn /\ last'.by = by
  BY DEF Call

LEMMA SInvFacts ==
    ASSUME SInv
    PROVE  /\ ledger \in Ledger /\ AllowancesOK(ledger, consent)
           /\ booked \in [ScAddress -> Int]
           /\ Initialized => ledger.asset = ledger.id
  BY DEF SInv, TypeOK, AllowancesOK, Consent, AssetIsId, Initialized

LEMMA InputFacts ==
    /\ \A amount \in Amount : check_nonnegative_amount(amount) = "Ok"
                                 => amount \in Nat /\ amount \in 0 .. I128Max
    /\ \A p \in Pair : p[1] \in ScAddress /\ p[2] \in ScAddress /\ p = <<p[1], p[2]>>
    /\ \A a, b : require_auth(a, b) = "Ok" => a = b
    /\ \A l, a : require_admin(l, a) = "Ok" => a = l.admin
<1>1. ASSUME NEW amount \in Amount, check_nonnegative_amount(amount) = "Ok"
      PROVE  amount \in Nat /\ amount \in 0 .. I128Max
  BY <1>1, SacInputAssumption, SacAssumption DEF check_nonnegative_amount
<1>2. ASSUME NEW p \in Pair
      PROVE  p[1] \in ScAddress /\ p[2] \in ScAddress /\ p = <<p[1], p[2]>>
  BY SacInputAssumption
<1>3. \A a, b : require_auth(a, b) = "Ok" => a = b
  BY DEF require_auth
<1>4. \A l, a : require_admin(l, a) = "Ok" => a = l.admin
  BY DEF require_auth, require_admin, read_administrator
<1> QED
  BY <1>1, <1>2, <1>3, <1>4

\* Holdings and limits do not depend on the allowances.
LEMMA FlowAfterAllowance ==
    ASSUME NEW l \in Ledger, NEW k, NEW p, NEW al, AllowanceSet(l, k, p, al), NEW m,
           NEW from, NEW to, NEW amount
    PROVE  /\ Flow(k, m, from, to, amount) => Flow(l, m, from, to, amount)
           /\ MayFlow(k, m) => MayFlow(l, m)
<1>1. \A a : /\ Holding(k, a) = Holding(l, a) /\ (IsIssuer(k, a) <=> IsIssuer(l, a))
             /\ MayHold(k, a) <=> MayHold(l, a)
  BY DEF AllowanceSet, Holding, IsIssuer, MayHold
<1>2. k.asset = l.asset
  BY DEF AllowanceSet
<1> QED
  BY <1>1, <1>2 DEF Flow, MayFlow

LEMMA SameTermsAllowances ==
    ASSUME NEW l, NEW m, SameTerms(l, m), NEW cs, AllowancesOK(l, cs)
    PROVE  AllowancesOK(m, cs)
  BY DEF SameTerms, AllowancesOK

\* One pair's allowance and consent change together.
LEMMA OnePair ==
    ASSUME NEW l \in Ledger, NEW cs, AllowancesOK(l, cs), NEW p \in Pair,
           NEW m, NEW al, AllowanceSet(l, m, p, al), NEW d \in Consent,
           AllowanceInv(al, d, l.seq)
    PROVE  AllowancesOK(m, [cs EXCEPT ![p] = d])
<1> DEFINE ds == [cs EXCEPT ![p] = d]
<1>1. cs \in [Pair -> Consent]
  BY DEF AllowancesOK
<1>2. ds \in [Pair -> Consent] /\ ds[p] = d /\ \A q \in Pair : q # p => ds[q] = cs[q]
  BY <1>1
<1>3. m.seq = l.seq /\ m.allowance[p] = al /\ \A q \in Pair : q # p => m.allowance[q] = l.allowance[q]
  BY DEF AllowanceSet
<1> HIDE DEF ds
<1>4. \A q \in Pair : AllowanceInv(m.allowance[q], ds[q], m.seq)
  BY <1>2, <1>3 DEF AllowancesOK
<1>5. AllowancesOK(m, ds)
  BY <1>2, <1>4 DEF AllowancesOK
<1> QED
  BY <1>5 DEF ds

LEMMA TransferEffect ==
    ASSUME SInv, NEW by \in ScAddress, NEW from \in ScAddress, NEW to \in ScAddress,
           NEW amount \in Amount, Transfer(by, from, to, amount)
    PROVE  \/ Quiet
           \/ Effect("transfer", by, from, to, amount) /\ OwnerAsked("transfer", by, from)
<1> DEFINE s == <<check_nonnegative_amount(amount), require_auth(by, from)>>
           w == move_balance(ledger, from, to, amount)
           o == After(s, w)
<1>1. Initialized /\ consent' = consent /\ Call("transfer", by, o, Moved(from, to, amount))
  BY DEF Transfer
<1>2. CASE o.err # "Ok"
  BY <1>1, <1>2, CallCases DEF Quiet
<1>3. CASE o.err = "Ok"
  <2>1. /\ ledger' = o.l /\ booked' = BookedAfter(Moved(from, to, amount))
        /\ last'.fn = "transfer" /\ last'.by = by
    BY <1>1, <1>3, CallCases
  <2>2. /\ DOMAIN s \subseteq 1 .. 5 /\ 1 \in DOMAIN s /\ 2 \in DOMAIN s
        /\ s[1] = check_nonnegative_amount(amount) /\ s[2] = require_auth(by, from)
    OBVIOUS
  <2> HIDE DEF s, w
  <2>3. s[1] = "Ok" /\ s[2] = "Ok" /\ o = w
    BY <1>3, <2>2, AfterOk
  <2>4. amount \in Nat /\ by = from
    BY <2>2, <2>3, InputFacts
  <2>5. ledger \in Ledger /\ ledger.asset = ledger.id /\ AllowancesOK(ledger, consent)
    BY <1>1, SInvFacts
  <2>6. /\ ledger' \in Ledger /\ SameTerms(ledger, ledger')
        /\ Flow(ledger, ledger', from, to, amount) /\ MayFlow(ledger, ledger')
    BY <1>3, <2>1, <2>3, <2>4, <2>5, MoveBalance DEF w
  <2>7. AllowancesOK(ledger', consent')
    BY <1>1, <2>5, <2>6, SameTermsAllowances
  <2> QED
    BY <1>1, <2>1, <2>4, <2>6, <2>7 DEF Effect, OwnerAsked, SameTerms
<1> QED
  BY <1>2, <1>3

LEMMA BurnEffect ==
    ASSUME SInv, NEW by \in ScAddress, NEW from \in ScAddress,
           NEW amount \in Amount, Burn(by, from, amount)
    PROVE  \/ Quiet
           \/ Effect("burn", by, from, NoEntry, amount) /\ OwnerAsked("burn", by, from)
<1> DEFINE s == <<check_nonnegative_amount(amount), check_non_native(ledger),
                  check_not_issuer(ledger, from), require_auth(by, from)>>
           w == spend_balance(ledger, from, amount)
           o == After(s, w)
<1>1. Initialized /\ consent' = consent /\ Call("burn", by, o, Moved(from, NoEntry, amount))
  BY DEF Burn
<1>2. CASE o.err # "Ok"
  BY <1>1, <1>2, CallCases DEF Quiet
<1>3. CASE o.err = "Ok"
  <2>1. /\ ledger' = o.l /\ booked' = BookedAfter(Moved(from, NoEntry, amount))
        /\ last'.fn = "burn" /\ last'.by = by
    BY <1>1, <1>3, CallCases
  <2>2. /\ DOMAIN s \subseteq 1 .. 5 /\ 1 \in DOMAIN s /\ 4 \in DOMAIN s
        /\ s[1] = check_nonnegative_amount(amount) /\ s[4] = require_auth(by, from)
    OBVIOUS
  <2> HIDE DEF s, w
  <2>3. s[1] = "Ok" /\ s[4] = "Ok" /\ o = w
    BY <1>3, <2>2, AfterOk
  <2>4. amount \in Nat /\ by = from
    BY <2>2, <2>3, InputFacts
  <2>5. ledger \in Ledger /\ ledger.asset = ledger.id /\ AllowancesOK(ledger, consent)
    BY <1>1, SInvFacts
  <2>6. check_authorized(ledger, from) = "Ok" /\ Moves(ledger, ledger', from, -amount)
    BY <1>3, <2>1, <2>3, <2>4, <2>5, SpendAuthorized DEF w
  <2>7. /\ ledger' \in Ledger /\ SameTerms(ledger, ledger')
        /\ Flow(ledger, ledger', from, NoEntry, amount) /\ MayFlow(ledger, ledger')
    BY <2>4, <2>5, <2>6, FlowSpend, MovesMayFlow DEF Moves
  <2>8. AllowancesOK(ledger', consent')
    BY <1>1, <2>5, <2>7, SameTermsAllowances
  <2> QED
    BY <1>1, <2>1, <2>4, <2>7, <2>8 DEF Effect, OwnerAsked, SameTerms
<1> QED
  BY <1>2, <1>3

LEMMA MintEffect ==
    ASSUME SInv, NEW by \in ScAddress, NEW to \in ScAddress, NEW amount \in Amount,
           Mint(by, to, amount)
    PROVE  \/ Quiet
           \/ Effect("mint", by, NoEntry, to, amount) /\ by = ledger.admin
<1> DEFINE s == <<check_nonnegative_amount(amount), check_not_issuer(ledger, to),
                  require_admin(ledger, by)>>
           w == receive_balance(ledger, to, amount)
           o == After(s, w)
<1>1. Initialized /\ consent' = consent /\ Call("mint", by, o, Moved(NoEntry, to, amount))
  BY DEF Mint
<1>2. CASE o.err # "Ok"
  BY <1>1, <1>2, CallCases DEF Quiet
<1>3. CASE o.err = "Ok"
  <2>1. /\ ledger' = o.l /\ booked' = BookedAfter(Moved(NoEntry, to, amount))
        /\ last'.fn = "mint" /\ last'.by = by
    BY <1>1, <1>3, CallCases
  <2>2. /\ DOMAIN s \subseteq 1 .. 5 /\ 1 \in DOMAIN s /\ 3 \in DOMAIN s
        /\ s[1] = check_nonnegative_amount(amount) /\ s[3] = require_admin(ledger, by)
    OBVIOUS
  <2> HIDE DEF s, w
  <2>3. s[1] = "Ok" /\ s[3] = "Ok" /\ o = w
    BY <1>3, <2>2, AfterOk
  <2>4. amount \in Nat /\ by = ledger.admin
    BY <2>2, <2>3, InputFacts
  <2>5. ledger \in Ledger /\ ledger.asset = ledger.id /\ AllowancesOK(ledger, consent)
    BY <1>1, SInvFacts
  <2>6. check_authorized(ledger, to) = "Ok" /\ Moves(ledger, ledger', to, amount)
    BY <1>3, <2>1, <2>3, <2>4, <2>5, ReceiveMoves DEF w
  <2>7. /\ ledger' \in Ledger /\ SameTerms(ledger, ledger')
        /\ Flow(ledger, ledger', NoEntry, to, amount) /\ MayFlow(ledger, ledger')
    BY <2>4, <2>5, <2>6, FlowReceive, MovesMayFlow DEF Moves
  <2>8. AllowancesOK(ledger', consent')
    BY <1>1, <2>5, <2>7, SameTermsAllowances
  <2> QED
    BY <1>1, <2>1, <2>4, <2>7, <2>8 DEF Effect, SameTerms
<1> QED
  BY <1>2, <1>3

LEMMA ClawbackEffect ==
    ASSUME SInv, NEW by \in ScAddress, NEW from \in ScAddress, NEW amount \in Amount,
           Clawback(by, from, amount)
    PROVE  \/ Quiet
           \/ Effect("clawback", by, from, NoEntry, amount) /\ AdminAsked("clawback", by, from)
<1> DEFINE s == <<check_nonnegative_amount(amount), check_clawbackable(ledger, from),
                  check_not_issuer(ledger, from), require_admin(ledger, by)>>
           w == spend_balance_no_authorization_check(ledger, from, amount)
           o == After(s, w)
<1>1. Initialized /\ consent' = consent /\ Call("clawback", by, o, Moved(from, NoEntry, amount))
  BY DEF Clawback
<1>2. CASE o.err # "Ok"
  BY <1>1, <1>2, CallCases DEF Quiet
<1>3. CASE o.err = "Ok"
  <2>1. /\ ledger' = o.l /\ booked' = BookedAfter(Moved(from, NoEntry, amount))
        /\ last'.fn = "clawback" /\ last'.by = by
    BY <1>1, <1>3, CallCases
  <2>2. /\ DOMAIN s \subseteq 1 .. 5 /\ 1 \in DOMAIN s /\ 2 \in DOMAIN s /\ 4 \in DOMAIN s
        /\ s[1] = check_nonnegative_amount(amount)
        /\ s[2] = check_clawbackable(ledger, from) /\ s[4] = require_admin(ledger, by)
    OBVIOUS
  <2> HIDE DEF s, w
  <2>3. s[1] = "Ok" /\ s[2] = "Ok" /\ s[4] = "Ok" /\ o = w
    BY <1>3, <2>2, AfterOk
  <2>4. amount \in Nat /\ by = ledger.admin
    BY <2>2, <2>3, InputFacts
  <2>5. AdminAsked("clawback", by, from)
    BY <2>2, <2>3, <2>4 DEF AdminAsked, check_clawbackable
  <2>6. ledger \in Ledger /\ AllowancesOK(ledger, consent)
    BY SInvFacts
  <2>7. Moves(ledger, ledger', from, -amount)
    BY <1>3, <2>1, <2>3, <2>4, <2>6, SpendMoves DEF w
  <2>8. /\ ledger' \in Ledger /\ SameTerms(ledger, ledger')
        /\ Flow(ledger, ledger', from, NoEntry, amount)
    BY <2>4, <2>6, <2>7, FlowSpend DEF Moves
  <2>9. AllowancesOK(ledger', consent')
    BY <1>1, <2>6, <2>8, SameTermsAllowances
  <2> QED
    BY <1>1, <2>1, <2>4, <2>5, <2>8, <2>9 DEF Effect, SameTerms
<1> QED
  BY <1>2, <1>3

\* What spend_allowance leaves for the rest of transfer_from and burn_from.
LEMMA SpentConsent ==
    ASSUME SInv, NEW p \in Pair, NEW amount \in Nat,
           spend_allowance(ledger, p, amount).err = "Ok",
           NEW k, k = spend_allowance(ledger, p, amount).l
    PROVE  /\ \E al : AllowanceSet(ledger, k, p, al)
           /\ AllowancesOK(k, Spent(p, amount))
           /\ amount > 0 => consent[p].left >= amount /\ consent[p].until >= ledger.seq
<1> DEFINE c == consent[p]
           d == [c EXCEPT !.left = c.left - amount]
<1>1. ledger \in Ledger /\ AllowancesOK(ledger, consent)
  BY SInvFacts
<1>2. c \in Consent /\ AllowanceInv(ledger.allowance[p], c, ledger.seq)
  BY <1>1 DEF AllowancesOK
<1>3. Spent(p, amount) = [consent EXCEPT ![p] = d]
  BY DEF Spent
<1> HIDE DEF c
<1>4. d \in Consent /\ d.left = c.left - amount /\ d.until = c.until /\ d.voided = c.voided
  BY <1>2 DEF Consent
<1> HIDE DEF d
<1>5. /\ \E al : AllowanceSet(ledger, k, p, al) /\ AllowanceInv(al, d, ledger.seq)
      /\ amount > 0 => c.left >= amount /\ c.until >= ledger.seq
  BY <1>1, <1>2, <1>4, SpendAllowance
<1>6. AllowancesOK(k, [consent EXCEPT ![p] = d])
  BY <1>1, <1>4, <1>5, OnePair
<1> QED
  BY <1>3, <1>5, <1>6 DEF c

LEMMA TransferFromEffect ==
    ASSUME SInv, NEW by \in ScAddress, NEW to \in ScAddress, NEW p \in Pair,
           NEW amount \in Amount, TransferFrom(by, p, to, amount)
    PROVE  \/ Quiet
           \/ /\ Effect("transfer_from", by, p[1], to, amount)
              /\ SpenderAsked("transfer_from", by, p[1], amount)
<1> DEFINE allowed == spend_allowance(ledger, p, amount)
           k == allowed.l
           s == <<check_nonnegative_amount(amount), require_auth(by, p[2]), allowed.err>>
           w == move_balance(k, p[1], to, amount)
           o == After(s, w)
<1>1. /\ Initialized /\ Call("transfer_from", by, o, Moved(p[1], to, amount))
      /\ consent' = IF o.err = "Ok" THEN Spent(p, amount) ELSE consent
  BY DEF TransferFrom
<1>2. CASE o.err # "Ok"
  BY <1>1, <1>2, CallCases DEF Quiet
<1>3. CASE o.err = "Ok"
  <2>1. /\ ledger' = o.l /\ booked' = BookedAfter(Moved(p[1], to, amount))
        /\ last'.fn = "transfer_from" /\ last'.by = by
    BY <1>1, <1>3, CallCases
  <2>2. /\ DOMAIN s \subseteq 1 .. 5 /\ 1 \in DOMAIN s /\ 2 \in DOMAIN s /\ 3 \in DOMAIN s
        /\ s[1] = check_nonnegative_amount(amount) /\ s[2] = require_auth(by, p[2])
        /\ s[3] = allowed.err
    OBVIOUS
  <2> HIDE DEF s, w, allowed
  <2>3. s[1] = "Ok" /\ s[2] = "Ok" /\ s[3] = "Ok" /\ o = w
    BY <1>3, <2>2, AfterOk
  <2>4. amount \in Nat /\ by = p[2] /\ p[1] \in ScAddress /\ p = <<p[1], by>>
    BY <2>2, <2>3, InputFacts
  <2>5. ledger \in Ledger /\ ledger.asset = ledger.id
    BY <1>1, SInvFacts
  <2>6. /\ \E al : AllowanceSet(ledger, k, p, al)
        /\ AllowancesOK(k, Spent(p, amount))
        /\ amount > 0 => consent[p].left >= amount /\ consent[p].until >= ledger.seq
    BY <2>2, <2>3, <2>4, SpentConsent DEF allowed
  <2> HIDE DEF k
  <2>7. PICK al : AllowanceSet(ledger, k, p, al)
    BY <2>6
  <2>8. k \in Ledger /\ k.asset = k.id /\ k.id = ledger.id /\ k.asset = ledger.asset
    BY <2>5, <2>7 DEF AllowanceSet
  <2>9. /\ ledger' \in Ledger /\ SameTerms(k, ledger')
        /\ Flow(k, ledger', p[1], to, amount) /\ MayFlow(k, ledger')
    BY <1>3, <2>1, <2>3, <2>4, <2>8, MoveBalance DEF w
  <2>10. Flow(ledger, ledger', p[1], to, amount) /\ MayFlow(ledger, ledger')
    BY <2>5, <2>7, <2>9, FlowAfterAllowance
  <2>11. AllowancesOK(ledger', consent')
    BY <1>1, <1>3, <2>6, <2>9, SameTermsAllowances
  <2>12. SpenderAsked("transfer_from", by, p[1], amount)
    BY <2>4, <2>6 DEF SpenderAsked
  <2> QED
    BY <1>1, <2>1, <2>4, <2>8, <2>9, <2>10, <2>11, <2>12 DEF Effect, SameTerms
<1> QED
  BY <1>2, <1>3

LEMMA BurnFromEffect ==
    ASSUME SInv, NEW by \in ScAddress, NEW p \in Pair, NEW amount \in Amount,
           BurnFrom(by, p, amount)
    PROVE  \/ Quiet
           \/ /\ Effect("burn_from", by, p[1], NoEntry, amount)
              /\ SpenderAsked("burn_from", by, p[1], amount)
<1> DEFINE allowed == spend_allowance(ledger, p, amount)
           k == allowed.l
           s == <<check_nonnegative_amount(amount), check_non_native(ledger),
                  check_not_issuer(ledger, p[1]), require_auth(by, p[2]), allowed.err>>
           w == spend_balance(k, p[1], amount)
           o == After(s, w)
<1>1. /\ Initialized /\ Call("burn_from", by, o, Moved(p[1], NoEntry, amount))
      /\ consent' = IF o.err = "Ok" THEN Spent(p, amount) ELSE consent
  BY DEF BurnFrom
<1>2. CASE o.err # "Ok"
  BY <1>1, <1>2, CallCases DEF Quiet
<1>3. CASE o.err = "Ok"
  <2>1. /\ ledger' = o.l /\ booked' = BookedAfter(Moved(p[1], NoEntry, amount))
        /\ last'.fn = "burn_from" /\ last'.by = by
    BY <1>1, <1>3, CallCases
  <2>2. /\ DOMAIN s \subseteq 1 .. 5 /\ 1 \in DOMAIN s /\ 4 \in DOMAIN s /\ 5 \in DOMAIN s
        /\ s[1] = check_nonnegative_amount(amount) /\ s[4] = require_auth(by, p[2])
        /\ s[5] = allowed.err
    OBVIOUS
  <2> HIDE DEF s, w, allowed
  <2>3. s[1] = "Ok" /\ s[4] = "Ok" /\ s[5] = "Ok" /\ o = w
    BY <1>3, <2>2, AfterOk
  <2>4. amount \in Nat /\ by = p[2] /\ p[1] \in ScAddress /\ p = <<p[1], by>>
    BY <2>2, <2>3, InputFacts
  <2>5. ledger \in Ledger /\ ledger.asset = ledger.id
    BY <1>1, SInvFacts
  <2>6. /\ \E al : AllowanceSet(ledger, k, p, al)
        /\ AllowancesOK(k, Spent(p, amount))
        /\ amount > 0 => consent[p].left >= amount /\ consent[p].until >= ledger.seq
    BY <2>2, <2>3, <2>4, SpentConsent DEF allowed
  <2> HIDE DEF k
  <2>7. PICK al : AllowanceSet(ledger, k, p, al)
    BY <2>6
  <2>8. k \in Ledger /\ k.asset = k.id /\ k.id = ledger.id /\ k.asset = ledger.asset
    BY <2>5, <2>7 DEF AllowanceSet
  <2>9. check_authorized(k, p[1]) = "Ok" /\ Moves(k, ledger', p[1], -amount)
    BY <1>3, <2>1, <2>3, <2>4, <2>8, SpendAuthorized DEF w
  <2>10. /\ ledger' \in Ledger /\ SameTerms(k, ledger')
         /\ Flow(k, ledger', p[1], NoEntry, amount) /\ MayFlow(k, ledger')
    BY <2>4, <2>8, <2>9, FlowSpend, MovesMayFlow DEF Moves
  <2>11. Flow(ledger, ledger', p[1], NoEntry, amount) /\ MayFlow(ledger, ledger')
    BY <2>5, <2>7, <2>10, FlowAfterAllowance
  <2>12. AllowancesOK(ledger', consent')
    BY <1>1, <1>3, <2>6, <2>10, SameTermsAllowances
  <2>13. SpenderAsked("burn_from", by, p[1], amount)
    BY <2>4, <2>6 DEF SpenderAsked
  <2> QED
    BY <1>1, <2>1, <2>4, <2>8, <2>10, <2>11, <2>12, <2>13 DEF Effect, SameTerms
<1> QED
  BY <1>2, <1>3

\* A flow of nothing.
LEMMA NoFlow ==
    ASSUME NEW l \in Ledger, NEW m, \A a \in ScAddress : Holding(m, a) = Holding(l, a)
    PROVE  Flow(l, m, NoEntry, NoEntry, 0) /\ MayFlow(l, m)
<1>1. \A a \in ScAddress : Delta(a, NoEntry, NoEntry, 0) = 0 /\ Holding(l, a) \in Int
  BY HoldingInt DEF Delta
<1> QED
  BY <1>1 DEF Flow, MayFlow

LEMMA ApproveEffect ==
    ASSUME SInv, NEW by \in ScAddress, NEW p \in Pair, NEW amount \in Amount,
           NEW live \in LiveUntilArg, Approve(by, p, amount, live)
    PROVE  Quiet \/ Effect("approve", by, NoEntry, NoEntry, 0)
<1> DEFINE s == <<check_nonnegative_amount(amount), require_auth(by, p[1])>>
           w == write_allowance(ledger, p, amount, live)
           o == After(s, w)
           c == consent[p]
           voided == IF amount = 0 /\ live > c.voided THEN live ELSE c.voided
           d == [left |-> amount, until |-> live, voided |-> voided]
<1>1. /\ Initialized /\ Call("approve", by, o, NothingMoved)
      /\ consent' = IF o.err = "Ok" THEN [consent EXCEPT ![p] = d] ELSE consent
  BY DEF Approve
<1>2. CASE o.err # "Ok"
  BY <1>1, <1>2, CallCases DEF Quiet
<1>3. CASE o.err = "Ok"
  <2>1. /\ ledger' = o.l /\ booked' = BookedAfter(Moved(NoEntry, NoEntry, 0))
        /\ last'.fn = "approve" /\ last'.by = by
    BY <1>1, <1>3, CallCases DEF NothingMoved
  <2>2. /\ DOMAIN s \subseteq 1 .. 5 /\ 1 \in DOMAIN s
        /\ s[1] = check_nonnegative_amount(amount)
    OBVIOUS
  <2> HIDE DEF s, w
  <2>3. s[1] = "Ok" /\ o = w
    BY <1>3, <2>2, AfterOk
  <2>4. amount \in 0 .. I128Max /\ amount \in Nat /\ live \in Nat
    BY <2>2, <2>3, InputFacts, SacInputAssumption
  <2>5. ledger \in Ledger /\ AllowancesOK(ledger, consent)
    BY SInvFacts
  <2>6. c \in Consent /\ AllowanceInv(ledger.allowance[p], c, ledger.seq)
    BY <2>5 DEF AllowancesOK
  <2> HIDE DEF c
  <2>7. voided \in Nat /\ voided >= c.voided /\ (amount = 0 => voided >= live)
    BY <2>4, <2>6 DEF Consent
  <2> HIDE DEF voided
  <2>8. d \in Consent /\ d.left = amount /\ d.until = live /\ d.voided = voided
    BY <2>4, <2>7 DEF Consent
  <2> HIDE DEF d
  <2>9. PICK al : AllowanceSet(ledger, ledger', p, al) /\ AllowanceInv(al, d, ledger.seq)
    BY <1>3, <2>1, <2>3, <2>4, <2>5, <2>6, <2>7, <2>8, ApproveAllowance DEF w
  <2>10. AllowancesOK(ledger', consent')
    BY <1>1, <1>3, <2>5, <2>8, <2>9, OnePair
  <2>11. /\ ledger' \in Ledger /\ ledger'.id = ledger.id /\ ledger'.asset = ledger.asset
         /\ \A a \in ScAddress : Holding(ledger', a) = Holding(ledger, a)
    BY <2>9 DEF AllowanceSet, Holding
  <2>12. Flow(ledger, ledger', NoEntry, NoEntry, 0) /\ MayFlow(ledger, ledger')
    BY <2>5, <2>11, NoFlow
  <2> QED
    BY <1>1, <2>1, <2>10, <2>11, <2>12 DEF Effect
<1> QED
  BY <1>2, <1>3

LEMMA SetAuthorizedEffect ==
    ASSUME SInv, NEW by \in ScAddress, NEW a \in ScAddress, NEW authorize \in BOOLEAN,
           SetAuthorized(by, a, authorize)
    PROVE  Quiet \/ Effect("set_authorized", by, NoEntry, NoEntry, 0)
<1> DEFINE s == <<require_admin(ledger, by)>>
           w == write_authorization(ledger, a, authorize)
           o == After(s, w)
<1>1. Initialized /\ consent' = consent /\ Call("set_authorized", by, o, NothingMoved)
  BY DEF SetAuthorized
<1>2. CASE o.err # "Ok"
  BY <1>1, <1>2, CallCases DEF Quiet
<1>3. CASE o.err = "Ok"
  <2>1. /\ ledger' = o.l /\ booked' = BookedAfter(Moved(NoEntry, NoEntry, 0))
        /\ last'.fn = "set_authorized" /\ last'.by = by
    BY <1>1, <1>3, CallCases DEF NothingMoved
  <2>2. DOMAIN s \subseteq 1 .. 5
    OBVIOUS
  <2> HIDE DEF s, w
  <2>3. o = w
    BY <1>3, <2>2, AfterOk
  <2>4. ledger \in Ledger /\ AllowancesOK(ledger, consent)
    BY SInvFacts
  <2>5. /\ ledger' \in Ledger /\ SameTerms(ledger, ledger')
        /\ \A b \in ScAddress : Holding(ledger', b) = Holding(ledger, b)
    BY <1>3, <2>1, <2>3, <2>4, WriteAuthorization DEF w
  <2>6. Flow(ledger, ledger', NoEntry, NoEntry, 0) /\ MayFlow(ledger, ledger')
    BY <2>4, <2>5, NoFlow
  <2>7. AllowancesOK(ledger', consent')
    BY <1>1, <2>4, <2>5, SameTermsAllowances
  <2> QED
    BY <1>1, <2>1, <2>5, <2>6, <2>7 DEF Effect, SameTerms
<1> QED
  BY <1>2, <1>3

LEMMA SetAdminEffect ==
    ASSUME SInv, NEW by \in ScAddress, NEW new \in AdminArg, SetAdmin(by, new)
    PROVE  Quiet \/ Effect("set_admin", by, NoEntry, NoEntry, 0)
<1> DEFINE s == <<require_admin(ledger, by)>>
           m == [ledger EXCEPT !.admin = new]
           o == After(s, Done(m))
<1>1. Initialized /\ consent' = consent /\ Call("set_admin", by, o, NothingMoved)
  BY DEF SetAdmin
<1>2. CASE o.err # "Ok"
  BY <1>1, <1>2, CallCases DEF Quiet
<1>3. CASE o.err = "Ok"
  <2>1. /\ ledger' = o.l /\ booked' = BookedAfter(Moved(NoEntry, NoEntry, 0))
        /\ last'.fn = "set_admin" /\ last'.by = by
    BY <1>1, <1>3, CallCases DEF NothingMoved
  <2>2. DOMAIN s \subseteq 1 .. 5
    OBVIOUS
  <2> HIDE DEF s, m
  <2>3. ledger' = m
    BY <1>3, <2>1, <2>2, AfterOk, FailFields
  <2>4. ledger \in Ledger /\ AllowancesOK(ledger, consent)
    BY SInvFacts
  <2>5. new \in ScAddress
    BY SacInputAssumption
  <2>6. /\ m \in Ledger /\ m.id = ledger.id /\ m.asset = ledger.asset /\ m.seq = ledger.seq
        /\ m.allowance = ledger.allowance /\ m.classic = ledger.classic
        /\ m.balance = ledger.balance
    BY <2>4, <2>5 DEF Ledger, m
  <2>7. \A b \in ScAddress : Holding(ledger', b) = Holding(ledger, b)
    BY <2>3, <2>6 DEF Holding
  <2>8. Flow(ledger, ledger', NoEntry, NoEntry, 0) /\ MayFlow(ledger, ledger')
    BY <2>4, <2>7, NoFlow
  <2>9. AllowancesOK(ledger', consent')
    BY <1>1, <2>3, <2>4, <2>6 DEF AllowancesOK
  <2> QED
    BY <1>1, <2>1, <2>3, <2>6, <2>8, <2>9 DEF Effect
<1> QED
  BY <1>2, <1>3

-----------------------------------------------------------------------------
(***************************************************************************)
(* The invariant.                                                          *)
(***************************************************************************)
LEMMA EffectInv ==
    ASSUME SInv, NEW fn, NEW by, NEW from, NEW to, NEW amount,
           Effect(fn, by, from, to, amount)
    PROVE  SInv'
<1>1. /\ ledger \in Ledger /\ booked \in [ScAddress -> Int] /\ Initialized
      /\ ledger' \in Ledger /\ ledger'.id = ledger.id /\ ledger'.asset = ledger.asset
      /\ amount \in Nat /\ ledger.asset = ledger.id
  BY SInvFacts DEF Effect
<1>2. consent' \in [Pair -> Consent]
      /\ \A p \in Pair : AllowanceInv(ledger'.allowance[p], consent'[p], ledger'.seq)
  BY DEF Effect, AllowancesOK
<1>3. \A a \in ScAddress :
         /\ booked'[a] = IF IsIssuer(ledger, a) THEN booked[a]
                         ELSE booked[a] + (IF a = to THEN amount ELSE 0)
                                        - (IF a = from THEN amount ELSE 0)
         /\ booked'[a] \in Int
  BY <1>1 DEF Effect, BookedAfter, Moved
<1>4. booked' \in [ScAddress -> Int]
  <2>1. booked' = [a \in ScAddress |-> booked'[a]]
    BY DEF Effect, BookedAfter
  <2> QED
    BY <1>3, <2>1
<1>5. TypeOK'
  BY <1>1, <1>2, <1>4 DEF TypeOK, Consent
<1>6. AssetIsId' /\ BookedBefore'
  BY <1>1 DEF AssetIsId, BookedBefore, Initialized
<1>7. ASSUME NEW a \in ScAddress, ~ IsIssuer(ledger', a)
      PROVE  Holding(ledger', a) = booked'[a]
  <2>1. ~ IsIssuer(ledger, a)
    BY <1>1, <1>7 DEF IsIssuer
  <2>2. Holding(ledger, a) = booked[a] /\ booked[a] \in Int
    BY <1>1, <2>1 DEF SInv, BalancesMatchEvents
  <2>3. Holding(ledger', a) = Holding(ledger, a) + Delta(a, from, to, amount)
    BY <2>1 DEF Effect, Flow
  <2> QED
    BY <1>1, <1>3, <2>1, <2>2, <2>3 DEF Delta
<1>8. BalancesMatchEvents'
  BY <1>7 DEF BalancesMatchEvents
<1> QED
  BY <1>2, <1>5, <1>6, <1>8 DEF SInv

\* The steps that are not calls of the asset's functions move nothing.
Upkeep == \A a \in ScAddress : Holding(ledger', a) = Holding(ledger, a)

LEMMA BookedNothing ==
    ASSUME booked \in [ScAddress -> Int]
    PROVE  BookedAfter(NothingMoved) = booked
  BY DEF BookedAfter, NothingMoved, Moved

LEMMA InitAssetInv ==
    ASSUME SInv, NEW asset \in {"native", "credit", "malformed"}, InitAsset(asset)
    PROVE  Quiet \/ (Upkeep /\ SInv')
<1> DEFINE err == IF Initialized THEN "AlreadyInitialized"
                  ELSE IF asset = "malformed" THEN "InvalidInput"
                  ELSE IF asset # ledger.id THEN "InternalError" ELSE "Ok"
           admin == IF asset = "native" THEN NoEntry ELSE Issuer
           l == [ledger EXCEPT !.asset = asset, !.admin = admin]
           o == Fail(l, err)
<1>1. consent' = consent /\ Call("init_asset", NoEntry, o, NothingMoved)
  BY DEF InitAsset
<1>2. CASE o.err # "Ok"
  BY <1>1, <1>2, CallCases DEF Quiet
<1>3. CASE o.err = "Ok"
  <2>1. o.l = l /\ o.err = err
    BY FailFields
  <2>2. ~ Initialized /\ asset = ledger.id
    BY <1>3, <2>1
  <2>3. ledger' = o.l /\ booked' = BookedAfter(NothingMoved)
    BY <1>1, <1>3, CallCases
  <2>4. /\ ledger \in Ledger /\ booked \in [ScAddress -> Int]
        /\ AllowancesOK(ledger, consent)
    BY SInvFacts
  <2>5. admin \in ScAddress \union {NoEntry}
    BY SacAssumption DEF ScAddress
  <2> HIDE DEF admin
  <2>6. /\ l \in Ledger /\ l.id = ledger.id /\ l.asset = asset /\ l.seq = ledger.seq
        /\ l.classic = ledger.classic /\ l.balance = ledger.balance
        /\ l.allowance = ledger.allowance
    BY <2>2, <2>4, <2>5 DEF Ledger
  <2> HIDE DEF l, err, o
  <2>7. ledger' = l /\ booked' = booked
    BY <2>1, <2>3, <2>4, BookedNothing
  <2>8. Upkeep
    BY <2>6, <2>7 DEF Upkeep, Holding
  <2>9. \A a \in ScAddress : booked'[a] = Holding(ledger', a)
    BY <2>2, <2>7, <2>8 DEF SInv, BookedBefore, Initialized, Upkeep
  <2>10. TypeOK'
    BY <1>1, <2>6, <2>7 DEF SInv, TypeOK
  <2>11. AssetIsId' /\ BookedBefore' /\ BalancesMatchEvents'
    BY <2>2, <2>6, <2>7, <2>9 DEF AssetIsId, BookedBefore, BalancesMatchEvents
  <2>12. \A p \in Pair : AllowanceInv(ledger'.allowance[p], consent'[p], ledger'.seq)
    BY <1>1, <2>4, <2>6, <2>7 DEF AllowancesOK
  <2> QED
    BY <2>8, <2>10, <2>11, <2>12 DEF SInv
<1> QED
  BY <1>2, <1>3

LEMMA SetOptionsInv ==
    ASSUME SInv, NEW flags \in IssuerState, IssuerSetsOptions(flags)
    PROVE  Upkeep /\ SInv'
<1>1. /\ ledger' = [ledger EXCEPT !.issuer = flags] /\ booked' = booked /\ consent' = consent
  BY DEF IssuerSetsOptions, Idle
<1>2. ledger \in Ledger /\ AllowancesOK(ledger, consent)
  BY SInvFacts
<1>3. flags \in {NoEntry} \union SUBSET IssuerFlag
  BY SacInputAssumption
<1>4. /\ ledger' \in Ledger /\ ledger'.id = ledger.id /\ ledger'.asset = ledger.asset
      /\ ledger'.seq = ledger.seq /\ ledger'.allowance = ledger.allowance
      /\ ledger'.classic = ledger.classic /\ ledger'.balance = ledger.balance
  BY <1>1, <1>2, <1>3 DEF Ledger
<1>5. \A a : Holding(ledger', a) = Holding(ledger, a) /\ (IsIssuer(ledger', a) <=> IsIssuer(ledger, a))
  BY <1>4 DEF Holding, IsIssuer
<1>6. TypeOK'
  BY <1>1, <1>4 DEF SInv, TypeOK
<1>7. AssetIsId' /\ BookedBefore' /\ BalancesMatchEvents'
  BY <1>1, <1>4, <1>5 DEF SInv, AssetIsId, BookedBefore, BalancesMatchEvents
<1>8. \A p \in Pair : AllowanceInv(ledger'.allowance[p], consent'[p], ledger'.seq)
  BY <1>1, <1>2, <1>4 DEF AllowancesOK
<1> QED
  BY <1>5, <1>6, <1>7, <1>8 DEF SInv, Upkeep

LEMMA CloseLedgerInv ==
    ASSUME SInv, CloseLedger
    PROVE  Upkeep /\ SInv'
<1> DEFINE old == ledger.allowance
           new == [p \in Pair |-> IF old[p] # NoEntry /\ old[p].ttl <= ledger.seq
                                  THEN NoEntry ELSE old[p]]
<1>1. ledger \in Ledger /\ AllowancesOK(ledger, consent) /\ ledger.seq \in Nat
  BY SInvFacts, LedgerFields
<1>2. /\ ledger' = [ledger EXCEPT !.seq = ledger.seq + 1, !.allowance = new]
      /\ booked' = booked /\ consent' = consent
  BY DEF CloseLedger, Idle
<1>3. old \in [Pair -> AllowanceEntry \union {NoEntry}]
  BY <1>1, LedgerFields
<1>4. /\ new \in [Pair -> AllowanceEntry \union {NoEntry}]
      /\ \A p \in Pair : new[p] = IF old[p] # NoEntry /\ old[p].ttl <= ledger.seq
                                  THEN NoEntry ELSE old[p]
  BY <1>3
<1>5. ledger.seq + 1 \in Nat
  BY <1>1
<1> HIDE DEF new
<1>6. /\ ledger' \in Ledger /\ ledger'.id = ledger.id /\ ledger'.asset = ledger.asset
      /\ ledger'.seq = ledger.seq + 1 /\ ledger'.allowance = new
      /\ ledger'.classic = ledger.classic /\ ledger'.balance = ledger.balance
  BY <1>1, <1>2, <1>4, <1>5 DEF Ledger
<1>7. \A a : Holding(ledger', a) = Holding(ledger, a) /\ (IsIssuer(ledger', a) <=> IsIssuer(ledger, a))
  BY <1>6 DEF Holding, IsIssuer
<1>8. TypeOK'
  BY <1>2, <1>6 DEF SInv, TypeOK
<1>9. AssetIsId' /\ BookedBefore' /\ BalancesMatchEvents'
  BY <1>2, <1>6, <1>7 DEF SInv, AssetIsId, BookedBefore, BalancesMatchEvents
<1>10. ASSUME NEW p \in Pair
       PROVE  AllowanceInv(ledger'.allowance[p], consent'[p], ledger'.seq)
  <2> DEFINE c == consent[p]
  <2>1. c \in Consent /\ AllowanceInv(old[p], c, ledger.seq)
    BY <1>1 DEF AllowancesOK
  <2>2. c.left \in Int /\ c.until \in Nat /\ c.voided \in Nat
    BY <2>1 DEF Consent
  <2>3. old[p] # NoEntry => old[p].ttl \in Nat
    BY <1>1, AllowanceFields
  <2> HIDE DEF c, old
  <2>4. AllowanceInv(new[p], c, ledger.seq + 1)
    <3>1. CASE old[p] = NoEntry
      BY <1>1, <1>4, <2>1, <2>2, <3>1 DEF AllowanceInv
    <3>2. CASE old[p] # NoEntry /\ old[p].ttl <= ledger.seq
      <4>1. new[p] = NoEntry
        BY <1>4, <3>2
      <4>2. c.left >= 0 /\ (old[p].ttl >= c.until \/ c.until <= c.voided)
        BY <2>1, <3>2 DEF AllowanceInv
      <4>3. c.until >= ledger.seq + 1 => c.until <= c.voided
        BY <1>1, <2>2, <2>3, <3>2, <4>2
      <4> QED
        BY <4>1, <4>2, <4>3 DEF AllowanceInv
    <3>3. CASE old[p] # NoEntry /\ ~ (old[p].ttl <= ledger.seq)
      <4>1. new[p] = old[p] /\ old[p].ttl >= ledger.seq + 1
        BY <1>1, <1>4, <2>3, <3>3
      <4> QED
        BY <2>1, <3>3, <4>1 DEF AllowanceInv
    <3> QED
      BY <3>1, <3>2, <3>3
  <2> QED
    BY <1>2, <1>6, <2>4 DEF c
<1> QED
  BY <1>7, <1>8, <1>9, <1>10 DEF SInv, Upkeep

LEMMA InitSInv == Init => SInv
<1> SUFFICES ASSUME Init PROVE SInv
  OBVIOUS
<1>1. PICK id \in {"native", "credit"}, flags \in IssuerState : \E c \in Start[id] :
         ledger = [id |-> id, asset |-> NoEntry, issuer |-> flags, seq |-> 1,
                   classic |-> c, balance |-> [a \in Contract |-> NoEntry],
                   allowance |-> [p \in Pair |-> NoEntry], admin |-> NoEntry]
  BY DEF Init
<1>2. PICK c \in Start[id] :
         ledger = [id |-> id, asset |-> NoEntry, issuer |-> flags, seq |-> 1,
                   classic |-> c, balance |-> [a \in Contract |-> NoEntry],
                   allowance |-> [p \in Pair |-> NoEntry], admin |-> NoEntry]
  BY <1>1
<1>3. c \in [Account -> ClassicEntry \union {NoEntry}]
      /\ flags \in {NoEntry} \union SUBSET IssuerFlag
  BY SacInputAssumption
<1>4. ledger \in Ledger
  BY <1>2, <1>3 DEF Ledger
<1>5. /\ ledger.asset = NoEntry /\ ledger.seq = 1
      /\ \A p \in Pair : ledger.allowance[p] = NoEntry
  BY <1>2
<1>6. /\ booked = [a \in ScAddress |-> Holding(ledger, a)]
      /\ consent = [p \in Pair |-> [left |-> 0, until |-> 0, voided |-> 0]]
  BY DEF Init
<1>7. \A a \in ScAddress : booked[a] = Holding(ledger, a) /\ Holding(ledger, a) \in Int
  BY <1>4, <1>6, HoldingInt
<1>8. TypeOK
  <2>1. booked \in [ScAddress -> Int]
    BY <1>6, <1>7
  <2>2. consent \in [Pair -> [left : Int, until : Nat, voided : Nat]]
    BY <1>6
  <2> QED
    BY <1>4, <2>1, <2>2 DEF TypeOK
<1>9. AssetIsId /\ BookedBefore /\ BalancesMatchEvents
  BY <1>5, <1>7 DEF AssetIsId, BookedBefore, BalancesMatchEvents
<1>10. \A p \in Pair : AllowanceInv(ledger.allowance[p], consent[p], ledger.seq)
  BY <1>5, <1>6 DEF AllowanceInv
<1> QED
  BY <1>8, <1>9, <1>10 DEF SInv

\* What a step does: nothing, upkeep, or a call with a justified effect.
Step ==
    \/ Quiet
    \/ Upkeep /\ SInv'
    \/ \E fn, by, from, to, amount :
          Effect(fn, by, from, to, amount) /\ Justified(fn, by, from, to, amount)

\* A call that moves nothing needs no consent.
LEMMA IdleStep ==
    ASSUME NEW fn, NEW by, Quiet \/ Effect(fn, by, NoEntry, NoEntry, 0)
    PROVE  Step
<1>1. Justified(fn, by, NoEntry, NoEntry, 0)
  BY DEF Justified
<1> QED
  BY <1>1 DEF Step

LEMMA NextStep ==
    ASSUME SInv, Next
    PROVE  Step
<1>1. ASSUME NEW asset \in {"native", "credit", "malformed"}, InitAsset(asset)
      PROVE  Step
  BY <1>1, InitAssetInv DEF Step
<1>2. ASSUME NEW by \in ScAddress, NEW p \in Pair, NEW amount \in Amount,
             NEW until \in LiveUntilArg, Approve(by, p, amount, until)
      PROVE  Step
  BY <1>2, ApproveEffect, IdleStep
<1>3. ASSUME NEW by \in ScAddress, NEW from \in ScAddress, NEW to \in ScAddress,
             NEW amount \in Amount, Transfer(by, from, to, amount)
      PROVE  Step
  BY <1>3, TransferEffect DEF Step, Justified
<1>4. ASSUME NEW by \in ScAddress, NEW to \in ScAddress, NEW p \in Pair,
             NEW amount \in Amount, TransferFrom(by, p, to, amount)
      PROVE  Step
  BY <1>4, TransferFromEffect, InputFacts DEF Step, Justified
<1>5. ASSUME NEW by \in ScAddress, NEW from \in ScAddress, NEW amount \in Amount,
             Burn(by, from, amount)
      PROVE  Step
  BY <1>5, BurnEffect DEF Step, Justified
<1>6. ASSUME NEW by \in ScAddress, NEW p \in Pair, NEW amount \in Amount,
             BurnFrom(by, p, amount)
      PROVE  Step
  BY <1>6, BurnFromEffect, InputFacts DEF Step, Justified
<1>7. ASSUME NEW by \in ScAddress, NEW from \in ScAddress, NEW amount \in Amount,
             Clawback(by, from, amount)
      PROVE  Step
  BY <1>7, ClawbackEffect DEF Step, Justified
<1>8. ASSUME NEW by \in ScAddress, NEW a \in ScAddress, NEW authorize \in BOOLEAN,
             SetAuthorized(by, a, authorize)
      PROVE  Step
  BY <1>8, SetAuthorizedEffect, IdleStep
<1>9. ASSUME NEW by \in ScAddress, NEW to \in ScAddress, NEW amount \in Amount,
             Mint(by, to, amount)
      PROVE  Step
  BY <1>9, MintEffect DEF Step, Justified
<1>10. ASSUME NEW by \in ScAddress, NEW new_admin \in AdminArg, SetAdmin(by, new_admin)
       PROVE  Step
  BY <1>10, SetAdminEffect, IdleStep
<1>11. CASE CloseLedger
  BY <1>11, CloseLedgerInv DEF Step
<1>12. ASSUME NEW flags \in IssuerState, IssuerSetsOptions(flags)
       PROVE  Step
  BY <1>12, SetOptionsInv DEF Step
<1> QED
  BY <1>1, <1>2, <1>3, <1>4, <1>5, <1>6, <1>7, <1>8, <1>9, <1>10, <1>11, <1>12 DEF Next

LEMMA QuietInv ==
    ASSUME SInv, Quiet
    PROVE  SInv'
  BY DEF SInv, Quiet, TypeOK, AssetIsId, BookedBefore, BalancesMatchEvents, Holding,
         IsIssuer, AllowanceInv

(***************************************************************************)
(* Every reachable state satisfies the inductive invariant.                *)
(***************************************************************************)
THEOREM Invariance == Spec => []SInv
<1>1. SInv /\ [Next]_vars => SInv'
  <2> SUFFICES ASSUME SInv, [Next]_vars PROVE SInv'
    OBVIOUS
  <2>1. CASE Next
    <3>1. ASSUME NEW fn, NEW by, NEW from, NEW to, NEW amount,
                 Effect(fn, by, from, to, amount)
          PROVE  SInv'
      BY <3>1, EffectInv
    <3> QED
      BY <2>1, <3>1, NextStep, QuietInv DEF Step
  <2>2. CASE UNCHANGED vars
    BY <2>2, QuietInv DEF vars, Quiet
  <2> QED
    BY <2>1, <2>2
<1> QED
  BY <1>1, InitSInv, PTL DEF Spec

(***************************************************************************)
(* Balances and allowances stay within their types: no balance, no         *)
(* allowance is ever negative or beyond i64 or i128, whatever amounts the  *)
(* callers pass.                                                           *)
(***************************************************************************)
THEOREM TypeCorrect == Spec => []TypeOK
<1>1. SInv => TypeOK
  BY DEF SInv
<1> QED
  BY <1>1, Invariance, PTL

(***************************************************************************)
(* Every balance is what the emitted transfer, mint, burn and clawback     *)
(* events add up to, for every number of holders and calls.                *)
(***************************************************************************)
THEOREM BalancesAddUp == Spec => []BalancesMatchEvents
<1>1. SInv => BalancesMatchEvents
  BY DEF SInv
<1> QED
  BY <1>1, Invariance, PTL

(***************************************************************************)
(* A usable allowance is the owner's last approval less what was spent     *)
(* since, and it lapses early only after an approval of zero.              *)
(***************************************************************************)
THEOREM AllowancesAreConsented == Spec => []AllowanceIsConsented
<1>1. ASSUME SInv, NEW p \in Pair
      PROVE  /\ consent[p].left >= 0
             /\ read_allowance(ledger, p) =
                  IF consent[p].until < ledger.seq THEN 0
                  ELSE IF LiveAllowance(ledger, p) THEN consent[p].left ELSE 0
             /\ (consent[p].left > 0 /\ consent[p].until >= ledger.seq
                   /\ ~LiveAllowance(ledger, p)) => consent[p].until <= consent[p].voided
  <2> DEFINE al == ledger.allowance[p]
             c == consent[p]
  <2>1. AllowanceInv(al, c, ledger.seq) /\ c \in Consent /\ ledger.seq \in Nat
    BY <1>1, SInvFacts, LedgerFields DEF AllowancesOK
  <2>2. c.left \in Int /\ c.until \in Nat
    BY <2>1 DEF Consent
  <2> HIDE DEF al, c
  <2>3. LiveAllowance(ledger, p) <=> al # NoEntry
    BY <2>1 DEF LiveAllowance, AllowanceInv, al
  <2>4. read_allowance(ledger, p) =
          IF al # NoEntry /\ al.live_until_ledger >= ledger.seq THEN al.amount ELSE 0
    BY <2>3 DEF read_allowance, al
  <2>5. read_allowance(ledger, p) =
          IF c.until < ledger.seq THEN 0 ELSE IF al # NoEntry THEN c.left ELSE 0
    BY <2>1, <2>2, <2>4 DEF AllowanceInv
  <2>6. c.left >= 0 /\ (c.left > 0 /\ c.until >= ledger.seq /\ al = NoEntry
                          => c.until <= c.voided)
    BY <2>1 DEF AllowanceInv
  <2> QED
    BY <2>3, <2>5, <2>6 DEF c
<1>2. SInv => AllowanceIsConsented
  BY <1>1 DEF AllowanceIsConsented
<1> QED
  BY <1>2, Invariance, PTL

-----------------------------------------------------------------------------
(***************************************************************************)
(* What a step may do to a holding.                                        *)
(***************************************************************************)
LEMMA ChangeIsEffect ==
    ASSUME SInv, [Next]_vars, NEW a \in ScAddress, Holding(ledger', a) # Holding(ledger, a)
    PROVE  \E fn, by, from, to, amount :
              Effect(fn, by, from, to, amount) /\ Justified(fn, by, from, to, amount)
<1>1. ~ Quiet /\ ~ UNCHANGED vars
  BY DEF Quiet, vars
<1>2. ~ Upkeep
  BY DEF Upkeep
<1> QED
  BY <1>1, <1>2, NextStep DEF Step

\* The amount of an effect reaches `to' and leaves `from', unless they are one.
LEMMA EffectMoves ==
    ASSUME SInv, NEW fn, NEW by, NEW from, NEW to, NEW amount,
           Effect(fn, by, from, to, amount),
           NEW a \in ScAddress, Holding(ledger', a) # Holding(ledger, a)
    PROVE  /\ ~ IsIssuer(ledger, a) /\ amount > 0 /\ amount \in Nat /\ from # to
           /\ ledger.asset = ledger.id
           /\ Holding(ledger, a) \in Int /\ Holding(ledger', a) \in Int
           /\ \/ a = to /\ Holding(ledger', a) = Holding(ledger, a) + amount
              \/ a = from /\ Holding(ledger', a) = Holding(ledger, a) - amount
<1>1. /\ ledger \in Ledger /\ ledger' \in Ledger /\ Initialized /\ amount \in Nat
      /\ Flow(ledger, ledger', from, to, amount)
  BY SInvFacts DEF Effect
<1>2. Holding(ledger, a) \in Int /\ Holding(ledger', a) \in Int
  BY <1>1, HoldingInt
<1>3. ~ IsIssuer(ledger, a) /\ Holding(ledger', a) = Holding(ledger, a) + Delta(a, from, to, amount)
  BY <1>1, <1>2 DEF Flow
<1>4. ledger.asset = ledger.id
  BY <1>1, SInvFacts
<1> QED
  BY <1>1, <1>2, <1>3, <1>4 DEF Delta

(***************************************************************************)
(* A classic balance that a call changes stays clear of its reserve and    *)
(* liabilities and within its limit.                                       *)
(***************************************************************************)
THEOREM LiabilitiesHonoured == Spec => LiabilitiesAreHonoured
<1>1. ASSUME SInv, [Next]_vars, NEW a \in Account, Holding(ledger', a) # Holding(ledger, a)
      PROVE  InLimits(ledger.id = "native", ledger'.classic[a])
  <2>1. a \in ScAddress
    BY DEF ScAddress
  <2>2. PICK fn, by, from, to, amount : Effect(fn, by, from, to, amount)
    BY <1>1, <2>1, ChangeIsEffect
  <2>3. ledger.asset = ledger.id
    BY <1>1, <2>2, SInvFacts DEF Effect
  <2> QED
    BY <1>1, <2>1, <2>2, <2>3 DEF Effect, Flow
<1>2. SInv /\ [Next]_vars =>
        [\A a \in Account : Holding(ledger', a) # Holding(ledger, a) =>
            LET e == ledger'.classic[a] IN
            /\ e.balance >= e.selling + (IF ledger.id = "native" THEN Reserve ELSE 0)
            /\ e.balance + e.buying <= (IF ledger.id = "native" THEN I64Max ELSE e.limit)]_ledger
  BY <1>1 DEF InLimits
<1> QED
  BY <1>2, Invariance, PTL DEF Spec, LiabilitiesAreHonoured

(***************************************************************************)
(* The balance of a holder who is not authorized changes by clawback only. *)
(***************************************************************************)
THEOREM FrozenStaysFrozen == Spec => DeauthorizedIsFrozen
<1>1. ASSUME SInv, [Next]_vars, NEW a \in ScAddress, Holding(ledger', a) # Holding(ledger, a)
      PROVE  last'.fn = "clawback" \/ MayHold(ledger, a)
  <2>1. PICK fn, by, from, to, amount : Effect(fn, by, from, to, amount)
    BY <1>1, ChangeIsEffect
  <2> QED
    BY <1>1, <2>1 DEF Effect, MayFlow
<1>2. SInv /\ [Next]_vars =>
        [\A a \in ScAddress : Holding(ledger', a) # Holding(ledger, a) =>
            last'.fn = "clawback" \/ MayHold(ledger, a)]_ledger
  BY <1>1
<1> QED
  BY <1>2, Invariance, PTL DEF Spec, DeauthorizedIsFrozen

LEMMA FallIsConsented ==
    ASSUME SInv, [Next]_vars, NEW a \in ScAddress, Fell(a)
    PROVE  ClawedBack(a) \/ Consented(a, Holding(ledger, a) - Holding(ledger', a))
<1>1. Holding(ledger', a) # Holding(ledger, a)
  <2>1. ledger \in Ledger /\ Holding(ledger, a) \in Int
    BY SInvFacts, HoldingInt
  <2> QED
    BY <2>1 DEF Fell
<1>2. PICK fn, by, from, to, amount :
         Effect(fn, by, from, to, amount) /\ Justified(fn, by, from, to, amount)
  BY <1>1, ChangeIsEffect
<1>3. /\ amount > 0 /\ Holding(ledger, a) \in Int /\ amount \in Nat
      /\ \/ a = to /\ Holding(ledger', a) = Holding(ledger, a) + amount
         \/ a = from /\ Holding(ledger', a) = Holding(ledger, a) - amount
  BY <1>1, <1>2, EffectMoves
<1>4. a = from /\ Holding(ledger, a) - Holding(ledger', a) = amount
  BY <1>3 DEF Fell
<1>5. last'.fn = fn /\ last'.by = by
  BY <1>2 DEF Effect
<1>6. a # NoEntry
  BY SacAssumption
<1>7. \/ OwnerAsked(fn, by, a) \/ SpenderAsked(fn, by, a, amount) \/ AdminAsked(fn, by, a)
  BY <1>2, <1>4, <1>6 DEF Justified
<1>8. ClawedBack(a) \/ Consented(a, amount)
  BY <1>3, <1>5, <1>7 DEF ClawedBack, Consented, OwnerAsked, SpenderAsked, AdminAsked
<1> QED
  BY <1>4, <1>8

LEMMA RiseIsConsented ==
    ASSUME SInv, [Next]_vars, NEW a \in ScAddress, Holding(ledger', a) > Holding(ledger, a)
    PROVE  \/ \E b \in ScAddress : Fell(b)
           \/ last'.fn = "mint" /\ last'.by = ledger.admin
           \/ ledger.id = "credit" /\ Consented(Issuer, Holding(ledger', a) - Holding(ledger, a))
<1>1. Holding(ledger', a) # Holding(ledger, a)
  <2>1. ledger \in Ledger /\ Holding(ledger, a) \in Int
    BY SInvFacts, HoldingInt
  <2> QED
    BY <2>1
<1>2. PICK fn, by, from, to, amount :
         Effect(fn, by, from, to, amount) /\ Justified(fn, by, from, to, amount)
  BY <1>1, ChangeIsEffect
<1>3. /\ amount > 0 /\ Holding(ledger, a) \in Int /\ amount \in Nat /\ from # to
      /\ ledger.asset = ledger.id
      /\ \/ a = to /\ Holding(ledger', a) = Holding(ledger, a) + amount
         \/ a = from /\ Holding(ledger', a) = Holding(ledger, a) - amount
  BY <1>1, <1>2, EffectMoves
<1>4. a = to /\ Holding(ledger', a) - Holding(ledger, a) = amount
  BY <1>3
<1>5. last'.fn = fn /\ last'.by = by
  BY <1>2 DEF Effect
<1>6. CASE from = NoEntry
  <2>1. NoEntry \notin ScAddress
    BY SacAssumption
  <2>2. fn = "mint" /\ by = ledger.admin
    BY <1>2, <1>3, <1>6, <2>1 DEF Justified
  <2> QED
    BY <1>5, <2>2
<1>7. CASE from \in ScAddress /\ ~ IsIssuer(ledger, from)
  <2>1. ledger \in Ledger /\ Holding(ledger, from) \in Int
    BY <1>7, SInvFacts, HoldingInt
  <2>2. Holding(ledger', from) = Holding(ledger, from) + Delta(from, from, to, amount)
    BY <1>2, <1>7 DEF Effect, Flow
  <2>3. Fell(from)
    BY <1>3, <2>1, <2>2 DEF Delta, Fell
  <2> QED
    BY <1>7, <2>3
<1>8. CASE from \in ScAddress /\ IsIssuer(ledger, from)
  <2>1. from = Issuer /\ ledger.id = "credit"
    <3>1. ledger \in Ledger /\ ledger.id \in {"native", "credit"}
      BY SInvFacts, LedgerFields
    <3> QED
      BY <1>3, <1>8, <3>1 DEF IsIssuer
  <2>2. from # NoEntry /\ to # NoEntry
    BY <1>4, <1>8, SacAssumption
  <2>3. OwnerAsked(fn, by, Issuer) \/ SpenderAsked(fn, by, Issuer, amount)
    BY <1>2, <2>1, <2>2 DEF Justified
  <2>4. Consented(Issuer, amount)
    BY <1>3, <1>5, <2>3 DEF Consented, OwnerAsked, SpenderAsked
  <2> QED
    BY <1>4, <2>1, <2>4
<1> QED
  BY <1>2, <1>6, <1>7, <1>8 DEF Justified

(***************************************************************************)
(* A balance falls only by its owner's call, within the owner's unexpired  *)
(* approval or by the administrator's clawback of a marked entry, and      *)
(* rises only at the cost of another or by the issuer's side's doing.      *)
(***************************************************************************)
THEOREM MovesConsented == Spec => MovesAreConsented
<1>1. SInv /\ [Next]_vars =>
        [/\ \A a \in ScAddress :
              Fell(a) => \/ ClawedBack(a)
                         \/ Consented(a, Holding(ledger, a) - Holding(ledger', a))
         /\ \A a \in ScAddress :
              Holding(ledger', a) > Holding(ledger, a) =>
                 \/ \E b \in ScAddress : Fell(b)
                 \/ last'.fn = "mint" /\ last'.by = ledger.admin
                 \/ ledger.id = "credit"
                    /\ Consented(Issuer, Holding(ledger', a) - Holding(ledger, a))]_ledger
  BY FallIsConsented, RiseIsConsented
<1> QED
  BY <1>1, Invariance, PTL DEF Spec, MovesAreConsented
=============================================================================
