------------------------------ MODULE Balance ------------------------------
(***************************************************************************)
(* A user's balance (src/web3_proxy/src/balance.rs).  Balance::try_from_db *)
(* runs one SELECT that LEFT JOINs the user to its admin, on-chain and     *)
(* stripe deposit receipts, its referee row, a pre-aggregated referrer     *)
(* bonus, its rpc keys and their rpc_accounting_v2 rows, and SUMs the      *)
(* columns over the joined rows; remaining() is total_deposits minus       *)
(* total_spent_paid_credits.                                               *)
(*                                                                         *)
(* The join is modelled by what it does: a row per combination of one     *)
(* matching row (or NULL) of each joined table, and SUM adds a column over *)
(* those rows, a NULL adding nothing.  The tables grow by inserts, which   *)
(* the rest of the proxy makes; they are the environment here.  A referral *)
(* code is its owner's user id (referrer.id to referrer.user_id).           *)
(***************************************************************************)
EXTENDS Integers, Sequences, SequencesExt

CONSTANTS
    Users,    \* ids of user rows, none of them 0
    Amounts,  \* the amounts a receipt, a bonus or an accounting row carries
    MaxRows,  \* rows the model lets the tables gain
    None      \* Option::None

ASSUME BalanceAssumption ==
    /\ Users \subseteq Nat \ {0}
    /\ Amounts \subseteq Nat
    /\ MaxRows \in Nat

ReceiptTables == {"admin", "chain", "stripe"}

(* A referee row: the referred user, the referrer it used, the bonus it   *)
(* got (one_time_bonus_applied_for_referee) and the one its referrer got *)
(* (credits_applied_for_referrer).                                         *)
RefereeRows == [user : Users, referrer : Users, forReferee : Amounts,
                forReferrer : Amounts]

(* An rpc_accounting_v2 row: sum_credits_used (paid) and                  *)
(* sum_incl_free_credits_used (total), the paid part never the larger.     *)
AccountingRows == {a \in [paid : Amounts \cup {0}, total : Amounts] :
                     a.paid <= a.total}

VARIABLES
    receipts,  \* receipts[t][u]: amounts of u's receipts in table t
    referee,   \* the referee table
    keys,      \* keys[u]: u's rpc keys, each the sequence of its accounting rows
    rows       \* rows inserted so far

vars == <<receipts, referee, keys, rows>>

TypeOK ==
    /\ receipts \in [ReceiptTables -> [Users -> Seq(Amounts)]]
    /\ referee \in Seq(RefereeRows)
    /\ keys \in [Users -> Seq(Seq(AccountingRows))]
    /\ rows \in 0..MaxRows

Init ==
    /\ receipts = [t \in ReceiptTables |-> [u \in Users |-> << >>]]
    /\ referee = << >>
    /\ keys = [u \in Users |-> << >>]
    /\ rows = 0

-----------------------------------------------------------------------------
(* The query (29-66).                                                      *)

(* LEFT JOIN of a table with matching rows s: one joined row per match,   *)
(* or a single NULL row (index 0) when nothing matches.                    *)
LeftJoin(S) == IF S = {} THEN {0} ELSE S

(* The referee rows of u as the referred user (ON user.id = referee.user_id). *)
RefereeOf(u) == {i \in DOMAIN referee : referee[i].user = u}

(* Mutant: rpc_key and rpc_accounting_v2 are inner-joined, so a user with *)
(* no key or no accounting row has no joined row at all.                   *)
KeyAccountingInner(u) ==
    UNION {{<< k, j >> : j \in DOMAIN keys[u][k]} : k \in DOMAIN keys[u]}

(* rpc_key LEFT JOIN rpc_accounting_v2 (50-53): a pair of a key and one   *)
(* of its accounting rows, 0 standing for NULL.                            *)
KeyAccounting(u) ==
    IF keys[u] = << >>
      THEN {<< 0, 0 >>}
      ELSE UNION {{<< k, j >> : j \in LeftJoin(DOMAIN keys[u][k])} :
                  k \in DOMAIN keys[u]}

(* The rows the FROM clause yields for user u (35-57); user_tier is one   *)
(* row per user and multiplies nothing.                                    *)
JoinRows(u) ==
    LeftJoin(DOMAIN receipts["admin"][u]) \X LeftJoin(DOMAIN receipts["chain"][u])
      \X LeftJoin(DOMAIN receipts["stripe"][u]) \X LeftJoin(RefereeOf(u))
      \X KeyAccounting(u)

(* A column's value on a joined row; NULL adds nothing to a SUM, and      *)
(* COALESCE(SUM(..), 0) of no value is 0.                                  *)
ReceiptAmount(u, t, i) == IF i = 0 THEN 0 ELSE receipts[t][u][i]
Accounting(u, ka) == keys[u][ka[1]][ka[2]]
PaidOn(u, ka) == IF ka[2] = 0 THEN 0 ELSE Accounting(u, ka).paid
TotalOn(u, ka) == IF ka[2] = 0 THEN 0 ELSE Accounting(u, ka).total

(* The referrer_bonus subquery (46-49): grouped by referrer, so one value *)
(* per user, added once outside the SUMs.                                  *)
ReferrerBonus(u) ==
    MapThenSumSet(LAMBDA i : referee[i].forReferrer,
                  {i \in DOMAIN referee : referee[i].referrer = u})

(* Balance::try_from_db: user 0 is None (24-26), otherwise the SELECT's  *)
(* one row.                                                                *)
TryFromDb(u) ==
    IF u = 0 THEN None
    ELSE LET R == JoinRows(u) IN
      [user_id |-> u,
       total_deposits |->
          MapThenSumSet(LAMBDA r : ReceiptAmount(u, "admin", r[1]), R)
        + MapThenSumSet(LAMBDA r : ReceiptAmount(u, "chain", r[2]), R)
        + MapThenSumSet(LAMBDA r : ReceiptAmount(u, "stripe", r[3]), R)
        + MapThenSumSet(LAMBDA r : IF r[4] = 0 THEN 0
                                   ELSE referee[r[4]].forReferee, R)
        + ReferrerBonus(u),
       total_spent_paid_credits |-> MapThenSumSet(LAMBDA r : PaidOn(u, r[5]), R),
       total_spent |-> MapThenSumSet(LAMBDA r : TotalOn(u, r[5]), R)]

(* Balance::remaining (18-20).  Decimal: it may be negative.              *)
Remaining(b) ==
    b.total_deposits - b.total_spent_paid_credits

-----------------------------------------------------------------------------
(* Environment: the inserts the rest of the proxy makes.                   *)

(* An admin, on-chain or stripe deposit receipt.                           *)
Deposit ==
    /\ rows < MaxRows
    /\ \E t \in ReceiptTables, u \in Users, a \in Amounts :
          receipts' = [receipts EXCEPT ![t][u] = Append(@, a)]
    /\ rows' = rows + 1
    /\ UNCHANGED <<referee, keys>>

(* A referee row: a user signs up with another user's referral code.     *)
Refer ==
    /\ rows < MaxRows
    /\ \E f \in RefereeRows :
          /\ f.user # f.referrer
          /\ referee' = Append(referee, f)
    /\ rows' = rows + 1
    /\ UNCHANGED <<receipts, keys>>

(* A new rpc key of a user.                                              *)
CreateKey ==
    /\ rows < MaxRows
    /\ \E u \in Users : keys' = [keys EXCEPT ![u] = Append(@, << >>)]
    /\ rows' = rows + 1
    /\ UNCHANGED <<receipts, referee>>

(* The stats flush writes an accounting row for one of a user's keys.    *)
Account ==
    /\ rows < MaxRows
    /\ \E u \in Users, a \in AccountingRows :
         \E k \in DOMAIN keys[u] : keys' = [keys EXCEPT ![u][k] = Append(@, a)]
    /\ rows' = rows + 1
    /\ UNCHANGED <<receipts, referee>>

(* The model's bound on rows is reached.                                 *)
Full ==
    /\ rows = MaxRows
    /\ UNCHANGED vars

Next == Deposit \/ Refer \/ CreateKey \/ Account \/ Full

Spec == Init /\ [][Next]_vars

-----------------------------------------------------------------------------
(* The reference: per-table sums, what the receipts and accounting rows  *)
(* add up to (the expectation of tests/test_sum_credits_used.rs).         *)

SeqSum(s) == FoldSeq(+, 0, s)

LedgerDeposits(u) ==
    SeqSum(receipts["admin"][u]) + SeqSum(receipts["chain"][u])
      + SeqSum(receipts["stripe"][u])
      + MapThenSumSet(LAMBDA i : referee[i].forReferee, RefereeOf(u))
      + ReferrerBonus(u)

LedgerPaid(u) ==
    MapThenSumSet(LAMBDA ka : Accounting(u, ka).paid,
                  UNION {{<< k, j >> : j \in DOMAIN keys[u][k]} :
                         k \in DOMAIN keys[u]})

-----------------------------------------------------------------------------
(* Properties.                                                             *)

(* The LEFT JOINs lose no row: every receipt, referral bonus and paid     *)
(* accounting row is counted at least once in try_from_db's totals, also *)
(* for a user with no receipts, no key or a key with no accounting row.   *)
JoinLosesNothing ==
    \A u \in Users :
        /\ TryFromDb(u).total_deposits >= LedgerDeposits(u)
        /\ TryFromDb(u).total_spent_paid_credits >= LedgerPaid(u)

(* remaining() is the deposits minus the paid credits spent, for every    *)
(* user, whatever the number of receipts and accounting rows (what the    *)
(* test asserts after several requests).                                   *)
RemainingMatchesLedger ==
    \A u \in Users :
        Remaining(TryFromDb(u)) = LedgerDeposits(u) - LedgerPaid(u)

=============================================================================
