------------------------------- MODULE Payouts ------------------------------
(***************************************************************************)
(* Bank accounts and withdrawals of one partner (payments/router.py): the  *)
(* balance counts the earnings marked "completed", which only rows of the  *)
(* former scheme are, and the withdrawals marked "completed", which no     *)
(* code ever does.                                                         *)
(***************************************************************************)
EXTENDS Integers, Sequences, SequencesExt

CONSTANTS
  LegacyEarned,   \* the partner's "completed" earnings
  Amounts,        \* what may be asked for
  MaxRows         \* bound on the rows of each table

VARIABLES
  accounts,       \* bank_accounts: [verified, primary]
  withdrawals     \* withdrawals: [amount, status, account]

payoutVars == <<accounts, withdrawals>>

PayoutInit == accounts = <<>> /\ withdrawals = <<>>

(* Mutant of Demoted: the old accounts stay primary. *)
NoneDemoted(rows) == rows

Demoted(rows) == [i \in DOMAIN rows |-> [rows[i] EXCEPT !.primary = FALSE]]

(* add_bank_account; with verified FALSE also admin_add_bank_account: the     *)
(* newest account is the one that is paid.                                    *)
AddAccount(verified) ==
  /\ Len(accounts) < MaxRows
  /\ accounts' = Append(Demoted(accounts), [verified |-> verified, primary |-> TRUE])
  /\ UNCHANGED withdrawals

Available ==
  LegacyEarned - FoldSeq(LAMBDA w, sum : IF w.status = "completed" THEN sum + w.amount ELSE sum,
                         0, withdrawals)

(* request_withdrawal, paid out at once if the gateway knows the account.     *)
Withdraw(amount, granted) ==
  /\ amount <= Available
  /\ Len(withdrawals) < MaxRows
  /\ \E i \in DOMAIN accounts :
       /\ accounts[i].primary
       /\ granted => accounts[i].verified
       /\ withdrawals' = Append(withdrawals,
            [amount |-> amount, status |-> IF granted THEN "processing" ELSE "pending", account |-> i])
  /\ UNCHANGED accounts

PayoutNext ==
  \E verified \in BOOLEAN :
    AddAccount(verified) \/ \E amount \in Amounts : Withdraw(amount, verified)

PayoutSpec == PayoutInit /\ [][PayoutNext]_payoutVars

-----------------------------------------------------------------------------
(* Money goes to the account that was added last before it was asked for: a   *)
(* withdrawal never goes to an account that had been replaced.                *)
PaysNewestAccount ==
  [][Len(withdrawals') > Len(withdrawals) => Last(withdrawals').account = Len(accounts)]_payoutVars
=============================================================================
