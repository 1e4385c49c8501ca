--------------------------- MODULE FinancialLedger --------------------------
(***************************************************************************)
(* What the product does with a ledger: FinancialDataIngestionAdapter      *)
(* validates the rows of a CSV source and adds them up, and                *)
(* FinancialStatementAnalysisService turns the totals and a balance sheet  *)
(* into figures.  Amounts are in hundredths, which is what round() keeps.  *)
(***************************************************************************)
EXTENDS Integers, Sequences

LOCAL INSTANCE SequencesExt

(* sound: five columns, quotes closed, an ISO date, an account, a currency *)
(* and amounts of digits with at most two decimals.                        *)
Row == [sound : BOOLEAN, debit : Nat, credit : Nat]

(* header: the first line names the five columns in their order.           *)
Ledger == [header : BOOLEAN, rows : Seq(Row)]

RowAccepted(row) ==
    /\ row.sound
    /\ ~ (row.debit = 0 /\ row.credit = 0)
    /\ ~ (row.debit > 0 /\ row.credit > 0)

LedgerAccepted(ledger) ==
    /\ ledger.header
    /\ ledger.rows # <<>>
    /\ \A i \in DOMAIN ledger.rows : RowAccepted(ledger.rows[i])

Debits(ledger) == FoldLeft(LAMBDA sum, row : sum + row.debit, 0, ledger.rows)
Credits(ledger) == FoldLeft(LAMBDA sum, row : sum + row.credit, 0, ledger.rows)

(* Margin and debt ratio are quotients of real numbers; a pair stands for  *)
(* one of them.                                                            *)
Sheet == [assets : Int, liabilities : Int]
SheetAccepted(sheet) == sheet.assets >= 0 /\ sheet.liabilities >= 0
Ratio(part, whole) == IF whole = 0 THEN <<0, 1>> ELSE <<part, whole>>

Observation(profit) == IF profit < 0 THEN "LOSS" ELSE "PROFITABLE"

(* Revenue is what the ledger credits and expenses are what it debits.     *)
Figures(ledger, sheet) ==
    LET profit == Credits(ledger) - Debits(ledger)
    IN  [revenue |-> Credits(ledger), expenses |-> Debits(ledger),
         profit |-> profit, profitMargin |-> Ratio(profit, Credits(ledger)),
         debtRatio |-> Ratio(sheet.liabilities, sheet.assets),
         observation |-> Observation(profit)]
=============================================================================
