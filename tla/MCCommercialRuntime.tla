------------------------ MODULE MCCommercialRuntime ------------------------
(* TLC instances of CommercialRuntime.                                     *)
EXTENDS CommercialRuntime, TLC

(* A ledger that is taken, and one with a row on both sides.               *)
Taken == [header |-> TRUE,
          rows |-> <<[sound |-> TRUE, debit |-> 1, credit |-> 0],
                     [sound |-> TRUE, debit |-> 0, credit |-> 2]>>]
DoubleSided == [header |-> TRUE,
                rows |-> <<[sound |-> TRUE, debit |-> 1, credit |-> 1]>>]
MCLedgers == {Taken, DoubleSided}

Sound == [assets |-> 4, liabilities |-> 1]
Negative == [assets |-> -1, liabilities |-> 1]
MCSheets == {Sound, Negative}

MCBodies == {[ledger |-> Taken, sheet |-> Sound],
             [ledger |-> Taken, sheet |-> Negative],
             [ledger |-> DoubleSided, sheet |-> Sound]}

Interchangeable ==
    Permutations(Clients) \cup Permutations(Tokens) \cup Permutations(Requests)
=============================================================================
