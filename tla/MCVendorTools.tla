----------------------------- MODULE MCVendorTools -----------------------------
(***************************************************************************)
(* A small instance of VendorTools for TLC.                                 *)
(***************************************************************************)
EXTENDS VendorTools

Document(dated, value, days, months, renews, others) ==
    [dated |-> dated, valued |-> value > 0, value |-> value, expires |-> days # 0, days |-> days,
     months |-> months, renews |-> renews, others |-> others]

(* A long contract with all its terms, a short one soon to be renewed, a     *)
(* price list, and one that has expired.                                     *)
MCExtractions ==
    {Document(TRUE, 5, 365, 48, TRUE, 1), Document(TRUE, 1, 60, 24, FALSE, 0),
     Document(FALSE, 5, 0, 0, TRUE, 0), Document(TRUE, 0, -30, 12, FALSE, 4)}

(* A credit note, a free delivery, an invoice.                               *)
MCAmounts == {-2, 0, 3}

(* No earlier analysis, one of last month, and two of which the first was a  *)
(* year ago.                                                                 *)
MCHistories ==
    {[scores |-> <<>>, months |-> 0], [scores |-> <<90>>, months |-> 1],
     [scores |-> <<90, 40>>, months |-> 12]}

=============================================================================
