---------------------------- MODULE SpendCollection ----------------------------
(***************************************************************************)
(* The first two tools of an RS run: structured_data_collector reads the    *)
(* rows of a vendor's spend from connectors, uploads and a check-in form,   *)
(* document_intelligence has the language model read its documents.         *)
(*                                                                         *)
(* Money is counted in units of 100,000 USD.  A date is NoDate, 0 (more     *)
(* than a year ago), or the quarter, 1 or 2, of the last twelve months.     *)
(***************************************************************************)
EXTENDS ToolRun, SequencesExt

CONSTANTS
    Amounts,        \* what a row may cost
    MaxArrivals,    \* bound: arrival modes that bring rows in one run
    MaxDocuments,   \* bound: documents of a run
    Extractions     \* what the model may read in a document

ASSUME SpendAssumption == Amounts \subseteq Int /\ {MaxArrivals, MaxDocuments} \subseteq Nat

NoDate == -1
Dates == {NoDate, 0, 2}

(* RawSpendRecord: "known" unless the amount or its currency cannot be read. *)
Row(match, known, amount, start, end, official) ==
    [match |-> match, known |-> known, amount |-> amount, start |-> start, end |-> end,
     official |-> official]

Costs == {[known |-> FALSE, amount |-> 0]} \cup [known : {TRUE}, amount : Amounts]

(* Bound: the rows of one file cost the same; they are of one date, or one   *)
(* of each.                                                                  *)
Files(match, official) ==
    LET row(cost, date) == Row(match, cost.known, cost.amount, date, date, official)
    IN  {[i \in 1 .. n |-> row(cost, date)] : n \in {1, 3}, cost \in Costs, date \in Dates}
          \cup {[i \in 1 .. 3 |-> row(cost, i - 1)] : cost \in Costs}

(* _deduplicate_records: rows with the same invoice, start and amount.       *)
Deduplicated(rows, same_invoice) == IF same_invoice THEN SetToSeq(ToSet(rows)) ELSE rows
FileRows(match, official) ==
    {Deduplicated(rows, same_invoice) : rows \in Files(match, official), same_invoice \in BOOLEAN}

(* _collect_from_connectors: no configuration, no directory, no file and an  *)
(* unreadable one bring no rows; all others are this vendor's.               *)
ConnectorRows == {<<>>} \cup FileRows("HIGH", TRUE)

(* _match_to_vendor: the collector passes no name to compare with, so a row  *)
(* that names a vendor never matches, and one that does not always does.     *)
Match(named) == IF named THEN "UNMATCHED" ELSE "MEDIUM"
UploadRows == {<<>>} \cup UNION {FileRows(Match(named), FALSE) : named \in BOOLEAN}

(* _collect_from_checkin: the sums of this year and of twelve months, both   *)
(* up to today; on 29 February a form raises, for there is no year before.   *)
CheckinRow(cost, start) == Row("HIGH", cost.known, cost.amount, start, 2, FALSE)
CheckinRows ==
    {<<>>} \cup {<<CheckinRow(cost, start)>> : cost \in Costs, start \in {1, 2}}
           \cup {<<CheckinRow(cost, 2), CheckinRow(cost, 1)>> : cost \in Costs}

Fail ==
    /\ stage' = "failed"
    /\ work' = [leap_day |-> work.leap_day]
    /\ UNCHANGED result

(* collect_structured_data.                                                  *)
CollectRsData ==
    /\ stage = "collect_rs"
    /\ \/ \E connector \in ConnectorRows, upload \in UploadRows, checkin \in CheckinRows :
             /\ Cardinality({n \in 1 .. 3 : <<connector, upload, checkin>>[n] # <<>>}) <= MaxArrivals
             /\ checkin = <<>> \/ ~work.leap_day
             /\ Produce([records |-> connector \o upload \o checkin, contracts |-> <<>>,
                         documents |-> 0], "documents")
             /\ UNCHANGED result
       \/ work.leap_day /\ Fail
    /\ NoFault

(* _score_confidence.                                                        *)
ExtractionConfidence(e, truncated) ==
    LET found == Cardinality({f \in {"dated", "valued", "expires", "renews"} : e[f]}) + e.others
    IN  CASE truncated -> "LOW"
          [] ~truncated /\ found >= 5 /\ (e.dated \/ e.valued) -> "HIGH"
          [] ~truncated /\ found >= 2 /\ ~(found >= 5 /\ (e.dated \/ e.valued)) -> "MEDIUM"
          [] OTHER -> "LOW"

Contract(e, confidence) ==
    [dated |-> e.dated, valued |-> e.valued, value |-> e.value, expires |-> e.expires,
     days |-> e.days, months |-> e.months, renews |-> e.renews, confidence |-> confidence]

(* What is left when the model cannot be asked: a contract without terms.    *)
NoTerms == [dated |-> FALSE, valued |-> FALSE, value |-> 0, expires |-> FALSE, days |-> 0,
            months |-> 0, renews |-> FALSE, confidence |-> "LOW"]

(* _is_duplicate: same start and value (and currency, known with a value).   *)
Duplicate(contract, contracts) ==
    contract.dated /\ contract.valued
      /\ \E i \in DOMAIN contracts : contracts[i].dated /\ contracts[i].value = contract.value
                                       /\ contracts[i].valued

Added(contract) ==
    work' = [work EXCEPT !.documents = @ + 1,
                         !.contracts = IF Duplicate(contract, @) THEN @ ELSE Append(@, contract)]

(* process_documents, one document at a time: an unreadable one is skipped,  *)
(* one whose reading fails counts as a contract nothing is known about.      *)
ReadDocument ==
    /\ stage = "documents"
    /\ work.documents < MaxDocuments
    /\ \/ \E e \in Extractions, truncated \in BOOLEAN :
             Added(Contract(e, ExtractionConfidence(e, truncated))) /\ NoFault
       \/ Added(NoTerms) /\ AFault
    /\ UNCHANGED <<stage, result>>

(* An answer that is a JSON list instead of an object raises.                *)
ReadingRaises ==
    /\ stage = "documents"
    /\ work.documents < MaxDocuments
    /\ Fail
    /\ AFault

ProcessDocuments ==
    /\ stage = "documents"
    /\ stage' = "aggregate"
    /\ UNCHANGED <<work, result, faults>>

=============================================================================
