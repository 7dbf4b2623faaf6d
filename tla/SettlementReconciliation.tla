------------------------ MODULE SettlementReconciliation ------------------------
(***************************************************************************)
(* reconcileSettlementAudit of src/settlement-reconciliation.js: the        *)
(* settlements of an audit are compared with the bank's debits and with the *)
(* names of its pacs.008 files, and their amounts are added up.  The hashes *)
(* it returns are CanonicalJson's.                                          *)
(*                                                                          *)
(* An amount is a decimal text, [whole, digits]: 1.5 and 1.50 are two       *)
(* texts.  A file's name is a stem and an ending.                           *)
(***************************************************************************)
EXTENDS Naturals, Sequences, SequencesExt, FiniteSetsExt

CONSTANTS
  References, Uetrs, Amounts,
  MaxDebits, MaxFiles, MaxSettlements   \* bounds for TLC

ASSUME AmountsAssumption ==
  \A amount \in Amounts : amount.whole \in Nat /\ amount.digits \in Seq(0..9)

VARIABLE dataset

Debit == [reference : References, uetr : Uetrs, amount : Amounts]
File == [stem : References, ending : {"_pacs008.json", "none", "other"}]
Settlement ==
  [reference : References, uetr : Uetrs, amount : Amounts,
   evidence : {"confirmed", "unconfirmed", "off chain"}]   \* its status is CONFIRMED, and
                                \* it has a transactionId and a confirmedRound

\* The text sumDecimalStrings takes.
IsDecimal(amount) == Len(amount.digits) <= 2

\* padEnd(2, '0').
Cents(amount) ==
  LET padded == amount.digits \o <<0, 0>>
  IN  100 * amount.whole + 10 * padded[1] + padded[2]

Written(cents) ==
  [whole |-> cents \div 100, digits |-> <<(cents \div 10) % 10, cents % 10>>]

Total(terms) ==
  LET sum[n \in 0..Len(terms)] == IF n = 0 THEN 0 ELSE sum[n - 1] + terms[n]
  IN  sum[Len(terms)]

SumCents(records) == Total([i \in DOMAIN records |-> Cents(records[i].amount)])
SumDecimalStrings(records) == Written(SumCents(records))

\* referenceFromPacsFile: a name without the ending stands for itself.
FilesReference(file, reference) == file.stem = reference /\ file.ending # "other"

\* debitByReference is a Map: of debits with one reference it has the last.
DebitsFor(reference) ==
  {i \in DOMAIN dataset.debits : dataset.debits[i].reference = reference}
DebitByReference(reference) == dataset.debits[Max(DebitsFor(reference))]

\* Mutant: the amounts are not compared.
BacksAnyAmount(debit, s) == debit.uetr = s.uetr

Backs(debit, s) == debit.uetr = s.uetr /\ debit.amount = s.amount

\* No check of settlements.map throws.
Matches(s) ==
  /\ DebitsFor(s.reference) # {}
  /\ Backs(DebitByReference(s.reference), s)
  /\ \E file \in dataset.files : FilesReference(file, s.reference)
  /\ s.evidence = "confirmed"

\* reconcileSettlementAudit returns, with TotalAmount.
Reconciled ==
  \A s \in Range(dataset.settlements) : Matches(s) /\ IsDecimal(s.amount)
TotalAmount == SumDecimalStrings(dataset.settlements)

-----------------------------------------------------------------------------
(* The records of an audit, put together debits first.                      *)

SettlementInit == dataset = [debits |-> <<>>, files |-> {}, settlements |-> <<>>]

AddDebit ==
  /\ dataset.files = {} /\ dataset.settlements = <<>>
  /\ Len(dataset.debits) < MaxDebits
  /\ \E debit \in Debit : dataset' = [dataset EXCEPT !.debits = Append(@, debit)]

AddFile ==
  /\ dataset.settlements = <<>> /\ Cardinality(dataset.files) < MaxFiles
  /\ \E file \in File : dataset' = [dataset EXCEPT !.files = @ \union {file}]

\* An audit that is refused for a settlement is refused whatever follows it.
AddSettlement ==
  /\ Reconciled
  /\ Len(dataset.settlements) < MaxSettlements
  /\ \E s \in Settlement : dataset' = [dataset EXCEPT !.settlements = Append(@, s)]

SettlementNext == AddDebit \/ AddFile \/ AddSettlement

SettlementSpec == SettlementInit /\ [][SettlementNext]_dataset

-----------------------------------------------------------------------------
\* What a decimal text says: a digit is worth its place, a text that is none nothing.
Places == <<10, 1>>
Hundredths(amount) ==
  IF IsDecimal(amount)
  THEN 100 * amount.whole + Total([i \in DOMAIN amount.digits |-> Places[i] * amount.digits[i]])
  ELSE 0

Sum(records) == Total([i \in DOMAIN records |-> Hundredths(records[i].amount)])

\* The total of a reconciled audit, read as the text it is, is the sum of the amounts
\* of its settlements, however many decimals each has; and it was debited, if no two
\* of them have one reference: every settlement is backed by a debit of its own,
\* although equal references hide all debits but one.
ReconciledTotalIsDebited ==
  Reconciled =>
    LET total == Hundredths(TotalAmount)
        settled == dataset.settlements
    IN  /\ total = Sum(settled)
        /\ IsInjective([i \in DOMAIN settled |-> settled[i].reference]) =>
             total <= Sum(dataset.debits)
=============================================================================
