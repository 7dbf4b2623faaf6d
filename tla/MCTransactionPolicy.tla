-------------------------- MODULE MCTransactionPolicy -------------------------
(***************************************************************************)
(* The corpus for TransactionPolicy.                                       *)
(***************************************************************************)
EXTENDS TransactionPolicy

PlainPayment ==
  [type |-> "pay", receiver |-> Wallet, amount |-> 1, close |-> Absent, rekey |-> Absent]
PlainTransfer ==
  [type |-> "axfer", receiver |-> Wallet, asset |-> 7, amount |-> 1,
   clawback |-> Absent, close |-> Absent, rekey |-> Absent]

\* Transactions that differ from a plain one in at most one field.
NearlyPlain ==
  {[PlainPayment EXCEPT !.receiver = r] : r \in Received}
    \union {[PlainPayment EXCEPT !.amount = n] : n \in Amounts}
    \union {[PlainPayment EXCEPT !.close = a] : a \in Optional}
    \union {[PlainPayment EXCEPT !.rekey = a] : a \in Optional}
    \union {[PlainTransfer EXCEPT !.receiver = r] : r \in Received}
    \union {[PlainTransfer EXCEPT !.asset = id] : id \in {7, 8, Absent, Misfit}}
    \union {[PlainTransfer EXCEPT !.amount = n] : n \in Amounts}
    \union {[PlainTransfer EXCEPT !.clawback = a] : a \in Optional}
    \union {[PlainTransfer EXCEPT !.close = a] : a \in Optional}
    \union {[PlainTransfer EXCEPT !.rekey = a] : a \in Optional}
    \union Other \union {NoTxn}

\* No allowlist, and one that leaves an asset out.
Lists == {{}, {7}}
=============================================================================
