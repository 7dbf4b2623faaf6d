\* Every transaction alone, and bodies of up to two values -- transactions and
\* arrays of up to two -- made of transactions that differ from a plain transfer in one field.
SPECIFICATION Spec
CONSTANTS
  Wallet = Wallet
  Stranger = Stranger
  Assets = {7, 8}
  AllowLists <- Lists
  Absent = Absent
  Misfit = Misfit
  Undecodable = Undecodable
  Corpus <- NearlyPlain
  MaxValues = 2
  MaxGroup = 2
INVARIANTS
  OnlyPlainTransfersPass
  ExplicitViolationIsForbidden
CHECK_DEADLOCK FALSE
