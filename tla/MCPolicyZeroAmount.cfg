\* Zero-amount payments in whatever encoding.
SPECIFICATION Spec
CONSTANTS
  Wallet = Wallet
  Stranger = Stranger
  Assets = {7, 8}
  AllowLists <- Lists
  Absent = Absent
  Misfit = Misfit
  Undecodable = Undecodable
  Corpus <- NearlyPlain
  MaxValues = 1
  MaxGroup = 1
INVARIANTS
  ZeroAmountIsViolation
CHECK_DEADLOCK FALSE
