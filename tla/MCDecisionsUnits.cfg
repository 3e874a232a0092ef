CONSTANTS
  AnyModel = AnyModel
  NoJob = NoJob
  None = None
  NoInvoice = NoInvoice
  NoRole = NoRole
  Schedules <- MCSchedules
  Trusts <- MCTrusts
  Actors <- MCActors
  Stakes <- MCStakes
  Slashes <- MCSlashes
  Machines <- MCMachines
  Offers <- MCOffers
  Receipts <- MCReceipts
  Unpaids <- MCUnpaids
  Discoveries <- MCDiscoveries
SPECIFICATION DecisionSpec
CHECK_DEADLOCK FALSE
INVARIANTS
  QuotesKeepTheUnit
