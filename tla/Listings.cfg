\* The listings and the mails, over every order of arrival and of counting.
SPECIFICATION ListingsSpec
CONSTANTS
  TableOf <- MCTableOf
  Batches <- MCListingBatches
  Requests <- MCRequests
  FilterSets <- MCFilterSets
  CommitLimit = 2
  HardwareRequests <- MCHardwareRequests
  SqlOrder <- MCOrder
  PageOrder <- MCOrder
  MailKeys <- MCMailKeys
  MailWindows <- MCMailWindows
  LateStatuses = {"PASS"}
INVARIANTS
  TreeMailMatchesListing
  HardwareListingsAgree
  HardwareMailAgrees
\* everything is stored, complete and counted: nothing is left to do
CHECK_DEADLOCK FALSE
