\* The pages of a tree, of its commits and of a hardware, over every order of arrival.
SPECIFICATION TablesSpec
CONSTANTS
  TableOf <- MCTableOf
  Batches <- MCBatches
  Requests <- MCRequests
  FilterSets <- MCFilterSets
  CommitLimit = 2
  HardwareRequests <- MCHardwareRequests
  SqlOrder <- MCOrder
  PageOrder <- MCOrder
INVARIANTS
  SummaryMatchesDetails
  UnknownAgrees
  BuildListsAgree
  TabsMatchDetails
  HistoryMatchesDetails
  
  HistoriesAgree
  HardwareTestsAgree
  HardwareBuildsAgree
  SelectionKeepsIndexes
  HistoriesNest
\* every batch is stored and every test rolled up: nothing is left to do
CHECK_DEADLOCK FALSE
