SPECIFICATION Spec
CONSTANTS
  Ids = {"a", "b", "c"}
  Fields = {"age", "food", "bDay", "was"}
  ArrayFields <- Arrays
  DateFields <- Dates
  Start <- Stored
  Records <- New
  Filters <- AllFilters
  Searches <- SearchFor
  UpdateExpressions <- AllUpdates
  Pages <- AllOrNext
  Options <- NoneOrBoth
  MaxCalls = 2
  Faults = {"error", "lost"}
INVARIANTS TypeOK InsertedTellsStored
PROPERTIES ImplementsDocumentSet
