CONSTANTS
  Packages <- MCPackages
  KindOf <- MCKindOf
  KeyOf <- MCKeyOf
  NoKey = "none"
  Versions = {1, 2}
  Dependencies <- MCDependencies
  Members <- MCMembers
  NeedsConfig = {}
  Nothing = Nothing
  Listings <- MCListings
  Parcels <- MCParcels
  MaxRedirects = 1
  MaxSize = 1
  MaxFiles = 1
  Acting = {"g"}
  Searched = {"g"}
  Menu <- MCMenu
  Models = {0, 1}
  InitialDisks <- MCInitialDisks
  MaxCalls = 2
SPECIFICATION PackagesSpec
INVARIANTS RecordsSound StateAgrees ManualStays WorkerHasWhatIsSet
CHECK_DEADLOCK FALSE
