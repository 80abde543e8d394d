SPECIFICATION Spec
CONSTANTS
  Hosts <- BuildHosts
  Catalogs <- BuildCatalogs
  MaxTenants = 4
  Failures = TRUE
INVARIANTS
  EveryBuildOpens
PROPERTIES
  DataIsKept
  ActiveIsKept
  PreferencesFollow
