SPECIFICATION Spec
CONSTANTS
  Parsed <- PluginParsed
  Diagnostics <- PluginDiagnostics
  Detected <- DetectVendor
  NumberOf <- MCNumberOf
  FamilyOf <- MCFamilyOf
  NetworkOf <- MCNetworkOf
  WildcardOf <- MCWildcardOf
  OddHops <- MCOddHops
  IrfPort <- MCIrfPort
  VrpTypes <- MCVrpTypes
  ComwareTypes <- MCComwareTypes
  SensitiveWords <- MCSensitiveWords
  Topics <- AllTopics
  MaxTyped = 3
INVARIANTS EachLineOnce ReportsAreLive
PROPERTIES NothingRevived RestatingChangesNothing UndoCancels DefinitionsOnlyResolve VpnScopesApart
CHECK_DEADLOCK FALSE
