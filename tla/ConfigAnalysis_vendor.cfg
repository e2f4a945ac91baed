SPECIFICATION Spec
CONSTANTS
  Parsed <- PluginParsed
  Diagnostics <- PluginDiagnostics
  Detected <- DetectVendor
  NumberOf <- MCNumberOf
  FamilyOf <- MCFamilyOf
  NetworkOf <- MCNetworkOf
  WildcardOf <- MCWildcardOf
  OddHops <- MCOddHops
  IrfPort <- MCIrfPort
  VrpTypes <- MCVrpTypes
  ComwareTypes <- MCComwareTypes
  SensitiveWords <- MCSensitiveWords
  Topics <- MixedTopics
  MaxTyped = 3
PROPERTIES VendorStable
CHECK_DEADLOCK FALSE
