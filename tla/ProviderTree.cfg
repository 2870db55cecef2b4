CONSTANTS
  NoValue = NoValue
  SkipReserveInUse = FALSE
  ResourceClasses = {"CUSTOM_IRON_NFV"}
  Instances = {i1}

SPECIFICATION Spec

PROPERTY LegacyInventoryWithoutRC
