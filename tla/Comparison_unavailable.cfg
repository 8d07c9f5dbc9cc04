CONSTANT Families <- VersionFamilies
SPECIFICATION Spec
CHECK_DEADLOCK FALSE
INVARIANT UnavailableIsNotEmpty
