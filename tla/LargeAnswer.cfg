SPECIFICATION Spec
INVARIANTS ManifestHolds TruncatedAsNamed
CHECK_DEADLOCK FALSE
