CONSTANT Jobs <- JobsValue
CONSTANT Families <- FamiliesValue
SPECIFICATION Spec
INVARIANT SealedProof
INVARIANT HonestStop
INVARIANT FallbackReached
CHECK_DEADLOCK FALSE
