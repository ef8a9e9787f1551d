SPECIFICATION Spec
CONSTANT Simulated = {"ffs"}
INVARIANT DoVerify
