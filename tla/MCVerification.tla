--------------------------- MODULE MCVerification ----------------------------
EXTENDS Verification, TLC
MCCommands == {"cargo test"}
MCSuiteCommands == {"cargo test", "make test"}
CriteriaSymmetry == Permutations(Criteria)
=============================================================================
