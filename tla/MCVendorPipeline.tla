--------------------------- MODULE MCVendorPipeline ---------------------------
EXTENDS VendorPipeline, TLC

Symmetric == Permutations(Runs)

=============================================================================
