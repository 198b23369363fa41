---------------------------- MODULE MCChainCompile ----------------------------
EXTENDS ChainCompile
=============================================================================
