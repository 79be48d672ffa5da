------------------------------ MODULE MCRunServer ------------------------------
EXTENDS RunServer
=============================================================================
