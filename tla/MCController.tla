---------------------------- MODULE MCController ----------------------------
EXTENDS DohaaController, MCContract
=============================================================================
