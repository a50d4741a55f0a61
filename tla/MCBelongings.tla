---------------------------- MODULE MCBelongings ----------------------------
EXTENDS Belongings
=============================================================================
