---------------------------- MODULE MCDetached ----------------------------
EXTENDS Detached, TLC
===========================================================================
