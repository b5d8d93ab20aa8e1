---------------------------- MODULE MCRoundRobin ----------------------------
EXTENDS RoundRobin
=============================================================================
