--------------------------- MODULE MCCompanionClient ---------------------------
EXTENDS CompanionClient, TLC
===============================================================================
