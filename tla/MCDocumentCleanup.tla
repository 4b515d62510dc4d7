-------------------------- MODULE MCDocumentCleanup ---------------------------
EXTENDS DocumentCleanup, MCDocumentIngest
===============================================================================
