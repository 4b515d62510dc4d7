--------------------------- MODULE MCIngestBatches ----------------------------
EXTENDS IngestBatches, MCDocumentIngest

TwoFiles == <<c1, c2>>
===============================================================================
