--------------------------- MODULE MCIngestWorker ---------------------------
\* Small instances of IngestWorker for TLC.
EXTENDS IngestWorker
=============================================================================
