--------------------------- MODULE MCPlainWatch ---------------------------
EXTENDS PlainWatch
=============================================================================
