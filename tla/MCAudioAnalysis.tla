--------------------------- MODULE MCAudioAnalysis ---------------------------
EXTENDS AudioAnalysis

CONSTANTS t1, t2
=============================================================================
