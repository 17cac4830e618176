----------------------------- MODULE MCPreviewRun -----------------------------
\* Two runs that contend for the semaphores, with two log lines each.
EXTENDS PreviewRun, TLC

CONSTANTS r1, r2
=============================================================================
