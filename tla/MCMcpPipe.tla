----------------------------- MODULE MCMcpPipe -----------------------------
\* Two cycles and one signal, for the threads of the first cycle live on in the second,
\* or one cycle and two signals, for the second may find the handler of the first.  The
\* pipe ends on a signal and waits for ever where a handler locks itself out
\* (SelfLocked), so deadlock is not checked.
EXTENDS McpPipe
=============================================================================
