-------------------------- MODULE MCA2AMemoryStore --------------------------
\* Three calls on one process.
EXTENDS A2AMemoryStore, MCA2ARequests
=============================================================================
