--------------------------- MODULE MCA2AFileStore ---------------------------
\* Two replicas on one snapshot.
EXTENDS A2AFileStore, MCA2ARequests
=============================================================================
