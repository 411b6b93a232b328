----------------------------- MODULE MCPromises -----------------------------
\* Instance of Promises for TLC: that of MCParts, with fewer calls of the log.
EXTENDS MCParts, Promises
=============================================================================
