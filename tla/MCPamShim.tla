----------------------------- MODULE MCPamShim -----------------------------
EXTENDS PamShim
=============================================================================
