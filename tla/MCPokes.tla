----------------------------- MODULE MCPokes -----------------------------
EXTENDS Pokes
=============================================================================
