------------------------------- MODULE MCPanels -------------------------------
EXTENDS Panels
CONSTANTS s1, i1, i2
\* One domain with one service.
MCGroup == {{s1}}
\* Two filters of the audit log, one token and one client.
MCInput == [audit |-> {i1, i2}, discovery |-> {i1}, probe |-> {i1}]
=============================================================================
