--------------------------- MODULE MCToolServers ---------------------------
EXTENDS ToolServers

CONSTANTS c1, c2, py

MCCalls == {c1, c2}
MCLangs == {py}
MCLangOf == [c \in MCCalls |-> IF c = c2 THEN Workspace ELSE py]
MCSessions == 1..2
=============================================================================
