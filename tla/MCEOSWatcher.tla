---------------------------- MODULE MCEOSWatcher ----------------------------
EXTENDS EOSWatcher

MCPushIndexes == [h \in 1..MaxHeight |-> CASE h = 1 -> {0, 2} [] h = 2 -> {1} [] OTHER -> {0}]
=============================================================================
