--------------------------- MODULE MCProbeHistory ---------------------------
EXTENDS ProbeHistory

SchemeBoth == [p \in Proxies |-> "both"]

=============================================================================
