-------------------------- MODULE MCEthernetSockets --------------------------
EXTENDS EthernetSockets
\* A client of other servers that also accepts, one that also polls with
\* available(), and a pure server.
CalledTogether == {{"accept", "connect"}, {"available", "connect"}, {"available"}}
=============================================================================
