---------------------------- MODULE MCIbpProtocol ----------------------------
EXTENDS IbpProtocol

\* The host's supported versions.
Versions == <<2, 1, 0>>

\* Clients of today and of earlier builds.
AllBuilds == {{0, 1, 2}, {0, 1}, {0}}

\* A client may ask for nothing, for sources as the runner does, or for a scope
\* the host does not know.
AllRequests == {{}, {"sources"}, {"symlinks"}}
==============================================================================
