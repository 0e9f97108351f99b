--------------------------- MODULE MCAuthorisation ---------------------------
\* Instances of Authorisation and TokenFile for TLC: the command and a server
\* share the token file, as two processes of one host or in two containers.
EXTENDS Authorisation, TLC

CONSTANTS server

MCPid == Command :> 1 @@ server :> 2

\* The entry point of a container is its process 1.
MCPidContainers == Command :> 1 @@ server :> 1

MCRecords == Codes \cup {Old, Refreshed}
=============================================================================
