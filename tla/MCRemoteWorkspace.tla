------------------------ MODULE MCRemoteWorkspace ------------------------
EXTENDS RemoteWorkspace

\* No definition names a particular run.
Symmetric == Permutations(Runs)
=============================================================================
