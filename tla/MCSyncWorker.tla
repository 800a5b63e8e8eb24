---------------------------- MODULE MCSyncWorker ----------------------------
\* Instances of SyncWorker for TLC.
EXTENDS SyncWorker

MCEndpoints == <<"projects_v4", "projects_v3", "worksheets">>
MCProjects == <<"projects_v4", "projects_v3">>
=============================================================================
