------------------------------ MODULE MCDevice ------------------------------
EXTENDS Device
MCFolders == {"app"}
=============================================================================
