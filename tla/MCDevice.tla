------------------------------ MODULE MCDevice ------------------------------
EXTENDS Device

Unixes == {"freebsd", "openbsd", "osf1", "ultrix", "aix"}
AllSystems == Unixes \cup {"linux", "irix"}
=============================================================================
