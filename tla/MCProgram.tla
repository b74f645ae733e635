------------------------------ MODULE MCProgram ------------------------------
EXTENDS Program

MCPlatforms == {"linux", "path"}
MCLinux == {"linux"}
=============================================================================
