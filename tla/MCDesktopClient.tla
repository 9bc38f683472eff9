-------------------------- MODULE MCDesktopClient --------------------------
EXTENDS DesktopClient
=============================================================================
