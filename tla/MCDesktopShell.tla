---------------------------- MODULE MCDesktopShell -----------------------------
EXTENDS DesktopShell
================================================================================
