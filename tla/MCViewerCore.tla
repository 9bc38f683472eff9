---------------------------- MODULE MCViewerCore ----------------------------
EXTENDS ViewerCore
=============================================================================
