--------------------------- MODULE MCAppLifecycle ---------------------------
EXTENDS AppLifecycle
=============================================================================
