---------------------------- MODULE MCTextBuffer ----------------------------
EXTENDS TextQueries
=============================================================================
