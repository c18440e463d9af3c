--------------------------- MODULE MCDownloadData ---------------------------
EXTENDS DownloadData
=============================================================================
