---------------------------- MODULE MCFsTopology ----------------------------
EXTENDS FsTopology

Both == {"distinct", "shared"}
=============================================================================
