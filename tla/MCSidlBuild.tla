----------------------------- MODULE MCSidlBuild ----------------------------
(* One artifact, named plainly or as the README names an extended one.      *)
EXTENDS SidlBuildInv

Plain == <<"byte_stream", "sif">>
Dotted == <<"byte_stream", "next", "sif">>
=============================================================================
