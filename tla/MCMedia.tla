------------------------------- MODULE MCMedia -------------------------------
EXTENDS Media
CONSTANTS r1, r2
MCAsks ==
    {<<r1, "preview">>, <<r1, "download">>, <<r1, "zip">>, <<r2, "thumb">>, <<r2, "first">>}
=============================================================================
