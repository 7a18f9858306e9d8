---------------------------- MODULE MCDownloadDedup ----------------------------
EXTENDS DownloadDedup, TLC

CONSTANTS r1, r2, r3, r4, r5, r6

\* which endpoints the requests of an instance come from
EveryEndpoint ==
    r1 :> "artist" @@ r2 :> "release" @@ r3 :> "release" @@ r4 :> "acquire" @@ r5 :> "acquire" @@
    r6 :> "keep"

\* requests of one endpoint are interchangeable
SameEndpoint == Permutations({r2, r3}) \cup Permutations({r4, r5})
=============================================================================
