------------------------------ MODULE MCSdLib ------------------------------
EXTENDS SdLib, TLC
MCPaths == {<<"a">>, <<"d">>, <<"d", "b">>}
MCDirs == {<<"d">>}
U(n) == [v |-> n]
MCWrites == {<<U(1)>>, <<U(2), U(3)>>, <<U(4), U(5), U(6)>>}
MCModes == {FILE_READ, FILE_WRITE, {"R", "W", "CREAT", "TRUNC"}, {"R", "W", "SYNC"}}
\* An empty card, and one with a file in two clusters out of order and a full directory.
Entry(name, dir, first, size) == [name |-> name, dir |-> dir, first |-> first, size |-> size]
F(c) == [fat |-> c]
Used == LET fat == <<(0 :> F(EOC) @@ 1 :> F(EOC)), (0 :> F(EOC) @@ 1 :> F(EOC)), (0 :> F(3) @@ 1 :> F(0))>> IN
    [b \in Blocks |->
        CASE b \in 1 .. 6 -> fat[((b - 1) % 3) + 1]
          [] b = RootDirStart -> (0 :> Entry("a", FALSE, 4, 3) @@ 1 :> Entry("d", TRUE, 2, 0))
          [] b = ClusterStartBlock(2) -> (0 :> Entry(".", TRUE, 2, 0) @@ 1 :> Entry(".", TRUE, 0, 0))
          [] b = ClusterStartBlock(4) -> (0 :> U(7) @@ 1 :> U(8))
          [] b = ClusterStartBlock(3) -> (0 :> U(9) @@ 1 :> FreeEntry)
          [] OTHER -> ZeroBlock]
MCCards == {Formatted, Used}
Symm == Permutations(Files)

\* Instances for the disagreements.
OnePath == {<<"a">>}
BlockWrites == {<<U(1)>>, <<U(2), U(3)>>}
ReadWrite == {{"R", "W", "CREAT"}}
Empty == {Formatted}
=============================================================================
