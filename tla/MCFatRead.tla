----------------------------- MODULE MCFatRead -----------------------------
(* Files of one to three clusters of four bytes, two to a sector: chains   *)
(* that go forwards and backwards on the disk, one through the cluster     *)
(* number that is refused, and a directory.                                *)
EXTENDS FatRead

Chained(clusters, end, filesize) ==
  [type |-> "FILE", filesize |-> filesize, clusters |-> clusters, first |-> clusters[1],
   fat |-> [c \in {clusters[k] : k \in 1 .. Len(clusters)} |->
              LET k == CHOOSE k \in 1 .. Len(clusters) : clusters[k] = c
              IN  IF k = Len(clusters) THEN end ELSE clusters[k + 1]]]

Directory == [Chained(<<2>>, 65535, 0) EXCEPT !.type = "DIRECTORY"]

OneCluster == {Chained(<<2>>, 65535, 3), Chained(<<3>>, 65528, 4)}

TwoClusters == {Chained(<<2, 3>>, 65535, 6)}

ThreeClusters == {Chained(<<4, 2, 3>>, 65528, 11),
                  Chained(<<2, 4080, 3>>, 65535, 12)}

MCFiles == OneCluster \cup TwoClusters \cup ThreeClusters \cup {Directory}

MCSizes == 0 .. 6 \cup {11, 12}
MCMembers == 0 .. 3
MCOffsets == {-1, 0, 1, 3, 4, 5, 9}
=============================================================================
