----------------------------- MODULE MCBlockHash -----------------------------
(* An instance of BlockHash for TLC. *)
EXTENDS BlockHash

Fill(len, byte) == [k \in 1 .. len |-> byte]

\* The digests of the standard for no byte and for "abc", which the client's tests
\* name (hashing.rs:68-80), and for messages at the boundary of a block: 55
\* bytes are the most that fit into one block, 56 and 64 take a second one.
\* The 255s make the second sum of Adler-32 exceed its modulus.
Standard == {
    [data |-> <<>>, digest |->
         <<<<58288, 50242>>, <<39164, 7188>>, <<39675, 62664>>, <<39279, 47396>>,
           <<10158, 16868>>, <<25755, 37708>>, <<42133, 39195>>, <<30802, 47189>>>>],
    [data |-> <<97, 98, 99>>, digest |->
         <<<<47736, 5823>>, <<36609, 53226>>, <<16705, 16606>>, <<23982, 8739>>,
           <<45059, 24995>>, <<38423, 31388>>, <<46096, 65377>>, <<61952, 5549>>>>],
    [data |-> Fill(55, 255), digest |->
         <<<<43738, 60672>>, <<41925, 64440>>, <<1834, 59377>>, <<38987, 43033>>,
           <<40894, 21106>>, <<56898, 32017>>, <<60147, 5507>>, <<44855, 56145>>>>],
    [data |-> Fill(56, 255), digest |->
         <<<<21135, 62730>>, <<45150, 30651>>, <<48418, 19102>>, <<51297, 26075>>,
           <<46722, 19098>>, <<40699, 21579>>, <<57505, 54653>>, <<23361, 25687>>>>],
    [data |-> Fill(64, 1), digest |->
         <<<<31881, 30177>>, <<58890, 23683>>, <<14322, 36575>>, <<35891, 50097>>,
           <<32822, 2930>>, <<31076, 19099>>, <<49583, 15441>>, <<58914, 3061>>>>]}
=============================================================================
