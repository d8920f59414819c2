----------------------------- MODULE MCDiskImages -----------------------------
(* Model of DiskImages for TLC: two D88 images and a raw one for the two   *)
(* drives, one fixed disk, one ROM on the card.                            *)
EXTENDS DiskImages, TLC
CONSTANTS d88a, d88b, hdm, nhd, biosrom
MCD88 == {d88a, d88b}
MCRaw == {hdm}
MCHdds == {nhd}
MCFiles == {d88a, d88b, hdm, nhd, biosrom}
MCFailing == {{}, {"fdd1"}, {"hdd"}}
Interchangeable == Permutations({d88a, d88b})
=============================================================================
