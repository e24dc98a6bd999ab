---------------------------- MODULE SimHashBands ----------------------------
(***************************************************************************)
(* How stage 1 of DedupService finds its candidates: a fingerprint is cut  *)
(* into bands, and only fingerprints that share a band are compared.  A    *)
(* fingerprint is the set of the bits that are 1.  With the default        *)
(* settings there are 16 bands, one every 8 bits; the mask makes each of   *)
(* them 16 bits wide, so that neighbours overlap.                          *)
(***************************************************************************)
EXTENDS Integers, FiniteSets

Fingerprint == SUBSET (0 .. 127)

BandCount == 16
BandBits == 8

\* (simhash_val >> (i * BAND_BITS)) & 0xFFFF
Band(h, i) == {k \in 0 .. 15 : i * BandBits + k \in h}

\* get_bands
Bands(h) == [i \in 0 .. BandCount - 1 |-> Band(h, i)]

\* check_simhash_bands finds g when h is looked up.
Collide(h, g) == \E i \in 0 .. BandCount - 1 : Bands(h)[i] = Bands(g)[i]

Differ(h, g) == (h \ g) \cup (g \ h)

\* hamming_distance
HammingDistance(h, g) == Cardinality(Differ(h, g))
=============================================================================
