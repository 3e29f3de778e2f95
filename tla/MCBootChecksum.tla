--------------------------- MODULE MCBootChecksum ---------------------------
(***************************************************************************)
(* Regions of eleven short sectors with a byte behind them, and regions    *)
(* cut off between VolumeFlags and PercentInUse; the real offsets and      *)
(* bytes, sums of 16 bits.  Any one byte changed or none, and any of the   *)
(* fields a mount changes.                                                 *)
(***************************************************************************)
EXTENDS BootChecksum

RegionsOf(size) ==
  LET Offsets == 0 .. size - 1
      Sealed == { [k \in Offsets |-> (a * k) % 256] : a \in {0, 37} }
      Mounted(s, fields) == [k \in Offsets |-> IF k \in fields THEN 255 - s[k] ELSE s[k]]
  IN  { [len |-> size, sealed |-> s, sectors |-> Mounted([s EXCEPT ![k] = b], fields)] :
          s \in Sealed, k \in Offsets, b \in {0, 1},
          fields \in {{}, VolumeFlags, {PercentInUse}} }

MCRegions == RegionsOf(110) \cup RegionsOf(133)

AllBytes == 0 .. 255
=============================================================================
