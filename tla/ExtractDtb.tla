----------------------------- MODULE ExtractDtb -----------------------------
(* scripts/extract-dtb.py: device trees cut out of one boot image, which is a  *)
(* DTBO container or has them somewhere among other bytes.  An image is a      *)
(* sequence of cells of four bytes.                                            *)
EXTENDS Integers, Sequences, FiniteSets, FiniteSetsExt

CONSTANTS
  HeaderCells,  \* 7
  MinCells,     \* 256: a real FDT is longer
  Images,       \* sequences: 0 where there is no FDT magic, else the total size
                \* the header there claims, or -1 if its version is not 16 or 17
  Containers    \* sequences of "fdt", "junk" and "cut" (outside the file)

(* Cells as the scripts read them, and flags that fit a header.                *)
ImagesAssumption ==
  /\ HeaderCells \in Nat \ {0} /\ MinCells \in Nat
  /\ Images \subseteq Seq(Int) /\ Containers \subseteq Seq({"fdt", "junk", "cut"})

VARIABLES
  kind, image,  \* constant: "raw" or "dtbo", and what is in it
  off,          \* where to go on
  written,      \* the blobs written, by position or number of the entry
  state         \* "scanning", "done" or "raised"

vars == <<kind, image, off, written, state>>

TypeOK ==
  /\ kind \in {"raw", "dtbo"} /\ off \in 1..Len(image) + 1
  /\ written \in Seq(1..Len(image)) /\ state \in {"scanning", "done", "raised"}

Init ==
  /\ \/ kind = "raw" /\ image \in Images
     \/ kind = "dtbo" /\ image \in Containers
  /\ off = 1 /\ written = <<>> /\ state = "scanning"

(* fdt_header, and the guard against instructions that contain the magic       *)
Left(i) == Len(image) - i + 1
IsFdt(i) ==
  /\ image[i] # 0 /\ Left(i) >= HeaderCells
  /\ MinCells < image[i] /\ image[i] <= Left(i)

\* Mutant: the scan goes on behind what the header claims.
AfterClaim(i) == i + IF image[i] \in 1..Left(i) THEN image[i] ELSE 1

(* off = i + 4 *)
AfterMagic(i) == i + 1

(* extract_appended: one turn of the loop                                      *)
Scan ==
  LET hits == {i \in off..Len(image) : image[i] # 0}
  IN /\ kind = "raw" /\ state = "scanning"
     /\ IF hits = {}
          THEN state' = "done" /\ UNCHANGED <<off, written>>
          ELSE /\ off' = AfterMagic(Min(hits))
               /\ written' = IF IsFdt(Min(hits)) THEN Append(written, Min(hits)) ELSE written
               /\ UNCHANGED state
     /\ UNCHANGED <<kind, image>>

(* extract_dtbo: one entry; struct.unpack raises at a table that is cut off    *)
Entry ==
  /\ kind = "dtbo" /\ state = "scanning"
  /\ IF off > Len(image) THEN state' = "done" /\ UNCHANGED <<off, written>>
     ELSE IF image[off] = "cut" THEN state' = "raised" /\ UNCHANGED <<off, written>>
     ELSE /\ written' = IF image[off] = "fdt" THEN Append(written, off) ELSE written
          /\ off' = off + 1 /\ UNCHANGED state
  /\ UNCHANGED <<kind, image>>

Next == Scan \/ Entry

Spec == Init /\ [][Next]_vars

-----------------------------------------------------------------------------
(* Every device tree of the image is written once and in order, and nothing    *)
(* else: bytes that only look like one, in front of it or around it, hide none *)
(* (the guard of lines 81-84).                                                 *)
FindsEveryTree ==
  state = "done" =>
    LET trees == {i \in DOMAIN image : IF kind = "raw" THEN IsFdt(i) ELSE image[i] = "fdt"}
    IN /\ {written[n] : n \in DOMAIN written} = trees
       /\ Len(written) = Cardinality(trees)
       /\ \A m, n \in DOMAIN written : m < n => written[m] < written[n]
=============================================================================
