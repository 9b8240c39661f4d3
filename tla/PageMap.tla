------------------------------ MODULE PageMap ------------------------------
(***************************************************************************)
(* What mapping pages promises: the address space is a function from       *)
(* virtual pages to physical frames.  Mapping or unmapping a page changes  *)
(* nothing for any other page, except that unmapping inside a huge page    *)
(* removes all pages of it.                                                *)
(***************************************************************************)
CONSTANTS Pages, Targets, HugePages, NotMapped

VARIABLE translation

AddressSpaces == [Pages -> Targets \cup {NotMapped}]

MapInit == translation \in AddressSpaces

Changed == {v \in Pages : translation'[v] # translation[v]}

MapOrUnmap == \A u, v \in Changed : u = v

(* HugePages: the sets of pages that one huge page covers.                 *)
UnmapHuge ==
  \E region \in HugePages :
    /\ \A v \in region : translation'[v] = NotMapped
    /\ Changed \subseteq region

MapNext == translation' \in AddressSpaces /\ (MapOrUnmap \/ UnmapHuge)

MapSpec == MapInit /\ [][MapNext]_translation
=============================================================================
