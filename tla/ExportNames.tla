----------------------------- MODULE ExportNames -----------------------------
(***************************************************************************)
(* ClusterImageExportReconciler with the names and filters of ImageNames:  *)
(* which patterns match a container, and which ClusterImage it has, comes  *)
(* from the name that a workload uses for its image.                       *)
(***************************************************************************)
EXTENDS ClusterImageExportReconciler, ImageNames

CONSTANT ReferenceOf   \* the image of each container, and each additional image

Item == Container \cup Additional

NameOf == [c \in Item |-> Written(ReferenceOf[c])]
ContainerOf == [c \in Item |-> ProcessContainerName(NameOf[c])]

\* Different texts have different hashes.
ASSUME NamesAssumption ==
  /\ ReferenceOf \in [Item -> Reference]
  /\ \A c \in Container, p \in Includes \cup Excludes :
       <<c, p>> \in Matching <=> Matches(ContainerOf[c].image, p)
  /\ \A c, d \in Item :
       KeyOf[c] = KeyOf[d] <=> NameHash(ContainerOf[c]) = NameHash(ContainerOf[d])

-----------------------------------------------------------------------------
\* What the filters are meant to select, from the references instead of the names.
Words(c) == {Repository(ReferenceOf[c])[i] : i \in DOMAIN Repository(ReferenceOf[c])}

Wanted(c) ==
  \/ c \in Additional
  \/ /\ Includes # {} => Includes \cap Words(c) # {}
     /\ Excludes \cap Words(c) = {}
     /\ Namespaces # {} => NamespaceOf[c] \in Namespaces
     /\ NamespaceOf[c] \notin ExcludedNamespaces

\* "Exclude images which contain these strings": nothing is backed up that the export
\* leaves out (listImagesInCluster, ClusterImageExportSpec). Of an image whose registry
\* has a port the filters see the registry only.
OnlyWanted ==
  \A k \in Key : image[k] # Absent =>
    \E c \in Item : KeyOf[c] = k /\ (Wanted(c) \/ Ported(ReferenceOf[c]))

\* Two images of one repository. Of two repositories nothing can be said: nameHash joins
\* repository, tag and digest without a separator.
Versions(c, d) ==
  /\ Repository(ReferenceOf[c]) = Repository(ReferenceOf[d])
  /\ Parts(ReferenceOf[c]) # Parts(ReferenceOf[d])

\* When Reconcile asks whether all images are done, every image that is wanted, and whose
\* registry has no port, has a ClusterImage. No two versions of an image share one, nor,
\* if their names are regular, a file (nameHash, NormalizeImageName).
EachHasItsOwn ==
  pc = "setSuccess" =>
    /\ \A c \in Item : Wanted(c) /\ ~ Ported(ReferenceOf[c]) => image[KeyOf[c]] # Absent
    /\ \A c, d \in Item : Versions(c, d) =>
         /\ KeyOf[c] # KeyOf[d]
         /\ Regular(ReferenceOf[c]) /\ Regular(ReferenceOf[d]) =>
              NormalizeImageName(NameOf[c]) # NormalizeImageName(NameOf[d])
=============================================================================
