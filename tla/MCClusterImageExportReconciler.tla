------------------- MODULE MCClusterImageExportReconciler -------------------
(***************************************************************************)
(* ExportNames on the containers of a small cluster: one image is used in  *)
(* two namespaces, one with another digest is additional, and the others   *)
(* are left out, each by another filter.                                   *)
(***************************************************************************)
EXTENDS ExportNames

NewReference(path, tag, digest) ==
  [registry |-> <<>>, port |-> <<>>, path |-> path, tag |-> tag, digest |-> digest]

AtRegistry(registry, port, reference) ==
  [reference EXCEPT !.registry = registry, !.port = port]

MCWord ==
  {"registry", "5000", "nginx", "redis", "test", "1", "3", "alpine", "a", "b", "sha256", "latest"}

MCReferenceOf ==
  [ web1  |-> NewReference(<<"nginx">>, <<"1">>, <<"a">>),
    web2  |-> NewReference(<<"nginx">>, <<"1">>, <<"a">>),
    web3  |-> NewReference(<<"nginx">>, <<"3", "-", "alpine">>, <<>>),
    web4  |-> NewReference(<<"nginx">>, <<"3">>, <<>>),
    store |-> NewReference(<<"redis">>, <<>>, <<>>),
    test  |-> AtRegistry(<<"registry">>, <<>>, NewReference(<<"test", "/", "nginx">>, <<"1">>, <<>>)),
    local |-> AtRegistry(<<"registry">>, <<"5000">>, NewReference(<<"nginx">>, <<"1">>, <<>>)),
    extra |-> NewReference(<<"nginx">>, <<"1">>, <<"b">>) ]

MCContainer == {"web1", "web2", "web3", "web4", "store", "test", "local"}
MCNamespaceOf ==
  [c \in MCContainer |-> CASE c = "web2" -> "ns2" [] c = "web3" -> "ns3" [] c = "web4" -> "ns4"
                        [] OTHER -> "ns1"]
MCAdditional == {"extra"}
MCMatching ==
  UNION {{<<c, p>> : p \in {w \in Includes \cup Excludes : Matches(ContainerOf[c].image, w)}} :
           c \in MCContainer}

\* A ClusterImage is named after one of the containers that have its hash.
MCKeyOf ==
  [c \in MCContainer \cup MCAdditional |->
     CHOOSE d \in MCContainer \cup MCAdditional :
       NameHash(ContainerOf[d]) = NameHash(ContainerOf[c])]
MCKey == MCContainer \cup MCAdditional

-----------------------------------------------------------------------------
\* NormalizeImageName step by step: hyphens, one hyphen for several, none at the ends.
Collapsed(s) ==
  FoldLeft(LAMBDA t, w : IF w = "-" /\ t # <<>> /\ Last(t) = "-" THEN t ELSE Append(t, w),
           <<>>, s)

Trimmed(s) ==
  SubSeq(s, IF s # <<>> /\ Head(s) = "-" THEN 2 ELSE 1,
         IF s # <<>> /\ Last(s) = "-" THEN Len(s) - 1 ELSE Len(s))

\* On every name of up to 6 tokens.
ASSUME NormalizationAssumption ==
  \A name \in BoundedSeq({"1", "a", "-", "@"}, 6) :
    NormalizeImageName(name) = Trimmed(Collapsed(Hyphened(name)))
=============================================================================
