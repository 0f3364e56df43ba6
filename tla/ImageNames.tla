----------------------------- MODULE ImageNames -----------------------------
(***************************************************************************)
(* What the operator makes of the name of an image: its parts              *)
(* (ProcessContainerName in internal/shared/k8s.go), the name of its       *)
(* ClusterImage (nameHash in clusterimageexport_controller.go), the name   *)
(* of its file and whether a pattern matches it (definitions.go).          *)
(*                                                                         *)
(* A name is a sequence of words and separators, and a part of it that is  *)
(* not there is <<>>. What a name should mean is given by the reference r  *)
(* that a workload uses,                                                   *)
(*   [registry[:port]/]path[:tag][@sha256:digest].                         *)
(***************************************************************************)
EXTENDS Naturals, FiniteSets, SequencesExt

CONSTANT Word   \* what stands between the separators of a name

Separator == {"/", ":", "@", "-"}

ASSUME WordAssumption == {"sha256", "latest"} \subseteq Word /\ Word \cap Separator = {}

Reference ==
  { r \in [ registry : Seq(Word \cup {"-"}), port : Seq(Word),
            path : Seq(Word \cup {"/", "-"}), tag : Seq(Word \cup {"-"}),
            digest : Seq(Word) ] : r.path # <<>> }

\* ProcessContainerName takes the port of a registry, and what follows it, for the tag.
Ported(r) == r.registry # <<>> /\ r.port # <<>>

After(separator, part) == IF part = <<>> THEN <<>> ELSE separator \o part

Repository(r) ==
  IF r.registry = <<>> THEN r.path
  ELSE r.registry \o After(<<":">>, r.port) \o <<"/">> \o r.path

Sha(r) == After(<<"sha256", ":">>, r.digest)

Written(r) == Repository(r) \o After(<<":">>, r.tag) \o After(<<"@">>, Sha(r))

\* Without tag and digest the tag is latest.
Parts(r) ==
  [ image |-> Repository(r),
    tag   |-> IF r.tag = <<>> /\ r.digest = <<>> THEN <<"latest">> ELSE r.tag,
    sha   |-> Sha(r) ]

-----------------------------------------------------------------------------
\* strings.SplitN(s, separator, 2): what is before the first one and what is behind.
Split(s, separator) ==
  LET i == SelectInSeq(s, LAMBDA w : w = separator)
  IN IF i = 0 THEN <<s, <<>>>> ELSE <<SubSeq(s, 1, i - 1), SubSeq(s, i + 1, Len(s))>>

\* The container of a name without errors.
ProcessContainerName(name) ==
  LET parts == Split(name, "@")
      imageAndTag == Split(parts[1], ":")
  IN [ image |-> imageAndTag[1],
       tag   |-> IF imageAndTag[2] = <<>> /\ parts[2] = <<>> THEN <<"latest">>
                 ELSE imageAndTag[2],
       sha   |-> parts[2] ]

\* Mutant: the digest is forgotten.
NameHash_NoSha(c) == c.image \o c.tag

\* The text whose hash names the ClusterImage, after the name of the export.
NameHash(c) == c.image \o c.tag \o c.sha

\* Only the separators that a reference can have of those that are replaced.
Hyphened(name) ==
  [i \in DOMAIN name |-> IF name[i] \in {"/", ":", "@"} THEN "-" ELSE name[i]]

\* Of consecutive hyphens the first is kept, and only between words.
Kept(h) ==
  { i \in DOMAIN h : h[i] = "-" => /\ i > 1 /\ h[i - 1] # "-"
                                  /\ \E j \in DOMAIN h : j > i /\ h[j] # "-" }

\* The elements of s at the places I, in order.
Pick(s, I) ==
  [n \in 1 .. Cardinality(I) |-> s[CHOOSE i \in I : Cardinality({j \in I : j <= i}) = n]]

NormalizeImageName(name) == Pick(Hyphened(name), Kept(Hyphened(name)))

\* A name that NormalizeImageName shortens shares its file with others: those tagged
\* 1--2 and 1-2, or v1- and v1. So does one tagged 1-sha256-b, with 1@sha256:b.
Regular(r) ==
  /\ Kept(Hyphened(Written(r))) = DOMAIN Written(r)
  /\ \A i \in DOMAIN r.tag : r.tag[i] # "sha256"

\* strings.Contains, word by word.
Matches(image, pattern) ==
  \E i \in DOMAIN image : image[i] = pattern
=============================================================================
