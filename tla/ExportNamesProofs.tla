-------------------------- MODULE ExportNamesProofs --------------------------
(***************************************************************************)
(* What ProcessContainerName makes of the name of an image, that versions  *)
(* of an image have different hashes and files, and what an export so      *)
(* selects.                                                                *)
(***************************************************************************)
EXTENDS ExportNames, ClusterImageExportReconcilerProofs, FiniteSetTheorems,
        SequenceTheorems

-----------------------------------------------------------------------------
\* Splitting a name at a separator.

LEMMA MinIs ==
  ASSUME NEW I \in SUBSET Nat, NEW m \in I, \A j \in I : m <= j
  PROVE  Min(I) = m
<1>1. \E y \in I : \A z \in I : y <= z OBVIOUS
<1>2. Min(I) \in I /\ \A z \in I : Min(I) <= z BY <1>1 DEF Min
<1>3. m \in Nat /\ Min(I) \in Nat BY <1>2
<1>4. Min(I) <= m /\ m <= Min(I) BY <1>2
<1> QED BY <1>3, <1>4

LEMMA SplitNone ==
  ASSUME NEW S, NEW s \in Seq(S), NEW x, \A i \in 1 .. Len(s) : s[i] # x
  PROVE  Split(s, x) = <<s, <<>>>>
BY DEF Split, SelectInSeq

LEMMA SplitFirst ==
  ASSUME NEW S, NEW a \in Seq(S), NEW b \in Seq(S), NEW x \in S,
         \A i \in 1 .. Len(a) : a[i] # x
  PROVE  Split(a \o (<<x>> \o b), x) = <<a, b>>
<1> DEFINE s == a \o (<<x>> \o b)
           I == {i \in 1 .. Len(s) : s[i] = x}
           m == Len(a) + 1
<1>1. s \in Seq(S) /\ Len(s) = Len(a) + 1 + Len(b) OBVIOUS
<1>2. \A i \in 1 .. Len(a) : s[i] = a[i] OBVIOUS
<1>3. s[m] = x OBVIOUS
<1>4. m \in I /\ \A j \in I : m <= j BY <1>1, <1>2, <1>3
<1>5. Min(I) = m
  <2>1. I \in SUBSET Nat BY <1>1
  <2> HIDE DEF I, s
  <2> QED BY <1>4, <2>1, MinIs
<1>6. SubSeq(s, 1, m - 1) = a BY <1>1, <1>2
<1>7. SubSeq(s, m + 1, Len(s)) = b BY <1>1
<1>8. I # {} /\ m # 0 BY <1>4
<1>9. Split(s, x) = <<SubSeq(s, 1, Min(I) - 1), SubSeq(s, Min(I) + 1, Len(s))>>
  BY <1>5, <1>8 DEF Split, SelectInSeq
<1> QED BY <1>5, <1>6, <1>7, <1>9

-----------------------------------------------------------------------------
\* What the parts of a reference are made of.

Token == Word \cup Separator

LEMMA Tokens ==
  ASSUME NEW S, S \subseteq Token, NEW s \in Seq(S)
  PROVE  s \in Seq(Token)
BY SeqMonotonic

LEMMA TokensJoin == \A s, t, u \in Seq(Token) : (s \o t) \o u = s \o (t \o u)
BY ConcatAssociative

\* The tokens of a sequence that is joined are those of its parts.
LEMMA Without ==
  ASSUME NEW x, NEW s \in Seq(Token \ {x}), NEW t \in Seq(Token \ {x})
  PROVE  s \o t \in Seq(Token \ {x})
BY ConcatProperties

LEMMA PartsOfName ==
  ASSUME NEW r \in Reference
  PROVE  /\ r.registry \in Seq(Token \ {":", "/", "@"}) /\ r.port \in Seq(Token \ {":", "@"})
         /\ r.path \in Seq(Token \ {":", "@"}) /\ r.path # <<>>
         /\ r.tag \in Seq(Token \ {":", "/", "@"}) /\ r.digest \in Seq(Token \ {":", "/", "@"})
         /\ Sha(r) = IF r.digest = <<>> THEN <<>> ELSE <<"sha256", ":">> \o r.digest
         /\ Sha(r) \in Seq(Token)
<1>1. /\ r.registry \in Seq(Word \cup {"-"}) /\ r.port \in Seq(Word)
      /\ r.path \in Seq(Word \cup {"/", "-"}) /\ r.path # <<>>
      /\ r.tag \in Seq(Word \cup {"-"}) /\ r.digest \in Seq(Word)
  BY DEF Reference
<1>2. /\ Word \subseteq Token \ {":", "/", "@"} /\ Word \subseteq Token \ {":", "@"}
      /\ Word \cup {"-"} \subseteq Token \ {":", "/", "@"}
      /\ Word \cup {"/", "-"} \subseteq Token \ {":", "@"}
  BY WordAssumption DEF Token, Separator
<1>3. Sha(r) \in Seq(Token)
  <2>1. <<"sha256", ":">> \in Seq(Token) /\ <<>> \in Seq(Token)
    BY WordAssumption, EmptySeq DEF Token, Separator
  <2>2. r.digest \in Seq(Token) BY <1>1, Tokens DEF Token
  <2>3. <<"sha256", ":">> \o r.digest \in Seq(Token) BY <2>1, <2>2, ConcatProperties
  <2> QED BY <2>1, <2>3 DEF Sha, After
<1>4. \A S, T : S \subseteq T => Seq(S) \subseteq Seq(T) BY SeqMonotonic
<1>5. /\ r.registry \in Seq(Token \ {":", "/", "@"}) /\ r.port \in Seq(Token \ {":", "@"})
      /\ r.path \in Seq(Token \ {":", "@"})
      /\ r.tag \in Seq(Token \ {":", "/", "@"}) /\ r.digest \in Seq(Token \ {":", "/", "@"})
  <2> DEFINE A == Token \ {":", "@"}
             B == Token \ {":", "/", "@"}
             P == Word \cup {"/", "-"}
             L == Word \cup {"-"}
  <2>1. Word \subseteq A /\ P \subseteq A /\ Word \subseteq B /\ L \subseteq B BY <1>2
  <2>2. /\ r.registry \in Seq(L) /\ r.port \in Seq(Word) /\ r.path \in Seq(P)
        /\ r.tag \in Seq(L) /\ r.digest \in Seq(Word)
    BY <1>1
  <2> HIDE DEF A, B, P, L
  <2>3. Seq(Word) \subseteq Seq(A) /\ Seq(P) \subseteq Seq(A) BY <1>4, <2>1
  <2>4. Seq(Word) \subseteq Seq(B) /\ Seq(L) \subseteq Seq(B) BY <1>4, <2>1
  <2>5. /\ r.registry \in Seq(B) /\ r.port \in Seq(A) /\ r.path \in Seq(A)
        /\ r.tag \in Seq(B) /\ r.digest \in Seq(B)
    BY <2>2, <2>3, <2>4
  <2> QED BY <2>5 DEF A, B
<1> QED BY <1>1, <1>3, <1>5 DEF Sha, After

\* Of a ported reference: what follows the first ":" of its repository.
BehindRegistry(r) == r.port \o (<<"/">> \o r.path)

LEMMA RepositoryParts ==
  ASSUME NEW r \in Reference
  PROVE  /\ Repository(r) \in Seq(Token \ {"@"})
         /\ BehindRegistry(r) \in Seq(Token \ {":"}) /\ BehindRegistry(r) # <<>>
         /\ Ported(r) => Repository(r) = r.registry \o (<<":">> \o BehindRegistry(r))
         /\ ~ Ported(r) => Repository(r) \in Seq(Token \ {":"})
<1>1. /\ r.registry \in Seq(Token) /\ r.port \in Seq(Token) /\ r.path \in Seq(Token)
      /\ <<":">> \in Seq(Token) /\ <<"/">> \in Seq(Token)
  BY PartsOfName, Tokens DEF Token, Separator
<1>2. \A x \in {":", "@"} :
        /\ r.registry \in Seq(Token \ {x}) /\ r.port \in Seq(Token \ {x})
        /\ r.path \in Seq(Token \ {x}) /\ <<"/">> \in Seq(Token \ {x})
        /\ <<>> \in Seq(Token \ {x})
  <2>1. \A x \in {":", "@"} : /\ Token \ {":", "/", "@"} \subseteq Token \ {x}
                              /\ Token \ {":", "@"} \subseteq Token \ {x}
    OBVIOUS
  <2>2. \A x \in {":", "@"} : <<"/">> \in Seq(Token \ {x}) BY DEF Token, Separator
  <2>3. \A x \in {":", "@"} : <<>> \in Seq(Token \ {x}) BY EmptySeq
  <2> QED BY <2>1, <2>2, <2>3, PartsOfName, SeqMonotonic
<1>3. \A x \in {":", "@"} :
        /\ <<"/">> \o r.path \in Seq(Token \ {x})
        /\ BehindRegistry(r) \in Seq(Token \ {x})
        /\ r.registry \o (<<"/">> \o r.path) \in Seq(Token \ {x})
  BY <1>2, Without DEF BehindRegistry
<1>4. BehindRegistry(r) # <<>>
  <2> DEFINE p == <<"/">> \o r.path
  <2>1. p \in Seq(Token) /\ p[1] = "/" /\ 1 \in DOMAIN p BY <1>1
  <2> HIDE DEF p
  <2>2. r.port \o p # <<>> BY <1>1, <2>1
  <2> QED BY <2>2 DEF BehindRegistry, p
<1>5. CASE r.registry = <<>>
  <2>1. Repository(r) = r.path /\ ~ Ported(r) BY <1>5 DEF Repository, Ported
  <2> QED BY <1>2, <1>3, <1>4, <2>1
<1>6. CASE r.registry # <<>> /\ r.port = <<>>
  <2>1. Repository(r) = r.registry \o <<>> \o <<"/">> \o r.path BY <1>6 DEF Repository, After
  <2>2. r.registry \o <<>> = r.registry BY <1>1
  <2>3. r.registry \o <<"/">> \o r.path = r.registry \o (<<"/">> \o r.path)
    <3> DEFINE a == r.registry
               b == <<"/">>
               c == r.path
    <3>1. a \in Seq(Token) /\ b \in Seq(Token) /\ c \in Seq(Token) BY <1>1
    <3> HIDE DEF a, b, c
    <3>2. (a \o b) \o c = a \o (b \o c) BY <3>1, TokensJoin
    <3> QED BY <3>2 DEF a, b, c
  <2> QED BY <1>3, <1>4, <1>6, <2>1, <2>2, <2>3 DEF Ported
<1>7. CASE Ported(r)
  <2>1. Repository(r) = r.registry \o (<<":">> \o r.port) \o <<"/">> \o r.path
    BY <1>7 DEF Repository, After, Ported
  <2>2. <<":">> \o r.port \in Seq(Token) /\ <<"/">> \o r.path \in Seq(Token)
    BY <1>1, ConcatProperties
  <2>3. r.registry \o (<<":">> \o r.port) \in Seq(Token) BY <1>1, <2>2, ConcatProperties
  <2>4. Repository(r) = (r.registry \o (<<":">> \o r.port)) \o (<<"/">> \o r.path)
    <3> DEFINE u == r.registry \o (<<":">> \o r.port)
    <3>1. u \in Seq(Token) BY <2>3
    <3> HIDE DEF u
    <3>2. u \o <<"/">> \o r.path = u \o (<<"/">> \o r.path) BY <1>1, <3>1, TokensJoin
    <3> QED BY <2>1, <3>2 DEF u
  <2>5. (r.registry \o (<<":">> \o r.port)) \o (<<"/">> \o r.path)
          = r.registry \o ((<<":">> \o r.port) \o (<<"/">> \o r.path))
    <3> DEFINE u == <<":">> \o r.port
               v == <<"/">> \o r.path
    <3>1. u \in Seq(Token) /\ v \in Seq(Token) BY <2>2
    <3> HIDE DEF u, v
    <3>2. r.registry \in Seq(Token) BY <1>1
    <3>3. (r.registry \o u) \o v = r.registry \o (u \o v) BY <3>1, <3>2, TokensJoin, Zenon
    <3> QED BY <3>3 DEF u, v
  <2>6. (<<":">> \o r.port) \o (<<"/">> \o r.path) = <<":">> \o BehindRegistry(r)
    <3> DEFINE a == <<":">>
               b == r.port
               c == <<"/">> \o r.path
    <3>1. a \in Seq(Token) /\ b \in Seq(Token) /\ c \in Seq(Token) BY <1>1, <2>2
    <3> HIDE DEF a, b, c
    <3>2. (a \o b) \o c = a \o (b \o c) BY <3>1, TokensJoin
    <3> QED BY <3>2 DEF a, b, c, BehindRegistry
  <2>7. <<":">> \in Seq(Token \ {"@"}) BY DEF Token, Separator
  <2>8. r.registry \o (<<":">> \o BehindRegistry(r)) \in Seq(Token \ {"@"})
    BY <1>2, <1>3, <2>7, Without
  <2> QED BY <1>3, <1>4, <1>7, <2>4, <2>5, <2>6, <2>8
<1> QED BY <1>5, <1>6, <1>7 DEF Ported

\* A name has one "@", before its digest.
LEMMA SplitDigest ==
  ASSUME NEW r \in Reference
  PROVE  Split(Written(r), "@") = <<Repository(r) \o After(<<":">>, r.tag), Sha(r)>>
<1> DEFINE tagged == Repository(r) \o After(<<":">>, r.tag)
<1>1. tagged \in Seq(Token \ {"@"})
  <2>1. r.tag \in Seq(Token \ {"@"}) /\ <<":">> \in Seq(Token \ {"@"})
    <3>1. Token \ {":", "/", "@"} \subseteq Token \ {"@"} OBVIOUS
    <3> QED BY <3>1, PartsOfName, SeqMonotonic DEF Token, Separator
  <2>2. After(<<":">>, r.tag) \in Seq(Token \ {"@"}) BY <2>1, Without, EmptySeq DEF After
  <2> QED BY <2>2, RepositoryParts, Without
<1>2. tagged \in Seq(Token) /\ Sha(r) \in Seq(Token) /\ "@" \in Token
  BY <1>1, PartsOfName, SeqMonotonic DEF Token, Separator
<1>3. \A i \in 1 .. Len(tagged) : tagged[i] # "@"
  <2> HIDE DEF tagged
  <2> QED BY <1>1
<1> HIDE DEF tagged
<1>4. CASE Sha(r) = <<>>
  <2>1. Written(r) = tagged BY <1>2, <1>4 DEF Written, After, tagged
  <2> QED BY <1>2, <1>3, <1>4, <2>1, SplitNone DEF tagged
<1>5. CASE Sha(r) # <<>>
  <2>1. Written(r) = tagged \o (<<"@">> \o Sha(r)) BY <1>5 DEF Written, After, tagged
  <2>2. Split(tagged \o (<<"@">> \o Sha(r)), "@") = <<tagged, Sha(r)>>
    BY <1>2, <1>3, SplitFirst
  <2> QED BY <2>1, <2>2 DEF tagged
<1> QED BY <1>4, <1>5

-----------------------------------------------------------------------------
\* ProcessContainerName finds the parts of a reference in its name, unless its registry
\* has a port.

THEOREM NamesAreParsed ==
  ASSUME NEW r \in Reference, ~ Ported(r)
  PROVE  ProcessContainerName(Written(r)) = Parts(r)
<1> DEFINE tagged == Repository(r) \o After(<<":">>, r.tag)
<1>1. /\ Repository(r) \in Seq(Token) /\ r.tag \in Seq(Token) /\ ":" \in Token
      /\ \A i \in 1 .. Len(Repository(r)) : Repository(r)[i] # ":"
  <2>1. Repository(r) \in Seq(Token \ {":"}) /\ r.tag \in Seq(Token)
    BY RepositoryParts, PartsOfName, Tokens
  <2>2. Repository(r) \in Seq(Token) BY <2>1, Tokens
  <2> QED BY <2>1, <2>2 DEF Token, Separator
<1>2. Split(tagged, ":") = <<Repository(r), r.tag>>
  <2>1. CASE r.tag = <<>>
    <3>1. tagged = Repository(r) BY <1>1, <2>1 DEF After
    <3> QED BY <1>1, <2>1, <3>1, SplitNone
  <2>2. CASE r.tag # <<>> BY <1>1, <2>2, SplitFirst DEF After
  <2> QED BY <2>1, <2>2
<1>3. Sha(r) = <<>> <=> r.digest = <<>>
  <2>1. Len(<<"sha256", ":">> \o r.digest) >= 2 BY PartsOfName
  <2> QED BY <2>1, PartsOfName
<1>4. Split(Written(r), "@") = <<tagged, Sha(r)>> BY SplitDigest
<1> HIDE DEF tagged
<1> QED BY <1>2, <1>3, <1>4 DEF ProcessContainerName, Parts

\* A port, and what follows it, is taken for the tag.
THEOREM PortsAreTags ==
  ASSUME NEW r \in Reference, Ported(r)
  PROVE  ProcessContainerName(Written(r)) =
           [ image |-> r.registry, tag |-> BehindRegistry(r) \o After(<<":">>, r.tag),
             sha |-> Sha(r) ]
<1> DEFINE rest == BehindRegistry(r) \o After(<<":">>, r.tag)
           tagged == Repository(r) \o After(<<":">>, r.tag)
<1>1. /\ r.registry \in Seq(Token) /\ r.tag \in Seq(Token) /\ ":" \in Token
      /\ BehindRegistry(r) \in Seq(Token) /\ BehindRegistry(r) # <<>>
      /\ \A i \in 1 .. Len(r.registry) : r.registry[i] # ":"
  <2>1. /\ r.registry \in Seq(Token \ {":", "/", "@"}) /\ r.tag \in Seq(Token)
        /\ BehindRegistry(r) \in Seq(Token \ {":"}) /\ BehindRegistry(r) # <<>>
    BY RepositoryParts, PartsOfName, Tokens
  <2>2. r.registry \in Seq(Token) /\ BehindRegistry(r) \in Seq(Token) BY <2>1, Tokens
  <2>3. \A i \in 1 .. Len(r.registry) : r.registry[i] # ":" BY <2>1
  <2> QED BY <2>1, <2>2, <2>3 DEF Token, Separator
<1>2. After(<<":">>, r.tag) \in Seq(Token) /\ <<":">> \in Seq(Token)
  <2>1. <<":">> \in Seq(Token) BY <1>1
  <2> QED BY <1>1, <2>1, ConcatProperties, EmptySeq DEF After
<1>3. rest \in Seq(Token) /\ rest # <<>>
  <2>1. Len(rest) >= Len(BehindRegistry(r)) /\ Len(BehindRegistry(r)) > 0 BY <1>1, <1>2
  <2>2. rest \in Seq(Token) BY <1>1, <1>2, ConcatProperties
  <2> QED BY <2>1, <2>2
<1>4. tagged = r.registry \o (<<":">> \o rest)
  <2> DEFINE a == r.registry
             b == <<":">>
             c == BehindRegistry(r)
             d == After(<<":">>, r.tag)
  <2>1. tagged = (a \o (b \o c)) \o d BY RepositoryParts
  <2>2. a \in Seq(Token) /\ b \in Seq(Token) /\ c \in Seq(Token) /\ d \in Seq(Token)
    BY <1>1, <1>2
  <2>3. rest = c \o d OBVIOUS
  <2> HIDE DEF a, b, c, d, rest, tagged
  <2>4. b \o c \in Seq(Token) BY <2>2, ConcatProperties
  <2>5. (a \o (b \o c)) \o d = a \o ((b \o c) \o d)
    <3> DEFINE m == b \o c
    <3>1. a \in Seq(Token) /\ m \in Seq(Token) /\ d \in Seq(Token) BY <2>2, <2>4
    <3> HIDE DEF m
    <3>2. (a \o m) \o d = a \o (m \o d) BY <3>1, TokensJoin
    <3> QED BY <3>2 DEF m
  <2>6. (b \o c) \o d = b \o (c \o d) BY <2>2, TokensJoin
  <2>7. tagged = a \o (b \o rest) BY <2>1, <2>3, <2>5, <2>6
  <2> QED BY <2>7 DEF a, b
<1>5. Split(tagged, ":") = <<r.registry, rest>>
  <2> HIDE DEF rest, tagged
  <2> QED BY <1>1, <1>3, <1>4, SplitFirst
<1>6. Split(Written(r), "@") = <<tagged, Sha(r)>> BY SplitDigest
<1> HIDE DEF rest, tagged
<1>7. ProcessContainerName(Written(r)) = [image |-> r.registry, tag |-> rest, sha |-> Sha(r)]
  BY <1>3, <1>5, <1>6 DEF ProcessContainerName
<1> QED BY <1>7 DEF rest

-----------------------------------------------------------------------------
\* Versions of an image have names of their own.

\* nameHash does not separate tag and digest, but the digest starts with its algorithm.
LEMMA TagAndDigest ==
  ASSUME NEW t \in Seq(Token \ {":"}), NEW d \in Seq(Token)
  PROVE  Split(t \o After(<<"sha256", ":">>, d), ":") =
           IF d = <<>> THEN <<t, <<>>>> ELSE <<t \o <<"sha256">>, d>>
<1>1. /\ t \in Seq(Token) /\ d \in Seq(Token) /\ ":" \in Token
      /\ \A i \in 1 .. Len(t) : t[i] # ":"
  BY Tokens, WordAssumption DEF Token, Separator
<1>2. CASE d = <<>> BY <1>1, <1>2, SplitNone DEF After
<1>3. CASE d # <<>>
  <2> DEFINE a == t \o <<"sha256">>
  <2>1. a \in Seq(Token) BY <1>1, WordAssumption DEF Token
  <2>2. \A i \in 1 .. Len(a) : a[i] # ":" BY <1>1
  <2>3. t \o (<<"sha256", ":">> \o d) = a \o (<<":">> \o d)
    <3> DEFINE m == <<"sha256">>
               c == <<":">>
    <3>1. m \in Seq(Token) /\ c \in Seq(Token) BY WordAssumption DEF Token, Separator
    <3>2. <<"sha256", ":">> = m \o c OBVIOUS
    <3> HIDE DEF m, c
    <3>3. (m \o c) \o d = m \o (c \o d) BY <1>1, <3>1, TokensJoin, Zenon
    <3>4. c \o d \in Seq(Token) BY <1>1, <3>1, ConcatProperties
    <3>5. t \o (m \o (c \o d)) = (t \o m) \o (c \o d) BY <1>1, <3>1, <3>4, TokensJoin, Zenon
    <3> QED BY <3>2, <3>3, <3>5 DEF m, c
  <2> HIDE DEF a
  <2>4. Split(a \o (<<":">> \o d), ":") = <<a, d>> BY <1>1, <2>1, <2>2, SplitFirst
  <2> QED BY <1>3, <2>3, <2>4 DEF After, a
<1> QED BY <1>2, <1>3

LEMMA SameTagAndDigest ==
  ASSUME NEW t \in Seq(Token \ {":"}), NEW d \in Seq(Token),
         NEW u \in Seq(Token \ {":"}), NEW e \in Seq(Token),
         t \o After(<<"sha256", ":">>, d) = u \o After(<<"sha256", ":">>, e)
  PROVE  t = u /\ d = e
<1>1. /\ d = <<>> => e = <<>> /\ t = u
      /\ d # <<>> => e = d /\ t \o <<"sha256">> = u \o <<"sha256">>
  <2> DEFINE Halves(v, f) == IF f = <<>> THEN <<v, <<>>>> ELSE <<v \o <<"sha256">>, f>>
  <2>1. Halves(t, d) = Halves(u, e) BY TagAndDigest
  <2>2. CASE d = <<>> BY <2>1, <2>2
  <2>3. CASE d # <<>> BY <2>1, <2>3
  <2> QED BY <2>2, <2>3
<1>2. t \o <<"sha256">> = u \o <<"sha256">> => t = u
  <2>1. <<"sha256">> \in Seq(Token) BY WordAssumption DEF Token
  <2>2. t \in Seq(Token) /\ u \in Seq(Token) BY Tokens
  <2> QED BY <2>1, <2>2, ConcatSimplifications
<1> QED BY <1>1, <1>2

\* Behind a port the tag keeps its ":".
LEMMA SameMarkedTagAndDigest ==
  ASSUME NEW t \in Seq(Token \ {":"}), NEW d \in Seq(Token),
         NEW u \in Seq(Token \ {":"}), NEW e \in Seq(Token),
         After(<<":">>, t) \o After(<<"sha256", ":">>, d)
           = After(<<":">>, u) \o After(<<"sha256", ":">>, e)
  PROVE  t = u /\ d = e
<1> DEFINE Digest(f) == After(<<"sha256", ":">>, f)
           Both(v, f) == After(<<":">>, v) \o Digest(f)
<1>1. \A f \in Seq(Token) : /\ Digest(f) \in Seq(Token)
                            /\ Digest(f) = <<>> \/ Digest(f)[1] # ":"
  <2> TAKE f \in Seq(Token)
  <2>1. <<"sha256", ":">> \in Seq(Token) BY WordAssumption DEF Token, Separator
  <2>2. <<"sha256", ":">> \o f \in Seq(Token) /\ (<<"sha256", ":">> \o f)[1] = "sha256"
    BY <2>1
  <2>3. <<>> \in Seq(Token) BY EmptySeq
  <2> QED BY <2>2, <2>3 DEF After
<1>2. <<":">> \in Seq(Token) BY DEF Token, Separator
<1>3. ASSUME NEW v \in Seq(Token \ {":"}), NEW f \in Seq(Token)
      PROVE  /\ v = <<>> => Both(v, f) = Digest(f)
             /\ v # <<>> => /\ v \o Digest(f) \in Seq(Token)
                            /\ Both(v, f) = <<":">> \o (v \o Digest(f))
                            /\ Both(v, f) # <<>> /\ Both(v, f)[1] = ":"
  <2>1. v \in Seq(Token) /\ Digest(f) \in Seq(Token) BY <1>1, Tokens
  <2> HIDE DEF Digest
  <2>2. CASE v = <<>> BY <2>1, <2>2 DEF After
  <2>3. CASE v # <<>>
    <3>1. Both(v, f) = (<<":">> \o v) \o Digest(f) BY <2>3 DEF After
    <3>2. (<<":">> \o v) \o Digest(f) = <<":">> \o (v \o Digest(f))
      BY <1>2, <2>1, TokensJoin, Zenon
    <3>3. v \o Digest(f) \in Seq(Token) BY <2>1, ConcatProperties
    <3> HIDE DEF Both
    <3>4. Both(v, f) = <<":">> \o (v \o Digest(f)) BY <3>1, <3>2
    <3>5. \A s \in Seq(Token) : <<":">> \o s # <<>> /\ (<<":">> \o s)[1] = ":" OBVIOUS
    <3> QED BY <2>3, <3>3, <3>4, <3>5
  <2> QED BY <2>2, <2>3
<1> HIDE DEF Digest, Both
<1>4. /\ Both(t, d) = Both(u, e)
      /\ t = <<>> => Both(t, d) = Digest(d)
      /\ u = <<>> => Both(u, e) = Digest(e)
      /\ t # <<>> => /\ t \o Digest(d) \in Seq(Token)
                     /\ Both(t, d) = <<":">> \o (t \o Digest(d))
                     /\ Both(t, d) # <<>> /\ Both(t, d)[1] = ":"
      /\ u # <<>> => /\ u \o Digest(e) \in Seq(Token)
                     /\ Both(u, e) = <<":">> \o (u \o Digest(e))
                     /\ Both(u, e) # <<>> /\ Both(u, e)[1] = ":"
  <2>1. Both(t, d) = Both(u, e) BY DEF Both, Digest
  <2> QED BY <1>3, <2>1
<1>5. /\ Digest(d) = <<>> \/ Digest(d)[1] # ":"
      /\ Digest(e) = <<>> \/ Digest(e)[1] # ":"
  BY <1>1
<1>6. t \o Digest(d) = u \o Digest(e)
  <2>1. CASE t = <<>> /\ u = <<>> BY <1>4, <2>1
  <2>2. CASE t # <<>> /\ u # <<>>
    <3>1. <<":">> \o (t \o Digest(d)) = <<":">> \o (u \o Digest(e)) BY <1>4, <2>2, Zenon
    <3>2. t \o Digest(d) \in Seq(Token) /\ u \o Digest(e) \in Seq(Token) BY <1>4, <2>2, Zenon
    <3> QED BY <1>2, <3>1, <3>2, ConcatSimplifications, Zenon
  <2>3. CASE (t = <<>>) # (u = <<>>) BY <1>4, <1>5, <2>3
  <2> QED BY <2>1, <2>2, <2>3
<1>7. t \o After(<<"sha256", ":">>, d) = u \o After(<<"sha256", ":">>, e) BY <1>6 DEF Digest
<1> QED BY <1>7, SameTagAndDigest

\* What is hashed before the tag, and the tag in it.
HashBase(r) == IF Ported(r) THEN r.registry \o BehindRegistry(r) ELSE Repository(r)
HashTag(r) == IF Ported(r) THEN After(<<":">>, r.tag) ELSE Parts(r).tag

LEMMA HashParts ==
  ASSUME NEW r \in Reference
  PROVE  /\ HashBase(r) \in Seq(Token) /\ HashTag(r) \in Seq(Token)
         /\ NameHash(ProcessContainerName(Written(r))) = HashBase(r) \o (HashTag(r) \o Sha(r))
<1>1. /\ r.registry \in Seq(Token) /\ r.tag \in Seq(Token) /\ Sha(r) \in Seq(Token)
      /\ BehindRegistry(r) \in Seq(Token) /\ Repository(r) \in Seq(Token)
  <2>1. /\ r.registry \in Seq(Token \ {":", "/", "@"}) /\ r.tag \in Seq(Token \ {":", "/", "@"})
        /\ BehindRegistry(r) \in Seq(Token \ {":"}) /\ Repository(r) \in Seq(Token \ {"@"})
    BY PartsOfName, RepositoryParts
  <2> QED BY <2>1, PartsOfName, Tokens
<1>2. After(<<":">>, r.tag) \in Seq(Token) /\ Parts(r).tag \in Seq(Token)
  <2>1. <<":">> \in Seq(Token) /\ <<"latest">> \in Seq(Token)
    BY WordAssumption DEF Token, Separator
  <2>2. <<":">> \o r.tag \in Seq(Token) BY <1>1, <2>1, ConcatProperties
  <2> QED BY <1>1, <2>1, <2>2, EmptySeq DEF After, Parts
<1>3. CASE Ported(r)
  <2> DEFINE a == After(<<":">>, r.tag)
             b == BehindRegistry(r)
  <2>1. NameHash(ProcessContainerName(Written(r))) = (r.registry \o (b \o a)) \o Sha(r)
    <3>1. ProcessContainerName(Written(r)) = [image |-> r.registry, tag |-> b \o a, sha |-> Sha(r)]
      BY <1>3, PortsAreTags
    <3> HIDE DEF a, b
    <3>2. NameHash([image |-> r.registry, tag |-> b \o a, sha |-> Sha(r)])
            = (r.registry \o (b \o a)) \o Sha(r)
      BY DEF NameHash
    <3> QED BY <3>1, <3>2
  <2>2. a \in Seq(Token) /\ b \in Seq(Token) /\ r.registry \in Seq(Token) /\ Sha(r) \in Seq(Token)
    BY <1>1, <1>2
  <2> HIDE DEF a, b
  <2>3. r.registry \o b \in Seq(Token) BY <2>2, ConcatProperties
  <2>4. r.registry \o (b \o a) = (r.registry \o b) \o a BY <2>2, TokensJoin, Zenon
  <2>5. ((r.registry \o b) \o a) \o Sha(r) = (r.registry \o b) \o (a \o Sha(r))
    BY <2>2, <2>3, TokensJoin, Zenon
  <2> QED BY <1>3, <2>1, <2>2, <2>3, <2>4, <2>5 DEF HashBase, HashTag, a, b
<1>4. CASE ~ Ported(r)
  <2>1. NameHash(ProcessContainerName(Written(r))) = (Repository(r) \o Parts(r).tag) \o Sha(r)
    <3>1. ProcessContainerName(Written(r)) = Parts(r) BY <1>4, NamesAreParsed
    <3>2. Parts(r).image = Repository(r) /\ Parts(r).sha = Sha(r) BY DEF Parts
    <3> QED BY <3>1, <3>2 DEF NameHash
  <2>2. (Repository(r) \o Parts(r).tag) \o Sha(r) = Repository(r) \o (Parts(r).tag \o Sha(r))
    BY <1>1, <1>2, TokensJoin, Zenon
  <2> QED BY <1>1, <1>2, <1>4, <2>1, <2>2 DEF HashBase, HashTag
<1> QED BY <1>3, <1>4

LEMMA SameRepository ==
  ASSUME NEW r \in Reference, NEW s \in Reference, Repository(r) = Repository(s)
  PROVE  (Ported(r) <=> Ported(s)) /\ HashBase(r) = HashBase(s)
<1>1. ASSUME NEW q \in Reference
      PROVE  Split(Repository(q), ":") =
               IF Ported(q) THEN <<q.registry, BehindRegistry(q)>> ELSE <<Repository(q), <<>>>>
  <2>1. CASE Ported(q)
    <3>1. /\ q.registry \in Seq(Token \ {":", "/", "@"})
          /\ BehindRegistry(q) \in Seq(Token \ {":"})
      BY PartsOfName, RepositoryParts
    <3>2. /\ q.registry \in Seq(Token) /\ BehindRegistry(q) \in Seq(Token) /\ ":" \in Token
          /\ \A i \in 1 .. Len(q.registry) : q.registry[i] # ":"
      BY <3>1, Tokens DEF Token, Separator
    <3>3. Repository(q) = q.registry \o (<<":">> \o BehindRegistry(q))
      BY <2>1, RepositoryParts
    <3>4. Split(q.registry \o (<<":">> \o BehindRegistry(q)), ":")
            = <<q.registry, BehindRegistry(q)>>
      BY <3>2, SplitFirst
    <3> QED BY <2>1, <3>3, <3>4
  <2>2. CASE ~ Ported(q)
    <3>1. Repository(q) \in Seq(Token \ {":"}) BY <2>2, RepositoryParts
    <3>2. Repository(q) \in Seq(Token) /\ \A i \in 1 .. Len(Repository(q)) : Repository(q)[i] # ":"
      BY <3>1, Tokens
    <3> QED BY <2>2, <3>2, SplitNone
  <2> QED BY <2>1, <2>2
<1>2. BehindRegistry(r) # <<>> /\ BehindRegistry(s) # <<>> BY RepositoryParts
<1>3. /\ Split(Repository(r), ":") =
           IF Ported(r) THEN <<r.registry, BehindRegistry(r)>> ELSE <<Repository(r), <<>>>>
      /\ Split(Repository(r), ":") =
           IF Ported(s) THEN <<s.registry, BehindRegistry(s)>> ELSE <<Repository(s), <<>>>>
  BY <1>1
<1>4. CASE Ported(r)
  <2>1. Ported(s) BY <1>2, <1>3, <1>4
  <2>2. r.registry = s.registry /\ BehindRegistry(r) = BehindRegistry(s) BY <1>3, <1>4, <2>1
  <2> QED BY <1>4, <2>1, <2>2 DEF HashBase
<1>5. CASE ~ Ported(r)
  <2>1. ~ Ported(s) BY <1>2, <1>3, <1>5
  <2> QED BY <1>5, <2>1 DEF HashBase
<1> QED BY <1>4, <1>5

THEOREM VersionsHaveHashes ==
  ASSUME NEW r \in Reference, NEW s \in Reference,
         Repository(r) = Repository(s),
         NameHash(ProcessContainerName(Written(r))) = NameHash(ProcessContainerName(Written(s)))
  PROVE  Parts(r) = Parts(s)
<1>1. HashTag(r) \o Sha(r) = HashTag(s) \o Sha(s)
  <2>1. /\ HashTag(r) \o Sha(r) \in Seq(Token) /\ HashTag(s) \o Sha(s) \in Seq(Token)
        /\ HashBase(r) \in Seq(Token)
    BY HashParts, PartsOfName, ConcatProperties
  <2>2. HashBase(r) \o (HashTag(r) \o Sha(r)) = HashBase(r) \o (HashTag(s) \o Sha(s))
    BY HashParts, SameRepository
  <2> QED BY <2>1, <2>2, ConcatSimplifications, Zenon
<1>2. ASSUME NEW q \in Reference
      PROVE  /\ q.tag \in Seq(Token \ {":"}) /\ q.digest \in Seq(Token)
             /\ Parts(q).tag \in Seq(Token \ {":"})
             /\ Sha(q) = After(<<"sha256", ":">>, q.digest)
  <2>1. q.tag \in Seq(Token \ {":", "/", "@"}) /\ q.digest \in Seq(Token \ {":", "/", "@"})
    BY PartsOfName
  <2>2. q.tag \in Seq(Token \ {":"})
    <3>1. Token \ {":", "/", "@"} \subseteq Token \ {":"} OBVIOUS
    <3> QED BY <2>1, <3>1, SeqMonotonic
  <2>3. q.digest \in Seq(Token) BY <2>1, Tokens
  <2>4. Parts(q).tag \in Seq(Token \ {":"})
    <3>1. <<"latest">> \in Seq(Token \ {":"}) BY WordAssumption DEF Token, Separator
    <3> QED BY <2>2, <3>1 DEF Parts
  <2> QED BY <2>2, <2>3, <2>4 DEF Sha
<1>3. CASE Ported(r)
  <2>1. Ported(s) BY <1>3, SameRepository
  <2>2. After(<<":">>, r.tag) \o Sha(r) = After(<<":">>, s.tag) \o Sha(s)
    BY <1>1, <1>3, <2>1 DEF HashTag
  <2>3. After(<<":">>, r.tag) \o After(<<"sha256", ":">>, r.digest)
          = After(<<":">>, s.tag) \o After(<<"sha256", ":">>, s.digest)
    BY <2>2 DEF Sha
  <2>4. r.tag = s.tag /\ r.digest = s.digest BY <1>2, <2>3, SameMarkedTagAndDigest
  <2> QED BY <2>4 DEF Parts, Sha
<1>4. CASE ~ Ported(r)
  <2>1. ~ Ported(s) BY <1>4, SameRepository
  <2>2. Parts(r).tag \o Sha(r) = Parts(s).tag \o Sha(s) BY <1>1, <1>4, <2>1 DEF HashTag
  <2>3. Parts(r).tag \o After(<<"sha256", ":">>, r.digest)
          = Parts(s).tag \o After(<<"sha256", ":">>, s.digest)
    BY <2>2 DEF Sha
  <2>4. Parts(r).tag = Parts(s).tag /\ r.digest = s.digest BY <1>2, <2>3, SameTagAndDigest
  <2> QED BY <2>4 DEF Parts, Sha
<1> QED BY <1>3, <1>4

-----------------------------------------------------------------------------
\* Versions of an image have files of their own, if their names are regular.

\* Nothing of a regular name is dropped.
LEMMA RegularIsHyphened ==
  ASSUME NEW r \in Reference, Regular(r)
  PROVE  NormalizeImageName(Written(r)) = Hyphened(Written(r))
<1> DEFINE h == Hyphened(Written(r))
           N == Len(Written(r))
<1>1. Written(r) \in Seq(Token)
  <2>1. /\ Repository(r) \in Seq(Token \ {"@"}) /\ r.tag \in Seq(Token \ {":", "/", "@"})
        /\ Sha(r) \in Seq(Token)
    BY PartsOfName, RepositoryParts
  <2>2. /\ Repository(r) \in Seq(Token) /\ r.tag \in Seq(Token)
        /\ <<":">> \in Seq(Token) /\ <<"@">> \in Seq(Token)
    BY <2>1, Tokens DEF Token, Separator
  <2>3. After(<<":">>, r.tag) \in Seq(Token) /\ After(<<"@">>, Sha(r)) \in Seq(Token)
    BY <2>1, <2>2, ConcatProperties, EmptySeq DEF After
  <2> QED BY <2>2, <2>3, ConcatProperties DEF Written
<1>2. DOMAIN Written(r) = 1 .. N /\ N \in Nat BY <1>1
<1>3. h = [i \in 1 .. N |-> h[i]] /\ Kept(h) = 1 .. N BY <1>2 DEF Regular, Hyphened
<1>4. \A k \in Nat : Cardinality(1 .. k) = k
  <2> TAKE k \in Nat
  <2>1. Cardinality(1 .. k) = IF 1 > k THEN 0 ELSE k - 1 + 1 BY FS_Interval
  <2> QED BY <2>1
<1>5. ASSUME NEW n \in 1 .. N
      PROVE  (CHOOSE i \in 1 .. N : Cardinality({j \in 1 .. N : j <= i}) = n) = n
  <2>1. ASSUME NEW i \in 1 .. N PROVE Cardinality({j \in 1 .. N : j <= i}) = i
    <3>1. {j \in 1 .. N : j <= i} = 1 .. i BY <1>2
    <3>2. i \in Nat BY <1>2
    <3> QED BY <1>4, <3>1, <3>2
  <2> QED BY <2>1
<1> HIDE DEF h, N
<1>6. Pick(h, 1 .. N) = [n \in 1 .. N |-> h[n]]
  <2> DEFINE C(n) == CHOOSE i \in 1 .. N : Cardinality({j \in 1 .. N : j <= i}) = n
  <2>1. Pick(h, 1 .. N) = [n \in 1 .. Cardinality(1 .. N) |-> h[C(n)]] BY DEF Pick
  <2>2. Cardinality(1 .. N) = N BY <1>2, <1>4
  <2>3. \A n \in 1 .. N : C(n) = n BY <1>5
  <2> HIDE DEF C
  <2> QED BY <2>1, <2>2, <2>3
<1>7. NormalizeImageName(Written(r)) = Pick(h, Kept(h)) BY DEF NormalizeImageName, h
<1> QED BY <1>3, <1>6, <1>7 DEF h

LEMMA HyphenedConcat ==
  ASSUME NEW s \in Seq(Token), NEW t \in Seq(Token)
  PROVE  /\ Hyphened(s) \in Seq(Token)
         /\ Hyphened(s \o t) = Hyphened(s) \o Hyphened(t)
<1>1. ASSUME NEW v \in Seq(Token)
      PROVE  /\ Hyphened(v) \in Seq(Token)
             /\ Len(Hyphened(v)) = Len(v)
             /\ \A i \in 1 .. Len(v) :
                  Hyphened(v)[i] = IF v[i] \in {"/", ":", "@"} THEN "-" ELSE v[i]
  BY DEF Hyphened, Token, Separator
<1> DEFINE n == Hyphened(s)
           m == Hyphened(t)
           c == Hyphened(s \o t)
<1>2. /\ s \o t \in Seq(Token)
      /\ Len(s \o t) = Len(s) + Len(t)
      /\ \A i \in 1 .. Len(s) + Len(t) :
           (s \o t)[i] = IF i <= Len(s) THEN s[i] ELSE t[i - Len(s)]
  BY ConcatProperties
<1>3. /\ n \in Seq(Token) /\ Len(n) = Len(s)
      /\ m \in Seq(Token) /\ Len(m) = Len(t)
      /\ c \in Seq(Token) /\ Len(c) = Len(s \o t)
  BY <1>1, <1>2
<1>4. /\ n \o m \in Seq(Token)
      /\ Len(n \o m) = Len(s) + Len(t)
      /\ \A i \in 1 .. Len(s) + Len(t) :
           (n \o m)[i] = IF i <= Len(s) THEN n[i] ELSE m[i - Len(s)]
  <2> HIDE DEF n, m
  <2> QED BY <1>3, ConcatProperties
<1>5. ASSUME NEW i \in 1 .. Len(c) PROVE c[i] = (n \o m)[i]
  <2>1. i \in 1 .. Len(s) + Len(t) BY <1>2, <1>3
  <2>2. c[i] = IF (s \o t)[i] \in {"/", ":", "@"} THEN "-" ELSE (s \o t)[i]
    BY <1>1, <1>2, <2>1
  <2>3. CASE i <= Len(s)
    <3>1. i \in 1 .. Len(s) BY <2>1, <2>3
    <3>2. (s \o t)[i] = s[i] BY <1>2, <2>1, <2>3
    <3>3. n[i] = IF s[i] \in {"/", ":", "@"} THEN "-" ELSE s[i] BY <1>1, <3>1
    <3>4. (n \o m)[i] = n[i] BY <1>4, <2>1, <2>3
    <3> QED BY <2>2, <3>2, <3>3, <3>4
  <2>4. CASE ~ (i <= Len(s))
    <3>1. i - Len(s) \in 1 .. Len(t) BY <2>1, <2>4
    <3>2. (s \o t)[i] = t[i - Len(s)] BY <1>2, <2>1, <2>4
    <3>3. m[i - Len(s)] = IF t[i - Len(s)] \in {"/", ":", "@"} THEN "-" ELSE t[i - Len(s)]
      BY <1>1, <3>1
    <3>4. (n \o m)[i] = m[i - Len(s)] BY <1>4, <2>1, <2>4
    <3> QED BY <2>2, <3>2, <3>3, <3>4
  <2> QED BY <2>3, <2>4
<1>6. c = n \o m
  <2> HIDE DEF n, m, c
  <2>1. Len(c) = Len(n \o m) BY <1>2, <1>3, <1>4
  <2> QED BY <1>3, <1>4, <1>5, <2>1, SeqEqual
<1> QED BY <1>3, <1>6

LEMMA HyphenedPart ==
  ASSUME NEW s \in Seq(Token \ {":", "/", "@"})
  PROVE  Hyphened(s) = s
BY DEF Hyphened

\* What follows the repository in the name of a file.
FileSuffix(r) == After(<<"-">>, r.tag) \o After(<<"-", "sha256", "-">>, r.digest)

LEMMA HyphenedAfter ==
  ASSUME NEW x \in {":", "@"}, NEW s \in Seq(Token)
  PROVE  /\ After(<<x>>, s) \in Seq(Token)
         /\ Hyphened(After(<<x>>, s)) = After(<<"-">>, Hyphened(s))
<1>1. <<x>> \in Seq(Token) /\ <<"-">> \in Seq(Token) BY DEF Token, Separator
<1>2. Hyphened(<<x>>) = <<"-">> BY DEF Hyphened
<1>3. <<x>> \o s \in Seq(Token) BY <1>1, ConcatProperties
<1>4. Hyphened(<<x>> \o s) = <<"-">> \o Hyphened(s)
  <2>1. Hyphened(<<x>> \o s) = Hyphened(<<x>>) \o Hyphened(s)
    BY <1>1, HyphenedConcat
  <2> QED BY <1>2, <2>1
<1>5. Hyphened(s) = <<>> <=> s = <<>> BY DEF Hyphened
<1>6. CASE s = <<>> BY <1>5, <1>6, EmptySeq DEF After
<1>7. CASE s # <<>> BY <1>3, <1>4, <1>5, <1>7 DEF After
<1> QED BY <1>6, <1>7

LEMMA HyphenedDigest ==
  ASSUME NEW d \in Seq(Token \ {":", "/", "@"})
  PROVE  After(<<"-">>, Hyphened(After(<<"sha256", ":">>, d))) =
           After(<<"-", "sha256", "-">>, d)
<1>1. d \in Seq(Token) /\ <<"sha256", ":">> \in Seq(Token)
  BY Tokens, WordAssumption DEF Token, Separator
<1>2. Hyphened(<<"sha256", ":">>) = <<"sha256", "-">> BY DEF Hyphened
<1>3. Hyphened(<<"sha256", ":">> \o d) = <<"sha256", "-">> \o d
  <2>1. Hyphened(d) = d BY HyphenedPart
  <2>2. Hyphened(<<"sha256", ":">> \o d)
          = Hyphened(<<"sha256", ":">>) \o Hyphened(d)
    BY <1>1, HyphenedConcat
  <2> QED BY <1>2, <2>1, <2>2
<1>4. <<"sha256", "-">> \o d # <<>> BY <1>1
<1>5. <<"-">> \o (<<"sha256", "-">> \o d) = <<"-", "sha256", "-">> \o d BY <1>1
<1>6. CASE d = <<>>
  <2>1. Hyphened(<<>>) = <<>> BY DEF Hyphened
  <2> QED BY <1>6, <2>1 DEF After
<1>7. CASE d # <<>> BY <1>3, <1>4, <1>5, <1>7 DEF After
<1> QED BY <1>6, <1>7

LEMMA FileName ==
  ASSUME NEW r \in Reference
  PROVE  /\ Hyphened(Repository(r)) \in Seq(Token)
         /\ FileSuffix(r) \in Seq(Token)
         /\ Hyphened(Written(r)) =
              Hyphened(Repository(r)) \o FileSuffix(r)
<1> DEFINE R == Repository(r)
           T == After(<<":">>, r.tag)
           D == After(<<"@">>, Sha(r))
<1>1. /\ R \in Seq(Token) /\ r.tag \in Seq(Token) /\ Sha(r) \in Seq(Token)
      /\ r.tag \in Seq(Token \ {":", "/", "@"}) /\ r.digest \in Seq(Token \ {":", "/", "@"})
  <2>1. /\ R \in Seq(Token \ {"@"}) /\ r.tag \in Seq(Token \ {":", "/", "@"})
        /\ r.digest \in Seq(Token \ {":", "/", "@"}) /\ Sha(r) \in Seq(Token)
    BY PartsOfName, RepositoryParts
  <2>2. R \in Seq(Token) /\ r.tag \in Seq(Token) BY <2>1, Tokens
  <2> QED BY <2>1, <2>2
<1>2. /\ T \in Seq(Token) /\ D \in Seq(Token)
      /\ Hyphened(T) = After(<<"-">>, r.tag)
      /\ Hyphened(D) = After(<<"-", "sha256", "-">>, r.digest)
  BY <1>1, HyphenedAfter, HyphenedPart, HyphenedDigest DEF Sha
<1>3. Written(r) = R \o (T \o D)
  <2>1. Written(r) = (R \o T) \o D BY DEF Written
  <2>2. R \in Seq(Token) /\ T \in Seq(Token) /\ D \in Seq(Token) BY <1>1, <1>2
  <2> HIDE DEF R, T, D
  <2>3. (R \o T) \o D = R \o (T \o D) BY <2>2, TokensJoin
  <2> QED BY <2>1, <2>3
<1> HIDE DEF R, T, D
<1>4. T \o D \in Seq(Token) BY <1>2, ConcatProperties
<1>5. Hyphened(T \o D) = FileSuffix(r)
  BY <1>2, HyphenedConcat DEF FileSuffix
<1>6. FileSuffix(r) \in Seq(Token)
  <2>1. <<>> \in Seq(Token) BY EmptySeq
  <2>2. Hyphened(T \o D) \in Seq(Token) BY <1>4, <2>1, HyphenedConcat
  <2> QED BY <1>5, <2>2
<1>7. Hyphened(R \o (T \o D)) = Hyphened(R) \o Hyphened(T \o D)
  BY <1>1, <1>4, HyphenedConcat
<1>8. Hyphened(R) \in Seq(Token) BY <1>1, HyphenedConcat
<1> QED BY <1>3, <1>5, <1>6, <1>7, <1>8 DEF R

\* Only a digest has the word sha256 before it.
LEMMA SplitSuffix ==
  ASSUME NEW r \in Reference, Regular(r)
  PROVE  /\ After(<<"-">>, r.tag) \in Seq(Token) /\ r.digest \in Seq(Token)
         /\ Split(FileSuffix(r), "sha256") =
              IF r.digest = <<>> THEN <<After(<<"-">>, r.tag), <<>>>>
              ELSE <<After(<<"-">>, r.tag) \o <<"-">>, <<"-">> \o r.digest>>
<1> DEFINE t == After(<<"-">>, r.tag)
           d == r.digest
           m == <<"-">>
           w == <<"sha256">>
<1>1. m \in Seq(Token) /\ w \in Seq(Token) /\ "sha256" \in Token
  BY WordAssumption DEF Token, Separator
<1>2. r.tag \in Seq(Token) /\ d \in Seq(Token) BY PartsOfName, Tokens
<1>3. t \in Seq(Token) BY <1>1, <1>2, ConcatProperties, EmptySeq DEF After
<1>4. \A i \in 1 .. Len(t) : t[i] # "sha256"
  <2>1. \A i \in 1 .. Len(r.tag) : r.tag[i] # "sha256" BY <1>2 DEF Regular
  <2>2. CASE r.tag = <<>> BY <2>2 DEF After
  <2>3. CASE r.tag # <<>>
    <3>1. t = <<"-">> \o r.tag BY <2>3 DEF After
    <3> HIDE DEF t
    <3> QED BY <1>2, <2>1, <3>1
  <2> QED BY <2>2, <2>3
<1> HIDE DEF t
<1>5. CASE d = <<>>
  <2>1. FileSuffix(r) = t BY <1>3, <1>5 DEF FileSuffix, After, t
  <2> QED BY <1>2, <1>3, <1>4, <1>5, <2>1, SplitNone DEF t
<1>6. CASE d # <<>>
  <2>1. FileSuffix(r) = t \o (<<"-", "sha256", "-">> \o d)
    BY <1>6 DEF FileSuffix, After, t
  <2>2. <<"-", "sha256", "-">> \o d = m \o (w \o (m \o d)) BY <1>2
  <2> DEFINE b == m \o d
             a == t \o m
  <2>3. a \in Seq(Token) /\ b \in Seq(Token) /\ w \o b \in Seq(Token)
    BY <1>1, <1>2, <1>3, ConcatProperties
  <2>4. \A i \in 1 .. Len(a) : a[i] # "sha256" BY <1>3, <1>4
  <2> HIDE DEF m, w
  <2>5. t \o (m \o (w \o b)) = a \o (w \o b) BY <1>1, <1>3, <2>3, TokensJoin, Zenon
  <2> HIDE DEF a, b
  <2>6. Split(a \o (w \o b), "sha256") = <<a, b>> BY <1>1, <2>3, <2>4, SplitFirst DEF w
  <2> QED BY <1>2, <1>3, <1>6, <2>1, <2>2, <2>5, <2>6 DEF a, b, m, t
<1> QED BY <1>5, <1>6

LEMMA SameSuffix ==
  ASSUME NEW r \in Reference, NEW s \in Reference, Regular(r), Regular(s),
         FileSuffix(r) = FileSuffix(s)
  PROVE  r.tag = s.tag /\ r.digest = s.digest
<1> DEFINE t(q) == After(<<"-">>, q.tag)
<1>1. <<"-">> \in Seq(Token) BY DEF Token, Separator
<1>2. ASSUME NEW q \in Reference PROVE q.tag \in Seq(Token) BY PartsOfName, Tokens
<1>3. /\ t(r) \in Seq(Token) /\ t(s) \in Seq(Token)
      /\ r.digest \in Seq(Token) /\ s.digest \in Seq(Token)
      /\ (IF r.digest = <<>> THEN <<t(r), <<>>>> ELSE <<t(r) \o <<"-">>, <<"-">> \o r.digest>>)
           = IF s.digest = <<>> THEN <<t(s), <<>>>> ELSE <<t(s) \o <<"-">>, <<"-">> \o s.digest>>
  BY SplitSuffix
<1>4. <<"-">> \o r.digest # <<>> /\ <<"-">> \o s.digest # <<>> BY <1>3
<1> HIDE DEF t
<1>5. t(r) = t(s) /\ r.digest = s.digest
  <2>1. CASE r.digest = <<>> \/ s.digest = <<>> BY <1>3, <1>4, <2>1
  <2>2. CASE r.digest # <<>> /\ s.digest # <<>>
    <3>1. t(r) \o <<"-">> = t(s) \o <<"-">> /\ <<"-">> \o r.digest = <<"-">> \o s.digest
      BY <1>3, <2>2
    <3> QED BY <1>1, <1>3, <3>1, ConcatSimplifications, Zenon
  <2> QED BY <2>1, <2>2
<1>6. r.tag = s.tag
  <2>1. r.tag \in Seq(Token) /\ s.tag \in Seq(Token) BY <1>2
  <2>2. <<"-">> \o r.tag # <<>> /\ <<"-">> \o s.tag # <<>> BY <2>1
  <2>3. <<"-">> \o r.tag = <<"-">> \o s.tag => r.tag = s.tag
    BY <1>1, <2>1, ConcatSimplifications, Zenon
  <2>4. After(<<"-">>, r.tag) = After(<<"-">>, s.tag) BY <1>5 DEF t
  <2> QED BY <2>2, <2>3, <2>4 DEF After
<1> QED BY <1>5, <1>6

\* The file of an image is named after its name as the workload wrote it, its port
\* included (NormalizeImageName of FullName).
THEOREM VersionsHaveFiles ==
  ASSUME NEW r \in Reference, NEW s \in Reference, Regular(r), Regular(s),
         Repository(r) = Repository(s),
         NormalizeImageName(Written(r)) = NormalizeImageName(Written(s))
  PROVE  Parts(r) = Parts(s)
<1>1. FileSuffix(r) = FileSuffix(s)
  <2>1. /\ Hyphened(Repository(r)) \in Seq(Token)
        /\ FileSuffix(r) \in Seq(Token) /\ FileSuffix(s) \in Seq(Token)
    BY FileName
  <2>2. Hyphened(Written(r)) = Hyphened(Written(s)) BY RegularIsHyphened
  <2>3. Hyphened(Repository(r)) \o FileSuffix(r) = Hyphened(Repository(r)) \o FileSuffix(s)
    BY <2>2, FileName
  <2> QED BY <2>1, <2>3, ConcatSimplifications, Zenon
<1>2. r.tag = s.tag /\ r.digest = s.digest BY <1>1, SameSuffix
<1> QED BY <1>2 DEF Parts, Sha

-----------------------------------------------------------------------------
\* Which images an export backs up.

LEMMA ContainersAreParsed ==
  ASSUME NEW c \in Item
  PROVE  /\ ReferenceOf[c] \in Reference
         /\ NameOf[c] = Written(ReferenceOf[c])
         /\ ContainerOf[c] = ProcessContainerName(Written(ReferenceOf[c]))
         /\ ~ Ported(ReferenceOf[c]) => ContainerOf[c] = Parts(ReferenceOf[c])
<1>1. ReferenceOf[c] \in Reference BY NamesAssumption DEF NamesAssumption
<1> QED BY <1>1, NamesAreParsed DEF ContainerOf, NameOf

\* The filters do to the parsed names what is meant by them.
LEMMA WantedIsListed ==
  ASSUME NEW c \in Item, ~ Ported(ReferenceOf[c])
  PROVE  c \in FullImagesList <=> Wanted(c)
<1>1. CASE c \in Additional BY <1>1 DEF FullImagesList, Wanted
<1>2. CASE c \in Container
  <2>1. ContainerOf[c].image = Repository(ReferenceOf[c])
    <3>1. Parts(ReferenceOf[c]).image = Repository(ReferenceOf[c]) BY DEF Parts
    <3>2. ContainerOf[c] = Parts(ReferenceOf[c]) BY ContainersAreParsed
    <3> QED BY <3>1, <3>2
  <2>2. \A p \in Includes \cup Excludes : <<c, p>> \in Matching <=> p \in Words(c)
    <3>1. ASSUME NEW p \in Includes \cup Excludes
          PROVE  <<c, p>> \in Matching <=> Matches(ContainerOf[c].image, p)
      BY <1>2, NamesAssumption DEF NamesAssumption
    <3>2. ASSUME NEW p
          PROVE  Matches(Repository(ReferenceOf[c]), p) <=> p \in Words(c)
      BY DEF Matches, Words
    <3> QED BY <2>1, <3>1, <3>2
  <2>3. Included(c) <=> Includes \cap Words(c) # {} BY <2>2 DEF Included
  <2>4. Excluded(c) <=> Excludes \cap Words(c) # {} BY <2>2 DEF Excluded
  <2> QED
    BY <1>2, <2>3, <2>4 DEF FullImagesList, ListImagesInCluster, Wanted,
                            InNamespaces, InExcludedNamespace
<1> QED BY <1>1, <1>2 DEF Item

\* Only the list is created.
ListedInv ==
  /\ todo \subseteq FullImagesList
  /\ \A k \in Key : image[k] # Absent => \E c \in FullImagesList : KeyOf[c] = k

LEMMA NextListed == TypeOK /\ ListedInv /\ [Next]_vars => ListedInv'
<1> SUFFICES ASSUME TypeOK, ListedInv, [Next]_vars PROVE ListedInv'
  OBVIOUS
<1>1. CASE AddFinalizer \/ SetPending \/ SetRunning \/ SetFailed \/ SetSuccess
  BY <1>1 DEF AddFinalizer, SetPending, SetRunning, SetFailed, SetSuccess, Finish, Update,
              Goto, Fail, Return, imageVars, ListedInv
<1>2. CASE ListImages \/ CheckImages
  BY <1>2 DEF ListImages, CheckImages, Fail, Return, Goto, imageVars, ListedInv
<1>3. ASSUME NEW c \in todo, ImageFailed(c) \/ ImageExists(c)
      PROVE  ListedInv'
  BY <1>3 DEF ImageFailed, ImageExists, Pass, imageVars, ListedInv
<1>4. ASSUME NEW c \in todo, CreateImage(c)
      PROVE  ListedInv'
  <2>1. \/ image' = image
        \/ image' = [image EXCEPT ![KeyOf[c]] = New]
    BY <1>4 DEF CreateImage
  <2>2. todo' \subseteq todo BY <1>4 DEF CreateImage, Pass, Return
  <2>3. c \in FullImagesList BY DEF ListedInv
  <2> QED BY <2>1, <2>2, <2>3 DEF ListedInv, TypeOK
<1>5. CASE Reconcile \/ Crash \/ SyncExport \/ ImageCtlReads \/ ImageCtlWrites
  BY <1>5 DEF Reconcile, Crash, SyncExport, ImageCtlReads, ImageCtlWrites, imageVars,
              workerVars, ListedInv
<1>6. ASSUME NEW k \in Key, SyncImage(k) \/ ImageMoves(k)
      PROVE  ListedInv'
  <2>1. CASE SyncImage(k) BY <2>1 DEF SyncImage, ListedInv
  <2>2. CASE ImageMoves(k)
    <3>1. image[k] # Absent /\ UNCHANGED todo
      BY <2>2 DEF ImageMoves, Moves, workerVars, Absent, New, PENDING, RUNNING, RETRYING, SUCCESS
    <3>2. \A j \in Key : image'[j] # Absent => image[j] # Absent
      BY <2>2, <3>1 DEF ImageMoves, TypeOK
    <3> QED BY <3>1, <3>2 DEF ListedInv
  <2> QED BY <1>6, <2>1, <2>2
<1>7. CASE UNCHANGED vars BY <1>7 DEF vars, imageVars, workerVars, ListedInv
<1> QED BY <1>1, <1>2, <1>3, <1>4, <1>5, <1>6, <1>7 DEF Next, Step, Environment

\* Nothing is backed up that the export leaves out.
THEOREM OnlyWantedIsCreated == Spec => []OnlyWanted
<1>1. Init => ListedInv BY DEF Init, ListedInv
<1>2. Spec => []ListedInv BY <1>1, NextListed, ExportTypeCorrect, PTL DEF Spec
<1>3. ListedInv => OnlyWanted
  <2>1. FullImagesList \subseteq Item BY ListInRange DEF Item
  <2> QED BY <2>1, WantedIsListed DEF ListedInv, OnlyWanted
<1> QED BY <1>2, <1>3, PTL

\* Each image that is wanted exists, apart from its other versions, when Reconcile asks
\* whether all are done.
THEOREM VersionsAreApart == Spec => []EachHasItsOwn
<1>1. ASSUME NEW c \in Item, NEW d \in Item, Versions(c, d)
      PROVE  /\ KeyOf[c] # KeyOf[d]
             /\ Regular(ReferenceOf[c]) /\ Regular(ReferenceOf[d]) =>
                  NormalizeImageName(NameOf[c]) # NormalizeImageName(NameOf[d])
  <2> DEFINE r == ReferenceOf[c]
             s == ReferenceOf[d]
  <2>1. /\ r \in Reference /\ s \in Reference
        /\ NameOf[c] = Written(r) /\ ContainerOf[c] = ProcessContainerName(Written(r))
        /\ NameOf[d] = Written(s) /\ ContainerOf[d] = ProcessContainerName(Written(s))
    BY ContainersAreParsed
  <2>2. Repository(r) = Repository(s) /\ Parts(r) # Parts(s) BY <1>1 DEF Versions
  <2>3. KeyOf[c] = KeyOf[d] <=> NameHash(ContainerOf[c]) = NameHash(ContainerOf[d])
    BY NamesAssumption DEF NamesAssumption
  <2> HIDE DEF r, s
  <2>4. NameHash(ContainerOf[c]) # NameHash(ContainerOf[d])
    BY <2>1, <2>2, VersionsHaveHashes
  <2>5. Regular(r) /\ Regular(s) => NormalizeImageName(NameOf[c]) # NormalizeImageName(NameOf[d])
    BY <2>1, <2>2, VersionsHaveFiles
  <2> QED BY <2>3, <2>4, <2>5 DEF r, s
<1>2. NoneLeftOut => EachHasItsOwn
  BY <1>1, WantedIsListed DEF NoneLeftOut, EachHasItsOwn
<1> QED BY <1>2, ListIsComplete, PTL
=============================================================================
