----------------------------- MODULE ReadersProofs ----------------------------
(***************************************************************************)
(* The tools that read what was captured, a log or the host, each by       *)
(* itself: its invariant, that every step keeps it, and that it implies    *)
(* what the tool promises, for every value of the constants.  ToolsProofs  *)
(* draws the conclusions.                                                  *)
(***************************************************************************)
EXTENDS Readers, FiniteSetTheorems, WellFoundedInduction, TLAPS

-----------------------------------------------------------------------------
(* Sets of numbers, and sums as the number of the units that are summed.   *)

LEMMA LeastNumber ==
  ASSUME NEW all, all \subseteq Nat, all # {}
  PROVE  \E x \in all : \A y \in all : x <= y
<1>1. \E x \in all : \A y \in all : ~ (<<y, x>> \in OpToRel(<, Nat))
  BY NatLessThanWellFounded, WFMin
<1>2. \A x, y \in Nat : <<y, x>> \in OpToRel(<, Nat) <=> y < x
  BY DEF OpToRel
<1>3. \E x \in all : \A y \in all : ~ (y < x)
  BY <1>1, <1>2, Zenon
<1>4. QED
  BY <1>3

LEMMA FamilyIsFinite ==
  ASSUME NEW all, IsFiniteSet(all), NEW g
  PROVE  IsFiniteSet({g[x] : x \in all})
<1> DEFINE image == {g[x] : x \in all}
<1>1. [x \in all |-> g[x]] \in Surjection(all, image)
  BY DEF Surjection
<1>2. QED
  <2> HIDE DEF image
  <2>1. IsFiniteSet(image)
    BY <1>1, FS_Surjection
  <2>2. QED
    BY <2>1 DEF image

(* The units of a family of finite sets can be counted. *)
LEMMA UnionIsFinite ==
  ASSUME NEW all, IsFiniteSet(all), NEW g, \A x \in all : IsFiniteSet(g[x])
  PROVE  IsFiniteSet(UNION {g[x] : x \in all}) /\ Cardinality(UNION {g[x] : x \in all}) \in Nat
<1>1. IsFiniteSet({g[x] : x \in all})
  BY FamilyIsFinite
<1>2. \A one \in {g[x] : x \in all} : IsFiniteSet(one)
  OBVIOUS
<1>3. IsFiniteSet(UNION {g[x] : x \in all})
  BY <1>1, <1>2, FS_UNION
<1>4. QED
  BY <1>3, FS_CardinalityType

UnitsOf(n, all) == UNION {{x} \X (1..n[x]) : x \in all}

LEMMA UnitsAreFinite ==
  ASSUME NEW all, IsFiniteSet(all), NEW n, \A x \in all : n[x] \in Nat
  PROVE  IsFiniteSet(UnitsOf(n, all)) /\ Cardinality(UnitsOf(n, all)) \in Nat
<1> DEFINE g == [x \in all |-> {x} \X (1..n[x])]
<1>1. ASSUME NEW x \in all PROVE IsFiniteSet(g[x])
  <2>1. IsFiniteSet({x}) /\ IsFiniteSet(1..n[x])
    <3>1. 1 \in Int /\ n[x] \in Int
      OBVIOUS
    <3>2. IsFiniteSet(1..n[x])
      BY <3>1, FS_Interval
    <3>3. QED
      BY <3>2, FS_Singleton
  <2>2. IsFiniteSet({x} \X (1..n[x]))
    BY <2>1, FS_Product
  <2>3. g[x] = {x} \X (1..n[x])
    OBVIOUS
  <2>4. QED
    BY <2>2, <2>3
<1>2. {{x} \X (1..n[x]) : x \in all} = {g[x] : x \in all}
  OBVIOUS
<1>3. IsFiniteSet(UNION {g[x] : x \in all}) /\ Cardinality(UNION {g[x] : x \in all}) \in Nat
  <2> HIDE DEF g
  <2>1. QED
    BY <1>1, UnionIsFinite
<1>4. QED
  <2> HIDE DEF g
  <2>1. QED
    BY <1>2, <1>3 DEF UnitsOf

-----------------------------------------------------------------------------
(* analyze-bundle.py takes the bundle in.  What was not damaged is sealed, *)
(* and a digest that was given has let nothing else pass (SealPart).  What *)
(* is copied is a part of the tree, all of it once the copy has ended      *)
(* (CopyPart).  A loose file is where no other is, since the counters of   *)
(* its kind are the larger the later it comes (ImportPart).                *)

Fcn(f) == f = [x \in DOMAIN f |-> f[x]]
Stages == {"copy", "format", "verify", "report"}
AllFiles ==
  [name : [pre : Seq(Nat), stem : Stems \cup Members \cup {I!Manifest, Extra}, ext : Exts \cup {"txt"}],
   kind : I!Kinds]

IntakeTyped ==
  /\ pc \in Stages \cup {"way", "loose", "validate", "import", "exit"}
  /\ input \in {"archive", "dir", "files"} /\ expect \in {0, 1} /\ damage \in Nat
  /\ Fcn(tree) /\ Fcn(sums) /\ Fcn(bundle)
  /\ DOMAIN tree \subseteq Members \cup {I!Manifest, Extra}
  /\ loose \in Seq(AllFiles) /\ done \in Nat
  /\ (exit # "none" <=> pc = "exit") /\ report \in {0, 1} /\ (report = 1 => pc = "exit")
  /\ out \in {0, 1}
  /\ pc \in {"way", "validate"} => out = 0
  /\ pc \in {"way", "loose", "validate"} => bundle = <<>> /\ done = 0

SealPart ==
  /\ damage = 0 => tree = I!Sealed /\ sums = I!Sealed
  /\ expect = 1 /\ pc # "way" /\ exit \in {"none", "0"} => damage = 0 /\ input = "archive"
  /\ pc = "validate" => input = "archive"
  /\ pc \in {"format", "verify"} \cup {"copy"} => input # "files"
  /\ pc \in {"loose"} => expect = 0 /\ input = "dir"
  /\ pc = "import" => input = "files"
  /\ input = "files" => expect = 0

CopyPart ==
  input # "files" =>
    /\ pc = "copy" => /\ DOMAIN bundle \subseteq DOMAIN tree /\ \A m \in DOMAIN bundle : bundle[m] = tree[m]
                      /\ done = Cardinality(DOMAIN bundle)
    /\ pc \in Stages \ {"copy"} \/ report = 1 \/ exit = "0" => bundle = tree
    /\ pc = "report" \/ exit = "0" => problems = I!Problems
    /\ exit = "0" => problems = {}

RefusedPart ==
  input = "archive" /\ (pc \in Stages \/ out = 1 \/ bundle # <<>>) => I!Acceptable /\ pc # "way"

Plain == \A i \in 1..Len(loose) : loose[i].name.pre = <<>>

Place(i) ==
  CASE loose[i].kind = "jfr" -> "jvm" [] loose[i].kind = "gc-log" -> "logs" [] OTHER -> "other"

ImportPart ==
  input = "files" /\ Plain =>
    /\ done <= Len(loose) /\ \A i \in 1..done : I!Kept(i)
    /\ \A t \in DOMAIN bundle : \E j \in 1..done :
         /\ bundle[t] = j /\ t.dir = Place(j)
         /\ t.name.pre = <<I!Counter(j)>> \/ (t.name.pre = <<>> /\ loose[j].kind # "gc-log")

IntakeInv == IntakeTyped /\ SealPart /\ CopyPart /\ RefusedPart /\ ImportPart

-----------------------------------------------------------------------------
LEMMA CardinalityOfIntake == ASSUME NEW all PROVE I!Cardinality(all) = Cardinality(all)
  BY DEF I!Cardinality, Cardinality, I!IsFiniteSet, IsFiniteSet

LEMMA TreeIsFinite ==
  ASSUME IntakeTyped
  PROVE  IsFiniteSet(DOMAIN tree) /\ Cardinality(DOMAIN tree) \in Nat
<1>1. IsFiniteSet(Members \cup {I!Manifest, Extra})
  <2>1. IsFiniteSet((Members \cup {I!Manifest}) \cup {Extra})
    BY BundleAssumption, FS_AddElement
  <2>2. (Members \cup {I!Manifest}) \cup {Extra} = Members \cup {I!Manifest, Extra}
    OBVIOUS
  <2>3. QED
    BY <2>1, <2>2
<1>2. QED
  BY <1>1, FS_Subset, FS_CardinalityType DEF IntakeTyped

(* The files of a directory, one after the other *)
LEMMA ListedTyped ==
  ASSUME NEW all, IsFiniteSet(all)
  PROVE  I!Listed(all) \in [1..Cardinality(all) -> all]
<1>1. PICK f \in [1..Cardinality(all) -> all] : \A a, b \in DOMAIN f : f[a] = f[b] => a = b
  BY FS_CardinalityType DEF ExistsBijection, Bijection, Injection, IsInjective
<1>2. QED
  BY <1>1, CardinalityOfIntake DEF I!Listed

LEMMA WithOneMore ==
  ASSUME NEW f, NEW m, NEW c
  PROVE  /\ Fcn(I!With(f, m, c)) /\ DOMAIN I!With(f, m, c) = DOMAIN f \cup {m} /\ I!With(f, m, c)[m] = c
         /\ \A x \in DOMAIN f \ {m} : I!With(f, m, c)[x] = f[x]
  BY DEF Fcn, I!With

LEMMA WithoutOne ==
  ASSUME NEW f, NEW m
  PROVE  Fcn(I!Without(f, m)) /\ DOMAIN I!Without(f, m) = DOMAIN f \ {m}
  BY DEF Fcn, I!Without

(* Two functions are the same when they have the same domain and values.   *)
LEMMA SameFcn ==
  ASSUME NEW f, NEW g, Fcn(f), Fcn(g), DOMAIN f = DOMAIN g, \A x \in DOMAIN f : f[x] = g[x]
  PROVE  f = g
  BY DEF Fcn

LEMMA IntakeInit == I!Init => IntakeInv
<1>1. Fcn(<<>>) /\ DOMAIN <<>> = {} /\ <<>> \in Seq(AllFiles) /\ Len(<<>>) = 0
  BY DEF Fcn
<1>2. Fcn(I!Sealed) /\ DOMAIN I!Sealed = Members \cup {I!Manifest}
  BY DEF Fcn, I!Sealed
<1>3. QED
  BY <1>1, <1>2 DEF I!Init, IntakeInv, IntakeTyped, SealPart, CopyPart, RefusedPart, ImportPart, Stages

-----------------------------------------------------------------------------
LEMMA IntakeTypedStep == ASSUME IntakeTyped, SealPart, [I!Next]_I!vars PROVE IntakeTyped'
<1> USE DEF I!evidence, I!result, I!Leave, I!Goto, Stages
<1>1. CASE I!Damage
  <2>1. Fcn(tree') /\ DOMAIN tree' \subseteq Members \cup {I!Manifest, Extra}
    <3>1. CASE UNCHANGED tree
      BY <3>1 DEF IntakeTyped
    <3>2. ASSUME NEW m \in DOMAIN tree \cup {Extra}, NEW c, tree' = I!With(tree, m, c)
          PROVE  Fcn(tree') /\ DOMAIN tree' \subseteq Members \cup {I!Manifest, Extra}
      <4>1. Fcn(I!With(tree, m, c)) /\ DOMAIN I!With(tree, m, c) = DOMAIN tree \cup {m}
        BY WithOneMore
      <4>2. QED
        BY <3>2, <4>1 DEF IntakeTyped
    <3>3. ASSUME NEW m \in DOMAIN tree, tree' = I!Without(tree, m)
          PROVE  Fcn(tree') /\ DOMAIN tree' \subseteq Members \cup {I!Manifest, Extra}
      BY <3>3, WithoutOne DEF IntakeTyped
    <3>4. QED
      BY <1>1, <3>1, <3>2, <3>3 DEF I!Damage, I!DamagedTrees
  <2>2. Fcn(sums')
    <3>1. Fcn(I!NoSums)
      BY DEF I!NoSums, Fcn
    <3>2. CASE UNCHANGED sums
      BY <3>2 DEF IntakeTyped
    <3>3. ASSUME NEW m \in DOMAIN sums, sums' \in {I!Without(sums, m), I!With(sums, m, "damaged")} PROVE Fcn(sums')
      <4>1. Fcn(I!With(sums, m, "damaged")) /\ Fcn(I!Without(sums, m))
        BY WithOneMore, WithoutOne
      <4>2. QED
        BY <3>3, <4>1
    <3>4. CASE sums' \in I!DamagedSums
      BY <3>1, <3>3, <3>4 DEF I!DamagedSums
    <3>5. QED
      BY <1>1, <3>2, <3>4 DEF I!Damage
  <2>3. QED
    BY <1>1, <2>1, <2>2 DEF I!Damage, IntakeTyped
<1>2. CASE I!Collect
  <2>1. PICK f \in I!LooseFiles : loose' = Append(loose, f)
    BY <1>2 DEF I!Collect
  <2>2. f \in AllFiles
    <3>1. \A n \in 1..MaxLoose : n \in Nat /\ <<n>> \in Seq(Nat)
      BY BundleAssumption
    <3>2. {<<>>} \cup {<<n>> : n \in 1..MaxLoose} \subseteq Seq(Nat)
      <4>1. <<>> \in Seq(Nat)
        OBVIOUS
      <4>2. QED
        BY <3>1, <4>1, Zenon
    <3>3. QED
      BY <3>2 DEF I!LooseFiles, I!Names, AllFiles
  <2>3. loose' \in Seq(AllFiles)
    BY <2>1, <2>2 DEF IntakeTyped
  <2>4. QED
    BY <1>2, <2>3 DEF I!Collect, IntakeTyped
<1>3. CASE I!Start
  BY <1>3 DEF I!Start, IntakeTyped
<1>4. CASE I!TakeAsLoose
  <2> DEFINE n == Cardinality(DOMAIN tree)
             bare(x) == [name |-> [pre |-> <<>>, stem |-> x, ext |-> "txt"], kind |-> "other"]
  <2>1. n \in Nat /\ I!Listed(DOMAIN tree) \in [1..n -> DOMAIN tree]
    BY TreeIsFinite, ListedTyped
  <2>2. loose' = [i \in 1..n |-> bare(I!Listed(DOMAIN tree)[i])]
    BY <1>4, CardinalityOfIntake DEF I!TakeAsLoose
  <2>3. \A x \in DOMAIN tree : bare(x) \in AllFiles
    BY DEF IntakeTyped, AllFiles, I!Kinds
  <2>4. loose' \in [1..n -> AllFiles]
    <3> HIDE DEF n, bare
    <3>1. QED
      BY <2>1, <2>2, <2>3
  <2>5. loose' \in Seq(AllFiles)
    BY <2>1, <2>4
  <2>6. QED
    BY <1>4, <2>5 DEF I!TakeAsLoose, IntakeTyped
<1>5. CASE I!Validate
  BY <1>5 DEF I!Validate, IntakeTyped
<1>6. CASE I!CopyMember
  <2>1. PICK m \in I!Left : bundle' = I!With(bundle, m, tree[m])
    BY <1>6 DEF I!CopyMember
  <2>2. Fcn(bundle') /\ done' = done + 1 /\ pc' \in {"copy", "format"}
    BY <1>6, <2>1, WithOneMore DEF I!CopyMember
  <2>3. QED
    BY <1>6, <2>2 DEF I!CopyMember, IntakeTyped
<1>7. CASE I!ImportFile
  <2>1. Fcn(I!With(bundle, I!FinalTarget(done + 1), done + 1))
    BY WithOneMore
  <2>2. Fcn(bundle') /\ done' \in Nat
    BY <1>7, <2>1 DEF I!ImportFile, IntakeTyped
  <2>3. QED
    BY <1>7, <2>2 DEF I!ImportFile, IntakeTyped
<1>8. CASE I!CopyRefused \/ I!ImportDone \/ I!WriteFails \/ I!CheckFormat \/ I!VerifySums \/ UNCHANGED I!vars
  BY <1>8 DEF I!CopyRefused, I!ImportDone, I!WriteFails, I!CheckFormat, I!VerifySums, I!vars, IntakeTyped
<1>9. CASE I!WriteReport
  BY <1>9 DEF I!WriteReport, IntakeTyped
<1>10. QED
  BY <1>1, <1>2, <1>3, <1>4, <1>5, <1>6, <1>7, <1>8, <1>9 DEF I!Next

LEMMA SealStep == ASSUME IntakeTyped, SealPart, [I!Next]_I!vars PROVE SealPart'
<1> USE DEF I!evidence, I!result, I!Leave, I!Goto, Stages, IntakeTyped, SealPart
<1>1. CASE I!Damage \/ I!Collect
  BY <1>1 DEF I!Damage, I!Collect, I!Sealed
<1>2. CASE I!Start
  <2>1. CASE input = "files"
    BY <1>2, <2>1 DEF I!Start, I!Sealed
  <2>2. CASE input = "dir"
    BY <1>2, <2>2 DEF I!Start, I!Sealed
  <2>3. CASE input = "archive"
    <3>1. expect = 1 /\ exit' = "none" => damage = 0
      BY <1>2, <2>3 DEF I!Start
    <3>2. pc' \in {"validate", "exit"} /\ exit' \in {"none", "5"} /\ UNCHANGED <<tree, sums, input, expect, damage>>
      BY <1>2, <2>3 DEF I!Start
    <3>3. QED
      BY <2>3, <3>1, <3>2 DEF I!Sealed
  <2>4. QED
    BY <2>1, <2>2, <2>3
<1>3. CASE I!TakeAsLoose \/ I!Validate \/ I!CopyMember \/ I!CopyRefused
  BY <1>3 DEF I!TakeAsLoose, I!Validate, I!CopyMember, I!CopyRefused, I!Sealed
<1>4. CASE I!ImportFile \/ I!ImportDone \/ I!WriteFails
  BY <1>4 DEF I!ImportFile, I!ImportDone, I!WriteFails, I!Sealed
<1>5. CASE I!CheckFormat \/ I!VerifySums \/ I!WriteReport \/ UNCHANGED I!vars
  BY <1>5 DEF I!CheckFormat, I!VerifySums, I!WriteReport, I!vars, I!Sealed
<1>6. QED
  BY <1>1, <1>2, <1>3, <1>4, <1>5 DEF I!Next

LEMMA OneMoreCopied ==
  ASSUME NEW m, NEW c, bundle' = I!With(bundle, m, c)
  PROVE  /\ DOMAIN bundle' = DOMAIN bundle \cup {m} /\ Fcn(bundle') /\ bundle'[m] = c
         /\ \A x \in DOMAIN bundle \ {m} : bundle'[x] = bundle[x]
<1>1. /\ DOMAIN I!With(bundle, m, c) = DOMAIN bundle \cup {m} /\ Fcn(I!With(bundle, m, c)) /\ I!With(bundle, m, c)[m] = c
      /\ \A x \in DOMAIN bundle \ {m} : I!With(bundle, m, c)[x] = bundle[x]
  BY DEF Fcn, I!With
<1>2. QED
  BY <1>1

LEMMA CopyStep == ASSUME IntakeTyped, SealPart, CopyPart, [I!Next]_I!vars PROVE CopyPart'
<1> USE DEF I!evidence, I!result, I!Leave, I!Goto, Stages, IntakeTyped, SealPart, CopyPart
<1>1. CASE I!Damage \/ I!Collect
  BY <1>1 DEF I!Damage, I!Collect
<1>2. CASE I!Start \/ I!Validate
  <2>1. bundle = <<>> /\ done = 0 /\ UNCHANGED <<input, tree, bundle, done, report>> /\ report = 0 /\ exit' # "0"
    BY <1>2 DEF I!Start, I!Validate
  <2>2. DOMAIN bundle = {} /\ Cardinality(DOMAIN bundle) = 0
    BY <2>1, FS_EmptySet
  <2>3. pc' \in {"import", "copy", "loose", "validate", "exit"} /\ (pc' = "import" => input = "files")
    BY <1>2 DEF I!Start, I!Validate
  <2>4. QED
    BY <2>1, <2>2, <2>3
<1>3. CASE I!TakeAsLoose
  BY <1>3 DEF I!TakeAsLoose
<1>4. CASE I!CopyMember
  <2>1. PICK m \in DOMAIN tree \ DOMAIN bundle : bundle' = I!With(bundle, m, tree[m])
    BY <1>4 DEF I!CopyMember, I!Left
  <2>2. /\ DOMAIN bundle' = DOMAIN bundle \cup {m} /\ Fcn(bundle')
        /\ \A x \in DOMAIN bundle' : bundle'[x] = tree[x]
    <3>1. DOMAIN bundle' = DOMAIN bundle \cup {m} /\ Fcn(bundle') /\ bundle'[m] = tree[m]
      BY <2>1, OneMoreCopied
    <3>2. \A x \in DOMAIN bundle \ {m} : bundle'[x] = bundle[x]
      BY <2>1, OneMoreCopied
    <3>3. input # "files" /\ pc = "copy"
      BY <1>4 DEF I!CopyMember
    <3>4. QED
      BY <3>1, <3>2, <3>3
  <2>3. IsFiniteSet(DOMAIN bundle) /\ done = Cardinality(DOMAIN bundle) /\ input # "files"
    BY <1>4, TreeIsFinite, FS_Subset DEF I!CopyMember
  <2>4. done + 1 = Cardinality(DOMAIN bundle')
    <3>1. Cardinality(DOMAIN bundle \cup {m}) = Cardinality(DOMAIN bundle) + 1
      BY <2>1, <2>3, FS_AddElement
    <3>2. QED
      BY <2>2, <2>3, <3>1
  <2>5. /\ pc' = (IF done + 1 = Cardinality(DOMAIN tree) THEN "format" ELSE "copy") /\ done' = done + 1
        /\ UNCHANGED <<input, tree, sums, problems, report, exit>> /\ report = 0 /\ exit = "none"
    BY <1>4, CardinalityOfIntake DEF I!CopyMember
  <2>6. DOMAIN bundle' \subseteq DOMAIN tree
    BY <1>4, <2>2 DEF I!CopyMember
  <2>7. CASE done + 1 = Cardinality(DOMAIN tree)
    <3>1. DOMAIN bundle' = DOMAIN tree
      BY <2>4, <2>6, <2>7, TreeIsFinite, FS_Subset
    <3>2. bundle' = tree
      BY <2>2, <3>1, SameFcn
    <3>3. QED
      BY <2>5, <2>7, <3>2
  <2>8. CASE done + 1 # Cardinality(DOMAIN tree)
    BY <2>2, <2>4, <2>5, <2>6, <2>8
  <2>9. QED
    BY <2>7, <2>8
<1>5. CASE I!ImportFile \/ I!ImportDone
  BY <1>5 DEF I!ImportFile, I!ImportDone
<1>6. CASE I!CopyRefused \/ I!WriteFails \/ I!CheckFormat
  BY <1>6 DEF I!CopyRefused, I!WriteFails, I!CheckFormat
<1>7. CASE I!VerifySums
  BY <1>7 DEF I!VerifySums, I!Problems
<1>8. CASE I!WriteReport
  BY <1>8 DEF I!WriteReport, I!Problems
<1>9. CASE UNCHANGED I!vars
  BY <1>9 DEF I!vars, I!Problems
<1>10. QED
  BY <1>1, <1>2, <1>3, <1>4, <1>5, <1>6, <1>7, <1>8, <1>9 DEF I!Next

LEMMA RefusedStep == ASSUME IntakeTyped, SealPart, RefusedPart, [I!Next]_I!vars PROVE RefusedPart'
<1> USE DEF I!evidence, I!result, I!Leave, I!Goto, Stages, IntakeTyped, SealPart, RefusedPart
<1>1. CASE I!Damage \/ I!Collect
  BY <1>1 DEF I!Damage, I!Collect
<1>2. CASE I!Start
  BY <1>2 DEF I!Start, I!Acceptable
<1>3. CASE I!Validate \/ I!TakeAsLoose
  BY <1>3 DEF I!Validate, I!TakeAsLoose, I!Acceptable
<1>4. CASE I!CopyMember \/ I!CopyRefused
  BY <1>4 DEF I!CopyMember, I!CopyRefused, I!Acceptable
<1>5. CASE I!ImportFile \/ I!ImportDone \/ I!WriteFails
  BY <1>5 DEF I!ImportFile, I!ImportDone, I!WriteFails, I!Acceptable
<1>6. CASE I!CheckFormat \/ I!VerifySums \/ I!WriteReport \/ UNCHANGED I!vars
  BY <1>6 DEF I!CheckFormat, I!VerifySums, I!WriteReport, I!vars, I!Acceptable
<1>7. QED
  BY <1>1, <1>2, <1>3, <1>4, <1>5, <1>6 DEF I!Next

-----------------------------------------------------------------------------
(* Of the files of one kind a later one has the larger counter.            *)
LEMMA CountersDiffer ==
  ASSUME NEW i \in Nat, NEW j \in 1..(i - 1), loose[i].kind = loose[j].kind
  PROVE  I!Counter(i) # I!Counter(j)
<1> DEFINE first == {k \in 1..j : loose[k].kind = loose[j].kind}
           then == {k \in 1..i : loose[k].kind = loose[i].kind}
<1>1. IsFiniteSet(1..i)
  BY FS_Interval
<1>2. IsFiniteSet(then)
  BY <1>1, FS_Subset
<1>3. first \in SUBSET then /\ i \in then /\ i \notin first
  OBVIOUS
<1>4. Cardinality(first) # Cardinality(then)
  <2> HIDE DEF first, then
  <2>1. QED
    BY <1>2, <1>3, FS_Subset
<1>5. QED
  BY <1>4, CardinalityOfIntake DEF I!Counter

(* Where the next file goes *)
LEMMA NextPlace ==
  ASSUME IntakeTyped, NEW i \in 1..Len(loose), loose[i].name.pre = <<>>, NEW n \in Nat
  PROVE  LET t == I!Target(loose[i], n) IN
         /\ t.dir = Place(i) /\ I!Numbered(t, n).dir = Place(i)
         /\ loose[i].kind = "gc-log" => t.name.pre = <<n>>
         /\ loose[i].kind # "gc-log" => t.name.pre = <<>> /\ I!Numbered(t, n).name.pre = <<n>>
<1>1. loose[i] \in AllFiles
  BY DEF IntakeTyped
<1>2. loose[i].kind \in I!Kinds /\ loose[i].name.pre = <<>> /\ <<n>> \o <<>> = <<n>>
  BY <1>1 DEF AllFiles
<1>3. PICK s, e : loose[i].name = [pre |-> <<>>, stem |-> s, ext |-> e]
  BY <1>1, <1>2 DEF AllFiles
<1>4. CASE loose[i].kind = "gc-log"
  BY <1>2, <1>3, <1>4 DEF I!Target, I!Numbered, Place
<1>5. CASE loose[i].kind = "jfr"
  BY <1>2, <1>3, <1>5 DEF I!Target, I!Numbered, Place
<1>6. CASE loose[i].kind = "other"
  BY <1>2, <1>3, <1>6 DEF I!Target, I!Numbered, Place
<1>7. QED
  BY <1>2, <1>4, <1>5, <1>6 DEF I!Kinds

(* It is nobody's place yet. *)
LEMMA NextIsFree ==
  ASSUME IntakeTyped, ImportPart, input = "files", Plain, done < Len(loose)
  PROVE  LET final == I!FinalTarget(done + 1) IN
         /\ final \notin DOMAIN bundle /\ final.dir = Place(done + 1)
         /\ \/ final.name.pre = <<I!Counter(done + 1)>>
            \/ final.name.pre = <<>> /\ loose[done + 1].kind # "gc-log"
<1> DEFINE i == done + 1
           n == I!Counter(i)
           t == I!Target(loose[i], n)
           u == I!Numbered(t, n)
<1>1. i \in 1..Len(loose) /\ i \in Nat /\ loose[i].name.pre = <<>> /\ 1..done = 1..(i - 1)
  BY DEF IntakeTyped, Plain
<1>2. n \in Nat
  <2>1. IsFiniteSet(1..i) /\ {k \in 1..i : loose[k].kind = loose[i].kind} \subseteq 1..i
    BY <1>1, FS_Interval
  <2>2. QED
    BY <2>1, FS_Subset, FS_CardinalityType, CardinalityOfIntake DEF I!Counter
<1>3. /\ t.dir = Place(i) /\ u.dir = Place(i)
      /\ (loose[i].kind = "gc-log" => t.name.pre = <<n>>)
      /\ (loose[i].kind # "gc-log" => t.name.pre = <<>> /\ u.name.pre = <<n>>)
  <2> HIDE DEF i, n
  <2>1. QED
    BY <1>1, <1>2, NextPlace
<1>4. \A x \in DOMAIN bundle : x.dir = Place(i) => x.name.pre # <<n>>
  <2>1. SUFFICES ASSUME NEW x \in DOMAIN bundle, x.dir = Place(i), x.name.pre = <<n>> PROVE FALSE
    OBVIOUS
  <2>2. PICK j \in 1..done : /\ bundle[x] = j /\ x.dir = Place(j)
                             /\ (x.name.pre = <<I!Counter(j)>> \/ (x.name.pre = <<>> /\ loose[j].kind # "gc-log"))
    BY DEF ImportPart
  <2>3. n = I!Counter(j)
    BY <2>1, <2>2
  <2>4. loose[i] \in AllFiles /\ loose[j] \in AllFiles
    BY <1>1 DEF IntakeTyped
  <2>5. loose[i].kind = loose[j].kind
    BY <2>1, <2>2, <2>4 DEF Place, AllFiles, I!Kinds
  <2>6. QED
    <3> HIDE DEF i
    <3>1. QED
      BY <1>1, <2>3, <2>5, CountersDiffer DEF n
<1>5. I!FinalTarget(i) = IF t \in DOMAIN bundle THEN u ELSE t
  BY DEF I!FinalTarget
<1>6. QED
  <2> HIDE DEF i, n, t, u
  <2>1. QED
    BY <1>3, <1>4, <1>5 DEF i, n

(* Neither depends on anything but the list of the loose files. *)
LEMMA SamePlace ==
  ASSUME UNCHANGED loose, NEW j
  PROVE  I!Counter(j)' = I!Counter(j) /\ Place(j)' = Place(j)
<1>1. Place(j)' = Place(j)
  BY DEF Place
<1>2. I!Counter(j)' = I!Counter(j)
  BY DEF I!Counter
<1>3. QED
  BY <1>1, <1>2

LEMMA ImportKept ==
  ASSUME ImportPart, UNCHANGED <<input, loose, bundle, done>>
  PROVE  ImportPart'
<1>1. \A j : I!Counter(j)' = I!Counter(j) /\ Place(j)' = Place(j)
  BY SamePlace
<1>2. QED
  BY <1>1 DEF ImportPart, Plain, I!Kept

LEMMA ImportStep == ASSUME IntakeTyped, SealPart, ImportPart, [I!Next]_I!vars PROVE ImportPart'
<1> USE DEF I!evidence, I!result, I!Leave, I!Goto
<1>1. CASE I!ImportFile
  <2> DEFINE final == I!FinalTarget(done + 1)
  <2>1. pc = "import" /\ done < Len(loose) /\ UNCHANGED <<loose, input>> /\ input = "files"
    BY <1>1 DEF I!ImportFile, SealPart
  <2>2. CASE UNCHANGED <<bundle, done>>
    BY <2>1, <2>2, ImportKept
  <2>3. CASE bundle' = I!With(bundle, final, done + 1) /\ done' = done + 1
    <3>1. SUFFICES ASSUME Plain PROVE ImportPart'
      BY <2>1 DEF ImportPart, Plain
    <3>2. final \notin DOMAIN bundle /\ final.dir = Place(done + 1)
          /\ (\/ final.name.pre = <<I!Counter(done + 1)>>
              \/ (final.name.pre = <<>> /\ loose[done + 1].kind # "gc-log"))
      BY <2>1, <3>1, NextIsFree
    <3>3. DOMAIN bundle' = DOMAIN bundle \cup {final} /\ bundle'[final] = done + 1
          /\ \A x \in DOMAIN bundle : bundle'[x] = bundle[x]
      <4> HIDE DEF final
      <4>1. QED
        BY <2>3, <3>2, OneMoreCopied
    <3>4. done \in Nat /\ done' = done + 1 /\ done + 1 <= Len(loose)
      <4>1. done \in Nat /\ Len(loose) \in Nat
        BY DEF IntakeTyped
      <4>2. QED
        BY <2>1, <2>3, <4>1
    <3>5. \A k \in 1..(done + 1) : \E x \in DOMAIN bundle' : bundle'[x] = k
      <4>1. \A k \in 1..done : \E x \in DOMAIN bundle : bundle[x] = k
        BY <2>1, <3>1 DEF ImportPart, I!Kept
      <4>2. \A k \in 1..(done + 1) : k \in 1..done \/ k = done + 1
        BY <3>4
      <4>3. QED
        <5> HIDE DEF final
        <5>1. QED
          BY <3>3, <4>1, <4>2
    <3>6. \A x \in DOMAIN bundle' : \E j \in 1..(done + 1) :
            /\ bundle'[x] = j /\ x.dir = Place(j)
            /\ x.name.pre = <<I!Counter(j)>> \/ (x.name.pre = <<>> /\ loose[j].kind # "gc-log")
      <4>1. CASE TRUE
        <5>1. \A x \in DOMAIN bundle : \E j \in 1..done :
                /\ bundle[x] = j /\ x.dir = Place(j)
                /\ x.name.pre = <<I!Counter(j)>> \/ (x.name.pre = <<>> /\ loose[j].kind # "gc-log")
          BY <2>1, <3>1 DEF ImportPart
        <5>2. 1..done \subseteq 1..(done + 1) /\ done + 1 \in 1..(done + 1)
          BY <3>4
        <5>3. ASSUME NEW x \in DOMAIN bundle
              PROVE  \E j \in 1..(done + 1) :
                       /\ bundle'[x] = j /\ x.dir = Place(j)
                       /\ x.name.pre = <<I!Counter(j)>> \/ (x.name.pre = <<>> /\ loose[j].kind # "gc-log")
          <6>1. bundle'[x] = bundle[x]
            BY <3>3
          <6>2. QED
            BY <5>1, <5>2, <6>1
        <5>4. \E j \in 1..(done + 1) :
                /\ bundle'[final] = j /\ final.dir = Place(j)
                /\ final.name.pre = <<I!Counter(j)>> \/ (final.name.pre = <<>> /\ loose[j].kind # "gc-log")
          <6> HIDE DEF final
          <6>1. QED
            BY <3>2, <3>3, <5>2
        <5>5. QED
          BY <3>3, <5>3, <5>4
      <4>2. QED
        BY <4>1
    <3>7. QED
      <4>1. \A j : I!Counter(j)' = I!Counter(j) /\ Place(j)' = Place(j)
        BY <2>1, SamePlace
      <4>2. done' <= Len(loose') /\ \A k \in 1..done' : I!Kept(k)'
        BY <2>1, <3>4, <3>5 DEF I!Kept
      <4>3. \A x \in DOMAIN bundle' : \E j \in 1..done' :
              /\ bundle'[x] = j /\ x.dir = Place(j)'
              /\ x.name.pre = <<I!Counter(j)'>> \/ (x.name.pre = <<>> /\ loose'[j].kind # "gc-log")
        BY <2>1, <3>4, <3>6, <4>1
      <4>4. QED
        BY <4>2, <4>3 DEF ImportPart
  <2>4. QED
    BY <1>1, <2>2, <2>3 DEF I!ImportFile
<1>2. CASE I!Collect \/ I!Start \/ I!TakeAsLoose
  <2>1. bundle = <<>> /\ done = 0 /\ UNCHANGED <<bundle, done>>
    BY <1>2 DEF I!Collect, I!Start, I!TakeAsLoose, IntakeTyped
  <2>2. Len(loose') \in Nat
    <3>1. loose' \in Seq(AllFiles)
      BY IntakeTypedStep DEF IntakeTyped
    <3>2. QED
      BY <3>1
  <2>3. QED
    BY <2>1, <2>2 DEF ImportPart
<1>3. CASE I!Damage \/ I!Validate \/ I!CopyMember \/ I!CopyRefused
  BY <1>3 DEF I!Damage, I!Validate, I!CopyMember, I!CopyRefused, SealPart, ImportPart
<1>4. CASE I!ImportDone \/ I!WriteFails \/ I!CheckFormat \/ I!VerifySums \/ I!WriteReport \/ UNCHANGED I!vars
  <2>1. UNCHANGED <<input, loose, bundle, done>>
    BY <1>4 DEF I!ImportDone, I!WriteFails, I!CheckFormat, I!VerifySums, I!WriteReport, I!vars
  <2>2. QED
    BY <2>1, ImportKept
<1>5. QED
  BY <1>1, <1>2, <1>3, <1>4 DEF I!Next

LEMMA IntakeStep == IntakeInv /\ [I!Next]_I!vars => IntakeInv'
<1>1. SUFFICES ASSUME IntakeInv, [I!Next]_I!vars PROVE IntakeInv'
  OBVIOUS
<1>2. IntakeTyped /\ SealPart /\ CopyPart /\ RefusedPart /\ ImportPart
  BY <1>1 DEF IntakeInv
<1>3. IntakeTyped' /\ SealPart' /\ CopyPart' /\ RefusedPart' /\ ImportPart'
  BY <1>1, <1>2, IntakeTypedStep, SealStep, CopyStep, RefusedStep, ImportStep
<1>4. QED
  BY <1>3 DEF IntakeInv

LEMMA IntakeAnswers ==
  IntakeInv => I!DamageIsReported /\ I!ReportIsOfWholeInput /\ I!RefusedLeavesNothing /\ I!SameNamesKept
<1>1. SUFFICES ASSUME IntakeInv
               PROVE  I!DamageIsReported /\ I!ReportIsOfWholeInput /\ I!RefusedLeavesNothing /\ I!SameNamesKept
  OBVIOUS
<1>2. IntakeTyped /\ SealPart /\ CopyPart /\ RefusedPart /\ ImportPart
  BY <1>1 DEF IntakeInv
<1>3. I!DamageIsReported
  <2>1. SUFFICES ASSUME exit = "0", input # "files", sums = I!Sealed \/ expect = 1 PROVE bundle = I!Sealed
    BY DEF I!DamageIsReported
  <2>2. bundle = tree /\ I!Problems = {} /\ Fcn(bundle) /\ Fcn(sums)
    BY <1>2, <2>1 DEF CopyPart, IntakeTyped
  <2>3. CASE expect = 1
    BY <1>2, <2>1, <2>2, <2>3 DEF SealPart, IntakeTyped
  <2>4. CASE sums = I!Sealed
    <3>1. sums # I!NoSums
      BY <2>2 DEF I!Problems
    <3>2. DOMAIN sums = DOMAIN bundle
      BY <2>2, <3>1 DEF I!Problems
    <3>3. \A m \in DOMAIN sums : sums[m] = bundle[m]
      BY <2>2, <3>1, <3>2 DEF I!Problems
    <3>4. QED
      BY <2>2, <2>4, <3>2, <3>3, SameFcn
  <2>5. QED
    BY <2>1, <2>3, <2>4
<1>4. I!ReportIsOfWholeInput
  BY <1>2 DEF CopyPart, I!ReportIsOfWholeInput
<1>5. I!RefusedLeavesNothing
  BY <1>2 DEF RefusedPart, IntakeTyped, I!RefusedLeavesNothing
<1>6. I!SameNamesKept
  BY <1>2 DEF ImportPart, Plain, I!SameNamesKept
<1>7. QED
  BY <1>3, <1>4, <1>5, <1>6

-----------------------------------------------------------------------------
(* analyze-bundle.py reads the thread dumps.  The JVM gives a monitor to   *)
(* one thread, and a thread that has not begun or has ended is in none of  *)
(* its frames (ThreadPart); so every dump shows the threads as they are,   *)
(* and who entered a monitor either holds it or waits on it (DumpPart).    *)

DumpStates == {"NEW", "RUNNABLE", "BLOCKED", "WAITING", "TERMINATED"}
Owns(t, m) == m \in entered[t] /\ on[t] # m

ThreadPart ==
  /\ state \in [Threads -> DumpStates] /\ entered \in [Threads -> SUBSET Monitors]
  /\ on \in [Threads -> Monitors \cup {D!NoMonitor}] /\ frame \in [Threads -> D!StackFrames]
  /\ \A t \in Threads : /\ state[t] \in {"NEW", "TERMINATED"} => entered[t] = {}
                        /\ state[t] \in {"BLOCKED", "WAITING"} <=> on[t] # D!NoMonitor
  /\ \A t, u \in Threads, m \in Monitors : Owns(t, m) /\ Owns(u, m) => t = u

BlocksOf(d) ==
  /\ DOMAIN d.block \subseteq Threads
  /\ \A t \in DOMAIN d.block :
       /\ d.block[t].name = NameOf[t] /\ d.block[t].nid = t
       /\ d.block[t].state \in {"RUNNABLE", "BLOCKED", "WAITING"}

(* Who shows "- locked" holds the monitor, if nobody waits on it.          *)
OwnersOf(d) ==
  \A m \in Monitors :
    /\ d.holder[m] \subseteq Threads /\ \A t, u \in d.holder[m] : t = u
    /\ d.waits[m] = {} => d.holder[m] = {t \in DOMAIN d.block : m \in d.block[t].locked}

DumpPart == /\ \E all : dumps \in Seq(all)
            /\ \A i \in DOMAIN dumps : BlocksOf(dumps[i]) /\ OwnersOf(dumps[i])

DumpInv == ThreadPart /\ DumpPart

LEMMA CardinalityOfDump == ASSUME NEW all PROVE D!Cardinality(all) = Cardinality(all)
  BY DEF D!Cardinality, Cardinality, D!IsFiniteSet, IsFiniteSet

LEMMA LastAppended ==
  ASSUME NEW all, NEW s \in Seq(all), NEW x
  PROVE  /\ Append(s, x) \in Seq(all \cup {x}) /\ DOMAIN Append(s, x) = 1..Len(s) + 1
         /\ \A i \in 1..Len(s) : Append(s, x)[i] = s[i]
         /\ Append(s, x)[Len(s) + 1] = x
<1>1. s \in Seq(all \cup {x})
  OBVIOUS
<1>2. QED
  BY <1>1

LEMMA DumpInit == D!Init => DumpInv
<1>1. ASSUME D!Init PROVE ThreadPart
  <2>1. state \in [Threads -> DumpStates] /\ \A t \in Threads : state[t] \in {"NEW", "RUNNABLE"}
    BY <1>1 DEF D!Init, DumpStates
  <2>2. \A t \in Threads : entered[t] = {} /\ on[t] = D!NoMonitor
    BY <1>1 DEF D!Init
  <2>3. entered \in [Threads -> SUBSET Monitors] /\ on \in [Threads -> Monitors \cup {D!NoMonitor}]
        /\ frame \in [Threads -> D!StackFrames]
    BY <1>1 DEF D!Init, D!StackFrames
  <2>4. QED
    BY <2>1, <2>2, <2>3 DEF ThreadPart, Owns
<1>2. ASSUME D!Init PROVE DumpPart
  <2>1. dumps \in Seq({}) /\ DOMAIN dumps = {}
    BY <1>2 DEF D!Init
  <2>2. QED
    BY <2>1 DEF DumpPart
<1>3. QED
  BY <1>1, <1>2 DEF DumpInv

(* One thread changes: it owns what it owned, or what nobody did.          *)
Rightful(t, m, e) == \A k \in e : k = m \/ Owns(t, k) \/ \A u \in Threads : ~Owns(u, k)

LEMMA OneThread ==
  ASSUME ThreadPart, NEW t \in Threads, NEW s \in DumpStates, NEW m \in Monitors \cup {D!NoMonitor},
         NEW e \in SUBSET Monitors, D!Put(t, s, m, e),
         s \in {"NEW", "TERMINATED"} => e = {}, s \in {"BLOCKED", "WAITING"} <=> m # D!NoMonitor,
         Rightful(t, m, e)
  PROVE  ThreadPart'
<1>1. /\ state' = [state EXCEPT ![t] = s] /\ on' = [on EXCEPT ![t] = m]
      /\ entered' = [entered EXCEPT ![t] = e]
  BY DEF D!Put
<1>2. state' \in [Threads -> DumpStates] /\ on' \in [Threads -> Monitors \cup {D!NoMonitor}]
      /\ entered' \in [Threads -> SUBSET Monitors]
  BY <1>1 DEF ThreadPart
<1>3. frame' \in [Threads -> D!StackFrames]
  BY DEF D!Put, ThreadPart, D!StackFrames
<1>4. \A u \in Threads : /\ state'[u] = (IF u = t THEN s ELSE state[u])
                         /\ on'[u] = (IF u = t THEN m ELSE on[u])
                         /\ entered'[u] = (IF u = t THEN e ELSE entered[u])
  BY <1>1 DEF ThreadPart
<1>5. \A u \in Threads : /\ state'[u] \in {"NEW", "TERMINATED"} => entered'[u] = {}
                         /\ state'[u] \in {"BLOCKED", "WAITING"} <=> on'[u] # D!NoMonitor
  BY <1>4 DEF ThreadPart
<1>6. \A u, v \in Threads, k \in Monitors :
        (k \in entered'[u] /\ on'[u] # k) /\ (k \in entered'[v] /\ on'[v] # k) => u = v
  BY <1>4 DEF ThreadPart, Owns, Rightful
<1>7. QED
  BY <1>2, <1>3, <1>5, <1>6 DEF ThreadPart, Owns

LEMMA ThreadStep == ASSUME ThreadPart, [D!Next]_D!vars PROVE ThreadPart'
<1> USE MonitorsAssumption DEF D!Holds, D!Free, Owns, D!NoMonitor
<1>1. ASSUME NEW t \in Threads, D!Start(t) \/ D!End(t) PROVE ThreadPart'
  <2>1. PICK s \in {"RUNNABLE", "TERMINATED"} : D!Put(t, s, D!NoMonitor, {})
    BY <1>1 DEF D!Start, D!End
  <2>2. Rightful(t, D!NoMonitor, {})
    BY DEF Rightful
  <2>3. QED
    BY <2>1, <2>2, OneThread DEF DumpStates
<1>2. ASSUME NEW t \in Threads, D!Acquire(t) PROVE ThreadPart'
  <2>1. on[t] \in Monitors /\ entered[t] \cup {on[t]} \in SUBSET Monitors
    BY <1>2 DEF D!Acquire, ThreadPart
  <2>2. D!Put(t, "RUNNABLE", D!NoMonitor, entered[t] \cup {on[t]}) /\ \A u \in Threads : ~Owns(u, on[t])
    BY <1>2 DEF D!Acquire
  <2>3. Rightful(t, D!NoMonitor, entered[t] \cup {on[t]})
    BY <2>2 DEF Rightful
  <2>4. QED
    BY <2>1, <2>2, <2>3, OneThread DEF DumpStates
<1>3. ASSUME NEW t \in Threads, D!Notified(t) PROVE ThreadPart'
  <2>1. on[t] \in Monitors /\ on[t] # D!NoMonitor /\ entered[t] \in SUBSET Monitors
    BY <1>3 DEF D!Notified, ThreadPart
  <2>2. D!Put(t, "BLOCKED", on[t], entered[t])
    BY <1>3 DEF D!Notified
  <2>3. Rightful(t, on[t], entered[t])
    BY DEF Rightful
  <2>4. QED
    BY <2>1, <2>2, <2>3, OneThread DEF DumpStates
<1>4. ASSUME NEW t \in Threads, D!Step(t) PROVE ThreadPart'
  BY <1>4 DEF D!Step, ThreadPart, D!StackFrames
<1>5. ASSUME NEW t \in Threads, NEW m \in Monitors, D!Enter(t, m) PROVE ThreadPart'
  <2>1. /\ entered[t] \in SUBSET Monitors /\ entered[t] \cup {m} \in SUBSET Monitors
        /\ on[t] = D!NoMonitor /\ m # D!NoMonitor
    BY <1>5 DEF D!Enter, ThreadPart
  <2>2. CASE D!Free(m) /\ D!Put(t, "RUNNABLE", D!NoMonitor, entered[t] \cup {m})
    <3>1. Rightful(t, D!NoMonitor, entered[t] \cup {m})
      BY <2>1, <2>2 DEF Rightful
    <3>2. QED
      BY <2>1, <2>2, <3>1, OneThread DEF DumpStates
  <2>3. CASE D!Put(t, "BLOCKED", m, entered[t])
    <3>1. Rightful(t, m, entered[t])
      BY <2>1 DEF Rightful
    <3>2. QED
      BY <2>1, <2>3, <3>1, OneThread DEF DumpStates
  <2>4. QED
    BY <1>5, <2>2, <2>3 DEF D!Enter
<1>6. ASSUME NEW t \in Threads, NEW m \in Monitors, D!Exit(t, m) PROVE ThreadPart'
  <2>1. entered[t] \in SUBSET Monitors /\ on[t] = D!NoMonitor
    BY <1>6 DEF D!Exit, ThreadPart
  <2>2. D!Put(t, "RUNNABLE", D!NoMonitor, entered[t] \ {m})
    BY <1>6 DEF D!Exit
  <2>3. Rightful(t, D!NoMonitor, entered[t] \ {m})
    BY <2>1 DEF Rightful
  <2>4. QED
    BY <2>1, <2>2, <2>3, OneThread DEF DumpStates
<1>7. ASSUME NEW t \in Threads, NEW m \in Monitors, D!Wait(t, m) PROVE ThreadPart'
  <2>1. entered[t] \in SUBSET Monitors /\ on[t] = D!NoMonitor /\ m # D!NoMonitor
    BY <1>7 DEF D!Wait, ThreadPart
  <2>2. D!Put(t, "WAITING", m, entered[t])
    BY <1>7 DEF D!Wait
  <2>3. Rightful(t, m, entered[t])
    BY <2>1 DEF Rightful
  <2>4. QED
    BY <2>1, <2>2, <2>3, OneThread DEF DumpStates
<1>8. CASE D!Dump \/ UNCHANGED D!vars
  BY <1>8 DEF D!Dump, D!vars, ThreadPart
<1>9. QED
  BY <1>1, <1>2, <1>3, <1>4, <1>5, <1>6, <1>7, <1>8 DEF D!Next

LEMMA DumpPartStep == ASSUME ThreadPart, DumpPart, [D!Next]_D!vars PROVE DumpPart'
<1>1. CASE D!Dump
  <2> DEFINE d == [block |-> [t \in D!Listed |-> D!Block(t)],
                   holder |-> [m \in Monitors |-> {t \in Threads : D!Holds(t, m)}],
                   waits |-> [m \in Monitors |-> {t \in Threads : m \in entered[t] /\ on[t] = m}]]
  <2>1. D!Listed \subseteq Threads /\ \A t \in D!Listed : state[t] \in {"RUNNABLE", "BLOCKED", "WAITING"}
    BY DEF D!Listed, ThreadPart, DumpStates
  <2>2. d.block = [t \in D!Listed |-> D!Block(t)]
    OBVIOUS
  <2>3. BlocksOf(d)
    <3> HIDE DEF d
    <3>1. DOMAIN d.block = D!Listed /\ \A t \in D!Listed : d.block[t] = D!Block(t)
      BY <2>2
    <3>2. \A t \in D!Listed : D!Block(t).name = NameOf[t] /\ D!Block(t).nid = t /\ D!Block(t).state = state[t]
      BY DEF D!Block
    <3>3. QED
      BY <2>1, <3>1, <3>2 DEF BlocksOf
  <2>4. OwnersOf(d)
    <3>1. SUFFICES ASSUME NEW m \in Monitors
                   PROVE  /\ d.holder[m] \subseteq Threads /\ \A t, u \in d.holder[m] : t = u
                          /\ d.waits[m] = {} => d.holder[m] = {t \in DOMAIN d.block : m \in d.block[t].locked}
      BY DEF OwnersOf
    <3>2. d.holder[m] = {t \in Threads : D!Holds(t, m)} /\ d.waits[m] = {t \in Threads : m \in entered[t] /\ on[t] = m}
      OBVIOUS
    <3>3. {t \in DOMAIN d.block : m \in d.block[t].locked} = {t \in D!Listed : m \in entered[t]}
      <4> HIDE DEF d
      <4>1. DOMAIN d.block = D!Listed /\ \A t \in D!Listed : d.block[t].locked = entered[t]
        BY <2>2 DEF D!Block
      <4>2. QED
        BY <4>1
    <3>4. {t \in D!Listed : m \in entered[t]} = {t \in Threads : m \in entered[t]}
      BY DEF D!Listed, ThreadPart
    <3>5. \A t, u \in {k \in Threads : D!Holds(k, m)} : t = u
      BY DEF D!Holds, ThreadPart, Owns
    <3>6. {t \in Threads : m \in entered[t] /\ on[t] = m} = {} =>
            {t \in Threads : D!Holds(t, m)} = {t \in Threads : m \in entered[t]}
      BY DEF D!Holds
    <3>7. QED
      <4> HIDE DEF d
      <4>1. QED
        BY <3>2, <3>3, <3>4, <3>5, <3>6
  <2>5. dumps' = Append(dumps, d)
    BY <1>1 DEF D!Dump
  <2>6. QED
    <3> HIDE DEF d
    <3>1. PICK all : dumps \in Seq(all)
      BY DEF DumpPart
    <3>2. /\ Append(dumps, d) \in Seq(all \cup {d}) /\ DOMAIN Append(dumps, d) = 1..Len(dumps) + 1
          /\ \A i \in 1..Len(dumps) : Append(dumps, d)[i] = dumps[i]
          /\ Append(dumps, d)[Len(dumps) + 1] = d
      BY <3>1, LastAppended
    <3>3. \A i \in 1..Len(dumps) + 1 : i \in DOMAIN dumps \/ i = Len(dumps) + 1
      BY <3>1
    <3>4. \A i \in DOMAIN Append(dumps, d) : BlocksOf(Append(dumps, d)[i]) /\ OwnersOf(Append(dumps, d)[i])
      BY <2>3, <2>4, <3>1, <3>2, <3>3 DEF DumpPart
    <3>5. QED
      BY <2>5, <3>2, <3>4 DEF DumpPart, BlocksOf, OwnersOf
<1>2. CASE UNCHANGED dumps
  BY <1>2 DEF DumpPart, BlocksOf, OwnersOf
<1>3. QED
  BY <1>1, <1>2 DEF D!Next, D!vars, D!Start, D!End, D!Acquire, D!Notified, D!Step, D!Enter, D!Exit, D!Wait, D!Put

(* Of one thread the last and the first are that thread. *)
LEMMA TheOnly ==
  ASSUME NEW all, NEW t \in Nat, all = {t}
  PROVE  /\ (CHOOSE u \in all : \A v \in all : u <= v) = t
         /\ (CHOOSE u \in all : \A v \in all : v <= u) = t
  OBVIOUS

LEMMA DumpOwners == DumpInv => D!OwnerIsHolder
<1>1. SUFFICES ASSUME DumpInv, NEW i \in DOMAIN dumps, NEW m \in Monitors, dumps[i].waits[m] = {}
               PROVE  D!Owner(dumps[i], m) = D!Names(dumps[i].holder[m])
  BY DEF D!OwnerIsHolder, D!Contended
<1> DEFINE show == {t \in DOMAIN dumps[i].block : m \in dumps[i].block[t].locked}
<1>2. /\ dumps[i].holder[m] = show /\ show \subseteq Threads /\ \A t, u \in show : t = u
      /\ \A t \in DOMAIN dumps[i].block : dumps[i].block[t].name = NameOf[t]
  BY <1>1 DEF DumpInv, DumpPart, BlocksOf, OwnersOf
<1>3. CASE show = {}
  <2>1. D!Owner(dumps[i], m) = {}
    BY <1>3 DEF D!Owner
  <2>2. QED
    BY <1>2, <1>3, <2>1 DEF D!Names
<1>4. CASE show # {}
  <2>1. PICK t \in show : show = {t}
    BY <1>2, <1>4
  <2>2. t \in Nat /\ t \in DOMAIN dumps[i].block
    BY <1>2, <2>1, MonitorsAssumption
  <2>3. (CHOOSE u \in show : \A v \in show : v <= u) = t
    <3> HIDE DEF show
    <3>1. QED
      BY <2>1, <2>2, TheOnly
  <2>4. D!Owner(dumps[i], m) = {dumps[i].block[t].name}
    BY <1>4, <2>3 DEF D!Owner
  <2>5. D!Names(show) = {NameOf[t]}
    <3> HIDE DEF show
    <3>1. QED
      BY <2>1 DEF D!Names
  <2>6. QED
    BY <1>2, <2>2, <2>4, <2>5
<1>5. QED
  BY <1>3, <1>4

(* Who is found by name and native id is the thread itself. *)
Shown(t, d) == t \in DOMAIN d.block
Foundlings(d, a) == {u \in DOMAIN d.block : D!Same(d.block[u], a)}
Found(d, a) == CHOOSE u \in Foundlings(d, a) : \A v \in Foundlings(d, a) : u <= v

LEMMA FoundIsSame ==
  ASSUME DumpPart, NEW i \in DOMAIN dumps, NEW j \in DOMAIN dumps, NEW t \in DOMAIN dumps[j].block
  PROVE  /\ Foundlings(dumps[i], dumps[j].block[t]) # {} <=> Shown(t, dumps[i])
         /\ Shown(t, dumps[i]) => Found(dumps[i], dumps[j].block[t]) = t
<1>1. t \in Threads /\ t \in Nat /\ dumps[j].block[t].nid = t /\ dumps[j].block[t].name = NameOf[t]
  BY MonitorsAssumption DEF DumpPart, BlocksOf
<1>2. \A u \in DOMAIN dumps[i].block : dumps[i].block[u].nid = u /\ dumps[i].block[u].name = NameOf[u]
  BY DEF DumpPart, BlocksOf
<1>3. Foundlings(dumps[i], dumps[j].block[t]) = (IF Shown(t, dumps[i]) THEN {t} ELSE {})
  BY <1>1, <1>2 DEF Foundlings, Shown, D!Same
<1>4. QED
  BY <1>1, <1>3, TheOnly DEF Found

LEMMA StuckThreads ==
  ASSUME DumpPart, NEW t
  PROVE  t \in D!Stuck <=>
           /\ Len(dumps) >= 2 /\ Shown(t, dumps[1])
           /\ dumps[1].block[t].state \in {"RUNNABLE", "BLOCKED"}
           /\ dumps[1].block[t].frame \notin D!IdleFrames
           /\ \A i \in 2..Len(dumps) : /\ Shown(t, dumps[i])
                                       /\ dumps[i].block[t].frame = dumps[1].block[t].frame
                                       /\ dumps[i].block[t].state = dumps[1].block[t].state
<1>1. Len(dumps) \in Nat /\ DOMAIN dumps = 1..Len(dumps)
  BY DEF DumpPart
<1>2. CASE Len(dumps) < 2
  BY <1>1, <1>2 DEF D!Stuck
<1>3. CASE ~(Len(dumps) < 2)
  <2>1. 1 \in DOMAIN dumps /\ 2..Len(dumps) \subseteq DOMAIN dumps
    BY <1>1, <1>3
  <2>2. t \in D!Stuck <=>
           /\ Shown(t, dumps[1])
           /\ dumps[1].block[t].state \in {"RUNNABLE", "BLOCKED"}
           /\ dumps[1].block[t].frame \notin D!IdleFrames
           /\ \A i \in 2..Len(dumps) :
                /\ Foundlings(dumps[i], dumps[1].block[t]) # {}
                /\ LET b == dumps[i].block[Found(dumps[i], dumps[1].block[t])]
                   IN  b.frame = dumps[1].block[t].frame /\ b.state = dumps[1].block[t].state
    BY <1>3 DEF D!Stuck, Foundlings, Found, Shown
  <2>3. ASSUME Shown(t, dumps[1]), NEW i \in 2..Len(dumps)
        PROVE  /\ Foundlings(dumps[i], dumps[1].block[t]) # {} <=> Shown(t, dumps[i])
               /\ Shown(t, dumps[i]) => Found(dumps[i], dumps[1].block[t]) = t
    BY <2>1, <2>3, FoundIsSame DEF Shown
  <2>4. QED
    BY <1>1, <1>3, <2>2, <2>3
<1>4. QED
  BY <1>2, <1>3

LEMMA DumpStuck == DumpInv => D!StuckIsSameThread
<1>1. SUFFICES ASSUME DumpInv PROVE D!StuckIsSameThread
  OBVIOUS
<1>2. DumpPart /\ Len(dumps) \in Nat /\ DOMAIN dumps = 1..Len(dumps)
  BY <1>1 DEF DumpInv, DumpPart
<1>3. \A i \in DOMAIN dumps : i = 1 \/ i \in 2..Len(dumps)
  BY <1>2
<1>4. ASSUME NEW t \in D!Stuck, NEW i \in DOMAIN dumps
      PROVE  /\ t \in DOMAIN dumps[i].block
             /\ dumps[i].block[t].frame = dumps[1].block[t].frame
             /\ dumps[i].block[t].state = dumps[1].block[t].state
  BY <1>2, <1>3, StuckThreads DEF Shown
<1>5. ASSUME NEW t \in D!Stuck PROVE D!SameTopFrames(t)
  <2>1. D!With(t) = 1..Len(dumps) /\ Len(dumps) >= 2
    BY <1>2, <1>4, <1>5, StuckThreads DEF D!With
  <2>2. D!Cardinality(D!With(t)) = Len(dumps)
    BY <1>2, <2>1, CardinalityOfDump, FS_Interval
  <2>3. QED
    BY <1>2, <1>4, <2>1, <2>2 DEF D!SameTopFrames
<1>6. ASSUME NEW t \in Threads, D!SameTopFrames(t),
             \A i \in DOMAIN dumps :
               /\ t \in DOMAIN dumps[i].block
               /\ dumps[i].block[t].state # "WAITING" /\ dumps[i].block[t].frame \notin D!IdleFrames
               /\ dumps[i].block[t].state = dumps[1].block[t].state
      PROVE  t \in D!Stuck
  <2>1. D!With(t) = 1..Len(dumps)
    BY <1>2, <1>6 DEF D!With
  <2>2. Len(dumps) >= 2
    <3>1. D!Cardinality(D!With(t)) = Len(dumps)
      BY <1>2, <2>1, CardinalityOfDump, FS_Interval
    <3>2. QED
      BY <1>2, <1>6, <3>1 DEF D!SameTopFrames
  <2>3. 1 \in DOMAIN dumps /\ 2..Len(dumps) \subseteq DOMAIN dumps
    BY <1>2, <2>2
  <2>4. dumps[1].block[t].state \in {"RUNNABLE", "BLOCKED"}
    BY <1>2, <1>6, <2>3 DEF DumpPart, BlocksOf
  <2>5. \A i \in 2..Len(dumps) : dumps[i].block[t].frame = dumps[1].block[t].frame
    BY <1>2, <1>6, <2>1, <2>3 DEF D!SameTopFrames
  <2>6. QED
    BY <1>2, <1>6, <2>2, <2>3, <2>4, <2>5, StuckThreads DEF Shown
<1>7. QED
  BY <1>4, <1>5, <1>6 DEF D!StuckIsSameThread

-----------------------------------------------------------------------------
(* compare-bundles.py.  What the comparison has read are the greatest      *)
(* shares of each period, and a share that is not listed is no greater     *)
(* than those that are.                                                    *)

LEMMA CardinalityOfCompare == ASSUME NEW all PROVE C!Cardinality(all) = Cardinality(all)
  BY DEF C!Cardinality, Cardinality, C!IsFiniteSet, IsFiniteSet

LEMMA LeastOfCompare ==
  ASSUME NEW all, all \subseteq Nat, all # {}
  PROVE  C!Min(all) \in all /\ \A x \in all : C!Min(all) <= x
  BY LeastNumber DEF C!Min

LEMMA SmallerOfCompare ==
  ASSUME NEW x \in Nat, NEW y \in Nat
  PROVE  /\ C!Min({x, y}) = IF x <= y THEN x ELSE y
         /\ C!Max({x, y}) = IF x <= y THEN y ELSE x
<1>1. C!Min({x, y}) \in {x, y} /\ C!Min({x, y}) <= x /\ C!Min({x, y}) <= y
  BY LeastOfCompare
<1>2. \E z \in {x, y} : z >= x /\ z >= y
  OBVIOUS
<1>3. C!Max({x, y}) \in {x, y} /\ C!Max({x, y}) >= x /\ C!Max({x, y}) >= y
  BY <1>2 DEF C!Max
<1>4. QED
  BY <1>1, <1>3

LEMMA GreatestFew ==
  ASSUME NEW all, IsFiniteSet(all), NEW measure, NEW n \in Nat, NEW few \in C!Greatest(all, measure, n)
  PROVE  /\ few \subseteq all /\ IsFiniteSet(few) /\ Cardinality(few) \in Nat
         /\ C!Cardinality(few) < n => few = all
         /\ \A x \in few, y \in all \ few : measure[x] >= measure[y]
<1>1. few \in SUBSET all /\ \A x \in few, y \in all \ few : measure[x] >= measure[y]
  BY DEF C!Greatest
<1>2. IsFiniteSet(few) /\ Cardinality(few) \in Nat /\ Cardinality(all) \in Nat
  BY <1>1, FS_Subset, FS_CardinalityType
<1>3. C!Cardinality(few) = C!Min({n, C!Cardinality(all)})
  BY DEF C!Greatest
<1>4. C!Cardinality(few) < n => Cardinality(few) = Cardinality(all)
  BY <1>2, <1>3, SmallerOfCompare, CardinalityOfCompare
<1>5. QED
  BY <1>1, <1>2, <1>4, FS_Subset

(* A larger part of the same is no less. *)
LEMMA ShareGrows ==
  ASSUME NEW w \in Nat, NEW m \in Nat, NEW n \in Nat, m <= n, NEW all \in Nat, all > 0
  PROVE  /\ (w * m) \div all \in Nat /\ (w * n) \div all \in Nat
         /\ (w * m) \div all <= (w * n) \div all /\ (w * 0) \div all = 0
<1>1. w * m \in Nat /\ w * n \in Nat /\ w * m <= w * n /\ w * 0 = 0
  OBVIOUS
<1>2. ASSUME NEW p \in Nat, NEW q \in Nat, p <= q
      PROVE  p \div all \in Nat /\ q \div all \in Nat /\ p \div all <= q \div all
  <2>1. PICK i \in Nat, j \in Nat : i = p \div all /\ j = q \div all
    OBVIOUS
  <2>2. all * i <= p /\ q < all * (j + 1)
    BY <2>1
  <2>3. ASSUME j + 1 <= i PROVE all * (j + 1) <= all * i
    BY <2>3
  <2>4. i <= j
    BY <1>2, <2>2, <2>3
  <2>5. QED
    BY <2>1, <2>4
<1>3. QED
  BY <1>1, <1>2

(* What a table says of a frame, and at most how much it leaves out. *)
LEMMA TableIsTrue ==
  ASSUME NEW of \in [Frames -> Nat], C!Total(of) > 0, NEW shown \in C!CollapsedTop(of)
  PROVE  /\ DOMAIN shown \subseteq Frames /\ IsFiniteSet(DOMAIN shown)
         /\ \A f \in Frames : C!Share(of, f) \in Nat
         /\ \A f \in DOMAIN shown : shown[f] = C!Share(of, f)
         /\ C!Unlisted(shown) \in Nat
         /\ \A f \in Frames \ DOMAIN shown : C!Share(of, f) <= C!Unlisted(shown)
<1> DEFINE some == {f \in Frames : of[f] > 0}
<1>1. C!Total(of) \in Nat
  <2>1. IsFiniteSet(Frames) /\ \A f \in Frames : of[f] \in Nat
    BY ComparisonAssumption
  <2>2. C!SamplesOf(of) = UnitsOf(of, Frames)
    BY DEF C!SamplesOf, UnitsOf
  <2>3. QED
    BY <2>1, <2>2, UnitsAreFinite, CardinalityOfCompare DEF C!Total
<1>2. ASSUME NEW f \in Frames, NEW g \in Frames, of[f] <= of[g]
      PROVE  C!Share(of, f) \in Nat /\ C!Share(of, g) \in Nat /\ C!Share(of, f) <= C!Share(of, g)
  BY <1>1, <1>2, ComparisonAssumption, ShareGrows DEF C!Share
<1>3. ASSUME NEW f \in Frames, of[f] = 0 PROVE C!Share(of, f) = 0
  BY <1>1, <1>3, ComparisonAssumption, ShareGrows DEF C!Share
<1>4. PICK top \in C!Greatest(some, of, TopLimit) : shown = [f \in top |-> C!Share(of, f)]
  BY DEF C!CollapsedTop
<1>5. IsFiniteSet(some)
  BY ComparisonAssumption, FS_Subset
<1>6. /\ top \subseteq some /\ IsFiniteSet(top) /\ Cardinality(top) \in Nat
      /\ C!Cardinality(top) < TopLimit => top = some
      /\ \A x \in top, y \in some \ top : of[x] >= of[y]
  <2> HIDE DEF some
  <2>1. QED
    BY <1>4, <1>5, ComparisonAssumption, GreatestFew
<1>7. DOMAIN shown = top /\ \A f \in top : shown[f] = C!Share(of, f)
  BY <1>4
<1>8. \A f \in Frames \ some : C!Share(of, f) = 0
  BY <1>3
<1>9. CASE C!Cardinality(top) < TopLimit
  <2>1. C!Unlisted(shown) = 0 /\ top = some
    BY <1>6, <1>7, <1>9 DEF C!Unlisted
  <2>2. QED
    <3> HIDE DEF some
    <3>1. \A f \in Frames : C!Share(of, f) \in Nat
      BY <1>2
    <3>2. top \subseteq Frames
      BY <1>6 DEF some
    <3>3. QED
      BY <1>6, <1>7, <1>8, <2>1, <3>1, <3>2
<1>10. CASE ~(C!Cardinality(top) < TopLimit)
  <2> DEFINE values == {shown[f] : f \in DOMAIN shown}
  <2>1. C!Unlisted(shown) = C!Min(values)
    BY <1>7, <1>10 DEF C!Unlisted
  <2>2. \A f \in Frames : C!Share(of, f) \in Nat
    BY <1>2
  <2>3. top \subseteq Frames
    BY <1>6
  <2>4. top # {}
    <3>1. Cardinality({}) = 0
      BY FS_EmptySet
    <3>2. QED
      BY <1>6, <1>10, <3>1, ComparisonAssumption, CardinalityOfCompare
  <2>5. values \subseteq Nat /\ values # {}
    BY <1>7, <2>2, <2>3, <2>4
  <2>6. C!Min(values) \in values /\ C!Min(values) \in Nat
    <3> HIDE DEF values
    <3>1. QED
      BY <2>5, LeastOfCompare
  <2>7. PICK g \in top : C!Min(values) = C!Share(of, g)
    BY <1>7, <2>6
  <2>8. ASSUME NEW f \in Frames \ top PROVE C!Share(of, f) <= C!Min(values)
    <3>1. CASE f \in some
      <4>1. of[f] \in Nat /\ of[g] \in Nat /\ of[g] >= of[f]
        BY <1>6, <2>3, <2>8, <3>1
      <4>2. QED
        BY <1>2, <2>3, <2>7, <2>8, <4>1
    <3>2. CASE f \notin some
      BY <1>8, <2>6, <2>8, <3>2
    <3>3. QED
      BY <3>1, <3>2
  <2>9. QED
    <3> HIDE DEF some, values
    <3>1. QED
      BY <1>6, <1>7, <2>1, <2>2, <2>3, <2>6, <2>8
<1>11. QED
  BY <1>9, <1>10

Counted == samples \in [C!Periods -> [Profiles -> [Frames -> Nat]]]

TablesPart ==
  /\ stage \in C!Periods \cup {"compare", "done"} /\ DOMAIN tables = C!Periods
  /\ stage \in C!Periods => tables["incident"] = <<>>
  /\ stage = "baseline" => tables["baseline"] = <<>>
  /\ \A p \in C!Periods : tables[p] # <<>> =>
       /\ DOMAIN tables[p] \subseteq Profiles /\ DOMAIN tables[p] # {}
       /\ \A q \in DOMAIN tables[p] : /\ C!Total(samples[p][q]) > 0
                                      /\ tables[p][q] \in C!CollapsedTop(samples[p][q])

ResultPart ==
  /\ result.by # "nobody" => stage = "done"
  /\ result.by = "main" =>
       /\ result.self \in C!ShareTables(C!FirstProfile(tables["baseline"]), C!FirstProfile(tables["incident"]))
       /\ result.cpu = C!Flag(C!CpuOf("baseline"), C!CpuOf("incident"))

CompareInv == Counted /\ TablesPart /\ ResultPart

LEMMA CompareInit == C!Init => CompareInv
  BY DEF C!Init, CompareInv, Counted, TablesPart, ResultPart, C!Periods

LEMMA CompareStep == CompareInv /\ [C!Next]_C!vars => CompareInv'
<1>1. SUFFICES ASSUME CompareInv, [C!Next]_C!vars PROVE CompareInv'
  OBVIOUS
<1>2. Counted /\ TablesPart /\ ResultPart
  BY <1>1 DEF CompareInv
<1>3. CASE C!Sample
  <2>1. PICK q \in Profiles, f \in Frames : samples' = [samples EXCEPT ![stage][q][f] = @ + 1]
    BY <1>3 DEF C!Sample
  <2>2. stage \in C!Periods /\ UNCHANGED <<stage, tables, result>>
    BY <1>3 DEF C!Sample
  <2>3. Counted'
    BY <1>2, <2>1, <2>2 DEF Counted
  <2>4. \A p \in C!Periods : p # stage => samples'[p] = samples[p]
    BY <1>2, <2>1 DEF Counted
  <2>5. \A p \in C!Periods : p = stage => tables[p] = <<>>
    BY <1>2, <2>2 DEF TablesPart, C!Periods
  <2>6. TablesPart'
    BY <1>2, <2>2, <2>4, <2>5 DEF TablesPart
  <2>7. ResultPart'
    BY <1>2, <2>2 DEF ResultPart, TablesPart, C!Periods
  <2>8. QED
    BY <2>3, <2>6, <2>7 DEF CompareInv
<1>4. CASE C!Analyse
  <2> DEFINE taken == {q \in Profiles : C!Total(samples[stage][q]) > 0}
  <2>1. PICK t \in [taken -> UNION {C!CollapsedTop(samples[stage][q]) : q \in taken}] :
          /\ \A q \in taken : t[q] \in C!CollapsedTop(samples[stage][q])
          /\ tables' = [tables EXCEPT ![stage] = t]
    BY <1>4 DEF C!Analyse
  <2>2. /\ stage \in C!Periods /\ stage' = (IF stage = "baseline" THEN "incident" ELSE "compare")
        /\ UNCHANGED <<samples, result>>
    BY <1>4 DEF C!Analyse
  <2>3. t = [q \in DOMAIN t |-> t[q]] /\ DOMAIN t = taken
    BY <2>1
  <2>4. t # <<>> => DOMAIN t # {}
    BY <2>3
  <2>5. \A p \in C!Periods : tables'[p] = IF p = stage THEN t ELSE tables[p]
    BY <1>2, <2>1 DEF TablesPart
  <2>6. DOMAIN tables' = C!Periods
    BY <1>2, <2>1 DEF TablesPart
  <2>7. TablesPart'
    <3>1. \A p \in C!Periods : tables'[p] # <<>> =>
            /\ DOMAIN tables'[p] \subseteq Profiles /\ DOMAIN tables'[p] # {}
            /\ \A q \in DOMAIN tables'[p] : /\ C!Total(samples[p][q]) > 0
                                            /\ tables'[p][q] \in C!CollapsedTop(samples[p][q])
      BY <1>2, <2>1, <2>3, <2>4, <2>5 DEF TablesPart
    <3>2. stage' \in C!Periods => tables'["incident"] = <<>>
      BY <1>2, <2>2, <2>5 DEF TablesPart, C!Periods
    <3>3. QED
      BY <2>2, <2>6, <3>1, <3>2 DEF TablesPart, C!Periods
  <2>8. ResultPart'
    BY <1>2, <2>2 DEF ResultPart, TablesPart, C!Periods
  <2>9. QED
    BY <1>2, <2>2, <2>7, <2>8 DEF CompareInv, Counted
<1>5. CASE C!LoadFails
  BY <1>2, <1>5 DEF C!LoadFails, CompareInv, Counted, TablesPart, ResultPart, C!Periods
<1>6. CASE C!Compare \/ UNCHANGED C!vars
  <2>1. UNCHANGED <<samples, tables>> /\ stage' \in {stage, "done"}
    BY <1>6 DEF C!Compare, C!vars
  <2>2. C!CpuOf("baseline")' = C!CpuOf("baseline") /\ C!CpuOf("incident")' = C!CpuOf("incident")
    BY <2>1 DEF C!CpuOf
  <2>3. TablesPart'
    BY <1>2, <2>1 DEF TablesPart, C!Periods
  <2>4. ResultPart'
    BY <1>2, <1>6, <2>1, <2>2 DEF ResultPart, C!Compare, C!vars
  <2>5. QED
    BY <1>2, <2>1, <2>3, <2>4 DEF CompareInv, Counted
<1>7. QED
  BY <1>1, <1>3, <1>4, <1>5, <1>6 DEF C!Next

LEMMA CompareRows ==
  ASSUME CompareInv, result.by = "main", C!SamePicked PROVE C!ChangesAreReal
<1> DEFINE q == C!FirstName(tables["baseline"])
           b == tables["baseline"][q]
           i == tables["incident"][q]
           was(f) == C!Share(samples["baseline"][q], f)
           now(f) == C!Share(samples["incident"][q], f)
           slack == C!Max({C!Unlisted(b), C!Unlisted(i)})
           width == [f \in C!NamesOf(b, i) |-> C!Distance(C!ShareIn(i, f), C!ShareIn(b, f))]
<1>1. Counted /\ TablesPart /\ ResultPart
  BY DEF CompareInv
<1>2. \A p \in {"baseline", "incident"} :
        /\ tables[p] # <<>> /\ C!FirstName(tables[p]) = q /\ q \in DOMAIN tables[p] /\ q \in Profiles
        /\ C!Total(samples[p][q]) > 0 /\ tables[p][q] \in C!CollapsedTop(samples[p][q])
        /\ samples[p][q] \in [Frames -> Nat]
  <2>1. \A p \in {"baseline", "incident"} : tables[p] # <<>> /\ C!FirstName(tables[p]) = q
    BY DEF C!SamePicked
  <2>2. \A p \in {"baseline", "incident"} : DOMAIN tables[p] \subseteq Nat /\ DOMAIN tables[p] # {}
    BY <1>1, <2>1, ComparisonAssumption DEF TablesPart, C!Periods
  <2>3. \A p \in {"baseline", "incident"} : C!FirstName(tables[p]) \in DOMAIN tables[p]
    BY <2>2, LeastOfCompare DEF C!FirstName
  <2>4. QED
    <3> HIDE DEF q
    <3>1. QED
      BY <1>1, <2>1, <2>3 DEF TablesPart, Counted, C!Periods
<1>3. /\ \A f \in Frames : was(f) \in Nat /\ now(f) \in Nat
      /\ DOMAIN b \subseteq Frames /\ IsFiniteSet(DOMAIN b) /\ C!Unlisted(b) \in Nat
      /\ \A f \in DOMAIN b : b[f] = was(f)
      /\ \A f \in Frames \ DOMAIN b : was(f) <= C!Unlisted(b)
      /\ DOMAIN i \subseteq Frames /\ IsFiniteSet(DOMAIN i) /\ C!Unlisted(i) \in Nat
      /\ \A f \in DOMAIN i : i[f] = now(f)
      /\ \A f \in Frames \ DOMAIN i : now(f) <= C!Unlisted(i)
  <2> HIDE DEF q
  <2>1. QED
    BY <1>2, TableIsTrue
<1>4. slack \in Nat /\ C!Unlisted(b) <= slack /\ C!Unlisted(i) <= slack
  <2>1. C!Unlisted(b) \in Nat /\ C!Unlisted(i) \in Nat
    BY <1>3
  <2> HIDE DEF b, i
  <2>2. QED
    BY <2>1, SmallerOfCompare
<1>5. \A f \in Frames :
        /\ C!ShareIn(i, f) \in Nat /\ C!ShareIn(i, f) <= now(f) /\ now(f) - C!ShareIn(i, f) <= slack
        /\ C!ShareIn(b, f) \in Nat /\ C!ShareIn(b, f) <= was(f) /\ was(f) - C!ShareIn(b, f) <= slack
        /\ f \in DOMAIN i => C!ShareIn(i, f) = now(f)
        /\ f \in DOMAIN b => C!ShareIn(b, f) = was(f)
  <2> HIDE DEF q, b, i, now, was, slack
  <2>1. QED
    BY <1>3, <1>4 DEF C!ShareIn
<1>6. \A f \in Frames :
        /\ C!Distance(C!ShareIn(i, f) - C!ShareIn(b, f), now(f) - was(f)) <= slack
        /\ C!Distance(C!ShareIn(i, f), C!ShareIn(b, f)) \in Nat
        /\ C!Distance(C!ShareIn(i, f) - C!ShareIn(b, f), 0) = C!Distance(C!ShareIn(i, f), C!ShareIn(b, f))
        /\ C!Distance(now(f), was(f)) <= C!Distance(C!ShareIn(i, f), C!ShareIn(b, f)) + slack
        /\ C!Distance(now(f), was(f)) \in Nat
  <2> HIDE DEF q, b, i, now, was, slack
  <2>1. \A f \in Frames : now(f) \in Nat /\ was(f) \in Nat
    BY <1>3
  <2>2. \A f \in Frames : C!Distance(now(f), was(f)) \in Nat
    BY <2>1 DEF C!Distance
  <2>3. ASSUME NEW f \in Frames
        PROVE  /\ C!Distance(C!ShareIn(i, f) - C!ShareIn(b, f), now(f) - was(f)) <= slack
               /\ C!Distance(C!ShareIn(i, f), C!ShareIn(b, f)) \in Nat
               /\ C!Distance(C!ShareIn(i, f) - C!ShareIn(b, f), 0) = C!Distance(C!ShareIn(i, f), C!ShareIn(b, f))
               /\ C!Distance(now(f), was(f)) <= C!Distance(C!ShareIn(i, f), C!ShareIn(b, f)) + slack
    <3>1. /\ now(f) \in Nat /\ was(f) \in Nat
          /\ C!ShareIn(i, f) \in Nat /\ C!ShareIn(b, f) \in Nat /\ slack \in Nat
          /\ C!ShareIn(i, f) <= now(f) /\ now(f) - C!ShareIn(i, f) <= slack
          /\ C!ShareIn(b, f) <= was(f) /\ was(f) - C!ShareIn(b, f) <= slack
      BY <1>4, <1>5, <2>1
    <3>2. QED
      BY <3>1 DEF C!Distance
  <2>4. QED
    BY <2>2, <2>3
<1>7. PICK few \in C!Greatest(C!NamesOf(b, i), width, RowLimit) :
        result.self = [f \in few |-> C!ShareIn(i, f) - C!ShareIn(b, f)]
  <2>1. C!FirstProfile(tables["baseline"]) = b /\ C!FirstProfile(tables["incident"]) = i
    BY <1>2 DEF C!FirstProfile
  <2>2. result.self \in C!ShareTables(b, i)
    BY <1>1, <2>1 DEF ResultPart
  <2>3. QED
    BY <2>2 DEF C!ShareTables
<1>8. C!NamesOf(b, i) = DOMAIN b \cup DOMAIN i /\ IsFiniteSet(C!NamesOf(b, i)) /\ C!NamesOf(b, i) \subseteq Frames
  <2> HIDE DEF q, b, i
  <2>1. QED
    BY <1>3, FS_Union DEF C!NamesOf
<1>9. /\ few \subseteq C!NamesOf(b, i) /\ IsFiniteSet(few) /\ Cardinality(few) \in Nat
      /\ C!Cardinality(few) < RowLimit => few = C!NamesOf(b, i)
      /\ \A x \in few, y \in C!NamesOf(b, i) \ few : width[x] >= width[y]
  <2> HIDE DEF q, b, i, width
  <2>1. QED
    BY <1>7, <1>8, ComparisonAssumption, GreatestFew
<1> DEFINE least == IF C!Cardinality(DOMAIN result.self) < RowLimit THEN 0
                    ELSE C!Min({C!Distance(result.self[f], 0) : f \in DOMAIN result.self})
<1>10. DOMAIN result.self = few /\ \A f \in few : result.self[f] = C!ShareIn(i, f) - C!ShareIn(b, f)
  BY <1>7
<1>11. \A f \in C!NamesOf(b, i) : width[f] = C!Distance(C!ShareIn(i, f), C!ShareIn(b, f))
  OBVIOUS
<1>12. least \in Nat /\ \A f \in C!NamesOf(b, i) \ few : width[f] <= least
  <2> DEFINE sizes == {C!Distance(result.self[f], 0) : f \in DOMAIN result.self}
  <2>1. CASE C!Cardinality(few) < RowLimit
    <3>1. least = 0 /\ few = C!NamesOf(b, i)
      BY <1>9, <1>10, <2>1
    <3>2. QED
      BY <3>1
  <2>2. CASE ~(C!Cardinality(few) < RowLimit)
    <3>1. least = C!Min(sizes)
      BY <1>10, <2>2
    <3> HIDE DEF q, b, i, width, least
    <3>2. few # {}
      <4>1. Cardinality({}) = 0
        BY FS_EmptySet
      <4>2. QED
        BY <1>9, <2>2, <4>1, ComparisonAssumption, CardinalityOfCompare
    <3>3. \A f \in few : C!Distance(result.self[f], 0) = width[f] /\ width[f] \in Nat
      BY <1>6, <1>8, <1>9, <1>10, <1>11
    <3>4. sizes \subseteq Nat /\ sizes # {} /\ \A n \in sizes : \E f \in few : n = width[f]
      BY <1>10, <3>2, <3>3
    <3>5. C!Min(sizes) \in sizes /\ C!Min(sizes) \in Nat
      <4> HIDE DEF sizes
      <4>1. QED
        BY <3>4, LeastOfCompare
    <3>6. PICK g \in few : least = width[g]
      <4> HIDE DEF sizes
      <4>1. QED
        BY <3>1, <3>4, <3>5
    <3>7. \A f \in C!NamesOf(b, i) : width[f] \in Nat
      BY <1>6, <1>8, <1>11
    <3>8. QED
      BY <1>9, <3>1, <3>5, <3>6, <3>7
  <2>3. QED
    BY <2>1, <2>2
<1>13. ASSUME NEW f \in Frames
       PROVE  IF f \in DOMAIN result.self
              THEN /\ f \in DOMAIN b \cap DOMAIN i => result.self[f] = now(f) - was(f)
                   /\ C!Distance(result.self[f], now(f) - was(f)) <= slack
              ELSE C!Distance(now(f), was(f)) <= least + slack
  <2> HIDE DEF q, b, i, now, was, slack, width, least
  <2>1. CASE f \in few
    BY <1>5, <1>6, <1>10, <2>1
  <2>2. CASE f \in C!NamesOf(b, i) \ few
    <3>1. width[f] = C!Distance(C!ShareIn(i, f), C!ShareIn(b, f)) /\ width[f] <= least
      BY <1>11, <1>12, <2>2
    <3>2. C!Distance(now(f), was(f)) <= width[f] + slack /\ C!Distance(now(f), was(f)) \in Nat /\ width[f] \in Nat
      BY <1>6, <3>1
    <3>3. QED
      BY <1>4, <1>10, <1>12, <2>2, <3>1, <3>2
  <2>3. CASE f \notin C!NamesOf(b, i)
    <3>1. C!ShareIn(i, f) = 0 /\ C!ShareIn(b, f) = 0
      BY <1>8, <2>3 DEF C!ShareIn
    <3>2. C!Distance(C!ShareIn(i, f), C!ShareIn(b, f)) = 0
      BY <3>1 DEF C!Distance
    <3>3. QED
      BY <1>4, <1>6, <1>9, <1>10, <1>12, <2>3, <3>2
  <2>4. QED
    BY <2>1, <2>2, <2>3
<1>14. QED
  BY <1>13 DEF C!ChangesAreReal

LEMMA CompareFlags == CompareInv => C!FlagsOppose
<1>1. SUFFICES ASSUME CompareInv, result.by = "main" PROVE C!FlagsOppose
  BY DEF C!FlagsOppose
<1>2. Counted /\ ResultPart
  BY <1>1 DEF CompareInv
<1>3. ASSUME NEW p \in C!Periods PROVE C!CpuOf(p) \in Nat
  <2> DEFINE g == [q \in Profiles |-> {q} \X C!SamplesOf(samples[p][q])]
  <2>1. ASSUME NEW q \in Profiles PROVE IsFiniteSet(g[q])
    <3>1. IsFiniteSet(Frames) /\ \A f \in Frames : samples[p][q][f] \in Nat
      BY <1>2, ComparisonAssumption DEF Counted
    <3>2. C!SamplesOf(samples[p][q]) = UnitsOf(samples[p][q], Frames)
      BY DEF C!SamplesOf, UnitsOf
    <3>3. IsFiniteSet(C!SamplesOf(samples[p][q]))
      BY <3>1, <3>2, UnitsAreFinite
    <3>4. IsFiniteSet({q} \X C!SamplesOf(samples[p][q]))
      BY <3>3, FS_Singleton, FS_Product
    <3>5. g[q] = {q} \X C!SamplesOf(samples[p][q])
      OBVIOUS
    <3>6. QED
      BY <3>4, <3>5
  <2>2. UNION {{q} \X C!SamplesOf(samples[p][q]) : q \in Profiles} = UNION {g[q] : q \in Profiles}
    OBVIOUS
  <2>3. Cardinality(UNION {g[q] : q \in Profiles}) \in Nat
    <3> HIDE DEF g
    <3>1. QED
      BY <2>1, ComparisonAssumption, UnionIsFinite
  <2>4. QED
    <3> HIDE DEF g
    <3>1. QED
      BY <2>2, <2>3, CardinalityOfCompare DEF C!CpuOf
<1>4. ASSUME NEW x \in Nat, NEW y \in Nat, C!Flag(x, y) # "none" PROVE C!Flag(x, y) # C!Flag(y, x)
  BY <1>4 DEF C!Flag, C!Distance
<1>5. QED
  BY <1>1, <1>2, <1>3, <1>4 DEF ResultPart, C!FlagsOppose, C!Periods

-----------------------------------------------------------------------------
(* native-memory-snapshot.sh: what an unfinished snapshot holds is from the  *)
(* process it was begun with, as long as that process is there.              *)

LEMMA CardinalityOfMemory == ASSUME NEW all PROVE N!Cardinality(all) = Cardinality(all)
  BY DEF N!Cardinality, Cardinality, N!IsFiniteSet, IsFiniteSet

IsAmount(word) == \E x \in Nat : word = <<x>>

MemoryPart ==
  /\ life \in Nat /\ lives \in Nat /\ life <= lives
  /\ committed \in [Categories -> Nat] /\ outside \in Nat

ShotPart ==
  /\ DOMAIN shot = {"start", "status", "total", "categories", "failed", "of", "outside"}
  /\ phase \in {"none", "status", "nmt", "check"}
  /\ phase # "none" =>
       /\ shot.start \in Nat \ {0} /\ shot.start <= lives /\ (life = 0 \/ shot.start <= life)
       /\ shot.outside \in Nat /\ (shot.total = <<>> \/ IsAmount(shot.total))
       /\ life = shot.start => shot.of \subseteq {shot.start}
       /\ (life = shot.start /\ phase # "status") => IsAmount(shot.status)

IsShot(s) ==
  /\ s.of \subseteq {s.start} /\ s.outside \in Nat
  /\ IsAmount(s.status) /\ (s.total = <<>> \/ IsAmount(s.total))

ShotsPart == /\ Len(shots) \in Nat /\ DOMAIN shots = 1..Len(shots) /\ shots \in Seq({shots[i] : i \in DOMAIN shots})
             /\ \A i \in DOMAIN shots : IsShot(shots[i])

MemoryInv == MemoryPart /\ ShotPart /\ ShotsPart

LEMMA TotalIsUnits ==
  ASSUME NEW amounts \in [Categories -> Nat]
  PROVE  N!Total(amounts) = Cardinality(UnitsOf(amounts, Categories))
<1>1. N!Units(amounts) = UnitsOf(amounts, Categories)
  BY DEF N!Units, UnitsOf
<1>2. QED
  BY <1>1, CardinalityOfMemory DEF N!Total

LEMMA TotalIsAmount == MemoryPart => N!Total(committed) \in Nat
<1>1. SUFFICES ASSUME MemoryPart PROVE N!Total(committed) \in Nat
  OBVIOUS
<1>2. IsFiniteSet(Categories) /\ \A c \in Categories : committed[c] \in Nat
  BY <1>1, CountersAssumption DEF MemoryPart
<1>3. N!Total(committed) = Cardinality(UnitsOf(committed, Categories))
  BY <1>1, TotalIsUnits DEF MemoryPart
<1>4. QED
  BY <1>2, <1>3, UnitsAreFinite

LEMMA MemoryInit == N!Init => MemoryInv
  BY DEF N!Init, MemoryInv, MemoryPart, ShotPart, ShotsPart, N!NoShot, N!Nothing

LEMMA MemoryStep == MemoryInv /\ [N!Next]_N!vars => MemoryInv'
<1>1. SUFFICES ASSUME MemoryInv, [N!Next]_N!vars PROVE MemoryInv'
  OBVIOUS
<1>2. MemoryPart /\ ShotPart /\ ShotsPart
  BY <1>1 DEF MemoryInv
<1>3. MaxKb \in Nat
  BY CountersAssumption
<1>4. CASE UNCHANGED N!vars
  BY <1>2, <1>4 DEF N!vars, MemoryInv, MemoryPart, ShotPart, ShotsPart
<1>5. CASE N!Commit
  BY <1>2, <1>3, <1>5 DEF N!Commit, N!Works, N!script, MemoryInv, MemoryPart, ShotPart, ShotsPart
<1>6. CASE N!AllocateOutside
  BY <1>2, <1>3, <1>6 DEF N!AllocateOutside, N!Works, N!script, MemoryInv, MemoryPart, ShotPart, ShotsPart
<1>7. CASE N!Ends
  BY <1>2, <1>7 DEF N!Ends, N!script, N!Nothing, MemoryInv, MemoryPart, ShotPart, ShotsPart
<1>8. CASE N!Starts
  BY <1>2, <1>8 DEF N!Starts, N!script, MemoryInv, MemoryPart, ShotPart, ShotsPart
<1>9. CASE N!Begin
  BY <1>2, <1>9 DEF N!Begin, N!jvm, N!NoShot, MemoryInv, MemoryPart, ShotPart, ShotsPart
<1>10. CASE N!ReadStatus
  <2>1. N!Total(committed) + outside \in Nat
    BY <1>2, TotalIsAmount DEF MemoryPart
  <2>2. CASE life = 0
    BY <1>2, <1>10, <2>2 DEF N!ReadStatus, N!jvm, MemoryInv, MemoryPart, ShotPart, ShotsPart
  <2>3. CASE life # 0
    <3> DEFINE word == <<N!Total(committed) + outside>>
    <3>1. IsAmount(word)
      BY <2>1 DEF IsAmount
    <3>2. shot' = [shot EXCEPT !.status = word, !.of = @ \cup {life}, !.outside = outside]
      BY <1>10, <2>3 DEF N!ReadStatus
    <3> HIDE DEF word
    <3>3. /\ DOMAIN shot' = DOMAIN shot /\ shot'.start = shot.start /\ shot'.status = word
          /\ shot'.of = shot.of \cup {life} /\ shot'.outside = outside /\ shot'.total = shot.total
      BY <1>2, <3>2 DEF ShotPart
    <3>4. ShotPart'
      BY <1>2, <1>10, <2>3, <3>1, <3>3 DEF N!ReadStatus, N!jvm, MemoryPart, ShotPart
    <3>5. QED
      BY <1>2, <1>10, <3>4 DEF N!ReadStatus, N!jvm, MemoryInv, MemoryPart, ShotsPart
  <2>4. QED
    BY <2>2, <2>3
<1>11. CASE N!ReadNmt
  <2>1. /\ DOMAIN shot' = DOMAIN shot /\ shot'.start = shot.start /\ shot'.outside = shot.outside
        /\ shot'.status = shot.status
        /\ shot'.of \subseteq shot.of \cup {life} /\ (life = 0 => shot'.of = shot.of)
        /\ shot'.total \in {shot.total, <<>>, <<N!Total(committed)>>}
    <3>1. CASE life = 0
      BY <1>2, <1>11, <3>1 DEF N!ReadNmt, ShotPart
    <3>2. CASE life # 0 /\ ~tracked
      BY <1>2, <1>11, <3>2 DEF N!ReadNmt, ShotPart
    <3>3. CASE life # 0 /\ tracked
      <4>1. PICK n \in 0..N!Cardinality(Categories) + 1 : shot' = N!Printed(n)
        BY <1>11, <3>3 DEF N!ReadNmt
      <4>2. QED
        BY <1>2, <3>3, <4>1 DEF N!Printed, ShotPart
    <3>4. QED
      BY <3>1, <3>2, <3>3
  <2>2. IsAmount(<<N!Total(committed)>>)
    BY <1>2, TotalIsAmount DEF IsAmount
  <2>3. QED
    BY <1>2, <1>11, <2>1, <2>2 DEF N!ReadNmt, N!jvm, MemoryInv, MemoryPart, ShotPart, ShotsPart
<1>12. CASE N!Check
  <2>1. MemoryPart' /\ ShotPart'
    BY <1>2, <1>12 DEF N!Check, N!jvm, N!NoShot, MemoryPart, ShotPart
  <2>2. CASE ~N!IsTarget
    BY <1>2, <1>12, <2>1, <2>2 DEF N!Check, MemoryInv, ShotsPart
  <2>3. CASE N!IsTarget
    <3>1. IsShot(shot)
      BY <1>2, <1>12, <2>3 DEF N!Check, N!IsTarget, ShotPart, IsShot
    <3>2. shots' = Append(shots, shot)
      BY <1>12, <2>3 DEF N!Check
    <3>3. ShotsPart'
      BY <1>2, <3>1, <3>2 DEF ShotsPart
    <3>4. QED
      BY <2>1, <3>3 DEF MemoryInv
  <2>4. QED
    BY <2>2, <2>3
<1>13. QED
  BY <1>1, <1>4, <1>5, <1>6, <1>7, <1>8, <1>9, <1>10, <1>11, <1>12 DEF N!Next

LEMMA MemoryGap == MemoryInv => N!GapIsOfOneProcess
<1>1. SUFFICES ASSUME MemoryInv PROVE N!GapIsOfOneProcess
  OBVIOUS
<1>2. \A i \in DOMAIN shots : IsShot(shots[i])
  BY <1>1 DEF MemoryInv, ShotsPart
<1> DEFINE s == N!Loaded(FALSE)
           gap == N!Gap(s[1], s[2])
           grown == shots[2].outside - shots[1].outside
           quiet == \A i \in 1..2 : s[i].total # <<>> /\ s[i].status[1] = s[i].total[1] + shots[i].outside
<1>3. ASSUME N!IsPair, quiet PROVE gap = <<grown>> /\ (N!IsCandidate(gap) <=> grown > GapKb)
  <2>1. DOMAIN shots = 1..2
    BY <1>1, <1>3 DEF MemoryInv, ShotsPart, N!IsPair
  <2>2. \A i \in 1..2 : s[i].total = shots[i].total /\ s[i].status = shots[i].status
    BY DEF N!Loaded, N!Load
  <2>3. PICK x1 \in Nat, y1 \in Nat, x2 \in Nat, y2 \in Nat :
          /\ s[1].total = <<x1>> /\ s[1].status = <<y1>>
          /\ s[2].total = <<x2>> /\ s[2].status = <<y2>>
    <3>1. \A i \in 1..2 : IsAmount(s[i].total) /\ IsAmount(s[i].status)
      <4>1. \A i \in 1..2 : s[i].total # <<>>
        BY <1>3
      <4> HIDE DEF s, quiet
      <4>2. QED
        BY <1>2, <2>1, <2>2, <4>1 DEF IsShot
    <3> HIDE DEF s, quiet
    <3>2. /\ IsAmount(s[1].total) /\ IsAmount(s[1].status)
          /\ IsAmount(s[2].total) /\ IsAmount(s[2].status)
      BY <3>1
    <3>3. QED
      BY <3>2 DEF IsAmount
  <2>4. y1 = x1 + shots[1].outside /\ y2 = x2 + shots[2].outside
    <3>1. /\ s[1].status[1] = s[1].total[1] + shots[1].outside
          /\ s[2].status[1] = s[2].total[1] + shots[2].outside
      <4> HIDE DEF s
      <4>1. \A i \in 1..2 : s[i].status[1] = s[i].total[1] + shots[i].outside
        BY <1>3
      <4> HIDE DEF quiet
      <4>2. QED
        BY <4>1
    <3> HIDE DEF s, quiet
    <3>2. QED
      BY <2>3, <3>1
  <2>5. shots[1].outside \in Nat /\ shots[2].outside \in Nat
    BY <1>2, <2>1 DEF IsShot
  <2>6. gap = <<(y2 - y1) - (x2 - x1)>>
    <3> HIDE DEF s
    <3>1. N!TotalDelta(s[1], s[2]) = <<x2 - x1>>
      BY <2>3 DEF N!TotalDelta, N!Difference
    <3>2. N!Difference(s[1].status, s[2].status) = <<y2 - y1>>
      BY <2>3 DEF N!Difference
    <3>3. QED
      BY <3>1, <3>2 DEF N!Gap, N!Difference
  <2>7. (y2 - y1) - (x2 - x1) = grown
    BY <2>4, <2>5
  <2>8. gap = <<grown>>
    BY <2>6, <2>7
  <2>9. QED
    <3> HIDE DEF gap, grown
    <3>1. QED
      BY <2>8 DEF N!IsCandidate
<1>4. QED
  BY <1>2, <1>3 DEF N!GapIsOfOneProcess, IsShot

-----------------------------------------------------------------------------
(* The sampler and the snapshots.  What earlier threads of a tid ran never   *)
(* shrinks, from one reading to the next and from a reading to now.          *)

LEMMA GreatestNumber ==
  ASSUME NEW n \in Nat, NEW all, all \subseteq 1..n, all # {}
  PROVE  \E x \in all : \A y \in all : y <= x
<1> DEFINE rest == {n - x : x \in all}
<1>1. rest \subseteq Nat /\ rest # {}
  <2>1. \A x \in all : n - x \in Nat
    OBVIOUS
  <2>2. QED
    BY <2>1
<1>2. \E x \in rest : \A y \in rest : x <= y
  <2> HIDE DEF rest
  <2>1. QED
    BY <1>1, LeastNumber
<1>3. PICK x \in all : \A y \in rest : n - x <= y
  BY <1>2
<1>4. \A y \in all : n - x <= n - y
  BY <1>3
<1>5. QED
  BY <1>4

Looks == [born : Nat, ticks : Nat, ran : Nat]
Earlier(x) == x.ran - x.ticks

SystemPart ==
  /\ births \in Nat /\ thread \in [Tids -> Looks]
  /\ \A t \in Tids : thread[t].born = 0 => thread[t].ticks = 0

ReadPart ==
  /\ reader \in S!Readers /\ doing \in {"check", "read", "pause", "exit"} /\ next \in Tids
  /\ readings \in Seq([Tids -> Looks]) /\ written \in Seq(SUBSET Tids) /\ Len(written) = Len(readings)
  /\ doing \in {"read", "pause"} => Len(readings) > 0
  /\ code = "0" => doing = "exit" /\ (reader # "series" => Len(readings) = 2)

RisePart ==
  /\ \A i \in DOMAIN readings, t \in Tids : Earlier(readings[i][t]) <= Earlier(thread[t])
  /\ \A i \in DOMAIN readings, j \in DOMAIN readings, t \in Tids :
       i <= j => Earlier(readings[i][t]) <= Earlier(readings[j][t])

FirstPart ==
  /\ DOMAIN last \subseteq Tids /\ (readings = <<>> => DOMAIN last = {})
  /\ Len(readings) = 1 /\ doing = "read" => \A t \in DOMAIN last : t < next
  /\ readings # <<>> =>
       \A t \in Tids \ written[1] :
         (Len(readings) > 1 \/ doing # "read" \/ t < next) =>
           readings[1][t].born = 0 /\ readings[1][t].ticks = 0

SampleInv == SystemPart /\ ReadPart /\ RisePart /\ FirstPart

LEMMA CardinalityOfSample == ASSUME NEW all PROVE S!Cardinality(all) = Cardinality(all)
  BY DEF S!Cardinality, Cardinality, S!IsFiniteSet, IsFiniteSet

LEMMA TidsAreNumbers == /\ Cardinality(Tids) \in Nat /\ Tids = 1..Cardinality(Tids) /\ Cardinality(Tids) > 0
  BY ReadingAssumption, FS_CardinalityType

LEMMA EarlierIsNumber == ASSUME NEW x \in Looks PROVE Earlier(x) \in Int
  BY DEF Looks, Earlier

LEMMA SampleInit == S!Init => SampleInv
<1>1. SUFFICES ASSUME S!Init PROVE SampleInv
  OBVIOUS
<1>2. 1 \in Tids
  BY TidsAreNumbers
<1>3. thread \in [Tids -> Looks] /\ \A t \in Tids : thread[t].born = 0 => thread[t].ticks = 0
  BY <1>1 DEF S!Init, Looks
<1>4. readings = <<>> /\ written = <<>> /\ last = <<>>
  BY <1>1 DEF S!Init
<1>5. QED
  BY <1>1, <1>2, <1>3, <1>4 DEF S!Init, SampleInv, SystemPart, ReadPart, RisePart, FirstPart

LEMMA SystemGoesOn ==
  ASSUME SampleInv, NEW now \in [Tids -> Looks], thread' = now, births' \in Nat, UNCHANGED S!reading,
         \A t \in Tids : (now[t].born = 0 => now[t].ticks = 0) /\ Earlier(thread[t]) <= Earlier(now[t])
  PROVE  SampleInv'
<1>1. SystemPart /\ ReadPart /\ RisePart /\ FirstPart
  BY DEF SampleInv
<1>2. SystemPart'
  BY DEF SystemPart
<1>3. ReadPart' /\ FirstPart'
  BY <1>1 DEF ReadPart, FirstPart, S!reading
<1>4. ASSUME NEW i \in DOMAIN readings, NEW t \in Tids
      PROVE  Earlier(readings[i][t]) <= Earlier(now[t])
  <2>1. Earlier(readings[i][t]) <= Earlier(thread[t]) /\ Earlier(thread[t]) <= Earlier(now[t])
    BY <1>1 DEF RisePart
  <2>2. readings[i][t] \in Looks /\ thread[t] \in Looks /\ now[t] \in Looks
    BY <1>1 DEF SystemPart, ReadPart
  <2>3. QED
    BY <2>1, <2>2, EarlierIsNumber
<1>5. RisePart'
  BY <1>1, <1>4 DEF RisePart, S!reading
<1>6. QED
  BY <1>2, <1>3, <1>5 DEF SampleInv

LEMMA SystemSteps ==
  ASSUME SampleInv, S!Run \/ S!Begin \/ S!End \/ S!ProcessEnds \/ S!PidReused
  PROVE  SampleInv'
<1>1. SystemPart
  BY DEF SampleInv
<1>2. \A t \in Tids : thread[t] \in Looks /\ thread[t].born \in Nat /\ thread[t].ticks \in Nat /\ thread[t].ran \in Nat
  BY <1>1 DEF SystemPart, Looks
<1>3. ASSUME NEW t \in Tids
      PROVE  /\ S!Born(t) \in Looks /\ S!Born(t).born # 0 /\ Earlier(thread[t]) <= Earlier(S!Born(t))
             /\ S!Gone(t) \in Looks /\ S!Gone(t).ticks = 0 /\ Earlier(thread[t]) <= Earlier(S!Gone(t))
  BY <1>1, <1>2 DEF S!Born, S!Gone, Looks, Earlier, SystemPart
<1>4. ASSUME NEW t \in Tids, NEW x \in Looks, thread' = [thread EXCEPT ![t] = x], births' \in Nat,
             UNCHANGED S!reading, x.born = 0 => x.ticks = 0, Earlier(thread[t]) <= Earlier(x)
      PROVE  SampleInv'
  <2> DEFINE now == [thread EXCEPT ![t] = x]
  <2>1. now \in [Tids -> Looks] /\ \A u \in Tids : now[u] = IF u = t THEN x ELSE thread[u]
    BY <1>1 DEF SystemPart
  <2>2. \A u \in Tids : (now[u].born = 0 => now[u].ticks = 0)
    BY <1>1, <1>4, <2>1 DEF SystemPart
  <2>3. \A u \in Tids : Earlier(thread[u]) <= Earlier(now[u])
    <3>1. \A u \in Tids : Earlier(thread[u]) \in Int
      BY <1>2, EarlierIsNumber
    <3> HIDE DEF now
    <3>2. QED
      BY <1>4, <2>1, <3>1
  <2>4. QED
    <3>1. thread' = now
      BY <1>4
    <3> HIDE DEF now
    <3>2. QED
      BY <1>4, <2>1, <2>2, <2>3, <3>1, SystemGoesOn
<1>5. births \in Nat /\ births + 1 \in Nat /\ 1 \in Tids
  BY <1>1, TidsAreNumbers DEF SystemPart
<1>6. CASE S!Run
  <2>1. PICK t \in Tids : thread[t].born > 0 /\ thread' = [thread EXCEPT ![t].ticks = @ + 1, ![t].ran = @ + 1]
    BY <1>6 DEF S!Run
  <2> DEFINE x == [born |-> thread[t].born, ticks |-> thread[t].ticks + 1, ran |-> thread[t].ran + 1]
  <2>2. thread' = [thread EXCEPT ![t] = x]
    BY <1>1, <1>2, <2>1 DEF SystemPart, Looks
  <2>3. x \in Looks /\ x.born # 0 /\ Earlier(thread[t]) <= Earlier(x)
    BY <1>2, <2>1 DEF Looks, Earlier
  <2>4. UNCHANGED S!reading /\ births' = births
    BY <1>6 DEF S!Run, S!reading
  <2>5. QED
    <3> HIDE DEF x
    <3>1. QED
      BY <1>4, <1>5, <2>2, <2>3, <2>4
<1>7. CASE S!Begin
  <2>1. PICK t \in Tids : thread' = [thread EXCEPT ![t] = S!Born(t)]
    BY <1>7 DEF S!Begin
  <2>2. UNCHANGED S!reading /\ births' = births + 1
    BY <1>7 DEF S!Begin
  <2>3. QED
    BY <1>3, <1>4, <1>5, <2>1, <2>2
<1>8. CASE S!End
  <2>1. PICK t \in Tids : thread' = [thread EXCEPT ![t] = S!Gone(t)]
    BY <1>8 DEF S!End
  <2>2. UNCHANGED S!reading /\ births' = births
    BY <1>8 DEF S!End
  <2>3. QED
    BY <1>3, <1>4, <1>5, <2>1, <2>2
<1>9. CASE S!ProcessEnds
  <2> DEFINE now == [t \in Tids |-> S!Gone(t)]
  <2>1. thread' = now /\ UNCHANGED S!reading /\ births' = births
    BY <1>9 DEF S!ProcessEnds
  <2>2. now \in [Tids -> Looks] /\ \A t \in Tids : now[t] = S!Gone(t)
    BY <1>3
  <2>3. QED
    <3> HIDE DEF now
    <3>1. QED
      BY <1>3, <1>5, <2>1, <2>2, SystemGoesOn
<1>10. CASE S!PidReused
  <2>1. thread' = [thread EXCEPT ![1] = S!Born(1)] /\ UNCHANGED S!reading /\ births' = births + 1
    BY <1>10 DEF S!PidReused
  <2>2. QED
    BY <1>3, <1>4, <1>5, <2>1
<1>11. QED
  BY <1>6, <1>7, <1>8, <1>9, <1>10

LEMMA CheckStep == ASSUME SampleInv, S!Check PROVE SampleInv'
<1>1. SystemPart /\ ReadPart /\ RisePart /\ FirstPart
  BY DEF SampleInv
<1>2. SystemPart' /\ thread' = thread /\ reader' = reader /\ last' = last /\ next' = 1 /\ 1 \in Tids
  BY <1>1, TidsAreNumbers DEF S!Check, S!system, SystemPart
<1>3. doing = "check" /\ code # "0"
  BY <1>1 DEF S!Check, ReadPart
<1>4. CASE doing' = "exit" /\ UNCHANGED <<readings, written>> /\ (code' = "0" => reader = "series")
  <2>1. ReadPart'
    BY <1>1, <1>2, <1>4 DEF ReadPart
  <2>2. RisePart'
    BY <1>1, <1>2, <1>4 DEF RisePart
  <2>3. FirstPart'
    BY <1>1, <1>2, <1>3, <1>4 DEF FirstPart
  <2>4. QED
    BY <1>2, <2>1, <2>2, <2>3 DEF SampleInv
<1>5. CASE /\ doing' = "read" /\ UNCHANGED code
           /\ readings' = Append(readings, thread) /\ written' = Append(written, {})
  <2> DEFINE n == Len(readings)
             new == Append(readings, thread)
  <2>1. /\ n \in Nat /\ DOMAIN readings = 1..n /\ Len(written) = n /\ written \in Seq(SUBSET Tids)
        /\ \A i \in 1..n : readings[i] \in [Tids -> Looks]
        /\ thread \in [Tids -> Looks]
    BY <1>1 DEF ReadPart, SystemPart
  <2>2. /\ new \in Seq([Tids -> Looks]) /\ Len(new) = n + 1 /\ DOMAIN new = 1..(n + 1)
        /\ \A i \in 1..n : new[i] = readings[i]
        /\ new[n + 1] = thread
    BY <1>1, <2>1 DEF ReadPart
  <2>3. ReadPart'
    <3>1. written' \in Seq(SUBSET Tids) /\ Len(written') = n + 1
      BY <1>5, <2>1
    <3>2. readings' = new
      BY <1>5
    <3> HIDE DEF n, new
    <3>3. QED
      BY <1>1, <1>2, <1>3, <1>5, <2>1, <2>2, <3>1, <3>2 DEF ReadPart
  <2>4. RisePart'
    <3>1. ASSUME NEW i \in 1..(n + 1), NEW t \in Tids PROVE Earlier(new[i][t]) <= Earlier(thread[t])
      <4>1. thread[t] \in Looks /\ Earlier(thread[t]) \in Int
        BY <2>1, EarlierIsNumber
      <4>2. CASE i \in 1..n
        BY <1>1, <2>1, <2>2, <4>2 DEF RisePart
      <4>3. CASE i = n + 1
        BY <2>2, <4>1, <4>3
      <4>4. QED
        BY <2>1, <4>2, <4>3
    <3>2. ASSUME NEW i \in 1..(n + 1), NEW j \in 1..(n + 1), NEW t \in Tids, i <= j
          PROVE  Earlier(new[i][t]) <= Earlier(new[j][t])
      <4>1. CASE j \in 1..n
        <5>1. i \in 1..n
          BY <2>1, <3>2, <4>1
        <5>2. Earlier(readings[i][t]) <= Earlier(readings[j][t])
          BY <1>1, <2>1, <3>2, <4>1, <5>1 DEF RisePart
        <5>3. QED
          BY <2>2, <4>1, <5>1, <5>2
      <4>2. CASE j = n + 1
        BY <2>2, <3>1, <4>2
      <4>3. QED
        BY <2>1, <4>1, <4>2
    <3>3. readings' = new
      BY <1>5
    <3> HIDE DEF n, new
    <3>4. QED
      BY <1>2, <2>2, <3>1, <3>2, <3>3 DEF RisePart
  <2>5. FirstPart'
    <3>1. readings' = new /\ new # <<>>
      BY <1>5, <2>1, <2>2
    <3>2. CASE n = 0
      <4>1. DOMAIN last = {} /\ Len(new) = 1
        BY <1>1, <2>1, <2>2, <3>2 DEF FirstPart, ReadPart
      <4>2. \A t \in Tids : ~(t < 1)
        BY TidsAreNumbers
      <4> HIDE DEF n, new
      <4>3. QED
        BY <1>2, <1>5, <3>1, <4>1, <4>2 DEF FirstPart
    <3>3. CASE n # 0
      <4>1. /\ readings # <<>> /\ Len(new) > 1 /\ new[1] = readings[1] /\ written'[1] = written[1]
            /\ DOMAIN last \subseteq Tids
        BY <1>1, <1>5, <2>1, <2>2, <3>3 DEF FirstPart
      <4>2. \A t \in Tids \ written[1] : readings[1][t].born = 0 /\ readings[1][t].ticks = 0
        BY <1>1, <1>3, <4>1 DEF FirstPart
      <4> HIDE DEF n, new
      <4>3. QED
        BY <1>2, <1>5, <3>1, <4>1, <4>2, <2>1, <2>2 DEF FirstPart
    <3>4. QED
      BY <3>2, <3>3
  <2>6. QED
    BY <1>2, <2>3, <2>4, <2>5 DEF SampleInv
<1>6. QED
  BY <1>4, <1>5 DEF S!Check, S!Leave

LEMMA ReadStep == ASSUME SampleInv, S!ReadThread PROVE SampleInv'
<1>1. SystemPart /\ ReadPart /\ RisePart /\ FirstPart
  BY DEF SampleInv
<1> DEFINE n == Len(readings)
           new == [readings EXCEPT ![n][next] = thread[next]]
           all == Cardinality(Tids)
<1>2. /\ SystemPart' /\ thread' = thread /\ reader' = reader /\ code' = code /\ doing = "read" /\ code # "0"
      /\ readings' = new /\ next \in Tids
  BY <1>1 DEF S!ReadThread, S!system, SystemPart, ReadPart
<1>3. /\ n \in Nat /\ n > 0 /\ DOMAIN readings = 1..n
      /\ \A i \in 1..n : readings[i] \in [Tids -> Looks]
      /\ thread \in [Tids -> Looks]
  BY <1>1, <1>2 DEF ReadPart, SystemPart
<1>4. /\ new \in Seq([Tids -> Looks]) /\ Len(new) = n /\ DOMAIN new = 1..n
      /\ \A i \in 1..n, t \in Tids : new[i][t] = IF i = n /\ t = next THEN thread[next] ELSE readings[i][t]
  BY <1>1, <1>2, <1>3 DEF ReadPart
<1>5. /\ Len(written) = n /\ written \in Seq(SUBSET Tids) /\ written' \in Seq(SUBSET Tids) /\ Len(written') = n
      /\ \A i \in 1..n : written'[i] = IF i = n /\ S!HasRow(next) THEN written[i] \cup {next} ELSE written[i]
  <2>1. Len(written) = n /\ written \in Seq(SUBSET Tids) /\ DOMAIN written = 1..n
    BY <1>1, <1>3 DEF ReadPart
  <2>2. CASE S!HasRow(next)
    <3>1. written' = [written EXCEPT ![n] = written[n] \cup {next}]
      BY <2>1, <2>2 DEF S!ReadThread
    <3> DEFINE more == written[n] \cup {next}
    <3>2. more \in SUBSET Tids
      BY <1>2, <1>3, <2>1
    <3>3. written' = [written EXCEPT ![n] = more]
      BY <3>1
    <3>4. \A i \in 1..n : written'[i] = IF i = n THEN more ELSE written[i]
      <4> HIDE DEF n, more
      <4>1. QED
        BY <1>3, <2>1, <3>3
    <3>5. written' \in Seq(SUBSET Tids) /\ Len(written') = n
      <4> HIDE DEF n, more
      <4>1. QED
        BY <1>3, <2>1, <3>2, <3>3
    <3>6. QED
      BY <2>1, <2>2, <3>4, <3>5
  <2>3. CASE ~S!HasRow(next)
    BY <2>1, <2>3 DEF S!ReadThread
  <2>4. QED
    BY <2>2, <2>3
<1>6. /\ all \in Nat /\ Tids = 1..all /\ S!Cardinality(Tids) = all
  BY TidsAreNumbers, CardinalityOfSample
<1>7. \/ doing' = "pause" /\ next' = next /\ next = all
      \/ doing' = "read" /\ next' = next + 1 /\ next' \in Tids /\ next # all
  BY <1>2, <1>6 DEF S!ReadThread
<1>8. DOMAIN last' \subseteq DOMAIN last \cup {next}
  BY DEF S!ReadThread, S!Set
<1>9. ReadPart'
  <2> HIDE DEF n, new, all
  <2>1. QED
    BY <1>1, <1>2, <1>3, <1>4, <1>5, <1>7 DEF ReadPart
<1>10. ASSUME NEW i \in 1..n, NEW t \in Tids PROVE Earlier(new[i][t]) <= Earlier(thread[t])
  <2>1. Earlier(thread[t]) \in Int
    BY <1>3, EarlierIsNumber
  <2>2. Earlier(readings[i][t]) <= Earlier(thread[t])
    BY <1>1, <1>3 DEF RisePart
  <2> HIDE DEF n, new
  <2>3. QED
    BY <1>4, <2>1, <2>2
<1>11. ASSUME NEW i \in 1..n, NEW j \in 1..n, NEW t \in Tids, i <= j
       PROVE  Earlier(new[i][t]) <= Earlier(new[j][t])
  <2>1. Earlier(thread[t]) \in Int
    BY <1>3, EarlierIsNumber
  <2>2. Earlier(readings[i][t]) <= Earlier(readings[j][t]) /\ Earlier(readings[i][t]) <= Earlier(thread[t])
    BY <1>1, <1>3, <1>11 DEF RisePart
  <2> HIDE DEF n, new
  <2>3. CASE t = next
    <3>1. CASE i = n
      <4>1. j = n
        BY <1>3, <1>11, <3>1
      <4>2. QED
        BY <1>4, <2>1, <2>3, <3>1, <4>1
    <3>2. CASE i # n
      BY <1>4, <2>2, <2>3, <3>2
    <3>3. QED
      BY <3>1, <3>2
  <2>4. CASE t # next
    BY <1>4, <2>2, <2>4
  <2>5. QED
    BY <2>3, <2>4
<1>12. RisePart'
  <2> HIDE DEF n, new, all
  <2>1. QED
    BY <1>2, <1>4, <1>10, <1>11 DEF RisePart
<1>13. FirstPart'
  <2>1. DOMAIN last' \subseteq Tids /\ readings' # <<>> /\ readings # <<>>
    BY <1>1, <1>2, <1>3, <1>4, <1>8 DEF FirstPart
  <2>2. n = 1 /\ doing' = "read" => \A t \in DOMAIN last' : t < next'
    <3>1. SUFFICES ASSUME n = 1, doing' = "read", NEW t \in DOMAIN last' PROVE t < next + 1
      BY <1>7
    <3>2. t \in Nat /\ next \in Nat
      BY <1>2, <1>6, <2>1
    <3>3. t = next \/ t < next
      BY <1>1, <1>2, <1>8, <3>1 DEF FirstPart
    <3>4. QED
      BY <3>2, <3>3
  <2>3. ASSUME NEW t \in Tids \ written'[1], n > 1 \/ doing' # "read" \/ t < next'
        PROVE  new[1][t].born = 0 /\ new[1][t].ticks = 0
    <3>0. 1 \in 1..n
      BY <1>3
    <3>1. t \in Tids \ written[1]
      <4>1. written[1] \subseteq written'[1]
        BY <1>5, <3>0
      <4>2. QED
        BY <2>3, <4>1
    <3>2. CASE n > 1
      <4>1. readings[1][t].born = 0 /\ readings[1][t].ticks = 0
        BY <1>1, <2>1, <3>1, <3>2 DEF FirstPart
      <4>2. t \in Tids /\ 1 # n
        BY <1>3, <3>1, <3>2
      <4>3. new[1][t] = readings[1][t]
        <5> HIDE DEF n, new
        <5>1. QED
          BY <1>4, <3>0, <4>2
      <4> HIDE DEF new
      <4>4. QED
        BY <4>1, <4>3
    <3>3. CASE n = 1 /\ t < next
      <4>1. readings[1][t].born = 0 /\ readings[1][t].ticks = 0
        BY <1>1, <2>1, <3>1, <3>3 DEF FirstPart
      <4>2. t # next
        BY <1>2, <1>6, <3>3
      <4> HIDE DEF new
      <4>3. QED
        BY <1>3, <1>4, <3>3, <4>1, <4>2
    <3>4. CASE n = 1 /\ t = next
      <4>1. ~S!HasRow(next)
        BY <1>3, <1>5, <3>4
      <4>2. next \notin DOMAIN last
        BY <1>1, <1>2, <1>6, <3>4 DEF FirstPart
      <4>3. ~(thread[next].born > 0) /\ thread[next].born \in Nat
        BY <1>2, <1>3, <4>1, <4>2 DEF S!HasRow, Looks
      <4>4. thread[next].born = 0 /\ thread[next].ticks = 0
        BY <1>1, <1>2, <4>3 DEF SystemPart
      <4> HIDE DEF new
      <4>5. QED
        BY <1>3, <1>4, <3>4, <4>4
    <3>5. QED
      BY <1>2, <1>3, <1>6, <1>7, <2>3, <3>2, <3>3, <3>4
  <2> HIDE DEF n, new, all
  <2>4. QED
    BY <1>2, <1>4, <2>1, <2>2, <2>3 DEF FirstPart
<1>14. QED
  BY <1>2, <1>9, <1>12, <1>13 DEF SampleInv

LEMMA SampleStep == SampleInv /\ [S!Next]_S!vars => SampleInv'
<1>1. SUFFICES ASSUME SampleInv, [S!Next]_S!vars PROVE SampleInv'
  OBVIOUS
<1>2. CASE UNCHANGED S!vars
  BY <1>1, <1>2 DEF S!vars, SampleInv, SystemPart, ReadPart, RisePart, FirstPart
<1>3. CASE S!Pause
  <2>1. SystemPart /\ ReadPart /\ RisePart /\ FirstPart
    BY <1>1 DEF SampleInv
  <2>2. /\ doing = "pause" /\ doing' \in {"exit", "check"} /\ code # "0"
        /\ UNCHANGED <<reader, process, thread, births, next, last, readings, written>>
        /\ code' = "0" => reader # "series" /\ Len(readings) = 2
        /\ code' = "0" => doing' = "exit"
    BY <1>3, <2>1 DEF S!Pause, S!Leave, S!system, S!Samples, ReadPart
  <2>3. SystemPart' /\ RisePart'
    BY <2>1, <2>2 DEF SystemPart, RisePart
  <2>4. ReadPart'
    BY <2>1, <2>2 DEF ReadPart
  <2>5. FirstPart'
    BY <2>1, <2>2 DEF FirstPart
  <2>6. QED
    BY <2>3, <2>4, <2>5 DEF SampleInv
<1>4. QED
  BY <1>1, <1>2, <1>3, SystemSteps, CheckStep, ReadStep DEF S!Next

LEMMA SampleDeltas == SampleInv => S!DeltasInventNothing
<1>1. SUFFICES ASSUME SampleInv PROVE S!DeltasInventNothing
  OBVIOUS
<1>2. SystemPart /\ ReadPart /\ RisePart /\ FirstPart
  BY <1>1 DEF SampleInv
<1>3. /\ Len(readings) \in Nat /\ DOMAIN readings = 1..Len(readings)
      /\ \A i \in DOMAIN readings : written[i] \in SUBSET Tids
      /\ \A i \in DOMAIN readings, t \in Tids : /\ readings[i][t] \in Looks
                                                /\ readings[i][t].ticks \in Nat /\ readings[i][t].ran \in Nat
  <2>1. /\ Len(readings) \in Nat /\ DOMAIN readings = 1..Len(readings)
        /\ DOMAIN written = 1..Len(readings)
    BY <1>2 DEF ReadPart
  <2>2. \A i \in DOMAIN readings : written[i] \in SUBSET Tids
    BY <1>2, <2>1 DEF ReadPart
  <2>3. ASSUME NEW i \in DOMAIN readings, NEW t \in Tids
        PROVE  readings[i][t] \in Looks /\ readings[i][t].ticks \in Nat /\ readings[i][t].ran \in Nat
    <3>1. readings[i] \in [Tids -> Looks]
      BY <1>2 DEF ReadPart
    <3>2. QED
      BY <3>1 DEF Looks
  <2>4. QED
    BY <2>1, <2>2, <2>3
<1>4. ASSUME NEW i \in DOMAIN readings, NEW j \in DOMAIN readings, NEW t \in Tids, i <= j
      PROVE  readings[j][t].ticks - readings[i][t].ticks <= readings[j][t].ran - readings[i][t].ran
  BY <1>2, <1>3, <1>4 DEF RisePart, Earlier
<1>5. ASSUME NEW i \in DOMAIN readings, NEW t \in DOMAIN S!IntervalDelta(i)
      PROVE  S!IntervalDelta(i)[t] <= readings[i][t].ran -
               (IF S!Before(i, t) = {} THEN readings[1][t].ran
                ELSE readings[CHOOSE j \in S!Before(i, t) : \A k \in S!Before(i, t) : k <= j][t].ran)
  <2>1. i # 1 /\ t \in written[i] /\ t \in Tids /\ i \in Nat /\ i > 1 /\ i <= Len(readings)
    BY <1>3, <1>5 DEF S!IntervalDelta
  <2>2. S!IntervalDelta(i)[t] = readings[i][t].ticks - S!LastTicks(i, t)
    BY <2>1 DEF S!IntervalDelta
  <2>3. 1 \in DOMAIN readings /\ 1 <= i
    BY <1>3, <2>1
  <2>4. CASE S!Before(i, t) = {}
    <3>1. t \notin written[1]
      BY <2>1, <2>4 DEF S!Before
    <3>2. readings # <<>> /\ Len(readings) > 1
      BY <1>3, <2>1
    <3>3. readings[1][t].ticks = 0
      BY <1>2, <2>1, <3>1, <3>2 DEF FirstPart
    <3>4. S!LastTicks(i, t) = 0
      BY <2>4 DEF S!LastTicks
    <3>5. readings[i][t].ticks - 0 <= readings[i][t].ran - readings[1][t].ran
      BY <1>4, <2>1, <2>3, <3>3
    <3>6. QED
      BY <2>2, <2>4, <3>4, <3>5
  <2>5. CASE S!Before(i, t) # {}
    <3> DEFINE latest == CHOOSE j \in S!Before(i, t) : \A k \in S!Before(i, t) : k <= j
    <3>1. S!Before(i, t) \subseteq 1..(i - 1)
      BY DEF S!Before
    <3>2. \E j \in S!Before(i, t) : \A k \in S!Before(i, t) : k <= j
      <4>1. i - 1 \in Nat
        BY <2>1
      <4>2. QED
        BY <2>5, <3>1, <4>1, GreatestNumber
    <3>3. latest \in S!Before(i, t)
      BY <3>2
    <3>4. latest \in DOMAIN readings /\ latest <= i
      <4> HIDE DEF latest
      <4>1. QED
        BY <1>3, <2>1, <3>1, <3>3
    <3>5. S!LastTicks(i, t) = readings[latest][t].ticks
      BY <2>5 DEF S!LastTicks
    <3> HIDE DEF latest
    <3>6. S!IntervalDelta(i)[t] <= readings[i][t].ran - readings[latest][t].ran
      BY <1>4, <2>1, <2>2, <3>4, <3>5
    <3>7. QED
      BY <2>5, <3>6 DEF latest
  <2>6. QED
    BY <2>4, <2>5
<1>6. ASSUME reader # "series", code = "0", NEW t \in DOMAIN S!ThreadDelta
      PROVE  /\ S!ThreadDelta[t] = readings[2][t].ticks - readings[1][t].ticks
             /\ S!ThreadDelta[t] \in Int
             /\ S!ThreadDelta[t] <= readings[2][t].ran - readings[1][t].ran
  <2>1. Len(readings) = 2 /\ 1 \in DOMAIN readings /\ 2 \in DOMAIN readings
    BY <1>2, <1>3, <1>6 DEF ReadPart
  <2>2. t \in Tids /\ S!ThreadDelta[t] = readings[2][t].ticks - readings[1][t].ticks
    BY <1>3, <1>6, <2>1 DEF S!ThreadDelta
  <2>3. QED
    BY <1>3, <1>4, <2>1, <2>2
<1>7. ASSUME reader = "runqueue", code = "0", NEW t \in DOMAIN S!RunqueueDelta
      PROVE  S!RunqueueDelta[t] \in Nat
  <2>1. t \in DOMAIN S!ThreadDelta /\ S!ThreadDelta[t] >= 0 /\ S!RunqueueDelta[t] = S!ThreadDelta[t]
    BY <1>7 DEF S!RunqueueDelta
  <2>2. S!ThreadDelta[t] \in Int
    BY <1>6, <1>7, <2>1
  <2>3. QED
    BY <2>1, <2>2
<1>8. QED
  BY <1>5, <1>6, <1>7 DEF S!DeltasInventNothing

-----------------------------------------------------------------------------
(* The counters of the host: a row that was there all the time has counted   *)
(* what it had at the start and what happened since.                         *)

LEMMA CardinalityOfCounters == ASSUME NEW all PROVE H!Cardinality(all) = Cardinality(all)
  BY DEF H!Cardinality, Cardinality, H!IsFiniteSet, IsFiniteSet

LEMMA UnitMembers ==
  ASSUME NEW n, NEW all, NEW u
  PROVE  u \in UnitsOf(n, all) <=> \E c \in all : \E k \in 1..n[c] : u = <<c, k>>
  BY DEF UnitsOf

LEMMA UnitsGrow ==
  ASSUME NEW all, IsFiniteSet(all), NEW few \in SUBSET all, NEW n \in [all -> Nat], NEW m \in [all -> Nat],
         \A c \in all : n[c] <= m[c]
  PROVE  Cardinality(UnitsOf(n, few)) <= Cardinality(UnitsOf(m, all))
<1>1. ASSUME NEW u \in UnitsOf(n, few) PROVE u \in UnitsOf(m, all)
  <2>1. PICK c \in few : \E k \in 1..n[c] : u = <<c, k>>
    BY UnitMembers
  <2>2. c \in all /\ n[c] \in Nat /\ m[c] \in Nat /\ n[c] <= m[c]
    OBVIOUS
  <2>3. \E k \in 1..m[c] : u = <<c, k>>
    BY <2>1, <2>2
  <2>4. QED
    BY <2>2, <2>3, UnitMembers
<1>2. IsFiniteSet(UnitsOf(m, all))
  BY UnitsAreFinite
<1>3. QED
  BY <1>1, <1>2, FS_Subset

LEMMA UnitsJoin ==
  ASSUME NEW one, NEW two, IsFiniteSet(one), IsFiniteSet(two), NEW n, \A c \in one \cup two : n[c] \in Nat
  PROVE  Cardinality(UnitsOf(n, one \cup two)) <= Cardinality(UnitsOf(n, one)) + Cardinality(UnitsOf(n, two))
<1>1. UnitsOf(n, one \cup two) = UnitsOf(n, one) \cup UnitsOf(n, two)
  BY DEF UnitsOf
<1>2. /\ IsFiniteSet(UnitsOf(n, one)) /\ Cardinality(UnitsOf(n, one)) \in Nat
      /\ IsFiniteSet(UnitsOf(n, two)) /\ Cardinality(UnitsOf(n, two)) \in Nat
  BY UnitsAreFinite
<1> DEFINE both == UnitsOf(n, one) \cap UnitsOf(n, two)
<1>3. both \in SUBSET UnitsOf(n, one)
  OBVIOUS
<1>4. IsFiniteSet(both) /\ Cardinality(both) \in Nat
  <2> HIDE DEF both
  <2>1. IsFiniteSet(both)
    BY <1>2, <1>3, FS_Subset
  <2>2. QED
    BY <2>1, FS_CardinalityType
<1>5. Cardinality(UnitsOf(n, one) \cup UnitsOf(n, two)) =
        Cardinality(UnitsOf(n, one)) + Cardinality(UnitsOf(n, two)) - Cardinality(both)
  BY <1>2, FS_Union
<1>6. Cardinality(UnitsOf(n, one \cup two)) =
        Cardinality(UnitsOf(n, one)) + Cardinality(UnitsOf(n, two)) - Cardinality(both)
  BY <1>1, <1>5, Zenon
<1>7. ASSUME NEW p \in Nat, NEW q \in Nat, NEW r \in Nat, NEW s, s = p + q - r PROVE s <= p + q
  BY <1>7
<1>8. QED
  <2> HIDE DEF both
  <2>1. QED
    BY <1>2, <1>4, <1>6, <1>7

LEMMA UnitsAdd ==
  ASSUME NEW all, IsFiniteSet(all), NEW n, NEW x, NEW y,
         \A c \in all : x[c] \in Nat /\ y[c] \in Nat /\ n[c] = x[c] + y[c]
  PROVE  Cardinality(UnitsOf(n, all)) = Cardinality(UnitsOf(x, all)) + Cardinality(UnitsOf(y, all))
<1> DEFINE low == UnitsOf(x, all)
           new == UnitsOf(y, all)
           high == {u \in UnitsOf(n, all) : u \notin low}
           f == [u \in new |-> <<u[1], u[2] + x[u[1]]>>]
<1>1. /\ IsFiniteSet(low) /\ Cardinality(low) \in Nat
      /\ IsFiniteSet(new) /\ Cardinality(new) \in Nat
  BY UnitsAreFinite
<1>2. ASSUME NEW c \in all, NEW k \in Nat, k > 0
      PROVE  /\ <<c, k>> \in low <=> k <= x[c]
             /\ <<c, k>> \in new <=> k <= y[c]
             /\ <<c, k>> \in UnitsOf(n, all) <=> k <= x[c] + y[c]
  BY <1>2, UnitMembers
<1>3. ASSUME NEW u \in UnitsOf(n, all) \cup low \cup new
      PROVE  \E c \in all, k \in Nat : k > 0 /\ u = <<c, k>>
  BY UnitMembers
<1>4. UnitsOf(n, all) = low \cup high /\ low \cap high = {}
  <2>1. ASSUME NEW u \in low PROVE u \in UnitsOf(n, all)
    <3>1. PICK c \in all, k \in Nat : k > 0 /\ u = <<c, k>>
      BY <1>3
    <3>2. k <= x[c] /\ x[c] \in Nat /\ y[c] \in Nat
      <4> HIDE DEF low
      <4>1. QED
        BY <1>2, <3>1
    <3>3. QED
      BY <1>2, <3>1, <3>2
  <2> HIDE DEF low
  <2>2. QED
    BY <2>1
<1>5. ASSUME NEW u \in new
      PROVE  f[u] \in high /\ \E c \in all, k \in Nat : k > 0 /\ u = <<c, k>> /\ f[u] = <<c, k + x[c]>>
  <2>1. PICK c \in all, k \in Nat : k > 0 /\ u = <<c, k>>
    BY <1>3
  <2>2. f[u] = <<c, k + x[c]>>
    BY <2>1
  <2>3. k <= y[c] /\ x[c] \in Nat /\ y[c] \in Nat /\ k + x[c] \in Nat /\ k + x[c] > 0
    <3> HIDE DEF new, f
    <3>1. QED
      BY <1>2, <2>1
  <2>4. <<c, k + x[c]>> \in UnitsOf(n, all) /\ <<c, k + x[c]>> \notin low
    <3> DEFINE m == k + x[c]
    <3>1. m \in Nat /\ m > 0 /\ m <= x[c] + y[c] /\ ~(m <= x[c])
      BY <2>1, <2>3
    <3> HIDE DEF low, m
    <3>2. <<c, m>> \in UnitsOf(n, all) /\ <<c, m>> \notin low
      BY <1>2, <3>1
    <3>3. QED
      BY <3>2 DEF m
  <2>5. QED
    BY <2>1, <2>2, <2>4
<1>6. \A u, v \in new : f[u] = f[v] => u = v
  <2>1. SUFFICES ASSUME NEW u \in new, NEW v \in new, f[u] = f[v] PROVE u = v
    OBVIOUS
  <2> HIDE DEF new, f
  <2>2. PICK c \in all, k \in Nat : u = <<c, k>> /\ f[u] = <<c, k + x[c]>>
    BY <1>5
  <2>3. PICK d \in all, m \in Nat : v = <<d, m>> /\ f[v] = <<d, m + x[d]>>
    BY <1>5
  <2>4. c = d /\ k + x[c] = m + x[d] /\ x[c] \in Nat
    BY <2>1, <2>2, <2>3
  <2>5. k = m
    BY <2>4
  <2>6. QED
    BY <2>2, <2>3, <2>4, <2>5
<1>7. ASSUME NEW v \in high PROVE \E u \in new : f[u] = v
  <2>1. PICK c \in all, k \in Nat : k > 0 /\ v = <<c, k>>
    BY <1>3
  <2>2. k <= x[c] + y[c] /\ ~(k <= x[c]) /\ x[c] \in Nat /\ y[c] \in Nat
    <3>1. v \in UnitsOf(n, all) /\ v \notin low
      OBVIOUS
    <3> HIDE DEF low, high
    <3>2. QED
      BY <1>2, <2>1, <3>1
  <2> DEFINE m == k - x[c]
  <2>3. m \in Nat /\ m > 0 /\ m <= y[c] /\ m + x[c] = k
    BY <2>2
  <2>4. <<c, m>> \in new
    <3> HIDE DEF new, m
    <3>1. QED
      BY <1>2, <2>3
  <2>5. f[<<c, m>>] = <<c, m + x[c]>>
    <3> HIDE DEF m
    <3>1. QED
      BY <2>4
  <2>6. QED
    <3> HIDE DEF m, f, new
    <3>1. QED
      BY <2>1, <2>3, <2>4, <2>5
<1>8. f \in Bijection(new, high)
  <2>1. f \in [new -> high]
    <3>1. \A u \in new : f[u] \in high
      BY <1>5
    <3> HIDE DEF new, high
    <3>2. QED
      BY <3>1
  <2> HIDE DEF f, new, high
  <2>2. QED
    BY <1>6, <1>7, <2>1 DEF Bijection, Injection, Surjection, IsInjective
<1>9. IsFiniteSet(high) /\ Cardinality(high) = Cardinality(new)
  <2> HIDE DEF f, new, high
  <2>1. QED
    BY <1>1, <1>8, FS_Bijection DEF ExistsBijection
<1>10. QED
  <2> HIDE DEF f, new, high, low
  <2>1. Cardinality(low \cup high) = Cardinality(low) + Cardinality(high) - Cardinality({})
    BY <1>1, <1>4, <1>9, FS_Union
  <2>2. Cardinality({}) = 0
    BY FS_EmptySet
  <2>3. QED
    BY <1>1, <1>4, <1>9, <2>1, <2>2 DEF low, new

(* A sum of integers, as units above zero less those below.                  *)
Balance(n, all) == Cardinality(UnitsOf(n, all)) - Cardinality(UnitsOf([c \in all |-> -n[c]], all))

LEMMA BalanceOfDifference ==
  ASSUME NEW all, IsFiniteSet(all), NEW n, NEW x, NEW y,
         \A c \in all : x[c] \in Nat /\ y[c] \in Nat /\ n[c] = x[c] - y[c]
  PROVE  Balance(n, all) = Cardinality(UnitsOf(x, all)) - Cardinality(UnitsOf(y, all))
<1> DEFINE less == [c \in all |-> -n[c]]
           above == [c \in all |-> IF n[c] > 0 THEN n[c] ELSE 0]
           below == [c \in all |-> IF n[c] < 0 THEN -n[c] ELSE 0]
           most == [c \in all |-> IF n[c] > 0 THEN x[c] ELSE y[c]]
<1>1. ASSUME NEW c \in all
      PROVE  /\ n[c] \in Int /\ above[c] \in Nat /\ below[c] \in Nat /\ most[c] \in Nat
             /\ most[c] = x[c] + below[c] /\ most[c] = y[c] + above[c]
             /\ 1..n[c] = 1..above[c] /\ 1..less[c] = 1..below[c]
  <2>1. x[c] \in Nat /\ y[c] \in Nat /\ n[c] = x[c] - y[c]
    OBVIOUS
  <2>2. /\ above[c] = IF n[c] > 0 THEN n[c] ELSE 0
        /\ below[c] = IF n[c] < 0 THEN -n[c] ELSE 0
        /\ most[c] = IF n[c] > 0 THEN x[c] ELSE y[c]
        /\ less[c] = -n[c]
    OBVIOUS
  <2> HIDE DEF above, below, most, less
  <2>3. QED
    BY <2>1, <2>2
<1>2. UnitsOf(n, all) = UnitsOf(above, all) /\ UnitsOf(less, all) = UnitsOf(below, all)
  <2>1. (\A c \in all : 1..n[c] = 1..above[c]) /\ \A c \in all : 1..less[c] = 1..below[c]
    BY <1>1
  <2> HIDE DEF above, below, most, less
  <2>2. {{c} \X (1..n[c]) : c \in all} = {{c} \X (1..above[c]) : c \in all}
    BY <2>1
  <2>3. {{c} \X (1..less[c]) : c \in all} = {{c} \X (1..below[c]) : c \in all}
    BY <2>1
  <2>4. QED
    BY <2>2, <2>3 DEF UnitsOf
<1>3. Balance(n, all) = Cardinality(UnitsOf(above, all)) - Cardinality(UnitsOf(below, all))
  BY <1>2 DEF Balance
<1>4. /\ Cardinality(UnitsOf(above, all)) \in Nat /\ Cardinality(UnitsOf(below, all)) \in Nat
      /\ Cardinality(UnitsOf(x, all)) \in Nat /\ Cardinality(UnitsOf(y, all)) \in Nat
  <2>1. (\A c \in all : above[c] \in Nat) /\ (\A c \in all : below[c] \in Nat)
    BY <1>1
  <2> HIDE DEF above, below, most, less
  <2>2. QED
    BY <2>1, UnitsAreFinite
<1>5. /\ Cardinality(UnitsOf(most, all)) = Cardinality(UnitsOf(x, all)) + Cardinality(UnitsOf(below, all))
      /\ Cardinality(UnitsOf(most, all)) = Cardinality(UnitsOf(y, all)) + Cardinality(UnitsOf(above, all))
  <2>1. /\ \A c \in all : x[c] \in Nat /\ below[c] \in Nat /\ most[c] = x[c] + below[c]
        /\ \A c \in all : y[c] \in Nat /\ above[c] \in Nat /\ most[c] = y[c] + above[c]
    BY <1>1
  <2> HIDE DEF above, below, most, less
  <2>2. QED
    BY <2>1, UnitsAdd
<1>6. QED
  <2> HIDE DEF above, below, most, less
  <2>1. QED
    BY <1>3, <1>4, <1>5

(* One more of them.                                                         *)
LEMMA UnitsOfOneMore ==
  ASSUME NEW all, IsFiniteSet(all), NEW k, k \notin all, NEW n, n[k] \in Nat, \A c \in all : n[c] \in Nat
  PROVE  Cardinality(UnitsOf(n, all \cup {k})) = Cardinality(UnitsOf(n, all)) + n[k]
<1> DEFINE old == UnitsOf(n, all)
           new == {k} \X (1..n[k])
<1>1. UnitsOf(n, all \cup {k}) = old \cup new
  BY DEF UnitsOf
<1>2. old \cap new = {}
  <2>1. ASSUME NEW u \in old, u \in new PROVE FALSE
    <3>1. PICK c \in all : \E m \in 1..n[c] : u = <<c, m>>
      BY UnitMembers
    <3>2. u[1] = c /\ u[1] = k
      BY <2>1, <3>1
    <3>3. QED
      BY <3>2
  <2>2. QED
    BY <2>1
<1>3. IsFiniteSet(old) /\ Cardinality(old) \in Nat
  BY UnitsAreFinite
<1>4. IsFiniteSet(new) /\ Cardinality(new) = n[k]
  <2>1. 1 \in Int /\ n[k] \in Int
    OBVIOUS
  <2>2. IsFiniteSet(1..n[k]) /\ Cardinality(1..n[k]) = n[k]
    BY <2>1, FS_Interval
  <2>3. IsFiniteSet({k}) /\ Cardinality({k}) = 1
    BY FS_Singleton
  <2>4. IsFiniteSet(new) /\ Cardinality(new) = 1 * n[k]
    <3> DEFINE one == {k}
               few == 1..n[k]
    <3>1. IsFiniteSet(one) /\ Cardinality(one) = 1 /\ IsFiniteSet(few) /\ Cardinality(few) = n[k]
      BY <2>2, <2>3
    <3> HIDE DEF one, few
    <3>2. IsFiniteSet(one \X few) /\ Cardinality(one \X few) = Cardinality(one) * Cardinality(few)
      BY <3>1, FS_Product
    <3>3. QED
      BY <3>1, <3>2 DEF one, few
  <2>5. QED
    BY <2>4
<1>5. Cardinality(old \cup new) = Cardinality(old) + Cardinality(new) - Cardinality(old \cap new)
  BY <1>3, <1>4, FS_Union
<1>6. Cardinality(old \cap new) = 0
  BY <1>2, FS_EmptySet
<1>7. QED
  <2> HIDE DEF old, new
  <2>1. Cardinality(old \cup new) = Cardinality(old) + n[k]
    BY <1>3, <1>4, <1>5, <1>6
  <2>2. QED
    BY <1>1, <2>1 DEF old

(* What the sampler last wrote of a tid before a sample.                     *)
LatestOf(earlier, r, t) ==
  IF earlier = {} THEN 0 ELSE r[CHOOSE j \in earlier : \A k \in earlier : k <= j][t].ticks
Told(w, r, i, t) == LatestOf({j \in 1..i - 1 : t \in w[j]}, r, t)

LEMMA LastTicksTold == ASSUME NEW i, NEW t PROVE S!LastTicks(i, t) = Told(written, readings, i, t)
  BY DEF S!LastTicks, S!Before, Told, LatestOf

LEMMA ToldNothing == ASSUME NEW w, NEW r, NEW t PROVE Told(w, r, 1, t) = 0
<1>1. {j \in 1..1 - 1 : t \in w[j]} = {}
  OBVIOUS
<1>2. QED
  BY <1>1 DEF Told, LatestOf

LEMMA ToldRow ==
  ASSUME NEW w, NEW r, NEW t, NEW i \in Nat \ {0}, t \in w[i]
  PROVE  Told(w, r, i + 1, t) = r[i][t].ticks
<1> DEFINE earlier == {j \in 1..(i + 1) - 1 : t \in w[j]}
           found == CHOOSE j \in earlier : \A k \in earlier : k <= j
<1>1. i \in earlier /\ (\A k \in earlier : k <= i) /\ \A k \in earlier : k \in Int
  OBVIOUS
<1>2. found = i
  <2>1. \E j \in earlier : \A k \in earlier : k <= j
    BY <1>1
  <2> HIDE DEF earlier
  <2>2. found \in earlier /\ \A k \in earlier : k <= found
    BY <2>1
  <2>3. found <= i /\ i <= found /\ found \in Int /\ i \in Int
    BY <1>1, <2>2
  <2> HIDE DEF found
  <2>4. QED
    BY <2>3
<1>3. Told(w, r, i + 1, t) = r[found][t].ticks
  BY <1>1 DEF Told, LatestOf
<1>4. QED
  <2> HIDE DEF found
  <2>1. QED
    BY <1>2, <1>3

LEMMA ToldNone ==
  ASSUME NEW w, NEW r, NEW t, NEW i \in Nat \ {0}, t \notin w[i]
  PROVE  Told(w, r, i + 1, t) = Told(w, r, i, t)
<1>1. {j \in 1..(i + 1) - 1 : t \in w[j]} = {j \in 1..i - 1 : t \in w[j]}
  OBVIOUS
<1>2. QED
  BY <1>1 DEF Told

LEMMA ToldSame ==
  ASSUME NEW w, NEW r, NEW v, NEW q, NEW t, NEW i \in Nat,
         \A j \in 1..i - 1 : (t \in w[j] <=> t \in v[j]) /\ r[j][t] = q[j][t]
  PROVE  Told(w, r, i, t) = Told(v, q, i, t)
<1> DEFINE earlier == {j \in 1..i - 1 : t \in w[j]}
           found == CHOOSE j \in earlier : \A k \in earlier : k <= j
<1>1. earlier = {j \in 1..i - 1 : t \in v[j]}
  OBVIOUS
<1>2. CASE earlier = {}
  BY <1>1, <1>2 DEF Told, LatestOf
<1>3. CASE earlier # {}
  <2>1. \E x \in earlier : \A y \in earlier : y <= x
    <3>1. earlier \subseteq 1..i
      OBVIOUS
    <3> HIDE DEF earlier
    <3>2. QED
      BY <1>3, <3>1, GreatestNumber
  <2>2. found \in earlier
    <3> HIDE DEF earlier
    <3>1. QED
      BY <2>1
  <2>3. r[found][t] = q[found][t]
    <3> HIDE DEF found
    <3>1. QED
      BY <2>2
  <2>4. Told(w, r, i, t) = r[found][t].ticks /\ Told(v, q, i, t) = q[found][t].ticks
    BY <1>1, <1>3 DEF Told, LatestOf
  <2>5. QED
    BY <2>3, <2>4
<1>4. QED
  BY <1>2, <1>3

(* What the sampler remembers of a tid is what the last row of it says, and  *)
(* where a thread that was there has no row the last one says the same.      *)
SeriesPart ==
  reader = "series" =>
    /\ \A t \in DOMAIN last : last[t] = Told(written, readings, Len(readings) + 1, t)
    /\ doing = "read" => \A t \in Tids : t >= next => t \notin written[Len(readings)]
    /\ \A i \in 1..Len(readings), t \in Tids :
         /\ i < Len(readings) \/ doing # "read" \/ t < next
         /\ t \notin written[i] /\ readings[i][t].born > 0
         => readings[i][t].ticks = Told(written, readings, i, t)

LEMMA SeriesInit == S!Init => SeriesPart
<1>1. SUFFICES ASSUME S!Init PROVE SeriesPart
  OBVIOUS
<1>2. readings = <<>> /\ last = <<>> /\ doing = "check"
  BY <1>1 DEF S!Init
<1>3. QED
  BY <1>2 DEF SeriesPart

LEMMA SeriesCheck == ASSUME SampleInv, SeriesPart, S!Check PROVE SeriesPart'
<1>1. ReadPart /\ FirstPart /\ thread \in [Tids -> Looks]
  BY DEF SampleInv, SystemPart
<1>2. reader' = reader /\ last' = last /\ next' = 1 /\ doing = "check"
  BY DEF S!Check
<1> DEFINE n == Len(readings)
<1>3. /\ n \in Nat /\ DOMAIN readings = 1..n /\ Len(written) = n /\ written \in Seq(SUBSET Tids)
      /\ readings \in Seq([Tids -> Looks]) /\ DOMAIN last \subseteq Tids
  BY <1>1 DEF ReadPart, FirstPart
<1>4. CASE reader # "series"
  BY <1>2, <1>4 DEF SeriesPart
<1>5. CASE reader = "series" /\ doing' = "exit" /\ UNCHANGED <<readings, written>>
  BY <1>2, <1>5 DEF SeriesPart
<1>6. CASE reader = "series" /\ doing' = "read" /\ readings' = Append(readings, thread) /\ written' = Append(written, {})
  <2> DEFINE r == Append(readings, thread)
             w == Append(written, {})
  <2>1. /\ Len(r) = n + 1 /\ Len(w) = n + 1 /\ w[n + 1] = {}
        /\ \A i \in 1..n : r[i] = readings[i] /\ w[i] = written[i]
    BY <1>1, <1>3
  <2>2. readings' = r /\ written' = w
    BY <1>6
  <2> HIDE DEF r, w, n
  <2>3. ASSUME NEW t, NEW i \in 1..(n + 1) PROVE Told(w, r, i, t) = Told(written, readings, i, t)
    <3>1. i \in Nat /\ \A j \in 1..i - 1 : w[j] = written[j] /\ r[j] = readings[j]
      BY <1>3, <2>1
    <3>2. QED
      BY <3>1, ToldSame
  <2>4. ASSUME NEW t \in DOMAIN last PROVE last[t] = Told(w, r, n + 2, t)
    <3>1. n + 1 \in Nat \ {0} /\ t \notin w[n + 1] /\ (n + 1) + 1 = n + 2 /\ n + 1 \in 1..(n + 1)
      BY <1>3, <2>1
    <3>2. Told(w, r, n + 2, t) = Told(w, r, n + 1, t)
      BY <3>1, ToldNone
    <3>3. last[t] = Told(written, readings, n + 1, t)
      BY <1>6 DEF SeriesPart, n
    <3>4. QED
      BY <2>3, <3>1, <3>2, <3>3
  <2>5. ASSUME NEW i \in 1..(n + 1), NEW t \in Tids, i < n + 1 \/ t < 1, t \notin w[i], r[i][t].born > 0
        PROVE  r[i][t].ticks = Told(w, r, i, t)
    <3>1. i \in 1..n
      BY <1>3, <2>5, TidsAreNumbers
    <3>2. readings[i][t].ticks = Told(written, readings, i, t)
      BY <1>2, <1>6, <2>1, <2>5, <3>1 DEF SeriesPart, n
    <3>3. QED
      BY <2>1, <2>3, <3>1, <3>2
  <2>6. (n + 1) + 1 = n + 2
    BY <1>3
  <2>7. QED
    BY <1>2, <1>6, <2>1, <2>2, <2>4, <2>5, <2>6 DEF SeriesPart
<1>7. QED
  BY <1>4, <1>5, <1>6 DEF S!Check, S!Leave

LEMMA SeriesRead == ASSUME SampleInv, SeriesPart, S!ReadThread PROVE SeriesPart'
<1>1. ReadPart /\ FirstPart /\ thread \in [Tids -> Looks]
  BY DEF SampleInv, SystemPart
<1> DEFINE n == Len(readings)
           r == [readings EXCEPT ![n][next] = thread[next]]
           w == [written EXCEPT ![n] = @ \cup {next}]
           k == next
<1>2. /\ n \in Nat /\ n > 0 /\ DOMAIN readings = 1..n /\ Len(written) = n /\ DOMAIN written = 1..n
      /\ readings \in Seq([Tids -> Looks]) /\ written \in Seq(SUBSET Tids) /\ DOMAIN last \subseteq Tids /\ k \in Tids
      /\ reader' = reader /\ doing = "read" /\ readings' = r
  BY <1>1 DEF ReadPart, FirstPart, S!ReadThread
<1>3. /\ Len(r) = n
      /\ \A i \in 1..n, t \in Tids : r[i][t] = IF i = n /\ t = k THEN thread[k] ELSE readings[i][t]
  BY <1>1, <1>2
<1>4. /\ Len(w) = n
      /\ \A i \in 1..n : \A t : t \in w[i] <=> t \in written[i] \/ (i = n /\ t = k)
  BY <1>2
<1>5. /\ Cardinality(Tids) \in Nat /\ Tids = 1..Cardinality(Tids) /\ S!Cardinality(Tids) = Cardinality(Tids)
  BY TidsAreNumbers, CardinalityOfSample
<1>6. \/ doing' = "pause" /\ next' = k /\ k = Cardinality(Tids)
      \/ doing' = "read" /\ next' = k + 1
  BY <1>5 DEF S!ReadThread
<1>7. CASE reader # "series"
  BY <1>2, <1>7 DEF SeriesPart
<1>8. CASE reader = "series"
  <2>1. /\ \A t \in DOMAIN last : last[t] = Told(written, readings, n + 1, t)
        /\ \A t \in Tids : t >= k => t \notin written[n]
        /\ \A i \in 1..n, t \in Tids :
             (i < n \/ t < k) /\ t \notin written[i] /\ readings[i][t].born > 0 => readings[i][t].ticks = Told(written, readings, i, t)
    BY <1>2, <1>8 DEF SeriesPart
  <2>2. \/ S!HasRow(k) /\ written' = w /\ last' = S!Set(last, k, thread[k].ticks)
        \/ ~ S!HasRow(k) /\ written' = written /\ last' = last
    <3>1. IF S!HasRow(next)
          THEN /\ written' = [written EXCEPT ![Len(written)] = @ \cup {next}]
               /\ last' = IF reader = "series" THEN S!Set(last, next, thread[next].ticks) ELSE last
          ELSE UNCHANGED <<written, last>>
      BY DEF S!ReadThread
    <3>2. CASE S!HasRow(next)
      <4>1. /\ written' = [written EXCEPT ![Len(written)] = @ \cup {next}]
            /\ last' = IF reader = "series" THEN S!Set(last, next, thread[next].ticks) ELSE last
        BY <3>1, <3>2
      <4>2. [written EXCEPT ![Len(written)] = @ \cup {next}] = w
        BY <1>2
      <4>3. QED
        BY <1>8, <3>2, <4>1, <4>2
    <3>3. CASE ~ S!HasRow(next)
      BY <3>1, <3>3
    <3>4. QED
      BY <3>2, <3>3
  <2>3. S!HasRow(k) <=> thread[k].born > 0 /\ (k \in DOMAIN last => last[k] # thread[k].ticks)
    BY <1>8 DEF S!HasRow
  <2> DEFINE v == written'
  <2>4. /\ Len(v) = n \/ v = written
        /\ \A i \in 1..n : \A t : t \in v[i] <=> t \in written[i] \/ (i = n /\ t = k /\ S!HasRow(k))
    <3> HIDE DEF w
    <3>1. QED
      BY <1>4, <2>2
  <2>5. k \notin written[n] /\ k \in Nat /\ n \in 1..n
    BY <1>2, <1>5, <2>1
  <2> HIDE DEF r, w, v, n, k
  <2>6. ASSUME NEW t \in Tids, NEW i \in 1..(n + 1), t # k \/ i \in 1..n
        PROVE  Told(v, r, i, t) = Told(written, readings, i, t)
    <3>1. i \in Nat /\ \A j \in 1..i - 1 : (t \in v[j] <=> t \in written[j]) /\ r[j][t] = readings[j][t]
      <4>1. ASSUME NEW j \in 1..i - 1 PROVE (t \in v[j] <=> t \in written[j]) /\ r[j][t] = readings[j][t]
        <5>1. j \in 1..n /\ (t # k \/ j # n)
          BY <1>2, <2>6
        <5>2. QED
          BY <1>3, <2>4, <5>1
      <4>2. QED
        BY <1>2, <4>1
    <3>2. QED
      BY <3>1, ToldSame
  <2>7. n + 1 \in 1..(n + 1) /\ n \in 1..(n + 1) /\ n \in Nat \ {0} /\ 1..n \subseteq 1..(n + 1)
    BY <1>2
  <2>8. ASSUME S!HasRow(k) PROVE Told(v, r, n + 1, k) = thread[k].ticks
    <3>1. k \in v[n]
      BY <2>4, <2>5, <2>8
    <3>2. Told(v, r, n + 1, k) = r[n][k].ticks
      BY <2>7, <3>1, ToldRow
    <3>3. QED
      BY <1>2, <1>3, <2>5, <3>2
  <2>9. ASSUME ~ S!HasRow(k) PROVE Told(v, r, n + 1, k) = Told(written, readings, n + 1, k)
                                   /\ Told(v, r, n, k) = Told(v, r, n + 1, k)
    <3>1. k \notin v[n] /\ k \notin written[n]
      BY <2>4, <2>5, <2>9
    <3>2. Told(v, r, n + 1, k) = Told(v, r, n, k) /\ Told(written, readings, n + 1, k) = Told(written, readings, n, k)
      BY <2>7, <3>1, ToldNone
    <3>3. Told(v, r, n, k) = Told(written, readings, n, k)
      BY <1>2, <2>5, <2>6, <2>7
    <3>4. QED
      BY <3>2, <3>3
  <2>10. ASSUME NEW t \in DOMAIN last' PROVE last'[t] = Told(v, r, n + 1, t)
    <3>1. t = k \/ (t \in DOMAIN last /\ t \in Tids /\ last'[t] = last[t])
      BY <1>2, <2>2, <2>10 DEF S!Set
    <3>2. CASE t # k
      BY <2>1, <2>6, <2>7, <3>1, <3>2
    <3>3. CASE t = k /\ S!HasRow(k)
      <4>1. last'[k] = thread[k].ticks
        BY <2>2, <3>3 DEF S!Set
      <4>2. QED
        BY <2>8, <3>3, <4>1
    <3>4. CASE t = k /\ ~ S!HasRow(k)
      <4>1. last' = last /\ k \in DOMAIN last
        BY <2>2, <2>10, <3>4
      <4>2. QED
        BY <2>1, <2>9, <3>4, <4>1
    <3>5. QED
      BY <3>1, <3>2, <3>3, <3>4
  <2>11. ASSUME doing' = "read", NEW t \in Tids, t >= next' PROVE t \notin v[n]
    <3>1. t # k /\ t >= k /\ t \in Nat
      BY <1>5, <1>6, <2>5, <2>11
    <3>2. QED
      BY <2>1, <2>4, <2>5, <3>1
  <2>12. ASSUME NEW i \in 1..n, NEW t \in Tids, i < n \/ doing' # "read" \/ t < next', t \notin v[i], r[i][t].born > 0
         PROVE  r[i][t].ticks = Told(v, r, i, t)
    <3>1. CASE i # n \/ t # k
      <4>1. i < n \/ t < k
        BY <1>2, <1>5, <1>6, <2>5, <2>12, <3>1
      <4>2. r[i][t] = readings[i][t] /\ t \notin written[i]
        BY <1>3, <2>4, <2>12, <3>1
      <4>3. readings[i][t].ticks = Told(written, readings, i, t)
        BY <2>1, <2>12, <4>1, <4>2
      <4>4. Told(v, r, i, t) = Told(written, readings, i, t)
        BY <2>6, <2>7
      <4>5. QED
        BY <4>2, <4>3, <4>4
    <3>2. CASE i = n /\ t = k
      <4>1. ~ S!HasRow(k) /\ r[n][k] = thread[k]
        BY <1>2, <1>3, <2>4, <2>5, <2>12, <3>2
      <4>2. k \in DOMAIN last /\ last[k] = thread[k].ticks
        BY <2>3, <2>12, <3>2, <4>1
      <4>3. last[k] = Told(written, readings, n + 1, k)
        BY <2>1, <4>2
      <4>4. QED
        BY <2>9, <3>2, <4>1, <4>2, <4>3
    <3>3. QED
      BY <3>1, <3>2
  <2>13. Len(r) = n /\ readings' = r /\ written' = v
    BY <1>2, <1>3 DEF v
  <2>14. QED
    BY <2>10, <2>11, <2>12, <2>13 DEF SeriesPart
<1>9. QED
  BY <1>7, <1>8

LEMMA SeriesStep == ASSUME SampleInv, SeriesPart, [S!Next]_S!vars PROVE SeriesPart'
<1>1. CASE S!Pause
  <2>1. doing # "read" /\ doing' # "read" /\ UNCHANGED <<reader, next, last, readings, written>>
    BY <1>1 DEF S!Pause, S!Leave, S!system
  <2>2. QED
    BY <2>1 DEF SeriesPart
<1>2. CASE S!Run \/ S!Begin \/ S!End \/ S!ProcessEnds \/ S!PidReused \/ UNCHANGED S!vars
  <2>1. UNCHANGED <<reader, doing, next, readings, written, last>>
    BY <1>2 DEF S!Run, S!Begin, S!End, S!ProcessEnds, S!PidReused, S!vars, S!reading
  <2>2. QED
    BY <2>1 DEF SeriesPart
<1>3. QED
  BY <1>1, <1>2, SeriesCheck, SeriesRead DEF S!Next

LEMMA ToldTyped ==
  ASSUME SampleInv, NEW t \in Tids, NEW i \in 1..(Len(readings) + 1)
  PROVE  Told(written, readings, i, t) \in Nat
<1> DEFINE earlier == {j \in 1..i - 1 : t \in written[j]}
           found == CHOOSE j \in earlier : \A k \in earlier : k <= j
<1>1. Len(readings) \in Nat /\ \A j \in 1..Len(readings) : readings[j] \in [Tids -> Looks]
  BY DEF SampleInv, ReadPart
<1>2. CASE earlier = {}
  BY <1>2 DEF Told, LatestOf
<1>3. CASE earlier # {}
  <2>1. \E x \in earlier : \A y \in earlier : y <= x
    <3>1. earlier \subseteq 1..i /\ i \in Nat
      BY <1>1
    <3> HIDE DEF earlier
    <3>2. QED
      BY <1>3, <3>1, GreatestNumber
  <2>2. found \in earlier
    <3> HIDE DEF earlier
    <3>1. QED
      BY <2>1
  <2>3. found \in 1..Len(readings)
    BY <1>1, <2>2
  <2>4. Told(written, readings, i, t) = readings[found][t].ticks
    BY <1>3 DEF Told, LatestOf
  <2> HIDE DEF found
  <2>5. readings[found][t].ticks \in Nat
    BY <1>1, <2>3 DEF Looks
  <2>6. QED
    BY <2>4, <2>5
<1>4. QED
  BY <1>2, <1>3

(* The rows that the report takes for intervals of a tid, what they say and  *)
(* what they are compared with.                                              *)
RowsOf(i, t) == {k \in 2..i : t \in written[k]}
TicksOf(t) == [k \in 1..Len(readings) |-> readings[k][t].ticks]
ToldOf(t) == [k \in 1..Len(readings) |-> Told(written, readings, k, t)]

(* Up to each sample, they add up to what was told last.                     *)
AddsUp(i, t) ==
  Cardinality(UnitsOf(TicksOf(t), RowsOf(i, t))) + readings[1][t].ticks
    = Cardinality(UnitsOf(ToldOf(t), RowsOf(i, t))) + Told(written, readings, i + 1, t)

LEMMA RowsTyped ==
  ASSUME SampleInv, NEW t \in Tids, NEW i \in 1..Len(readings)
  PROVE  /\ IsFiniteSet(RowsOf(i, t)) /\ RowsOf(i, t) \subseteq 1..Len(readings)
         /\ \A k \in 1..Len(readings) : /\ TicksOf(t)[k] = readings[k][t].ticks /\ TicksOf(t)[k] \in Nat
                                        /\ ToldOf(t)[k] = Told(written, readings, k, t) /\ ToldOf(t)[k] \in Nat
<1>1. Len(readings) \in Nat /\ \A j \in 1..Len(readings) : readings[j] \in [Tids -> Looks]
  BY DEF SampleInv, ReadPart
<1>2. 2 \in Int /\ i \in Int /\ RowsOf(i, t) \subseteq 2..i /\ RowsOf(i, t) \subseteq 1..Len(readings)
  BY <1>1 DEF RowsOf
<1>3. IsFiniteSet(RowsOf(i, t))
  BY <1>2, FS_Interval, FS_Subset
<1>4. ASSUME NEW k \in 1..Len(readings)
      PROVE  /\ TicksOf(t)[k] = readings[k][t].ticks /\ TicksOf(t)[k] \in Nat
             /\ ToldOf(t)[k] = Told(written, readings, k, t) /\ ToldOf(t)[k] \in Nat
  <2>1. k \in 1..(Len(readings) + 1)
    BY <1>1
  <2>2. Told(written, readings, k, t) \in Nat
    BY <2>1, ToldTyped
  <2>3. readings[k][t].ticks \in Nat
    BY <1>1 DEF Looks
  <2>4. QED
    BY <2>2, <2>3 DEF TicksOf, ToldOf
<1>5. QED
  BY <1>2, <1>3, <1>4

LEMMA FirstAddsUp ==
  ASSUME SampleInv, NEW t \in Tids, Len(readings) > 1 \/ doing # "read", Len(readings) > 0
  PROVE  AddsUp(1, t)
<1>1. Len(readings) \in Nat /\ 1 \in 1..Len(readings) /\ 1 \in Nat \ {0} /\ readings # <<>>
  BY DEF SampleInv, ReadPart
<1>2. RowsOf(1, t) = {}
  BY DEF RowsOf
<1>3. UnitsOf(TicksOf(t), {}) = {} /\ UnitsOf(ToldOf(t), {}) = {}
  BY DEF UnitsOf
<1>4. Told(written, readings, 1 + 1, t) = readings[1][t].ticks
  <2>1. CASE t \in written[1]
    <3> DEFINE one == 1
    <3>1. one \in Nat \ {0} /\ t \in written[one]
      BY <2>1
    <3> HIDE DEF one
    <3>2. Told(written, readings, one + 1, t) = readings[one][t].ticks
      BY <3>1, ToldRow
    <3>3. QED
      BY <3>2 DEF one
  <2>2. CASE t \notin written[1]
    <3>1. readings[1][t].ticks = 0
      BY <1>1, <2>2 DEF SampleInv, FirstPart
    <3>2. Told(written, readings, 1 + 1, t) = Told(written, readings, 1, t)
      BY <1>1, <2>2, ToldNone
    <3>3. QED
      BY <3>1, <3>2, ToldNothing
  <2>3. QED
    BY <2>1, <2>2
<1>5. readings[1][t].ticks \in Nat
  BY <1>1, RowsTyped
<1>6. Cardinality({}) = 0
  BY FS_EmptySet
<1>7. Cardinality(UnitsOf(TicksOf(t), RowsOf(1, t))) = 0 /\ Cardinality(UnitsOf(ToldOf(t), RowsOf(1, t))) = 0
  BY <1>2, <1>3, <1>6
<1>8. QED
  BY <1>4, <1>5, <1>7 DEF AddsUp

LEMMA NextAddsUp ==
  ASSUME SampleInv, NEW t \in Tids, NEW i \in 1..Len(readings), i + 1 \in 1..Len(readings), AddsUp(i, t)
  PROVE  AddsUp(i + 1, t)
<1> DEFINE n == Len(readings)
           few == RowsOf(i, t)
           x == Cardinality(UnitsOf(TicksOf(t), few))
           y == Cardinality(UnitsOf(ToldOf(t), few))
           more == RowsOf(i + 1, t)
           d == i + 1
<1>1. /\ n \in Nat /\ i \in Nat /\ d \in Nat \ {0} /\ d \in 1..n /\ d \in 1..(n + 1) /\ d + 1 \in 1..(n + 1)
      /\ d \in 2..d
  BY DEF SampleInv, ReadPart
<1>2. /\ IsFiniteSet(few) /\ few \subseteq 1..n
      /\ \A k \in 1..n : /\ TicksOf(t)[k] = readings[k][t].ticks /\ TicksOf(t)[k] \in Nat
                         /\ ToldOf(t)[k] = Told(written, readings, k, t) /\ ToldOf(t)[k] \in Nat
  BY RowsTyped
<1>3. (\A k \in few : TicksOf(t)[k] \in Nat) /\ (\A k \in few : ToldOf(t)[k] \in Nat)
  <2> HIDE DEF few
  <2>1. QED
    BY <1>2
<1>4. x \in Nat /\ y \in Nat
  <2> HIDE DEF few
  <2>1. QED
    BY <1>2, <1>3, UnitsAreFinite
<1>5. readings[1][t].ticks \in Nat /\ Told(written, readings, d, t) \in Nat /\ readings[d][t].ticks \in Nat
  BY <1>1, <1>2, ToldTyped
<1>6. x + readings[1][t].ticks = y + Told(written, readings, d, t)
  BY DEF AddsUp
<1>7. CASE t \notin written[d]
  <2>1. more = few
    BY <1>1, <1>7 DEF RowsOf
  <2>2. Told(written, readings, d + 1, t) = Told(written, readings, d, t)
    BY <1>1, <1>7, ToldNone
  <2>3. QED
    BY <1>6, <2>1, <2>2 DEF AddsUp
<1>8. CASE t \in written[d]
  <2>1. more = few \cup {d} /\ d \notin few
    BY <1>1, <1>8 DEF RowsOf
  <2>2. Told(written, readings, d + 1, t) = readings[d][t].ticks
    BY <1>1, <1>8, ToldRow
  <2>3. /\ TicksOf(t)[d] = readings[d][t].ticks /\ TicksOf(t)[d] \in Nat
        /\ ToldOf(t)[d] = Told(written, readings, d, t) /\ ToldOf(t)[d] \in Nat
    BY <1>1, <1>2
  <2>4. /\ Cardinality(UnitsOf(TicksOf(t), more)) = x + readings[d][t].ticks
        /\ Cardinality(UnitsOf(ToldOf(t), more)) = y + Told(written, readings, d, t)
    <3> HIDE DEF few, more, d
    <3>1. Cardinality(UnitsOf(TicksOf(t), few \cup {d})) = x + TicksOf(t)[d]
      BY <1>2, <1>3, <2>1, <2>3, UnitsOfOneMore
    <3>2. Cardinality(UnitsOf(ToldOf(t), few \cup {d})) = y + ToldOf(t)[d]
      BY <1>2, <1>3, <2>1, <2>3, UnitsOfOneMore
    <3>3. QED
      BY <2>1, <2>3, <3>1, <3>2
  <2>5. AddsUp(d, t) <=> Cardinality(UnitsOf(TicksOf(t), more)) + readings[1][t].ticks
                           = Cardinality(UnitsOf(ToldOf(t), more)) + Told(written, readings, d + 1, t)
    BY DEF AddsUp
  <2> DEFINE u == readings[1][t].ticks
             v == Told(written, readings, d, t)
             z == readings[d][t].ticks
  <2>6. x + z + u = y + v + z
    <3>1. x \in Nat /\ y \in Nat /\ u \in Nat /\ v \in Nat /\ z \in Nat /\ x + u = y + v
      BY <1>4, <1>5, <1>6
    <3> HIDE DEF x, y, u, v, z
    <3>2. QED
      BY <3>1
  <2>7. AddsUp(d, t)
    <3> HIDE DEF x, y, more, d
    <3>1. QED
      BY <2>2, <2>4, <2>5, <2>6
  <2>8. QED
    BY <2>7
<1>9. QED
  BY <1>7, <1>8

LEMMA AllAddUp ==
  ASSUME SampleInv, NEW t \in Tids, Len(readings) > 1 \/ doing # "read"
  PROVE  \A i \in 1..Len(readings) : AddsUp(i, t)
<1> DEFINE bad == {i \in 1..Len(readings) : ~ AddsUp(i, t)}
<1>1. SUFFICES ASSUME bad # {} PROVE FALSE
  OBVIOUS
<1>2. Len(readings) \in Nat /\ bad \subseteq Nat
  BY DEF SampleInv, ReadPart
<1>3. PICK i \in bad : \A j \in bad : i <= j
  <2> HIDE DEF bad
  <2>1. QED
    BY <1>1, <1>2, LeastNumber
<1>4. i \in 1..Len(readings) /\ ~ AddsUp(i, t) /\ Len(readings) > 0
  BY <1>2, <1>3
<1>5. i # 1
  BY <1>4, FirstAddsUp
<1> DEFINE k == i - 1
<1>6. k \in 1..Len(readings) /\ k + 1 = i /\ ~ (i <= k)
  BY <1>2, <1>4, <1>5
<1>7. AddsUp(k, t)
  BY <1>3, <1>6
<1>8. AddsUp(k + 1, t)
  <2> HIDE DEF k
  <2>1. QED
    BY <1>4, <1>6, <1>7, NextAddsUp
<1>9. QED
  BY <1>4, <1>6, <1>8

LEMMA SeriesAnswers == ASSUME SampleInv, SeriesPart PROVE S!SeriesAddsUp
<1>1. SUFFICES ASSUME reader = "series", NEW i \in DOMAIN readings, NEW t \in Tids, S!Complete(i), readings[i][t].born > 0
               PROVE  S!SumOf([j \in {k \in 1..i : t \in DOMAIN S!IntervalDelta(k)} |-> S!IntervalDelta(j)[t]])
                        = readings[i][t].ticks - readings[1][t].ticks
  BY DEF S!SeriesAddsUp
<1>2. /\ Len(readings) \in Nat /\ DOMAIN readings = 1..Len(readings) /\ i \in 1..Len(readings) /\ i \in Nat \ {0}
      /\ 1 \in 1..Len(readings) /\ i + 1 \in 1..(Len(readings) + 1)
  BY <1>1 DEF SampleInv, ReadPart
<1> DEFINE all == RowsOf(i, t)
           f == [j \in {k \in 1..i : t \in DOMAIN S!IntervalDelta(k)} |-> S!IntervalDelta(j)[t]]
           x == Cardinality(UnitsOf(TicksOf(t), all))
           y == Cardinality(UnitsOf(ToldOf(t), all))
<1>3. {k \in 1..i : t \in DOMAIN S!IntervalDelta(k)} = all
  <2>1. ASSUME NEW k \in 1..i PROVE t \in DOMAIN S!IntervalDelta(k) <=> k # 1 /\ t \in written[k]
    BY DEF S!IntervalDelta
  <2>2. QED
    BY <1>2, <2>1 DEF RowsOf
<1>4. /\ IsFiniteSet(all) /\ all \subseteq 1..Len(readings)
      /\ \A k \in 1..Len(readings) : /\ TicksOf(t)[k] = readings[k][t].ticks /\ TicksOf(t)[k] \in Nat
                                     /\ ToldOf(t)[k] = Told(written, readings, k, t) /\ ToldOf(t)[k] \in Nat
  BY <1>2, RowsTyped
<1>5. ASSUME NEW j \in all PROVE TicksOf(t)[j] \in Nat /\ ToldOf(t)[j] \in Nat /\ f[j] = TicksOf(t)[j] - ToldOf(t)[j]
  <2>1. f[j] = S!IntervalDelta(j)[t]
    BY <1>3
  <2>2. j # 1 /\ t \in written[j] /\ j \in 1..Len(readings)
    BY <1>2, <1>5 DEF RowsOf
  <2>3. S!IntervalDelta(j)[t] = readings[j][t].ticks - S!LastTicks(j, t)
    BY <2>2 DEF S!IntervalDelta
  <2>4. S!LastTicks(j, t) = Told(written, readings, j, t)
    BY LastTicksTold
  <2>5. QED
    BY <1>4, <2>1, <2>2, <2>3, <2>4
<1>6. S!SumOf(f) = Balance(f, all)
  <2>1. DOMAIN f = all
    BY <1>3
  <2> HIDE DEF f, all
  <2>2. S!Units(f) = UnitsOf(f, all) /\ S!Units([c \in all |-> -f[c]]) = UnitsOf([c \in all |-> -f[c]], all)
    BY <2>1 DEF S!Units, UnitsOf
  <2>3. QED
    BY <2>1, <2>2, CardinalityOfSample DEF S!SumOf, Balance
<1>7. Balance(f, all) = x - y
  <2> HIDE DEF f, all
  <2>1. QED
    BY <1>4, <1>5, BalanceOfDifference
<1>8. x \in Nat /\ y \in Nat
  <2>1. (\A k \in all : TicksOf(t)[k] \in Nat) /\ (\A k \in all : ToldOf(t)[k] \in Nat)
    BY <1>5
  <2> HIDE DEF all
  <2>2. QED
    BY <1>4, <2>1, UnitsAreFinite
<1>9. Told(written, readings, i + 1, t) = readings[i][t].ticks
  <2>1. CASE t \in written[i]
    <3> HIDE DEF f, all, x, y
    <3>1. i \in Nat \ {0}
      BY <1>2
    <3>2. QED
      BY <2>1, <3>1, ToldRow
  <2>2. CASE t \notin written[i]
    <3>1. i < Len(readings) \/ doing # "read"
      BY <1>1 DEF S!Complete
    <3>2. readings[i][t].ticks = Told(written, readings, i, t)
      BY <1>1, <1>2, <2>2, <3>1 DEF SeriesPart
    <3>3. QED
      BY <1>2, <2>2, <3>2, ToldNone
  <2>3. QED
    BY <2>1, <2>2
<1>10. x + readings[1][t].ticks = y + readings[i][t].ticks
  <2>1. Len(readings) > 1 \/ doing # "read"
    BY <1>1, <1>2 DEF S!Complete
  <2>2. AddsUp(i, t)
    BY <1>2, <2>1, AllAddUp
  <2>3. QED
    BY <1>9, <2>2 DEF AddsUp
<1>11. readings[1][t].ticks \in Nat /\ readings[i][t].ticks \in Nat
  BY <1>2, <1>4
<1>12. x - y = readings[i][t].ticks - readings[1][t].ticks
  <2> HIDE DEF x, y
  <2>1. QED
    BY <1>8, <1>10, <1>11
<1>13. S!SumOf(f) = readings[i][t].ticks - readings[1][t].ticks
  <2> HIDE DEF f, x, y
  <2>1. QED
    BY <1>6, <1>7, <1>12
<1>14. QED
  BY <1>13

(* The amounts behind a printed table, which lists those above zero.         *)
IsTableOf(s, amounts) ==
  /\ amounts \in [Categories -> Nat] /\ s.total = <<N!Total(amounts)>>
  /\ DOMAIN s.categories = {c \in Categories : amounts[c] > 0}
  /\ \A c \in Categories : amounts[c] > 0 => s.categories[c] = amounts[c]

IsWhole(s) == ~ s.failed /\ s.total # <<>> => \E amounts : IsTableOf(s, amounts)

(* A capture that did not fail has printed the whole table.                  *)
TablePart ==
  /\ phase \in {"status", "nmt"} => shot.total = <<>>
  /\ phase = "check" => IsWhole(shot)
  /\ \A i \in DOMAIN shots : IsWhole(shots[i])

LEMMA TableInit == N!Init => TablePart
  BY DEF N!Init, TablePart

LEMMA PrintedIsWhole ==
  ASSUME MemoryInv, NEW n \in 0..N!Cardinality(Categories) + 1, phase = "nmt"
  PROVE  IsWhole(N!Printed(n))
<1> DEFINE p == N!Printed(n)
           listed == {c \in Categories : c < n /\ committed[c] > 0}
<1>1. SUFFICES ASSUME ~ p.failed, p.total # <<>> PROVE IsTableOf(p, committed)
  BY DEF IsWhole
<1>2. /\ p.failed = (n <= N!Cardinality(Categories))
      /\ p.total = IF n = 0 THEN <<>> ELSE <<N!Total(committed)>>
      /\ p.categories = N!Restrict(committed, listed)
  BY DEF N!Printed, MemoryInv, ShotPart
<1>3. /\ N!Cardinality(Categories) = Cardinality(Categories) /\ Cardinality(Categories) \in Nat
      /\ Categories = 1..Cardinality(Categories)
  BY CardinalityOfMemory, CountersAssumption, FS_CardinalityType
<1>4. n = Cardinality(Categories) + 1
  <2>1. ~ (n <= N!Cardinality(Categories))
    <3> HIDE DEF p
    <3>1. QED
      BY <1>1, <1>2, Zenon
  <2>2. QED
    BY <1>3, <2>1
<1>5. committed \in [Categories -> Nat]
  BY DEF MemoryInv, MemoryPart
<1>6. listed = {c \in Categories : committed[c] > 0}
  <2>1. \A c \in Categories : c < n
    BY <1>3, <1>4
  <2>2. QED
    BY <2>1
<1>7. p.total = <<N!Total(committed)>>
  BY <1>2, <1>3, <1>4
<1>8. DOMAIN p.categories = listed /\ \A c \in listed : p.categories[c] = committed[c]
  BY <1>2 DEF N!Restrict
<1>9. QED
  <2> HIDE DEF p, listed
  <2>1. QED
    BY <1>5, <1>6, <1>7, <1>8 DEF IsTableOf

LEMMA TableStep == ASSUME MemoryInv, TablePart, [N!Next]_N!vars PROVE TablePart'
<1>1. CASE N!Commit \/ N!AllocateOutside \/ N!Ends \/ N!Starts \/ UNCHANGED N!vars
  <2>1. UNCHANGED <<phase, shot, shots>>
    BY <1>1 DEF N!Commit, N!AllocateOutside, N!Works, N!Ends, N!Starts, N!script, N!vars
  <2>2. QED
    BY <2>1 DEF TablePart, IsWhole, IsTableOf
<1>2. CASE N!Begin
  <2>1. phase' = "status" /\ shot'.total = <<>> /\ shots' = shots
    BY <1>2 DEF N!Begin, N!NoShot
  <2>2. QED
    BY <2>1 DEF TablePart
<1>3. CASE N!ReadStatus
  <2>1. phase = "status" /\ phase' = "nmt" /\ shots' = shots /\ shot'.total = shot.total
    BY <1>3 DEF N!ReadStatus, MemoryInv, ShotPart
  <2>2. QED
    BY <2>1 DEF TablePart
<1>4. CASE N!ReadNmt
  <2>1. phase = "nmt" /\ phase' = "check" /\ shots' = shots /\ shot.total = <<>>
    BY <1>4 DEF N!ReadNmt, TablePart
  <2>2. IsWhole(shot')
    <3>1. CASE life = 0
      BY <1>4, <3>1 DEF N!ReadNmt, MemoryInv, ShotPart, IsWhole
    <3>2. CASE life # 0 /\ ~tracked
      <4>1. shot'.total = shot.total
        BY <1>4, <3>2 DEF N!ReadNmt, MemoryInv, ShotPart
      <4>2. QED
        BY <2>1, <4>1 DEF IsWhole
    <3>3. CASE life # 0 /\ tracked
      <4>1. PICK n \in 0..N!Cardinality(Categories) + 1 : shot' = N!Printed(n)
        BY <1>4, <3>3 DEF N!ReadNmt
      <4>2. QED
        BY <2>1, <4>1, PrintedIsWhole
    <3>4. QED
      BY <3>1, <3>2, <3>3
  <2>3. QED
    BY <2>1, <2>2 DEF TablePart
<1>5. CASE N!Check
  <2>1. phase = "check" /\ phase' = "none" /\ (shots' = shots \/ shots' = Append(shots, shot))
    BY <1>5 DEF N!Check
  <2>2. Len(shots) \in Nat /\ DOMAIN shots = 1..Len(shots) /\ shots \in Seq({shots[i] : i \in DOMAIN shots})
    BY DEF MemoryInv, ShotsPart
  <2>3. IsWhole(shot) /\ \A i \in DOMAIN shots : IsWhole(shots[i])
    BY <2>1 DEF TablePart
  <2>4. \A i \in DOMAIN shots' : IsWhole(shots'[i])
    BY <2>1, <2>2, <2>3
  <2>5. QED
    BY <2>1, <2>4 DEF TablePart
<1>6. QED
  BY <1>1, <1>2, <1>3, <1>4, <1>5 DEF N!Next

LEMMA UnitsOfListed ==
  ASSUME NEW all, NEW few \in SUBSET all, NEW n \in [all -> Nat], \A c \in all : n[c] > 0 => c \in few
  PROVE  UnitsOf(n, few) = UnitsOf(n, all)
<1>1. ASSUME NEW u \in UnitsOf(n, all) PROVE u \in UnitsOf(n, few)
  <2>1. PICK c \in all : \E k \in 1..n[c] : u = <<c, k>>
    BY UnitMembers
  <2>2. c \in few
    BY <2>1
  <2>3. QED
    BY <2>1, <2>2, UnitMembers
<1>2. ASSUME NEW u \in UnitsOf(n, few) PROVE u \in UnitsOf(n, all)
  BY UnitMembers
<1>3. QED
  BY <1>1, <1>2

LEMMA AmountsOfTable ==
  ASSUME NEW s, NEW amounts, IsTableOf(s, amounts), NEW asFiles
  PROVE  \A c \in Categories : N!AmountIn(N!Load(s, asFiles), c) = amounts[c]
<1>1. N!Load(s, asFiles).categories = s.categories
  BY DEF N!Load
<1>2. QED
  BY <1>1 DEF N!AmountIn, IsTableOf

LEMMA MemoryAddsUp == ASSUME MemoryInv, TablePart PROVE N!CategoriesAddUp
<1>1. SUFFICES ASSUME N!IsPair, \A i \in 1..2 : ~shots[i].failed, NEW asFiles \in BOOLEAN
               PROVE  LET s == N!Loaded(asFiles)
                      IN  /\ N!TotalDelta(s[1], s[2]) # <<>> =>
                               <<N!Sum(N!CategoryDeltas(s[1], s[2]))>> = N!TotalDelta(s[1], s[2])
                          /\ ~asFiles => N!Exit(s[1], s[2]) = "0"
  BY DEF N!CategoriesAddUp
<1> DEFINE b == N!Load(shots[1], asFiles)
           a == N!Load(shots[2], asFiles)
           names == N!NamesIn(b, a)
           d == N!CategoryDeltas(b, a)
<1>2. N!Loaded(asFiles)[1] = b /\ N!Loaded(asFiles)[2] = a
  BY DEF N!Loaded
<1>3. 1 \in DOMAIN shots /\ 2 \in DOMAIN shots
  BY <1>1 DEF N!IsPair, MemoryInv, ShotsPart
<1>4. b.total = shots[1].total /\ a.total = shots[2].total
  BY DEF N!Load
<1>5. ASSUME N!TotalDelta(b, a) # <<>> PROVE <<N!Sum(d)>> = N!TotalDelta(b, a)
  <2>1. b.total # <<>> /\ a.total # <<>> /\ N!TotalDelta(b, a) = <<a.total[1] - b.total[1]>>
    BY <1>5 DEF N!TotalDelta, N!Difference
  <2>2. IsWhole(shots[1]) /\ IsWhole(shots[2]) /\ ~shots[1].failed /\ ~shots[2].failed
    BY <1>1, <1>3 DEF TablePart
  <2>3. PICK x : IsTableOf(shots[1], x)
    BY <1>4, <2>1, <2>2 DEF IsWhole
  <2>4. PICK y : IsTableOf(shots[2], y)
    BY <1>4, <2>1, <2>2 DEF IsWhole
  <2>5. /\ x \in [Categories -> Nat] /\ b.total = <<N!Total(x)>>
        /\ y \in [Categories -> Nat] /\ a.total = <<N!Total(y)>>
        /\ names = {c \in Categories : x[c] > 0} \cup {c \in Categories : y[c] > 0}
    BY <1>4, <2>3, <2>4 DEF IsTableOf, N!Load, N!NamesIn
  <2>6. names \in SUBSET Categories
    BY <2>5
  <2>7. IsFiniteSet(names)
    BY <2>6, CountersAssumption, FS_Subset
  <2>8. DOMAIN d = names /\ \A c \in names : d[c] = y[c] - x[c] /\ y[c] \in Nat /\ x[c] \in Nat
    <3>1. DOMAIN d = names /\ \A c \in names : d[c] = N!AmountIn(a, c) - N!AmountIn(b, c)
      BY DEF N!CategoryDeltas
    <3>2. \A c \in Categories : N!AmountIn(a, c) = y[c] /\ N!AmountIn(b, c) = x[c]
      BY <2>3, <2>4, AmountsOfTable
    <3> HIDE DEF d, names, a, b
    <3>3. QED
      BY <2>5, <2>6, <3>1, <3>2
  <2> HIDE DEF d, names
  <2>9. N!Sum(d) = Balance(d, names)
    <3>1. N!Units(d) = UnitsOf(d, names) /\ N!Units([c \in names |-> -d[c]]) = UnitsOf([c \in names |-> -d[c]], names)
      BY <2>8 DEF N!Units, UnitsOf
    <3>2. QED
      BY <2>8, <3>1, CardinalityOfMemory DEF N!Sum, N!Total, Balance
  <2>10. Balance(d, names) = Cardinality(UnitsOf(y, names)) - Cardinality(UnitsOf(x, names))
    BY <2>7, <2>8, BalanceOfDifference
  <2>11. UnitsOf(x, names) = UnitsOf(x, Categories) /\ UnitsOf(y, names) = UnitsOf(y, Categories)
    <3>1. (\A c \in Categories : x[c] > 0 => c \in names) /\ \A c \in Categories : y[c] > 0 => c \in names
      BY <2>5
    <3>2. QED
      BY <2>5, <2>6, <3>1, UnitsOfListed
  <2>12. N!Sum(d) = N!Total(y) - N!Total(x)
    BY <2>5, <2>9, <2>10, <2>11, TotalIsUnits
  <2>13. a.total[1] = N!Total(y) /\ b.total[1] = N!Total(x)
    BY <2>5
  <2>14. QED
    BY <2>1, <2>12, <2>13
<1>6. ASSUME ~asFiles PROVE N!Exit(b, a) = "0"
  <2>1. b.status = shots[1].status /\ a.status = shots[2].status
    BY <1>6 DEF N!Load
  <2>2. IsAmount(shots[1].status) /\ IsAmount(shots[2].status)
    BY <1>3 DEF MemoryInv, ShotsPart, IsShot
  <2>3. b.status # <<>> /\ a.status # <<>>
    BY <2>1, <2>2 DEF IsAmount
  <2>4. QED
    BY <2>3 DEF N!Exit, N!Tells
<1>7. QED
  <2> HIDE DEF a, b, d
  <2>1. QED
    BY <1>2, <1>5, <1>6 DEF d

CounterPart ==
  /\ table \in H!Tables /\ moment \in {"before", "window", "after"}
  /\ counts \in [Rows -> [Columns -> Nat]]
  /\ before \in [Rows -> [Columns -> Nat]]
  /\ happened \in [Rows -> [Columns -> Nat]]
  /\ present \in SUBSET Rows /\ renewed \in SUBSET Rows
  /\ online \in SUBSET Columns /\ seen \in SUBSET Columns
  /\ table # "interrupts" => online = Columns /\ seen = Columns
  /\ table \notin {"interrupts", "diskstats"} => present = Rows /\ renewed = {}

WindowPart ==
  /\ moment = "before" => renewed = {} /\ \A r \in Rows, c \in Columns : happened[r][c] = 0
  /\ moment # "before" =>
       \A r \in Rows, c \in Columns :
         IF r \in renewed THEN counts[r][c] <= happened[r][c]
                          ELSE counts[r][c] = before[r][c] + happened[r][c]

OpenedPart ==
  moment # "before" /\ opened # H!None =>
    /\ DOMAIN opened \subseteq Rows
    /\ \A r \in Rows \ renewed : r \in DOMAIN opened <=> r \in present
    /\ \A r \in DOMAIN opened : opened[r] = H!SumOf(before[r], seen)

ClosedPart == moment = "after" => closed = H!Shown \/ closed = H!None

CounterInv == CounterPart /\ WindowPart /\ OpenedPart /\ ClosedPart

LEMMA CounterInit == H!Init => CounterInv
<1>1. SUFFICES ASSUME H!Init PROVE CounterInv
  OBVIOUS
<1>2. H!Zero \in [Rows -> [Columns -> Nat]] /\ \A r \in Rows, c \in Columns : H!Zero[r][c] = 0
  BY DEF H!Zero
<1>3. CounterPart
  BY <1>1, <1>2 DEF H!Init, CounterPart
<1>4. QED
  BY <1>1, <1>2, <1>3 DEF H!Init, CounterInv, WindowPart, OpenedPart, ClosedPart

LEMMA HappenStep ==
  ASSUME CounterInv, NEW r \in Rows, NEW c \in Columns, H!Happen(r, c) PROVE CounterInv'
<1>1. CounterPart /\ WindowPart /\ OpenedPart /\ ClosedPart
  BY DEF CounterInv
<1>2. /\ moment # "after" /\ UNCHANGED <<table, present, online, opened, closed, moment, before, renewed, seen, changes>>
      /\ counts' = [counts EXCEPT ![r][c] = @ + 1]
      /\ happened' = IF moment = "window" THEN [happened EXCEPT ![r][c] = @ + 1] ELSE happened
  BY DEF H!Happen, H!history
<1>3. ASSUME NEW n \in [Rows -> [Columns -> Nat]]
      PROVE  /\ [n EXCEPT ![r][c] = @ + 1] \in [Rows -> [Columns -> Nat]]
             /\ \A s \in Rows, d \in Columns :
                  [n EXCEPT ![r][c] = @ + 1][s][d] = IF s = r /\ d = c THEN n[s][d] + 1 ELSE n[s][d]
  <2> DEFINE m == [n EXCEPT ![r][c] = @ + 1]
  <2>1. n[r] \in [Columns -> Nat] /\ n[r][c] \in Nat
    OBVIOUS
  <2>2. m = [n EXCEPT ![r] = [n[r] EXCEPT ![c] = n[r][c] + 1]]
    BY <2>1
  <2>3. [n[r] EXCEPT ![c] = n[r][c] + 1] \in [Columns -> Nat]
    BY <2>1
  <2>4. m \in [Rows -> [Columns -> Nat]]
    BY <2>2, <2>3
  <2>5. \A s \in Rows, d \in Columns : m[s][d] = IF s = r /\ d = c THEN n[s][d] + 1 ELSE n[s][d]
    BY <2>2
  <2>6. QED
    BY <2>4, <2>5
<1>4. /\ counts' \in [Rows -> [Columns -> Nat]]
      /\ \A s \in Rows, d \in Columns : counts'[s][d] = IF s = r /\ d = c THEN counts[s][d] + 1 ELSE counts[s][d]
  BY <1>1, <1>2, <1>3 DEF CounterPart
<1>5. /\ happened' \in [Rows -> [Columns -> Nat]]
      /\ moment = "window" => \A s \in Rows, d \in Columns :
           happened'[s][d] = IF s = r /\ d = c THEN happened[s][d] + 1 ELSE happened[s][d]
      /\ moment # "window" => happened' = happened
  <2>1. CASE moment = "window"
    BY <1>1, <1>2, <1>3, <2>1 DEF CounterPart
  <2>2. CASE moment # "window"
    BY <1>1, <1>2, <2>2 DEF CounterPart
  <2>3. QED
    BY <2>1, <2>2
<1>6. CounterPart'
  BY <1>1, <1>2, <1>4, <1>5 DEF CounterPart
<1>7. WindowPart'
  <2>1. CASE moment = "before"
    BY <1>1, <1>2, <1>5, <2>1 DEF WindowPart
  <2>2. CASE moment = "window"
    <3>1. ASSUME NEW s \in Rows, NEW d \in Columns
          PROVE  IF s \in renewed THEN counts'[s][d] <= happened'[s][d]
                                  ELSE counts'[s][d] = before[s][d] + happened'[s][d]
      <4> DEFINE x == counts[s][d]
                 y == happened[s][d]
                 z == before[s][d]
      <4>1. x \in Nat /\ y \in Nat /\ z \in Nat
        BY <1>1 DEF CounterPart
      <4>2. IF s \in renewed THEN x <= y ELSE x = z + y
        BY <1>1, <2>2 DEF WindowPart
      <4>3. \/ counts'[s][d] = x + 1 /\ happened'[s][d] = y + 1
            \/ counts'[s][d] = x /\ happened'[s][d] = y
        BY <1>4, <1>5, <2>2
      <4> HIDE DEF x, y, z
      <4>4. QED
        BY <4>1, <4>2, <4>3 DEF z
    <3>2. QED
      BY <1>2, <2>2, <3>1 DEF WindowPart
  <2>3. QED
    BY <1>1, <1>2, <2>1, <2>2 DEF CounterPart
<1>8. OpenedPart' /\ ClosedPart'
  BY <1>1, <1>2 DEF OpenedPart, ClosedPart
<1>9. QED
  BY <1>6, <1>7, <1>8 DEF CounterInv

LEMMA ReplugStep == ASSUME CounterInv, NEW r \in Rows, H!Replug(r) PROVE CounterInv'
<1>1. CounterPart /\ WindowPart /\ OpenedPart /\ ClosedPart
  BY DEF CounterInv
<1>2. /\ moment # "after" /\ UNCHANGED <<table, online, opened, closed, moment, before, happened, seen>>
      /\ table \in {"interrupts", "diskstats"}
      /\ present' = (IF r \in present THEN present \ {r} ELSE present \cup {r})
      /\ counts' = [counts EXCEPT ![r] = H!Zero[r]]
      /\ renewed' = (IF moment = "window" THEN renewed \cup {r} ELSE renewed)
  BY DEF H!Replug
<1>3. H!Zero[r] \in [Columns -> Nat] /\ \A c \in Columns : H!Zero[r][c] = 0
  BY DEF H!Zero
<1>4. /\ counts' \in [Rows -> [Columns -> Nat]]
      /\ \A s \in Rows : counts'[s] = IF s = r THEN H!Zero[r] ELSE counts[s]
  BY <1>1, <1>2, <1>3 DEF CounterPart
<1>5. CounterPart'
  <2>1. present' \in SUBSET Rows /\ renewed' \in SUBSET Rows
    BY <1>1, <1>2 DEF CounterPart
  <2>2. QED
    BY <1>1, <1>2, <1>4, <2>1 DEF CounterPart
<1>6. WindowPart'
  <2>1. CASE moment = "before"
    BY <1>1, <1>2, <2>1 DEF WindowPart
  <2>2. CASE moment = "window"
    <3>1. ASSUME NEW s \in Rows, NEW c \in Columns
          PROVE  IF s \in renewed \cup {r} THEN counts'[s][c] <= happened[s][c]
                                           ELSE counts'[s][c] = before[s][c] + happened[s][c]
      <4>1. CASE s = r
        <5>1. counts'[s][c] = 0 /\ happened[s][c] \in Nat
          BY <1>1, <1>3, <1>4, <4>1 DEF CounterPart
        <5>2. QED
          BY <4>1, <5>1
      <4>2. CASE s # r
        <5>1. counts'[s][c] = counts[s][c]
          BY <1>4, <4>2
        <5>2. QED
          BY <1>1, <2>2, <4>2, <5>1 DEF WindowPart
      <4>3. QED
        BY <4>1, <4>2
    <3>2. QED
      BY <1>2, <2>2, <3>1 DEF WindowPart
  <2>3. QED
    BY <1>1, <1>2, <2>1, <2>2 DEF CounterPart
<1>7. OpenedPart'
  <2>1. moment # "before" => moment = "window"
    BY <1>1, <1>2 DEF CounterPart
  <2>2. \A s \in Rows : s # r => (s \in present' <=> s \in present)
    BY <1>2
  <2>3. QED
    BY <1>1, <1>2, <2>1, <2>2 DEF OpenedPart
<1>8. ClosedPart'
  BY <1>2 DEF ClosedPart
<1>9. QED
  BY <1>5, <1>6, <1>7, <1>8 DEF CounterInv

LEMMA CounterStep == CounterInv /\ [H!Next]_H!vars => CounterInv'
<1>1. SUFFICES ASSUME CounterInv, [H!Next]_H!vars PROVE CounterInv'
  OBVIOUS
<1>2. CounterPart /\ WindowPart /\ OpenedPart /\ ClosedPart
  BY <1>1 DEF CounterInv
<1>3. CASE UNCHANGED H!vars
  <2>1. H!Shown' = H!Shown
    BY <1>3 DEF H!vars, H!Shown
  <2>2. CounterPart' /\ WindowPart' /\ OpenedPart'
    BY <1>2, <1>3 DEF H!vars, CounterPart, WindowPart, OpenedPart
  <2>3. ClosedPart'
    BY <1>2, <1>3, <2>1 DEF H!vars, ClosedPart
  <2>4. QED
    BY <2>2, <2>3 DEF CounterInv
<1>4. ASSUME NEW c \in Columns, H!Hotplug(c) PROVE CounterInv'
  <2>1. /\ moment # "after" /\ table = "interrupts"
        /\ UNCHANGED <<table, counts, present, opened, closed, moment, before, renewed, seen, happened>>
        /\ online' \in SUBSET Columns
    BY <1>2, <1>4 DEF H!Hotplug, H!history, CounterPart
  <2>2. CounterPart' /\ WindowPart' /\ OpenedPart'
    BY <1>2, <2>1 DEF CounterPart, WindowPart, OpenedPart
  <2>3. ClosedPart'
    BY <2>1 DEF ClosedPart
  <2>4. QED
    BY <2>2, <2>3 DEF CounterInv
<1>5. CASE H!ReadStart
  <2>1. /\ moment = "before" /\ moment' = "window" /\ before' = counts /\ seen' = online
        /\ UNCHANGED <<table, counts, present, online, closed, happened, renewed>>
        /\ opened' = H!Shown \/ opened' = H!None
    BY <1>5 DEF H!ReadStart
  <2>2. CounterPart'
    BY <1>2, <2>1 DEF CounterPart
  <2>3. WindowPart'
    <3>1. ASSUME NEW r \in Rows, NEW c \in Columns PROVE counts[r][c] = counts[r][c] + happened[r][c]
      BY <1>2, <2>1 DEF CounterPart, WindowPart
    <3>2. renewed' = {}
      BY <1>2, <2>1 DEF WindowPart
    <3>3. QED
      BY <2>1, <3>1, <3>2 DEF WindowPart
  <2>4. OpenedPart'
    <3>1. /\ DOMAIN H!Shown = present /\ present \subseteq Rows
          /\ \A r \in present : H!Shown[r] = H!SumOf(counts[r], online)
      BY <1>2 DEF H!Shown, CounterPart
    <3>2. CASE opened' = H!Shown
      BY <2>1, <3>1, <3>2 DEF OpenedPart
    <3>3. CASE opened' = H!None
      BY <3>3 DEF OpenedPart, H!None
    <3>4. QED
      BY <2>1, <3>2, <3>3
  <2>5. QED
    BY <2>1, <2>2, <2>3, <2>4 DEF CounterInv, ClosedPart
<1>6. CASE H!ReadEnd
  <2>1. /\ moment = "window" /\ moment' = "after"
        /\ UNCHANGED <<table, counts, present, online, opened, before, renewed, seen, happened>>
        /\ closed' = H!Shown \/ closed' = H!None
    BY <1>6 DEF H!ReadEnd, H!history
  <2>2. CounterPart' /\ WindowPart' /\ OpenedPart'
    BY <1>2, <2>1 DEF CounterPart, WindowPart, OpenedPart
  <2>3. H!Shown' = H!Shown /\ H!None' = H!None
    BY <2>1 DEF H!Shown, H!None
  <2>4. QED
    BY <2>1, <2>2, <2>3 DEF CounterInv, ClosedPart
<1>7. QED
  BY <1>1, <1>3, <1>4, <1>5, <1>6, HappenStep, ReplugStep DEF H!Next

LEMMA SumIsUnits == ASSUME NEW n, NEW all PROVE H!SumOf(n, all) = Cardinality(UnitsOf(n, all))
  BY CardinalityOfCounters DEF H!SumOf, H!Events, UnitsOf

(* What the difference of two sums can be. *)
LEMMA CounterSums ==
  ASSUME CounterInv, moment = "after", NEW r \in Rows
  PROVE  /\ H!SumOf(before[r], seen) \in Nat /\ H!SumOf(counts[r], online) \in Nat
         /\ H!SumOf(happened[r], Columns) \in Nat /\ H!SumOf(happened[r], online) \in Nat
         /\ H!Returned(r) \in Nat
         /\ r \in renewed => H!SumOf(counts[r], online) <= H!SumOf(happened[r], Columns)
         /\ r \notin renewed =>
              H!SumOf(counts[r], online) <=
                H!SumOf(before[r], seen) + H!SumOf(happened[r], Columns) + H!Returned(r)
         /\ r \notin renewed /\ online = seen =>
              H!SumOf(counts[r], online) = H!SumOf(before[r], seen) + H!SumOf(happened[r], online)
<1>1. CounterPart /\ WindowPart
  BY DEF CounterInv
<1>2. /\ counts[r] \in [Columns -> Nat] /\ before[r] \in [Columns -> Nat] /\ happened[r] \in [Columns -> Nat]
      /\ online \in SUBSET Columns /\ seen \in SUBSET Columns /\ IsFiniteSet(Columns)
      /\ table # "interrupts" => online = Columns /\ seen = Columns
  BY <1>1, CountersAssumption DEF CounterPart
<1>3. /\ r \in renewed => \A c \in Columns : counts[r][c] <= happened[r][c]
      /\ r \notin renewed => \A c \in Columns : counts[r][c] = before[r][c] + happened[r][c]
  BY <1>1 DEF WindowPart
<1>4. IsFiniteSet(online) /\ IsFiniteSet(seen) /\ IsFiniteSet(online \ seen)
  BY <1>2, FS_Subset
<1>5. ASSUME NEW n \in [Columns -> Nat], NEW few \in SUBSET Columns
      PROVE  Cardinality(UnitsOf(n, few)) \in Nat
  <2>1. IsFiniteSet(few)
    BY <1>2, FS_Subset
  <2>2. \A c \in few : n[c] \in Nat
    OBVIOUS
  <2>3. QED
    BY <2>1, <2>2, UnitsAreFinite
<1> DEFINE end == Cardinality(UnitsOf(counts[r], online))
           begin == Cardinality(UnitsOf(before[r], seen))
           old == Cardinality(UnitsOf(before[r], online))
           back == Cardinality(UnitsOf(before[r], online \ seen))
           more == Cardinality(UnitsOf(happened[r], online))
           most == Cardinality(UnitsOf(happened[r], Columns))
<1>6. end \in Nat /\ begin \in Nat /\ old \in Nat /\ back \in Nat /\ more \in Nat /\ most \in Nat
  BY <1>2, <1>5
<1>7. H!Returned(r) = back
  <2>1. (IF table = "interrupts" THEN online \ seen ELSE {}) = online \ seen
    BY <1>2
  <2>2. QED
    BY <2>1, SumIsUnits DEF H!Returned
<1>8. more <= most
  <2>1. \A c \in Columns : happened[r][c] <= happened[r][c]
    BY <1>2
  <2>2. QED
    BY <1>2, <2>1, UnitsGrow
<1>9. old <= begin + back
  <2>1. Cardinality(UnitsOf(before[r], seen \cup (online \ seen))) <= begin + back
    BY <1>2, <1>4, UnitsJoin
  <2>2. old <= Cardinality(UnitsOf(before[r], seen \cup (online \ seen)))
    <3> DEFINE large == seen \cup (online \ seen)
    <3>1. online \in SUBSET large /\ large \in SUBSET Columns
      BY <1>2
    <3>2. UnitsOf(before[r], online) \subseteq UnitsOf(before[r], large)
      BY <3>1 DEF UnitsOf
    <3>3. IsFiniteSet(large) /\ \A c \in large : before[r][c] \in Nat
      BY <1>2, <3>1, FS_Subset
    <3>4. IsFiniteSet(UnitsOf(before[r], large))
      BY <3>3, UnitsAreFinite
    <3>5. QED
      BY <3>2, <3>4, FS_Subset
  <2>3. Cardinality(UnitsOf(before[r], seen \cup (online \ seen))) \in Nat
    BY <1>2, <1>5
  <2> HIDE DEF old, begin, back
  <2>4. QED
    BY <1>6, <2>1, <2>2, <2>3
<1>10. ASSUME r \notin renewed PROVE end = old + more
  <2>1. \A c \in online : /\ before[r][c] \in Nat /\ happened[r][c] \in Nat
                          /\ counts[r][c] = before[r][c] + happened[r][c]
    BY <1>2, <1>3, <1>10
  <2>2. QED
    BY <1>4, <2>1, UnitsAdd
<1>11. ASSUME r \in renewed PROVE end <= most
  BY <1>2, <1>3, <1>11, UnitsGrow
<1>12. /\ H!SumOf(before[r], seen) = begin /\ H!SumOf(counts[r], online) = end
       /\ H!SumOf(happened[r], Columns) = most /\ H!SumOf(happened[r], online) = more
  BY SumIsUnits
<1>13. online = seen => old = begin
  OBVIOUS
<1>14. QED
  <2> HIDE DEF end, begin, old, back, more, most
  <2>1. r \notin renewed => end <= begin + most + back
    BY <1>6, <1>8, <1>9, <1>10
  <2>2. r \notin renewed /\ online = seen => end = begin + more
    BY <1>10, <1>13
  <2>3. QED
    BY <1>6, <1>7, <1>11, <1>12, <2>1, <2>2

LEMMA CounterDeltas == CounterInv => H!CountersAreReal
<1>1. SUFFICES ASSUME CounterInv, moment = "after", table \in H!FromZero => opened # H!None
               PROVE  /\ \A r \in DOMAIN H!Deltas : H!Deltas[r] <= H!SumOf(happened[r], Columns) + H!Returned(r)
                      /\ \A r \in present \ renewed :
                           opened # H!None /\ closed # H!None /\ online = seen =>
                             IF r \in DOMAIN H!Deltas THEN H!Deltas[r] = H!SumOf(happened[r], online)
                                                      ELSE H!SumOf(happened[r], Columns) = 0
  BY DEF H!CountersAreReal
<1>2. CounterPart /\ OpenedPart /\ ClosedPart
  BY <1>1 DEF CounterInv
<1>3. present \subseteq Rows /\ renewed \subseteq Rows
  BY <1>2 DEF CounterPart
<1>4. closed # H!None => DOMAIN closed = present /\ \A r \in present : closed[r] = H!SumOf(counts[r], online)
  BY <1>1, <1>2 DEF ClosedPart, H!Shown
<1>5. DOMAIN closed \subseteq present
  BY <1>1, <1>2 DEF ClosedPart, H!Shown, H!None
<1>6. opened # H!None =>
        /\ \A r \in present \ renewed : r \in DOMAIN opened
        /\ \A r \in DOMAIN opened : opened[r] = H!SumOf(before[r], seen)
  BY <1>1, <1>2, <1>3 DEF OpenedPart
<1>7. ASSUME NEW r \in DOMAIN H!Deltas
      PROVE  /\ r \in DOMAIN closed /\ H!Deltas[r] = H!Delta(r)
             /\ r \in DOMAIN opened \/ table \in H!FromZero
  BY DEF H!Deltas, H!Keys
<1>8. ASSUME NEW r \in DOMAIN H!Deltas
      PROVE  H!Deltas[r] <= H!SumOf(happened[r], Columns) + H!Returned(r)
  <2>1. r \in DOMAIN closed /\ H!Deltas[r] = H!Delta(r) /\ r \in present /\ r \in Rows
    BY <1>3, <1>5, <1>7
  <2>2. closed # H!None
    BY <2>1 DEF H!None
  <2>3. closed[r] = H!SumOf(counts[r], online)
    BY <1>4, <2>1, <2>2
  <2> DEFINE end == H!SumOf(counts[r], online)
             begin == H!SumOf(before[r], seen)
             most == H!SumOf(happened[r], Columns)
             back == H!Returned(r)
  <2>4. /\ end \in Nat /\ begin \in Nat /\ most \in Nat /\ back \in Nat
        /\ r \in renewed => end <= most
        /\ r \notin renewed => end <= begin + most + back
    BY <1>1, <2>1, CounterSums
  <2>5. CASE r \in DOMAIN opened
    <3>1. opened # H!None
      BY <2>5 DEF H!None
    <3>2. H!Delta(r) = end - begin
      BY <1>6, <2>3, <2>5, <3>1 DEF H!Delta
    <3> HIDE DEF end, begin, most, back
    <3>3. end - begin <= most + back
      BY <2>4
    <3>4. QED
      BY <2>1, <3>2, <3>3 DEF most, back
  <2>6. CASE r \notin DOMAIN opened
    <3>1. table \in H!FromZero /\ opened # H!None
      BY <1>1, <1>7, <2>6
    <3>2. renewed = {}
      BY <1>2, <3>1 DEF CounterPart, H!FromZero
    <3>3. QED
      BY <1>6, <2>1, <2>6, <3>1, <3>2
  <2>7. QED
    BY <2>5, <2>6
<1>9. ASSUME NEW r \in present \ renewed, opened # H!None, closed # H!None, online = seen
      PROVE  IF r \in DOMAIN H!Deltas THEN H!Deltas[r] = H!SumOf(happened[r], online)
                                      ELSE H!SumOf(happened[r], Columns) = 0
  <2> DEFINE end == H!SumOf(counts[r], online)
             begin == H!SumOf(before[r], seen)
             more == H!SumOf(happened[r], online)
  <2>1. /\ r \in Rows /\ r \in DOMAIN opened /\ r \in DOMAIN closed
        /\ closed[r] = end /\ opened[r] = begin
    BY <1>3, <1>4, <1>6, <1>9
  <2>2. end \in Nat /\ begin \in Nat /\ more \in Nat /\ end = begin + more
    BY <1>1, <1>9, <2>1, CounterSums
  <2>3. H!Delta(r) = more
    <3>1. H!Delta(r) = end - begin
      BY <2>1 DEF H!Delta
    <3> HIDE DEF end, begin, more
    <3>2. QED
      BY <2>2, <3>1
  <2>4. CASE r \in DOMAIN H!Deltas
    BY <1>7, <2>3, <2>4
  <2>5. CASE r \notin DOMAIN H!Deltas
    <3>1. r \in H!Keys
      BY <2>1 DEF H!Keys
    <3>2. table \in {"softirqs", "diskstats"} /\ ~(H!Delta(r) > 0)
      BY <2>5, <3>1 DEF H!Deltas
    <3>3. online = Columns
      BY <1>2, <3>2 DEF CounterPart
    <3>4. more = 0
      <4> HIDE DEF end, begin, more
      <4>1. QED
        BY <2>2, <2>3, <3>2
    <3>5. QED
      BY <2>5, <3>3, <3>4
  <2>6. QED
    BY <2>4, <2>5
<1>10. QED
  BY <1>8, <1>9

-----------------------------------------------------------------------------
(* The wait of collect.sh.  TargetPart says that a trigger is looked at,     *)
(* ClockPart that the last sample of the CPU time is that of a moment since  *)
(* the arming, LogPart that while the log is the one it was armed with what  *)
(* was read reaches past the lines it had.  After a trigger has fired        *)
(* nothing moves.                                                            *)

Trigger == [kind : {"file", "cpu", "gcpause"}, value : Nat]

Busy(use, from, to) == {t \in from + 1..to : use[t] = 1}

TargetPart ==
  /\ triggers \in Seq(Trigger) /\ nth \in Nat
  /\ wait \notin {"delay", "go", "over"} => triggers # <<>>
  /\ wait \in {"check", "tail"} => nth \in 1..Len(triggers)
  /\ wait = "tail" => triggers[nth].kind = "gcpause"

ClockPart ==
  /\ clock \in Nat /\ spent \in Seq({0, 1}) /\ Len(spent) = clock
  /\ prev \in [ticks : Nat, time : Nat] /\ armed \in [time : Nat, gen : Nat, lines : Nat]
  /\ armed.time <= prev.time /\ prev.time <= clock
  /\ prev.ticks = Cardinality(Busy(spent, 0, prev.time))

LogPart ==
  /\ gclog \in Seq(Pauses) /\ offset \in Nat /\ size \in Nat /\ gen \in Nat /\ armed.gen <= gen
  /\ W!Has("gcpause") /\ gen = armed.gen => armed.lines <= offset /\ offset <= Len(gclog)
  /\ wait = "tail" => offset <= size /\ (gen = armed.gen => size <= Len(gclog))

WaitInv == TargetPart /\ ClockPart /\ LogPart /\ W!FiredIsTrue

LEMMA CardinalityOfWait == ASSUME NEW all PROVE W!Cardinality(all) = Cardinality(all)
  BY DEF W!Cardinality, Cardinality, W!IsFiniteSet, IsFiniteSet

LEMMA LeastOfWait ==
  ASSUME NEW all, all \subseteq Nat, all # {} PROVE W!Min(all) \in all
<1>1. \E x \in all : \A y \in all : x <= y
  BY LeastNumber
<1>2. QED
  BY <1>1 DEF W!Min

(* The time that was used since a moment is what was used till now, less     *)
(* what was used till then.                                                  *)
LEMMA BusyAdds ==
  ASSUME NEW use, NEW from \in Nat, NEW to \in Nat, from <= to
  PROVE  /\ Cardinality(Busy(use, 0, from)) \in Nat /\ Cardinality(Busy(use, 0, to)) \in Nat
         /\ Cardinality(Busy(use, from, to)) \in Nat
         /\ Cardinality(Busy(use, 0, to)) = Cardinality(Busy(use, 0, from)) + Cardinality(Busy(use, from, to))
<1>1. ASSUME NEW a \in Nat, NEW b \in Nat
      PROVE  IsFiniteSet(Busy(use, a, b)) /\ Cardinality(Busy(use, a, b)) \in Nat
  <2>1. a + 1 \in Int /\ b \in Int
    OBVIOUS
  <2>2. IsFiniteSet(a + 1..b)
    BY <2>1, FS_Interval
  <2>3. Busy(use, a, b) \in SUBSET (a + 1..b)
    BY DEF Busy
  <2>4. IsFiniteSet(Busy(use, a, b))
    BY <2>2, <2>3, FS_Subset
  <2>5. QED
    BY <2>4, FS_CardinalityType
<1>2. Busy(use, 0, to) = Busy(use, 0, from) \cup Busy(use, from, to)
  BY DEF Busy
<1>3. Busy(use, 0, from) \cap Busy(use, from, to) = {}
  BY DEF Busy
<1> DEFINE early == Busy(use, 0, from)
           late == Busy(use, from, to)
<1>4. IsFiniteSet(early) /\ Cardinality(early) \in Nat /\ IsFiniteSet(late) /\ Cardinality(late) \in Nat
  BY <1>1
<1>5. Cardinality(Busy(use, 0, to)) \in Nat
  BY <1>1
<1>6. Cardinality(early \cup late) = Cardinality(early) + Cardinality(late) - Cardinality(early \cap late)
  <2> HIDE DEF early, late
  <2>1. QED
    BY <1>4, FS_Union
<1>7. Cardinality(early \cap late) = 0
  BY <1>3, FS_EmptySet
<1>8. QED
  <2>1. Cardinality(Busy(use, 0, to)) = Cardinality(early) + Cardinality(late) - 0
    BY <1>2, <1>6, <1>7, Zenon
  <2> HIDE DEF early, late
  <2>2. Cardinality(Busy(use, 0, to)) = Cardinality(early) + Cardinality(late)
    BY <2>1, <1>4
  <2>3. QED
    BY <2>2, <1>4, <1>5 DEF early, late

(* What was used does not change when more time passes. *)
LEMMA BusyStays ==
  ASSUME NEW use \in Seq({0, 1}), NEW n \in Nat, NEW more \in Seq({0, 1}), Len(more) = n, NEW to \in Nat, to <= Len(use)
  PROVE  /\ use \o more \in Seq({0, 1}) /\ Len(use \o more) = Len(use) + n
         /\ Busy(use \o more, 0, to) = Busy(use, 0, to)
<1>1. \A t \in 1..Len(use) : (use \o more)[t] = use[t]
  OBVIOUS
<1>2. \A t \in 0 + 1..to : t \in 1..Len(use)
  OBVIOUS
<1>3. QED
  BY <1>1, <1>2 DEF Busy

LEMMA TicksAreBusy ==
  ASSUME NEW from, NEW to
  PROVE  W!Ticks(from, to) = Cardinality(Busy(spent, from, to))
  BY CardinalityOfWait DEF W!Ticks, Busy

LEMMA WaitInit == W!Init => WaitInv
<1>1. SUFFICES ASSUME W!Init PROVE WaitInv
  OBVIOUS
<1>2. TargetPart
  BY <1>1, WaitAssumption DEF W!Init, TargetPart, Trigger
<1>3. Busy(spent, 0, 0) = {}
  BY DEF Busy
<1>4. ClockPart
  <2>1. /\ clock = 0 /\ spent = <<>> /\ prev = [ticks |-> 0, time |-> 0]
        /\ armed = [time |-> 0, gen |-> 0, lines |-> 0]
    BY <1>1 DEF W!Init
  <2>2. Cardinality(Busy(spent, 0, 0)) = 0
    BY <1>3, FS_EmptySet
  <2>3. QED
    BY <2>1, <2>2 DEF ClockPart
<1>5. LogPart
  BY <1>1 DEF W!Init, LogPart
<1>6. QED
  BY <1>1, <1>2, <1>4, <1>5 DEF W!Init, WaitInv, W!FiredIsTrue

(* A trigger of the list.                                                    *)
LEMMA TriggerLooked ==
  ASSUME TargetPart, wait \in {"check", "tail"} PROVE triggers[nth] \in Trigger /\ triggers[nth].value \in Nat
<1>1. triggers[nth] \in Trigger
  BY DEF TargetPart
<1>2. QED
  BY <1>1 DEF Trigger

(* What the host does leaves alone what the collector knows; only the log    *)
(* grows, or begins anew.                                                    *)
LEMMA HostStep ==
  ASSUME WaitInv, W!Pause \/ W!Rotate \/ W!TouchFile \/ W!TargetExits PROVE WaitInv'
<1>1. TargetPart /\ ClockPart /\ LogPart
  BY DEF WaitInv
<1>2. UNCHANGED <<wait, triggers, startAt, nth, offset, size, prev, fired, clock, spent, armed>> /\ wait # "go"
  BY DEF W!Pause, W!Rotate, W!TouchFile, W!TargetExits, W!Waiting, W!given, W!watch, W!history
<1>3. TargetPart' /\ ClockPart'
  BY <1>1, <1>2 DEF TargetPart, ClockPart
<1>4. W!FiredIsTrue'
  BY <1>2 DEF W!FiredIsTrue
<1>5. LogPart'
  <2>1. W!Has("gcpause")' <=> W!Has("gcpause")
    BY <1>2 DEF W!Has
  <2>2. CASE W!Pause
    <3>1. PICK ms \in Pauses : gclog' = Append(gclog, ms)
      BY <2>2 DEF W!Pause
    <3>2. gclog' \in Seq(Pauses) /\ Len(gclog') = Len(gclog) + 1 /\ Len(gclog) \in Nat
      BY <1>1, <3>1 DEF LogPart
    <3>3. gen' = gen
      BY <2>2 DEF W!Pause
    <3>4. QED
      BY <1>1, <1>2, <2>1, <3>2, <3>3 DEF LogPart
  <2>3. CASE W!Rotate
    <3>1. gen' = gen + 1 /\ gclog' = <<>> /\ armed.gen \in Nat
      BY <1>1, <2>3 DEF W!Rotate, ClockPart
    <3>2. gen' \in Nat /\ armed.gen <= gen' /\ gen' # armed.gen /\ gclog' \in Seq(Pauses)
      BY <1>1, <3>1 DEF LogPart
    <3>3. QED
      BY <1>1, <1>2, <3>2 DEF LogPart
  <2>4. CASE W!TouchFile \/ W!TargetExits
    <3>1. gen' = gen /\ gclog' = gclog
      BY <2>4 DEF W!TouchFile, W!TargetExits
    <3>2. QED
      BY <1>1, <1>2, <2>1, <3>1 DEF LogPart
  <2>5. QED
    BY <2>2, <2>3, <2>4
<1>6. QED
  BY <1>3, <1>4, <1>5 DEF WaitInv

(* Time passes.                                                              *)
LEMMA ElapseStep ==
  ASSUME ClockPart, NEW n \in Nat, W!Elapse(n), UNCHANGED <<prev, armed>> PROVE ClockPart'
<1>1. PICK use \in [1..n -> IF target = 1 /\ W!Has("cpu") THEN {0, 1} ELSE {0}] : spent' = spent \o use
  BY DEF W!Elapse
<1>2. clock' = clock + n
  BY DEF W!Elapse
<1>3. use \in Seq({0, 1}) /\ Len(use) = n
  <2>1. use \in [1..n -> {0, 1}]
    BY <1>1
  <2>2. QED
    BY <2>1
<1>4. /\ spent' \in Seq({0, 1}) /\ Len(spent') = clock + n
      /\ Busy(spent', 0, prev.time) = Busy(spent, 0, prev.time)
  <2>1. spent \in Seq({0, 1}) /\ Len(spent) = clock /\ prev.time \in Nat /\ prev.time <= Len(spent)
    BY DEF ClockPart
  <2>2. QED
    BY <1>1, <1>3, <2>1, BusyStays
<1>5. /\ clock + n \in Nat /\ prev.time <= clock + n
      /\ prev.ticks = Cardinality(Busy(spent', 0, prev.time))
  BY <1>4 DEF ClockPart
<1>6. QED
  BY <1>2, <1>4, <1>5 DEF ClockPart

(* The steps that leave the log, the sample and the arming alone. *)
LEMMA WaitingStep ==
  ASSUME WaitInv, W!Delay \/ W!Deadline \/ W!Alive \/ W!Sleep \/ W!CheckFile \/ W!Interrupt PROVE WaitInv'
<1>1. TargetPart /\ ClockPart /\ LogPart
  BY DEF WaitInv
<1>2. UNCHANGED <<triggers, startAt, offset, size, prev, armed, gclog, gen>> /\ wait # "go" /\ wait' # "tail"
  BY DEF W!Delay, W!Deadline, W!Alive, W!Sleep, W!CheckFile, W!Interrupt, W!Waiting, W!Die, W!given, W!watch,
         W!history, W!host, W!Fire, W!Pass, W!NextTrigger
<1>3. LogPart'
  <2>1. W!Has("gcpause")' <=> W!Has("gcpause")
    BY <1>2 DEF W!Has
  <2>2. QED
    BY <1>1, <1>2, <2>1 DEF LogPart
<1>4. ClockPart'
  <2>1. CASE W!Elapse(1)
    BY <1>1, <1>2, <2>1, ElapseStep
  <2>2. CASE W!Sleep
    <3>1. PICK n \in 1..MaxSleep : W!Elapse(n)
      BY <2>2 DEF W!Sleep
    <3>2. n \in Nat
      BY <3>1, WaitAssumption
    <3>3. QED
      BY <1>1, <1>2, <3>1, <3>2, ElapseStep
  <2>3. CASE UNCHANGED <<clock, spent>>
    BY <1>1, <1>2, <2>3 DEF ClockPart
  <2>4. UNCHANGED <<clock, spent>> \/ W!Elapse(1) \/ W!Sleep
    BY DEF W!Delay, W!Deadline, W!Alive, W!CheckFile, W!Interrupt, W!host
  <2>5. QED
    BY <2>1, <2>2, <2>3, <2>4
<1>5. TargetPart'
  <2>1. Len(triggers) \in Nat /\ (triggers # <<>> => 1 \in 1..Len(triggers))
    BY <1>1 DEF TargetPart
  <2>2. CASE W!Delay
    BY <1>1, <1>2, <2>2 DEF TargetPart, W!Delay, W!Die
  <2>3. CASE W!Deadline \/ W!Alive \/ W!Interrupt
    BY <1>1, <1>2, <2>3 DEF TargetPart, W!Deadline, W!Alive, W!Interrupt, W!Die
  <2>4. CASE W!Sleep
    BY <1>1, <1>2, <2>1, <2>4 DEF TargetPart, W!Sleep
  <2>5. CASE W!CheckFile
    <3>1. nth' \in Nat /\ (wait' \in {"check", "tail"} => nth' \in 1..Len(triggers)) /\ triggers # <<>>
      BY <1>1, <2>1, <2>5 DEF TargetPart, W!CheckFile, W!Fire, W!Pass, W!NextTrigger
    <3>2. QED
      BY <1>1, <1>2, <3>1 DEF TargetPart
  <2>6. QED
    BY <2>2, <2>3, <2>4, <2>5
<1>6. W!FiredIsTrue'
  <2>1. ASSUME wait' = "go"
        PROVE  \/ fired' = W!StartAt
               \/ W!CheckFile /\ flagged' = 1 /\ fired' = triggers[nth] /\ triggers[nth].kind = "file"
    BY <2>1 DEF W!Delay, W!Deadline, W!Alive, W!Sleep, W!CheckFile, W!Interrupt, W!Die, W!Fire, W!Pass, W!NextTrigger,
                W!host
  <2>2. QED
    BY <2>1 DEF W!FiredIsTrue, W!StartAt
<1>7. QED
  BY <1>3, <1>4, <1>5, <1>6 DEF WaitInv

LEMMA ArmStep == ASSUME WaitInv, W!Arm PROVE WaitInv'
<1>1. TargetPart /\ ClockPart /\ LogPart
  BY DEF WaitInv
<1>2. /\ wait = "arm" /\ wait' = "deadline" /\ UNCHANGED <<triggers, nth, size, clock, spent, gclog, gen>>
      /\ offset' = IF W!Has("gcpause") THEN Len(gclog) ELSE 0
      /\ prev' = [ticks |-> W!ProcTicks, time |-> clock]
      /\ armed' = [time |-> clock, gen |-> gen, lines |-> Len(gclog)]
  BY DEF W!Arm, W!given, W!host
<1>3. TargetPart'
  BY <1>1, <1>2 DEF TargetPart
<1>4. ClockPart'
  <2>1. clock \in Nat /\ gen \in Nat /\ Len(gclog) \in Nat
    BY <1>1 DEF ClockPart, LogPart
  <2>2. W!ProcTicks = Cardinality(Busy(spent, 0, clock)) /\ W!ProcTicks \in Nat
    BY <2>1, TicksAreBusy, BusyAdds DEF W!ProcTicks
  <2>3. QED
    BY <1>1, <1>2, <2>1, <2>2 DEF ClockPart
<1>5. LogPart'
  <2>1. W!Has("gcpause")' <=> W!Has("gcpause")
    BY <1>2 DEF W!Has
  <2>2. Len(gclog) \in Nat
    BY <1>1 DEF LogPart
  <2>3. QED
    BY <1>1, <1>2, <2>1, <2>2 DEF LogPart
<1>6. W!FiredIsTrue'
  BY <1>2 DEF W!FiredIsTrue
<1>7. QED
  BY <1>3, <1>4, <1>5, <1>6 DEF WaitInv

LEMMA CpuStep == ASSUME WaitInv, W!CheckCpu PROVE WaitInv'
<1>1. TargetPart /\ ClockPart /\ LogPart
  BY DEF WaitInv
<1>2. /\ wait = "check" /\ triggers[nth].kind = "cpu"
      /\ UNCHANGED <<triggers, offset, size, clock, spent, gclog, gen, armed, flagged>>
      /\ wait' # "tail"
  BY DEF W!CheckCpu, W!given, W!host, W!history, W!Fire, W!Pass, W!NextTrigger
<1>3. TargetPart'
  <2>1. Len(triggers) \in Nat /\ triggers # <<>>
    BY <1>1, <1>2 DEF TargetPart
  <2>2. nth' \in Nat /\ (wait' \in {"check", "tail"} => nth' \in 1..Len(triggers))
    BY <1>1, <1>2, <2>1 DEF TargetPart, W!CheckCpu, W!Fire, W!Pass, W!NextTrigger
  <2>3. QED
    BY <1>1, <1>2, <2>1, <2>2 DEF TargetPart
<1>4. LogPart'
  <2>1. W!Has("gcpause")' <=> W!Has("gcpause")
    BY <1>2 DEF W!Has
  <2>2. QED
    BY <1>1, <1>2, <2>1 DEF LogPart
<1>5. /\ clock \in Nat /\ prev.time \in Nat /\ prev.time <= clock /\ armed.time \in Nat /\ armed.time <= prev.time
      /\ prev.ticks = Cardinality(Busy(spent, 0, prev.time))
  BY <1>1 DEF ClockPart
<1>6. /\ W!ProcTicks = Cardinality(Busy(spent, 0, clock)) /\ W!ProcTicks \in Nat
      /\ W!ProcTicks - prev.ticks = W!Ticks(prev.time, clock)
  <2> DEFINE most == Cardinality(Busy(spent, 0, clock))
             few == Cardinality(Busy(spent, 0, prev.time))
             since == Cardinality(Busy(spent, prev.time, clock))
  <2>1. most \in Nat /\ few \in Nat /\ since \in Nat /\ most = few + since
    BY <1>5, BusyAdds
  <2>2. W!ProcTicks = most /\ W!Ticks(prev.time, clock) = since /\ prev.ticks = few
    BY <1>5, TicksAreBusy DEF W!ProcTicks
  <2>3. QED
    <3> HIDE DEF most, few, since
    <3>1. W!ProcTicks \in Nat /\ W!ProcTicks - prev.ticks = since
      BY <2>1, <2>2
    <3>2. QED
      BY <2>2, <3>1 DEF most
<1>7. prev' = prev \/ prev' = [ticks |-> W!ProcTicks, time |-> clock]
  BY DEF W!CheckCpu
<1>8. ClockPart'
  <2>1. CASE prev' = prev
    BY <1>1, <1>2, <2>1 DEF ClockPart
  <2>2. CASE prev' = [ticks |-> W!ProcTicks, time |-> clock]
    <3>1. prev' \in [ticks : Nat, time : Nat] /\ prev.time <= clock /\ armed.time <= clock
          /\ prev'.time = clock /\ prev'.ticks = Cardinality(Busy(spent, 0, clock))
      BY <1>5, <1>6, <2>2
    <3>2. QED
      BY <1>1, <1>2, <1>5, <3>1 DEF ClockPart
  <2>3. QED
    BY <1>7, <2>1, <2>2
<1>9. W!FiredIsTrue'
  <2>1. ASSUME wait' = "go"
        PROVE  /\ fired' = triggers[nth] /\ clock - prev.time >= CpuInterval
               /\ W!Ticks(prev.time, clock) * 100 >= triggers[nth].value * (clock - prev.time)
    BY <1>2, <1>6, <2>1 DEF W!CheckCpu, W!Fire, W!Pass, W!NextTrigger
  <2>2. prev.time \in armed.time..clock
    BY <1>5
  <2>4. ASSUME wait' = "go"
        PROVE  /\ fired'.kind = "cpu"
               /\ \E from \in armed.time..clock :
                    /\ clock - from >= CpuInterval
                    /\ W!Ticks(from, clock) * 100 >= triggers[nth].value * (clock - from)
    BY <1>2, <2>1, <2>2, <2>4
  <2>6. \A from : W!Ticks(from, clock') = W!Ticks(from, clock)
    BY <1>2
  <2>7. QED
    BY <1>2, <2>1, <2>4 DEF W!FiredIsTrue, W!Ticks
<1>10. QED
  BY <1>3, <1>4, <1>8, <1>9 DEF WaitInv

LEMMA StatStep == ASSUME WaitInv, W!StatLog PROVE WaitInv'
<1>1. TargetPart /\ ClockPart /\ LogPart
  BY DEF WaitInv
<1>2. /\ wait = "check" /\ triggers[nth].kind = "gcpause" /\ wait' # "go"
      /\ UNCHANGED <<triggers, prev, clock, spent, gclog, gen, armed>>
      /\ size' = Len(gclog) /\ offset' = IF size' >= offset THEN offset ELSE 0
      /\ IF size' > offset' THEN wait' = "tail" /\ UNCHANGED nth ELSE W!NextTrigger
  BY DEF W!StatLog, W!given, W!host, W!NextTrigger
<1>3. /\ Len(triggers) \in Nat /\ triggers # <<>> /\ nth \in 1..Len(triggers) /\ Len(gclog) \in Nat /\ offset \in Nat
      /\ gen \in Nat /\ armed.gen \in Nat /\ armed.lines \in Nat
  BY <1>1, <1>2 DEF TargetPart, LogPart, ClockPart
<1>4. TargetPart'
  <2>1. nth' \in Nat /\ (wait' \in {"check", "tail"} => nth' \in 1..Len(triggers))
        /\ (wait' = "tail" => nth' = nth)
    BY <1>2, <1>3 DEF W!NextTrigger
  <2>2. QED
    BY <1>1, <1>2, <1>3, <2>1 DEF TargetPart
<1>5. ClockPart' /\ W!FiredIsTrue'
  BY <1>1, <1>2 DEF ClockPart, W!FiredIsTrue
<1>6. LogPart'
  <2>1. W!Has("gcpause")' <=> W!Has("gcpause")
    BY <1>2 DEF W!Has
  <2>2. W!Has("gcpause") /\ gen = armed.gen => armed.lines <= offset /\ offset <= Len(gclog)
    BY <1>1 DEF LogPart
  <2>3. offset' \in Nat /\ size' \in Nat /\ (offset <= Len(gclog) => offset' = offset)
    BY <1>2, <1>3
  <2>4. wait' = "tail" => offset' <= size' /\ size' = Len(gclog)
    BY <1>2, <1>3 DEF W!NextTrigger
  <2>5. QED
    BY <1>1, <1>2, <1>3, <2>1, <2>2, <2>3, <2>4 DEF LogPart
<1>7. QED
  BY <1>4, <1>5, <1>6 DEF WaitInv

LEMMA TailStep == ASSUME WaitInv, W!TailLog PROVE WaitInv'
<1>1. TargetPart /\ ClockPart /\ LogPart
  BY DEF WaitInv
<1> DEFINE hits == {i \in W!Fresh : gclog[i] >= triggers[nth].value}
           found == [kind |-> "gcpause", value |-> triggers[nth].value, gen |-> gen, line |-> W!Min(hits)]
<1>2. /\ wait = "tail" /\ wait' # "tail" /\ UNCHANGED <<triggers, prev, clock, spent, gclog, gen, armed, size>>
      /\ offset' = size
      /\ IF hits # {} THEN W!Fire(found) ELSE W!Pass
  BY DEF W!TailLog, W!given, W!host, W!history, W!Fire, W!Pass, W!NextTrigger
<1>3. /\ Len(triggers) \in Nat /\ triggers # <<>> /\ nth \in 1..Len(triggers) /\ triggers[nth].kind = "gcpause"
      /\ gclog \in Seq(Pauses) /\ offset \in Nat /\ size \in Nat /\ gen \in Nat /\ armed.gen \in Nat /\ armed.lines \in Nat
      /\ offset <= size /\ (gen = armed.gen => size <= Len(gclog))
  BY <1>1, <1>2 DEF TargetPart, LogPart, ClockPart
<1>4. W!Has("gcpause")
  <2>1. nth \in DOMAIN triggers
    BY <1>1, <1>3 DEF TargetPart
  <2>2. QED
    BY <1>3, <2>1 DEF W!Has
<1>5. gen = armed.gen => armed.lines <= offset /\ offset <= Len(gclog)
  BY <1>1, <1>4 DEF LogPart
<1>6. TargetPart'
  <2>1. nth' \in Nat /\ (wait' \in {"check", "tail"} => nth' \in 1..Len(triggers))
    <3> HIDE DEF hits, found
    <3>1. QED
      BY <1>2, <1>3 DEF W!Fire, W!Pass, W!NextTrigger
  <2>2. QED
    BY <1>1, <1>2, <1>3, <2>1 DEF TargetPart
<1>7. ClockPart'
  BY <1>1, <1>2 DEF ClockPart
<1>8. LogPart'
  <2>1. W!Has("gcpause")' <=> W!Has("gcpause")
    BY <1>2 DEF W!Has
  <2>2. offset' \in Nat /\ (gen = armed.gen => armed.lines <= offset' /\ offset' <= Len(gclog))
    BY <1>2, <1>3, <1>5
  <2>3. QED
    BY <1>1, <1>2, <2>1, <2>2 DEF LogPart
<1>9. W!FiredIsTrue'
  <2>1. CASE wait' # "go"
    BY <2>1 DEF W!FiredIsTrue
  <2>2. CASE wait' = "go"
    <3>1. hits # {} /\ fired' = found
      <4> HIDE DEF hits, found
      <4>1. QED
        BY <1>2, <2>2 DEF W!Fire, W!Pass, W!NextTrigger
    <3>2. hits \subseteq Nat
      BY <1>3 DEF W!Fresh
    <3>3. W!Min(hits) \in hits
      <4> HIDE DEF hits
      <4>1. QED
        BY <3>1, <3>2, LeastOfWait
    <3>4. W!Min(hits) \in Nat /\ gclog[W!Min(hits)] >= triggers[nth].value /\ offset < W!Min(hits)
      BY <3>2, <3>3 DEF W!Fresh
    <3> DEFINE line == W!Min(hits)
    <3>5. /\ fired'.kind = "gcpause" /\ fired'.gen = gen /\ fired'.value = triggers[nth].value /\ fired'.line = line
      <4> HIDE DEF line, hits
      <4>1. QED
        BY <3>1 DEF line
    <3>6. line \in Nat /\ gclog[line] >= triggers[nth].value /\ (gen = armed.gen => line > armed.lines)
      <4>1. line \in Nat /\ gclog[line] >= triggers[nth].value /\ offset < line
        BY <3>4
      <4> HIDE DEF line
      <4>2. QED
        BY <1>3, <1>5, <4>1
    <3>7. QED
      <4> HIDE DEF line, hits, found
      <4>1. QED
        BY <1>2, <3>5, <3>6 DEF W!FiredIsTrue
  <2>3. QED
    BY <2>1, <2>2
<1>10. QED
  BY <1>6, <1>7, <1>8, <1>9 DEF WaitInv

LEMMA WaitStep == ASSUME WaitInv, [W!Next]_W!vars PROVE WaitInv'
<1>1. CASE UNCHANGED W!vars
  BY <1>1 DEF W!vars, WaitInv, TargetPart, ClockPart, LogPart, W!FiredIsTrue, W!Has, W!Ticks
<1>2. CASE W!Next
  BY <1>2, HostStep, WaitingStep, ArmStep, CpuStep, StatStep, TailStep DEF W!Next
<1>3. QED
  BY <1>1, <1>2

-----------------------------------------------------------------------------
(* What the wait must not miss.  HeardPart says that every line that was read  *)
(* was compared with a trigger's value, while the file is the one that was   *)
(* last looked at; RoundPart that past the first gcpause trigger of a round  *)
(* the log was read as far as it went when the round began; SincePart how    *)
(* old the last sample of the CPU time can be, and UnusedPart that the time    *)
(* between it and the one before was not used up.                            *)

HeardPart ==
  /\ outgrown \in Nat \X {0, 1} /\ mark \in [gen : Nat, lines : Nat]
  /\ armed.gen <= outgrown[1] /\ outgrown[1] <= gen /\ mark.gen <= gen
  /\ mark.gen = gen => mark.lines <= Len(gclog)
  /\ outgrown[1] = gen => offset <= Len(gclog) /\ (wait = "tail" => size <= Len(gclog))
  /\ wait # "go" /\ W!Has("gcpause") /\ outgrown[1] = gen /\ outgrown[2] = 0 =>
       \A i \in 1..offset : (gen = armed.gen => i > armed.lines) => W!Heard(gclog[i])

LookedFor(kind) == \E j \in 1..nth - 1 : triggers[j].kind = kind

RoundPart ==
  /\ (wait = "deadline" /\ W!Has("gcpause")) \/ (wait = "check" /\ LookedFor("gcpause")) =>
       (mark.gen = gen => outgrown[1] = gen /\ mark.lines <= offset)
  /\ wait = "tail" /\ mark.gen = gen => outgrown[1] = gen /\ mark.lines <= size

SincePart ==
  target = 1 /\ W!Has("cpu") =>
    /\ wait \in {"deadline", "alive", "sleep"} \/ (wait \in {"check", "tail"} /\ LookedFor("cpu")) =>
         clock < prev.time + CpuInterval
    /\ wait \in {"check", "tail"} => clock < prev.time + CpuInterval + MaxSleep

UnusedPart ==
  W!Has("cpu") /\ W!FirstOfKind("cpu").value <= 100 /\ wait # "go" =>
    \/ prev.time = armed.time
    \/ \E u \in 1..prev.time : prev.time < u + CpuInterval + MaxSleep - 1 /\ spent[u] = 0

AlarmInv == HeardPart /\ RoundPart /\ SincePart /\ UnusedPart

LEMMA AlarmInit == W!Init => AlarmInv
<1>1. SUFFICES ASSUME W!Init PROVE AlarmInv
  OBVIOUS
<1>2. Len(gclog) = 0 /\ gen = 0 /\ offset = 0 /\ nth = 0 /\ wait \in {"delay", "arm"}
      /\ outgrown = <<0, 0>> /\ mark = [gen |-> 0, lines |-> 0] /\ armed = [time |-> 0, gen |-> 0, lines |-> 0]
      /\ prev = [ticks |-> 0, time |-> 0]
  BY <1>1 DEF W!Init
<1>3. HeardPart
  BY <1>2 DEF HeardPart
<1>4. RoundPart /\ SincePart /\ UnusedPart
  BY <1>2 DEF RoundPart, SincePart, UnusedPart
<1>5. QED
  BY <1>3, <1>4 DEF AlarmInv

(* The triggers are those given.                                             *)
LEMMA SameTriggers ==
  ASSUME UNCHANGED triggers
  PROVE  /\ W!Has("gcpause")' = W!Has("gcpause") /\ W!Has("cpu")' = W!Has("cpu")
         /\ W!FirstOfKind("cpu")' = W!FirstOfKind("cpu")
         /\ \A ms : W!Heard(ms)' = W!Heard(ms)
  BY DEF W!Has, W!FirstOfKind, W!Heard

(* Pause, Rotate, TouchFile, TargetExits: the collector's own state is as it *)
(* was, and a log with another number is none that was looked at.            *)
LEMMA HostAlarm ==
  ASSUME WaitInv, AlarmInv, W!Pause \/ W!Rotate \/ W!TouchFile \/ W!TargetExits PROVE AlarmInv'
<1>1. HeardPart /\ RoundPart /\ SincePart /\ UnusedPart /\ LogPart /\ ClockPart
  BY DEF AlarmInv, WaitInv
<1>2. /\ UNCHANGED <<wait, triggers, nth, offset, size, prev, clock, spent, armed, mark, outgrown>>
      /\ target' \in {target, 0}
  BY DEF W!Pause, W!Rotate, W!TouchFile, W!TargetExits, W!Waiting, W!given, W!watch, W!history
<1>3. SincePart' /\ UnusedPart'
  BY <1>1, <1>2, SameTriggers DEF SincePart, UnusedPart, LookedFor
<1>4. gen \in Nat /\ gclog \in Seq(Pauses) /\ Len(gclog) \in Nat /\ offset \in Nat /\ size \in Nat /\ armed.gen \in Nat
      /\ mark.gen \in Nat /\ mark.lines \in Nat /\ outgrown[1] \in Nat
  BY <1>1 DEF LogPart, ClockPart, HeardPart
<1>5. CASE W!Rotate
  <2>1. gen' = gen + 1 /\ gclog' = <<>>
    BY <1>5 DEF W!Rotate
  <2>2. mark.gen # gen' /\ outgrown[1] # gen' /\ mark.gen <= gen' /\ outgrown[1] <= gen'
    BY <1>1, <1>4, <2>1 DEF HeardPart
  <2>3. QED
    BY <1>1, <1>2, <1>3, <2>2 DEF AlarmInv, HeardPart, RoundPart
<1>6. CASE W!Pause
  <2>1. PICK ms \in Pauses : gclog' = Append(gclog, ms)
    BY <1>6 DEF W!Pause
  <2>2. gen' = gen
    BY <1>6 DEF W!Pause
  <2>3. Len(gclog') = Len(gclog) + 1 /\ \A i \in 1..Len(gclog) : gclog'[i] = gclog[i]
    BY <1>4, <2>1
  <2>4. Len(gclog) <= Len(gclog')
    BY <1>4, <2>3
  <2>5. RoundPart'
    BY <1>1, <1>2, <2>2, SameTriggers DEF RoundPart, LookedFor
  <2>6. ASSUME wait # "go", W!Has("gcpause"), outgrown[1] = gen, outgrown[2] = 0,
               NEW i \in 1..offset, gen = armed.gen => i > armed.lines
        PROVE  W!Heard(gclog'[i])
    <3>1. W!Heard(gclog[i]) /\ offset <= Len(gclog)
      BY <1>1, <2>6 DEF HeardPart
    <3>2. i \in 1..Len(gclog)
      BY <1>4, <3>1
    <3>3. QED
      BY <2>3, <3>1, <3>2
  <2>7. HeardPart'
    <3>1. mark.gen = gen => mark.lines <= Len(gclog')
      BY <1>1, <1>4, <2>3 DEF HeardPart
    <3>2. outgrown[1] = gen => offset <= Len(gclog') /\ (wait = "tail" => size <= Len(gclog'))
      BY <1>1, <1>4, <2>3 DEF HeardPart
    <3>3. wait # "go" /\ W!Has("gcpause") /\ outgrown[1] = gen /\ outgrown[2] = 0 =>
            \A i \in 1..offset : (gen = armed.gen => i > armed.lines) => W!Heard(gclog'[i])
      BY <2>6
    <3>4. QED
      BY <1>1, <1>2, <2>2, <3>1, <3>2, <3>3, SameTriggers DEF HeardPart
  <2>8. QED
    BY <1>3, <2>5, <2>7 DEF AlarmInv
<1>7. CASE W!TouchFile \/ W!TargetExits
  <2>1. UNCHANGED <<gen, gclog>>
    BY <1>7 DEF W!TouchFile, W!TargetExits
  <2>2. HeardPart' /\ RoundPart'
    BY <1>1, <1>2, <2>1, SameTriggers DEF HeardPart, RoundPart, LookedFor
  <2>3. QED
    BY <1>3, <2>2 DEF AlarmInv
<1>8. QED
  BY <1>5, <1>6, <1>7

(* A trigger that is not of a kind is passed by: the next one, or the end of *)
(* the round, has been looked for one more.                                  *)
LEMMA PassedBy ==
  ASSUME TargetPart, wait \in {"check", "tail"}, W!NextTrigger, UNCHANGED triggers, NEW kind,
         LookedFor(kind)' \/ (wait' = "deadline" /\ W!Has(kind))
  PROVE  LookedFor(kind) \/ triggers[nth].kind = kind
<1>1. nth \in 1..Len(triggers) /\ Len(triggers) \in Nat /\ DOMAIN triggers = 1..Len(triggers)
  BY DEF TargetPart
<1> DEFINE len == Len(triggers)
<1>0. nth \in Nat /\ len \in Nat /\ 1 <= nth /\ nth <= len
  BY <1>1
<1>2. CASE wait' = "deadline"
  <2>1. nth = len
    <3>1. ~(nth < len)
      BY <1>2 DEF W!NextTrigger
    <3> HIDE DEF len
    <3>2. QED
      BY <1>0, <3>1
  <2>2. PICK j \in 1..len : triggers[j].kind = kind
    <3>1. ~ LookedFor(kind)'
      BY <1>0, <1>2 DEF LookedFor, W!NextTrigger
    <3>2. QED
      BY <1>1, <1>2, <3>1 DEF W!Has
  <2>3. j = nth \/ j \in 1..nth - 1
    <3> HIDE DEF len
    <3>1. QED
      BY <1>0, <2>1, <2>2
  <2>4. QED
    BY <2>2, <2>3 DEF LookedFor
<1>3. CASE wait' # "deadline"
  <2>1. nth' = nth + 1
    BY <1>3 DEF W!NextTrigger
  <2>2. PICK j \in 1..nth' - 1 : triggers[j].kind = kind
    BY <1>3 DEF LookedFor
  <2>3. j = nth \/ j \in 1..nth - 1
    BY <1>1, <2>1, <2>2
  <2>4. QED
    BY <2>2, <2>3 DEF LookedFor
<1>4. QED
  BY <1>2, <1>3

LEMMA LookedForMore ==
  ASSUME TargetPart, wait \in {"check", "tail"}, W!NextTrigger, UNCHANGED triggers, NEW kind, LookedFor(kind)
  PROVE  LookedFor(kind)' \/ wait' = "deadline"
<1>1. nth \in 1..Len(triggers) /\ Len(triggers) \in Nat
  BY DEF TargetPart
<1>2. PICK j \in 1..nth - 1 : triggers[j].kind = kind
  BY DEF LookedFor
<1>3. wait' = "deadline" \/ j \in 1..nth' - 1
  BY <1>1, <1>2 DEF W!NextTrigger
<1>4. QED
  BY <1>2, <1>3 DEF LookedFor

(* Time that passes at the end of what was used does not change it.          *)
LEMMA ElapseAlarm ==
  ASSUME ClockPart, UnusedPart, NEW n \in Nat, W!Elapse(n), UNCHANGED <<triggers, prev, armed>>, wait # "go"
  PROVE  UnusedPart' /\ clock' = clock + n
<1>1. PICK use \in [1..n -> IF target = 1 /\ W!Has("cpu") THEN {0, 1} ELSE {0}] : spent' = spent \o use
  BY DEF W!Elapse
<1>2. clock' = clock + n
  BY DEF W!Elapse
<1>3. use \in Seq({0, 1})
  <2>1. use \in [1..n -> {0, 1}]
    BY <1>1
  <2>2. QED
    BY <2>1
<1>4. \A u \in 1..prev.time : spent'[u] = spent[u]
  <2>1. spent \in Seq({0, 1}) /\ prev.time \in Nat /\ prev.time <= Len(spent)
    BY DEF ClockPart
  <2>2. QED
    BY <1>1, <1>3, <2>1
<1>5. UnusedPart'
  BY <1>4, SameTriggers DEF UnusedPart
<1>6. QED
  BY <1>2, <1>5

(* Delay, Deadline, Alive, Sleep, Interrupt *)
LEMMA ClockAlarm ==
  ASSUME WaitInv, AlarmInv, W!Delay \/ W!Deadline \/ W!Alive \/ W!Sleep \/ W!Interrupt PROVE AlarmInv'
<1>1. HeardPart /\ RoundPart /\ SincePart /\ UnusedPart /\ LogPart /\ ClockPart /\ TargetPart
  BY DEF AlarmInv, WaitInv
<1>2. UNCHANGED <<triggers, offset, size, prev, armed, gclog, gen, target, outgrown>>
      /\ wait # "go" /\ wait' \in {"go", "over", "arm", "alive", "sleep", "check"}
  BY DEF W!Delay, W!Deadline, W!Alive, W!Sleep, W!Interrupt, W!Waiting, W!Die, W!given, W!watch, W!history, W!host
<1>3. gen \in Nat /\ Len(gclog) \in Nat
  BY <1>1 DEF LogPart
<1>4. HeardPart'
  <2>1. mark' = mark \/ mark' = [gen |-> gen, lines |-> Len(gclog)]
    BY DEF W!Delay, W!Deadline, W!Alive, W!Sleep, W!Interrupt, W!history
  <2>2. mark' \in [gen : Nat, lines : Nat] /\ mark'.gen <= gen /\ (mark'.gen = gen => mark'.lines <= Len(gclog))
    BY <1>1, <1>3, <2>1 DEF HeardPart
  <2>3. QED
    BY <1>1, <1>2, <2>2, SameTriggers DEF HeardPart
<1>5. W!Sleep \/ wait' # "check"
  BY DEF W!Delay, W!Deadline, W!Alive, W!Interrupt, W!Die
<1>6. W!Sleep => nth' = 1
  BY DEF W!Sleep
<1>7. RoundPart'
  BY <1>2, <1>5, <1>6 DEF RoundPart, LookedFor
<1>8. CASE W!Sleep
  <2>1. PICK n \in 1..MaxSleep : W!Elapse(n)
    BY <1>8 DEF W!Sleep
  <2>2. n \in Nat /\ n <= MaxSleep /\ MaxSleep \in Nat /\ CpuInterval \in Nat
    BY <2>1, WaitAssumption
  <2>3. UnusedPart' /\ clock' = clock + n
    BY <1>1, <1>2, <2>1, <2>2, ElapseAlarm
  <2>4. wait = "sleep" /\ clock \in Nat /\ prev.time \in Nat
    BY <1>1, <1>8 DEF W!Sleep, ClockPart
  <2>5. target = 1 /\ W!Has("cpu") => clock' < prev.time + CpuInterval + MaxSleep
    BY <1>1, <2>2, <2>3, <2>4 DEF SincePart
  <2>6. SincePart'
    BY <1>2, <1>6, <1>8, <2>5, SameTriggers DEF SincePart, LookedFor, W!Sleep
  <2>7. QED
    BY <1>4, <1>7, <2>3, <2>6 DEF AlarmInv
<1>9. CASE W!Delay
  <2>1. wait' \in {"go", "over", "arm"}
    BY <1>9 DEF W!Delay, W!Die
  <2>2. UnusedPart'
    <3>1. CASE W!Elapse(1)
      BY <1>1, <1>2, <3>1, ElapseAlarm
    <3>2. CASE UNCHANGED spent
      BY <1>1, <1>2, <3>2, SameTriggers DEF UnusedPart
    <3>3. QED
      BY <1>9, <3>1, <3>2 DEF W!Delay
  <2>3. QED
    BY <1>4, <1>7, <2>1, <2>2 DEF AlarmInv, SincePart
<1>10. CASE W!Deadline \/ W!Alive \/ W!Interrupt
  <2>1. UNCHANGED <<clock, spent>>
    BY <1>10 DEF W!Deadline, W!Alive, W!Interrupt, W!host
  <2>2. wait' \in {"over", "alive", "sleep"} /\ (wait' # "over" => wait \in {"deadline", "alive"})
    BY <1>10 DEF W!Deadline, W!Alive, W!Interrupt, W!Die
  <2>3. SincePart' /\ UnusedPart'
    BY <1>1, <1>2, <2>1, <2>2, SameTriggers DEF SincePart, UnusedPart
  <2>4. QED
    BY <1>4, <1>7, <2>3 DEF AlarmInv
<1>11. QED
  BY <1>8, <1>9, <1>10

LEMMA ArmAlarm == ASSUME WaitInv, W!Arm PROVE AlarmInv'
<1>1. LogPart /\ ClockPart /\ TargetPart
  BY DEF WaitInv
<1>2. /\ wait' = "deadline" /\ UNCHANGED <<triggers, clock, gclog, gen, target>>
      /\ offset' = IF W!Has("gcpause") THEN Len(gclog) ELSE 0
      /\ prev' = [ticks |-> W!ProcTicks, time |-> clock]
      /\ armed' = [time |-> clock, gen |-> gen, lines |-> Len(gclog)]
      /\ mark' = [gen |-> gen, lines |-> Len(gclog)] /\ outgrown' = <<gen, 0>>
  BY DEF W!Arm, W!given, W!host
<1>3. gen \in Nat /\ Len(gclog) \in Nat /\ clock \in Nat /\ CpuInterval \in Nat \ {0} /\ MaxSleep \in Nat
  BY <1>1, WaitAssumption DEF LogPart, ClockPart
<1>4. HeardPart'
  <2>1. \A i \in 1..offset' : ~(i > Len(gclog))
    BY <1>2, <1>3
  <2>2. offset' <= Len(gclog)
    BY <1>2, <1>3
  <2>3. QED
    BY <1>2, <1>3, <2>1, <2>2 DEF HeardPart
<1>5. RoundPart'
  <2>1. W!Has("gcpause")' = W!Has("gcpause")
    BY <1>2, SameTriggers
  <2>2. W!Has("gcpause") => offset' = Len(gclog)
    BY <1>2
  <2>3. mark'.lines = Len(gclog) /\ outgrown'[1] = gen
    BY <1>2
  <2>4. QED
    BY <1>2, <1>3, <2>1, <2>2, <2>3 DEF RoundPart
<1>6. SincePart'
  <2>1. clock < clock + CpuInterval /\ prev'.time = clock
    BY <1>2, <1>3
  <2>2. QED
    BY <1>2, <2>1 DEF SincePart
<1>7. UnusedPart'
  <2>1. prev'.time = armed'.time
    BY <1>2
  <2>2. QED
    BY <2>1 DEF UnusedPart
<1>8. QED
  BY <1>4, <1>5, <1>6, <1>7 DEF AlarmInv

(* The trigger that is looked at is one of those given.                      *)
LEMMA LookedIsGiven ==
  ASSUME TargetPart, wait \in {"check", "tail"} PROVE W!Has(triggers[nth].kind)
<1>1. nth \in DOMAIN triggers
  BY DEF TargetPart
<1>2. QED
  BY <1>1 DEF W!Has

(* The age of the last sample does not change by looking at another trigger. *)
LEMMA PassSince ==
  ASSUME TargetPart, SincePart, wait \in {"check", "tail"}, triggers[nth].kind # "cpu",
         UNCHANGED <<triggers, prev, clock, target>>,
         W!NextTrigger \/ wait' = "go" \/ (wait' = "tail" /\ nth' = nth)
  PROVE  SincePart'
<1>1. W!Has("cpu")' = W!Has("cpu")
  BY SameTriggers
<1>2. CASE wait' = "go"
  BY <1>2 DEF SincePart
<1>3. CASE wait' = "tail" /\ nth' = nth
  <2>1. LookedFor("cpu")' = LookedFor("cpu")
    BY <1>3 DEF LookedFor
  <2>2. QED
    BY <1>1, <1>3, <2>1 DEF SincePart
<1>4. CASE W!NextTrigger
  <2>1. wait' \in {"check", "deadline"}
    BY <1>4 DEF W!NextTrigger
  <2>2. LookedFor("cpu")' \/ (wait' = "deadline" /\ W!Has("cpu")) => LookedFor("cpu")
    BY <1>4, PassedBy
  <2>3. QED
    BY <1>1, <2>1, <2>2 DEF SincePart
<1>5. QED
  BY <1>2, <1>3, <1>4

(* A trigger of another kind leaves alone what was read of the log.          *)
LEMMA PassRound ==
  ASSUME TargetPart, RoundPart, wait = "check", triggers[nth].kind # "gcpause",
         UNCHANGED <<triggers, offset, size, gen, mark, outgrown>>, W!NextTrigger \/ wait' = "go"
  PROVE  RoundPart'
<1>1. W!Has("gcpause")' = W!Has("gcpause")
  BY SameTriggers
<1>2. CASE wait' = "go"
  BY <1>2 DEF RoundPart
<1>3. CASE W!NextTrigger
  <2>1. wait' \in {"check", "deadline"}
    BY <1>3 DEF W!NextTrigger
  <2>2. LookedFor("gcpause")' \/ (wait' = "deadline" /\ W!Has("gcpause")) => LookedFor("gcpause")
    BY <1>3, PassedBy
  <2>3. QED
    BY <1>1, <2>1, <2>2 DEF RoundPart
<1>4. QED
  BY <1>2, <1>3

LEMMA FileAlarm == ASSUME WaitInv, AlarmInv, W!CheckFile PROVE AlarmInv'
<1>1. HeardPart /\ RoundPart /\ SincePart /\ UnusedPart /\ TargetPart
  BY DEF AlarmInv, WaitInv
<1>2. /\ wait = "check" /\ triggers[nth].kind = "file"
      /\ UNCHANGED <<triggers, offset, size, prev, clock, spent, target, gclog, gen, armed, mark, outgrown>>
      /\ (W!NextTrigger \/ wait' = "go") /\ wait' # "tail"
  BY DEF W!CheckFile, W!given, W!watch, W!host, W!history, W!Fire, W!Pass, W!NextTrigger
<1>3. RoundPart' /\ SincePart'
  BY <1>1, <1>2, PassRound, PassSince
<1>4. HeardPart' /\ UnusedPart'
  BY <1>1, <1>2, SameTriggers DEF HeardPart, UnusedPart
<1>5. QED
  BY <1>3, <1>4 DEF AlarmInv

(* A time that was not used throughout has a moment in which it was not.     *)
LEMMA IdleMoment ==
  ASSUME NEW use \in Seq({0, 1}), NEW from \in Nat, NEW to \in Nat, from <= to, to <= Len(use),
         Cardinality(Busy(use, from, to)) < to - from
  PROVE  \E u \in from + 1..to : use[u] = 0
<1>1. SUFFICES ASSUME \A u \in from + 1..to : use[u] # 0 PROVE FALSE
  OBVIOUS
<1>2. \A u \in from + 1..to : use[u] = 1
  BY <1>1
<1>3. Busy(use, from, to) = from + 1..to
  BY <1>2 DEF Busy
<1>4. Cardinality(from + 1..to) = to - from
  <2> DEFINE a == from + 1
  <2>1. a \in Int /\ to \in Int
    OBVIOUS
  <2>2. Cardinality(a..to) = IF a > to THEN 0 ELSE to - a + 1
    <3> HIDE DEF a
    <3>1. QED
      BY <2>1, FS_Interval
  <2>3. QED
    BY <2>2
<1>5. QED
  BY <1>3, <1>4

(* The first of a kind is the one before which there was none.               *)
LEMMA FirstLooked ==
  ASSUME TargetPart, wait = "check", NEW kind, triggers[nth].kind = kind, ~LookedFor(kind)
  PROVE  W!FirstOfKind(kind) = triggers[nth]
<1> DEFINE all == {n \in DOMAIN triggers : triggers[n].kind = kind}
<1>1. all \subseteq Nat /\ nth \in all /\ nth \in Nat /\ DOMAIN triggers \subseteq Nat \ {0}
  BY DEF TargetPart
<1>2. W!Min(all) \in all
  BY <1>1, LeastOfWait
<1>3. \A n \in all : nth <= n
  BY <1>1 DEF LookedFor
<1>4. \A x, y \in all : (\A n \in all : x <= n) /\ (\A n \in all : y <= n) => x = y
  BY <1>1
<1>5. W!Min(all) = nth
  <2>1. W!Min(all) = CHOOSE x \in all : \A y \in all : x <= y
    BY DEF W!Min
  <2> HIDE DEF all
  <2>2. QED
    BY <1>1, <1>3, <1>4, <2>1
<1>6. QED
  BY <1>5 DEF W!FirstOfKind

LEMMA CpuAlarm == ASSUME WaitInv, AlarmInv, W!CheckCpu PROVE AlarmInv'
<1>1. HeardPart /\ RoundPart /\ SincePart /\ UnusedPart /\ TargetPart /\ ClockPart
  BY DEF AlarmInv, WaitInv
<1> DEFINE t == clock - prev.time
           value == triggers[nth].value
<1>2. /\ wait = "check" /\ triggers[nth].kind = "cpu"
      /\ UNCHANGED <<triggers, offset, size, clock, spent, target, gclog, gen, armed, mark, outgrown>>
      /\ (W!NextTrigger \/ wait' = "go") /\ wait' # "tail"
  BY DEF W!CheckCpu, W!given, W!host, W!history, W!Fire, W!Pass, W!NextTrigger
<1>3. HeardPart' /\ RoundPart'
  <2>1. RoundPart'
    BY <1>1, <1>2, PassRound
  <2>2. HeardPart'
    BY <1>1, <1>2, SameTriggers DEF HeardPart
  <2>3. QED
    BY <2>1, <2>2
<1>4. /\ clock \in Nat /\ prev.time \in Nat /\ prev.time <= clock /\ armed.time \in Nat /\ armed.time <= prev.time
      /\ prev.ticks = Cardinality(Busy(spent, 0, prev.time)) /\ spent \in Seq({0, 1}) /\ Len(spent) = clock
      /\ CpuInterval \in Nat \ {0} /\ MaxSleep \in Nat \ {0} /\ value \in Nat
  BY <1>1, <1>2, WaitAssumption, TriggerLooked DEF ClockPart
<1>5. W!Has("cpu")
  BY <1>1, <1>2, LookedIsGiven
<1>6. CASE target = 1 /\ t >= CpuInterval
  <2>1. prev' = [ticks |-> W!ProcTicks, time |-> clock]
    BY <1>6 DEF W!CheckCpu
  <2>2. SincePart'
    <3>1. clock < clock + CpuInterval /\ prev'.time = clock
      BY <1>4, <2>1
    <3>2. clock' < prev'.time + CpuInterval
      BY <1>2, <3>1
    <3>3. wait' # "check" \/ wait' = "check"
      OBVIOUS
    <3>4. clock' < prev'.time + CpuInterval + MaxSleep
      BY <1>2, <1>4, <2>1
    <3>5. QED
      BY <1>2, <3>2, <3>4 DEF SincePart
  <2>3. ~LookedFor("cpu") /\ clock < prev.time + CpuInterval + MaxSleep
    <3>1. ~ (clock < prev.time + CpuInterval)
      BY <1>4, <1>6
    <3>2. QED
      BY <1>1, <1>2, <1>5, <1>6, <3>1 DEF SincePart
  <2>4. W!FirstOfKind("cpu") = triggers[nth]
    BY <1>1, <1>2, <2>3, FirstLooked
  <2>5. ASSUME value <= 100, wait' # "go"
        PROVE  \E u \in 1..clock : clock < u + CpuInterval + MaxSleep - 1 /\ spent[u] = 0
    <3> DEFINE most == Cardinality(Busy(spent, 0, clock))
               few == Cardinality(Busy(spent, 0, prev.time))
               since == Cardinality(Busy(spent, prev.time, clock))
    <3>1. most \in Nat /\ few \in Nat /\ since \in Nat /\ most = few + since
      BY <1>4, BusyAdds
    <3>2. W!ProcTicks = most /\ prev.ticks = few
      BY <1>4, TicksAreBusy DEF W!ProcTicks
    <3>3. ~ ((W!ProcTicks - prev.ticks) * 100 >= value * t)
      BY <1>6, <2>5 DEF W!CheckCpu, W!Fire
    <3>4. since < t
      <4>1. t \in Nat /\ value * t <= 100 * t
        <5>1. t \in Nat /\ value \in Nat /\ value <= 100
          BY <1>4, <2>5
        <5> HIDE DEF t, value
        <5>2. (100 - value) * t = 100 * t - value * t /\ (100 - value) * t \in Nat
          BY <5>1
        <5>3. QED
          BY <5>1, <5>2
      <4>2. W!ProcTicks - prev.ticks = since
        <5> HIDE DEF most, few, since
        <5>1. QED
          BY <3>1, <3>2
      <4>3. since * 100 < value * t
        <5>1. value * t \in Nat
          BY <1>4, <4>1
        <5> HIDE DEF most, few, since, t, value
        <5>2. QED
          BY <3>1, <3>3, <4>2, <5>1
      <4> HIDE DEF most, few, since, t, value
      <4>4. QED
        BY <1>4, <3>1, <4>1, <4>3
    <3>5. PICK u \in prev.time + 1..clock : spent[u] = 0
      <4>1. /\ spent \in Seq({0, 1}) /\ prev.time \in Nat /\ clock \in Nat /\ prev.time <= clock /\ clock <= Len(spent)
            /\ Cardinality(Busy(spent, prev.time, clock)) < clock - prev.time
        BY <1>4, <3>4
      <4>2. \E u \in prev.time + 1..clock : spent[u] = 0
        BY <4>1, IdleMoment
      <4>3. QED
        BY <4>2
    <3>6. u \in 1..clock /\ clock < u + CpuInterval + MaxSleep - 1
      BY <1>4, <2>3, <3>5
    <3>7. QED
      BY <3>5, <3>6
  <2>6. UnusedPart'
    <3>1. prev'.time = clock /\ spent' = spent
      BY <1>2, <2>1
    <3>2. W!Has("cpu")' /\ W!FirstOfKind("cpu")' = triggers[nth]
      BY <1>2, <1>5, <2>4, SameTriggers
    <3> HIDE DEF t
    <3>3. QED
      BY <2>5, <3>1, <3>2 DEF UnusedPart
  <2>7. QED
    BY <1>3, <2>2, <2>6 DEF AlarmInv
<1>7. CASE ~(target = 1 /\ t >= CpuInterval)
  <2>1. prev' = prev
    BY <1>7 DEF W!CheckCpu
  <2>2. target = 1 => clock < prev.time + CpuInterval /\ clock < prev.time + CpuInterval + MaxSleep
    BY <1>4, <1>7
  <2>3. SincePart'
    BY <1>2, <2>1, <2>2 DEF SincePart
  <2>4. UnusedPart'
    BY <1>1, <1>2, <2>1, SameTriggers DEF UnusedPart
  <2>5. QED
    BY <1>3, <2>3, <2>4 DEF AlarmInv
<1>8. QED
  BY <1>6, <1>7

LEMMA StatAlarm == ASSUME WaitInv, AlarmInv, W!StatLog PROVE AlarmInv'
<1>1. HeardPart /\ RoundPart /\ SincePart /\ UnusedPart /\ TargetPart /\ ClockPart /\ LogPart
  BY DEF AlarmInv, WaitInv
<1>2. /\ wait = "check" /\ triggers[nth].kind = "gcpause" /\ wait' # "go"
      /\ UNCHANGED <<triggers, prev, clock, spent, target, gclog, gen, armed, mark>>
      /\ size' = Len(gclog) /\ offset' = IF size' >= offset THEN offset ELSE 0
      /\ outgrown' = <<gen, IF gen # outgrown[1] /\ offset > 0 /\ size' >= offset THEN 1 ELSE outgrown[2]>>
      /\ IF size' > offset' THEN wait' = "tail" /\ nth' = nth ELSE W!NextTrigger
  BY DEF W!StatLog, W!given, W!host, W!NextTrigger
<1>3. /\ Len(gclog) \in Nat /\ offset \in Nat /\ gen \in Nat /\ armed.gen \in Nat /\ armed.gen <= gen
      /\ outgrown \in Nat \X {0, 1} /\ mark \in [gen : Nat, lines : Nat] /\ mark.gen <= gen
      /\ mark.lines \in Nat /\ (mark.gen = gen => mark.lines <= Len(gclog))
  BY <1>1 DEF LogPart, ClockPart, HeardPart
<1>4. offset' \in Nat /\ size' \in Nat /\ offset' <= Len(gclog) /\ (offset' = 0 \/ (offset' = offset /\ size' >= offset))
  BY <1>2, <1>3
<1>5. outgrown' \in Nat \X {0, 1} /\ outgrown'[1] = gen
  BY <1>2, <1>3
<1>6. HeardPart'
  <2>1. ASSUME W!Has("gcpause"), outgrown'[2] = 0, NEW i \in 1..offset', gen = armed.gen => i > armed.lines
        PROVE  W!Heard(gclog[i])
    <3>1. offset' = offset /\ size' >= offset /\ offset > 0
      BY <1>3, <1>4, <2>1
    <3>2. gen = outgrown[1] /\ outgrown[2] = 0
      <4>1. outgrown'[2] = IF gen # outgrown[1] /\ offset > 0 /\ size' >= offset THEN 1 ELSE outgrown[2]
        BY <1>2
      <4>2. QED
        BY <2>1, <3>1, <4>1
    <3>3. QED
      BY <1>1, <1>2, <2>1, <3>1, <3>2 DEF HeardPart
  <2>2. QED
    BY <1>2, <1>3, <1>4, <1>5, <2>1, SameTriggers DEF HeardPart
<1>7. RoundPart'
  <2>1. wait' = "tail" => size' = Len(gclog)
    BY <1>2
  <2>2. wait' # "tail" => Len(gclog) <= offset'
    BY <1>2, <1>3, <1>4
  <2>3. mark'.gen = gen' => mark'.lines <= Len(gclog)
    BY <1>2, <1>3
  <2>4. wait' # "tail" => (mark'.gen = gen' => mark'.lines <= offset')
    BY <1>2, <1>3, <1>4, <2>2, <2>3
  <2>5. QED
    BY <1>2, <1>5, <2>1, <2>3, <2>4 DEF RoundPart
<1>8. SincePart'
  BY <1>1, <1>2, PassSince
<1>9. UnusedPart'
  BY <1>1, <1>2, SameTriggers DEF UnusedPart
<1>10. QED
  BY <1>6, <1>7, <1>8, <1>9 DEF AlarmInv

LEMMA TailAlarm == ASSUME WaitInv, AlarmInv, W!TailLog PROVE AlarmInv'
<1>1. HeardPart /\ RoundPart /\ SincePart /\ UnusedPart /\ TargetPart /\ ClockPart /\ LogPart
  BY DEF AlarmInv, WaitInv
<1> DEFINE hits == {i \in W!Fresh : gclog[i] >= triggers[nth].value}
           found == [kind |-> "gcpause", value |-> triggers[nth].value, gen |-> gen, line |-> W!Min(hits)]
<1>2. /\ wait = "tail" /\ UNCHANGED <<triggers, size, prev, clock, spent, target, gclog, gen, armed, mark, outgrown>>
      /\ offset' = size
      /\ IF hits # {} THEN W!Fire(found) ELSE W!Pass
  BY DEF W!TailLog, W!given, W!host, W!history
<1>3. /\ (W!NextTrigger /\ hits = {}) \/ wait' = "go"
      /\ wait' # "tail" /\ (wait' # "go" => hits = {} /\ W!NextTrigger)
  <2> HIDE DEF hits, found
  <2>1. QED
    BY <1>2 DEF W!Fire, W!Pass, W!NextTrigger
<1>4. /\ Len(gclog) \in Nat /\ offset \in Nat /\ size \in Nat /\ gclog \in Seq(Pauses) /\ offset <= size
      /\ triggers[nth].kind = "gcpause" /\ triggers[nth].value \in Nat
  BY <1>1, <1>2, TriggerLooked DEF LogPart, TargetPart
<1>5. nth \in DOMAIN triggers
  BY <1>1, <1>2 DEF TargetPart
<1>6. ASSUME W!Has("gcpause"), wait' # "go", outgrown[1] = gen, outgrown[2] = 0,
             NEW i \in 1..size, gen = armed.gen => i > armed.lines
      PROVE  W!Heard(gclog[i])
  <2>1. CASE i \in 1..offset
    BY <1>1, <1>2, <1>6, <2>1 DEF HeardPart
  <2>2. CASE i \notin 1..offset
    <3>1. size <= Len(gclog)
      BY <1>1, <1>2, <1>6 DEF HeardPart
    <3>2. i \in DOMAIN gclog /\ offset < i /\ i <= size /\ gclog[i] \in Nat
      <4>1. i \in 1..Len(gclog) /\ offset < i /\ i <= size
        BY <1>4, <2>2, <3>1
      <4>2. gclog[i] \in Pauses
        BY <1>4, <4>1
      <4>3. gclog[i] \in Nat
        BY <4>2, WaitAssumption
      <4>4. i \in DOMAIN gclog
        BY <1>4, <4>1
      <4>5. QED
        BY <4>1, <4>3, <4>4
    <3>3. ~ (gclog[i] >= triggers[nth].value)
      <4>1. hits = {}
        BY <1>3, <1>6
      <4>2. i \in W!Fresh
        BY <3>2 DEF W!Fresh
      <4>3. QED
        BY <4>1, <4>2
    <3>4. gclog[i] < triggers[nth].value
      BY <1>4, <3>2, <3>3
    <3>5. QED
      BY <1>4, <1>5, <3>4 DEF W!Heard
  <2>3. QED
    BY <2>1, <2>2
<1> HIDE DEF hits, found
<1>7. HeardPart'
  <2>1. outgrown[1] = gen => size <= Len(gclog)
    BY <1>1, <1>2 DEF HeardPart
  <2>2. wait' # "go" /\ W!Has("gcpause") /\ outgrown[1] = gen /\ outgrown[2] = 0 =>
          \A i \in 1..size : (gen = armed.gen => i > armed.lines) => W!Heard(gclog[i])
    BY <1>6
  <2>3. QED
    BY <1>1, <1>2, <1>3, <2>1, <2>2, SameTriggers DEF HeardPart
<1>8. RoundPart'
  <2>1. mark.gen = gen => outgrown[1] = gen /\ mark.lines <= size
    BY <1>1, <1>2 DEF RoundPart
  <2>2. QED
    BY <1>2, <1>3, <2>1 DEF RoundPart
<1>9. SincePart'
  BY <1>1, <1>2, <1>3, <1>4, PassSince
<1>10. UnusedPart'
  <2>1. wait # "go"
    BY <1>2
  <2>2. QED
    BY <1>1, <1>2, <2>1, SameTriggers DEF UnusedPart
<1>11. QED
  BY <1>7, <1>8, <1>9, <1>10 DEF AlarmInv

LEMMA AlarmStep == ASSUME WaitInv, AlarmInv, [W!Next]_W!vars PROVE AlarmInv'
<1>1. CASE UNCHANGED W!vars
  <2>1. W!Has("gcpause")' = W!Has("gcpause") /\ W!Has("cpu")' = W!Has("cpu")
        /\ W!FirstOfKind("cpu")' = W!FirstOfKind("cpu") /\ \A ms : W!Heard(ms)' = W!Heard(ms)
    BY <1>1, SameTriggers DEF W!vars
  <2>2. QED
    BY <1>1, <2>1 DEF W!vars, AlarmInv, HeardPart, RoundPart, SincePart, UnusedPart, LookedFor
<1>2. CASE W!Next
  BY <1>2, HostAlarm, ClockAlarm, ArmAlarm, FileAlarm, CpuAlarm, StatAlarm, TailAlarm DEF W!Next
<1>3. QED
  BY <1>1, <1>2

(* At the end of a round both alarms were told. *)
LEMMA AlarmAnswers == ASSUME WaitInv, AlarmInv PROVE W!PauseIsHeard /\ W!LoadIsHeard
<1>1. HeardPart /\ RoundPart /\ SincePart /\ UnusedPart /\ ClockPart /\ LogPart
  BY DEF AlarmInv, WaitInv
<1>2. W!PauseIsHeard
  <2>1. SUFFICES ASSUME wait = "deadline", W!Has("gcpause"), NEW i \in W!Owed PROVE W!Heard(gclog[i])
    BY DEF W!PauseIsHeard
  <2>2. mark.gen = gen /\ outgrown[2] = 0 /\ i \in 1..mark.lines /\ (gen = armed.gen => i > armed.lines)
    BY <2>1 DEF W!Owed
  <2>3. outgrown[1] = gen /\ mark.lines <= offset
    BY <1>1, <2>1, <2>2 DEF RoundPart
  <2>4. i \in 1..offset
    <3>1. mark.lines \in Nat /\ offset \in Nat
      BY <1>1 DEF HeardPart, LogPart
    <3>2. QED
      BY <2>2, <2>3, <3>1
  <2>5. QED
    BY <1>1, <2>1, <2>2, <2>3, <2>4 DEF HeardPart
<1>3. W!LoadIsHeard
  <2> DEFINE span == 2 * CpuInterval + MaxSleep - 2
             cpu == W!FirstOfKind("cpu")
  <2>1. SUFFICES ASSUME wait = "deadline", W!Has("cpu"), target = 1, cpu.value <= 100, clock - armed.time >= span
                 PROVE  W!Ticks(clock - span, clock) < span
    BY DEF W!LoadIsHeard
  <2>2. /\ clock \in Nat /\ prev.time \in Nat /\ prev.time <= clock /\ armed.time \in Nat
        /\ CpuInterval \in Nat \ {0} /\ MaxSleep \in Nat \ {0}
    BY <1>1, WaitAssumption DEF ClockPart
  <2>3. clock < prev.time + CpuInterval
    BY <1>1, <2>1 DEF SincePart
  <2>4. prev.time # armed.time
    BY <2>1, <2>2, <2>3
  <2>5. PICK u \in 1..prev.time : prev.time < u + CpuInterval + MaxSleep - 1 /\ spent[u] = 0
    <3> HIDE DEF span
    <3>1. QED
      BY <1>1, <2>1, <2>4 DEF UnusedPart
  <2> DEFINE from == clock - span
  <2>6. span \in Nat /\ from \in Nat /\ from <= clock /\ u \in from + 1..clock
    BY <2>1, <2>2, <2>3, <2>5
  <2>7. Cardinality(Busy(spent, from, clock)) < span
    <3> DEFINE all == from + 1..clock
               busy == Busy(spent, from, clock)
    <3>1. from + 1 \in Int /\ clock \in Int
      BY <2>2, <2>6
    <3>2. IsFiniteSet(all) /\ Cardinality(all) = span
      <4>1. Cardinality(all) = IF from + 1 > clock THEN 0 ELSE clock - (from + 1) + 1
        <5> HIDE DEF from
        <5>1. QED
          BY <3>1, FS_Interval
      <4>2. IsFiniteSet(all)
        <5> HIDE DEF from
        <5>1. QED
          BY <3>1, FS_Interval
      <4>3. clock = from + span
        BY <2>2, <2>6
      <4> HIDE DEF from, span, all
      <4>4. QED
        BY <2>2, <2>6, <4>1, <4>2, <4>3
    <3>3. busy \subseteq all \ {u}
      BY <2>5 DEF Busy
    <3>4. u \in all
      BY <2>6
    <3> HIDE DEF all, busy, span, from
    <3>5. IsFiniteSet(all \ {u}) /\ Cardinality(all \ {u}) = span - 1
      BY <3>2, <3>4, FS_RemoveElement
    <3>6. IsFiniteSet(busy) /\ Cardinality(busy) <= span - 1
      BY <3>3, <3>5, FS_Subset
    <3>7. Cardinality(busy) \in Nat
      BY <3>6, FS_CardinalityType
    <3>8. Cardinality(busy) < span
      BY <2>6, <3>6, <3>7
    <3>9. QED
      BY <3>8 DEF busy
  <2>8. W!Ticks(from, clock) = Cardinality(Busy(spent, from, clock))
    BY TicksAreBusy
  <2>9. QED
    BY <2>7, <2>8
<1>4. QED
  BY <1>2, <1>3

-----------------------------------------------------------------------------
(* gc-log-summary.py.  JvmPart types what the JVM keeps and prints; PrintPart *)
(* says of which pauses the log has lines; OwnPart that a collection with an *)
(* id of its own shares it with no other; StallPart that the lines of stalls *)
(* are as many as the stalls.                                                *)

GcKind ==
  [name : {"Young", "Remark", "Full", "FinalMark", "MarkEnd"}, gen : {"none", "Y", "O"},
   own : {0, 1}, sized : {0, 1}, again : {0, 1}]
GcPause == [kind : GcKind \cup {G!NoPause.kind}, id : Nat, n : Nat, began : Nat, before : Nat]
GcLine ==
  [type : {"using", "start", "end", "stall"}, pause : GcPause, after : Nat, up : Nat, ms : Nat, total : Nat, freed : Nat]

JvmPart ==
  /\ collector \in DOMAIN G!Kinds /\ up \in Nat /\ up <= MaxUp[collector]
  /\ used \in Nat /\ total \in Nat /\ freed \in Nat /\ nextId \in Nat \ {0} /\ cycle \in Nat /\ stalls \in Nat
  /\ open \in GcPause /\ open.began <= up
  /\ paused \in Seq([line : GcLine, file : Nat])
  /\ files \in Seq(Seq(GcLine)) /\ files # <<>>

Places == UNION {{f} \X DOMAIN files[f] : f \in DOMAIN files}
LineAt(t) == files[t[1]][t[2]]
Precedes(t, s) == t[1] < s[1] \/ (t[1] = s[1] /\ t[2] < s[2])

PrintPart ==
  /\ \A t \in Places : LineAt(t).up <= MaxUp[collector]
  /\ \A t \in Places : LineAt(t).type \in {"using", "stall"} => LineAt(t).pause = G!NoPause
  /\ \A t \in Places : LineAt(t).type \in {"start", "end"} => LineAt(t).pause \in G!Started \ {G!NoPause}
  /\ \A p \in G!Started : p.kind.name = "Full" => \E t \in Places : LineAt(t).pause = p

OwnPart ==
  /\ \A p \in G!Started : p.kind.name = "Full" => p.kind.own = 1 /\ p.kind.sized = 1
  /\ \A p \in G!Started : p.kind.name = "Full" => p.id < nextId
  /\ \A p, q \in G!Started : p.kind.name = "Full" /\ q.kind.name = "Full" /\ p.id = q.id => p = q

StallKeys == {<<t[1], <<"line", t[2]>> >> : t \in {s \in Places : LineAt(s).type = "stall"}}

StallPart == IsFiniteSet(StallKeys) /\ Cardinality(StallKeys) = stalls

GcInv == JvmPart /\ PrintPart /\ OwnPart /\ StallPart

LEMMA CardinalityOfLog == ASSUME NEW all PROVE G!Cardinality(all) = Cardinality(all)
  BY DEF G!Cardinality, Cardinality, G!IsFiniteSet, IsFiniteSet

(* Every collection that goes by the name Full has an id of its own.         *)
LEMMA KindsTyped ==
  ASSUME NEW c \in DOMAIN G!Kinds, NEW k \in G!Kinds[c]
  PROVE  k \in GcKind /\ (k.name = "Full" => k.own = 1 /\ k.sized = 1)
<1>1. DOMAIN G!Kinds = {"Parallel", "G1", "Shenandoah", "ZGC"}
  BY DEF G!Kinds
<1>2. CASE c = "Parallel"
  <2>1. G!Kinds[c] = {[name |-> "Young", gen |-> "none", own |-> 1, sized |-> 1, again |-> 0]}
    BY <1>2 DEF G!Kinds
  <2>2. QED
    BY <2>1 DEF GcKind
<1>3. CASE c = "G1"
  <2>1. G!Kinds[c] = {[name |-> "Young", gen |-> "none", own |-> 1, sized |-> 1, again |-> 0],
                         [name |-> "Remark", gen |-> "none", own |-> 0, sized |-> 1, again |-> 0]}
    BY <1>3 DEF G!Kinds
  <2>2. QED
    BY <2>1 DEF GcKind
<1>4. CASE c = "Shenandoah"
  <2>1. G!Kinds[c] = {[name |-> "Full", gen |-> "none", own |-> 1, sized |-> 1, again |-> 0],
                         [name |-> "FinalMark", gen |-> "none", own |-> 0, sized |-> 0, again |-> 0]}
    BY <1>4 DEF G!Kinds
  <2>2. QED
    BY <2>1 DEF GcKind
<1>5. CASE c = "ZGC"
  <2>1. G!Kinds[c] = {[name |-> "MarkEnd", gen |-> g, own |-> 0, sized |-> 0, again |-> 1] : g \in {"Y", "O"}}
    BY <1>5 DEF G!Kinds
  <2>2. QED
    BY <2>1 DEF GcKind
<1>6. QED
  BY <1>1, <1>2, <1>3, <1>4, <1>5

LEMMA NoPauseTyped == G!NoPause \in GcPause /\ G!NoPause.began = 0 /\ G!NoPause.kind.name = "none" /\ G!NoPause.n = 0
  BY DEF G!NoPause, GcPause

LEMMA InPlaces ==
  /\ \A f, i : <<f, i>> \in Places <=> f \in DOMAIN files /\ i \in DOMAIN files[f]
  /\ \A t \in Places : t = <<t[1], t[2]>>
  BY DEF Places

LEMMA LineTyped ==
  ASSUME JvmPart, NEW type \in {"using", "start", "end", "stall"}, NEW p \in GcPause, p.began <= up, NEW after \in Nat
  PROVE  /\ G!Line(type, p, after) \in GcLine
         /\ G!Line(type, p, after).type = type /\ G!Line(type, p, after).pause = p /\ G!Line(type, p, after).up = up
<1>1. up \in Nat /\ total \in Nat /\ freed \in Nat
  BY DEF JvmPart
<1>2. p.began \in Nat
  BY DEF GcPause
<1>3. up - p.began \in Nat
  BY <1>1, <1>2
<1>4. QED
  BY <1>1, <1>3 DEF G!Line, GcLine

(* A line more is one more place, at the end of the last file.               *)
LEMMA OneMoreLine ==
  ASSUME JvmPart, NEW line \in GcLine, files' = G!PrintTo(files, line)
  PROVE  /\ files' \in Seq(Seq(GcLine)) /\ files' # <<>>
         /\ \E t : /\ t \notin Places /\ Places' = Places \cup {t} /\ files'[t[1]][t[2]] = line /\ t[1] = Len(files)
                   /\ \A s \in Places : files'[s[1]][s[2]] = LineAt(s) /\ s # t /\ Precedes(s, t)
<1> DEFINE n == Len(files)
           m == Len(files[n]) + 1
<1>1. files \in Seq(Seq(GcLine)) /\ n \in Nat /\ n > 0 /\ n \in DOMAIN files /\ DOMAIN files = 1..n
  BY DEF JvmPart
<1>2. files[n] \in Seq(GcLine) /\ m \in Nat /\ m > 0 /\ DOMAIN files[n] = 1..m - 1
  BY <1>1
<1>3. files' = [files EXCEPT ![n] = Append(@, line)]
  BY DEF G!PrintTo
<1>4. /\ DOMAIN files' = DOMAIN files /\ files'[n] = Append(files[n], line)
      /\ \A f \in DOMAIN files \ {n} : files'[f] = files[f]
  BY <1>1, <1>3
<1>5. /\ files'[n] \in Seq(GcLine) /\ DOMAIN files'[n] = 1..m /\ files'[n][m] = line
      /\ \A i \in DOMAIN files[n] : files'[n][i] = files[n][i]
  BY <1>2, <1>4
<1>6. files' \in Seq(Seq(GcLine)) /\ files' # <<>>
  BY <1>1, <1>3, <1>5
<1> DEFINE t == <<n, m>>
<1>7. t \notin Places
  BY <1>2, InPlaces
<1>8. \A f, i : <<f, i>> \in Places' <=> f \in DOMAIN files' /\ i \in DOMAIN files'[f]
  BY DEF Places
<1>9. Places' = Places \cup {t}
  <2>1. \A f, i : <<f, i>> \in Places' <=> <<f, i>> \in Places \/ <<f, i>> = t
    <3>1. DOMAIN files'[n] = DOMAIN files[n] \cup {m}
      BY <1>2, <1>5
    <3> HIDE DEF n, m
    <3>2. QED
      BY <1>1, <1>4, <1>8, <3>1, InPlaces
  <2>2. \A s \in Places' : s = <<s[1], s[2]>>
    BY DEF Places
  <2>3. \A s \in Places : s = <<s[1], s[2]>>
    BY InPlaces
  <2> HIDE DEF n, m
  <2>4. QED
    BY <2>1, <2>2, <2>3
<1>10. ASSUME NEW s \in Places PROVE files'[s[1]][s[2]] = LineAt(s) /\ s # t
  <2>1. s[1] \in DOMAIN files /\ s[2] \in DOMAIN files[s[1]]
    BY InPlaces
  <2> HIDE DEF n, m
  <2>2. QED
    BY <1>4, <1>5, <1>7, <2>1 DEF LineAt
<1>11. files'[t[1]][t[2]] = line
  BY <1>5
<1>12. ASSUME NEW s \in Places PROVE Precedes(s, t)
  <2>1. s[1] \in DOMAIN files /\ s[2] \in DOMAIN files[s[1]] /\ t[1] = n /\ t[2] = m
    BY InPlaces
  <2> HIDE DEF n, m, t
  <2>2. QED
    BY <1>1, <1>2, <2>1 DEF Precedes
<1>13. t[1] = Len(files)
  OBVIOUS
<1>14. QED
  <2> HIDE DEF n, m, t
  <2>1. QED
    BY <1>6, <1>7, <1>9, <1>10, <1>11, <1>12, <1>13

(* A new file has no place yet.                                              *)
LEMMA OneMoreFile ==
  ASSUME JvmPart, files' = Append(files, <<>>)
  PROVE  /\ files' \in Seq(Seq(GcLine)) /\ files' # <<>> /\ Places' = Places
         /\ \A s \in Places : files'[s[1]][s[2]] = LineAt(s)
<1> DEFINE n == Len(files)
<1>1. files \in Seq(Seq(GcLine)) /\ n \in Nat /\ DOMAIN files = 1..n
  BY DEF JvmPart
<1>2. /\ DOMAIN files' = DOMAIN files \cup {n + 1} /\ files'[n + 1] = <<>> /\ n + 1 \notin DOMAIN files
      /\ \A f \in DOMAIN files : files'[f] = files[f]
  BY <1>1
<1>3. files' \in Seq(Seq(GcLine)) /\ files' # <<>>
  BY <1>1
<1>4. \A f, i : <<f, i>> \in Places' <=> f \in DOMAIN files' /\ i \in DOMAIN files'[f]
  BY DEF Places
<1>5. DOMAIN files'[n + 1] = {}
  BY <1>2
<1>6. Places' = Places
  <2>1. \A f, i : <<f, i>> \in Places' <=> <<f, i>> \in Places
    <3> HIDE DEF n
    <3>1. QED
      BY <1>2, <1>4, <1>5, InPlaces
  <2>2. \A s \in Places' : s = <<s[1], s[2]>>
    BY DEF Places
  <2>3. \A s \in Places : s = <<s[1], s[2]>>
    BY InPlaces
  <2>4. QED
    BY <2>1, <2>2, <2>3
<1>7. ASSUME NEW s \in Places PROVE files'[s[1]][s[2]] = LineAt(s)
  <2>1. s[1] \in DOMAIN files
    BY InPlaces
  <2>2. QED
    BY <1>2, <2>1 DEF LineAt
<1>8. QED
  BY <1>3, <1>6, <1>7

LEMMA LogInit == G!Init => GcInv
<1>1. SUFFICES ASSUME G!Init PROVE GcInv
  OBVIOUS
<1> DEFINE first == G!Line("using", G!NoPause, 0)
<1>2. /\ collector \in DOMAIN G!Kinds /\ up = 0 /\ used = 0 /\ total = 0 /\ freed = 0 /\ nextId = 1 /\ cycle = 0
      /\ open = G!NoPause /\ paused = <<>> /\ stalls = 0 /\ files = << <<first>> >>
  BY <1>1 DEF G!Init, G!None
<1>3. first \in GcLine /\ first.type = "using" /\ first.pause = G!NoPause /\ first.up = 0
  BY <1>2, NoPauseTyped DEF G!Line, GcLine
<1>4. JvmPart
  <2>1. MaxUp[collector] \in Nat
    BY <1>2, UptimeAssumption
  <2>2. files \in Seq(Seq(GcLine)) /\ files # <<>>
    <3> HIDE DEF first
    <3>1. QED
      BY <1>2, <1>3
  <2>3. QED
    BY <1>2, <2>1, <2>2, NoPauseTyped DEF JvmPart
<1>5. \A t \in Places : LineAt(t) = first
  <2>1. ASSUME NEW t \in Places PROVE LineAt(t) = first
    <3>1. t[1] \in DOMAIN files /\ t[2] \in DOMAIN files[t[1]]
      BY InPlaces
    <3> HIDE DEF first
    <3>2. t[1] = 1 /\ files[1] = <<first>>
      BY <1>2, <3>1
    <3>3. t[2] = 1
      BY <3>1, <3>2
    <3>4. QED
      BY <3>2, <3>3 DEF LineAt
  <2>2. QED
    BY <2>1
<1>6. G!Started = {G!NoPause}
  BY <1>2 DEF G!Started
<1>7. PrintPart
  <2>1. 0 <= MaxUp[collector]
    BY <1>2, UptimeAssumption
  <2> HIDE DEF first
  <2>2. QED
    BY <1>3, <1>5, <1>6, <2>1, NoPauseTyped DEF PrintPart
<1>8. OwnPart
  BY <1>6, NoPauseTyped DEF OwnPart
<1>9. StallPart
  <2>1. StallKeys = {}
    <3> HIDE DEF first
    <3>1. QED
      BY <1>3, <1>5 DEF StallKeys
  <2>2. QED
    BY <1>2, <2>1, FS_EmptySet DEF StallPart
<1>10. QED
  BY <1>4, <1>7, <1>8, <1>9 DEF GcInv

LEMMA StartedTyped == ASSUME JvmPart PROVE \A p \in G!Started : p \in GcPause /\ p.id \in Nat
<1>1. open \in GcPause /\ \A i \in DOMAIN paused : paused[i] \in [line : GcLine, file : Nat]
  <2> DEFINE ended == [line : GcLine, file : Nat]
  <2>1. open \in GcPause /\ paused \in Seq(ended)
    BY DEF JvmPart
  <2>2. \A i \in DOMAIN paused : paused[i] \in ended
    <3> HIDE DEF ended
    <3>1. QED
      BY <2>1
  <2>3. QED
    BY <2>1, <2>2
<1>2. \A i \in DOMAIN paused : paused[i].line.pause \in GcPause
  BY <1>1 DEF GcLine
<1>3. QED
  <2>1. \A p \in G!Started : p \in GcPause
    BY <1>1, <1>2 DEF G!Started
  <2>2. QED
    BY <2>1 DEF GcPause

(* What the JVM does beside printing. *)
LEMMA QuietLog ==
  ASSUME GcInv, G!Tick \/ G!Allocate \/ G!FreeConcurrently \/ G!StartCycle \/ G!EndCycle PROVE GcInv'
<1>1. JvmPart /\ PrintPart /\ OwnPart /\ StallPart
  BY DEF GcInv
<1>2. UNCHANGED <<collector, open, paused, stalls, files>>
  BY DEF G!Tick, G!Allocate, G!FreeConcurrently, G!StartCycle, G!EndCycle, G!log, G!heap
<1>3. /\ up \in Nat /\ used \in Nat /\ total \in Nat /\ freed \in Nat /\ nextId \in Nat \ {0} /\ cycle \in Nat
      /\ MaxUp[collector] \in Nat /\ up <= MaxUp[collector]
  BY <1>1, UptimeAssumption DEF JvmPart
<1>4. /\ up' \in Nat /\ up <= up' /\ up' <= MaxUp[collector] /\ used' \in Nat /\ total' \in Nat /\ freed' \in Nat
      /\ nextId' \in Nat \ {0} /\ nextId <= nextId' /\ cycle' \in Nat
  <2>1. CASE G!Tick
    BY <1>3, <2>1 DEF G!Tick, G!heap
  <2>2. CASE G!Allocate
    BY <1>3, <2>2 DEF G!Allocate
  <2>3. CASE G!FreeConcurrently
    BY <1>3, <2>3 DEF G!FreeConcurrently
  <2>4. CASE G!StartCycle
    BY <1>3, <2>4 DEF G!StartCycle, G!heap
  <2>5. CASE G!EndCycle
    BY <1>3, <2>5 DEF G!EndCycle, G!heap, G!None
  <2>6. QED
    BY <2>1, <2>2, <2>3, <2>4, <2>5
<1>5. JvmPart'
  <2>1. open'.began <= up'
    <3>1. open.began \in Nat /\ open.began <= up
      BY <1>1 DEF JvmPart, GcPause
    <3>2. QED
      BY <1>2, <1>3, <1>4, <3>1
  <2>2. QED
    BY <1>1, <1>2, <1>4, <2>1 DEF JvmPart
<1>6. G!Started' = G!Started /\ Places' = Places /\ StallKeys' = StallKeys /\ \A t \in Places : LineAt(t)' = LineAt(t)
  BY <1>2 DEF G!Started, Places, StallKeys, LineAt
<1>7. PrintPart' /\ StallPart'
  BY <1>1, <1>2, <1>6 DEF PrintPart, StallPart
<1>8. OwnPart'
  <2>1. ASSUME NEW p \in G!Started, p.kind.name = "Full" PROVE p.id < nextId'
    <3>1. p.id \in Nat
      BY <1>1, <2>1, StartedTyped
    <3>2. p.id \in Nat /\ p.id < nextId
      BY <1>1, <2>1, <3>1 DEF OwnPart
    <3>3. QED
      BY <1>3, <1>4, <3>2
  <2>2. QED
    BY <1>1, <1>6, <2>1 DEF OwnPart
<1>9. QED
  BY <1>5, <1>7, <1>8 DEF GcInv

(* A line of a pause adds no stall; a line of a stall adds one.              *)
LEMMA KeysOfLine ==
  ASSUME JvmPart, StallPart, NEW line \in GcLine, files' = G!PrintTo(files, line),
         stalls' = IF line.type = "stall" THEN stalls + 1 ELSE stalls
  PROVE  StallPart'
<1>1. PICK t : /\ t \notin Places /\ Places' = Places \cup {t} /\ files'[t[1]][t[2]] = line /\ t[1] = Len(files)
               /\ \A s \in Places : files'[s[1]][s[2]] = LineAt(s) /\ s # t /\ Precedes(s, t)
  BY OneMoreLine
<1>2. \A s \in Places : LineAt(s)' = LineAt(s)
  BY <1>1 DEF LineAt
<1>3. LineAt(t)' = line
  BY <1>1 DEF LineAt
<1> DEFINE key == <<t[1], <<"line", t[2]>> >>
<1>4. StallKeys' = IF line.type = "stall" THEN StallKeys \cup {key} ELSE StallKeys
  BY <1>1, <1>2, <1>3 DEF StallKeys
<1>5. key \notin StallKeys
  <2>1. SUFFICES ASSUME NEW s \in Places, key = <<s[1], <<"line", s[2]>> >> PROVE FALSE
    BY DEF StallKeys
  <2>2. t[1] = s[1] /\ t[2] = s[2]
    BY <2>1
  <2>3. <<t[1], t[2]>> = t
    <3>1. t \in Places'
      BY <1>1
    <3>2. QED
      BY <3>1 DEF Places
  <2>4. s = <<s[1], s[2]>>
    BY InPlaces
  <2>5. s = t
    BY <2>2, <2>3, <2>4
  <2>6. QED
    BY <1>1, <2>5
<1>6. IsFiniteSet(StallKeys) /\ Cardinality(StallKeys) = stalls
  BY DEF StallPart
<1> HIDE DEF key
<1>7. CASE line.type = "stall"
  <2>1. IsFiniteSet(StallKeys \cup {key}) /\ Cardinality(StallKeys \cup {key}) = Cardinality(StallKeys) + 1
    BY <1>5, <1>6, FS_AddElement
  <2>2. QED
    BY <1>4, <1>6, <1>7, <2>1 DEF StallPart
<1>8. CASE line.type # "stall"
  BY <1>4, <1>6, <1>8 DEF StallPart
<1>9. QED
  BY <1>7, <1>8

(* What was printed stays printed; a line more must be of what has started.  *)
LEMMA LineOfStarted ==
  ASSUME JvmPart, PrintPart, NEW line \in GcLine, files' = G!PrintTo(files, line), UNCHANGED collector,
         line.up = up, line.type \in {"using", "stall"} => line.pause = G!NoPause,
         line.type \in {"start", "end"} => line.pause \in G!Started' \ {G!NoPause},
         G!Started \ {G!NoPause} \subseteq G!Started',
         \A p \in G!Started' : p \in G!Started \cup {G!NoPause} \/ p = line.pause
  PROVE  PrintPart'
<1>1. PICK t : /\ t \notin Places /\ Places' = Places \cup {t} /\ files'[t[1]][t[2]] = line /\ t[1] = Len(files)
               /\ \A s \in Places : files'[s[1]][s[2]] = LineAt(s) /\ s # t /\ Precedes(s, t)
  BY OneMoreLine
<1>2. \A s \in Places : LineAt(s)' = LineAt(s)
  BY <1>1 DEF LineAt
<1>3. LineAt(t)' = line
  BY <1>1 DEF LineAt
<1>4. up <= MaxUp[collector]
  BY DEF JvmPart
<1>5. ASSUME NEW p \in G!Started', p.kind.name = "Full" PROVE \E s \in Places' : LineAt(s)'.pause = p
  <2>1. CASE p = line.pause
    BY <1>1, <1>3, <2>1
  <2>2. CASE p \in G!Started
    <3>1. PICK s \in Places : LineAt(s).pause = p
      BY <1>5, <2>2 DEF PrintPart
    <3>2. s \in Places' /\ LineAt(s)'.pause = p
      BY <1>1, <1>2, <3>1
    <3>3. QED
      BY <3>2
  <2>3. QED
    BY <1>5, <2>1, <2>2, NoPauseTyped
<1>6. QED
  BY <1>1, <1>2, <1>3, <1>4, <1>5 DEF PrintPart

LEMMA StartLog == ASSUME GcInv, G!StartPause PROVE GcInv'
<1>1. JvmPart /\ PrintPart /\ OwnPart /\ StallPart
  BY DEF GcInv
<1>2. /\ open = G!NoPause /\ UNCHANGED <<collector, up, used, total, freed, cycle, paused, stalls>>
      /\ collector \in DOMAIN G!Kinds /\ up \in Nat /\ used \in Nat /\ nextId \in Nat \ {0} /\ cycle \in Nat
      /\ Len(paused) \in Nat
  BY <1>1 DEF G!StartPause, G!heap, JvmPart
<1>3. PICK k \in G!Kinds[collector] :
        LET id == IF k.own = 1 THEN nextId ELSE cycle
            p == [kind |-> k, id |-> id, n |-> Len(paused) + 1, began |-> up, before |-> used]
        IN  /\ open' = p /\ nextId' = nextId + k.own
            /\ files' = IF k.sized = 1 THEN G!PrintTo(files, G!Line("start", p, 0)) ELSE files
  BY DEF G!StartPause
<1> DEFINE id == IF k.own = 1 THEN nextId ELSE cycle
           p == [kind |-> k, id |-> id, n |-> Len(paused) + 1, began |-> up, before |-> used]
           line == G!Line("start", p, 0)
<1>4. k \in GcKind /\ (k.name = "Full" => k.own = 1 /\ k.sized = 1) /\ k.own \in {0, 1}
  <2>1. k \in GcKind /\ (k.name = "Full" => k.own = 1 /\ k.sized = 1)
    BY <1>2, KindsTyped
  <2>2. QED
    BY <2>1 DEF GcKind
<1>5. p \in GcPause /\ p.began = up /\ p.kind = k /\ p.id = id /\ p # G!NoPause
  <2>1. id \in Nat
    BY <1>2
  <2>2. p.n = Len(paused) + 1
    OBVIOUS
  <2>3. p.n # 0
    BY <1>2, <2>2
  <2> HIDE DEF id
  <2>4. p \in GcPause
    BY <1>2, <1>4, <2>1 DEF GcPause
  <2>5. QED
    BY <2>3, <2>4, NoPauseTyped
<1>6. open' = p /\ nextId' = nextId + k.own /\ files' = IF k.sized = 1 THEN G!PrintTo(files, line) ELSE files
  BY <1>3
<1> HIDE DEF p
<1>7. line \in GcLine /\ line.type = "start" /\ line.pause = p /\ line.up = up
  BY <1>1, <1>2, <1>5, LineTyped
<1> HIDE DEF line
<1>8. nextId' \in Nat \ {0} /\ nextId <= nextId'
  BY <1>2, <1>4, <1>6
<1>9. JvmPart'
  <2>1. files' \in Seq(Seq(GcLine)) /\ files' # <<>>
    BY <1>1, <1>6, <1>7, OneMoreLine DEF JvmPart
  <2>2. QED
    BY <1>1, <1>2, <1>5, <1>6, <1>8, <2>1 DEF JvmPart
<1>10. /\ G!Started' \subseteq G!Started \cup {p} /\ p \in G!Started'
       /\ G!Started \ {G!NoPause} \subseteq G!Started'
  BY <1>2, <1>6 DEF G!Started
<1>11. k.name = "Full" => p.id = nextId /\ nextId' = nextId + 1 /\ p.kind.own = 1 /\ p.kind.sized = 1
  BY <1>4, <1>5, <1>6
<1>12. OwnPart'
  <2>1. \A q \in G!Started : q.id \in Nat
    BY <1>1, StartedTyped
  <2>2. ASSUME NEW q \in G!Started, q.kind.name = "Full" PROVE q.id < nextId' /\ (k.name = "Full" => q.id # p.id)
    <3>1. q.id < nextId /\ q.id \in Nat
      BY <1>1, <2>1, <2>2 DEF OwnPart
    <3>2. QED
      BY <1>2, <1>8, <1>11, <3>1
  <2>3. k.name = "Full" => p.id < nextId'
    BY <1>2, <1>11
  <2>4. QED
    BY <1>1, <1>5, <1>10, <1>11, <2>2, <2>3 DEF OwnPart
<1>13. CASE k.sized = 1
  <2>1. files' = G!PrintTo(files, line)
    BY <1>6, <1>13
  <2>2. StallPart'
    BY <1>1, <1>2, <1>7, <2>1, KeysOfLine
  <2>3. PrintPart'
    <3>1. \A q \in G!Started' : q \in G!Started \cup {G!NoPause} \/ q = line.pause
      BY <1>7, <1>10
    <3>2. line.pause \in G!Started' \ {G!NoPause}
      BY <1>5, <1>7, <1>10
    <3>3. QED
      BY <1>1, <1>2, <1>7, <1>10, <2>1, <3>1, <3>2, LineOfStarted
  <2>4. QED
    BY <1>9, <1>12, <2>2, <2>3 DEF GcInv
<1>14. CASE k.sized # 1
  <2>1. files' = files
    BY <1>6, <1>14
  <2>2. Places' = Places /\ StallKeys' = StallKeys /\ \A t \in Places : LineAt(t)' = LineAt(t)
    BY <2>1 DEF Places, StallKeys, LineAt
  <2>3. StallPart'
    BY <1>1, <1>2, <2>2 DEF StallPart
  <2>4. \A t \in Places : LineAt(t).type \in {"start", "end"} => LineAt(t).pause \in G!Started' \ {G!NoPause}
    BY <1>1, <1>10 DEF PrintPart
  <2>5. p.kind.name # "Full"
    BY <1>4, <1>5, <1>14
  <2>6. \A q \in G!Started' : q.kind.name = "Full" => \E t \in Places : LineAt(t).pause = q
    BY <1>1, <1>10, <2>5 DEF PrintPart
  <2>7. PrintPart'
    BY <1>1, <1>2, <2>2, <2>4, <2>6 DEF PrintPart
  <2>8. QED
    BY <1>9, <1>12, <2>3, <2>7 DEF GcInv
<1>15. QED
  BY <1>13, <1>14

LEMMA EndLog == ASSUME GcInv, G!EndPause PROVE GcInv'
<1>1. JvmPart /\ PrintPart /\ OwnPart /\ StallPart
  BY DEF GcInv
<1>2. /\ open # G!NoPause /\ open' = G!NoPause /\ UNCHANGED <<collector, up, total, freed, nextId, cycle, stalls>>
      /\ used \in Nat /\ open \in GcPause /\ open.began <= up /\ paused \in Seq([line : GcLine, file : Nat])
      /\ Len(files) \in Nat
  BY <1>1 DEF G!EndPause, JvmPart
<1>3. PICK after \in (IF open.kind.sized = 1 THEN 0..used ELSE {used}) :
        /\ used' = after /\ files' = G!PrintTo(files, G!Line("end", open, after))
        /\ paused' = Append(paused, [line |-> G!Line("end", open, after), file |-> Len(files)])
  BY DEF G!EndPause
<1>4. after \in Nat
  BY <1>2, <1>3
<1> DEFINE line == G!Line("end", open, after)
<1>5. line \in GcLine /\ line.type = "end" /\ line.pause = open /\ line.up = up
  BY <1>1, <1>2, <1>4, LineTyped
<1>6. used' = after /\ files' = G!PrintTo(files, line) /\ paused' = Append(paused, [line |-> line, file |-> Len(files)])
  BY <1>3
<1> HIDE DEF line
<1>7. /\ paused' \in Seq([line : GcLine, file : Nat])
      /\ DOMAIN paused' = DOMAIN paused \cup {Len(paused) + 1} /\ paused'[Len(paused) + 1].line = line
      /\ \A i \in DOMAIN paused : paused'[i] = paused[i]
  <2> DEFINE one == [line |-> line, file |-> Len(files)]
  <2>1. one \in [line : GcLine, file : Nat] /\ one.line = line
    BY <1>2, <1>5
  <2>2. paused' = Append(paused, one)
    BY <1>6
  <2> HIDE DEF one
  <2>3. QED
    BY <1>2, <2>1, <2>2
<1>8. G!Started' = G!Started \cup {G!NoPause}
  <2>1. G!Started' = {G!NoPause} \cup {paused'[i].line.pause : i \in DOMAIN paused'}
    BY <1>2 DEF G!Started
  <2>2. {paused'[i].line.pause : i \in DOMAIN paused'} = {paused[i].line.pause : i \in DOMAIN paused} \cup {open}
    BY <1>5, <1>7
  <2>3. QED
    BY <2>1, <2>2 DEF G!Started
<1>9. JvmPart'
  <2>1. files' \in Seq(Seq(GcLine)) /\ files' # <<>>
    BY <1>1, <1>5, <1>6, OneMoreLine
  <2>2. open' \in GcPause /\ open'.began <= up
    <3>1. up \in Nat /\ open'.began = 0
      BY <1>1, <1>2, NoPauseTyped DEF JvmPart
    <3>2. QED
      BY <1>2, <3>1, NoPauseTyped
  <2>3. QED
    BY <1>1, <1>2, <1>4, <1>6, <1>7, <2>1, <2>2 DEF JvmPart
<1>10. OwnPart'
  BY <1>1, <1>2, <1>8, NoPauseTyped DEF OwnPart
<1>11. StallPart'
  BY <1>1, <1>2, <1>5, <1>6, KeysOfLine
<1>12. PrintPart'
  <2>1. line.pause \in G!Started' \ {G!NoPause}
    BY <1>2, <1>5, <1>8 DEF G!Started
  <2>2. QED
    BY <1>1, <1>2, <1>5, <1>6, <1>8, <2>1, LineOfStarted
<1>13. QED
  BY <1>9, <1>10, <1>11, <1>12 DEF GcInv

LEMMA StallLog == ASSUME GcInv, G!Stall PROVE GcInv'
<1>1. JvmPart /\ PrintPart /\ OwnPart /\ StallPart
  BY DEF GcInv
<1> DEFINE line == G!Line("stall", G!NoPause, 0)
<1>2. /\ stalls' = stalls + 1 /\ files' = G!PrintTo(files, line)
      /\ UNCHANGED <<collector, up, used, total, freed, nextId, cycle, open, paused>>
  BY DEF G!Stall, G!heap
<1>3. line \in GcLine /\ line.type = "stall" /\ line.pause = G!NoPause /\ line.up = up
  <2>1. G!NoPause.began <= up
    BY <1>1, NoPauseTyped DEF JvmPart
  <2>2. QED
    BY <1>1, <2>1, LineTyped, NoPauseTyped
<1> HIDE DEF line
<1>4. G!Started' = G!Started
  BY <1>2 DEF G!Started
<1>5. JvmPart'
  <2>1. files' \in Seq(Seq(GcLine)) /\ files' # <<>>
    BY <1>1, <1>2, <1>3, OneMoreLine
  <2>2. stalls' \in Nat
    BY <1>1, <1>2 DEF JvmPart
  <2>3. QED
    BY <1>1, <1>2, <2>1, <2>2 DEF JvmPart
<1>6. OwnPart'
  BY <1>1, <1>2, <1>4 DEF OwnPart
<1>7. StallPart'
  BY <1>1, <1>2, <1>3, KeysOfLine
<1>8. PrintPart'
  BY <1>1, <1>2, <1>3, <1>4, LineOfStarted
<1>9. QED
  BY <1>5, <1>6, <1>7, <1>8 DEF GcInv

LEMMA RotateLog == ASSUME GcInv, G!Rotate PROVE GcInv'
<1>1. JvmPart /\ PrintPart /\ OwnPart /\ StallPart
  BY DEF GcInv
<1>2. /\ files' = Append(files, <<>>)
      /\ UNCHANGED <<collector, up, used, total, freed, nextId, cycle, open, paused, stalls>>
  BY DEF G!Rotate, G!heap
<1>3. /\ files' \in Seq(Seq(GcLine)) /\ files' # <<>> /\ Places' = Places
      /\ \A s \in Places : LineAt(s)' = LineAt(s)
  BY <1>1, <1>2, OneMoreFile DEF LineAt
<1>4. G!Started' = G!Started
  BY <1>2 DEF G!Started
<1>5. JvmPart'
  BY <1>1, <1>2, <1>3 DEF JvmPart
<1>6. StallKeys' = StallKeys
  BY <1>3 DEF StallKeys
<1>7. PrintPart' /\ OwnPart' /\ StallPart'
  BY <1>1, <1>2, <1>3, <1>4, <1>6 DEF PrintPart, OwnPart, StallPart
<1>8. QED
  BY <1>5, <1>7 DEF GcInv

LEMMA LogStep == ASSUME GcInv, [G!Next]_G!vars PROVE GcInv'
<1>1. CASE UNCHANGED G!vars
  BY <1>1 DEF G!vars, G!heap, G!log, GcInv, JvmPart, PrintPart, OwnPart, StallPart, StallKeys, Places, LineAt, G!Started
<1>2. CASE G!Next
  BY <1>2, QuietLog, StartLog, EndLog, StallLog, RotateLog DEF G!Next
<1>3. QED
  BY <1>1, <1>2

(* The pauses of the log.  EndLinePart: each pause that has ended has one line   *)
(* that says so, in the order of the pauses and in the file it was told in.  *)
(* IdPart: two pauses of one kind and id are of a kind that may repeat.      *)
(* TimePart: the pauses follow one another and fill the time they take;      *)
(* the log begins at 0.  HeapPart: what was allocated between two pauses is  *)
(* at least what the heap has grown by, and just that when nothing was freed *)
(* and no pause with sizes lies between them.                                *)

EndPlaces == {t \in Places : LineAt(t).type = "end"}

EndLinePart ==
  /\ \A i \in DOMAIN paused : paused[i].line.type = "end" /\ paused[i].line.pause.n = i
  /\ open # G!NoPause => open.n = Len(paused) + 1
  /\ \A t \in EndPlaces : \E i \in DOMAIN paused : LineAt(t) = paused[i].line /\ t[1] = paused[i].file
  /\ \A i \in DOMAIN paused : \E t \in EndPlaces : LineAt(t) = paused[i].line /\ t[1] = paused[i].file
  /\ \A t, s \in EndPlaces : LineAt(t).pause.n < LineAt(s).pause.n => Precedes(t, s)
  /\ \A t, s \in EndPlaces : LineAt(t).pause.n = LineAt(s).pause.n => t = s

IdPart ==
  /\ cycle < nextId
  /\ \A p \in G!Started \ {G!NoPause} : p.kind \in G!Kinds[collector] /\ p.id < nextId
  /\ \A p, q \in G!Started \ {G!NoPause} : p # q /\ p.id = q.id /\ p.kind = q.kind => p.kind.again = 1

TimePart ==
  /\ \E t \in Places : LineAt(t).up = 0
  /\ \A i \in DOMAIN paused :
       /\ paused[i].line.pause.began + paused[i].line.ms = paused[i].line.up
       /\ paused[i].line.up <= up /\ (open # G!NoPause => paused[i].line.up <= open.began)
  /\ \A i, j \in DOMAIN paused : i < j => paused[i].line.up <= paused[j].line.pause.began

Unsized(i, j) == \A k \in DOMAIN paused : i < k /\ k < j => paused[k].line.pause.kind.sized = 0

(* What is told at the end of a pause bounds the growth of the heap since.   *)
GrewAtMost(l, heap, allocated, back) ==
  l.total <= allocated /\ l.freed <= back /\ heap - l.after <= allocated - l.total
GrewBy(l, heap, allocated, back) == heap - l.after = (allocated - l.total) - (back - l.freed)

HeapPart ==
  /\ open # G!NoPause => open.before = used
  /\ \A i \in DOMAIN paused :
       /\ GrewAtMost(paused[i].line, used, total, freed)
       /\ Unsized(i, Len(paused) + 1) => GrewBy(paused[i].line, used, total, freed)
  /\ \A i, j \in DOMAIN paused :
       LET m == paused[j].line
       IN  i < j => /\ GrewAtMost(paused[i].line, m.pause.before, m.total, m.freed)
                    /\ Unsized(i, j) => GrewBy(paused[i].line, m.pause.before, m.total, m.freed)

PauseInv == EndLinePart /\ IdPart /\ TimePart /\ HeapPart

LEMMA EndedTyped ==
  ASSUME JvmPart
  PROVE  /\ Len(paused) \in Nat /\ DOMAIN paused = 1..Len(paused)
         /\ \A i \in DOMAIN paused :
              /\ paused[i].line \in GcLine /\ paused[i].file \in Nat
              /\ paused[i].line.pause \in GcPause /\ paused[i].line.pause \in G!Started
              /\ paused[i].line.ms \in Nat /\ paused[i].line.up \in Nat /\ paused[i].line.after \in Nat
              /\ paused[i].line.total \in Nat /\ paused[i].line.freed \in Nat
              /\ paused[i].line.pause.began \in Nat /\ paused[i].line.pause.before \in Nat
              /\ paused[i].line.pause.n \in Nat /\ paused[i].line.pause.id \in Nat
<1> DEFINE ended == [line : GcLine, file : Nat]
<1>1. paused \in Seq(ended)
  BY DEF JvmPart
<1>2. Len(paused) \in Nat /\ DOMAIN paused = 1..Len(paused) /\ \A i \in DOMAIN paused : paused[i] \in ended
  <2> HIDE DEF ended
  <2>1. QED
    BY <1>1
<1>3. ASSUME NEW i \in DOMAIN paused
      PROVE  /\ paused[i].line \in GcLine /\ paused[i].file \in Nat /\ paused[i].line.pause \in G!Started
  BY <1>2 DEF G!Started
<1>4. ASSUME NEW l \in GcLine
      PROVE  /\ l.pause \in GcPause
             /\ l.ms \in Nat /\ l.up \in Nat /\ l.after \in Nat /\ l.total \in Nat /\ l.freed \in Nat
             /\ l.pause.began \in Nat /\ l.pause.before \in Nat /\ l.pause.n \in Nat /\ l.pause.id \in Nat
  <2>1. l.pause \in GcPause
    BY DEF GcLine
  <2>2. l.pause.began \in Nat /\ l.pause.before \in Nat /\ l.pause.n \in Nat /\ l.pause.id \in Nat
    BY <2>1 DEF GcPause
  <2>3. QED
    BY <2>1, <2>2 DEF GcLine
<1>5. QED
  BY <1>2, <1>3, <1>4

LEMMA PausesInit == G!Init => PauseInv
<1>1. SUFFICES ASSUME G!Init PROVE PauseInv
  OBVIOUS
<1> DEFINE first == G!Line("using", G!NoPause, 0)
<1>2. /\ up = 0 /\ nextId = 1 /\ cycle = 0 /\ open = G!NoPause /\ paused = <<>> /\ files = << <<first>> >>
  BY <1>1 DEF G!Init, G!None
<1>3. first.type = "using" /\ first.up = 0
  BY <1>2 DEF G!Line
<1> HIDE DEF first
<1>4. \A t \in Places : t[1] = 1 /\ t[2] = 1 /\ LineAt(t) = first
  <2>1. ASSUME NEW t \in Places PROVE t[1] = 1 /\ t[2] = 1 /\ LineAt(t) = first
    <3>1. t[1] \in DOMAIN files /\ t[2] \in DOMAIN files[t[1]]
      BY InPlaces
    <3>2. t[1] = 1 /\ files[1] = <<first>>
      BY <1>2, <3>1
    <3>3. t[2] = 1
      BY <3>1, <3>2
    <3>4. QED
      BY <3>2, <3>3 DEF LineAt
  <2>2. QED
    BY <2>1
<1>5. <<1, 1>> \in Places
  <2>1. 1 \in DOMAIN files /\ files[1] = <<first>>
    BY <1>2
  <2>2. 1 \in DOMAIN files[1]
    BY <2>1
  <2>3. QED
    BY <2>1, <2>2, InPlaces
<1>6. EndPlaces = {} /\ DOMAIN paused = {}
  BY <1>2, <1>3, <1>4 DEF EndPlaces
<1>7. G!Started = {G!NoPause}
  BY <1>2 DEF G!Started
<1>8. EndLinePart
  BY <1>2, <1>6 DEF EndLinePart
<1>9. IdPart
  BY <1>2, <1>7 DEF IdPart
<1>10. TimePart
  BY <1>3, <1>4, <1>5, <1>6 DEF TimePart
<1>11. HeapPart
  BY <1>2, <1>6 DEF HeapPart
<1>12. QED
  BY <1>8, <1>9, <1>10, <1>11 DEF PauseInv

(* Only the end of a pause adds a line that ends one.                        *)
LEMMA EndsKept ==
  ASSUME GcInv, G!Next, ~G!EndPause
  PROVE  /\ UNCHANGED <<collector, paused>> /\ Places \subseteq Places' /\ \A t \in Places : LineAt(t)' = LineAt(t)
         /\ EndPlaces' = EndPlaces
<1>1. JvmPart
  BY DEF GcInv
<1>2. UNCHANGED <<collector, paused>>
  BY DEF G!Next, G!Tick, G!Allocate, G!FreeConcurrently, G!StartCycle, G!StartPause, G!EndCycle, G!Stall, G!Rotate,
         G!log, G!heap
<1>3. CASE files' = files
  <2>1. Places' = Places /\ \A t : LineAt(t)' = LineAt(t)
    BY <1>3 DEF Places, LineAt
  <2>2. QED
    BY <1>2, <2>1 DEF EndPlaces
<1>4. CASE G!Rotate
  <2>1. files' = Append(files, <<>>)
    BY <1>4 DEF G!Rotate
  <2>2. Places' = Places /\ \A s \in Places : files'[s[1]][s[2]] = LineAt(s)
    BY <1>1, <2>1, OneMoreFile
  <2>3. \A s \in Places : LineAt(s)' = LineAt(s)
    BY <2>2 DEF LineAt
  <2>4. QED
    BY <1>2, <2>2, <2>3 DEF EndPlaces
<1>5. ASSUME NEW line \in GcLine, line.type # "end", files' = G!PrintTo(files, line)
      PROVE  Places \subseteq Places' /\ (\A t \in Places : LineAt(t)' = LineAt(t)) /\ EndPlaces' = EndPlaces
  <2>1. PICK t : /\ t \notin Places /\ Places' = Places \cup {t} /\ files'[t[1]][t[2]] = line /\ t[1] = Len(files)
                 /\ \A s \in Places : files'[s[1]][s[2]] = LineAt(s) /\ s # t /\ Precedes(s, t)
    BY <1>1, <1>5, OneMoreLine
  <2>2. \A s \in Places : LineAt(s)' = LineAt(s)
    BY <2>1 DEF LineAt
  <2>3. LineAt(t)' = line
    BY <2>1 DEF LineAt
  <2>4. QED
    BY <1>5, <2>1, <2>2, <2>3 DEF EndPlaces
<1>6. CASE G!Stall
  <2>1. G!NoPause.began <= up
    BY <1>1, NoPauseTyped DEF JvmPart
  <2>2. G!Line("stall", G!NoPause, 0) \in GcLine /\ G!Line("stall", G!NoPause, 0).type = "stall"
    BY <1>1, <2>1, LineTyped, NoPauseTyped
  <2>3. QED
    BY <1>2, <1>5, <1>6, <2>2 DEF G!Stall
<1>7. CASE G!StartPause /\ files' # files
  <2>1. PICK k \in G!Kinds[collector] :
          LET id == IF k.own = 1 THEN nextId ELSE cycle
              p == [kind |-> k, id |-> id, n |-> Len(paused) + 1, began |-> up, before |-> used]
          IN  files' = IF k.sized = 1 THEN G!PrintTo(files, G!Line("start", p, 0)) ELSE files
    BY <1>7 DEF G!StartPause
  <2> DEFINE id == IF k.own = 1 THEN nextId ELSE cycle
             p == [kind |-> k, id |-> id, n |-> Len(paused) + 1, began |-> up, before |-> used]
  <2>2. files' = G!PrintTo(files, G!Line("start", p, 0))
    BY <1>7, <2>1
  <2>3. p \in GcPause /\ p.began <= up
    <3>1. id \in Nat /\ Len(paused) + 1 \in Nat /\ up \in Nat /\ used \in Nat
      BY <1>1, EndedTyped DEF JvmPart
    <3>2. k \in GcKind
      BY <1>1, KindsTyped DEF JvmPart
    <3> HIDE DEF id
    <3>3. QED
      BY <3>1, <3>2 DEF GcPause
  <2> HIDE DEF p
  <2>4. G!Line("start", p, 0) \in GcLine /\ G!Line("start", p, 0).type = "start"
    BY <1>1, <2>3, LineTyped
  <2>5. QED
    BY <1>2, <1>5, <2>2, <2>4
<1>8. QED
  <2>1. CASE G!Tick \/ G!Allocate \/ G!FreeConcurrently \/ G!StartCycle \/ G!EndCycle
    BY <1>3, <2>1 DEF G!Tick, G!Allocate, G!FreeConcurrently, G!StartCycle, G!EndCycle, G!log
  <2>2. QED
    BY <1>3, <1>4, <1>6, <1>7, <2>1 DEF G!Next

(* The end of a pause adds its line, after all others.                       *)
LEMMA EndAdded ==
  ASSUME GcInv, G!EndPause
  PROVE  \E line, t :
           /\ line \in GcLine /\ open # G!NoPause /\ open' = G!NoPause /\ UNCHANGED <<collector, up, total, freed, nextId, cycle>>
           /\ line.type = "end" /\ line.pause = open /\ line.up = up /\ line.after = used'
           /\ line.total = total /\ line.freed = freed /\ open.began + line.ms = up
           /\ used' \in Nat /\ used' <= used /\ (open.kind.sized # 1 => used' = used)
           /\ Len(paused') = Len(paused) + 1 /\ DOMAIN paused' = DOMAIN paused \cup {Len(paused) + 1}
           /\ paused'[Len(paused) + 1].line = line /\ paused'[Len(paused) + 1].file = t[1]
           /\ \A i \in DOMAIN paused : paused'[i] = paused[i]
           /\ t \notin Places /\ Places' = Places \cup {t} /\ EndPlaces' = EndPlaces \cup {t}
           /\ LineAt(t)' = line /\ \A s \in Places : LineAt(s)' = LineAt(s) /\ Precedes(s, t)
           /\ G!Started' = G!Started \cup {G!NoPause}
<1>1. JvmPart
  BY DEF GcInv
<1>2. /\ open # G!NoPause /\ open' = G!NoPause /\ UNCHANGED <<collector, up, total, freed, nextId, cycle>>
      /\ used \in Nat /\ total \in Nat /\ freed \in Nat /\ up \in Nat /\ open \in GcPause /\ open.began <= up
      /\ paused \in Seq([line : GcLine, file : Nat]) /\ Len(files) \in Nat
  BY <1>1 DEF G!EndPause, JvmPart
<1>3. PICK after \in (IF open.kind.sized = 1 THEN 0..used ELSE {used}) :
        /\ used' = after /\ files' = G!PrintTo(files, G!Line("end", open, after))
        /\ paused' = Append(paused, [line |-> G!Line("end", open, after), file |-> Len(files)])
  BY DEF G!EndPause
<1>4. after \in Nat /\ after <= used /\ (open.kind.sized # 1 => after = used)
  BY <1>2, <1>3
<1> DEFINE line == G!Line("end", open, after)
<1>5. line \in GcLine /\ line.type = "end" /\ line.pause = open /\ line.up = up
  BY <1>1, <1>2, <1>4, LineTyped
<1>6. line.after = after /\ line.total = total /\ line.freed = freed /\ open.began + line.ms = up
  <2>1. line.ms = up - open.began /\ open.began \in Nat
    BY <1>2 DEF G!Line, GcPause
  <2>2. QED
    BY <1>2, <2>1 DEF G!Line
<1>7. used' = after /\ files' = G!PrintTo(files, line) /\ paused' = Append(paused, [line |-> line, file |-> Len(files)])
  BY <1>3
<1> HIDE DEF line
<1>8. PICK t : /\ t \notin Places /\ Places' = Places \cup {t} /\ files'[t[1]][t[2]] = line /\ t[1] = Len(files)
               /\ \A s \in Places : files'[s[1]][s[2]] = LineAt(s) /\ s # t /\ Precedes(s, t)
  BY <1>1, <1>5, <1>7, OneMoreLine
<1>9. LineAt(t)' = line /\ \A s \in Places : LineAt(s)' = LineAt(s) /\ Precedes(s, t)
  BY <1>8 DEF LineAt
<1>10. EndPlaces' = EndPlaces \cup {t}
  BY <1>5, <1>8, <1>9 DEF EndPlaces
<1>11. /\ Len(paused') = Len(paused) + 1 /\ DOMAIN paused' = DOMAIN paused \cup {Len(paused) + 1}
       /\ paused'[Len(paused) + 1].line = line /\ paused'[Len(paused) + 1].file = t[1]
       /\ \A i \in DOMAIN paused : paused'[i] = paused[i]
  <2> DEFINE one == [line |-> line, file |-> Len(files)]
  <2>1. one \in [line : GcLine, file : Nat] /\ one.line = line /\ one.file = t[1]
    BY <1>2, <1>5, <1>8
  <2>2. paused' = Append(paused, one)
    BY <1>7
  <2> HIDE DEF one
  <2>3. QED
    BY <1>2, <2>1, <2>2
<1>12. G!Started' = G!Started \cup {G!NoPause}
  <2>1. G!Started' = {G!NoPause} \cup {paused'[i].line.pause : i \in DOMAIN paused'}
    BY <1>2 DEF G!Started
  <2>2. {paused'[i].line.pause : i \in DOMAIN paused'} = {paused[i].line.pause : i \in DOMAIN paused} \cup {open}
    BY <1>5, <1>11
  <2>3. QED
    BY <2>1, <2>2 DEF G!Started
<1>13. QED
  BY <1>2, <1>4, <1>5, <1>6, <1>7, <1>8, <1>9, <1>10, <1>11, <1>12

LEMMA EndStep == ASSUME GcInv, PauseInv, G!Next PROVE EndLinePart'
<1>1. JvmPart /\ EndLinePart
  BY DEF GcInv, PauseInv
<1>2. Len(paused) \in Nat /\ DOMAIN paused = 1..Len(paused)
  BY <1>1, EndedTyped
<1>3. CASE G!EndPause
  <2> DEFINE n == Len(paused) + 1
  <2>1. PICK line, t :
          /\ line \in GcLine /\ open # G!NoPause /\ open' = G!NoPause /\ line.type = "end" /\ line.pause = open
          /\ Len(paused') = n /\ DOMAIN paused' = DOMAIN paused \cup {n}
          /\ paused'[n].line = line /\ paused'[n].file = t[1] /\ \A i \in DOMAIN paused : paused'[i] = paused[i]
          /\ t \notin Places /\ Places' = Places \cup {t} /\ EndPlaces' = EndPlaces \cup {t}
          /\ LineAt(t)' = line /\ \A s \in Places : LineAt(s)' = LineAt(s) /\ Precedes(s, t)
    BY <1>3, EndAdded
  <2>2. EndPlaces \subseteq Places
    BY DEF EndPlaces
  <2>3. open.n = n /\ n \notin DOMAIN paused /\ n \in Nat
    BY <1>1, <1>2, <2>1 DEF EndLinePart
  <2>4. \A s \in EndPlaces : LineAt(s).pause.n \in Nat /\ LineAt(s).pause.n < n
    <3>1. \A i \in DOMAIN paused : paused[i].line.pause.n = i /\ i \in Nat /\ i < n
      BY <1>1, <1>2 DEF EndLinePart
    <3>2. QED
      BY <1>1, <3>1 DEF EndLinePart
  <2> HIDE DEF n
  <2>5. \A i \in DOMAIN paused' : paused'[i].line.type = "end" /\ paused'[i].line.pause.n = i
    BY <1>1, <2>1, <2>3 DEF EndLinePart
  <2>6. \A s \in EndPlaces' : \E i \in DOMAIN paused' : LineAt(s)' = paused'[i].line /\ s[1] = paused'[i].file
    BY <1>1, <2>1, <2>2 DEF EndLinePart
  <2>7. \A i \in DOMAIN paused' : \E s \in EndPlaces' : LineAt(s)' = paused'[i].line /\ s[1] = paused'[i].file
    BY <1>1, <2>1, <2>2 DEF EndLinePart
  <2>8. ASSUME NEW r \in EndPlaces', NEW s \in EndPlaces'
        PROVE  /\ LineAt(r)'.pause.n < LineAt(s)'.pause.n => Precedes(r, s)
               /\ LineAt(r)'.pause.n = LineAt(s)'.pause.n => r = s
    <3>1. CASE r = t /\ s = t
      BY <2>1, <2>3, <3>1
    <3>2. CASE r # t /\ s = t
      BY <2>1, <2>2, <2>3, <2>4, <3>2
    <3>3. CASE r = t /\ s # t
      BY <2>1, <2>2, <2>3, <2>4, <3>3
    <3>4. CASE r # t /\ s # t
      <4>1. r \in EndPlaces /\ s \in EndPlaces /\ LineAt(r)' = LineAt(r) /\ LineAt(s)' = LineAt(s)
        BY <2>1, <2>2, <3>4
      <4>2. QED
        BY <1>1, <4>1 DEF EndLinePart
    <3>5. QED
      BY <3>1, <3>2, <3>3, <3>4
  <2>9. \A r, s : Precedes(r, s)' <=> Precedes(r, s)
    BY DEF Precedes
  <2>10. QED
    BY <2>1, <2>5, <2>6, <2>7, <2>8, <2>9 DEF EndLinePart
<1>4. CASE ~G!EndPause
  <2>1. /\ UNCHANGED paused /\ Places \subseteq Places' /\ \A t \in Places : LineAt(t)' = LineAt(t)
        /\ EndPlaces' = EndPlaces
    BY <1>4, EndsKept
  <2>2. \A t \in EndPlaces : LineAt(t)' = LineAt(t)
    BY <2>1 DEF EndPlaces
  <2>3. open' # G!NoPause => open'.n = Len(paused) + 1
    <3>1. CASE G!StartPause
      <4>1. PICK k, id : open' = [kind |-> k, id |-> id, n |-> Len(paused) + 1, began |-> up, before |-> used]
        BY <3>1 DEF G!StartPause
      <4>2. QED
        BY <4>1
    <3>2. CASE UNCHANGED open
      BY <1>1, <3>2 DEF EndLinePart
    <3>3. QED
      BY <1>4, <3>1, <3>2 DEF G!Next, G!Tick, G!Allocate, G!FreeConcurrently, G!StartCycle, G!EndCycle, G!Stall, G!Rotate,
                         G!log, G!heap
  <2>4. \A r, s : Precedes(r, s)' <=> Precedes(r, s)
    BY DEF Precedes
  <2>5. QED
    BY <1>1, <2>1, <2>2, <2>3, <2>4 DEF EndLinePart
<1>5. QED
  BY <1>3, <1>4

LEMMA IdStep == ASSUME GcInv, PauseInv, G!Next PROVE IdPart'
<1>1. JvmPart /\ IdPart
  BY DEF GcInv, PauseInv
<1>2. nextId \in Nat \ {0} /\ cycle \in Nat /\ collector \in DOMAIN G!Kinds /\ \A p \in G!Started : p.id \in Nat
  BY <1>1, StartedTyped DEF JvmPart
<1>3. CASE G!StartPause
  <2>1. open = G!NoPause /\ UNCHANGED <<collector, cycle, paused>>
    BY <1>3 DEF G!StartPause, G!heap
  <2>2. PICK k \in G!Kinds[collector] :
          /\ k.own = 1 \/ (k.own = 0 /\ (k.again = 1 \/ ~G!Told(cycle, k)))
          /\ LET id == IF k.own = 1 THEN nextId ELSE cycle
                 p == [kind |-> k, id |-> id, n |-> Len(paused) + 1, began |-> up, before |-> used]
             IN  open' = p /\ nextId' = nextId + k.own
    BY <1>3 DEF G!StartPause
  <2> DEFINE p == [kind |-> k, id |-> IF k.own = 1 THEN nextId ELSE cycle, n |-> Len(paused) + 1,
                   began |-> up, before |-> used]
  <2>3. open' = p /\ nextId' = nextId + k.own
    BY <2>2
  <2>4. p.kind = k /\ p.id = IF k.own = 1 THEN nextId ELSE cycle
    OBVIOUS
  <2> HIDE DEF p
  <2>5. k.own \in {0, 1}
    BY <2>2
  <2>6. nextId' \in Nat /\ nextId <= nextId' /\ cycle < nextId' /\ p.id < nextId' /\ (k.own = 1 => p.id = nextId)
    BY <1>1, <1>2, <2>3, <2>4, <2>5 DEF IdPart
  <2>7. G!Started' \ {G!NoPause} \subseteq (G!Started \ {G!NoPause}) \cup {p}
    BY <2>1, <2>3 DEF G!Started
  <2>8. ASSUME NEW q \in G!Started \ {G!NoPause} PROVE q.id < nextId' /\ q.id # nextId
    BY <1>1, <1>2, <2>6 DEF IdPart
  <2>9. ASSUME NEW q \in G!Started \ {G!NoPause}, q.id = p.id, q.kind = k PROVE k.again = 1
    <3>1. PICK i \in DOMAIN paused : q = paused[i].line.pause
      BY <2>1, <2>9 DEF G!Started
    <3>2. k.own = 0 /\ q.id = cycle
      BY <2>4, <2>5, <2>6, <2>8, <2>9
    <3>3. G!Told(cycle, k)
      BY <2>9, <3>1, <3>2 DEF G!Told
    <3>4. QED
      BY <2>2, <3>2, <3>3
  <2>10. \A q \in G!Started' \ {G!NoPause} : q.kind \in G!Kinds[collector] /\ q.id < nextId'
    BY <1>1, <2>2, <2>4, <2>6, <2>7, <2>8 DEF IdPart
  <2>11. \A q, r \in G!Started' \ {G!NoPause} : q # r /\ q.id = r.id /\ q.kind = r.kind => q.kind.again = 1
    BY <1>1, <2>4, <2>7, <2>9 DEF IdPart
  <2>12. QED
    BY <2>1, <2>6, <2>10, <2>11 DEF IdPart
<1>4. CASE G!EndPause
  <2>1. UNCHANGED <<collector, cycle, nextId>> /\ G!Started' = G!Started \cup {G!NoPause}
    BY <1>4, EndAdded
  <2>2. G!Started' \ {G!NoPause} = G!Started \ {G!NoPause}
    BY <2>1
  <2>3. QED
    BY <1>1, <2>1, <2>2 DEF IdPart
<1>5. CASE ~G!StartPause /\ ~G!EndPause
  <2>1. UNCHANGED <<collector, open, paused>>
    BY <1>5 DEF G!Next, G!Tick, G!Allocate, G!FreeConcurrently, G!StartCycle, G!EndCycle, G!Stall, G!Rotate, G!log, G!heap
  <2>2. nextId' \in Nat /\ nextId <= nextId' /\ cycle' < nextId'
    <3>1. CASE G!StartCycle
      BY <1>2, <3>1 DEF G!StartCycle
    <3>2. CASE G!EndCycle
      BY <1>2, <3>2 DEF G!EndCycle, G!None
    <3>3. CASE UNCHANGED <<nextId, cycle>>
      BY <1>1, <1>2, <3>3 DEF IdPart
    <3>4. QED
      BY <1>5, <3>1, <3>2, <3>3 DEF G!Next, G!Tick, G!Allocate, G!FreeConcurrently, G!Stall, G!Rotate
  <2>3. G!Started' = G!Started
    BY <2>1 DEF G!Started
  <2>4. \A p \in G!Started \ {G!NoPause} : p.id < nextId'
    BY <1>1, <1>2, <2>2 DEF IdPart
  <2>5. QED
    BY <1>1, <2>1, <2>2, <2>3, <2>4 DEF IdPart
<1>6. QED
  BY <1>3, <1>4, <1>5

LEMMA TimeStep == ASSUME GcInv, PauseInv, G!Next PROVE TimePart'
<1>1. JvmPart /\ TimePart
  BY DEF GcInv, PauseInv
<1>2. /\ up \in Nat /\ Len(paused) \in Nat /\ DOMAIN paused = 1..Len(paused)
      /\ \A i \in DOMAIN paused : /\ paused[i].line.up \in Nat /\ paused[i].line.ms \in Nat
                                  /\ paused[i].line.pause.began \in Nat
  BY <1>1, EndedTyped DEF JvmPart
<1>3. PICK t0 \in Places : LineAt(t0).up = 0
  BY <1>1 DEF TimePart
<1>4. CASE G!EndPause
  <2> DEFINE n == Len(paused) + 1
  <2>1. PICK line, t :
          /\ line \in GcLine /\ open # G!NoPause /\ open' = G!NoPause /\ up' = up /\ line.pause = open /\ line.up = up
          /\ open.began + line.ms = up
          /\ DOMAIN paused' = DOMAIN paused \cup {n} /\ paused'[n].line = line
          /\ \A i \in DOMAIN paused : paused'[i] = paused[i]
          /\ Places' = Places \cup {t} /\ \A s \in Places : LineAt(s)' = LineAt(s)
    BY <1>4, EndAdded
  <2>2. n \notin DOMAIN paused /\ n \in Nat /\ \A i \in DOMAIN paused : i < n /\ ~(n < i)
    BY <1>2
  <2> HIDE DEF n
  <2>3. t0 \in Places' /\ LineAt(t0)'.up = 0
    BY <1>3, <2>1
  <2>4. \A i \in DOMAIN paused' : paused'[i].line.pause.began + paused'[i].line.ms = paused'[i].line.up
                                  /\ paused'[i].line.up <= up'
    BY <1>1, <1>2, <2>1 DEF TimePart
  <2>5. ASSUME NEW i \in DOMAIN paused', NEW j \in DOMAIN paused', i < j
        PROVE  paused'[i].line.up <= paused'[j].line.pause.began
    <3>1. CASE j = n
      <4>1. i \in DOMAIN paused
        BY <2>1, <2>2, <2>5, <3>1, <1>2
      <4>2. QED
        BY <1>1, <2>1, <3>1, <4>1 DEF TimePart
    <3>2. CASE j # n
      <4>1. i \in DOMAIN paused /\ j \in DOMAIN paused
        BY <2>1, <2>2, <2>5, <3>2
      <4>2. QED
        BY <1>1, <2>1, <2>5, <4>1 DEF TimePart
    <3>3. QED
      BY <3>1, <3>2
  <2>6. QED
    BY <2>1, <2>3, <2>4, <2>5 DEF TimePart
<1>5. CASE ~G!EndPause
  <2>1. UNCHANGED paused /\ Places \subseteq Places' /\ \A t \in Places : LineAt(t)' = LineAt(t)
    BY <1>5, EndsKept
  <2>2. t0 \in Places' /\ LineAt(t0)'.up = 0
    BY <1>3, <2>1
  <2>3. up' \in Nat /\ up <= up'
    <3>1. CASE G!Tick
      BY <1>2, <3>1 DEF G!Tick
    <3>2. CASE up' = up
      BY <1>2, <3>2
    <3>3. QED
      BY <1>5, <3>1, <3>2 DEF G!Next, G!Allocate, G!FreeConcurrently, G!StartCycle, G!StartPause, G!EndCycle, G!Stall, G!Rotate
  <2>4. open' # G!NoPause => open' = open \/ open'.began = up
    <3>1. CASE G!StartPause
      <4>1. PICK k, id : open' = [kind |-> k, id |-> id, n |-> Len(paused) + 1, began |-> up, before |-> used]
        BY <3>1 DEF G!StartPause
      <4>2. QED
        BY <4>1
    <3>2. CASE UNCHANGED open
      BY <3>2
    <3>3. QED
      BY <1>5, <3>1, <3>2 DEF G!Next, G!Tick, G!Allocate, G!FreeConcurrently, G!StartCycle, G!EndCycle, G!Stall, G!Rotate,
                         G!log, G!heap
  <2>5. ASSUME NEW i \in DOMAIN paused
        PROVE  paused[i].line.up <= up' /\ (open' # G!NoPause => paused[i].line.up <= open'.began)
    <3>1. paused[i].line.up <= up /\ (open # G!NoPause => paused[i].line.up <= open.began)
      BY <1>1 DEF TimePart
    <3>2. QED
      BY <1>2, <2>3, <2>4, <3>1
  <2>6. QED
    BY <1>1, <2>1, <2>2, <2>5 DEF TimePart
<1>6. QED
  BY <1>4, <1>5

LEMMA HeapStep == ASSUME GcInv, PauseInv, G!Next PROVE HeapPart'
<1>1. JvmPart /\ HeapPart
  BY DEF GcInv, PauseInv
<1>2. Len(paused) \in Nat
  BY <1>1, EndedTyped
<1>3. PICK n \in Nat : n = Len(paused) + 1
  BY <1>2
<1>4. /\ used \in Nat /\ total \in Nat /\ freed \in Nat
      /\ \A i \in DOMAIN paused : /\ paused[i].line.after \in Nat /\ paused[i].line.total \in Nat
                                  /\ paused[i].line.freed \in Nat
  BY <1>1, EndedTyped DEF JvmPart
<1>5. n \notin DOMAIN paused /\ \A i \in DOMAIN paused : i \in Nat /\ i < n
  BY <1>1, <1>3, EndedTyped
<1>6. \A i \in DOMAIN paused : /\ GrewAtMost(paused[i].line, used, total, freed)
                               /\ Unsized(i, n) => GrewBy(paused[i].line, used, total, freed)
  BY <1>1, <1>3 DEF HeapPart
<1>7. CASE G!EndPause
  <2>1. PICK line, t :
          /\ line \in GcLine /\ open # G!NoPause /\ open' = G!NoPause /\ UNCHANGED <<total, freed>>
          /\ line.pause = open /\ line.after = used' /\ line.total = total /\ line.freed = freed
          /\ used' \in Nat /\ used' <= used /\ (open.kind.sized # 1 => used' = used)
          /\ Len(paused') = n /\ DOMAIN paused' = DOMAIN paused \cup {n} /\ paused'[n].line = line
          /\ \A i \in DOMAIN paused : paused'[i] = paused[i]
    BY <1>3, <1>7, EndAdded
  <2>2. open.before = used
    BY <1>1, <2>1 DEF HeapPart
  <2>3. ASSUME NEW i \in DOMAIN paused
        PROVE  /\ Unsized(i, n)' => Unsized(i, n)
               /\ Unsized(i, n + 1)' => Unsized(i, n) /\ open.kind.sized = 0
               /\ \A j \in DOMAIN paused : Unsized(i, j)' => Unsized(i, j)
    <3>1. /\ DOMAIN paused \subseteq DOMAIN paused' /\ n \in DOMAIN paused' /\ paused'[n].line.pause = open
          /\ \A k \in DOMAIN paused : paused'[k] = paused[k]
      BY <2>1
    <3>2. i < n /\ n < n + 1 /\ \A k \in DOMAIN paused : k < n + 1
      BY <1>5
    <3>3. \A j : Unsized(i, j)' => Unsized(i, j)
      BY <3>1 DEF Unsized
    <3>4. Unsized(i, n + 1)' => Unsized(i, n) /\ open.kind.sized = 0
      BY <3>1, <3>2 DEF Unsized
    <3>5. QED
      BY <3>3, <3>4
  <2>4. ASSUME NEW i \in DOMAIN paused
        PROVE  /\ GrewAtMost(paused'[i].line, used', total', freed')
               /\ Unsized(i, n + 1)' => GrewBy(paused'[i].line, used', total', freed')
    <3>1. paused'[i] = paused[i]
      BY <2>1
    <3>2. GrewAtMost(paused'[i].line, used', total', freed')
      BY <1>4, <1>6, <2>1, <3>1 DEF GrewAtMost
    <3>3. ASSUME Unsized(i, n + 1)' PROVE GrewBy(paused'[i].line, used', total', freed')
      <4>1. Unsized(i, n) /\ used' = used
        BY <2>1, <2>3, <3>3
      <4>2. QED
        BY <1>6, <2>1, <3>1, <4>1 DEF GrewBy
    <3>4. QED
      BY <3>2, <3>3
  <2>5. GrewAtMost(paused'[n].line, used', total', freed') /\ GrewBy(paused'[n].line, used', total', freed')
    BY <1>4, <2>1 DEF GrewAtMost, GrewBy
  <2>6. ASSUME NEW i \in DOMAIN paused', NEW j \in DOMAIN paused', i < j
        PROVE  LET m == paused'[j].line
               IN  /\ GrewAtMost(paused'[i].line, m.pause.before, m.total, m.freed)
                   /\ Unsized(i, j)' => GrewBy(paused'[i].line, m.pause.before, m.total, m.freed)
    <3>1. CASE j = n
      <4>1. i \in DOMAIN paused
        BY <2>1, <2>6, <3>1
      <4>2. paused'[i] = paused[i] /\ paused'[j].line = line /\ (Unsized(i, j)' => Unsized(i, n))
        BY <2>1, <2>3, <3>1, <4>1
      <4>3. line.pause.before = used /\ line.total = total /\ line.freed = freed
        BY <2>1, <2>2
      <4>4. QED
        BY <1>6, <4>1, <4>2, <4>3
    <3>2. CASE j # n
      <4>1. j \in DOMAIN paused
        BY <2>1, <3>2
      <4>2. i \in DOMAIN paused
        BY <1>5, <2>1, <2>6, <4>1
      <4>3. /\ GrewAtMost(paused[i].line, paused[j].line.pause.before, paused[j].line.total, paused[j].line.freed)
            /\ Unsized(i, j) =>
                 GrewBy(paused[i].line, paused[j].line.pause.before, paused[j].line.total, paused[j].line.freed)
        BY <1>1, <2>6, <4>1, <4>2 DEF HeapPart
      <4>4. paused'[i] = paused[i] /\ paused'[j] = paused[j] /\ (Unsized(i, j)' => Unsized(i, j))
        BY <2>1, <2>3, <4>1, <4>2
      <4>5. QED
        BY <4>3, <4>4
    <3>3. QED
      BY <3>1, <3>2
  <2>7. \A i \in DOMAIN paused' : /\ GrewAtMost(paused'[i].line, used', total', freed')
                                  /\ Unsized(i, n + 1)' => GrewBy(paused'[i].line, used', total', freed')
    BY <2>1, <2>4, <2>5
  <2>8. QED
    BY <2>1, <2>6, <2>7 DEF HeapPart, GrewAtMost, GrewBy
<1>8. CASE ~G!EndPause
  <2>1. UNCHANGED paused
    BY <1>8, EndsKept
  <2>2. \A i, j : Unsized(i, j)' <=> Unsized(i, j)
    BY <2>1 DEF Unsized
  <2>3. open' # G!NoPause => open'.before = used'
    <3>1. CASE G!StartPause
      <4>1. PICK k, id : open' = [kind |-> k, id |-> id, n |-> Len(paused) + 1, began |-> up, before |-> used]
        BY <3>1 DEF G!StartPause
      <4>2. used' = used
        BY <3>1 DEF G!StartPause, G!heap
      <4>3. QED
        BY <4>1, <4>2
    <3>2. CASE UNCHANGED <<open, used>>
      BY <1>1, <3>2 DEF HeapPart
    <3>3. CASE open' = G!NoPause
      BY <3>3
    <3>4. QED
      BY <1>8, <3>1, <3>2, <3>3 DEF G!Next, G!Tick, G!Allocate, G!FreeConcurrently, G!StartCycle, G!EndCycle, G!Stall, G!Rotate,
                         G!log, G!heap
  <2>4. ASSUME NEW i \in DOMAIN paused
        PROVE  /\ GrewAtMost(paused[i].line, used', total', freed')
               /\ Unsized(i, n) => GrewBy(paused[i].line, used', total', freed')
    <3>1. CASE G!Allocate
      <4>1. used' = used + 1 /\ total' = total + 1 /\ freed' = freed
        BY <3>1 DEF G!Allocate
      <4>2. QED
        BY <1>4, <1>6, <4>1 DEF GrewAtMost, GrewBy
    <3>2. CASE G!FreeConcurrently
      <4>1. used' = used - 1 /\ total' = total /\ freed' = freed + 1
        BY <3>2 DEF G!FreeConcurrently
      <4>2. QED
        BY <1>4, <1>6, <4>1 DEF GrewAtMost, GrewBy
    <3>3. CASE UNCHANGED <<used, total, freed>>
      BY <1>6, <3>3
    <3>4. QED
      BY <1>8, <3>1, <3>2, <3>3 DEF G!Next, G!Tick, G!StartCycle, G!StartPause, G!EndCycle, G!Stall, G!Rotate, G!heap
  <2>5. QED
    <3>1. Len(paused') + 1 = n
      BY <1>3, <2>1
    <3>2. QED
      BY <1>1, <2>1, <2>2, <2>3, <2>4, <3>1 DEF HeapPart, GrewAtMost, GrewBy
<1>9. QED
  BY <1>7, <1>8

LEMMA PauseStep == ASSUME GcInv, PauseInv, [G!Next]_G!vars PROVE PauseInv'
<1>1. CASE UNCHANGED G!vars
  <2>1. UNCHANGED <<collector, up, used, total, freed, nextId, cycle, open, paused, files>>
    BY <1>1 DEF G!vars, G!heap, G!log
  <2>2. /\ Places' = Places /\ EndPlaces' = EndPlaces /\ (\A t : LineAt(t)' = LineAt(t)) /\ G!Started' = G!Started
        /\ \A i, j : (Unsized(i, j)' <=> Unsized(i, j)) /\ (Precedes(i, j)' <=> Precedes(i, j))
    BY <2>1 DEF Places, EndPlaces, LineAt, G!Started, Unsized, Precedes
  <2>3. EndLinePart' /\ IdPart' /\ TimePart'
    BY <2>1, <2>2 DEF PauseInv, EndLinePart, IdPart, TimePart
  <2>4. HeapPart'
    BY <2>1, <2>2 DEF PauseInv, HeapPart, GrewAtMost, GrewBy
  <2>5. QED
    BY <2>3, <2>4 DEF PauseInv
<1>2. CASE G!Next
  BY <1>2, EndStep, IdStep, TimeStep, HeapStep DEF PauseInv
<1>3. QED
  BY <1>1, <1>2

(* Whatever the order in which the files are named, all of them are read.    *)
LEMMA AllAreRead ==
  ASSUME JvmPart, NEW given \in G!Givens, NEW w
  PROVE  G!Read(given, w) = {l \in {[path |-> t[1], no |-> t[2], line |-> LineAt(t)] : t \in Places} :
                                          G!InWindow(l.line, w)}
<1> DEFINE n == Len(files)
<1>1. n \in Nat /\ n > 0 /\ DOMAIN files = 1..n
  BY DEF JvmPart
<1>2. G!All \in Seq(Nat) /\ Len(G!All) = n /\ \A i \in 1..n : G!All[i] = i
  <2> HIDE DEF n
  <2>1. G!All = [i \in 1..n |-> i]
    BY DEF G!All, n
  <2>2. QED
    BY <1>1, <2>1
<1>3. G!Range(given) = 1..n
  <2>1. CASE given = G!All
    <3>1. given = [i \in 1..n |-> i]
      BY <2>1 DEF G!All
    <3>2. QED
      BY <3>1 DEF G!Range
  <2>2. CASE given = Append(G!Back, Len(files))
    <3> DEFINE back == G!Back
    <3>1. back = [i \in 1..n |-> n + 1 - i]
      BY DEF G!Back
    <3>2. \A i \in 1..n : (n - i) + 1 \in 1..n /\ n + 1 - i = (n - i) + 1
      BY <1>1
    <3>3. back = [i \in 1..n |-> (n - i) + 1]
      <4> HIDE DEF n, back
      <4>1. QED
        BY <3>1, <3>2
    <3>4. back \in Seq(Nat) /\ Len(back) = n /\ DOMAIN back = 1..n
      <4> HIDE DEF n, back
      <4>1. QED
        BY <1>1, <3>2, <3>3
    <3>5. DOMAIN given = 1..n + 1 /\ given[n + 1] = n /\ \A i \in 1..n : given[i] = (n - i) + 1
      <4>1. given = Append(back, n)
        BY <2>2
      <4> HIDE DEF n, back
      <4>2. QED
        BY <1>1, <3>3, <3>4, <4>1
    <3>6. \A j \in 1..n : (n - j) + 1 \in DOMAIN given /\ given[(n - j) + 1] = j
      <4> HIDE DEF n
      <4>1. QED
        BY <1>1, <3>2, <3>5
    <3>7. \A i \in DOMAIN given : given[i] \in 1..n
      <4> HIDE DEF n
      <4>1. QED
        BY <1>1, <3>2, <3>5
    <3>8. QED
      <4> HIDE DEF n
      <4>1. QED
        BY <3>6, <3>7 DEF G!Range
  <2>3. QED
    BY <2>1, <2>2 DEF G!Givens
<1>4. \A l : l \in UNION {{[path |-> p, no |-> i, line |-> files[p][i]] : i \in DOMAIN files[p]} : p \in 1..n}
             <=> l \in {[path |-> t[1], no |-> t[2], line |-> LineAt(t)] : t \in Places}
  <2>1. ASSUME NEW p \in 1..n, NEW i \in DOMAIN files[p]
        PROVE  \E t \in Places : [path |-> p, no |-> i, line |-> files[p][i]] = [path |-> t[1], no |-> t[2], line |-> LineAt(t)]
    <3>1. <<p, i>> \in Places
      BY <1>1, <2>1, InPlaces
    <3>2. LineAt(<<p, i>>) = files[p][i]
      BY DEF LineAt
    <3>3. QED
      BY <3>1, <3>2
  <2>2. ASSUME NEW t \in Places
        PROVE  t[1] \in 1..n /\ t[2] \in DOMAIN files[t[1]] /\ LineAt(t) = files[t[1]][t[2]]
    BY <1>1, <2>2, InPlaces DEF LineAt
  <2> DEFINE read == UNION {{[path |-> p, no |-> i, line |-> files[p][i]] : i \in DOMAIN files[p]} : p \in 1..n}
             at == {[path |-> t[1], no |-> t[2], line |-> LineAt(t)] : t \in Places}
  <2>3. ASSUME NEW l \in read PROVE l \in at
    <3>1. PICK p \in 1..n : l \in {[path |-> p, no |-> i, line |-> files[p][i]] : i \in DOMAIN files[p]}
      OBVIOUS
    <3>2. PICK i \in DOMAIN files[p] : l = [path |-> p, no |-> i, line |-> files[p][i]]
      BY <3>1
    <3>3. QED
      BY <2>1, <3>2
  <2>4. ASSUME NEW l \in at PROVE l \in read
    <3>1. PICK t \in Places : l = [path |-> t[1], no |-> t[2], line |-> LineAt(t)]
      OBVIOUS
    <3>2. l = [path |-> t[1], no |-> t[2], line |-> files[t[1]][t[2]]] /\ t[1] \in 1..n /\ t[2] \in DOMAIN files[t[1]]
      BY <2>2, <3>1
    <3>3. l \in {[path |-> t[1], no |-> i, line |-> files[t[1]][i]] : i \in DOMAIN files[t[1]]}
      BY <3>2
    <3>4. QED
      BY <3>2, <3>3
  <2>5. QED
    BY <2>3, <2>4
<1>5. G!Read(given, w) =
        {l \in UNION {{[path |-> p, no |-> i, line |-> files[p][i]] : i \in DOMAIN files[p]} : p \in 1..n} :
           G!InWindow(l.line, w)}
  BY <1>3 DEF G!Read
<1> HIDE DEF n
<1>6. QED
  BY <1>4, <1>5

(* What was alarmed is at a place of the log, and each place can be alarmed. *)
LEMMA KeysOfAlarm ==
  ASSUME GcInv, NEW given \in G!Givens, NEW alarm
  PROVE  \A key : key \in {G!Dedupe(l) : l \in {x \in G!Read(given, G!Everything) : G!Alarmed(alarm, x.line)}}
                  <=> \E t \in Places : /\ G!Alarmed(alarm, LineAt(t))
                                        /\ key = <<t[1], IF LineAt(t).type = "stall" THEN <<"line", t[2]>>
                                                         ELSE <<"id", LineAt(t).pause.id>> >>
<1> DEFINE At(t) == [path |-> t[1], no |-> t[2], line |-> LineAt(t)]
<1>1. \A t \in Places : G!InWindow(At(t).line, G!Everything)
  <2>1. ASSUME NEW t \in Places PROVE G!InWindow(LineAt(t), G!Everything)
    <3>1. LineAt(t).up <= MaxUp[collector]
      BY DEF GcInv, PrintPart
    <3>2. LineAt(t).up \in Nat
      <4>1. files \in Seq(Seq(GcLine)) /\ t[1] \in DOMAIN files /\ t[2] \in DOMAIN files[t[1]]
        BY InPlaces DEF GcInv, JvmPart
      <4>2. files[t[1]] \in Seq(GcLine)
        BY <4>1
      <4>3. LineAt(t) \in GcLine
        BY <4>1, <4>2 DEF LineAt
      <4>4. QED
        BY <4>3 DEF GcLine
    <3>3. QED
      BY <3>1, <3>2 DEF G!InWindow, G!Everything
  <2>2. QED
    BY <2>1
<1>2. \A l : l \in G!Read(given, G!Everything) <=> \E t \in Places : l = At(t)
  BY <1>1, AllAreRead DEF GcInv
<1>3. \A t : /\ At(t).line = LineAt(t)
             /\ G!Dedupe(At(t)) = <<t[1], IF LineAt(t).type = "stall" THEN <<"line", t[2]>>
                                          ELSE <<"id", LineAt(t).pause.id>> >>
  BY DEF G!Dedupe
<1> DEFINE read == G!Read(given, G!Everything)
           keys == {G!Dedupe(l) : l \in {x \in read : G!Alarmed(alarm, x.line)}}
           Key(t) == <<t[1], IF LineAt(t).type = "stall" THEN <<"line", t[2]>> ELSE <<"id", LineAt(t).pause.id>> >>
<1>4. ASSUME NEW key \in keys PROVE \E t \in Places : G!Alarmed(alarm, LineAt(t)) /\ key = Key(t)
  <2>1. PICK l \in read : G!Alarmed(alarm, l.line) /\ key = G!Dedupe(l)
    BY <1>4
  <2>2. PICK t \in Places : l = At(t)
    BY <1>2
  <2>3. G!Alarmed(alarm, LineAt(t)) /\ key = Key(t)
    BY <1>3, <2>1, <2>2
  <2> HIDE DEF Key
  <2>4. QED
    BY <2>3
<1>5. ASSUME NEW t \in Places, G!Alarmed(alarm, LineAt(t)) PROVE Key(t) \in keys
  <2>1. At(t) \in read /\ G!Alarmed(alarm, At(t).line) /\ Key(t) = G!Dedupe(At(t))
    BY <1>2, <1>3, <1>5
  <2> HIDE DEF Key, read, At
  <2>2. QED
    BY <2>1
<1>6. \A key : key \in keys <=> \E t \in Places : G!Alarmed(alarm, LineAt(t)) /\ key = Key(t)
  <2> HIDE DEF keys, Key
  <2>1. QED
    BY <1>4, <1>5
<1>7. QED
  BY <1>6

LEMMA StallsAreCounted ==
  ASSUME GcInv, NEW given \in G!Givens PROVE G!Alarms(given, G!Everything, "allocation_stall") = stalls
<1> DEFINE keys == {G!Dedupe(l) : l \in {x \in G!Read(given, G!Everything) : G!Alarmed("allocation_stall", x.line)}}
<1>1. \A t : G!Alarmed("allocation_stall", LineAt(t)) <=> LineAt(t).type = "stall"
  BY DEF G!Alarmed
<1>2. \A key : key \in keys <=> \E t \in Places : LineAt(t).type = "stall" /\ key = <<t[1], <<"line", t[2]>> >>
  BY <1>1, KeysOfAlarm
<1>3. keys = StallKeys
  <2> HIDE DEF keys
  <2>1. QED
    BY <1>2 DEF StallKeys
<1>4. G!Alarms(given, G!Everything, "allocation_stall") = Cardinality(keys)
  BY CardinalityOfLog DEF G!Alarms
<1> HIDE DEF keys
<1>5. QED
  BY <1>3, <1>4 DEF GcInv, StallPart

(* A full collection counts in each file that has a line of it.              *)
LEMMA FullsAreCounted ==
  ASSUME GcInv, NEW given \in G!Givens
  PROVE  LET full == {p \in G!Started : p.kind.name = "Full"}
             printed == {t \in full \X DOMAIN files :
                           \E i \in DOMAIN files[t[2]] : files[t[2]][i].pause = t[1]}
         IN  /\ G!Alarms(given, G!Everything, "full_gc") = Cardinality(printed)
             /\ \A p \in full : \E f \in DOMAIN files : <<p, f>> \in printed
<1> DEFINE full == {p \in G!Started : p.kind.name = "Full"}
           printed == {t \in full \X DOMAIN files : \E i \in DOMAIN files[t[2]] : files[t[2]][i].pause = t[1]}
           keys == {G!Dedupe(l) : l \in {x \in G!Read(given, G!Everything) : G!Alarmed("full_gc", x.line)}}
           Key(u) == <<u[2], <<"id", u[1].id>> >>
           f == [u \in printed |-> Key(u)]
<1>1. JvmPart /\ PrintPart /\ OwnPart
  BY DEF GcInv
<1>2. ASSUME NEW t \in Places
      PROVE  /\ LineAt(t).type \in {"using", "start", "end", "stall"}
             /\ t[1] \in DOMAIN files /\ t[2] \in DOMAIN files[t[1]] /\ LineAt(t) = files[t[1]][t[2]]
  <2>1. files \in Seq(Seq(GcLine)) /\ t[1] \in DOMAIN files /\ t[2] \in DOMAIN files[t[1]]
    BY <1>1, InPlaces DEF JvmPart
  <2>2. files[t[1]] \in Seq(GcLine)
    BY <2>1
  <2>3. LineAt(t) \in GcLine
    BY <2>1, <2>2 DEF LineAt
  <2>4. QED
    BY <2>1, <2>3 DEF GcLine, LineAt
<1>3. ASSUME NEW t \in Places, LineAt(t).pause.kind.name = "Full"
      PROVE  LineAt(t).type \in {"start", "end"} /\ LineAt(t).pause \in full
  <2>1. LineAt(t).type \notin {"using", "stall"}
    BY <1>1, <1>3, NoPauseTyped DEF PrintPart
  <2>2. LineAt(t).type \in {"start", "end"}
    BY <1>2, <2>1
  <2>3. LineAt(t).pause \in G!Started
    BY <1>1, <2>2 DEF PrintPart
  <2>4. QED
    BY <1>3, <2>2, <2>3
<1>4. \A key : key \in keys <=> \E t \in Places : LineAt(t).pause.kind.name = "Full"
                                                  /\ key = <<t[1], <<"id", LineAt(t).pause.id>> >>
  <2>1. \A t : G!Alarmed("full_gc", LineAt(t))
               <=> LineAt(t).type \in {"start", "end"} /\ LineAt(t).pause.kind.name = "Full"
    BY DEF G!Alarmed
  <2> HIDE DEF full, printed
  <2>2. QED
    BY <1>3, <2>1, KeysOfAlarm
<1>5. ASSUME NEW u \in printed
      PROVE  /\ u[1] \in full /\ u[2] \in DOMAIN files /\ u = <<u[1], u[2]>>
             /\ \E t \in Places : t[1] = u[2] /\ LineAt(t).pause = u[1]
  <2>1. u[1] \in full /\ u[2] \in DOMAIN files /\ u = <<u[1], u[2]>>
    OBVIOUS
  <2>2. PICK i \in DOMAIN files[u[2]] : files[u[2]][i].pause = u[1]
    OBVIOUS
  <2>3. <<u[2], i>> \in Places /\ LineAt(<<u[2], i>>) = files[u[2]][i]
    BY <2>1, InPlaces DEF LineAt
  <2>4. \E t \in Places : t[1] = u[2] /\ LineAt(t).pause = u[1]
    BY <2>2, <2>3
  <2>5. QED
    BY <2>1, <2>4
<1>6. ASSUME NEW t \in Places, LineAt(t).pause.kind.name = "Full" PROVE <<LineAt(t).pause, t[1]>> \in printed
  <2>1. LineAt(t).pause \in full /\ t[1] \in DOMAIN files /\ t[2] \in DOMAIN files[t[1]] /\ LineAt(t) = files[t[1]][t[2]]
    BY <1>2, <1>3, <1>6
  <2> HIDE DEF full
  <2>2. QED
    BY <2>1
<1>7. \A u \in printed : Key(u) \in keys
  <2>1. ASSUME NEW u \in printed PROVE Key(u) \in keys
    <3>1. PICK t \in Places : t[1] = u[2] /\ LineAt(t).pause = u[1]
      BY <1>5, <2>1
    <3>2. u[1].kind.name = "Full"
      <4>1. u[1] \in full
        BY <1>5, <2>1
      <4>2. QED
        BY <4>1
    <3> HIDE DEF keys
    <3>3. QED
      BY <1>4, <3>1, <3>2
  <2>2. QED
    BY <2>1
<1>8. \A u, v \in printed : Key(u) = Key(v) => u = v
  <2>1. ASSUME NEW u \in printed, NEW v \in printed, Key(u) = Key(v) PROVE u = v
    <3>1. u[2] = v[2] /\ u[1].id = v[1].id
      BY <2>1
    <3>2. u[1] \in full /\ v[1] \in full /\ u = <<u[1], u[2]>> /\ v = <<v[1], v[2]>>
      BY <1>5, <2>1
    <3>3. u[1] = v[1]
      BY <1>1, <3>1, <3>2 DEF OwnPart
    <3>4. QED
      BY <3>1, <3>2, <3>3
  <2>2. QED
    BY <2>1
<1>9. \A key \in keys : \E u \in printed : Key(u) = key
  <2>1. ASSUME NEW key \in keys PROVE \E u \in printed : Key(u) = key
    <3>1. PICK t \in Places : LineAt(t).pause.kind.name = "Full" /\ key = <<t[1], <<"id", LineAt(t).pause.id>> >>
      BY <1>4, <2>1
    <3>2. <<LineAt(t).pause, t[1]>> \in printed
      BY <1>6, <3>1
    <3>3. Key(<<LineAt(t).pause, t[1]>>) = key
      BY <3>1
    <3> HIDE DEF printed, Key
    <3>4. QED
      BY <3>2, <3>3
  <2>2. QED
    BY <2>1
<1>10. f \in Bijection(printed, keys)
  <2> HIDE DEF printed, keys, Key
  <2>1. f \in [printed -> keys]
    BY <1>7
  <2>2. QED
    BY <1>8, <1>9, <2>1 DEF Bijection, Injection, Surjection, IsInjective
<1>11. IsFiniteSet(printed)
  <2>1. IsFiniteSet(full)
    <3> DEFINE ends == DOMAIN paused
               Pause(i) == paused[i].line.pause
    <3>1. ends = 1..Len(paused) /\ 1 \in Int /\ Len(paused) \in Int
      <4>1. paused \in Seq([line : GcLine, file : Nat])
        BY <1>1 DEF JvmPart
      <4>2. QED
        BY <4>1
    <3>2. IsFiniteSet(ends)
      BY <3>1, FS_Interval
    <3>3. IsFiniteSet({Pause(i) : i \in ends})
      <4> DEFINE g == [i \in ends |-> Pause(i)]
      <4>1. {Pause(i) : i \in ends} = {g[i] : i \in ends}
        OBVIOUS
      <4> HIDE DEF ends, Pause, g
      <4>2. QED
        BY <3>2, <4>1, FamilyIsFinite
    <3>4. IsFiniteSet({Pause(i) : i \in ends} \cup {open})
      <4> HIDE DEF ends, Pause
      <4>1. QED
        BY <3>3, FS_AddElement
    <3>5. full \subseteq {Pause(i) : i \in ends} \cup {open}
      BY DEF G!Started
    <3>6. QED
      <4> HIDE DEF ends, Pause, full
      <4>1. QED
        BY <3>4, <3>5, FS_Subset
  <2>2. IsFiniteSet(DOMAIN files)
    <3>1. DOMAIN files = 1..Len(files) /\ 1 \in Int /\ Len(files) \in Int
      BY <1>1 DEF JvmPart
    <3>2. QED
      BY <3>1, FS_Interval
  <2>3. IsFiniteSet(full \X DOMAIN files)
    <3> HIDE DEF full
    <3>1. QED
      BY <2>1, <2>2, FS_Product
  <2>4. printed \subseteq full \X DOMAIN files
    OBVIOUS
  <2> HIDE DEF full, printed
  <2>5. QED
    BY <2>3, <2>4, FS_Subset
<1>12. Cardinality(keys) = Cardinality(printed)
  <2> HIDE DEF f, printed, keys
  <2>1. QED
    BY <1>10, <1>11, FS_Bijection DEF ExistsBijection
<1>13. \A p \in full : \E d \in DOMAIN files : <<p, d>> \in printed
  <2>1. ASSUME NEW p \in full PROVE \E d \in DOMAIN files : <<p, d>> \in printed
    <3>1. PICK t \in Places : LineAt(t).pause = p
      BY <1>1, <2>1 DEF PrintPart
    <3>2. <<p, t[1]>> \in printed /\ t[1] \in DOMAIN files
      <4>1. p.kind.name = "Full"
        BY <2>1
      <4> HIDE DEF printed, full
      <4>2. QED
        BY <1>2, <1>6, <3>1, <4>1
    <3>3. QED
      BY <3>2
  <2>2. QED
    BY <2>1
<1>14. G!Alarms(given, G!Everything, "full_gc") = Cardinality(keys)
  BY CardinalityOfLog DEF G!Alarms
<1>15. QED
  <2> HIDE DEF keys, f
  <2>1. QED
    BY <1>12, <1>13, <1>14

LEMMA LogAnswers == ASSUME GcInv PROVE G!AlarmsTold
<1>1. ASSUME NEW given \in G!Givens
      PROVE  LET full == {p \in G!Started : p.kind.name = "Full"}
                 printed == {t \in full \X DOMAIN files :
                               \E i \in DOMAIN files[t[2]] : files[t[2]][i].pause = t[1]}
             IN  /\ G!Alarms(given, G!Everything, "allocation_stall") = stalls
                 /\ G!Alarms(given, G!Everything, "full_gc") = G!Cardinality(printed)
                 /\ \A p \in full : \E f \in DOMAIN files : <<p, f>> \in printed
  BY <1>1, StallsAreCounted, FullsAreCounted, CardinalityOfLog
<1>2. QED
  BY <1>1 DEF G!AlarmsTold

(* A line of the log as it is read. *)
ReadAt(t) == [path |-> t[1], no |-> t[2], line |-> LineAt(t)]

LEMMA PlacesTyped ==
  ASSUME JvmPart, NEW t \in Places
  PROVE  /\ LineAt(t) \in GcLine /\ t[1] \in Nat /\ t[2] \in Nat
         /\ LineAt(t).pause \in GcPause /\ LineAt(t).up \in Nat /\ LineAt(t).pause.n \in Nat
         /\ t = <<t[1], t[2]>>
<1>1. files \in Seq(Seq(GcLine)) /\ t[1] \in DOMAIN files /\ t[2] \in DOMAIN files[t[1]] /\ t = <<t[1], t[2]>>
  BY InPlaces DEF JvmPart
<1>2. files[t[1]] \in Seq(GcLine) /\ t[1] \in Nat
  BY <1>1
<1>3. LineAt(t) \in GcLine /\ t[2] \in Nat
  BY <1>1, <1>2 DEF LineAt
<1>4. LineAt(t).pause \in GcPause /\ LineAt(t).up \in Nat
  BY <1>3 DEF GcLine
<1>5. LineAt(t).pause.n \in Nat
  BY <1>4 DEF GcPause
<1>6. QED
  BY <1>1, <1>2, <1>3, <1>4, <1>5

(* In one collector, a kind of pause is told by its name and generation.     *)
LEMMA KindsDiffer ==
  ASSUME NEW c \in DOMAIN G!Kinds, NEW k \in G!Kinds[c], NEW l \in G!Kinds[c], k.name = l.name, k.gen = l.gen
  PROVE  k = l
<1>1. DOMAIN G!Kinds = {"Parallel", "G1", "Shenandoah", "ZGC"}
  BY DEF G!Kinds
<1>2. CASE c = "Parallel"
  BY <1>2 DEF G!Kinds
<1>3. CASE c = "G1"
  <2>1. G!Kinds[c] = {[name |-> "Young", gen |-> "none", own |-> 1, sized |-> 1, again |-> 0],
                         [name |-> "Remark", gen |-> "none", own |-> 0, sized |-> 1, again |-> 0]}
    BY <1>3 DEF G!Kinds
  <2>2. QED
    BY <2>1
<1>4. CASE c = "Shenandoah"
  <2>1. G!Kinds[c] = {[name |-> "Full", gen |-> "none", own |-> 1, sized |-> 1, again |-> 0],
                         [name |-> "FinalMark", gen |-> "none", own |-> 0, sized |-> 0, again |-> 0]}
    BY <1>4 DEF G!Kinds
  <2>2. QED
    BY <2>1
<1>5. CASE c = "ZGC"
  <2>1. G!Kinds[c] = {[name |-> "MarkEnd", gen |-> g, own |-> 0, sized |-> 0, again |-> 1] : g \in {"Y", "O"}}
    BY <1>5 DEF G!Kinds
  <2>2. QED
    BY <2>1
<1>6. QED
  BY <1>1, <1>2, <1>3, <1>4, <1>5

(* The line of each pause is found within the window; a key whose line does  *)
(* not stand has a later one that does.                                      *)
LEMMA FoundPauses ==
  ASSUME GcInv, PauseInv, NEW given \in G!Givens, NEW w
  PROVE  /\ \A l \in G!PausesOf(given, w) :
              \E t \in EndPlaces : /\ l = ReadAt(t) /\ G!InWindow(LineAt(t), w)
                                   /\ \E i \in DOMAIN paused : l.line = paused[i].line /\ l.path = paused[i].file
         /\ \A t \in EndPlaces :
              G!InWindow(LineAt(t), w) =>
                \/ ReadAt(t) \in G!PausesOf(given, w)
                \/ \E s \in EndPlaces : /\ G!Key(ReadAt(s)) = G!Key(ReadAt(t)) /\ t[2] < s[2]
                                        /\ ReadAt(s) \in G!PausesOf(given, w)
<1> DEFINE found == {l \in G!Read(given, w) : l.line.type = "end"}
           told == G!PausesOf(given, w)
           Here(t) == t \in EndPlaces /\ G!InWindow(LineAt(t), w)
<1>1. JvmPart /\ EndLinePart
  BY DEF GcInv, PauseInv
<1>2. \A t : ReadAt(t).path = t[1] /\ ReadAt(t).no = t[2] /\ ReadAt(t).line = LineAt(t)
  BY DEF ReadAt
<1>3. \A l : l \in found <=> \E t : Here(t) /\ l = ReadAt(t)
  <2>1. G!Read(given, w) = {l \in {ReadAt(t) : t \in Places} : G!InWindow(l.line, w)}
    BY <1>1, AllAreRead DEF ReadAt
  <2>2. QED
    BY <1>2, <2>1 DEF EndPlaces
<1>4. told = {l \in found : \A m \in found : G!Key(m) = G!Key(l) => m.no <= l.no}
  BY DEF G!PausesOf
<1> HIDE DEF found, told
<1>5. ASSUME NEW l \in told
      PROVE  \E t \in EndPlaces : /\ l = ReadAt(t) /\ G!InWindow(LineAt(t), w)
                                  /\ \E i \in DOMAIN paused : l.line = paused[i].line /\ l.path = paused[i].file
  <2>1. PICK t : Here(t) /\ l = ReadAt(t)
    BY <1>3, <1>4
  <2>2. PICK i \in DOMAIN paused : LineAt(t) = paused[i].line /\ t[1] = paused[i].file
    BY <1>1, <2>1 DEF EndLinePart
  <2>3. QED
    BY <1>2, <2>1, <2>2
<1>6. ASSUME NEW t, Here(t)
      PROVE  \/ ReadAt(t) \in told
             \/ \E s \in EndPlaces : G!Key(ReadAt(s)) = G!Key(ReadAt(t)) /\ t[2] < s[2] /\ ReadAt(s) \in told
  <2> DEFINE same == {s \in EndPlaces : Here(s) /\ G!Key(ReadAt(s)) = G!Key(ReadAt(t))}
             nos == {s[2] : s \in same}
             f == t[1]
  <2>1. t \in same /\ t \in Places /\ same \subseteq Places
    BY <1>6 DEF EndPlaces
  <2>2. f \in DOMAIN files /\ files \in Seq(Seq(GcLine))
    BY <1>1, <2>1, InPlaces DEF JvmPart
  <2>3. files[f] \in Seq(GcLine) /\ Len(files[f]) \in Nat /\ DOMAIN files[f] = 1..Len(files[f])
    BY <2>2
  <2>4. \A s \in same : s[1] = f
    <3>1. \A s \in same : G!Key(ReadAt(s))[1] = G!Key(ReadAt(t))[1]
      OBVIOUS
    <3>2. \A s : G!Key(ReadAt(s))[1] = s[1]
      BY <1>2 DEF G!Key
    <3>3. QED
      BY <3>1, <3>2
  <2>5. nos \subseteq 1..Len(files[f]) /\ t[2] \in nos
    <3>1. \A s \in same : s[2] \in DOMAIN files[f]
      BY <2>1, <2>4, InPlaces
    <3>2. QED
      BY <2>1, <2>3, <3>1
  <2>6. PICK m \in nos : \A k \in nos : k <= m
    <3> HIDE DEF nos
    <3>1. QED
      BY <2>3, <2>5, GreatestNumber
  <2>7. PICK s \in same : s[2] = m
    BY <2>6
  <2>8. ReadAt(s) \in told
    <3>1. ReadAt(s) \in found
      BY <1>3, <2>7
    <3>2. ASSUME NEW l \in found, G!Key(l) = G!Key(ReadAt(s)) PROVE l.no <= ReadAt(s).no
      <4>1. PICK r : Here(r) /\ l = ReadAt(r)
        BY <1>3
      <4>2. G!Key(ReadAt(r)) = G!Key(ReadAt(t))
        BY <2>7, <3>2, <4>1
      <4>3. r \in same
        BY <4>1, <4>2
      <4>4. r[2] <= m
        BY <2>6, <4>3
      <4>5. QED
        BY <1>2, <2>7, <4>1, <4>4
    <3>3. QED
      BY <1>4, <3>1, <3>2
  <2>9. t[2] <= s[2] /\ t[2] \in Nat /\ s[2] \in Nat
    BY <1>1, <2>1, <2>5, <2>6, <2>7, PlacesTyped
  <2>10. CASE t[2] = s[2]
    <3>1. s = t
      <4>1. s[1] = t[1] /\ t = <<t[1], t[2]>> /\ s = <<s[1], s[2]>>
        BY <2>1, <2>4, InPlaces
      <4>2. QED
        BY <2>10, <4>1
    <3>2. QED
      BY <2>8, <3>1
  <2>11. CASE t[2] # s[2]
    BY <2>7, <2>8, <2>9, <2>11
  <2>12. QED
    BY <2>10, <2>11
<1>7. QED
  <2>1. ASSUME NEW t \in EndPlaces, G!InWindow(LineAt(t), w) PROVE Here(t)
    BY <2>1
  <2> HIDE DEF Here
  <2>2. QED
    BY <1>5, <1>6, <2>1 DEF told

LEMMA EachToldOnce ==
  ASSUME GcInv, PauseInv, NEW given \in G!Givens, NEW w
  PROVE  LET told == G!PausesOf(given, w)
         IN  /\ \A l, m \in told : l.line.pause.n = m.line.pause.n => l = m
             /\ IsFiniteSet(told) /\ Cardinality(told) = Cardinality({l.line : l \in told})
<1> DEFINE told == G!PausesOf(given, w)
           lines == {l.line : l \in told}
<1>1. JvmPart /\ EndLinePart
  BY DEF GcInv, PauseInv
<1>2. \A l \in told : /\ l.line.pause.n \in 1..Len(paused)
                      /\ \E t \in EndPlaces : l = ReadAt(t) /\ l.line = LineAt(t)
  <2>1. ASSUME NEW l \in told
        PROVE  /\ l.line.pause.n \in 1..Len(paused) /\ \E t \in EndPlaces : l = ReadAt(t) /\ l.line = LineAt(t)
    <3>1. PICK t \in EndPlaces : l = ReadAt(t) /\ \E i \in DOMAIN paused : l.line = paused[i].line
      BY <2>1, FoundPauses
    <3>2. PICK i \in DOMAIN paused : l.line = paused[i].line
      BY <3>1
    <3>3. l.line.pause.n = i /\ i \in 1..Len(paused)
      BY <1>1, <3>2, EndedTyped DEF EndLinePart
    <3>4. QED
      BY <3>1, <3>3 DEF ReadAt
  <2>2. QED
    BY <2>1
<1>3. ASSUME NEW l \in told, NEW m \in told, l.line.pause.n = m.line.pause.n PROVE l = m
  <2>1. PICK t \in EndPlaces : l = ReadAt(t) /\ l.line = LineAt(t)
    BY <1>2
  <2>2. PICK s \in EndPlaces : m = ReadAt(s) /\ m.line = LineAt(s)
    BY <1>2
  <2>3. t = s
    BY <1>1, <1>3, <2>1, <2>2 DEF EndLinePart
  <2>4. QED
    BY <2>1, <2>2, <2>3
<1> DEFINE number == [l \in told |-> l.line.pause.n]
           text == [l \in told |-> l.line]
<1> HIDE DEF told
<1>4. IsFiniteSet(told)
  <2>1. number \in Injection(told, 1..Len(paused))
    BY <1>2, <1>3 DEF Injection, IsInjective
  <2>2. IsFiniteSet(1..Len(paused))
    <3>1. 1 \in Int /\ Len(paused) \in Int
      BY <1>1, EndedTyped
    <3>2. QED
      BY <3>1, FS_Interval
  <2>3. QED
    BY <2>1, <2>2, FS_Injection
<1>5. Cardinality(told) = Cardinality(lines)
  <2>1. text \in Bijection(told, lines)
    BY <1>3 DEF Bijection, Injection, Surjection, IsInjective
  <2> HIDE DEF lines, text
  <2>2. QED
    BY <1>4, <2>1, FS_Bijection DEF ExistsBijection
<1>6. QED
  BY <1>3, <1>4, <1>5 DEF told

Repeated(x, y) ==
  /\ x.file = y.file /\ x.line.pause.n < y.line.pause.n
  /\ x.line.pause.id = y.line.pause.id /\ x.line.pause.kind = y.line.pause.kind

(* A pause within the window that is not told was repeated.                  *)
LEMMA UntoldIsRepeated ==
  ASSUME GcInv, PauseInv, NEW given \in G!Givens, NEW w, NEW i \in DOMAIN paused, G!InWindow(paused[i].line, w),
         \A l \in G!PausesOf(given, w) : l.line # paused[i].line
  PROVE  /\ paused[i].line.pause.kind.again = 1
         /\ \E j \in DOMAIN paused : /\ Repeated(paused[i], paused[j])
                                     /\ \E l \in G!PausesOf(given, w) : l.line = paused[j].line
<1> DEFINE told == G!PausesOf(given, w)
<1>1. JvmPart /\ PrintPart /\ EndLinePart /\ IdPart
  BY DEF GcInv, PauseInv
<1>2. PICK t \in EndPlaces : LineAt(t) = paused[i].line /\ t[1] = paused[i].file
  BY <1>1 DEF EndLinePart
<1>3. ReadAt(t) \notin told
  BY <1>2 DEF ReadAt
<1>4. PICK s \in EndPlaces : G!Key(ReadAt(s)) = G!Key(ReadAt(t)) /\ t[2] < s[2] /\ ReadAt(s) \in told
  BY <1>2, <1>3, FoundPauses
<1>5. PICK j \in DOMAIN paused : LineAt(s) = paused[j].line /\ s[1] = paused[j].file
  BY <1>1 DEF EndLinePart
<1> DEFINE p == paused[i].line.pause
           q == paused[j].line.pause
<1>6. s[1] = t[1] /\ q.id = p.id /\ q.kind.gen = p.kind.gen /\ q.kind.name = p.kind.name
  <2>1. \A r : G!Key(ReadAt(r)) = <<r[1], LineAt(r).pause.id, LineAt(r).pause.kind.gen, LineAt(r).pause.kind.name>>
    BY DEF G!Key, ReadAt
  <2>2. <<s[1], LineAt(s).pause.id, LineAt(s).pause.kind.gen, LineAt(s).pause.kind.name>> =
          <<t[1], LineAt(t).pause.id, LineAt(t).pause.kind.gen, LineAt(t).pause.kind.name>>
    BY <1>4, <2>1
  <2>3. /\ s[1] = t[1] /\ LineAt(s).pause.id = LineAt(t).pause.id
        /\ LineAt(s).pause.kind.gen = LineAt(t).pause.kind.gen /\ LineAt(s).pause.kind.name = LineAt(t).pause.kind.name
    BY <2>2
  <2>4. QED
    BY <1>2, <1>5, <2>3
<1>7. LineAt(t).pause.n = i /\ LineAt(s).pause.n = j /\ p.n = i /\ q.n = j /\ i \in Nat /\ j \in Nat
  BY <1>1, <1>2, <1>5, EndedTyped DEF EndLinePart
<1>8. t[2] \in Nat /\ s[2] \in Nat /\ t[1] \in Nat
  BY <1>1, PlacesTyped DEF EndPlaces
<1>9. i < j
  <2>1. i # j
    BY <1>1, <1>4, <1>7, <1>8 DEF EndLinePart
  <2>2. ~(j < i)
    <3>1. ~Precedes(s, t)
      BY <1>4, <1>6, <1>8 DEF Precedes
    <3>2. QED
      BY <1>1, <1>7, <3>1 DEF EndLinePart
  <2>3. QED
    BY <1>7, <2>1, <2>2
<1>10. p \in G!Started \ {G!NoPause} /\ q \in G!Started \ {G!NoPause} /\ p # q
  <2>1. p # q /\ p.n # 0 /\ q.n # 0
    <3>1. i # 0 /\ j # 0 /\ i # j
      BY <1>1, <1>7, <1>9, EndedTyped
    <3>2. QED
      BY <1>7, <3>1
  <2>2. QED
    BY <1>1, <2>1, EndedTyped, NoPauseTyped
<1>11. p.kind = q.kind
  BY <1>1, <1>6, <1>10, KindsDiffer DEF IdPart, JvmPart
<1>12. p.kind.again = 1
  BY <1>1, <1>6, <1>10, <1>11 DEF IdPart
<1>13. Repeated(paused[i], paused[j])
  BY <1>2, <1>5, <1>6, <1>7, <1>9, <1>11 DEF Repeated
<1>14. ReadAt(s).line = paused[j].line
  BY <1>5 DEF ReadAt
<1>15. QED
  BY <1>4, <1>12, <1>13, <1>14

LEMMA PausesAreTold == ASSUME GcInv, PauseInv PROVE G!PausesTold
<1>2. \A reading \in G!Readings : reading[1] \in G!Givens
  BY DEF G!Readings, G!Givens
<1>3. ASSUME NEW given \in G!Givens, NEW w
      PROVE  LET told == G!PausesOf(given, w)
                 IsTold(x) == \E l \in told : l.line = x.line
                 Repeats(x, y) == /\ x.file = y.file /\ x.line.pause.n < y.line.pause.n
                                  /\ x.line.pause.id = y.line.pause.id /\ x.line.pause.kind = y.line.pause.kind
             IN  /\ \A l \in told : \E i \in DOMAIN paused : paused[i].line = l.line /\ G!InWindow(l.line, w)
                 /\ G!Cardinality(told) = G!Cardinality({l.line : l \in told})
                 /\ \A i \in DOMAIN paused :
                      G!InWindow(paused[i].line, w) /\ ~IsTold(paused[i]) =>
                        /\ paused[i].line.pause.kind.again = 1
                        /\ \E j \in DOMAIN paused : Repeats(paused[i], paused[j]) /\ IsTold(paused[j])
  <2> DEFINE told == G!PausesOf(given, w)
             IsTold(x) == \E l \in told : l.line = x.line
             Repeats(x, y) == /\ x.file = y.file /\ x.line.pause.n < y.line.pause.n
                              /\ x.line.pause.id = y.line.pause.id /\ x.line.pause.kind = y.line.pause.kind
  <2>1. \A l \in told : \E i \in DOMAIN paused : paused[i].line = l.line /\ G!InWindow(l.line, w)
    <3>1. ASSUME NEW l \in told PROVE \E i \in DOMAIN paused : paused[i].line = l.line /\ G!InWindow(l.line, w)
      <4>1. PICK t \in EndPlaces : /\ l = ReadAt(t) /\ G!InWindow(LineAt(t), w)
                                   /\ \E i \in DOMAIN paused : l.line = paused[i].line
        BY <3>1, FoundPauses
      <4>2. QED
        BY <4>1 DEF ReadAt
    <3>2. QED
      BY <3>1
  <2>2. G!Cardinality(told) = G!Cardinality({l.line : l \in told})
    BY EachToldOnce, CardinalityOfLog
  <2>3. ASSUME NEW i \in DOMAIN paused, G!InWindow(paused[i].line, w), ~IsTold(paused[i])
        PROVE  /\ paused[i].line.pause.kind.again = 1
               /\ \E j \in DOMAIN paused : Repeats(paused[i], paused[j]) /\ IsTold(paused[j])
    <3>1. \A l \in told : l.line # paused[i].line
      BY <2>3
    <3>2. PICK j \in DOMAIN paused : Repeated(paused[i], paused[j]) /\ \E l \in told : l.line = paused[j].line
      BY <2>3, <3>1, UntoldIsRepeated
    <3>3. Repeats(paused[i], paused[j]) /\ IsTold(paused[j])
      BY <3>2 DEF Repeated
    <3>4. paused[i].line.pause.kind.again = 1
      BY <2>3, <3>1, UntoldIsRepeated
    <3>5. QED
      BY <3>3, <3>4
  <2>4. \A i \in DOMAIN paused :
          G!InWindow(paused[i].line, w) /\ ~IsTold(paused[i]) =>
            /\ paused[i].line.pause.kind.again = 1
            /\ \E j \in DOMAIN paused : Repeats(paused[i], paused[j]) /\ IsTold(paused[j])
    <3> HIDE DEF IsTold, Repeats
    <3>1. QED
      BY <2>3
  <2>5. QED
    BY <2>1, <2>2, <2>4
<1>4. QED
  BY <1>2, <1>3 DEF G!PausesTold

LEMMA RoomBetween ==
  ASSUME NEW lo \in Nat, NEW hi \in Nat, lo <= hi
  PROVE  IsFiniteSet((lo + 1)..hi) /\ Cardinality((lo + 1)..hi) = hi - lo
<1>1. lo + 1 \in Int /\ hi \in Int
  OBVIOUS
<1>2. IsFiniteSet((lo + 1)..hi) /\ Cardinality((lo + 1)..hi) = IF lo + 1 > hi THEN 0 ELSE hi - (lo + 1) + 1
  BY <1>1, FS_Interval
<1>3. QED
  BY <1>2

(* Pieces that do not overlap fit between their bounds, and fill what they   *)
(* cover.                                                                    *)
PiecesWithin(all, extent, start, lo, hi) == \A x \in all : lo <= start[x] /\ start[x] + extent[x] <= hi
PiecesApart(all, extent, start) ==
  \A x, y \in all : x # y => start[x] + extent[x] <= start[y] \/ start[y] + extent[y] <= start[x]
PiecesFill(all, extent, start, lo, hi) ==
  \A k \in (lo + 1)..hi : \E x \in all : start[x] < k /\ k <= start[x] + extent[x]

LEMMA UnitsFit ==
  ASSUME NEW all, NEW extent \in [all -> Nat], NEW start \in [all -> Nat], NEW lo \in Nat, NEW hi \in Nat, lo <= hi,
         PiecesWithin(all, extent, start, lo, hi), PiecesApart(all, extent, start)
  PROVE  G!SumOf(extent) <= hi - lo /\ (PiecesFill(all, extent, start, lo, hi) => G!SumOf(extent) = hi - lo)
<1>a. /\ \A x \in all : lo <= start[x] /\ start[x] + extent[x] <= hi
      /\ \A x, y \in all : x # y => start[x] + extent[x] <= start[y] \/ start[y] + extent[y] <= start[x]
  BY DEF PiecesWithin, PiecesApart
<1> DEFINE units == G!Units(extent)
           at == [u \in units |-> start[u[1]] + u[2]]
<1>1. \A u \in units : u[1] \in all /\ u[2] \in 1..extent[u[1]] /\ u = <<u[1], u[2]>>
  BY DEF G!Units
<1>2. \A x \in all : \A k \in 1..extent[x] : <<x, k>> \in units
  BY DEF G!Units
<1> HIDE DEF units
<1>3. ASSUME NEW u \in units PROVE start[u[1]] + u[2] \in (lo + 1)..hi
  <2>1. u[1] \in all /\ start[u[1]] \in Nat /\ extent[u[1]] \in Nat /\ u[2] \in 1..extent[u[1]]
    BY <1>1
  <2>2. QED
    BY <1>a, <2>1
<1>4. ASSUME NEW u \in units, NEW v \in units, start[u[1]] + u[2] = start[v[1]] + v[2] PROVE u = v
  <2>1. /\ u[1] \in all /\ start[u[1]] \in Nat /\ extent[u[1]] \in Nat /\ u[2] \in 1..extent[u[1]]
        /\ v[1] \in all /\ start[v[1]] \in Nat /\ extent[v[1]] \in Nat /\ v[2] \in 1..extent[v[1]]
    BY <1>1
  <2>2. u[1] = v[1]
    <3>1. SUFFICES ASSUME u[1] # v[1] PROVE FALSE
      OBVIOUS
    <3>2. start[u[1]] + extent[u[1]] <= start[v[1]] \/ start[v[1]] + extent[v[1]] <= start[u[1]]
      BY <1>a, <2>1, <3>1
    <3>3. QED
      BY <1>4, <2>1, <3>2
  <2>3. u[2] = v[2]
    BY <1>4, <2>1, <2>2
  <2>4. QED
    BY <1>1, <2>2, <2>3
<1>5. at \in Injection(units, (lo + 1)..hi)
  BY <1>3, <1>4 DEF Injection, IsInjective
<1>6. IsFiniteSet((lo + 1)..hi) /\ Cardinality((lo + 1)..hi) = hi - lo
  BY RoomBetween
<1>7. Cardinality(units) <= hi - lo /\ (at \in Surjection(units, (lo + 1)..hi) => Cardinality(units) = hi - lo)
  <2> HIDE DEF at
  <2>1. QED
    BY <1>5, <1>6, FS_Injection
<1>8. ASSUME PiecesFill(all, extent, start, lo, hi)
      PROVE  at \in Surjection(units, (lo + 1)..hi)
  <2>1. ASSUME NEW k \in (lo + 1)..hi PROVE \E u \in units : at[u] = k
    <3>1. PICK x \in all : start[x] < k /\ k <= start[x] + extent[x]
      BY <1>8 DEF PiecesFill
    <3>2. start[x] \in Nat /\ extent[x] \in Nat /\ k \in Nat
      OBVIOUS
    <3>3. k - start[x] \in 1..extent[x] /\ start[x] + (k - start[x]) = k
      BY <3>1, <3>2
    <3>4. <<x, k - start[x]>> \in units
      BY <1>2, <3>3
    <3>5. at[<<x, k - start[x]>>] = k
      BY <3>3, <3>4
    <3>6. QED
      BY <3>4, <3>5
  <2>2. at \in [units -> (lo + 1)..hi]
    BY <1>3
  <2> HIDE DEF at
  <2>3. QED
    BY <2>1, <2>2 DEF Surjection
<1>9. G!SumOf(extent) = Cardinality(units)
  BY CardinalityOfLog DEF G!SumOf, units
<1>10. QED
  BY <1>7, <1>8, <1>9

LEMMA BoundsOfLog ==
  ASSUME NEW ups, ups \subseteq Nat, NEW top \in Nat, \A u \in ups : u <= top, ups # {}
  PROVE  /\ G!Min(ups) \in ups /\ G!Max(ups) \in ups /\ G!Min(ups) \in Nat /\ G!Max(ups) \in Nat
         /\ \A u \in ups : G!Min(ups) <= u /\ u <= G!Max(ups)
<1>1. \E x \in ups : \A y \in ups : x <= y
  BY LeastNumber
<1>2. \E x \in ups : \A y \in ups : x >= y
  <2> DEFINE more == {u + 1 : u \in ups}
  <2>1. more # {} /\ \A k \in more : \E u \in ups : k = u + 1
    OBVIOUS
  <2>2. ASSUME NEW u \in ups PROVE u \in Nat /\ u + 1 \in 1..(top + 1)
    <3>1. u \in Nat /\ u <= top
      OBVIOUS
    <3>2. QED
      BY <3>1
  <2>3. more \subseteq 1..(top + 1)
    BY <2>1, <2>2
  <2>4. \E x \in more : \A y \in more : y <= x
    <3> DEFINE n == top + 1
    <3>1. n \in Nat /\ more \subseteq 1..n
      BY <2>3
    <3> HIDE DEF more, n
    <3>2. QED
      BY <2>1, <3>1, GreatestNumber
  <2>5. PICK x \in ups : \A y \in more : y <= x + 1
    BY <2>1, <2>4
  <2>6. \A y \in ups : y + 1 <= x + 1
    BY <2>5
  <2>7. QED
    BY <2>2, <2>6
<1>3. G!Min(ups) \in ups /\ \A u \in ups : G!Min(ups) <= u
  BY <1>1 DEF G!Min
<1>4. G!Max(ups) \in ups /\ \A u \in ups : G!Max(ups) >= u
  BY <1>2 DEF G!Max
<1>5. QED
  BY <1>3, <1>4

(* The pauses that are told follow one another.                              *)
LEMMA ToldInOrder ==
  ASSUME GcInv, PauseInv, NEW given \in G!Givens, NEW w
  PROVE  LET told == G!PausesOf(given, w)
         IN  /\ \A l \in told :
                  /\ \E i \in DOMAIN paused : l.line = paused[i].line /\ i = l.line.pause.n
                  /\ l.line.up \in Nat /\ l.line.ms \in Nat /\ l.line.pause.began \in Nat /\ l.line.up <= MaxUp[collector]
                  /\ l.line.pause.began + l.line.ms = l.line.up
                  /\ l \in G!Read(given, w)
             /\ \A l, m \in told : l # m => \/ l.line.up <= m.line.pause.began /\ l.line.pause.n < m.line.pause.n
                                            \/ m.line.up <= l.line.pause.began /\ m.line.pause.n < l.line.pause.n
<1> DEFINE told == G!PausesOf(given, w)
<1>1. JvmPart /\ PrintPart /\ EndLinePart /\ TimePart
  BY DEF GcInv, PauseInv
<1>2. ASSUME NEW l \in told
      PROVE  /\ \E i \in DOMAIN paused : l.line = paused[i].line /\ i = l.line.pause.n
             /\ l.line.up <= MaxUp[collector] /\ l \in G!Read(given, w)
  <2>1. PICK t \in EndPlaces : l = ReadAt(t) /\ \E i \in DOMAIN paused : l.line = paused[i].line
    BY <1>2, FoundPauses
  <2>2. PICK i \in DOMAIN paused : l.line = paused[i].line
    BY <2>1
  <2>3. l.line.up <= MaxUp[collector]
    BY <1>1, <2>1 DEF PrintPart, EndPlaces, ReadAt
  <2>4. i = l.line.pause.n
    BY <1>1, <2>2 DEF EndLinePart
  <2>5. l \in G!Read(given, w)
    BY DEF G!PausesOf
  <2>6. QED
    BY <2>2, <2>3, <2>4, <2>5
<1> HIDE DEF told
<1>3. ASSUME NEW l \in told
      PROVE  /\ l.line.up \in Nat /\ l.line.ms \in Nat /\ l.line.pause.began \in Nat
             /\ l.line.pause.began + l.line.ms = l.line.up
  <2>1. PICK i \in DOMAIN paused : l.line = paused[i].line
    BY <1>2
  <2>2. QED
    BY <1>1, <2>1, EndedTyped DEF TimePart
<1>4. ASSUME NEW l \in told, NEW m \in told, l # m
      PROVE  \/ l.line.up <= m.line.pause.began /\ l.line.pause.n < m.line.pause.n
             \/ m.line.up <= l.line.pause.began /\ m.line.pause.n < l.line.pause.n
  <2>1. PICK i \in DOMAIN paused : l.line = paused[i].line /\ i = l.line.pause.n
    BY <1>2
  <2>2. PICK j \in DOMAIN paused : m.line = paused[j].line /\ j = m.line.pause.n
    BY <1>2
  <2>3. i # j
    BY <1>4, <2>1, <2>2, EachToldOnce DEF told
  <2>4. i < j \/ j < i
    BY <1>1, <2>3, EndedTyped
  <2>5. QED
    BY <1>1, <2>1, <2>2, <2>4 DEF TimePart
<1>5. QED
  BY <1>2, <1>3, <1>4 DEF told

LEMMA FractionFits == ASSUME GcInv, PauseInv PROVE G!FractionIsPossible
<1>1. JvmPart /\ PrintPart /\ TimePart
  BY DEF GcInv, PauseInv
<1>2. G!All \in G!Givens
  BY DEF G!Givens
<1>3. SUFFICES ASSUME NEW w \in G!Windows
               PROVE  LET told == G!PausesOf(G!All, w)
                          ups == G!Uptimes(G!All, w)
                          early == {l \in told : \A u \in ups : l.line.pause.began < u}
                      IN  /\ G!PauseTime(told \ early) <= G!Elapsed(ups)
                          /\ G!Cardinality(early) <= 1
                          /\ w = G!Everything => early = {}
  BY DEF G!FractionIsPossible
<1> DEFINE told == G!PausesOf(G!All, w)
           ups == G!Uptimes(G!All, w)
           early == {l \in told : \A u \in ups : l.line.pause.began < u}
           late == told \ early
           extent == [l \in late |-> l.line.ms]
           start == [l \in late |-> l.line.pause.began]
<1>4. /\ \A l \in told : /\ l.line.up \in Nat /\ l.line.ms \in Nat /\ l.line.pause.began \in Nat
                         /\ l.line.pause.began + l.line.ms = l.line.up /\ l.line.up \in ups
      /\ \A l, m \in told : l # m => l.line.up <= m.line.pause.began \/ m.line.up <= l.line.pause.began
  BY <1>2, ToldInOrder DEF G!Uptimes
<1>5. /\ ups \subseteq Nat /\ MaxUp[collector] \in Nat /\ \A u \in ups : u <= MaxUp[collector]
  <2>1. MaxUp[collector] \in Nat
    BY <1>1, UptimeAssumption DEF JvmPart
  <2>2. G!Read(G!All, w) = {l \in {[path |-> t[1], no |-> t[2], line |-> LineAt(t)] : t \in Places} : G!InWindow(l.line, w)}
    BY <1>1, <1>2, AllAreRead
  <2>3. ASSUME NEW u \in ups PROVE \E t \in Places : u = LineAt(t).up
    <3>1. PICK l \in G!Read(G!All, w) : u = l.line.up
      BY <2>3 DEF G!Uptimes
    <3>2. QED
      BY <2>2, <3>1
  <2>4. ASSUME NEW u \in ups PROVE u \in Nat /\ u <= MaxUp[collector]
    BY <1>1, <2>3, PlacesTyped DEF PrintPart
  <2>5. QED
    BY <2>1, <2>4
<1>6. w = G!Everything => early = {}
  <2>1. SUFFICES ASSUME w = G!Everything, NEW l \in early PROVE FALSE
    OBVIOUS
  <2>2. PICK t \in Places : LineAt(t).up = 0
    BY <1>1 DEF TimePart
  <2>3. G!InWindow(LineAt(t), w)
    BY <1>5, <2>1, <2>2 DEF G!InWindow, G!Everything
  <2>4. [path |-> t[1], no |-> t[2], line |-> LineAt(t)] \in G!Read(G!All, w)
    BY <1>1, <1>2, <2>3, AllAreRead
  <2>5. 0 \in ups
    BY <2>2, <2>4 DEF G!Uptimes
  <2>6. l.line.pause.began < 0 /\ l.line.pause.began \in Nat
    BY <1>4, <2>1, <2>5
  <2>7. QED
    BY <2>6
<1>7. G!Cardinality(early) <= 1
  <2>1. ASSUME NEW l \in early, NEW m \in early PROVE l = m
    <3>1. /\ l \in told /\ m \in told /\ l.line.pause.began < m.line.up /\ m.line.pause.began < l.line.up
      BY <1>4, <2>1
    <3>2. l.line.up \in Nat /\ m.line.up \in Nat /\ l.line.pause.began \in Nat /\ m.line.pause.began \in Nat
      BY <1>4, <3>1
    <3> HIDE DEF told, ups, early
    <3>3. QED
      BY <1>4, <3>1, <3>2
  <2>2. early = {} \/ \E l : early = {l}
    <3> HIDE DEF early
    <3>1. QED
      BY <2>1
  <2>3. Cardinality(early) <= 1
    <3> HIDE DEF early
    <3>1. CASE early = {}
      <4>1. Cardinality({}) = 0
        BY FS_EmptySet
      <4>2. QED
        BY <3>1, <4>1
    <3>2. CASE \E l : early = {l}
      <4>1. PICK l : early = {l}
        BY <3>2
      <4>2. Cardinality({l}) = 1
        BY FS_Singleton
      <4>3. QED
        BY <4>1, <4>2
    <3>3. QED
      BY <2>2, <3>1, <3>2
  <2>4. QED
    BY <2>3, CardinalityOfLog
<1>8. G!PauseTime(late) <= G!Elapsed(ups)
  <2>1. G!PauseTime(late) = G!SumOf(extent)
    BY DEF G!PauseTime
  <2>2. \A l \in late : l \in told /\ \E u \in ups : ~(l.line.pause.began < u)
    OBVIOUS
  <2> HIDE DEF told, ups, late
  <2>3. extent \in [late -> Nat] /\ start \in [late -> Nat]
    BY <1>4, <2>2
  <2>4. PiecesApart(late, extent, start)
    BY <1>4, <2>2 DEF PiecesApart
  <2>5. CASE ups = {}
    <3>1. late = {}
      BY <2>2, <2>5
    <3>2. G!SumOf(extent) <= 0 - 0
      <4> HIDE DEF extent, start
      <4>1. 0 \in Nat /\ 0 <= 0 /\ PiecesWithin(late, extent, start, 0, 0)
        BY <3>1 DEF PiecesWithin
      <4>2. QED
        BY <2>3, <2>4, <4>1, UnitsFit
    <3>3. QED
      BY <2>1, <2>5, <3>2 DEF G!Elapsed
  <2>6. CASE ups # {}
    <3> DEFINE lo == G!Min(ups)
               hi == G!Max(ups)
    <3>1. lo \in ups /\ hi \in ups /\ lo \in Nat /\ hi \in Nat /\ \A u \in ups : lo <= u /\ u <= hi
      BY <1>5, <2>6, BoundsOfLog
    <3> HIDE DEF lo, hi
    <3>2. PiecesWithin(late, extent, start, lo, hi)
      <4>1. ASSUME NEW l \in late PROVE lo <= l.line.pause.began /\ l.line.pause.began + l.line.ms <= hi
        <5>1. PICK u \in ups : ~(l.line.pause.began < u)
          BY <2>2, <4>1
        <5>2. l.line.pause.began \in Nat /\ u \in Nat /\ lo <= u /\ l.line.pause.began + l.line.ms \in ups
          BY <1>4, <1>5, <2>2, <3>1, <4>1, <5>1
        <5>3. lo <= l.line.pause.began
          BY <3>1, <5>1, <5>2
        <5>4. l.line.pause.began + l.line.ms <= hi
          BY <3>1, <5>2
        <5>5. QED
          BY <5>3, <5>4
      <4>2. QED
        BY <4>1 DEF PiecesWithin
    <3>3. lo <= hi
      BY <3>1
    <3>4. G!SumOf(extent) <= hi - lo
      <4> HIDE DEF extent, start
      <4>1. QED
        BY <2>3, <2>4, <3>1, <3>2, <3>3, UnitsFit
    <3>5. G!Elapsed(ups) = hi - lo
      BY <2>6 DEF G!Elapsed, lo, hi
    <3>6. QED
      BY <2>1, <3>4, <3>5
  <2>7. QED
    BY <2>5, <2>6
<1>9. QED
  BY <1>6, <1>7, <1>8

(* What lies between one number and the next adds up to what lies between    *)
(* the first and the last.                                                   *)
Chained(all, first, final, at, amount, prior, extent) ==
  /\ first \in all /\ final \in all /\ at \in [all -> Nat] /\ amount \in [all -> Nat]
  /\ prior \in [all \ {first} -> all] /\ extent \in [all \ {first} -> Nat]
  /\ \A x, y \in all : at[x] = at[y] => x = y
  /\ \A x, y \in all : at[x] <= at[y] => amount[x] <= amount[y]
  /\ \A x \in all : at[first] <= at[x] /\ at[x] <= at[final]
  /\ \A x \in all \ {first} : at[prior[x]] < at[x] /\ \A y \in all : at[y] < at[x] => at[y] <= at[prior[x]]
  /\ \A x \in all \ {first} : extent[x] <= amount[x] - amount[prior[x]]

LEMMA GrowthAlong ==
  ASSUME NEW all, NEW first, NEW final, NEW at, NEW amount, NEW prior, NEW extent,
         Chained(all, first, final, at, amount, prior, extent)
  PROVE  /\ G!SumOf(extent) <= amount[final] - amount[first]
         /\ (\A x \in all \ {first} : extent[x] = amount[x] - amount[prior[x]]) => G!SumOf(extent) = amount[final] - amount[first]
<1> DEFINE rest == all \ {first}
           start == [x \in rest |-> amount[prior[x]]]
           lo == amount[first]
           hi == amount[final]
<1>1. lo \in Nat /\ hi \in Nat /\ lo <= hi
  BY DEF Chained
<1>2. start \in [rest -> Nat] /\ extent \in [rest -> Nat] /\ \A x \in rest : start[x] = amount[prior[x]]
  BY DEF Chained
<1>3. \A x \in rest : amount[x] \in Nat /\ prior[x] \in all /\ amount[prior[x]] \in Nat /\ at[x] \in Nat /\ at[prior[x]] \in Nat
  BY DEF Chained
<1>4. ASSUME NEW x \in rest PROVE lo <= start[x] /\ start[x] + extent[x] <= hi
  <2>1. lo <= amount[prior[x]]
    BY <1>3 DEF Chained
  <2>2. amount[x] <= hi
    BY <1>3 DEF Chained
  <2>3. extent[x] \in Nat /\ extent[x] <= amount[x] - amount[prior[x]]
    BY DEF Chained
  <2>4. QED
    BY <1>1, <1>2, <1>3, <2>1, <2>2, <2>3 DEF Chained
<1>5. ASSUME NEW x \in rest, NEW y \in rest, at[x] < at[y] PROVE start[x] + extent[x] <= start[y]
  <2>1. at[x] <= at[prior[y]]
    BY <1>5 DEF Chained
  <2>2. amount[x] <= amount[prior[y]]
    BY <1>3, <2>1 DEF Chained
  <2>3. extent[x] \in Nat /\ extent[x] <= amount[x] - amount[prior[x]]
    BY DEF Chained
  <2>4. QED
    BY <1>2, <1>3, <2>2, <2>3 DEF Chained
<1>6. ASSUME NEW x \in rest, NEW y \in rest, x # y
      PROVE  start[x] + extent[x] <= start[y] \/ start[y] + extent[y] <= start[x]
  <2>1. at[x] \in Nat /\ at[y] \in Nat /\ at[x] # at[y]
    BY <1>3, <1>6 DEF Chained
  <2>2. at[x] < at[y] \/ at[y] < at[x]
    BY <2>1 DEF Chained
  <2>3. QED
    BY <1>5, <2>2 DEF Chained
<1>7. ASSUME \A x \in rest : extent[x] = amount[x] - amount[prior[x]], NEW k \in (lo + 1)..hi
      PROVE  \E x \in rest : start[x] < k /\ k <= start[x] + extent[x]
  <2> DEFINE enough == {x \in all : k <= amount[x]}
             ats == {at[x] : x \in enough}
  <2>1. ats \subseteq Nat /\ ats # {}
    BY <1>1 DEF Chained
  <2>2. \E u \in ats : \A v \in ats : u <= v
    <3> HIDE DEF ats
    <3>1. QED
      BY <2>1, LeastNumber DEF Chained
  <2>3. PICK x \in enough : \A y \in enough : at[x] <= at[y]
    BY <2>2 DEF Chained
  <2>4. x \in rest
    BY <1>1, <2>3 DEF Chained
  <2>5. amount[prior[x]] < k
    <3>1. amount[prior[x]] \in Nat /\ prior[x] \in all /\ at[prior[x]] < at[x] /\ at[x] \in Nat /\ at[prior[x]] \in Nat
      BY <1>3, <2>4 DEF Chained
    <3>2. prior[x] \notin enough
      BY <2>3, <3>1 DEF Chained
    <3>3. ~ (k <= amount[prior[x]])
      BY <3>1, <3>2 DEF Chained
    <3>4. QED
      BY <1>1, <3>1, <3>3 DEF Chained
  <2>6. start[x] + extent[x] = amount[x]
    BY <1>2, <1>3, <1>7, <2>4 DEF Chained
  <2>7. QED
    BY <1>2, <2>3, <2>4, <2>5, <2>6 DEF Chained
<1> HIDE DEF rest, start, lo, hi
<1>8. G!SumOf(extent) <= hi - lo /\ (PiecesFill(rest, extent, start, lo, hi) => G!SumOf(extent) = hi - lo)
  <2>1. PiecesWithin(rest, extent, start, lo, hi) /\ PiecesApart(rest, extent, start)
    BY <1>4, <1>6 DEF PiecesWithin, PiecesApart
  <2>2. QED
    BY <1>1, <1>2, <2>1, UnitsFit
<1>9. QED
  BY <1>7, <1>8 DEF rest, lo, hi, PiecesFill

(* The first and the last pause of a set whose order is that of the uptimes. *)
Ordered(given, all, top) ==
  /\ \A l \in all : l.line.up \in Nat /\ l.line.up <= top
  /\ \A l, m \in all : l.line.up = m.line.up => l = m
  /\ \A l, m \in all : G!Before(given, l, m) <=> l.line.up < m.line.up

LEMMA EndsOfOrdered ==
  ASSUME NEW given, NEW all, NEW top \in Nat, Ordered(given, all, top), NEW s \in SUBSET all, s # {}
  PROVE  /\ G!FirstOf(given, s) \in s /\ \A l \in s : G!FirstOf(given, s).line.up <= l.line.up
         /\ G!LastOf(given, s) \in s /\ \A l \in s : l.line.up <= G!LastOf(given, s).line.up
<1> DEFINE ups == {l.line.up : l \in s}
<1>1. /\ \A l \in s : l.line.up \in Nat /\ l.line.up <= top
      /\ \A l, m \in s : l.line.up = m.line.up => l = m
      /\ \A l, m \in s : G!Before(given, l, m) <=> l.line.up < m.line.up
  BY DEF Ordered
<1>2. /\ G!Min(ups) \in ups /\ G!Max(ups) \in ups /\ G!Min(ups) \in Nat /\ G!Max(ups) \in Nat
      /\ \A u \in ups : G!Min(ups) <= u /\ u <= G!Max(ups)
  <2>1. ups \subseteq Nat /\ (\A u \in ups : u <= top) /\ ups # {}
    BY <1>1
  <2> HIDE DEF ups
  <2>2. QED
    BY <2>1, BoundsOfLog
<1>3. /\ \E f \in s : \A l \in s : f.line.up <= l.line.up
      /\ \E f \in s : \A l \in s : l.line.up <= f.line.up
  BY <1>2
<1>4. \A l, m \in s : l # m => (G!Before(given, l, m) <=> l.line.up <= m.line.up)
  BY <1>1
<1>5. /\ \E f \in s : \A m \in s \ {f} : G!Before(given, f, m)
      /\ \E f \in s : \A m \in s \ {f} : G!Before(given, m, f)
  BY <1>3, <1>4
<1>6. /\ G!FirstOf(given, s) \in s /\ \A m \in s \ {G!FirstOf(given, s)} : G!Before(given, G!FirstOf(given, s), m)
      /\ G!LastOf(given, s) \in s /\ \A m \in s \ {G!LastOf(given, s)} : G!Before(given, m, G!LastOf(given, s))
  BY <1>5 DEF G!FirstOf, G!LastOf
<1> DEFINE f == G!FirstOf(given, s)
           g == G!LastOf(given, s)
<1>7. f \in s /\ g \in s /\ (\A m \in s \ {f} : G!Before(given, f, m)) /\ (\A m \in s \ {g} : G!Before(given, m, g))
  BY <1>6
<1> HIDE DEF f, g
<1>8. (\A l \in s : f.line.up <= l.line.up) /\ (\A l \in s : l.line.up <= g.line.up)
  BY <1>1, <1>4, <1>7
<1>9. QED
  BY <1>7, <1>8 DEF f, g

LEMMA PositionIsNumber ==
  ASSUME JvmPart, NEW given \in G!Givens, NEW p, p \in G!Range(given)
  PROVE  G!Position(given, p) \in Nat
<1> DEFINE found == {i \in DOMAIN given : given[i] = p}
<1>1. DOMAIN given \subseteq Nat
  <2>1. G!All \in Seq(Nat) /\ G!Back \in Seq(Int)
    BY DEF G!All, G!Back, JvmPart
  <2>2. QED
    BY <2>1 DEF G!Givens
<1>2. found \subseteq Nat /\ found # {}
  BY <1>1 DEF G!Range
<1>3. \E x \in found : \A y \in found : x <= y
  <2> HIDE DEF found
  <2>1. QED
    BY <1>2, LeastNumber
<1>4. G!Min(found) \in found
  BY <1>3 DEF G!Min
<1>5. QED
  BY <1>2, <1>4 DEF G!Position

(* The pauses with sizes of a summary, when no two share an uptime.          *)
LEMMA SizedAreOrdered ==
  ASSUME GcInv, PauseInv, NEW given \in G!Givens, NEW w,
         G!Cardinality({l.line.up : l \in G!SizedPauses(given, w)}) = G!Cardinality(G!SizedPauses(given, w))
  PROVE  /\ Ordered(given, G!SizedPauses(given, w), MaxUp[collector])
         /\ \A l, m \in G!SizedPauses(given, w) : l.line.up < m.line.up <=> l.line.pause.n < m.line.pause.n
<1> DEFINE sized == G!SizedPauses(given, w)
           ups == {l.line.up : l \in sized}
           upOf == [l \in sized |-> l.line.up]
<1>1. \A l \in sized : l \in G!PausesOf(given, w)
  BY DEF G!SizedPauses
<1>2. \A l \in sized : /\ l.line.up \in Nat /\ l.line.ms \in Nat /\ l.line.pause.began \in Nat /\ l.line.up <= MaxUp[collector]
                       /\ l.line.pause.began + l.line.ms = l.line.up /\ l \in G!Read(given, w)
                       /\ \E i \in DOMAIN paused : i = l.line.pause.n
  BY <1>1, ToldInOrder
<1>3. \A l, m \in sized : l # m => \/ l.line.up <= m.line.pause.began /\ l.line.pause.n < m.line.pause.n
                                   \/ m.line.up <= l.line.pause.began /\ m.line.pause.n < l.line.pause.n
  BY <1>1, ToldInOrder
<1>4. JvmPart
  BY DEF GcInv
<1>5. \A l \in sized : l.line.pause.n \in Nat /\ l.no \in Nat
  <2>1. \A l \in sized : l.line.pause.n \in Nat
    BY <1>2, <1>4, EndedTyped
  <2>2. ASSUME NEW l \in sized PROVE l.no \in Nat
    <3>1. PICK t \in EndPlaces : l = ReadAt(t)
      BY <1>1, <2>2, FoundPauses
    <3>2. t \in Places
      BY DEF EndPlaces
    <3>3. QED
      BY <1>4, <3>1, <3>2, PlacesTyped DEF ReadAt
  <2>3. QED
    BY <2>1, <2>2
<1>6. \A l, m \in sized : l.line.up = m.line.up => l = m
  <2>1. IsFiniteSet(sized)
    <3>1. IsFiniteSet(G!PausesOf(given, w))
      BY EachToldOnce
    <3>2. sized \in SUBSET G!PausesOf(given, w)
      BY <1>1
    <3>3. QED
      BY <3>1, <3>2, FS_Subset
  <2>2. upOf \in Surjection(sized, ups)
    BY DEF Surjection
  <2>3. Cardinality(ups) = Cardinality(sized)
    BY CardinalityOfLog
  <2>4. upOf \in Injection(sized, ups)
    <3> HIDE DEF sized, ups, upOf
    <3>1. QED
      BY <2>1, <2>2, <2>3, FS_SurjSameCardinalityImpliesInj
  <2>5. QED
    BY <2>4 DEF Injection, IsInjective
<1> HIDE DEF sized
<1>7. \A l, m \in sized : l.line.up < m.line.up <=> l.line.pause.n < m.line.pause.n
  <2>1. ASSUME NEW l \in sized, NEW m \in sized PROVE l.line.up < m.line.up <=> l.line.pause.n < m.line.pause.n
    <3>1. CASE l = m
      BY <1>2, <1>5, <3>1
    <3>2. CASE l # m
      <4>1. l.line.up # m.line.up
        BY <1>6, <3>2
      <4>2. QED
        BY <1>2, <1>3, <1>5, <3>2, <4>1
    <3>3. QED
      BY <3>1, <3>2
  <2>2. QED
    BY <2>1
<1>8. \A l, m \in sized : G!Before(given, l, m) <=> l.line.up < m.line.up
  <2>1. ASSUME NEW l \in sized, NEW m \in sized PROVE G!Before(given, l, m) <=> l.line.up < m.line.up
    <3>1. CASE l = m
      <4>1. G!Position(given, l.path) \in Nat
        <5>1. l.path \in G!Range(given)
          BY <1>1 DEF sized, G!PausesOf, G!Read
        <5>2. QED
          BY <1>4, <5>1, PositionIsNumber
      <4>2. ~ G!BeforeAsRead(given, l, l)
        BY <1>5, <4>1 DEF G!BeforeAsRead
      <4>3. l.line.pause.id \in Nat /\ l.line.up \in Nat
        <5>1. PICK i \in DOMAIN paused : l.line = paused[i].line
          BY <1>1, ToldInOrder DEF sized
        <5>2. QED
          BY <1>4, <5>1, EndedTyped
      <4>4. QED
        BY <3>1, <4>2, <4>3 DEF G!Before
    <3>2. CASE l # m
      <4>1. l.line.up # m.line.up /\ l.line.up \in Nat /\ m.line.up \in Nat
        BY <1>2, <1>6, <3>2
      <4>2. QED
        BY <4>1 DEF G!Before
    <3>3. QED
      BY <3>1, <3>2
  <2>2. QED
    BY <2>1
<1>9. QED
  BY <1>2, <1>6, <1>7, <1>8 DEF Ordered, sized

LEMMA SizedNeverRepeats ==
  ASSUME NEW c \in DOMAIN G!Kinds, NEW k \in G!Kinds[c], k.sized = 1
  PROVE  k.again = 0
<1>1. DOMAIN G!Kinds = {"Parallel", "G1", "Shenandoah", "ZGC"}
  BY DEF G!Kinds
<1>2. CASE c = "Parallel"
  BY <1>2 DEF G!Kinds
<1>3. CASE c = "G1"
  BY <1>3 DEF G!Kinds
<1>4. CASE c = "Shenandoah"
  BY <1>4 DEF G!Kinds
<1>5. CASE c = "ZGC"
  BY <1>5 DEF G!Kinds
<1>6. QED
  BY <1>1, <1>2, <1>3, <1>4, <1>5

(* No pause with sizes lies between one of the summary and the next.         *)
LEMMA NoneBetween ==
  ASSUME GcInv, PauseInv, NEW given \in G!Givens, NEW w \in G!Windows \cup {G!Everything},
         NEW l \in G!SizedPauses(given, w), NEW m \in G!SizedPauses(given, w),
         \A x \in G!SizedPauses(given, w) : ~ (l.line.pause.n < x.line.pause.n /\ x.line.pause.n < m.line.pause.n)
  PROVE  Unsized(l.line.pause.n, m.line.pause.n)
<1>1. JvmPart /\ EndLinePart /\ IdPart /\ TimePart
  BY DEF GcInv, PauseInv
<1>2. l \in G!PausesOf(given, w) /\ m \in G!PausesOf(given, w)
  BY DEF G!SizedPauses
<1>3. /\ \E i \in DOMAIN paused : l.line = paused[i].line /\ i = l.line.pause.n
      /\ \E i \in DOMAIN paused : m.line = paused[i].line /\ i = m.line.pause.n
  BY <1>2, ToldInOrder
<1>4. G!InWindow(l.line, w) /\ G!InWindow(m.line, w)
  BY <1>2, FoundPauses DEF ReadAt
<1>5. SUFFICES ASSUME NEW k \in DOMAIN paused, l.line.pause.n < k, k < m.line.pause.n,
                      paused[k].line.pause.kind.sized # 0
               PROVE  FALSE
  BY DEF Unsized
<1> DEFINE i == l.line.pause.n
           j == m.line.pause.n
           line == paused[k].line
<1>6. i \in DOMAIN paused /\ j \in DOMAIN paused /\ l.line = paused[i].line /\ m.line = paused[j].line
  BY <1>3
<1>7. line.pause \in G!Started \ {G!NoPause} /\ line.pause.n = k /\ k \in Nat /\ k > 0
  <2>1. line.pause.n = k /\ k \in Nat /\ k > 0 /\ line.pause \in G!Started
    BY <1>1, EndedTyped DEF EndLinePart
  <2>2. QED
    BY <2>1 DEF G!NoPause
<1>8. line.pause.kind \in G!Kinds[collector] /\ collector \in DOMAIN G!Kinds
  BY <1>1, <1>7 DEF IdPart, JvmPart
<1>9. line.pause.kind.sized = 1 /\ line.pause.kind.again = 0
  <2>1. line.pause.kind.sized \in {0, 1}
    BY <1>8, KindsTyped DEF GcKind
  <2>2. QED
    BY <1>5, <1>8, <2>1, SizedNeverRepeats
<1>10. G!InWindow(line, w)
  <2>1. /\ l.line.up \in Nat /\ m.line.up \in Nat /\ line.up \in Nat
        /\ m.line.pause.began \in Nat /\ line.pause.began \in Nat /\ line.ms \in Nat /\ m.line.ms \in Nat
    BY <1>1, <1>6, EndedTyped
  <2>2. l.line.up <= line.pause.began /\ line.up <= m.line.pause.began
    BY <1>1, <1>5, <1>6 DEF TimePart
  <2>3. line.pause.began + line.ms = line.up /\ m.line.pause.began + m.line.ms = m.line.up
    BY <1>1, <1>6 DEF TimePart
  <2>4. w.from \in Nat /\ w.to \in Nat
    <3>1. MaxUp[collector] \in Nat
      BY <1>8, UptimeAssumption
    <3>2. QED
      BY <3>1 DEF G!Windows, G!Everything
  <2>5. w.from <= l.line.up /\ m.line.up <= w.to
    BY <1>4 DEF G!InWindow
  <2> HIDE DEF line
  <2>6. w.from <= line.up /\ line.up <= w.to
    BY <2>1, <2>2, <2>3, <2>4, <2>5
  <2>7. QED
    BY <2>6 DEF G!InWindow
<1>11. \E x \in G!PausesOf(given, w) : x.line = line
  BY <1>9, <1>10, UntoldIsRepeated
<1>12. PICK x \in G!PausesOf(given, w) : x.line = line
  BY <1>11
<1>13. x \in G!SizedPauses(given, w)
  BY <1>9, <1>12 DEF G!SizedPauses
<1>14. QED
  BY <1>5, <1>7, <1>12, <1>13

(* What the heap has grown by between two pauses, as the summary takes it.   *)
LEMMA GrownIsAllocated ==
  ASSUME JvmPart, EndLinePart, HeapPart, NEW i \in DOMAIN paused, NEW j \in DOMAIN paused, i < j,
         NEW l, l.line = paused[i].line, NEW m, m.line = paused[j].line
  PROVE  /\ G!Grown(l, m) \in Nat /\ l.line.total <= m.line.total /\ l.line.freed <= m.line.freed
         /\ G!Grown(l, m) <= m.line.total - l.line.total
         /\ Unsized(i, j) /\ l.line.freed = m.line.freed => G!Grown(l, m) = m.line.total - l.line.total
<1>1. /\ l.line.total \in Nat /\ m.line.total \in Nat /\ l.line.freed \in Nat /\ m.line.freed \in Nat
      /\ l.line.after \in Nat /\ m.line.pause.before \in Nat
  BY EndedTyped
<1>2. GrewAtMost(l.line, m.line.pause.before, m.line.total, m.line.freed)
  BY DEF HeapPart
<1>3. Unsized(i, j) => GrewBy(l.line, m.line.pause.before, m.line.total, m.line.freed)
  BY DEF HeapPart
<1>4. /\ l.line.total <= m.line.total /\ l.line.freed <= m.line.freed
      /\ m.line.pause.before - l.line.after <= m.line.total - l.line.total
  BY <1>2 DEF GrewAtMost
<1>5. Unsized(i, j) => m.line.pause.before - l.line.after
                         = (m.line.total - l.line.total) - (m.line.freed - l.line.freed)
  BY <1>3 DEF GrewBy
<1>6. QED
  BY <1>1, <1>4, <1>5 DEF G!Grown

LEMMA AllocationFits ==
  ASSUME GcInv, PauseInv, NEW given \in G!Givens, NEW w \in G!Windows \cup {G!Everything}
  PROVE  LET sized == G!SizedPauses(given, w)
             ups == {l.line.up : l \in sized}
             At(u) == CHOOSE l \in sized : l.line.up = u
             Truth(f) == At(G!Max(ups)).line[f] - At(G!Min(ups)).line[f]
         IN  G!Cardinality(ups) = G!Cardinality(sized) /\ G!Cardinality(ups) >= 2 =>
               /\ G!HasAllocation(given, sized)
               /\ G!Allocation(given, sized) <= Truth("total")
               /\ Truth("freed") = 0 => G!Allocation(given, sized) = Truth("total")
<1> DEFINE sized == G!SizedPauses(given, w)
           ups == {l.line.up : l \in sized}
           At(u) == CHOOSE l \in sized : l.line.up = u
           top == MaxUp[collector]
<1>1. SUFFICES ASSUME G!Cardinality(ups) = G!Cardinality(sized), G!Cardinality(ups) >= 2
               PROVE  /\ G!HasAllocation(given, sized)
                      /\ G!Allocation(given, sized) <= At(G!Max(ups)).line["total"] - At(G!Min(ups)).line["total"]
                      /\ At(G!Max(ups)).line["freed"] - At(G!Min(ups)).line["freed"] = 0
                           => G!Allocation(given, sized) = At(G!Max(ups)).line["total"] - At(G!Min(ups)).line["total"]
  OBVIOUS
<1>2. JvmPart /\ EndLinePart /\ HeapPart /\ top \in Nat
  BY UptimeAssumption DEF GcInv, PauseInv, JvmPart
<1>3. Ordered(given, sized, top) /\ \A l, m \in sized : l.line.up < m.line.up <=> l.line.pause.n < m.line.pause.n
  BY <1>1, SizedAreOrdered
<1>4. /\ \A l \in sized : l.line.up \in Nat /\ l.line.up <= top
      /\ \A l, m \in sized : l.line.up = m.line.up => l = m
      /\ \A l, m \in sized : G!Before(given, l, m) <=> l.line.up < m.line.up
  BY <1>3 DEF Ordered
<1>5. \A l \in sized : l.line.pause.n \in DOMAIN paused /\ l.line = paused[l.line.pause.n].line
  <2>1. \A l \in sized : l \in G!PausesOf(given, w)
    BY DEF G!SizedPauses
  <2>2. QED
    BY <2>1, ToldInOrder
<1>6. \A l \in sized : /\ l.line.total \in Nat /\ l.line.freed \in Nat /\ l.line.pause.n \in Nat
  <2>1. ASSUME NEW l \in sized PROVE l.line.total \in Nat /\ l.line.freed \in Nat /\ l.line.pause.n \in Nat
    BY <1>2, <1>5, EndedTyped
  <2>2. QED
    BY <2>1
<1>7. ups # {} /\ sized # {} /\ ~ \E u : ups = {u}
  <2>1. Cardinality(ups) >= 2
    BY <1>1, CardinalityOfLog
  <2> HIDE DEF ups
  <2>2. ups # {}
    <3>1. Cardinality({}) = 0
      BY FS_EmptySet
    <3>2. QED
      BY <2>1, <3>1
  <2>3. ASSUME NEW u, ups = {u} PROVE FALSE
    <3>1. Cardinality({u}) = 1
      BY FS_Singleton
    <3>2. QED
      BY <2>1, <2>3, <3>1
  <2>4. QED
    BY <2>2, <2>3 DEF ups
<1> DEFINE first == G!FirstOf(given, sized)
           final == G!LastOf(given, sized)
           prior == [cur \in sized \ {first} |-> G!LastOf(given, {m \in sized : G!Before(given, m, cur)})]
           extent == [cur \in sized \ {first} |-> G!Grown(G!LastOf(given, {m \in sized : G!Before(given, m, cur)}), cur)]
           at == [l \in sized |-> l.line.up]
           amount == [l \in sized |-> l.line.total]
<1>8. /\ first \in sized /\ \A l \in sized : first.line.up <= l.line.up
      /\ final \in sized /\ \A l \in sized : l.line.up <= final.line.up
  <2> HIDE DEF sized, top
  <2>1. QED
    BY <1>2, <1>3, <1>7, EndsOfOrdered
<1>9. ASSUME NEW cur \in sized \ {first}
      PROVE  /\ prior[cur] \in sized /\ prior[cur].line.up < cur.line.up
             /\ \A y \in sized : y.line.up < cur.line.up => y.line.up <= prior[cur].line.up
             /\ extent[cur] = G!Grown(prior[cur], cur)
  <2> DEFINE earlier == {m \in sized : G!Before(given, m, cur)}
  <2>1. prior[cur] = G!LastOf(given, earlier) /\ extent[cur] = G!Grown(prior[cur], cur)
    OBVIOUS
  <2>2. first.line.up < cur.line.up
    <3>1. first.line.up <= cur.line.up /\ first.line.up # cur.line.up /\ first.line.up \in Nat /\ cur.line.up \in Nat
      BY <1>4, <1>8
    <3> HIDE DEF first
    <3>2. QED
      BY <3>1
  <2>3. first \in earlier
    BY <1>4, <1>8, <2>2
  <2>4. earlier \in SUBSET sized /\ earlier # {}
    BY <2>3
  <2>5. G!LastOf(given, earlier) \in earlier /\ \A l \in earlier : l.line.up <= G!LastOf(given, earlier).line.up
    <3> HIDE DEF sized, top, earlier
    <3>1. QED
      BY <1>2, <1>3, <2>4, EndsOfOrdered
  <2>6. \A m \in sized : m \in earlier <=> m.line.up < cur.line.up
    BY <1>4
  <2> HIDE DEF earlier, prior, extent, sized
  <2>7. prior[cur] \in sized
    BY <2>1, <2>4, <2>5
  <2>8. QED
    BY <2>1, <2>5, <2>6, <2>7
<1>10. \A l, m \in sized : l.line.up < m.line.up =>
         /\ G!Grown(l, m) \in Nat /\ l.line.total <= m.line.total /\ l.line.freed <= m.line.freed
         /\ G!Grown(l, m) <= m.line.total - l.line.total
         /\ Unsized(l.line.pause.n, m.line.pause.n) /\ l.line.freed = m.line.freed
              => G!Grown(l, m) = m.line.total - l.line.total
  <2>1. ASSUME NEW l \in sized, NEW m \in sized, l.line.up < m.line.up
        PROVE  /\ G!Grown(l, m) \in Nat /\ l.line.total <= m.line.total /\ l.line.freed <= m.line.freed
               /\ G!Grown(l, m) <= m.line.total - l.line.total
               /\ Unsized(l.line.pause.n, m.line.pause.n) /\ l.line.freed = m.line.freed
                    => G!Grown(l, m) = m.line.total - l.line.total
    <3>1. /\ l.line.pause.n \in DOMAIN paused /\ l.line = paused[l.line.pause.n].line
          /\ m.line.pause.n \in DOMAIN paused /\ m.line = paused[m.line.pause.n].line
          /\ l.line.pause.n < m.line.pause.n
      BY <1>3, <1>5, <2>1
    <3> HIDE DEF sized
    <3>2. QED
      BY <1>2, <3>1, GrownIsAllocated
  <2> HIDE DEF sized
  <2>2. QED
    BY <2>1
<1> HIDE DEF sized, first, final, prior, extent
<1>11. prior \in [sized \ {first} -> sized] /\ extent \in [sized \ {first} -> Nat]
  <2>1. DOMAIN prior = sized \ {first} /\ prior = [cur \in sized \ {first} |-> prior[cur]]
        /\ extent = [cur \in sized \ {first} |-> extent[cur]]
    BY DEF prior, extent
  <2>2. \A cur \in sized \ {first} : prior[cur] \in sized /\ extent[cur] \in Nat
    BY <1>9, <1>10
  <2>3. QED
    BY <2>1, <2>2
<1>12. Chained(sized, first, final, at, amount, prior, extent)
  <2>1. at \in [sized -> Nat] /\ amount \in [sized -> Nat]
    BY <1>4, <1>6
  <2>2. \A x, y \in sized : at[x] = at[y] => x = y
    BY <1>4
  <2>3. ASSUME NEW x \in sized, NEW y \in sized, at[x] <= at[y] PROVE amount[x] <= amount[y]
    <3>1. x.line.up < y.line.up \/ x = y
      BY <1>4, <2>3
    <3>2. QED
      BY <1>6, <1>10, <3>1
  <2>4. \A x \in sized : at[first] <= at[x] /\ at[x] <= at[final]
    BY <1>8
  <2>5. \A x \in sized \ {first} : at[prior[x]] < at[x] /\ \A y \in sized : at[y] < at[x] => at[y] <= at[prior[x]]
    BY <1>9
  <2>6. \A x \in sized \ {first} : extent[x] <= amount[x] - amount[prior[x]]
    BY <1>9, <1>10
  <2> HIDE DEF at, amount
  <2>7. QED
    BY <1>8, <1>11, <2>1, <2>2, <2>3, <2>4, <2>5, <2>6 DEF Chained
<1>13. /\ G!SumOf(extent) <= amount[final] - amount[first]
       /\ (\A x \in sized \ {first} : extent[x] = amount[x] - amount[prior[x]]) => G!SumOf(extent) = amount[final] - amount[first]
  <2> HIDE DEF at, amount
  <2>1. QED
    BY <1>12, GrowthAlong
<1>14. G!Allocation(given, sized) = G!SumOf(extent)
  BY DEF G!Allocation, extent, first
<1>15. At(G!Max(ups)) = final /\ At(G!Min(ups)) = first
  <2>1. /\ G!Min(ups) \in ups /\ G!Max(ups) \in ups /\ G!Min(ups) \in Nat /\ G!Max(ups) \in Nat
        /\ \A u \in ups : G!Min(ups) <= u /\ u <= G!Max(ups)
    <3>1. ups \subseteq Nat /\ \A u \in ups : u <= top
      BY <1>4
    <3> HIDE DEF ups, top
    <3>2. QED
      BY <1>2, <1>7, <3>1, BoundsOfLog
  <2>2. first.line.up \in ups /\ final.line.up \in ups /\ first.line.up \in Nat /\ final.line.up \in Nat
    BY <1>4, <1>8
  <2>3. \A u \in ups : \E l \in sized : u = l.line.up
    OBVIOUS
  <2> HIDE DEF ups
  <2>4. G!Max(ups) = final.line.up
    BY <1>8, <2>1, <2>2, <2>3
  <2>5. G!Min(ups) = first.line.up
    BY <1>8, <2>1, <2>2, <2>3
  <2>6. At(final.line.up) = final /\ At(first.line.up) = first
    BY <1>4, <1>8
  <2>7. QED
    BY <2>4, <2>5, <2>6
<1> HIDE DEF At
<1>16. G!HasAllocation(given, sized)
  <2>1. first.line.up # final.line.up
    <3>1. SUFFICES ASSUME first.line.up = final.line.up PROVE FALSE
      OBVIOUS
    <3>2. \A l \in sized : l.line.up = first.line.up
      BY <1>4, <1>8, <3>1
    <3>3. ups = {first.line.up}
      BY <1>7, <3>2
    <3>4. QED
      BY <1>7, <3>3
  <2>2. first.line.up <= final.line.up /\ first.line.up \in Nat /\ final.line.up \in Nat
    BY <1>4, <1>8
  <2>3. final.line.up > first.line.up
    BY <2>1, <2>2
  <2>4. QED
    BY <1>7, <2>3 DEF G!HasAllocation, first, final
<1>17. ASSUME final.line.freed - first.line.freed = 0, NEW x \in sized \ {first}
       PROVE  extent[x] = amount[x] - amount[prior[x]]
  <2>1. \A l, m \in sized : l.line.up <= m.line.up => l.line.freed <= m.line.freed
    <3>1. ASSUME NEW l \in sized, NEW m \in sized, l.line.up <= m.line.up PROVE l.line.freed <= m.line.freed
      <4>1. l.line.up < m.line.up \/ l = m
        BY <1>4, <3>1
      <4>2. QED
        BY <1>6, <1>10, <4>1
    <3>2. QED
      BY <3>1
  <2>2. \A l \in sized : first.line.freed <= l.line.freed /\ l.line.freed <= final.line.freed
    BY <1>8, <2>1
  <2>3. x \in sized /\ prior[x] \in sized /\ prior[x].line.up < x.line.up
    BY <1>9
  <2>4. prior[x].line.freed = x.line.freed
    <3>1. /\ first.line.freed \in Nat /\ final.line.freed \in Nat /\ prior[x].line.freed \in Nat /\ x.line.freed \in Nat
      BY <1>6, <1>8, <2>3
    <3>2. QED
      BY <1>17, <2>2, <2>3, <3>1
  <2>5. \A y \in sized : ~ (prior[x].line.pause.n < y.line.pause.n /\ y.line.pause.n < x.line.pause.n)
    <3>1. ASSUME NEW y \in sized, prior[x].line.pause.n < y.line.pause.n, y.line.pause.n < x.line.pause.n PROVE FALSE
      <4>1. prior[x].line.up < y.line.up /\ y.line.up < x.line.up
        BY <1>3, <2>3, <3>1
      <4>2. y.line.up <= prior[x].line.up
        BY <1>9, <4>1
      <4>3. prior[x].line.up \in Nat /\ y.line.up \in Nat
        BY <1>4, <2>3
      <4>4. QED
        BY <4>1, <4>2, <4>3
    <3>2. QED
      BY <3>1
  <2>6. Unsized(prior[x].line.pause.n, x.line.pause.n)
    BY <2>3, <2>5, NoneBetween DEF sized
  <2>7. G!Grown(prior[x], x) = x.line.total - prior[x].line.total
    BY <1>10, <2>3, <2>4, <2>6
  <2>8. QED
    BY <1>9, <2>3, <2>7
<1>18. /\ amount[final] = final.line["total"] /\ amount[first] = first.line["total"]
       /\ final.line["freed"] = final.line.freed /\ first.line["freed"] = first.line.freed
  BY <1>8
<1> HIDE DEF amount
<1>19. /\ G!Allocation(given, sized) <= final.line["total"] - first.line["total"]
       /\ final.line["freed"] - first.line["freed"] = 0
            => G!Allocation(given, sized) = final.line["total"] - first.line["total"]
  BY <1>13, <1>14, <1>17, <1>18
<1> HIDE DEF ups
<1>20. QED
  BY <1>15, <1>16, <1>19

LEMMA AllocationIsSound == ASSUME GcInv, PauseInv PROVE G!AllocationIsBounded
<1>1. ASSUME NEW reading \in G!Readings
      PROVE  LET given == reading[1]
                 sized == G!SizedPauses(given, reading[2])
                 ups == {l.line.up : l \in sized}
                 At(u) == CHOOSE l \in sized : l.line.up = u
                 Truth(f) == At(G!Max(ups)).line[f] - At(G!Min(ups)).line[f]
             IN  G!Cardinality(ups) = G!Cardinality(sized) /\ G!Cardinality(ups) >= 2 =>
                   /\ G!HasAllocation(given, sized)
                   /\ G!Allocation(given, sized) <= Truth("total")
                   /\ Truth("freed") = 0 => G!Allocation(given, sized) = Truth("total")
  <2>1. reading[1] \in G!Givens /\ reading[2] \in G!Windows \cup {G!Everything}
    BY DEF G!Readings, G!Givens
  <2>2. QED
    BY <2>1, AllocationFits
<1>2. QED
  BY <1>1 DEF G!AllocationIsBounded

-----------------------------------------------------------------------------
(* jit-log-summary.py.  A piece that is printed changes the line that is    *)
(* open, or opens one, and nothing before it; that is all of the output the *)
(* invariant has to follow.  That a line is counted under no more than what *)
(* stands in it needs no invariant at all: the bounds hold of any output.   *)

LEMMA SeqEqual ==
  ASSUME NEW Items, NEW f \in Seq(Items), NEW g \in Seq(Items), Len(f) = Len(g), \A i \in 1..Len(f) : f[i] = g[i]
  PROVE  f = g
<1>1. f = [i \in 1..Len(f) |-> f[i]] /\ g = [i \in 1..Len(g) |-> g[i]]
  OBVIOUS
<1>2. QED
  BY <1>1

LEMMA CardinalityOfJit == ASSUME NEW all PROVE J!Cardinality(all) = Cardinality(all)
  BY DEF J!Cardinality, Cardinality

Tokens ==
  {"compile", "osr", "native", "not_entrant", "nl", "@", "inline", "intrinsic", "too_big",
   "cache_full"}

LEMMA LineEnds ==
  ASSUME NEW text \in Seq(Tokens), NEW s \in 1..Len(text)
  PROVE  /\ J!EndFrom(text, s) \in s..(Len(text) + 1)
         /\ \A i \in s..(J!EndFrom(text, s) - 1) : text[i] # "nl"
         /\ J!EndFrom(text, s) <= Len(text) => text[J!EndFrom(text, s)] = "nl"
<1> DEFINE ends == {i \in s..Len(text) : text[i] = "nl"} \cup {Len(text) + 1}
<1>1. ends \subseteq Nat /\ ends # {}
  OBVIOUS
<1>2. \E x \in ends : \A y \in ends : x <= y
  BY <1>1, LeastNumber
<1>3. J!EndFrom(text, s) \in ends /\ \A y \in ends : J!EndFrom(text, s) <= y
  BY <1>2 DEF J!EndFrom, J!Min
<1>4. QED
  BY <1>3

(* The line is what stands between s and the end.                          *)
Copies(line, text, s, end) ==
  line \in Seq(Tokens) /\ Len(line) = end - s /\ \A i \in 1..(end - s) : line[i] = text[s + i - 1]

LEMMA LineShows ==
  ASSUME NEW text \in Seq(Tokens), NEW s \in 1..Len(text)
  PROVE  Copies(J!LineFrom(text, s), text, s, J!EndFrom(text, s))
  BY LineEnds DEF J!LineFrom, Copies

LEMMA LinesApart ==
  ASSUME NEW text \in Seq(Tokens), NEW s \in J!Starts(text), NEW t \in J!Starts(text), s < t
  PROVE  J!EndFrom(text, s) < t
<1>1. s \in 1..Len(text) /\ t \in 1..Len(text) /\ t - 1 \in 1..Len(text) /\ text[t - 1] = "nl"
  BY DEF J!Starts
<1>2. QED
  BY <1>1, LineEnds

PiecesAt(text, p) == {i \in DOMAIN text : text[i] = p}
LinesCounted(text, k) ==
  {s \in J!Starts(text) : text[s] # "nl" /\ J!KindOf(J!LineFrom(text, s)) = k}

Contains(text, s, p) == \E i \in s..(J!EndFrom(text, s) - 1) : text[i] = p

LEMMA PlacesAreFinite ==
  ASSUME NEW text \in Seq(Tokens), NEW all \in SUBSET DOMAIN text
  PROVE  IsFiniteSet(all) /\ Cardinality(all) \in Nat
<1>1. DOMAIN text = 1..Len(text) /\ Len(text) \in Int /\ 1 \in Int
  OBVIOUS
<1>2. IsFiniteSet(1..Len(text))
  BY <1>1, FS_Interval
<1>3. IsFiniteSet(all)
  BY <1>1, <1>2, FS_Subset
<1>4. QED
  BY <1>3, FS_CardinalityType

LEMMA EachHasOne ==
  ASSUME NEW text \in Seq(Tokens), NEW p, NEW all \in SUBSET J!Starts(text),
         \A s \in all : Contains(text, s, p)
  PROVE  Cardinality(all) <= Cardinality(PiecesAt(text, p))
<1> DEFINE found == [s \in all |-> CHOOSE i \in s..(J!EndFrom(text, s) - 1) : text[i] = p]
<1>1. all \subseteq 1..Len(text) /\ PiecesAt(text, p) \subseteq DOMAIN text
  BY DEF J!Starts, PiecesAt
<1>2. \A s \in all : found[s] \in s..(J!EndFrom(text, s) - 1) /\ text[found[s]] = p
  BY DEF Contains
<1>3. \A s \in all : J!EndFrom(text, s) \in s..(Len(text) + 1)
  BY <1>1, LineEnds
<1>4. found \in [all -> PiecesAt(text, p)]
  BY <1>1, <1>2, <1>3 DEF PiecesAt
<1> HIDE DEF found
<1>5. \A s, t \in all : s < t => found[s] < found[t]
  <2>1. SUFFICES ASSUME NEW s \in all, NEW t \in all, s < t PROVE found[s] < found[t]
    OBVIOUS
  <2>2. J!EndFrom(text, s) < t
    BY <2>1, LinesApart
  <2>3. QED
    BY <1>1, <1>2, <1>3, <2>2
<1>6. \A s, t \in all : found[s] = found[t] => s = t
  <2>1. SUFFICES ASSUME NEW s \in all, NEW t \in all, found[s] = found[t] PROVE s = t
    OBVIOUS
  <2>2. s \in Nat /\ t \in Nat /\ found[s] \in Nat /\ found[t] \in Nat
    BY <1>1, <1>2, <1>3
  <2>3. ~ (s < t) /\ ~ (t < s)
    BY <1>5, <2>1, <2>2
  <2>4. QED
    BY <2>2, <2>3
<1>7. found \in Injection(all, PiecesAt(text, p))
  BY <1>4, <1>6 DEF Injection, IsInjective
<1>8. IsFiniteSet(PiecesAt(text, p))
  BY <1>1, PlacesAreFinite
<1>9. QED
  BY <1>7, <1>8, FS_Injection

LEMMA KindsOfLines ==
  ASSUME NEW line
  PROVE  \/ J!KindOf(line) = "full" /\ J!Has(line, "cache_full")
         \/ line[1] = "@" /\ Len(line) > 1 /\ J!KindOf(line) = J!Outcome(line[2])
         \/ J!KindOf(line) = "deopt" /\ line[1] \in J!Heads /\ J!Has(line, "not_entrant")
         \/ J!KindOf(line) = line[1] /\ line[1] \in J!Heads /\ ~ J!Has(line, "not_entrant")
         \/ J!KindOf(line) = "garbled" /\ line[1] \notin J!Heads
<1> DEFINE full == J!Has(line, "cache_full")
           inline == line[1] = "@" /\ Len(line) > 1
           head == line[1] \in J!Heads
           deopt == J!Has(line, "not_entrant")
<1>1. J!KindOf(line) = IF full THEN "full" ELSE IF inline THEN J!Outcome(line[2])
                       ELSE IF ~ head THEN "garbled" ELSE IF deopt THEN "deopt" ELSE line[1]
  BY DEF J!KindOf
<1>2. full \in BOOLEAN /\ inline \in BOOLEAN /\ head \in BOOLEAN /\ deopt \in BOOLEAN
  BY DEF J!Has
<1> HIDE DEF full, inline, head, deopt
<1>3. \/ J!KindOf(line) = "full" /\ full
      \/ inline /\ J!KindOf(line) = J!Outcome(line[2])
      \/ J!KindOf(line) = "deopt" /\ head /\ deopt
      \/ J!KindOf(line) = line[1] /\ head /\ ~ deopt
      \/ J!KindOf(line) = "garbled" /\ ~ head
  BY <1>1, <1>2
<1>4. QED
  BY <1>3 DEF full, inline, head, deopt

(* What decides how a line is counted stands in it.                        *)
LEMMA CountedShows ==
  ASSUME NEW text \in Seq(Tokens), NEW k, NEW s \in LinesCounted(text, k)
  PROVE  /\ s \in 1..Len(text) /\ s \in s..(J!EndFrom(text, s) - 1)
         /\ k \in J!Heads => text[s] = k
         /\ k = "deopt" => text[s] \in J!Heads /\ Contains(text, s, "not_entrant")
         /\ k \in {"inlined", "intrinsic", "failed"} => text[s] = "@"
         /\ k = "full" => Contains(text, s, "cache_full")
         /\ k = "inlined" => Contains(text, s, "inline")
         /\ k = "intrinsic" => Contains(text, s, "intrinsic")
<1> DEFINE line == J!LineFrom(text, s)
           end == J!EndFrom(text, s)
<1>1. s \in 1..Len(text) /\ text[s] # "nl" /\ J!KindOf(line) = k
  BY DEF LinesCounted, J!Starts
<1>2. end \in s..(Len(text) + 1) /\ (end <= Len(text) => text[end] = "nl")
  BY <1>1, LineEnds
<1>3. end \in Nat /\ s < end
  BY <1>1, <1>2
<1>4. line \in Seq(Tokens) /\ Len(line) = end - s /\ \A i \in 1..(end - s) : line[i] = text[s + i - 1]
  BY <1>1, LineShows DEF Copies
<1> HIDE DEF line, end
<1>5. \A i \in DOMAIN line : line[i] = text[s + i - 1] /\ s + i - 1 \in s..(end - 1)
  BY <1>1, <1>3, <1>4
<1>6. line[1] = text[s] /\ DOMAIN line = 1..Len(line)
  BY <1>1, <1>3, <1>4
<1>7. \A p : J!Has(line, p) => \E i \in s..(end - 1) : text[i] = p
  BY <1>5 DEF J!Has
<1>8. Len(line) > 1 => line[2] = text[s + 1] /\ s + 1 \in s..(end - 1)
  BY <1>1, <1>3, <1>4
<1>9. J!Outcome(line[2]) \in {"garbled", "intrinsic", "inlined", "failed"}
      /\ (J!Outcome(line[2]) = "intrinsic" => line[2] = "intrinsic")
      /\ (J!Outcome(line[2]) = "inlined" => line[2] = "inline")
  BY DEF J!Outcome
<1>10. \/ k = "full" /\ J!Has(line, "cache_full")
       \/ line[1] = "@" /\ Len(line) > 1 /\ k = J!Outcome(line[2])
       \/ k = "deopt" /\ line[1] \in J!Heads /\ J!Has(line, "not_entrant")
       \/ k = line[1] /\ line[1] \in J!Heads
       \/ k = "garbled"
  BY <1>1, KindsOfLines
<1>11. s \in s..(end - 1)
  BY <1>1, <1>3
<1>12. CASE k = "full" /\ J!Has(line, "cache_full")
  BY <1>1, <1>7, <1>11, <1>12 DEF J!Heads, Contains, end
<1>13. CASE line[1] = "@" /\ Len(line) > 1 /\ k = J!Outcome(line[2])
  BY <1>1, <1>6, <1>8, <1>9, <1>11, <1>13 DEF J!Heads, Contains, end
<1>14. CASE k = "deopt" /\ line[1] \in J!Heads /\ J!Has(line, "not_entrant")
  BY <1>1, <1>6, <1>7, <1>11, <1>14 DEF J!Heads, Contains, end
<1>15. CASE k = line[1] /\ line[1] \in J!Heads
  BY <1>1, <1>6, <1>11, <1>15 DEF J!Heads, Contains, end
<1>16. CASE k = "garbled"
  BY <1>1, <1>11, <1>16 DEF J!Heads, Contains, end
<1>17. QED
  BY <1>10, <1>12, <1>13, <1>14, <1>15, <1>16

LEMMA CountedOnce ==
  ASSUME NEW text \in Seq(Tokens), NEW k
  PROVE  LinesCounted(text, k) \in SUBSET J!Starts(text) /\ J!Starts(text) \in SUBSET DOMAIN text
         /\ IsFiniteSet(LinesCounted(text, k)) /\ Cardinality(LinesCounted(text, k)) \in Nat
         /\ \A l : l # k => LinesCounted(text, k) \cap LinesCounted(text, l) = {}
<1>1. LinesCounted(text, k) \in SUBSET J!Starts(text) /\ J!Starts(text) \in SUBSET DOMAIN text
  BY DEF LinesCounted, J!Starts
<1>2. \A l : l # k => LinesCounted(text, k) \cap LinesCounted(text, l) = {}
  BY DEF LinesCounted
<1>3. QED
  BY <1>1, <1>2, PlacesAreFinite

LEMMA ApartAdd ==
  ASSUME NEW some, NEW others, IsFiniteSet(some), IsFiniteSet(others), some \cap others = {}
  PROVE  IsFiniteSet(some \cup others) /\ Cardinality(some \cup others) = Cardinality(some) + Cardinality(others)
         /\ Cardinality(some) \in Nat /\ Cardinality(others) \in Nat
<1>1. Cardinality(some) \in Nat /\ Cardinality(others) \in Nat
  BY FS_CardinalityType
<1>2. QED
  BY <1>1, FS_Union, FS_EmptySet

LEMMA TornBounds ==
  ASSUME NEW text \in Seq(Tokens)
  PROVE  LET counted == [k \in J!Counters |-> Cardinality(LinesCounted(text, k))]
         IN  /\ counted["compile"] + counted["deopt"] + counted["osr"] + counted["native"]
                  <= Cardinality(PiecesAt(text, "compile")) + Cardinality(PiecesAt(text, "osr"))
                     + Cardinality(PiecesAt(text, "native"))
             /\ \A k \in J!Heads : counted[k] <= Cardinality(PiecesAt(text, k))
             /\ counted["deopt"] <= Cardinality(PiecesAt(text, "not_entrant"))
             /\ counted["inlined"] <= Cardinality(PiecesAt(text, "inline"))
             /\ counted["intrinsic"] <= Cardinality(PiecesAt(text, "intrinsic"))
             /\ counted["inlined"] + counted["intrinsic"] + counted["failed"]
                  <= Cardinality(PiecesAt(text, "@"))
             /\ counted["full"] <= Cardinality(PiecesAt(text, "cache_full"))
<1> DEFINE n(k) == Cardinality(LinesCounted(text, k))
           m(p) == Cardinality(PiecesAt(text, p))
<1>1. ASSUME NEW k, NEW p, \A s \in LinesCounted(text, k) : Contains(text, s, p)
      PROVE  n(k) <= m(p)
  BY <1>1, CountedOnce, EachHasOne
<1>2. ASSUME NEW k \in J!Heads PROVE n(k) <= m(k)
  <2>1. ASSUME NEW s \in LinesCounted(text, k) PROVE Contains(text, s, k)
    <3>1. s \in s..(J!EndFrom(text, s) - 1) /\ text[s] = k
      BY CountedShows
    <3>2. QED
      BY <3>1 DEF Contains
  <2>2. QED
    BY <1>1, <2>1
<1>3. n("deopt") <= m("not_entrant") /\ n("inlined") <= m("inline")
      /\ n("intrinsic") <= m("intrinsic") /\ n("full") <= m("cache_full")
  <2>1. n("deopt") <= m("not_entrant")
    <3>1. \A s \in LinesCounted(text, "deopt") : Contains(text, s, "not_entrant")
      BY CountedShows
    <3>2. QED
      BY <1>1, <3>1
  <2>2. n("inlined") <= m("inline")
    <3>1. \A s \in LinesCounted(text, "inlined") : Contains(text, s, "inline")
      BY CountedShows
    <3>2. QED
      BY <1>1, <3>1
  <2>3. n("intrinsic") <= m("intrinsic")
    <3>1. \A s \in LinesCounted(text, "intrinsic") : Contains(text, s, "intrinsic")
      BY CountedShows
    <3>2. QED
      BY <1>1, <3>1
  <2>4. n("full") <= m("cache_full")
    <3>1. \A s \in LinesCounted(text, "full") : Contains(text, s, "cache_full")
      BY CountedShows
    <3>2. QED
      BY <1>1, <3>1
  <2>5. QED
    BY <2>1, <2>2, <2>3, <2>4
<1>4. n("inlined") + n("intrinsic") + n("failed") <= m("@")
  <2> DEFINE two == LinesCounted(text, "inlined") \cup LinesCounted(text, "intrinsic")
             all == two \cup LinesCounted(text, "failed")
  <2>1. IsFiniteSet(two) /\ Cardinality(two) = n("inlined") + n("intrinsic")
    BY CountedOnce, ApartAdd
  <2>2. two \cap LinesCounted(text, "failed") = {}
    BY CountedOnce
  <2>3. Cardinality(all) = n("inlined") + n("intrinsic") + n("failed")
    <3> HIDE DEF two
    <3>1. QED
      BY <2>1, <2>2, CountedOnce, ApartAdd
  <2>4. all \in SUBSET J!Starts(text)
    BY CountedOnce
  <2>5. ASSUME NEW s \in all PROVE Contains(text, s, "@")
    <3>1. PICK k \in {"inlined", "intrinsic", "failed"} : s \in LinesCounted(text, k)
      OBVIOUS
    <3>2. text[s] = "@" /\ s \in s..(J!EndFrom(text, s) - 1)
      BY <3>1, CountedShows
    <3>3. QED
      BY <3>2 DEF Contains
  <2> HIDE DEF all
  <2>6. Cardinality(all) <= m("@")
    BY <2>4, <2>5, EachHasOne
  <2>7. QED
    BY <2>3, <2>6
<1>5. n("compile") + n("deopt") + n("osr") + n("native") <= m("compile") + m("osr") + m("native")
  <2> DEFINE two == LinesCounted(text, "compile") \cup LinesCounted(text, "deopt")
             three == two \cup LinesCounted(text, "osr")
             four == three \cup LinesCounted(text, "native")
             both == PiecesAt(text, "compile") \cup PiecesAt(text, "osr")
             all == both \cup PiecesAt(text, "native")
  <2>1. IsFiniteSet(two) /\ Cardinality(two) = n("compile") + n("deopt")
    BY CountedOnce, ApartAdd
  <2>2. two \cap LinesCounted(text, "osr") = {} /\ three \cap LinesCounted(text, "native") = {}
    BY CountedOnce
  <2>3. IsFiniteSet(three) /\ Cardinality(three) = n("compile") + n("deopt") + n("osr")
    <3> HIDE DEF two
    <3>1. QED
      BY <2>1, <2>2, CountedOnce, ApartAdd
  <2>4. IsFiniteSet(four) /\ Cardinality(four) = n("compile") + n("deopt") + n("osr") + n("native")
    <3> HIDE DEF three
    <3>1. QED
      BY <2>2, <2>3, CountedOnce, ApartAdd
  <2>5. \A p : PiecesAt(text, p) \in SUBSET DOMAIN text /\ IsFiniteSet(PiecesAt(text, p))
    <3>1. \A p : PiecesAt(text, p) \in SUBSET DOMAIN text
      BY DEF PiecesAt
    <3>2. QED
      BY <3>1, PlacesAreFinite
  <2>6. PiecesAt(text, "compile") \cap PiecesAt(text, "osr") = {} /\ both \cap PiecesAt(text, "native") = {}
    BY DEF PiecesAt
  <2>7. IsFiniteSet(both) /\ Cardinality(both) = m("compile") + m("osr")
    BY <2>5, <2>6, ApartAdd
  <2>8. IsFiniteSet(all) /\ Cardinality(all) = m("compile") + m("osr") + m("native")
    <3> HIDE DEF both
    <3>1. QED
      BY <2>5, <2>6, <2>7, ApartAdd
  <2>9. four \subseteq all
    <3>1. SUFFICES ASSUME NEW s \in four PROVE s \in all
      OBVIOUS
    <3>2. PICK k \in {"compile", "deopt", "osr", "native"} : s \in LinesCounted(text, k)
      OBVIOUS
    <3>3. k \in J!Heads \cup {"deopt"}
      BY DEF J!Heads
    <3>4. s \in 1..Len(text) /\ (k \in J!Heads => text[s] = k) /\ (k = "deopt" => text[s] \in J!Heads)
      BY <3>2, CountedShows
    <3>5. s \in DOMAIN text /\ text[s] \in J!Heads
      BY <3>3, <3>4
    <3>6. QED
      BY <3>5 DEF PiecesAt, J!Heads
  <2> HIDE DEF four, all
  <2>10. Cardinality(four) <= Cardinality(all)
    BY <2>8, <2>9, FS_Subset
  <2>11. QED
    BY <2>4, <2>8, <2>10
<1>6. {"compile", "deopt", "osr", "native", "inlined", "intrinsic", "failed", "full"} \subseteq J!Counters
      /\ J!Heads \subseteq J!Counters
  BY DEF J!Counters, J!LineKinds, J!Pieces, J!Heads
<1>7. QED
  BY <1>2, <1>3, <1>4, <1>5, <1>6

-----------------------------------------------------------------------------
LEMMA OneMorePiece ==
  ASSUME NEW text \in Seq(Tokens), NEW p \in Tokens
  PROVE  LET new == Append(text, p)
             n == Len(text)
         IN  /\ new \in Seq(Tokens)
             /\ J!Starts(new) = J!Starts(text) \cup (IF text = <<>> \/ text[n] = "nl" THEN {n + 1} ELSE {})
             /\ \A s \in 1..n : J!EndFrom(text, s) <= n =>
                  J!EndFrom(new, s) = J!EndFrom(text, s) /\ J!LineFrom(new, s) = J!LineFrom(text, s)
             /\ \A s \in 1..n : J!EndFrom(text, s) = n + 1 /\ p = "nl" =>
                  J!EndFrom(new, s) = n + 1 /\ J!LineFrom(new, s) = J!LineFrom(text, s)
             /\ \A s \in 1..n : J!EndFrom(text, s) = n + 1 /\ p # "nl" =>
                  J!EndFrom(new, s) = n + 2 /\ J!LineFrom(new, s) = Append(J!LineFrom(text, s), p)
             /\ p # "nl" => J!EndFrom(new, n + 1) = n + 2 /\ J!LineFrom(new, n + 1) = <<p>>
<1> DEFINE new == Append(text, p)
           n == Len(text)
<1>1. new \in Seq(Tokens) /\ n \in Nat /\ Len(new) = n + 1 /\ DOMAIN text = 1..n /\ DOMAIN new = 1..(n + 1)
      /\ (\A i \in 1..n : new[i] = text[i]) /\ new[n + 1] = p
  OBVIOUS
<1> HIDE DEF new, n
<1>2. J!Starts(new) = J!Starts(text) \cup (IF text = <<>> \/ text[n] = "nl" THEN {n + 1} ELSE {})
  <2>1. n + 1 \in J!Starts(new) <=> text = <<>> \/ text[n] = "nl"
    <3>1. n = 0 <=> text = <<>>
      BY DEF n
    <3>2. n # 0 => new[n] = text[n]
      BY <1>1
    <3>3. n + 1 - 1 = n /\ n + 1 \in DOMAIN new /\ (n + 1 = 1 <=> n = 0)
      BY <1>1
    <3>4. n + 1 \in J!Starts(new) <=> n + 1 = 1 \/ new[n] = "nl"
      BY <1>1, <3>3 DEF J!Starts
    <3>5. QED
      BY <3>1, <3>2, <3>3, <3>4
  <2>2. \A i \in 1..n : i \in J!Starts(new) <=> i \in J!Starts(text)
    BY <1>1 DEF J!Starts
  <2>3. J!Starts(new) \subseteq 1..(n + 1) /\ J!Starts(text) \subseteq 1..n
    BY <1>1 DEF J!Starts
  <2>4. QED
    BY <1>1, <2>1, <2>2, <2>3
<1>3. ASSUME NEW s \in 1..n
      PROVE  /\ J!EndFrom(text, s) \in s..(n + 1) /\ J!EndFrom(new, s) \in s..(n + 2)
             /\ J!EndFrom(text, s) <= n => J!EndFrom(new, s) = J!EndFrom(text, s)
             /\ J!EndFrom(text, s) = n + 1 => J!EndFrom(new, s) = IF p = "nl" THEN n + 1 ELSE n + 2
  <2>1. /\ J!EndFrom(text, s) \in s..(n + 1)
        /\ \A i \in s..(J!EndFrom(text, s) - 1) : text[i] # "nl"
        /\ J!EndFrom(text, s) <= n => text[J!EndFrom(text, s)] = "nl"
    BY <1>1, LineEnds DEF n
  <2>2. s \in 1..Len(new)
    BY <1>1
  <2>3. /\ J!EndFrom(new, s) \in s..(n + 1 + 1)
        /\ \A i \in s..(J!EndFrom(new, s) - 1) : new[i] # "nl"
        /\ J!EndFrom(new, s) <= n + 1 => new[J!EndFrom(new, s)] = "nl"
    BY <1>1, <2>2, LineEnds
  <2> DEFINE a == J!EndFrom(text, s)
             b == J!EndFrom(new, s)
  <2>4. a \in Nat /\ b \in Nat /\ s <= a /\ a <= n + 1 /\ s <= b /\ b <= n + 2 /\ s \in Nat /\ 1 <= s
    BY <1>1, <2>1, <2>3
  <2> HIDE DEF a, b
  <2>5. CASE a <= n
    <3>1. a \in 1..n /\ new[a] = "nl"
      BY <1>1, <2>1, <2>4, <2>5 DEF a
    <3>2. ~ (a < b)
      BY <2>3, <2>4, <3>1 DEF b
    <3>3. ~ (b < a)
      <4>1. SUFFICES ASSUME b < a PROVE FALSE
        OBVIOUS
      <4>2. b \in 1..n /\ b \in s..(a - 1) /\ b <= n + 1
        BY <1>1, <2>4, <2>5, <4>1
      <4>3. new[b] = "nl" /\ text[b] # "nl"
        BY <2>1, <2>3, <4>2 DEF a, b
      <4>4. QED
        BY <1>1, <4>2, <4>3
    <3>4. a = b
      BY <2>4, <3>2, <3>3
    <3>5. QED
      BY <1>1, <2>4, <2>5, <3>4 DEF a, b
  <2>6. CASE a = n + 1
    <3>1. ~ (b <= n)
      <4>1. SUFFICES ASSUME b <= n PROVE FALSE
        OBVIOUS
      <4>2. b \in 1..n /\ b \in s..(a - 1) /\ b <= n + 1
        BY <1>1, <2>4, <2>6, <4>1
      <4>3. new[b] = "nl" /\ text[b] # "nl"
        BY <2>1, <2>3, <4>2 DEF a, b
      <4>4. QED
        BY <1>1, <4>2, <4>3
    <3>2. p = "nl" => b # n + 2
      <4>1. SUFFICES ASSUME p = "nl", b = n + 2 PROVE FALSE
        OBVIOUS
      <4>2. n + 1 \in s..(b - 1)
        BY <1>1, <4>1
      <4>3. QED
        BY <1>1, <2>3, <4>1, <4>2 DEF b
    <3>3. p # "nl" => b # n + 1
      BY <1>1, <2>3 DEF b
    <3>4. b = n + 1 \/ b = n + 2
      BY <1>1, <2>4, <3>1
    <3>5. QED
      BY <1>1, <2>4, <2>6, <3>2, <3>3, <3>4 DEF a, b
  <2>7. QED
    BY <1>1, <2>4, <2>5, <2>6 DEF a, b
<1>4. ASSUME NEW s \in 1..n
      PROVE  /\ Copies(J!LineFrom(text, s), text, s, J!EndFrom(text, s))
             /\ Copies(J!LineFrom(new, s), new, s, J!EndFrom(new, s))
  <2>1. s \in 1..Len(new) /\ s \in 1..Len(text)
    BY <1>1 DEF n
  <2>2. QED
    BY <1>1, <2>1, LineShows
<1>5. ASSUME NEW s \in 1..n, J!EndFrom(new, s) = J!EndFrom(text, s)
      PROVE  J!LineFrom(new, s) = J!LineFrom(text, s)
  <2>1. \A i \in 1..(J!EndFrom(text, s) - s) : J!LineFrom(new, s)[i] = J!LineFrom(text, s)[i]
    <3>1. SUFFICES ASSUME NEW i \in 1..(J!EndFrom(text, s) - s) PROVE new[s + i - 1] = text[s + i - 1]
      BY <1>4, <1>5 DEF Copies
    <3>2. J!EndFrom(text, s) \in s..(n + 1)
      BY <1>3
    <3>3. s + i - 1 \in 1..n
      BY <1>1, <3>2
    <3>4. QED
      BY <1>1, <3>3
  <2>2. QED
    BY <1>4, <1>5, <2>1, SeqEqual DEF Copies
<1>6. ASSUME NEW s \in 1..n, J!EndFrom(text, s) = n + 1, p # "nl"
      PROVE  J!EndFrom(new, s) = n + 2 /\ J!LineFrom(new, s) = Append(J!LineFrom(text, s), p)
  <2>1. J!EndFrom(new, s) = n + 2
    BY <1>3, <1>6
  <2> DEFINE old == J!LineFrom(text, s)
  <2>2. old \in Seq(Tokens) /\ Len(old) = n + 1 - s /\ \A i \in 1..(n + 1 - s) : old[i] = text[s + i - 1]
    <3>1. Copies(old, text, s, n + 1)
      BY <1>4, <1>6
    <3>2. QED
      BY <1>1, <3>1 DEF Copies
  <2>3. J!LineFrom(new, s) \in Seq(Tokens) /\ Len(J!LineFrom(new, s)) = n + 2 - s
        /\ \A i \in 1..(n + 2 - s) : J!LineFrom(new, s)[i] = new[s + i - 1]
    <3>1. Copies(J!LineFrom(new, s), new, s, n + 2)
      BY <1>4, <2>1
    <3>2. QED
      BY <1>1, <3>1 DEF Copies
  <2> HIDE DEF old
  <2>4. Append(old, p) \in Seq(Tokens) /\ Len(Append(old, p)) = n + 2 - s
        /\ (\A i \in 1..(n + 1 - s) : Append(old, p)[i] = old[i]) /\ Append(old, p)[n + 2 - s] = p
    BY <1>1, <2>2
  <2>5. \A i \in 1..(n + 2 - s) : J!LineFrom(new, s)[i] = Append(old, p)[i]
    <3>1. SUFFICES ASSUME NEW i \in 1..(n + 2 - s) PROVE new[s + i - 1] = Append(old, p)[i]
      BY <2>3
    <3>2. CASE i = n + 2 - s
      <4>1. s + i - 1 = n + 1
        BY <1>1, <3>2
      <4>2. QED
        BY <1>1, <2>4, <3>2, <4>1
    <3>3. CASE i # n + 2 - s
      <4>1. i \in 1..(n + 1 - s) /\ s + i - 1 \in 1..n
        BY <1>1, <3>3
      <4>2. QED
        BY <1>1, <2>2, <2>4, <4>1
    <3>4. QED
      BY <3>2, <3>3
  <2>6. J!LineFrom(new, s) = Append(old, p)
    BY <2>3, <2>4, <2>5, SeqEqual
  <2>7. QED
    BY <2>1, <2>6 DEF old
<1>7. ASSUME p # "nl" PROVE J!EndFrom(new, n + 1) = n + 2 /\ J!LineFrom(new, n + 1) = <<p>>
  <2>1. n + 1 \in 1..Len(new)
    BY <1>1
  <2>2. J!EndFrom(new, n + 1) \in (n + 1)..(n + 1 + 1) /\ (J!EndFrom(new, n + 1) <= n + 1 => new[J!EndFrom(new, n + 1)] = "nl")
    BY <1>1, <2>1, LineEnds
  <2>3. J!EndFrom(new, n + 1) = n + 2
    BY <1>1, <1>7, <2>2
  <2>4. /\ J!LineFrom(new, n + 1) \in Seq(Tokens) /\ Len(J!LineFrom(new, n + 1)) = n + 2 - (n + 1)
        /\ \A i \in 1..(n + 2 - (n + 1)) : J!LineFrom(new, n + 1)[i] = new[n + 1 + i - 1]
    <3>1. Copies(J!LineFrom(new, n + 1), new, n + 1, n + 2)
      BY <1>1, <2>1, <2>3, LineShows
    <3>2. QED
      BY <1>1, <3>1 DEF Copies
  <2>5. n + 2 - (n + 1) = 1 /\ n + 1 + 1 - 1 = n + 1
    BY <1>1
  <2>6. Len(J!LineFrom(new, n + 1)) = 1 /\ J!LineFrom(new, n + 1)[1] = p
    BY <1>1, <2>4, <2>5
  <2>7. QED
    BY <2>3, <2>4, <2>6
<1>8. QED
  BY <1>1, <1>2, <1>3, <1>5, <1>6, <1>7 DEF new, n

-----------------------------------------------------------------------------
Firsts == {"compile", "osr", "native", "@", "cache_full"}

(* A line of three pieces, or of two if the second ends it.                *)
Prints(p, n, one, two) ==
  /\ p[1] = one /\ p[2] = two
  /\ \/ two = "nl" /\ n = 2
     \/ two # "nl" /\ n = 3 /\ p[3] = "nl"

LEMMA PairIs ==
  ASSUME NEW a \in Tokens, NEW b \in Tokens, NEW line, line = <<a, b>>
  PROVE  line \in Seq(Tokens) /\ Len(line) = 2 /\ line[1] = a /\ line[2] = b
  OBVIOUS

LEMMA TripleIs ==
  ASSUME NEW a \in Tokens, NEW b \in Tokens, NEW c \in Tokens, NEW line, line = <<a, b, c>>
  PROVE  line \in Seq(Tokens) /\ Len(line) = 3 /\ line[1] = a /\ line[2] = b /\ line[3] = c
  OBVIOUS

LEMMA KindsAre ==
  J!LineKinds = {"compile", "osr", "native", "deopt", "inlined", "intrinsic", "failed", "full"}
  BY DEF J!LineKinds, J!Pieces

LEMMA PiecesAre ==
  /\ Prints(J!Pieces["compile"], Len(J!Pieces["compile"]), "compile", "nl")
  /\ Prints(J!Pieces["osr"], Len(J!Pieces["osr"]), "osr", "nl")
  /\ Prints(J!Pieces["native"], Len(J!Pieces["native"]), "native", "nl")
  /\ Prints(J!Pieces["full"], Len(J!Pieces["full"]), "cache_full", "nl")
  /\ Prints(J!Pieces["deopt"], Len(J!Pieces["deopt"]), "compile", "not_entrant")
  /\ Prints(J!Pieces["inlined"], Len(J!Pieces["inlined"]), "@", "inline")
  /\ Prints(J!Pieces["intrinsic"], Len(J!Pieces["intrinsic"]), "@", "intrinsic")
  /\ Prints(J!Pieces["failed"], Len(J!Pieces["failed"]), "@", "too_big")
<1>1. Prints(J!Pieces["compile"], Len(J!Pieces["compile"]), "compile", "nl")
  <2>1. J!Pieces["compile"] = <<"compile", "nl">>
    BY DEF J!Pieces
  <2>2. "compile" \in Tokens /\ "nl" \in Tokens
    BY DEF Tokens
  <2>3. QED
    BY <2>1, <2>2, PairIs DEF Prints
<1>2. Prints(J!Pieces["osr"], Len(J!Pieces["osr"]), "osr", "nl")
  <2>1. J!Pieces["osr"] = <<"osr", "nl">>
    BY DEF J!Pieces
  <2>2. "osr" \in Tokens /\ "nl" \in Tokens
    BY DEF Tokens
  <2>3. QED
    BY <2>1, <2>2, PairIs DEF Prints
<1>3. Prints(J!Pieces["native"], Len(J!Pieces["native"]), "native", "nl")
  <2>1. J!Pieces["native"] = <<"native", "nl">>
    BY DEF J!Pieces
  <2>2. "native" \in Tokens /\ "nl" \in Tokens
    BY DEF Tokens
  <2>3. QED
    BY <2>1, <2>2, PairIs DEF Prints
<1>4. Prints(J!Pieces["full"], Len(J!Pieces["full"]), "cache_full", "nl")
  <2>1. J!Pieces["full"] = <<"cache_full", "nl">>
    BY DEF J!Pieces
  <2>2. "cache_full" \in Tokens /\ "nl" \in Tokens
    BY DEF Tokens
  <2>3. QED
    BY <2>1, <2>2, PairIs DEF Prints
<1>5. Prints(J!Pieces["deopt"], Len(J!Pieces["deopt"]), "compile", "not_entrant")
  <2>1. J!Pieces["deopt"] = <<"compile", "not_entrant", "nl">>
    BY DEF J!Pieces
  <2>2. "compile" \in Tokens /\ "not_entrant" \in Tokens /\ "nl" \in Tokens
    BY DEF Tokens
  <2>3. QED
    BY <2>1, <2>2, TripleIs DEF Prints
<1>6. Prints(J!Pieces["inlined"], Len(J!Pieces["inlined"]), "@", "inline")
  <2>1. J!Pieces["inlined"] = <<"@", "inline", "nl">>
    BY DEF J!Pieces
  <2>2. "@" \in Tokens /\ "inline" \in Tokens /\ "nl" \in Tokens
    BY DEF Tokens
  <2>3. QED
    BY <2>1, <2>2, TripleIs DEF Prints
<1>7. Prints(J!Pieces["intrinsic"], Len(J!Pieces["intrinsic"]), "@", "intrinsic")
  <2>1. J!Pieces["intrinsic"] = <<"@", "intrinsic", "nl">>
    BY DEF J!Pieces
  <2>2. "@" \in Tokens /\ "intrinsic" \in Tokens /\ "nl" \in Tokens
    BY DEF Tokens
  <2>3. QED
    BY <2>1, <2>2, TripleIs DEF Prints
<1>8. Prints(J!Pieces["failed"], Len(J!Pieces["failed"]), "@", "too_big")
  <2>1. J!Pieces["failed"] = <<"@", "too_big", "nl">>
    BY DEF J!Pieces
  <2>2. "@" \in Tokens /\ "too_big" \in Tokens /\ "nl" \in Tokens
    BY DEF Tokens
  <2>3. QED
    BY <2>1, <2>2, TripleIs DEF Prints
<1>9. QED
  BY <1>1, <1>2, <1>3, <1>4, <1>5, <1>6, <1>7, <1>8

LEMMA PiecesTyped == ASSUME NEW k \in J!LineKinds PROVE J!Pieces[k] \in Seq(Tokens) /\ Len(J!Pieces[k]) \in Nat
<1>1. /\ J!Pieces["compile"] = <<"compile", "nl">> /\ J!Pieces["osr"] = <<"osr", "nl">>
      /\ J!Pieces["native"] = <<"native", "nl">> /\ J!Pieces["full"] = <<"cache_full", "nl">>
      /\ J!Pieces["deopt"] = <<"compile", "not_entrant", "nl">>
      /\ J!Pieces["inlined"] = <<"@", "inline", "nl">>
      /\ J!Pieces["intrinsic"] = <<"@", "intrinsic", "nl">>
      /\ J!Pieces["failed"] = <<"@", "too_big", "nl">>
  BY DEF J!Pieces
<1>2. Tokens = {"compile", "osr", "native", "not_entrant", "nl", "@", "inline", "intrinsic", "too_big",
                "cache_full"}
  BY DEF Tokens
<1>3. CASE k \in {"compile", "osr", "native", "full"}
  <2>1. PICK a \in Tokens, b \in Tokens : J!Pieces[k] = <<a, b>>
    BY <1>1, <1>2, <1>3
  <2>2. QED
    BY <2>1, PairIs
<1>4. CASE k \in {"deopt", "inlined", "intrinsic", "failed"}
  <2>1. PICK a \in Tokens, b \in Tokens, c \in Tokens : J!Pieces[k] = <<a, b, c>>
    BY <1>1, <1>2, <1>4
  <2>2. QED
    BY <2>1, TripleIs
<1>5. QED
  BY <1>3, <1>4, KindsAre

LEMMA ShortLine ==
  ASSUME NEW p, NEW n \in Nat, NEW one \in Firsts, NEW two \in Tokens \ Firsts, Prints(p, n, one, two)
  PROVE  /\ n \in 2..3 /\ p[1] \in Firsts /\ \A i \in 2..n : p[i] \notin Firsts
         /\ \A i \in 1..n : p[i] = "nl" <=> i = n
<1>1. "nl" \notin Firsts
  BY DEF Firsts
<1>2. n = 2 \/ n = 3
  BY DEF Prints
<1>3. \A i \in 1..n : i \in {1, 2, 3}
  BY <1>2
<1>4. QED
  BY <1>1, <1>2, <1>3 DEF Prints

(* Only the first piece of a line tells that one begins, only the last one *)
(* ends it, and lines of two kinds differ.                                 *)
LEMMA PiecesTell ==
  ASSUME NEW k \in J!LineKinds
  PROVE  /\ J!Pieces[k] \in Seq(Tokens) /\ Len(J!Pieces[k]) \in 2..3
         /\ J!Pieces[k][1] \in Firsts
         /\ \A i \in 2..Len(J!Pieces[k]) : J!Pieces[k][i] \notin Firsts
         /\ \A i \in 1..Len(J!Pieces[k]) : J!Pieces[k][i] = "nl" <=> i = Len(J!Pieces[k])
         /\ \A l \in J!LineKinds : J!Pieces[k] = J!Pieces[l] => k = l
<1>1. PICK one \in Firsts, two \in Tokens \ Firsts : Prints(J!Pieces[k], Len(J!Pieces[k]), one, two)
  BY PiecesAre, KindsAre DEF Firsts, Tokens
<1>2. \A l \in J!LineKinds : J!Pieces[k][1] = J!Pieces[l][1] /\ J!Pieces[k][2] = J!Pieces[l][2] => k = l
  BY PiecesAre, KindsAre DEF Prints
<1>3. QED
  BY <1>1, <1>2, PiecesTyped, ShortLine

LEMMA TwoIsMore == \A m : m = 2 => m > 1
  OBVIOUS

LEMMA PrintedIsCounted ==
  ASSUME NEW k \in J!LineKinds, NEW line \in Seq(Tokens), Len(line) = Len(J!Pieces[k]) - 1,
         \A i \in 1..Len(line) : line[i] = J!Pieces[k][i]
  PROVE  J!KindOf(line) = k
<1>1. PICK n \in Nat : Len(line) = n
  OBVIOUS
<1>2. Len(J!Pieces[k]) = n + 1 /\ (\A i \in 1..n : line[i] = J!Pieces[k][i]) /\ DOMAIN line = 1..n
  BY <1>1, PiecesTyped
<1>3. ASSUME NEW one, NEW two, Prints(J!Pieces[k], n + 1, one, two)
      PROVE  /\ line[1] = one
             /\ two = "nl" => n = 1 /\ DOMAIN line = {1}
             /\ two # "nl" => n = 2 /\ line[2] = two /\ DOMAIN line = {1, 2}
  <2>1. (n = 1 /\ two = "nl") \/ (n = 2 /\ two # "nl")
    <3>1. n \in Nat
      BY <1>1
    <3>2. QED
      BY <1>3, <3>1 DEF Prints
  <2>2. n = 1 => 1..n = {1}
    OBVIOUS
  <2>3. n = 2 => 1..n = {1, 2}
    OBVIOUS
  <2>4. 1 \in 1..n /\ (n = 2 => 2 \in 1..n)
    BY <2>1
  <2>5. QED
    BY <1>2, <1>3, <2>1, <2>2, <2>3, <2>4 DEF Prints
<1>4. CASE k \in {"compile", "osr", "native", "full"}
  <2>1. PICK one : Prints(J!Pieces[k], n + 1, one, "nl") /\ one = IF k = "full" THEN "cache_full" ELSE k
    BY <1>2, <1>4, PiecesAre
  <2>2. n = 1 /\ line[1] = one /\ DOMAIN line = {1}
    BY <1>3, <2>1
  <2>3. J!Has(line, "cache_full") <=> k = "full"
    BY <1>4, <2>1, <2>2 DEF J!Has
  <2>4. ~ J!Has(line, "not_entrant")
    BY <1>4, <2>1, <2>2 DEF J!Has
  <2>5. QED
    BY <1>1, <1>4, <2>1, <2>2, <2>3, <2>4 DEF J!KindOf, J!Heads
<1>5. CASE k = "deopt"
  <2>1. Prints(J!Pieces[k], n + 1, "compile", "not_entrant")
    BY <1>2, <1>5, PiecesAre
  <2>2. n = 2 /\ line[1] = "compile" /\ line[2] = "not_entrant" /\ DOMAIN line = {1, 2}
    BY <1>3, <2>1
  <2>3. ~ J!Has(line, "cache_full") /\ J!Has(line, "not_entrant")
    BY <2>2 DEF J!Has
  <2>4. QED
    <3>1. line[1] # "@" /\ line[1] \in J!Heads
      BY <2>2 DEF J!Heads
    <3>2. QED
      BY <1>5, <2>3, <3>1, KindsOfLines
<1>6. CASE k \in {"inlined", "intrinsic", "failed"}
  <2>1. PICK two \in {"inline", "intrinsic", "too_big"} :
          Prints(J!Pieces[k], n + 1, "@", two) /\ J!Outcome(two) = k
    BY <1>2, <1>6, PiecesAre DEF J!Outcome
  <2>2. n = 2 /\ line[1] = "@" /\ line[2] = two /\ DOMAIN line = {1, 2}
    BY <1>3, <2>1
  <2>3. ~ J!Has(line, "cache_full")
    BY <2>1, <2>2 DEF J!Has
  <2>4. QED
    <3>1. line[1] = "@" /\ Len(line) > 1
      <4>1. n = 2 /\ line[1] = "@"
        BY <2>2
      <4>2. Len(line) = n
        BY <1>1
      <4>3. Len(line) = 2
        BY <4>1, <4>2
      <4>4. Len(line) > 1
        BY <4>3, TwoIsMore, Zenon
      <4>5. QED
        BY <4>1, <4>4
    <3>2. J!KindOf(line) = J!Outcome(line[2])
      BY <2>3, <3>1 DEF J!KindOf
    <3>3. QED
      BY <2>1, <2>2, <3>2
<1>7. QED
  BY <1>4, <1>5, <1>6, KindsAre
-----------------------------------------------------------------------------
(* Rest(k, n) is what is left of a line of kind k from its n-th piece on.  *)
(* As long as nothing is torn, the line that is open belongs to the one    *)
(* thread that is within a line, and the two make up a line of one kind:   *)
(* either it is counted as that kind already or a thread still owes it.    *)
Rest(k, n) == SubSeq(J!Pieces[k], n, Len(J!Pieces[k]))
Within(rest) == \E k \in J!LineKinds : \E n \in 2..Len(J!Pieces[k]) : rest = Rest(k, n)

OpenStarts(text) == {s \in J!Starts(text) : J!EndFrom(text, s) = Len(text) + 1}
Goes(line, rest, k) ==
  \E n \in 2..Len(J!Pieces[k]) :
    /\ rest = Rest(k, n) /\ Len(line) = n - 1 /\ \A i \in 1..(n - 1) : line[i] = J!Pieces[k][i]
IsCut(text, rest, k) == \E s \in OpenStarts(text) : Goes(J!LineFrom(text, s), rest, k)
Owes(text, rest, k) == rest = J!Pieces[k] \/ IsCut(text, rest, k)
Owed(k) == {c \in Compilers : Owes(output, pending[c], k)}
Closed(text, k) == {s \in LinesCounted(text, k) : J!EndFrom(text, s) <= Len(text)}
Fresh(text) == text = <<>> \/ text[Len(text)] = "nl"

PieceTyped ==
  /\ pending \in [Compilers -> Seq(Tokens)]
  /\ \A c \in Compilers :
       pending[c] = <<>> \/ Within(pending[c]) \/ \E k \in J!LineKinds : pending[c] = J!Pieces[k]
  /\ output \in Seq(Tokens) /\ begun \in Seq(J!LineKinds)
  /\ torn \in {0, 1}

WholePart ==
  torn = 0 =>
    /\ \A c, d \in Compilers : Within(pending[c]) /\ Within(pending[d]) => c = d
    /\ \A c \in Compilers : Within(pending[c]) => \E k \in J!LineKinds : IsCut(output, pending[c], k)
    /\ (\A c \in Compilers : ~ Within(pending[c])) => Fresh(output)
    /\ \A k \in J!LineKinds :
         /\ IsFiniteSet(Owed(k))
         /\ Cardinality(Closed(output, k)) + Cardinality(Owed(k)) = J!Begun(k)

JitInv == PieceTyped /\ WholePart

LEMMA RestShows ==
  ASSUME NEW k \in J!LineKinds, NEW n \in 2..Len(J!Pieces[k])
  PROVE  /\ Rest(k, n) \in Seq(Tokens) /\ Len(Rest(k, n)) = Len(J!Pieces[k]) + 1 - n
         /\ \A i \in 1..(Len(J!Pieces[k]) + 1 - n) : Rest(k, n)[i] = J!Pieces[k][n + i - 1]
         /\ Rest(k, n) # <<>> /\ Rest(k, n)[1] \notin Firsts /\ Head(Rest(k, n)) = J!Pieces[k][n]
         /\ Rest(k, n)[1] = J!Pieces[k][n]
<1>1. PICK m \in Nat : Len(J!Pieces[k]) = m
  BY PiecesTyped
<1>2. J!Pieces[k] \in Seq(Tokens) /\ n \in Nat /\ 2 <= n /\ n <= m
  BY <1>1, PiecesTyped
<1>3. Rest(k, n) \in Seq(Tokens) /\ Len(Rest(k, n)) = m + 1 - n
      /\ \A i \in 1..(m + 1 - n) : Rest(k, n)[i] = J!Pieces[k][n + i - 1]
  BY <1>1, <1>2 DEF Rest
<1>4. 1 \in 1..(m + 1 - n) /\ n + 1 - 1 = n
  BY <1>2
<1>5. Rest(k, n)[1] = J!Pieces[k][n]
  BY <1>3, <1>4
<1>6. J!Pieces[k][n] \notin Firsts
  BY PiecesTell
<1>7. Rest(k, n) # <<>> /\ Head(Rest(k, n)) = Rest(k, n)[1]
  BY <1>2, <1>3
<1>8. QED
  BY <1>1, <1>3, <1>5, <1>6, <1>7

(* A thread is before a line, within it, or has nothing to print.          *)
LEMMA PlacesApart ==
  /\ ~ Within(<<>>)
  /\ \A k \in J!LineKinds : ~ Within(J!Pieces[k]) /\ J!Pieces[k] # <<>>
<1>1. ~ Within(<<>>)
  BY RestShows DEF Within
<1>2. ASSUME NEW k \in J!LineKinds PROVE ~ Within(J!Pieces[k]) /\ J!Pieces[k] # <<>>
  <2>1. J!Pieces[k][1] \in Firsts /\ J!Pieces[k] # <<>>
    BY PiecesTell
  <2>2. \A l \in J!LineKinds : \A n \in 2..Len(J!Pieces[l]) : Rest(l, n)[1] \notin Firsts
    BY RestShows
  <2>3. QED
    BY <2>1, <2>2 DEF Within
<1>3. QED
  BY <1>1, <1>2

(* MidLine is what it is called.                                           *)
LEMMA MidLineIs ==
  ASSUME PieceTyped, NEW c \in Compilers PROVE J!MidLine(c) <=> Within(pending[c])
  BY PlacesApart DEF PieceTyped, J!MidLine

(* What a thread prints and has still to print is of one kind.             *)
LEMMA OneKind ==
  ASSUME NEW k \in J!LineKinds, NEW l \in J!LineKinds, NEW line, NEW rest,
         Goes(line, rest, k), Goes(line, rest, l)
  PROVE  k = l
<1>1. PICK n \in 2..Len(J!Pieces[k]) :
        rest = Rest(k, n) /\ Len(line) = n - 1 /\ \A i \in 1..(n - 1) : line[i] = J!Pieces[k][i]
  BY DEF Goes
<1>2. PICK m \in 2..Len(J!Pieces[l]) :
        rest = Rest(l, m) /\ Len(line) = m - 1 /\ \A i \in 1..(m - 1) : line[i] = J!Pieces[l][i]
  BY DEF Goes
<1>3. PICK a \in Nat : Len(J!Pieces[k]) = a
  BY PiecesTyped
<1>4. PICK b \in Nat : Len(J!Pieces[l]) = b
  BY PiecesTyped
<1>5. n = m /\ n \in 2..a
  BY <1>1, <1>2, <1>3, <1>4
<1>6. Len(rest) = a + 1 - n /\ \A i \in 1..(a + 1 - n) : rest[i] = J!Pieces[k][n + i - 1]
  <2>1. /\ Len(rest) = Len(J!Pieces[k]) + 1 - n
        /\ \A i \in 1..(Len(J!Pieces[k]) + 1 - n) : rest[i] = J!Pieces[k][n + i - 1]
    BY <1>1, RestShows
  <2>2. QED
    BY <1>3, <1>5, <2>1
<1>7. Len(rest) = b + 1 - n /\ \A i \in 1..(b + 1 - n) : rest[i] = J!Pieces[l][n + i - 1]
  <2>1. /\ Len(rest) = Len(J!Pieces[l]) + 1 - m
        /\ \A i \in 1..(Len(J!Pieces[l]) + 1 - m) : rest[i] = J!Pieces[l][m + i - 1]
    BY <1>2, RestShows
  <2>2. QED
    BY <1>4, <1>5, <2>1
<1>8. a = b
  BY <1>5, <1>6, <1>7
<1>9. ASSUME NEW i \in 1..a PROVE J!Pieces[k][i] = J!Pieces[l][i]
  <2>1. CASE i < n
    <3>1. i \in 1..(n - 1)
      BY <1>5, <2>1
    <3>2. QED
      BY <1>1, <1>2, <1>5, <3>1
  <2>2. CASE i >= n
    <3>1. i + 1 - n \in 1..(a + 1 - n) /\ n + (i + 1 - n) - 1 = i
      BY <1>5, <2>2
    <3>2. QED
      BY <1>6, <1>7, <1>8, <3>1
  <2>3. QED
    BY <1>5, <2>1, <2>2
<1>10. J!Pieces[k] = J!Pieces[l]
  <2>1. J!Pieces[k] \in Seq(Tokens) /\ J!Pieces[l] \in Seq(Tokens)
    BY PiecesTyped
  <2>2. Len(J!Pieces[k]) = Len(J!Pieces[l])
    BY <1>3, <1>4, <1>8
  <2>3. \A i \in 1..Len(J!Pieces[k]) : J!Pieces[k][i] = J!Pieces[l][i]
    BY <1>3, <1>9
  <2>4. QED
    BY <2>1, <2>2, <2>3, SeqEqual
<1>11. QED
  BY <1>10, PiecesTell

-----------------------------------------------------------------------------
(* One line is open at most, and none after the end of a line.             *)
LEMMA OpenIsOne ==
  ASSUME NEW text \in Seq(Tokens)
  PROVE  /\ \A s, t \in OpenStarts(text) : s = t
         /\ OpenStarts(text) \in SUBSET (1..Len(text))
         /\ Fresh(text) => OpenStarts(text) = {}
<1>1. PICK n \in Nat : Len(text) = n
  OBVIOUS
<1>2. J!Starts(text) \subseteq 1..n
  BY <1>1 DEF J!Starts
<1>3. ASSUME NEW s \in OpenStarts(text), NEW t \in OpenStarts(text) PROVE ~ (s < t)
  <2>1. s \in J!Starts(text) /\ t \in J!Starts(text) /\ J!EndFrom(text, s) = n + 1 /\ t \in 1..n
    BY <1>1, <1>2, <1>3 DEF OpenStarts
  <2>2. s < t => J!EndFrom(text, s) < t
    BY <2>1, LinesApart
  <2>3. QED
    BY <1>1, <2>1, <2>2
<1>4. OpenStarts(text) \subseteq 1..n
  BY <1>2 DEF OpenStarts
<1>5. ASSUME NEW s \in OpenStarts(text), NEW t \in OpenStarts(text) PROVE s = t
  <2>1. s \in Nat /\ t \in Nat
    BY <1>4, <1>5
  <2>2. ~ (s < t) /\ ~ (t < s)
    BY <1>3, <1>5
  <2>3. QED
    BY <2>1, <2>2
<1>6. ASSUME Fresh(text), NEW s \in OpenStarts(text) PROVE FALSE
  <2>1. s \in 1..n /\ J!EndFrom(text, s) = n + 1
    BY <1>1, <1>4, <1>6 DEF OpenStarts
  <2>2. n \in s..(J!EndFrom(text, s) - 1) /\ text # <<>>
    BY <1>1, <2>1
  <2>3. text[n] # "nl"
    BY <1>1, <2>1, <2>2, LineEnds
  <2>4. QED
    BY <1>1, <1>6, <2>2, <2>3 DEF Fresh
<1>7. QED
  BY <1>1, <1>4, <1>5, <1>6

(* The line that is open and what its thread has still to print are of one *)
(* kind, and a thread that is not within a line owes one only before it.   *)
LEMMA OwesOne ==
  ASSUME NEW text \in Seq(Tokens), NEW k \in J!LineKinds, NEW rest, NEW s \in OpenStarts(text),
         Goes(J!LineFrom(text, s), rest, k)
  PROVE  Within(rest) /\ \A l \in J!LineKinds : Owes(text, rest, l) <=> l = k
<1>1. Within(rest)
  BY DEF Goes, Within
<1>2. \A l \in J!LineKinds : rest # J!Pieces[l]
  BY <1>1, PlacesApart
<1>3. ASSUME NEW l \in J!LineKinds, IsCut(text, rest, l) PROVE l = k
  <2>1. PICK t \in OpenStarts(text) : Goes(J!LineFrom(text, t), rest, l)
    BY <1>3 DEF IsCut
  <2>2. t = s
    BY OpenIsOne
  <2>3. QED
    BY <2>1, <2>2, OneKind
<1>4. IsCut(text, rest, k)
  BY DEF IsCut
<1>5. QED
  BY <1>1, <1>2, <1>3, <1>4 DEF Owes

LEMMA OwesOutside ==
  ASSUME NEW text, NEW rest, ~ Within(rest), NEW k \in J!LineKinds
  PROVE  Owes(text, rest, k) <=> rest = J!Pieces[k]
<1>1. ~ IsCut(text, rest, k)
  BY DEF IsCut, Goes, Within
<1>2. QED
  BY <1>1 DEF Owes

(* A piece that does not end a line closes none.  The end of a line closes *)
(* the one that was open.                                                  *)
LEMMA ClosedBy ==
  ASSUME NEW text \in Seq(Tokens), NEW p \in Tokens, NEW k
  PROVE  LET new == Append(text, p)
         IN  /\ Closed(text, k) \in SUBSET (1..Len(text)) /\ IsFiniteSet(Closed(text, k))
             /\ p # "nl" => Closed(new, k) = Closed(text, k)
             /\ p = "nl" => \A s \in OpenStarts(text) :
                  text[s] # "nl" /\ s \notin Closed(text, k)
                  /\ Closed(new, k) = Closed(text, k) \cup
                       (IF J!KindOf(J!LineFrom(text, s)) = k THEN {s} ELSE {})
<1>1. PICK n \in Nat : Len(text) = n
  OBVIOUS
<1> DEFINE new == Append(text, p)
<1>2. new \in Seq(Tokens) /\ Len(new) = n + 1 /\ (\A i \in 1..n : new[i] = text[i]) /\ new[n + 1] = p
      /\ n + 1 \in 1..Len(new) /\ DOMAIN new = 1..(n + 1)
  BY <1>1
<1>3. /\ J!Starts(new) = J!Starts(text) \cup (IF text = <<>> \/ text[n] = "nl" THEN {n + 1} ELSE {})
      /\ \A s \in 1..n : J!EndFrom(text, s) <= n =>
           J!EndFrom(new, s) = J!EndFrom(text, s) /\ J!LineFrom(new, s) = J!LineFrom(text, s)
      /\ \A s \in 1..n : J!EndFrom(text, s) = n + 1 /\ p = "nl" =>
           J!EndFrom(new, s) = n + 1 /\ J!LineFrom(new, s) = J!LineFrom(text, s)
      /\ \A s \in 1..n : J!EndFrom(text, s) = n + 1 /\ p # "nl" => J!EndFrom(new, s) = n + 2
      /\ p # "nl" => J!EndFrom(new, n + 1) = n + 2
  BY <1>1, OneMorePiece
<1> HIDE DEF new
<1>4. J!Starts(text) \subseteq 1..n
  BY <1>1 DEF J!Starts
<1>5. \A s \in 1..n : J!EndFrom(text, s) \in s..(n + 1)
  BY <1>1, LineEnds
<1>6. Closed(text, k) \in SUBSET (1..n) /\ IsFiniteSet(Closed(text, k))
  <2>1. Closed(text, k) \in SUBSET J!Starts(text) /\ DOMAIN text = 1..n
    BY <1>1 DEF Closed, LinesCounted
  <2>2. QED
    BY <1>4, <2>1, PlacesAreFinite
<1>7. ASSUME NEW s \in 1..n, J!EndFrom(text, s) <= n PROVE s \in Closed(new, k) <=> s \in Closed(text, k)
  <2>1. J!EndFrom(new, s) = J!EndFrom(text, s) /\ J!LineFrom(new, s) = J!LineFrom(text, s)
    BY <1>3, <1>7
  <2>2. J!EndFrom(new, s) <= n /\ J!EndFrom(new, s) <= n + 1 /\ new[s] = text[s]
    BY <1>2, <1>5, <1>7, <2>1
  <2>3. s \in J!Starts(new) <=> s \in J!Starts(text)
    BY <1>3
  <2>4. QED
    BY <1>1, <1>2, <1>7, <2>1, <2>2, <2>3 DEF Closed, LinesCounted
<1>8. n + 1 \notin Closed(new, k)
  <2>1. CASE p = "nl"
    BY <1>2, <2>1 DEF Closed, LinesCounted
  <2>2. CASE p # "nl"
    BY <1>2, <1>3, <2>2 DEF Closed
  <2>3. QED
    BY <2>1, <2>2
<1>9. Closed(new, k) \subseteq 1..n
  BY <1>2, <1>8 DEF Closed, LinesCounted, J!Starts
<1>10. ASSUME p # "nl" PROVE Closed(new, k) = Closed(text, k)
  <2>1. ASSUME NEW s \in 1..n, ~ (J!EndFrom(text, s) <= n)
        PROVE  s \notin Closed(new, k) /\ s \notin Closed(text, k)
    <3>1. J!EndFrom(text, s) = n + 1
      BY <1>5, <2>1
    <3>2. J!EndFrom(new, s) = n + 2
      BY <1>3, <1>10, <3>1
    <3>3. QED
      BY <1>1, <1>2, <3>1, <3>2 DEF Closed
  <2>2. QED
    BY <1>6, <1>7, <1>9, <2>1
<1>11. ASSUME p = "nl", NEW s \in OpenStarts(text)
       PROVE  /\ text[s] # "nl" /\ s \notin Closed(text, k)
              /\ Closed(new, k) = Closed(text, k) \cup
                   (IF J!KindOf(J!LineFrom(text, s)) = k THEN {s} ELSE {})
  <2>1. s \in 1..n /\ s \in J!Starts(text) /\ J!EndFrom(text, s) = n + 1
    BY <1>1, <1>4, <1>11 DEF OpenStarts
  <2>2. text[s] # "nl"
    <3>1. s \in s..(J!EndFrom(text, s) - 1)
      BY <2>1
    <3>2. QED
      BY <1>1, <2>1, <3>1, LineEnds
  <2>3. s \notin Closed(text, k)
    BY <1>1, <2>1 DEF Closed
  <2>4. J!EndFrom(new, s) = n + 1 /\ J!LineFrom(new, s) = J!LineFrom(text, s)
    BY <1>3, <1>11, <2>1
  <2>5. s \in Closed(new, k) <=> J!KindOf(J!LineFrom(text, s)) = k
    <3>1. s \in J!Starts(new) /\ new[s] = text[s]
      BY <1>2, <1>3, <2>1
    <3>2. QED
      BY <1>2, <2>2, <2>4, <3>1 DEF Closed, LinesCounted
  <2>6. ASSUME NEW t \in 1..n, t # s PROVE t \in Closed(new, k) <=> t \in Closed(text, k)
    <3>1. CASE J!EndFrom(text, t) <= n
      BY <1>7, <3>1
    <3>2. CASE ~ (J!EndFrom(text, t) <= n)
      <4>1. J!EndFrom(text, t) = n + 1
        BY <1>5, <3>2
      <4>2. t \notin J!Starts(text)
        <5>1. t \in J!Starts(text) => t \in OpenStarts(text)
          BY <1>1, <4>1 DEF OpenStarts
        <5>2. QED
          BY <2>6, <5>1, OpenIsOne
      <4>3. t # n + 1
        BY <2>6
      <4>4. t \notin J!Starts(new)
        BY <1>3, <4>2, <4>3
      <4>5. QED
        BY <4>2, <4>4 DEF Closed, LinesCounted
    <3>3. QED
      BY <3>1, <3>2
  <2>7. QED
    BY <1>6, <1>9, <2>1, <2>2, <2>3, <2>5, <2>6
<1>12. QED
  BY <1>1, <1>6, <1>10, <1>11 DEF new

-----------------------------------------------------------------------------
(* Rest one piece later.                                                   *)
LEMMA TailIs ==
  ASSUME NEW k \in J!LineKinds, NEW n \in 2..Len(J!Pieces[k])
  PROVE  /\ Tail(J!Pieces[k]) = Rest(k, 2) /\ 2 \in 2..Len(J!Pieces[k])
         /\ Head(J!Pieces[k]) = J!Pieces[k][1]
         /\ n = Len(J!Pieces[k]) => Tail(Rest(k, n)) = <<>>
         /\ n # Len(J!Pieces[k]) => Tail(Rest(k, n)) = Rest(k, n + 1) /\ n + 1 \in 2..Len(J!Pieces[k])
<1>1. PICK m \in Nat : Len(J!Pieces[k]) = m
  BY PiecesTyped
<1>2. J!Pieces[k] \in Seq(Tokens) /\ n \in Nat /\ 2 <= n /\ n <= m /\ J!Pieces[k] # <<>>
  BY <1>1, PiecesTyped
<1>3. \A i \in 2..m : /\ Rest(k, i) \in Seq(Tokens) /\ Len(Rest(k, i)) = m + 1 - i
                      /\ \A j \in 1..(m + 1 - i) : Rest(k, i)[j] = J!Pieces[k][i + j - 1]
  BY <1>1, RestShows
<1>4. Rest(k, n) \in Seq(Tokens) /\ Len(Rest(k, n)) = m + 1 - n /\ Rest(k, n) # <<>>
      /\ \A j \in 1..(m + 1 - n) : Rest(k, n)[j] = J!Pieces[k][n + j - 1]
  <2>1. n \in 2..m
    BY <1>2
  <2>2. Rest(k, n) \in Seq(Tokens) /\ Len(Rest(k, n)) = m + 1 - n
        /\ \A j \in 1..(m + 1 - n) : Rest(k, n)[j] = J!Pieces[k][n + j - 1]
    BY <1>3, <2>1
  <2>3. Rest(k, n) # <<>>
    BY RestShows
  <2>4. QED
    BY <2>2, <2>3
<1>5. /\ Tail(Rest(k, n)) \in Seq(Tokens) /\ Len(Tail(Rest(k, n))) = m - n
      /\ \A j \in 1..(m - n) : Tail(Rest(k, n))[j] = Rest(k, n)[j + 1]
  BY <1>2, <1>4
<1>6. Tail(J!Pieces[k]) = Rest(k, 2)
  <2>1. /\ Tail(J!Pieces[k]) \in Seq(Tokens) /\ Len(Tail(J!Pieces[k])) = m - 1
        /\ \A j \in 1..(m - 1) : Tail(J!Pieces[k])[j] = J!Pieces[k][j + 1]
    BY <1>1, <1>2
  <2>2. 2 \in 2..m /\ m + 1 - 2 = m - 1 /\ \A j \in 1..(m - 1) : 2 + j - 1 = j + 1
    BY <1>2
  <2>3. Rest(k, 2) \in Seq(Tokens) /\ Len(Rest(k, 2)) = m - 1
        /\ \A j \in 1..(m - 1) : Rest(k, 2)[j] = J!Pieces[k][j + 1]
    BY <1>3, <2>2
  <2>4. QED
    BY <2>1, <2>3, SeqEqual
<1>7. ASSUME n # m PROVE Tail(Rest(k, n)) = Rest(k, n + 1) /\ n + 1 \in 2..m
  <2>1. n + 1 \in 2..m /\ m + 1 - (n + 1) = m - n
    BY <1>2, <1>7
  <2>2. Rest(k, n + 1) \in Seq(Tokens) /\ Len(Rest(k, n + 1)) = m - n
        /\ \A j \in 1..(m - n) : Rest(k, n + 1)[j] = J!Pieces[k][n + 1 + j - 1]
    BY <1>3, <2>1
  <2>3. \A j \in 1..(m - n) : Tail(Rest(k, n))[j] = Rest(k, n + 1)[j]
    <3>1. SUFFICES ASSUME NEW j \in 1..(m - n) PROVE Tail(Rest(k, n))[j] = Rest(k, n + 1)[j]
      OBVIOUS
    <3>2. j + 1 \in 1..(m + 1 - n) /\ n + (j + 1) - 1 = n + 1 + j - 1
      BY <1>2
    <3>3. QED
      BY <1>4, <1>5, <2>2, <3>2
  <2>4. QED
    BY <1>5, <2>1, <2>2, <2>3, SeqEqual
<1>8. n = m => Tail(Rest(k, n)) = <<>>
  BY <1>2, <1>5
<1>9. QED
  BY <1>1, <1>2, <1>6, <1>7, <1>8

LEMMA JitInit == J!Init => JitInv
<1>1. SUFFICES ASSUME J!Init PROVE JitInv
  OBVIOUS
<1>2. pending = [c \in Compilers |-> <<>>] /\ begun = <<>> /\ output = <<>> /\ torn = 0
  BY <1>1 DEF J!Init
<1>3. \A c \in Compilers : ~ Within(pending[c]) /\ \A k \in J!LineKinds : pending[c] # J!Pieces[k]
  BY <1>2, PlacesApart
<1>4. PieceTyped
  BY <1>2 DEF PieceTyped
<1>5. ASSUME NEW k \in J!LineKinds
      PROVE  IsFiniteSet(Owed(k)) /\ Cardinality(Closed(output, k)) + Cardinality(Owed(k)) = J!Begun(k)
  <2>1. Owed(k) = {}
    BY <1>3, OwesOutside DEF Owed
  <2>2. Closed(output, k) = {}
    BY <1>2 DEF Closed, LinesCounted, J!Starts
  <2>3. J!Begun(k) = 0
    <3>1. {i \in DOMAIN begun : begun[i] = k} = {}
      BY <1>2
    <3>2. QED
      BY <3>1, CardinalityOfJit, FS_EmptySet DEF J!Begun
  <2>4. QED
    BY <2>1, <2>2, <2>3, FS_EmptySet
<1>6. QED
  BY <1>2, <1>3, <1>4, <1>5 DEF JitInv, WholePart, Fresh

LEMMA JitBegin == ASSUME JitInv, J!Begin PROVE JitInv'
<1>1. PICK c \in Compilers, k \in J!LineKinds :
        pending[c] = <<>> /\ pending' = [pending EXCEPT ![c] = J!Pieces[k]] /\ begun' = Append(begun, k)
  BY DEF J!Begin
<1>2. output' = output /\ torn' = torn
  BY DEF J!Begin
<1>3. pending' \in [Compilers -> Seq(Tokens)] /\ pending'[c] = J!Pieces[k]
      /\ \A d \in Compilers : d # c => pending'[d] = pending[d]
  BY <1>1, PiecesTyped DEF JitInv, PieceTyped
<1>4. PieceTyped'
  <2>1. ASSUME NEW d \in Compilers
        PROVE  pending'[d] = <<>> \/ Within(pending'[d]) \/ \E l \in J!LineKinds : pending'[d] = J!Pieces[l]
    BY <1>3 DEF JitInv, PieceTyped
  <2>2. begun' \in Seq(J!LineKinds)
    BY <1>1 DEF JitInv, PieceTyped
  <2>3. QED
    BY <1>2, <1>3, <2>1, <2>2 DEF JitInv, PieceTyped
<1>5. ~ Within(pending[c]) /\ ~ Within(pending'[c])
  BY <1>1, <1>3, PlacesApart
<1>6. \A d \in Compilers : Within(pending'[d]) <=> Within(pending[d])
  BY <1>3, <1>5
<1>7. ASSUME NEW l \in J!LineKinds, torn = 0
      PROVE  /\ IsFiniteSet(Owed(l)')
             /\ Cardinality(Closed(output', l)) + Cardinality(Owed(l)') = J!Begun(l)'
  <2>1. IsFiniteSet(Owed(l)) /\ Cardinality(Closed(output, l)) + Cardinality(Owed(l)) = J!Begun(l)
    BY <1>7 DEF JitInv, WholePart
  <2>2. PICK n \in Nat : Cardinality(Owed(l)) = n
    BY <2>1, FS_CardinalityType
  <2>3. c \notin Owed(l)
    BY <1>1, <1>5, OwesOutside, PlacesApart DEF Owed
  <2>4. PICK m \in Nat : Cardinality(Closed(output, l)) = m
    <3>1. output \in Seq(Tokens) /\ "nl" \in Tokens
      BY DEF JitInv, PieceTyped, Tokens
    <3>2. QED
      BY <3>1, ClosedBy, FS_CardinalityType
  <2>5. Owed(l)' = {d \in Compilers : Owes(output, pending'[d], l)}
    BY <1>2 DEF Owed
  <2>6. c \in Owed(l)' <=> k = l
    BY <1>3, <1>5, <2>5, OwesOutside, PiecesTell
  <2>7. \A d \in Compilers : d # c => (d \in Owed(l)' <=> d \in Owed(l))
    BY <1>3, <2>5 DEF Owed
  <2>8. Owed(l)' = Owed(l) \cup (IF k = l THEN {c} ELSE {})
    <3>1. Owed(l)' \subseteq Compilers /\ Owed(l) \subseteq Compilers
      BY <2>5 DEF Owed
    <3>2. QED
      BY <2>3, <2>6, <2>7, <3>1
  <2>9. IsFiniteSet(Owed(l)') /\ Cardinality(Owed(l)') = n + (IF k = l THEN 1 ELSE 0)
    <3>1. CASE k = l
      BY <2>1, <2>2, <2>3, <2>8, <3>1, FS_AddElement
    <3>2. CASE k # l
      BY <2>1, <2>2, <2>8, <3>2
    <3>3. QED
      BY <3>1, <3>2
  <2>10. J!Begun(l)' = J!Begun(l) + (IF k = l THEN 1 ELSE 0)
    <3> DEFINE new == begun'
    <3>1. PICK b \in Nat : Len(begun) = b
      BY DEF JitInv, PieceTyped
    <3>2. begun \in Seq(J!LineKinds)
      BY DEF JitInv, PieceTyped
    <3>3. Len(new) = b + 1 /\ DOMAIN new = 1..(b + 1) /\ DOMAIN begun = 1..b
          /\ new[b + 1] = k /\ \A i \in 1..b : new[i] = begun[i]
      BY <1>1, <3>1, <3>2
    <3> DEFINE old == {i \in DOMAIN begun : begun[i] = l}
    <3>4. IsFiniteSet(old) /\ b + 1 \notin old
      <4>1. IsFiniteSet(1..b)
        BY <3>1, FS_Interval
      <4>2. QED
        BY <3>3, <4>1, FS_Subset
    <3>5. {i \in DOMAIN new : new[i] = l} = old \cup (IF k = l THEN {b + 1} ELSE {})
      BY <3>3
    <3>6. J!Begun(l) = Cardinality(old) /\ J!Begun(l)' = Cardinality({i \in DOMAIN new : new[i] = l})
      BY CardinalityOfJit DEF J!Begun, J!Cardinality, Cardinality
    <3> HIDE DEF old, new
    <3>7. CASE k = l
      BY <3>4, <3>5, <3>6, <3>7, FS_AddElement
    <3>8. CASE k # l
      <4>1. J!Begun(l)' = J!Begun(l)
        BY <3>5, <3>6, <3>8
      <4>2. J!Begun(l) \in Nat
        BY <3>4, <3>6, FS_CardinalityType
      <4>3. QED
        BY <3>8, <4>1, <4>2
    <3>9. QED
      BY <3>7, <3>8
  <2>11. QED
    <3>1. m + n = J!Begun(l)
      BY <2>1, <2>2, <2>4
    <3>2. Cardinality(Closed(output', l)) = m
      BY <1>2, <2>4
    <3>3. QED
      BY <2>9, <2>10, <3>1, <3>2
<1>8. WholePart'
  <2>1. SUFFICES ASSUME torn' = 0 PROVE WholePart'
    BY DEF WholePart
  <2>2. torn = 0
    BY <1>2, <2>1
  <2>3. \A d, e \in Compilers : Within(pending'[d]) /\ Within(pending'[e]) => d = e
    BY <1>6, <2>2 DEF JitInv, WholePart
  <2>4. \A d \in Compilers : Within(pending'[d]) => \E l \in J!LineKinds : IsCut(output', pending'[d], l)
    <3>1. SUFFICES ASSUME NEW d \in Compilers, Within(pending'[d])
                   PROVE  \E l \in J!LineKinds : IsCut(output', pending'[d], l)
      OBVIOUS
    <3>2. Within(pending[d]) /\ pending'[d] = pending[d]
      BY <1>3, <1>5, <3>1
    <3>3. QED
      BY <1>2, <2>2, <3>2 DEF JitInv, WholePart
  <2>5. (\A d \in Compilers : ~ Within(pending'[d])) => Fresh(output')
    BY <1>2, <1>6, <2>2 DEF JitInv, WholePart
  <2>6. QED
    BY <1>7, <2>2, <2>3, <2>4, <2>5 DEF WholePart
<1>9. QED
  BY <1>4, <1>8 DEF JitInv

(* A thread prints its next piece.  While nothing is torn no other one is  *)
(* within a line.                                                          *)
LEMMA JitPrint == ASSUME JitInv, J!PrintPiece PROVE JitInv'
<1>1. PICK c \in Compilers :
        /\ pending[c] # <<>>
        /\ output' = Append(output, Head(pending[c])) /\ pending' = [pending EXCEPT ![c] = Tail(@)]
        /\ torn' = IF \E d \in Compilers \ {c} : J!MidLine(d) THEN 1 ELSE torn
  BY DEF J!PrintPiece
<1>2. begun' = begun
  BY DEF J!PrintPiece
<1> DEFINE p == Head(pending[c])
<1>3. pending[c] \in Seq(Tokens) /\ output \in Seq(Tokens) /\ torn \in {0, 1}
      /\ p \in Tokens /\ Tail(pending[c]) \in Seq(Tokens)
  BY <1>1 DEF JitInv, PieceTyped
<1>4. pending' \in [Compilers -> Seq(Tokens)] /\ pending'[c] = Tail(pending[c])
      /\ \A d \in Compilers : d # c => pending'[d] = pending[d]
  BY <1>1, <1>3 DEF JitInv, PieceTyped
<1>5. output' \in Seq(Tokens) /\ output' = Append(output, p)
  BY <1>1, <1>3
<1>6. Within(pending[c]) \/ \E k \in J!LineKinds : pending[c] = J!Pieces[k]
  BY <1>1 DEF JitInv, PieceTyped
<1>7. pending'[c] = <<>> \/ Within(pending'[c])
  <2>1. CASE Within(pending[c])
    <3>1. PICK k \in J!LineKinds : \E n \in 2..Len(J!Pieces[k]) : pending[c] = Rest(k, n)
      BY <2>1 DEF Within
    <3>2. PICK n \in 2..Len(J!Pieces[k]) : pending[c] = Rest(k, n)
      BY <3>1
    <3>3. QED
      BY <1>4, <3>2, TailIs DEF Within
  <2>2. ASSUME NEW k \in J!LineKinds, pending[c] = J!Pieces[k] PROVE Within(pending'[c])
    <3>1. pending'[c] = Rest(k, 2) /\ 2 \in 2..Len(J!Pieces[k])
      <4>1. 2 \in 2..Len(J!Pieces[k])
        <5>1. PICK m \in Nat : Len(J!Pieces[k]) = m
          BY PiecesTyped
        <5>2. QED
          BY <5>1, PiecesTell
      <4>2. QED
        BY <1>4, <2>2, <4>1, TailIs
    <3>2. QED
      BY <3>1 DEF Within
  <2>3. QED
    BY <1>6, <2>1, <2>2
<1>8. PieceTyped'
  <2>1. ASSUME NEW d \in Compilers
        PROVE  pending'[d] = <<>> \/ Within(pending'[d]) \/ \E l \in J!LineKinds : pending'[d] = J!Pieces[l]
    BY <1>4, <1>7 DEF JitInv, PieceTyped
  <2>2. torn' \in {0, 1}
    BY <1>1, <1>3
  <2>3. QED
    BY <1>2, <1>4, <1>5, <2>1, <2>2 DEF JitInv, PieceTyped
<1>9. SUFFICES ASSUME torn' = 0 PROVE WholePart'
  BY <1>8 DEF JitInv, WholePart
<1>10. torn = 0 /\ \A d \in Compilers : d # c => ~ Within(pending[d]) /\ ~ Within(pending'[d])
  BY <1>1, <1>4, <1>9, MidLineIs DEF JitInv
<1>11. \A l \in J!LineKinds :
         IsFiniteSet(Owed(l)) /\ Cardinality(Closed(output, l)) + Cardinality(Owed(l)) = J!Begun(l)
  BY <1>10 DEF JitInv, WholePart
<1>12. \A d \in Compilers \ {c}, l \in J!LineKinds : Owes(output', pending'[d], l) <=> Owes(output, pending[d], l)
  <2>1. SUFFICES ASSUME NEW d \in Compilers \ {c}, NEW l \in J!LineKinds
                 PROVE  Owes(output', pending'[d], l) <=> Owes(output, pending[d], l)
    OBVIOUS
  <2>2. ~ Within(pending[d]) /\ pending'[d] = pending[d]
    BY <1>4, <1>10
  <2>3. QED
    BY <2>2, OwesOutside
<1>13. \A l \in J!LineKinds : Owed(l)' = {d \in Compilers : Owes(output', pending'[d], l)}
  BY DEF Owed
<1>14. \A l \in J!LineKinds : J!Begun(l)' = J!Begun(l)
  BY <1>2 DEF J!Begun
<1> HIDE DEF p
<1>15. ASSUME NEW k \in J!LineKinds, pending[c] = J!Pieces[k] PROVE WholePart'
  <2>1. pending'[c] = Rest(k, 2) /\ p = J!Pieces[k][1] /\ 2 \in 2..Len(J!Pieces[k])
    <3>1. 2 \in 2..Len(J!Pieces[k])
      <4>1. PICK m \in Nat : Len(J!Pieces[k]) = m
        BY PiecesTyped
      <4>2. QED
        BY <4>1, PiecesTell
    <3>2. QED
      BY <1>4, <1>15, <3>1, TailIs DEF p
  <2>2. p # "nl"
    BY <2>1, PiecesTell DEF Firsts
  <2>3. ~ Within(pending[c]) /\ Fresh(output)
    BY <1>10, <1>15, PlacesApart DEF JitInv, WholePart
  <2>4. PICK n \in Nat : Len(output) = n
    BY <1>3
  <2>5. /\ n + 1 \in J!Starts(output') /\ J!EndFrom(output', n + 1) = n + 2
        /\ J!LineFrom(output', n + 1) = <<p>> /\ Len(output') = n + 1
    BY <1>3, <1>5, <2>2, <2>3, <2>4, OneMorePiece DEF Fresh
  <2>6. n + 1 \in OpenStarts(output')
    BY <2>4, <2>5 DEF OpenStarts
  <2>7. Goes(J!LineFrom(output', n + 1), pending'[c], k)
    <3>1. Len(<<p>>) = 2 - 1 /\ <<p>>[1] = J!Pieces[k][1] /\ \A i \in 1..(2 - 1) : i = 1
      BY <2>1
    <3>2. Len(<<p>>) = 2 - 1 /\ \A i \in 1..(2 - 1) : <<p>>[i] = J!Pieces[k][i]
      BY <3>1
    <3>3. QED
      BY <2>1, <2>5, <3>2 DEF Goes
  <2>8. Within(pending'[c]) /\ \A l \in J!LineKinds : Owes(output', pending'[c], l) <=> l = k
    BY <1>5, <2>6, <2>7, OwesOne
  <2>9. \A l \in J!LineKinds : Owes(output, pending[c], l) <=> l = k
    BY <1>15, <2>3, OwesOutside, PiecesTell
  <2>10. ASSUME NEW l \in J!LineKinds
         PROVE  /\ IsFiniteSet(Owed(l)')
                /\ Cardinality(Closed(output', l)) + Cardinality(Owed(l)') = J!Begun(l)'
    <3>1. Owed(l)' = Owed(l)
      BY <1>12, <1>13, <2>8, <2>9 DEF Owed
    <3>2. Closed(output', l) = Closed(output, l)
      BY <1>3, <1>5, <2>2, ClosedBy
    <3>3. QED
      BY <1>11, <1>14, <3>1, <3>2
  <2>11. IsCut(output', pending'[c], k)
    BY <2>6, <2>7 DEF IsCut
  <2>12. QED
    BY <1>10, <2>8, <2>10, <2>11 DEF WholePart
<1>16. CASE Within(pending[c])
  <2>1. PICK k \in J!LineKinds : IsCut(output, pending[c], k)
    BY <1>10, <1>16 DEF JitInv, WholePart
  <2>2. PICK s \in OpenStarts(output) : Goes(J!LineFrom(output, s), pending[c], k)
    BY <2>1 DEF IsCut
  <2> DEFINE line == J!LineFrom(output, s)
  <2>3. PICK n \in 2..Len(J!Pieces[k]) :
          pending[c] = Rest(k, n) /\ Len(line) = n - 1 /\ \A i \in 1..(n - 1) : line[i] = J!Pieces[k][i]
    BY <2>2 DEF Goes
  <2>4. PICK m \in Nat : Len(J!Pieces[k]) = m
    BY PiecesTyped
  <2>5. n \in 2..m /\ p = J!Pieces[k][n]
    BY <2>3, <2>4, RestShows DEF p
  <2>6. p = "nl" <=> n = m
    <3>1. n \in 1..Len(J!Pieces[k])
      BY <2>4, <2>5
    <3>2. QED
      BY <2>4, <2>5, <3>1, PiecesTell
  <2>7. PICK a \in Nat : Len(output) = a
    BY <1>3
  <2>8. s \in 1..a /\ s \in J!Starts(output) /\ J!EndFrom(output, s) = a + 1 /\ ~ Fresh(output)
    BY <1>3, <2>2, <2>7, OpenIsOne DEF OpenStarts
  <2>9. line \in Seq(Tokens)
    BY <1>3, <2>7, <2>8, LineShows DEF Copies
  <2>10. \A l \in J!LineKinds : Owes(output, pending[c], l) <=> l = k
    BY <1>3, <2>2, OwesOne
  <2> HIDE DEF line
  <2>11. CASE n # m
    <3>1. pending'[c] = Rest(k, n + 1) /\ n + 1 \in 2..Len(J!Pieces[k]) /\ p # "nl"
      BY <1>4, <2>3, <2>4, <2>5, <2>6, <2>11, TailIs
    <3>2. /\ s \in J!Starts(output') /\ J!EndFrom(output', s) = a + 2
          /\ J!LineFrom(output', s) = Append(line, p) /\ Len(output') = a + 1
      <4>1. s \in 1..Len(output) /\ J!EndFrom(output, s) = Len(output) + 1
        BY <2>7, <2>8
      <4>2. /\ J!EndFrom(Append(output, p), s) = Len(output) + 2
            /\ J!LineFrom(Append(output, p), s) = Append(J!LineFrom(output, s), p)
        BY <1>3, <3>1, <4>1, OneMorePiece
      <4>3. s \in J!Starts(Append(output, p))
        <5>1. J!Starts(output) \subseteq J!Starts(Append(output, p))
          BY <1>3, OneMorePiece
        <5>2. QED
          BY <2>8, <5>1
      <4>4. Len(Append(output, p)) = a + 1
        BY <1>3, <2>7
      <4>5. QED
        BY <1>5, <2>7, <4>2, <4>3, <4>4 DEF line
    <3>3. s \in OpenStarts(output')
      BY <2>7, <3>2 DEF OpenStarts
    <3>4. Goes(J!LineFrom(output', s), pending'[c], k)
      <4> DEFINE more == Append(line, p)
      <4>1. Len(more) = n /\ (\A i \in 1..(n - 1) : more[i] = line[i]) /\ more[n] = p
        BY <1>3, <2>3, <2>5, <2>9
      <4> HIDE DEF more
      <4>2. \A i \in 1..n : more[i] = J!Pieces[k][i]
        <5>1. SUFFICES ASSUME NEW i \in 1..n PROVE more[i] = J!Pieces[k][i]
          OBVIOUS
        <5>2. CASE i = n
          BY <2>5, <4>1, <5>2
        <5>3. CASE i # n
          <6>1. i \in 1..(n - 1)
            BY <2>5, <5>3
          <6>2. QED
            BY <2>3, <4>1, <6>1
        <5>4. QED
          BY <5>2, <5>3
      <4>3. n + 1 - 1 = n
        BY <2>5
      <4>4. Len(more) = n + 1 - 1 /\ \A i \in 1..(n + 1 - 1) : more[i] = J!Pieces[k][i]
        BY <4>1, <4>2, <4>3
      <4>5. J!LineFrom(output', s) = more
        BY <3>2 DEF more
      <4>6. QED
        BY <3>1, <4>4, <4>5 DEF Goes
    <3>5. Within(pending'[c]) /\ \A l \in J!LineKinds : Owes(output', pending'[c], l) <=> l = k
      BY <1>5, <3>3, <3>4, OwesOne
    <3>6. ASSUME NEW l \in J!LineKinds
          PROVE  /\ IsFiniteSet(Owed(l)')
                 /\ Cardinality(Closed(output', l)) + Cardinality(Owed(l)') = J!Begun(l)'
      <4>1. Owed(l)' = Owed(l)
        BY <1>12, <1>13, <2>10, <3>5 DEF Owed
      <4>2. Closed(output', l) = Closed(output, l)
        BY <1>3, <1>5, <3>1, ClosedBy
      <4>3. QED
        BY <1>11, <1>14, <4>1, <4>2
    <3>7. IsCut(output', pending'[c], k)
      BY <3>3, <3>4 DEF IsCut
    <3>8. QED
      BY <1>10, <3>5, <3>6, <3>7 DEF WholePart
  <2>12. CASE n = m
    <3>1. pending'[c] = <<>> /\ p = "nl"
      BY <1>4, <2>3, <2>4, <2>6, <2>12, TailIs
    <3>2. ~ Within(pending'[c]) /\ \A l \in J!LineKinds : ~ Owes(output', pending'[c], l)
      BY <3>1, PlacesApart, OwesOutside
    <3>3. Fresh(output')
      <4>1. Len(output') = a + 1 /\ output'[a + 1] = p
        BY <1>3, <1>5, <2>7
      <4>2. QED
        BY <3>1, <4>1 DEF Fresh
    <3>4. J!KindOf(line) = k
      <4>1. Len(line) = Len(J!Pieces[k]) - 1
        BY <2>3, <2>4, <2>12
      <4>2. \A i \in 1..Len(line) : line[i] = J!Pieces[k][i]
        BY <2>3
      <4>3. QED
        BY <2>9, <4>1, <4>2, PrintedIsCounted
    <3>5. ASSUME NEW l \in J!LineKinds
          PROVE  /\ IsFiniteSet(Owed(l)')
                 /\ Cardinality(Closed(output', l)) + Cardinality(Owed(l)') = J!Begun(l)'
      <4>1. Closed(output', l) = Closed(output, l) \cup (IF l = k THEN {s} ELSE {}) /\ s \notin Closed(output, l)
            /\ IsFiniteSet(Closed(output, l))
        BY <1>3, <1>5, <2>2, <3>1, <3>4, ClosedBy DEF line
      <4>2. Owed(l)' = Owed(l) \ {c}
        BY <1>12, <1>13, <3>2 DEF Owed
      <4>3. c \in Owed(l) <=> l = k
        BY <2>10 DEF Owed
      <4>4. IsFiniteSet(Owed(l)) /\ Cardinality(Closed(output, l)) + Cardinality(Owed(l)) = J!Begun(l)
        BY <1>11
      <4>5. PICK x \in Nat, y \in Nat : Cardinality(Closed(output, l)) = x /\ Cardinality(Owed(l)) = y
        BY <4>1, <4>4, FS_CardinalityType
      <4>6. CASE l = k
        <5>1. Cardinality(Closed(output', l)) = x + 1
          BY <4>1, <4>5, <4>6, FS_AddElement
        <5>2. IsFiniteSet(Owed(l)') /\ Cardinality(Owed(l)') = y - 1
          BY <4>2, <4>3, <4>4, <4>5, <4>6, FS_RemoveElement
        <5>3. QED
          BY <1>14, <4>4, <4>5, <5>1, <5>2
      <4>7. CASE l # k
        <5>1. Closed(output', l) = Closed(output, l)
          BY <4>1, <4>7
        <5>2. Owed(l)' = Owed(l)
          BY <4>2, <4>3, <4>7
        <5>3. QED
          BY <1>14, <4>4, <5>1, <5>2
      <4>8. QED
        BY <4>6, <4>7
    <3>6. QED
      BY <1>10, <3>2, <3>3, <3>5 DEF WholePart
  <2>13. QED
    BY <2>11, <2>12
<1>17. QED
  BY <1>6, <1>15, <1>16

LEMMA JitStep == JitInv /\ [J!Next]_J!vars => JitInv'
<1>1. SUFFICES ASSUME JitInv, [J!Next]_J!vars PROVE JitInv'
  OBVIOUS
<1>2. CASE J!Begin
  BY <1>1, <1>2, JitBegin
<1>3. CASE J!PrintPiece
  BY <1>1, <1>3, JitPrint
<1>4. CASE UNCHANGED J!vars
  BY <1>1, <1>4 DEF J!vars, JitInv, PieceTyped, WholePart, Owed, J!Begun
<1>5. QED
  BY <1>1, <1>2, <1>3, <1>4 DEF J!Next

(* Once no thread has anything left to print, the lines begun are those    *)
(* that ended, and as many as are counted.                                 *)
LEMMA JitAnswers == JitInv => J!TornLinesInventNothing
<1>1. SUFFICES ASSUME JitInv PROVE J!TornLinesInventNothing
  OBVIOUS
<1>2. output \in Seq(Tokens)
  BY <1>1 DEF JitInv, PieceTyped
<1> DEFINE counted == J!Counts(output)
<1>3. counted = [k \in J!Counters |-> Cardinality(LinesCounted(output, k))]
  BY CardinalityOfJit DEF J!Counts, LinesCounted
<1>4. \A p : J!Printed(p) = Cardinality(PiecesAt(output, p))
  BY CardinalityOfJit DEF J!Printed, PiecesAt
<1> HIDE DEF counted
<1>5. /\ counted["compile"] + counted["deopt"] + counted["osr"] + counted["native"]
           <= J!Printed("compile") + J!Printed("osr") + J!Printed("native")
      /\ \A k \in J!Heads : counted[k] <= J!Printed(k)
      /\ counted["deopt"] <= J!Printed("not_entrant")
      /\ counted["inlined"] <= J!Printed("inline")
      /\ counted["intrinsic"] <= J!Printed("intrinsic")
      /\ counted["inlined"] + counted["intrinsic"] + counted["failed"] <= J!Printed("@")
      /\ counted["full"] <= J!Printed("cache_full")
  BY <1>2, <1>3, <1>4, TornBounds
<1>6. ASSUME torn = 0, \A c \in Compilers : pending[c] = <<>>, NEW k \in J!LineKinds
      PROVE  counted[k] = J!Begun(k)
  <2>1. \A c \in Compilers : ~ Within(pending[c]) /\ pending[c] # J!Pieces[k]
    BY <1>6, PlacesApart
  <2>2. Fresh(output) /\ Cardinality(Closed(output, k)) + Cardinality(Owed(k)) = J!Begun(k)
    BY <1>1, <1>6, <2>1 DEF JitInv, WholePart
  <2>3. Owed(k) = {}
    BY <2>1, OwesOutside DEF Owed
  <2>4. Closed(output, k) = LinesCounted(output, k)
    <3>1. PICK n \in Nat : Len(output) = n
      BY <1>2
    <3>2. ASSUME NEW s \in LinesCounted(output, k) PROVE J!EndFrom(output, s) <= n
      <4>1. s \in J!Starts(output) /\ s \in 1..n
        BY <3>1 DEF LinesCounted, J!Starts
      <4>2. J!EndFrom(output, s) \in s..(n + 1)
        BY <1>2, <3>1, <4>1, LineEnds
      <4>3. s \notin OpenStarts(output)
        BY <1>2, <2>2, OpenIsOne
      <4>4. J!EndFrom(output, s) # n + 1
        BY <3>1, <4>1, <4>3 DEF OpenStarts
      <4>5. QED
        BY <3>1, <4>1, <4>2, <4>4
    <3>3. QED
      BY <3>1, <3>2 DEF Closed
  <2>5. Cardinality(LinesCounted(output, k)) \in Nat
    BY <1>2, CountedOnce
  <2>6. k \in J!Counters
    BY DEF J!Counters
  <2>7. QED
    BY <1>3, <2>2, <2>3, <2>4, <2>5, <2>6, FS_EmptySet
<1>7. QED
  BY <1>5, <1>6 DEF J!TornLinesInventNothing, counted
=============================================================================
